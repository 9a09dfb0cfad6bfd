---------------------------- MODULE StatusPoller ----------------------------
(***************************************************************************)
(* The card of one repository in the browser: it polls index-status until  *)
(* the status it shows is terminal, and offers to retry a failed index.    *)
(* The server is IndexingServer, which IndexLifecycle implements, with the *)
(* requests for a run that reach it: from this card, from the sweeper, and *)
(* from other members of the project.                                      *)
(***************************************************************************)
EXTENDS Naturals, IndexingServer

CONSTANT FETCH_RETRIES   \* the query's retry option: 3

VARIABLES
  requested,      \* whether a run of it is on its way
  shown,          \* the status in the query's data
  fetching,       \* "idle", "sent", or "answered"
  answer,         \* the status on its way to the browser
  failures,       \* failed attempts of this fetch
  isError,        \* whether the last fetch failed for good
  retryPending,   \* whether the retry button's request is under way
  visible         \* whether the tab is

server == <<serverVars, requested>>
query == <<shown, fetching, answer, failures, isError>>
pollerVars == <<server, query, retryPending, visible>>

TERMINAL_STATUSES == {"INDEXED", "FAILED"}
-----------------------------------------------------------------------------
(* The server, one step of a run at a time.                                *)

TakeRequest ==
  /\ requested /\ AcquireLock
  /\ requested' = FALSE

Serve ==
  /\ \/ TakeRequest
     \/ (CreateJob \/ MarkRepository \/ MarkJob) /\ UNCHANGED requested
  /\ UNCHANGED <<query, retryPending, visible>>

(* A request of somebody else's, or of the sweeper's.                      *)
RequestElsewhere ==
  /\ row # "INDEXING" /\ requested' = TRUE
  /\ UNCHANGED <<serverVars, query, retryPending, visible>>
-----------------------------------------------------------------------------
(* The query.  A fetch that is under way is not started again.             *)

StartFetch ==
  /\ fetching = "idle"
  /\ fetching' = "sent" /\ failures' = 0
  /\ UNCHANGED <<server, shown, answer, isError, retryPending, visible>>

BugStopsOnError == visible /\ ~isError /\ shown \notin TERMINAL_STATUSES /\ StartFetch

(* refetchInterval: not while the tab is hidden.                           *)
Poll == visible /\ shown \notin TERMINAL_STATUSES /\ StartFetch

(* The window gets the focus when the data is stale.                       *)
Refocus == visible /\ StartFetch

ServerAnswers ==
  /\ fetching = "sent"
  /\ answer' = served /\ fetching' = "answered"
  /\ UNCHANGED <<server, shown, failures, isError, retryPending, visible>>

Deliver ==
  /\ fetching = "answered"
  /\ shown' = answer /\ isError' = FALSE /\ fetching' = "idle"
  /\ UNCHANGED <<server, answer, failures, retryPending, visible>>

(* Data that was fetched stays when a later fetch fails.                   *)
FetchFails ==
  /\ fetching \in {"sent", "answered"}
  /\ IF failures < FETCH_RETRIES
       THEN fetching' = "sent" /\ failures' = failures + 1 /\ UNCHANGED isError
       ELSE fetching' = "idle" /\ isError' = TRUE /\ UNCHANGED failures
  /\ UNCHANGED <<server, shown, answer, retryPending, visible>>

PressRetry ==
  /\ shown = "FAILED" /\ ~retryPending
  /\ retryPending' = TRUE
  /\ UNCHANGED <<server, query, visible>>

(* 202: router.refresh() renders the card again, with data the query holds *)
(* already; 409 while the repository is being indexed.                     *)
RetryAnswered ==
  /\ retryPending
  /\ \/ row # "INDEXING" /\ requested' = TRUE
     \/ row = "INDEXING" /\ UNCHANGED requested
  /\ retryPending' = FALSE
  /\ UNCHANGED <<serverVars, query, visible>>

(* 429, or the API is not reached.                                         *)
RetryRefused ==
  /\ retryPending
  /\ retryPending' = FALSE
  /\ UNCHANGED <<server, query, visible>>

HideOrShow ==
  /\ visible' = ~visible
  /\ UNCHANGED <<server, query, retryPending>>

(* The page is rendered, in any state of the server, with the row's        *)
(* status, not with the job's.                                             *)
PollerInit ==
  /\ \/ row = "PENDING" /\ result = "none"
     \/ row = "INDEXING" /\ result \in {"none", "RUNNING", "SUCCEEDED", "FAILED"}
     \/ row = "INDEXED" /\ result = "SUCCEEDED"
     \/ row = "FAILED" /\ result = "FAILED"
  /\ \/ job = result
     \/ job = "RUNNING" /\ result \in {"SUCCEEDED", "FAILED"}
  /\ requested \in BOOLEAN
  /\ shown = row /\ fetching = "idle" /\ answer = row
  /\ failures = 0 /\ isError = FALSE
  /\ retryPending = FALSE /\ visible = TRUE

PollerNext ==
  \/ Serve \/ RequestElsewhere
  \/ Poll \/ Refocus \/ ServerAnswers \/ Deliver \/ FetchFails
  \/ PressRetry \/ RetryAnswered \/ RetryRefused \/ HideOrShow

PollerSpec == PollerInit /\ [][PollerNext]_pollerVars
-----------------------------------------------------------------------------
(* A visible card does not go on showing an unfinished status that the     *)
(* server has left behind, however many fetches failed meanwhile: "a       *)
(* network error never blanks the UI", nor may it end the polling          *)
(* (index-status-poller.tsx:36-40).  A stale FAILED can stay: the job of   *)
(* the previous run is served until the next run has created its own.      *)
StaleProgressGoes ==
  (shown \notin TERMINAL_STATUSES /\ shown # served)
    ~> (shown \in TERMINAL_STATUSES \/ shown = served \/ ~visible)
=============================================================================
