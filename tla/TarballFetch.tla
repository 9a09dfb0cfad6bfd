---------------------------- MODULE TarballFetch ----------------------------
(***************************************************************************)
(* One run of repository-index downloads the tarball of its commit: the    *)
(* step fetch-extract-persist asks for a token, asks api.github.com for    *)
(* the tarball, and follows one redirect.  A rate limit is the step's      *)
(* result and the run sleeps before the next such step; any other failure  *)
(* ends the run or is thrown for Inngest to execute the step again.        *)
(* GitHub is external: it may limit the app for a while at any time.       *)
(***************************************************************************)
EXTENDS Integers

CONSTANTS
  MAX_RATE_LIMIT_SLEEPS,  \* sleeps of one run: 5
  FETCH_STEP_RETRIES,     \* further executions of a step that threw: 3
  DEFAULT_WAIT,           \* the sleep when no wait is known: 60 s
  LIMITS,                 \* how long a limit may last, in seconds
  LAST_SECOND             \* bound on the clock

VARIABLES
  second,    \* the clock
  limit,     \* GitHub's latest limit of the app, [kind, until]
  download,  \* "token", "request", "redirected", "asleep", "fetched", "failed"
  wakeAt,    \* when the sleep ends
  sleeps,    \* rate-limit sleeps of this run
  thrown,    \* executions of this step that threw
  given,     \* the limit this run was last told of, [kind, until]
  errorCode  \* why the run failed, or "none"

fetchVars == <<second, limit, download, wakeAt, sleeps, thrown, given, errorCode>>

LimitKinds == {"none", "primary", "secondary", "mint"}
NoLimit == [kind |-> "none", until |-> 0]

ASSUME FetchConstants ==
  /\ MAX_RATE_LIMIT_SLEEPS \in Nat /\ FETCH_STEP_RETRIES \in Nat
  /\ DEFAULT_WAIT \in Nat /\ LAST_SECOND \in Nat /\ LIMITS \subseteq Nat \ {0}

Limited == limit.kind # "none" /\ second < limit.until
-----------------------------------------------------------------------------
(* The headers of a refusal.  A primary limit has x-ratelimit-reset and no *)
(* retry-after, a secondary limit has retry-after.                         *)

HeaderAbsent == -1
retryAfterHeader == IF limit.kind = "secondary" THEN limit.until - second ELSE HeaderAbsent

(* Number(headers.get(h)): Headers.get gives null, and Number(null) is 0.  *)
NumberOf(header) == IF header = HeaderAbsent THEN 0 ELSE header

BugHalves == (limit.until - second) \div 2

rateLimitResetAtSeconds ==
  IF NumberOf(retryAfterHeader) >= 0 THEN NumberOf(retryAfterHeader)
  ELSE IF limit.until > second THEN limit.until - second ELSE 0
-----------------------------------------------------------------------------
FetchFailsWith(code) ==
  /\ download' = "failed" /\ errorCode' = code
  /\ UNCHANGED <<second, limit, wakeAt, sleeps, thrown, given>>

(* Thrown out of the step: Inngest executes it again, a bounded number of  *)
(* times.                                                                  *)
Throws ==
  IF thrown < FETCH_STEP_RETRIES
    THEN /\ download' = "token" /\ thrown' = thrown + 1
         /\ UNCHANGED <<second, limit, wakeAt, sleeps, given, errorCode>>
    ELSE FetchFailsWith("RETRIES_EXHAUSTED")

(* The step's result is rateLimited: the loop of the handler.              *)
SleepFor(wait, told) ==
  /\ IF sleeps < MAX_RATE_LIMIT_SLEEPS
       THEN /\ download' = "asleep" /\ wakeAt' = second + wait /\ sleeps' = sleeps + 1
            /\ UNCHANGED errorCode
       ELSE /\ download' = "failed" /\ errorCode' = "TARBALL_DOWNLOAD_FAILED"
            /\ UNCHANGED <<wakeAt, sleeps>>
  /\ given' = told
  /\ UNCHANGED <<second, limit, thrown>>

(* getInstallationToken gives a token, or throws.                          *)
GetToken ==
  /\ download = "token"
  /\ \/ /\ download' = "request"
        /\ UNCHANGED <<second, limit, wakeAt, sleeps, thrown, given, errorCode>>
     \/ FetchFailsWith("ACCESS_REVOKED")
     \/ \E wait \in LIMITS : SleepFor(wait, [kind |-> "mint", until |-> second + wait])
     \/ SleepFor(DEFAULT_WAIT, NoLimit)
     \/ Throws

(* 403 or 429 with headers of a rate limit.                                *)
RequestLimited ==
  /\ download = "request" /\ Limited
  /\ SleepFor(rateLimitResetAtSeconds, limit)

(* 302 to codeload; 404; 401 or a plain 403; 302 to another host; 5xx or   *)
(* no answer.                                                              *)
RequestAnswered ==
  /\ download = "request" /\ ~Limited
  /\ \/ /\ download' = "redirected"
        /\ UNCHANGED <<second, limit, wakeAt, sleeps, thrown, given, errorCode>>
     \/ \E code \in {"REPO_NOT_FOUND", "ACCESS_REVOKED", "UNSAFE_ARCHIVE"} :
          FetchFailsWith(code)
     \/ Throws

(* codeload streams the archive, or answers an error or another redirect.  *)
FollowRedirect ==
  /\ download = "redirected"
  /\ \/ /\ download' = "fetched"
        /\ UNCHANGED <<second, limit, wakeAt, sleeps, thrown, given, errorCode>>
     \/ Throws

(* The next step has its own id and its own retries.                       *)
Wake ==
  /\ download = "asleep" /\ second >= wakeAt
  /\ download' = "token" /\ thrown' = 0
  /\ UNCHANGED <<second, limit, wakeAt, sleeps, given, errorCode>>

SecondPassesBy ==
  /\ second < LAST_SECOND
  /\ second' = second + 1
  /\ UNCHANGED <<limit, download, wakeAt, sleeps, thrown, given, errorCode>>

GithubLimits ==
  /\ ~Limited
  /\ \E kind \in {"primary", "secondary"}, n \in LIMITS :
       limit' = [kind |-> kind, until |-> second + n]
  /\ UNCHANGED <<second, download, wakeAt, sleeps, thrown, given, errorCode>>

FetchInit ==
  /\ second = 0 /\ limit = NoLimit
  /\ download = "token" /\ wakeAt = 0 /\ sleeps = 0 /\ thrown = 0
  /\ given = NoLimit /\ errorCode = "none"

FetchNext ==
  \/ GetToken \/ RequestLimited \/ RequestAnswered \/ FollowRedirect \/ Wake
  \/ SecondPassesBy \/ GithubLimits

FetchSpec == FetchInit /\ [][FetchNext]_fetchVars
-----------------------------------------------------------------------------
Asks == download = "request" /\ download' # "request"

(* After a refusal that said how many seconds to wait, of the token or of  *)
(* the tarball, the tarball is not asked for again before they passed,     *)
(* through whatever failures and retries of steps came between             *)
(* (repository-index.ts, the rate-limit loop).                             *)
WaitsAsAsked ==
  [][Asks /\ given.kind \in {"secondary", "mint"} => second >= given.until]_fetchVars

(* After any rate limit the tarball is not asked for again before the time *)
(* at which GitHub said the limit resets: "step.sleepUntil(resetTime),     *)
(* resume as the retry mechanism" (repository-index.ts:149-154).           *)
WaitsForReset == [][Asks /\ given.kind # "none" => second >= given.until]_fetchVars
=============================================================================
