-------------------------- MODULE WebhookIngestion --------------------------
(***************************************************************************)
(* POST /api/webhooks/github, and the webhook sweeper of the worker.       *)
(*                                                                         *)
(* A request records its delivery (one WebhookEvent row per delivery id),  *)
(* then resolves the tenants, writes their PullRequest rows, saves the     *)
(* review requests in the row, sends them to Inngest, and marks the row.   *)
(* Installation and repository deliveries move connection statuses         *)
(* instead.  Every await is a step; a request may die at any of them.      *)
(* The sweeper sends what rows left PENDING still hold.                    *)
(*                                                                         *)
(* A refused request (signature, event type, unreadable JSON, rate limit)  *)
(* and a ping record nothing, exactly as a delivery never received.        *)
(***************************************************************************)
EXTENDS GithubDeliveries, FiniteSets

CONSTANTS
  Requests,              \* HTTP requests handled at the same time
  UsersMay,              \* rows users connect or disconnect, projects they delete
  ReviewsDrafts,         \* projects whose settings review draft pull requests
  SWEEP_BATCH_LIMIT,     \* rows one sweep takes
  SLOW_REQUESTS          \* a request may outlive the sweeper's threshold

ASSUME IngestionAssumption ==
  /\ ReviewsDrafts \subseteq Projects
  /\ SWEEP_BATCH_LIMIT \in Nat \ {0}
  /\ SLOW_REQUESTS \in BOOLEAN

VARIABLES
  rows,          \* rows[d]: the WebhookEvent row of delivery d
  created,       \* rows inserted so far
  aged,          \* the first aged of them are older than the threshold
  request,       \* request[q]: where request q is
  pullRequest,   \* pullRequest[t]: the PullRequest row of repository row t
  late,          \* sends given up on that may still reach Inngest
  seen,          \* event ids Inngest has accepted
  started,       \* started[e]: review runs Inngest started for e
  sweep          \* the run of webhook-sweeper

inngestVars == <<late, seen, started>>
rowVars == <<rows, created>>
vars == <<connectionVars, githubVars, rowVars, aged, request, pullRequest,
          inngestVars, sweep>>

Reviews == [repo : Rows, sha : Shas]

NoRow == [status |-> "ABSENT", payload |-> {}, at |-> 0]

WebhookEvents ==
  [status : {"ABSENT", "PENDING", "DISPATCHED", "IGNORED", "FAILED"},
   payload : SUBSET Reviews, at : 0..MAX_DELIVERIES]

Idle == [pc |-> "idle", d |-> 0, todo |-> {}, events |-> {}]

RequestStates ==
  [pc : {"idle", "insert", "resolve", "upsert", "save", "send", "mark-dispatched",
         "mark-ignored", "mark-failed", "sync-installation", "sync-repositories"},
   d : 0..MAX_DELIVERIES, todo : SUBSET Rows, events : SUBSET Reviews]

Sweep(pc, marked, tries) ==
  [pc |-> pc, sends |-> sweep.sends, skips |-> sweep.skips, events |-> sweep.events,
   marked |-> marked, tries |-> tries]

Asleep == [pc |-> "idle", sends |-> {}, skips |-> {}, events |-> {}, marked |-> {},
           tries |-> 0]

SweepStates ==
  [pc : {"idle", "send", "mark"}, sends : SUBSET Deliveries,
   skips : SUBSET Deliveries, events : SUBSET Reviews,
   marked : SUBSET Deliveries, tries : 0..1]

TypeOK ==
  /\ ConnectionsTypeOK
  /\ GithubTypeOK
  /\ rows \in [Deliveries -> WebhookEvents]
  /\ created \in 0..MAX_DELIVERIES /\ aged \in 0..created
  /\ request \in [Requests -> RequestStates]
  /\ pullRequest \in [Rows -> PullRequests \cup {None}]
  /\ late \subseteq SUBSET Reviews
  /\ seen \subseteq Rows \X Shas
  /\ started \in [Reviews -> Nat]
  /\ sweep \in SweepStates

Init ==
  /\ ConnectionsInit
  /\ \A t \in Rows \ UsersMay : connection[t] = "ACTIVE"
  /\ GithubInit
  /\ rows = [d \in Deliveries |-> NoRow]
  /\ created = 0 /\ aged = 0
  /\ request = [q \in Requests |-> Idle]
  /\ pullRequest = [t \in Rows |-> None]
  /\ late = {} /\ seen = {}
  /\ started = [e \in Reviews |-> 0]
  /\ sweep = Asleep
-----------------------------------------------------------------------------
(* Inngest.                                                                *)

BugPrKey(e) == <<GithubRepoOf[e.repo], e.sha>>

(* The event id: one per repository row, pull request and head.            *)
PrKey(e) == <<e.repo, e.sha>>

BugStarts(es) == es

(* Inngest drops an event whose id it has seen.                            *)
Starts(es) == {e \in es : PrKey(e) \notin seen}

(* Inngest accepts a send: of the events under one id, one starts a run.   *)
Accept(es) ==
  /\ seen' = seen \cup {PrKey(e) : e \in es}
  /\ \E new \in SUBSET Starts(es) :
       /\ {PrKey(e) : e \in new} = {PrKey(e) : e \in Starts(es)}
       /\ \A e, f \in new : PrKey(e) = PrKey(f) => e = f
       /\ started' = [e \in Reviews |-> started[e] + IF e \in new THEN 1 ELSE 0]

(* A send its sender gave up on gets through after all.                    *)
AcceptLate ==
  \E es \in late :
    /\ Accept(es)
    /\ late' = late \ {es}
    /\ UNCHANGED <<connectionVars, githubVars, rowVars, aged, request,
                   pullRequest, sweep>>
-----------------------------------------------------------------------------
(* Requests.                                                               *)

At(q, pc) == request[q].pc = pc

Delivery(q) == event[request[q].d]

(* Request q is past the dedup gate: the row of its delivery is its own.   *)
Owns(q, d) == request[q].d = d /\ request[q].pc \notin {"idle", "insert"}

Becomes(q, pc, todo, events) ==
  request' = [request EXCEPT ![q] =
    [pc |-> pc, d |-> request[q].d, todo |-> todo, events |-> events]]

Goto(q, pc) == Becomes(q, pc, request[q].todo, request[q].events)

Ends(q) == request' = [request EXCEPT ![q] = Idle]

(* GitHub sends, or sends again, delivery d.                               *)
Receive(q, d) ==
  /\ At(q, "idle")
  /\ d <= emitted
  /\ request' = [request EXCEPT ![q] =
                   [pc |-> "insert", d |-> d, todo |-> {}, events |-> {}]]
  /\ UNCHANGED <<connectionVars, githubVars, rowVars, aged, pullRequest,
                 inngestVars, sweep>>

(* The step after insertPending: what kind of delivery this is.            *)
FirstStep(e) ==
  IF e.type = "push" THEN "mark-ignored"
  ELSE IF e.action = "malformed" THEN "mark-failed"
  ELSE IF e.type = "pull_request" THEN "resolve"
  ELSE IF e.type = "installation" /\ e.action # "deleted" THEN "sync-installation"
  ELSE "sync-repositories"

BugInsertPending(q) ==
  LET d == request[q].d IN
  /\ At(q, "insert")
  /\ created' = created + 1
  /\ rows' = [rows EXCEPT ![d] =
               [status |-> "PENDING", payload |-> {}, at |-> created + 1]]
  /\ Goto(q, FirstStep(Delivery(q)))
  /\ UNCHANGED <<connectionVars, githubVars, aged, pullRequest, inngestVars, sweep>>

(* insertPending: the dedup gate is the unique delivery id.                *)
InsertPending(q) ==
  LET d == request[q].d IN
  /\ At(q, "insert")
  /\ \/ /\ rows[d].status = "ABSENT"
        /\ created' = created + 1
        /\ rows' = [rows EXCEPT ![d] =
                     [status |-> "PENDING", payload |-> {}, at |-> created + 1]]
        /\ Goto(q, FirstStep(Delivery(q)))
     \/ /\ rows[d].status # "ABSENT"
        /\ Ends(q)
        /\ UNCHANGED rowVars
  /\ UNCHANGED <<connectionVars, githubVars, aged, pullRequest, inngestVars, sweep>>

(* routePullRequestEvent: the reviews a delivery asks for.                 *)
RoutePullRequestEvent(e, tenants) ==
  {[repo |-> t, sha |-> e.pull.sha] :
     t \in {u \in tenants :
              /\ e.action \in REVIEW_TRIGGERING_ACTIONS
              /\ \/ e.action = "ready_for_review"
                 \/ ~e.pull.draft
                 \/ ProjectOf[u] \in ReviewsDrafts}}

BugResolve(q) ==
  LET e == Delivery(q)
      tenants == FindConnected(e.on)
  IN
  /\ At(q, "resolve")
  /\ Becomes(q, IF RoutePullRequestEvent(e, tenants) = {} THEN "mark-ignored" ELSE "save",
             {}, RoutePullRequestEvent(e, tenants))
  /\ UNCHANGED <<connectionVars, githubVars, rowVars, aged, pullRequest,
                 inngestVars, sweep>>

(* findConnectedByGithubRepoId and the routing decision.                   *)
Resolve(q) ==
  LET e == Delivery(q)
      tenants == FindConnected(e.on)
  IN
  /\ At(q, "resolve")
  /\ Becomes(q, IF tenants = {} THEN "mark-ignored" ELSE "upsert",
             tenants, RoutePullRequestEvent(e, tenants))
  /\ UNCHANGED <<connectionVars, githubVars, rowVars, aged, pullRequest,
                 inngestVars, sweep>>

(* upsertMinimal of one tenant, in whatever order the query returned them. *)
UpsertMinimal(q) ==
  /\ At(q, "upsert")
  /\ \E t \in request[q].todo :
       /\ pullRequest' = [pullRequest EXCEPT ![t] = Delivery(q).pull]
       /\ \/ /\ request[q].todo # {t}
             /\ Becomes(q, "upsert", request[q].todo \ {t}, request[q].events)
          \/ /\ request[q].todo = {t}
             /\ Becomes(q, IF request[q].events = {} THEN "mark-ignored" ELSE "save",
                        {}, request[q].events)
  /\ UNCHANGED <<connectionVars, githubVars, rowVars, aged, inngestVars, sweep>>

SavePendingDispatchPayload(q) ==
  /\ At(q, "save")
  /\ rows' = [rows EXCEPT ![request[q].d].payload = request[q].events]
  /\ Goto(q, "send")
  /\ UNCHANGED <<connectionVars, githubVars, created, aged, pullRequest,
                 inngestVars, sweep>>

(* emitPullRequestReviewRequested: Inngest answers within EMIT_TIMEOUT_MS. *)
SendAccepted(q) ==
  /\ At(q, "send")
  /\ Accept(request[q].events)
  /\ Goto(q, "mark-dispatched")
  /\ UNCHANGED <<connectionVars, githubVars, rowVars, aged, pullRequest, late, sweep>>

(* The send fails, times out, or the process dies meanwhile: the row stays *)
(* PENDING, and the send may get through later.                            *)
SendUnanswered(q) ==
  /\ At(q, "send")
  /\ late' = late \cup {request[q].events}
  /\ Ends(q)
  /\ UNCHANGED <<connectionVars, githubVars, rowVars, aged, pullRequest, seen,
                 started, sweep>>

(* markDispatched, markIgnored, markFailed: unconditional updates.         *)
Mark(q, pc, status) ==
  /\ At(q, pc)
  /\ rows' = [rows EXCEPT ![request[q].d].status = status]
  /\ Ends(q)
  /\ UNCHANGED <<connectionVars, githubVars, created, aged, pullRequest,
                 inngestVars, sweep>>

MarkDispatched(q) == Mark(q, "mark-dispatched", "DISPATCHED")
MarkIgnored(q) == Mark(q, "mark-ignored", "IGNORED")
MarkFailed(q) == Mark(q, "mark-failed", "FAILED")

(* updateInstallationMetadataIfExists, setInstallationSuspendedAt.         *)
SyncInstallation(q) ==
  LET e == Delivery(q) IN
  /\ At(q, "sync-installation")
  /\ \/ /\ e.action = "created"
        /\ suspended' = suspended \ {e.on}
        /\ Goto(q, "mark-ignored")
     \/ /\ e.action = "suspend"
        /\ suspended' = suspended \cup {e.on}
        /\ Goto(q, "sync-repositories")
     \/ /\ e.action = "unsuspend"
        /\ suspended' = suspended \ {e.on}
        /\ Goto(q, "sync-repositories")
  /\ UNCHANGED <<connection, deleted, githubVars, rowVars, aged, pullRequest,
                 inngestVars, sweep>>

(* The rows a sync delivery is about.                                      *)
RowsOf(e) ==
  IF e.type = "installation" THEN RowsOfInstallation(e.on) ELSE RowsOfGithubRepo(e.on)

SyncRepositories(q) ==
  LET e == Delivery(q) IN
  /\ At(q, "sync-repositories")
  /\ \/ /\ e.action \in {"suspend", "deleted", "removed", "archived"}
        /\ MarkAccessLost(RowsOf(e))
     \/ /\ e.action \in {"unsuspend", "unarchived"}
        /\ RestoreActive(RowsOf(e))
     \/ /\ e.action \in {"added", "renamed"}
        /\ UNCHANGED connection
  /\ Goto(q, "mark-ignored")
  /\ UNCHANGED <<deleted, suspended, githubVars, rowVars, aged, pullRequest,
                 inngestVars, sweep>>

(* A query throws, or the process dies between two of them.                *)
RequestDies(q) ==
  /\ ~At(q, "idle")
  /\ Ends(q)
  /\ UNCHANGED <<connectionVars, githubVars, rowVars, aged, pullRequest,
                 inngestVars, sweep>>

RequestStep(q) ==
  \/ InsertPending(q)
  \/ Resolve(q)
  \/ UpsertMinimal(q)
  \/ SavePendingDispatchPayload(q)
  \/ SendAccepted(q) \/ SendUnanswered(q)
  \/ MarkDispatched(q) \/ MarkIgnored(q) \/ MarkFailed(q)
  \/ SyncInstallation(q) \/ SyncRepositories(q)
-----------------------------------------------------------------------------
(* Time and the sweeper.                                                   *)

BugAge ==
  /\ aged < created
  /\ aged' = aged + 1
  /\ UNCHANGED <<connectionVars, githubVars, rowVars, request, pullRequest,
                 inngestVars, sweep>>

(* The next row passes PENDING_THRESHOLD_MS.  The threshold is two orders  *)
(* of magnitude over the time a request is given, so unless SLOW_REQUESTS  *)
(* the request that inserted the row is over by then.                      *)
Age ==
  /\ aged < created
  /\ \A d \in Deliveries, q \in Requests :
       rows[d].at = aged + 1 /\ Owns(q, d) => SLOW_REQUESTS
  /\ aged' = aged + 1
  /\ UNCHANGED <<connectionVars, githubVars, rowVars, request, pullRequest,
                 inngestVars, sweep>>

PendingOlderThanThreshold ==
  {d \in Deliveries : rows[d].status = "PENDING" /\ rows[d].at <= aged}

(* findPendingOlderThan: oldest first, at most SWEEP_BATCH_LIMIT rows.     *)
Batch ==
  {d \in PendingOlderThanThreshold :
     Cardinality({c \in PendingOlderThanThreshold : rows[c].at < rows[d].at})
       < SWEEP_BATCH_LIMIT}

(* buildSweepSends: a row without a payload cannot be swept.               *)
Sendable(batch) == {d \in batch : rows[d].payload # {}}

BugSkips(batch) == {}

Skips(batch) == batch \ Sendable(batch)

SweepFinds ==
  LET sends == Sendable(Batch) IN
  /\ sweep.pc = "idle"
  /\ Batch # {}
  /\ sweep' = [pc |-> IF sends = {} THEN "mark" ELSE "send",
                sends |-> sends, skips |-> Skips(Batch),
                events |-> UNION {rows[d].payload : d \in sends},
                marked |-> {}, tries |-> 0]
  /\ UNCHANGED <<connectionVars, githubVars, rowVars, aged, request, pullRequest,
                 inngestVars>>

SweepSends ==
  /\ sweep.pc = "send"
  /\ Accept(sweep.events)
  /\ sweep' = Sweep("mark", {}, 0)
  /\ UNCHANGED <<connectionVars, githubVars, rowVars, aged, request, pullRequest,
                 late>>

(* mark-sweep-outcomes: first the rows sent, then the rows skipped.        *)
SweepMarks(d) ==
  /\ sweep.pc = "mark"
  /\ d \notin sweep.marked
  /\ \/ /\ d \in sweep.sends
        /\ rows' = [rows EXCEPT ![d].status = "DISPATCHED"]
     \/ /\ d \in sweep.skips
        /\ sweep.sends \subseteq sweep.marked
        /\ rows' = [rows EXCEPT ![d].status = "FAILED"]
  /\ sweep' = Sweep("mark", sweep.marked \cup {d}, sweep.tries)
  /\ UNCHANGED <<connectionVars, githubVars, created, aged, request, pullRequest,
                 inngestVars>>

SweepEnds ==
  /\ sweep.pc = "mark"
  /\ sweep.sends \cup sweep.skips = sweep.marked
  /\ sweep' = Asleep
  /\ UNCHANGED <<connectionVars, githubVars, rowVars, aged, request, pullRequest,
                 inngestVars>>

(* A step throws, or its reply is lost: it is executed once more, and then *)
(* the run fails; the next tick starts afresh.                             *)
SweepThrows ==
  /\ sweep.pc # "idle"
  /\ sweep' = IF sweep.tries < 1
              THEN Sweep(sweep.pc, {}, sweep.tries + 1)
              ELSE Asleep
  /\ \/ UNCHANGED inngestVars
     \/ /\ sweep.pc = "send"
        /\ late' = late \cup {sweep.events}
        /\ UNCHANGED <<seen, started>>
  /\ UNCHANGED <<connectionVars, githubVars, rowVars, aged, request, pullRequest>>

SweepStep ==
  \/ SweepFinds
  \/ SweepSends
  \/ \E d \in Deliveries : SweepMarks(d)
  \/ SweepEnds
-----------------------------------------------------------------------------
UserStep ==
  /\ \/ \E t \in Rows \cap UsersMay : ConnectRepository(t) \/ DisconnectRepository(t)
     \/ \E j \in Projects \cap UsersMay : SoftDeleteProject(j)
  /\ UNCHANGED <<githubVars, rowVars, aged, request, pullRequest, inngestVars, sweep>>

GithubStep ==
  /\ GithubNext
  /\ UNCHANGED <<connectionVars, rowVars, aged, request, pullRequest, inngestVars,
                 sweep>>

Next ==
  \/ UserStep
  \/ GithubStep
  \/ AcceptLate
  \/ \E q \in Requests : \/ \E d \in Deliveries : Receive(q, d)
                         \/ RequestStep(q)
                         \/ RequestDies(q)
  \/ Age
  \/ SweepStep
  \/ SweepThrows

(* Requests and time go on; the sweeper's cron does not stop.  A sweep may *)
(* throw at every step, but not for ever: Inngest and the database answer  *)
(* infinitely often.                                                       *)
Fairness ==
  /\ \A q \in Requests : WF_vars(RequestStep(q))
  /\ WF_vars(Age)
  /\ WF_vars(SweepFinds)
  /\ SF_vars(SweepSends)
  /\ \A d \in Deliveries : SF_vars(SweepMarks(d))
  /\ SF_vars(SweepEnds)

Spec == Init /\ [][Next]_vars

FairSpec == Spec /\ Fairness
-----------------------------------------------------------------------------
(* Correctness.                                                            *)

(* A row's status says what became of its reviews: all were accepted by    *)
(* Inngest when it says DISPATCHED, and none was left behind when it says  *)
(* IGNORED or FAILED.  It is what the operator and the sweeper go by.      *)
StatusIsHonest ==
  \A d \in Deliveries :
    /\ rows[d].status = "DISPATCHED" =>
         rows[d].payload # {} /\ \A e \in rows[d].payload : started[e] > 0
    /\ rows[d].status \in {"IGNORED", "FAILED"} => rows[d].payload = {}

(* Once settled, a row keeps its status.  None of the updates checks it:   *)
(* it rests on the dedup gate and on the sweeper's threshold.              *)
SettledStaysSettled ==
  [][\A d \in Deliveries :
       rows[d].status \notin {"ABSENT", "PENDING"} => rows'[d].status = rows[d].status]_vars

(* The function a review run executes finds the PullRequest row it is for. *)
ReviewHasPullRequest ==
  \A e \in Reviews : started[e] > 0 => pullRequest[e.repo] # None

(* A user's disconnect survives whatever GitHub reports afterwards.        *)
DisconnectStays ==
  [][\A t \in Rows : connection[t] = "DISCONNECTED" => connection'[t] = "DISCONNECTED"]_vars

(* Redelivered, swept, timed out and late sends included, every review is  *)
(* started at most once, and only when a row durably asks for it.          *)
Asked == UNION {rows[d].payload : d \in Deliveries}

Promise == INSTANCE ReviewRequests WITH requested <- Asked

ImplementsReviewRequests == Promise!Spec

(* No recorded delivery stays PENDING: the sweeper drains its backlog,     *)
(* batch by batch, rows it cannot send included.                           *)
EveryRowSettles ==
  \A d \in Deliveries :
    rows[d].status = "PENDING" ~> rows[d].status \notin {"ABSENT", "PENDING"}

(* A repository that is archived on GitHub is not ACTIVE, once its         *)
(* deliveries were applied in order: "an archived GitHub repository is     *)
(* read-only and should not receive reviews" (installation-sync.ts).  It   *)
(* does not hold: ACCESS_LOST forgets why, so unsuspending restores it.    *)
Applied == \A d \in 1..emitted : rows[d].status = "IGNORED" /\ rows[d].at = d

ArchivedIsNotActive ==
  \A t \in Rows :
    Applied /\ <<"archived", GithubRepoOf[t]>> \in barred => connection[t] # "ACTIVE"
=============================================================================
