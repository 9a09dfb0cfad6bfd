--------------------------- MODULE IndexLifecycle ---------------------------
(***************************************************************************)
(* The life cycle of repository indexing: the API that connects a          *)
(* repository and triggers an index, the repository-index function run by  *)
(* Inngest, its onFailure handler, the stale-index sweeper, and the        *)
(* project deletion that cancels runs.                                     *)
(*                                                                         *)
(* A run executes its handler as memoised steps.  A step that commits may  *)
(* still lose its reply (the worker dies before answering), and a step may *)
(* throw before it commits; both are retried, MAX_RETRIES times, and then  *)
(* the run fails and onFailure runs.  Faulty names the steps to which both *)
(* may happen, Throwing those that throw, or commit and answer.  MayHappen *)
(* names the events of the environment considered: "cancel", "timeout",    *)
(* "outage", "unmovedHead", "dropEvent".                                   *)
(***************************************************************************)
EXTENDS Naturals, Sequences, FiniteSets

CONSTANTS
  Repos, Projects,        \* Repository and Project rows
  ProjectOf,              \* ProjectOf[p]: the project of repository p
  Runs,                   \* Inngest runs, one per index request delivered
  Shas, None, Mixed,      \* commits; nothing stored; an unfinished rebuild
  MAX_RETRIES,            \* retries: 3
  MAX_RATE_LIMIT_SLEEPS,  \* rate-limit waits before a run gives up
  Faulty,                 \* steps that may throw, or lose their reply
  Throwing,               \* steps that may throw, and lose no reply
  MayHappen               \* events of the environment that may happen

(* Steps that hold the lock of the repository while they execute. *)
LockedSteps ==
  {"create-index-job", "resolve-target", "resolve-head-sha", "transient-throw",
   "mark-noop-succeeded", "record-target-sha", "fetch-extract-persist",
   "persisting", "sleep", "record-persist-progress", "mark-repository-indexed"}

(* Steps after the lock was released. *)
ReleasedSteps == {"mark-job-succeeded", "emit-repository-indexed"}

FailureSteps == {"mark-repository-failed", "find-job-for-failure", "mark-job-failed"}

Steps == {"acquire-lock"} \cup LockedSteps \cup ReleasedSteps \cup FailureSteps

ASSUME ConstantsAssumption ==
  /\ ProjectOf \in [Repos -> Projects]
  /\ MAX_RETRIES \in Nat /\ MAX_RATE_LIMIT_SLEEPS \in Nat
  /\ None \notin Shas /\ Mixed \notin Shas /\ None # Mixed
  /\ Faulty \subseteq Steps /\ Throwing \subseteq Steps

VARIABLES
  indexStatus,       \* Repository.indexStatus; "ABSENT" before the row exists
  indexedCommitSha,  \* Repository.indexedCommitSha
  contents,          \* the commit the file and graph rows are complete for
  jobs,              \* IndexJob rows in creation order
  run,               \* run[r]: where run r is, and what its steps returned
  deleted,           \* projects with deletedAt set
  cancels,           \* project/deleted events sent and not yet delivered
  githubUp           \* GitHub answers requests

vars == <<indexStatus, indexedCommitSha, contents, jobs, run, deleted, cancels,
          githubUp>>

repoVars == <<indexStatus, indexedCommitSha, contents>>
envVars == <<deleted, cancels, githubUp>>

(* Variants named Bug... are mistakes the properties must catch: no         *)
(* behaviour of Spec uses them.                                            *)
BugLockableAlways == {"PENDING", "FAILED", "INDEXED", "INDEXING"}

LOCKABLE_STATUSES == {"PENDING", "FAILED", "INDEXED"}

IndexStatuses == LOCKABLE_STATUSES \cup {"ABSENT", "INDEXING"}

JobRows ==
  [run : Runs, repo : Repos, sha : Shas \cup {None},
   status : {"RUNNING", "SUCCEEDED", "FAILED"}]

(***************************************************************************)
(* Runs.  A "zombie" was cancelled while a step of it executes: the step   *)
(* may still commit, nothing after it happens.  job, indexed and sha are   *)
(* the memoised results of create-index-job, resolve-target and            *)
(* resolve-head-sha; alone says no other run persisted at the same time.   *)
(***************************************************************************)
Unused ==
  [st |-> "unused", pc |-> "acquire-lock", repo |-> None, preset |-> FALSE,
   tries |-> 0, job |-> 0, indexed |-> None, sha |-> None, sleeps |-> 0,
   alone |-> TRUE]

Ended == [Unused EXCEPT !.st = "ended"]

RunStates ==
  [st : {"unused", "queued", "active", "zombie", "failing", "ended"},
   pc : Steps, repo : Repos \cup {None}, preset : BOOLEAN, tries : Nat,
   job : Nat, indexed : Shas \cup {None}, sha : Shas \cup {None},
   sleeps : Nat, alone : BOOLEAN]

Executing(r) == run[r].st \in {"active", "zombie"}

At(r, step) == Executing(r) /\ run[r].pc = step

FailingAt(r, step) == run[r].st = "failing" /\ run[r].pc = step

Of(p) == {r \in Runs : run[r].repo = p}

(* The run has taken the lock of its repository and not given it back. *)
Indexing(r) == Executing(r) /\ run[r].pc \in LockedSteps

Persisting(p) == {r \in Of(p) : At(r, "persisting")}

(* The record of a run whose handler goes on at step. *)
Goto(r, step) == [run[r] EXCEPT !.pc = step, !.tries = 0]

(* Inngest failed the run: onFailure starts, knowing only the run id. *)
Failed(r) ==
  [Unused EXCEPT !.st = "failing", !.pc = "mark-repository-failed",
                 !.repo = run[r].repo]

(* One more attempt of the current step, or the end of its retries. *)
Retried(r) ==
  LET step == IF run[r].pc = "persisting" THEN "fetch-extract-persist"
              ELSE run[r].pc
  IN  IF run[r].st # "zombie" /\ run[r].tries < MAX_RETRIES
      THEN [run[r] EXCEPT !.tries = @ + 1, !.pc = step, !.alone = TRUE]
      ELSE IF run[r].st = "active" THEN Failed(r) ELSE Ended

Becomes(r, x) == run' = [run EXCEPT ![r] = x]

(* The step committed: its reply reaches Inngest, or is lost. *)
Reply(r, step, next) ==
  \/ Becomes(r, IF run[r].st = "zombie" THEN Ended ELSE next)
  \/ step \in Faulty /\ Becomes(r, Retried(r))

(* The step throws before it changed anything. *)
StepThrows(r) ==
  /\ Executing(r) \/ run[r].st = "failing"
  /\ \/ run[r].pc \in Faulty \cup Throwing
     \/ run[r].pc = "persisting" /\ "fetch-extract-persist" \in Faulty \cup Throwing
  /\ Becomes(r, Retried(r))
  /\ UNCHANGED <<repoVars, jobs, envVars>>
-----------------------------------------------------------------------------
(* The API, the sweeper and the project deletion. *)

(* An index request reaches Inngest: a run is queued for it. *)
Enqueue(p, preset) ==
  \E r \in Runs :
    /\ run[r].st = "unused"
    /\ Becomes(r, [Unused EXCEPT !.st = "queued", !.repo = p, !.preset = preset])

(* connectRepository: the row is created PENDING, and the request is sent  *)
(* without being awaited; a failed send is logged and forgotten.           *)
ConnectRepository(p) ==
  /\ indexStatus[p] = "ABSENT"
  /\ ProjectOf[p] \notin deleted
  /\ indexStatus' = [indexStatus EXCEPT ![p] = "PENDING"]
  /\ \/ Enqueue(p, FALSE)
     \/ "dropEvent" \in MayHappen /\ UNCHANGED run
  /\ UNCHANGED <<indexedCommitSha, contents, jobs, envVars>>

(* triggerIndex: refused while INDEXING.  A dropped request changes nothing. *)
TriggerIndex(p) ==
  /\ ProjectOf[p] \notin deleted
  /\ indexStatus[p] \notin {"ABSENT", "INDEXING"}
  /\ Enqueue(p, TRUE)
  /\ UNCHANGED <<repoVars, jobs, envVars>>

BugSweepsFailed(p) ==
  /\ indexStatus[p] = "FAILED"
  /\ Enqueue(p, TRUE)
  /\ UNCHANGED <<repoVars, jobs, envVars>>

(* stale-index-sweeper: one request for a repository found PENDING. *)
SweepStale(p) ==
  /\ indexStatus[p] = "PENDING"
  /\ Enqueue(p, TRUE)
  /\ UNCHANGED <<repoVars, jobs, envVars>>

(* softDeleteProject, and the project/deleted event it does not wait for. *)
DeleteProject(j) ==
  /\ "cancel" \in MayHappen
  /\ j \notin deleted
  /\ deleted' = deleted \cup {j}
  /\ \/ cancels' = cancels \cup {j}
     \/ "dropEvent" \in MayHappen /\ UNCHANGED cancels
  /\ UNCHANGED <<repoVars, jobs, run, githubUp>>

Cancelled(r, inFlight) ==
  IF run[r].st \notin {"queued", "active"} THEN run[r]
  ELSE IF r \in inFlight THEN [run[r] EXCEPT !.st = "zombie"]
  ELSE Ended

(* cancelOn: the event ends every run of the project that has not ended;   *)
(* inFlight are the runs one of whose steps is executing on a worker.      *)
CancelRuns(j) ==
  /\ j \in cancels
  /\ cancels' = cancels \ {j}
  /\ \E inFlight \in SUBSET {r \in Runs : run[r].st = "active"} :
       run' = [r \in Runs |-> IF run[r].repo \in Repos /\ ProjectOf[run[r].repo] = j
                              THEN Cancelled(r, inFlight) ELSE run[r]]
  /\ UNCHANGED <<repoVars, jobs, deleted, githubUp>>

(* timeouts.finish: the run is cancelled, onFailure does not run. *)
TimeOut(r) ==
  /\ "timeout" \in MayHappen
  /\ run[r].st = "active"
  /\ \E inFlight \in SUBSET {r} : Becomes(r, Cancelled(r, inFlight))
  /\ UNCHANGED <<repoVars, jobs, envVars>>

GithubChanges ==
  /\ "outage" \in MayHappen
  /\ githubUp' = ~githubUp
  /\ UNCHANGED <<repoVars, jobs, run, deleted, cancels>>
-----------------------------------------------------------------------------
(* The handler of repository-index. *)

Start(r) ==
  /\ run[r].st = "queued"
  /\ Becomes(r, [run[r] EXCEPT !.st = "active"])
  /\ UNCHANGED <<repoVars, jobs, envVars>>

BugGoesOnWithoutLock(r) ==
  LET p == run[r].repo IN
  /\ At(r, "acquire-lock")
  /\ indexStatus' = [indexStatus EXCEPT ![p] = "INDEXING"]
  /\ Reply(r, "acquire-lock", Goto(r, "create-index-job"))
  /\ UNCHANGED <<indexedCommitSha, contents, jobs, envVars>>

(* acquireIndexingLock: one compare-and-set; a run refused ends quietly. *)
AcquireIndexingLock(r) ==
  LET p == run[r].repo
      acquired == indexStatus[p] \in LOCKABLE_STATUSES
  IN
  /\ At(r, "acquire-lock")
  /\ indexStatus' = IF acquired THEN [indexStatus EXCEPT ![p] = "INDEXING"]
                    ELSE indexStatus
  /\ Reply(r, "acquire-lock", IF acquired THEN Goto(r, "create-index-job") ELSE Ended)
  /\ UNCHANGED <<indexedCommitSha, contents, jobs, envVars>>

(* The row exists already under the id the request carried: P2002. *)
IdTaken(r) == run[r].preset /\ \E j \in DOMAIN jobs : jobs[j].run = r

CreateIndexJob(r) ==
  /\ At(r, "create-index-job")
  /\ ~IdTaken(r)
  /\ jobs' = Append(jobs, [run |-> r, repo |-> run[r].repo, sha |-> None,
                           status |-> "RUNNING"])
  /\ Reply(r, "create-index-job",
           [Goto(r, "resolve-target") EXCEPT !.job = Len(jobs')])
  /\ UNCHANGED <<repoVars, envVars>>

CreateIndexJobRejected(r) ==
  /\ At(r, "create-index-job")
  /\ IdTaken(r)
  /\ Becomes(r, Retried(r))
  /\ UNCHANGED <<repoVars, jobs, envVars>>

ResolveTarget(r) ==
  /\ At(r, "resolve-target")
  /\ Reply(r, "resolve-target",
           [Goto(r, "resolve-head-sha") EXCEPT !.indexed = indexedCommitSha[run[r].repo]])
  /\ UNCHANGED <<repoVars, jobs, envVars>>

(* getHeadCommit found the branch at sha: index it, or stop at a no-op. *)
ResolveHeadSha(r) ==
  /\ At(r, "resolve-head-sha")
  /\ githubUp
  /\ \E sha \in Shas :
       /\ sha # run[r].indexed \/ "unmovedHead" \in MayHappen
       /\ Reply(r, "resolve-head-sha",
                [Goto(r, IF sha = run[r].indexed THEN "mark-noop-succeeded"
                         ELSE "record-target-sha") EXCEPT !.sha = sha])
  /\ UNCHANGED <<repoVars, jobs, envVars>>

BugReturnsQuietly(r) ==
  /\ At(r, "resolve-head-sha")
  /\ githubUp
  /\ Reply(r, "resolve-head-sha", Ended)
  /\ UNCHANGED <<repoVars, jobs, envVars>>

(* NOT_ACCESSIBLE: the branch or the repository is gone; no retry. *)
HeadNotAccessible(r) ==
  /\ At(r, "resolve-head-sha")
  /\ githubUp
  /\ Reply(r, "resolve-head-sha", Failed(r))
  /\ UNCHANGED <<repoVars, jobs, envVars>>

(* UNAVAILABLE is the step's memoised result; the handler throws over it. *)
HeadUnavailable(r) ==
  /\ At(r, "resolve-head-sha")
  /\ ~githubUp
  /\ Reply(r, "resolve-head-sha", Goto(r, "transient-throw"))
  /\ UNCHANGED <<repoVars, jobs, envVars>>

(* Every replay of the handler reads that result again and throws again. *)
ThrowTransient(r) ==
  /\ At(r, "transient-throw")
  /\ Becomes(r, Retried(r))
  /\ UNCHANGED <<repoVars, jobs, envVars>>

BugSwapsArguments(j, status, sha) ==
  jobs' = [jobs EXCEPT ![j] = [@ EXCEPT !.status = sha, !.sha = status]]

UpdateJob(j, status, sha) ==
  jobs' = [jobs EXCEPT ![j] = [@ EXCEPT !.status = status, !.sha = sha]]

MarkSucceededNoOp(r) ==
  /\ At(r, "mark-noop-succeeded")
  /\ UpdateJob(run[r].job, "SUCCEEDED", jobs[run[r].job].sha)
  /\ Reply(r, "mark-noop-succeeded", Ended)
  /\ UNCHANGED <<repoVars, envVars>>

RecordTargetSha(r) ==
  /\ At(r, "record-target-sha")
  /\ UpdateJob(run[r].job, jobs[run[r].job].status, run[r].sha)
  /\ Reply(r, "record-target-sha", Goto(r, "fetch-extract-persist"))
  /\ UNCHANGED <<repoVars, envVars>>

(* A classified failure before any row is written: NonRetriableError. *)
FetchRefused(r) ==
  /\ At(r, "fetch-extract-persist")
  /\ Becomes(r, IF run[r].st = "zombie" THEN Ended ELSE Failed(r))
  /\ UNCHANGED <<repoVars, jobs, envVars>>

(* A rate limit is a successful step result; the sleep is the retry. *)
RateLimited(r) ==
  /\ At(r, "fetch-extract-persist")
  /\ Reply(r, "fetch-extract-persist",
           IF run[r].sleeps < MAX_RATE_LIMIT_SLEEPS
           THEN [Goto(r, "sleep") EXCEPT !.sleeps = @ + 1]
           ELSE Failed(r))
  /\ UNCHANGED <<repoVars, jobs, envVars>>

BugSkipsRetry(r) ==
  /\ At(r, "sleep")
  /\ Becomes(r, IF run[r].st = "zombie" THEN Ended
                ELSE Goto(r, "record-persist-progress"))
  /\ UNCHANGED <<repoVars, jobs, envVars>>

WakeUp(r) ==
  /\ At(r, "sleep")
  /\ Becomes(r, IF run[r].st = "zombie" THEN Ended
                ELSE Goto(r, "fetch-extract-persist"))
  /\ UNCHANGED <<repoVars, jobs, envVars>>

(* The first row is written: until the unit completes the contents are     *)
(* neither the old commit nor the new one.  At most 2 per repository.      *)
PersistBegins(r) ==
  LET p == run[r].repo IN
  /\ At(r, "fetch-extract-persist")
  /\ Cardinality(Persisting(p)) < 2
  /\ contents' = [contents EXCEPT ![p] = Mixed]
  /\ run' = [q \in Runs |->
               CASE q = r -> [run[r] EXCEPT !.pc = "persisting",
                                            !.alone = (Persisting(p) = {})]
                 [] q \in Persisting(p) -> [run[q] EXCEPT !.alone = FALSE]
                 [] OTHER -> run[q]]
  /\ UNCHANGED <<indexStatus, indexedCommitSha, jobs, envVars>>

PersistEnds(r) ==
  /\ At(r, "persisting")
  /\ \E c \in {run[r].sha} \cup (IF run[r].alone THEN {} ELSE {Mixed}) :
       contents' = [contents EXCEPT ![run[r].repo] = c]
  /\ Reply(r, "fetch-extract-persist",
           [Goto(r, "record-persist-progress") EXCEPT !.alone = TRUE])
  /\ UNCHANGED <<indexStatus, indexedCommitSha, jobs, envVars>>

RecordPersistProgress(r) ==
  /\ At(r, "record-persist-progress")
  /\ Reply(r, "record-persist-progress", Goto(r, "mark-repository-indexed"))
  /\ UNCHANGED <<repoVars, jobs, envVars>>

MarkIndexed(r) ==
  LET p == run[r].repo IN
  /\ At(r, "mark-repository-indexed")
  /\ indexStatus' = [indexStatus EXCEPT ![p] = "INDEXED"]
  /\ indexedCommitSha' = [indexedCommitSha EXCEPT ![p] = run[r].sha]
  /\ Reply(r, "mark-repository-indexed", Goto(r, "mark-job-succeeded"))
  /\ UNCHANGED <<contents, jobs, envVars>>

MarkJobSucceeded(r) ==
  /\ At(r, "mark-job-succeeded")
  /\ UpdateJob(run[r].job, "SUCCEEDED", jobs[run[r].job].sha)
  /\ Reply(r, "mark-job-succeeded", Goto(r, "emit-repository-indexed"))
  /\ UNCHANGED <<repoVars, envVars>>

EmitRepositoryIndexed(r) ==
  /\ At(r, "emit-repository-indexed")
  /\ Reply(r, "emit-repository-indexed", Ended)
  /\ UNCHANGED <<repoVars, jobs, envVars>>
-----------------------------------------------------------------------------
(* onFailure. *)

BugFailsJobOnly(r) ==
  /\ FailingAt(r, "mark-repository-failed")
  /\ Reply(r, "mark-repository-failed", Goto(r, "find-job-for-failure"))
  /\ UNCHANGED <<repoVars, jobs, envVars>>

BugFailsRepositoryOnly(r) ==
  /\ FailingAt(r, "mark-repository-failed")
  /\ indexStatus' = [indexStatus EXCEPT ![run[r].repo] = "FAILED"]
  /\ Reply(r, "mark-repository-failed", Ended)
  /\ UNCHANGED <<indexedCommitSha, contents, jobs, envVars>>

MarkFailed(r) ==
  /\ FailingAt(r, "mark-repository-failed")
  /\ indexStatus' = [indexStatus EXCEPT ![run[r].repo] = "FAILED"]
  /\ Reply(r, "mark-repository-failed", Goto(r, "find-job-for-failure"))
  /\ UNCHANGED <<indexedCommitSha, contents, jobs, envVars>>

BugFindsAnyLatest(r) ==
  LET mine == {j \in DOMAIN jobs : jobs[j].repo = run[r].repo} IN
  /\ FailingAt(r, "find-job-for-failure")
  /\ \E j \in mine :
       /\ \A k \in mine : k <= j
       /\ Reply(r, "find-job-for-failure",
                [Goto(r, "mark-job-failed") EXCEPT !.job = j])
  /\ UNCHANGED <<repoVars, jobs, envVars>>

(* findByInngestRunId: the latest row of the run, if it created one. *)
FindJobForFailure(r) ==
  LET mine == {j \in DOMAIN jobs : jobs[j].run = r} IN
  /\ FailingAt(r, "find-job-for-failure")
  /\ \/ /\ mine = {}
        /\ Reply(r, "find-job-for-failure", Ended)
     \/ \E j \in mine :
          /\ \A k \in mine : k <= j
          /\ Reply(r, "find-job-for-failure",
                   [Goto(r, "mark-job-failed") EXCEPT !.job = j])
  /\ UNCHANGED <<repoVars, jobs, envVars>>

MarkJobFailed(r) ==
  /\ FailingAt(r, "mark-job-failed")
  /\ UpdateJob(run[r].job, "FAILED", jobs[run[r].job].sha)
  /\ Reply(r, "mark-job-failed", Ended)
  /\ UNCHANGED <<repoVars, envVars>>
-----------------------------------------------------------------------------
Init ==
  /\ indexStatus = [p \in Repos |-> "ABSENT"]
  /\ indexedCommitSha = [p \in Repos |-> None]
  /\ contents = [p \in Repos |-> None]
  /\ jobs = <<>>
  /\ run = [r \in Runs |-> Unused]
  /\ deleted = {} /\ cancels = {}
  /\ githubUp = TRUE

(* Everything Inngest does for run r once the run was queued. *)
RunStep(r) ==
  \/ Start(r) \/ AcquireIndexingLock(r)
  \/ CreateIndexJob(r) \/ CreateIndexJobRejected(r)
  \/ ResolveTarget(r) \/ ResolveHeadSha(r) \/ HeadNotAccessible(r)
  \/ HeadUnavailable(r) \/ ThrowTransient(r)
  \/ MarkSucceededNoOp(r) \/ RecordTargetSha(r)
  \/ FetchRefused(r) \/ RateLimited(r) \/ WakeUp(r)
  \/ PersistBegins(r) \/ PersistEnds(r) \/ RecordPersistProgress(r)
  \/ MarkIndexed(r) \/ MarkJobSucceeded(r) \/ EmitRepositoryIndexed(r)
  \/ MarkFailed(r) \/ FindJobForFailure(r) \/ MarkJobFailed(r)
  \/ StepThrows(r)

Next ==
  \/ \E p \in Repos : ConnectRepository(p) \/ TriggerIndex(p) \/ SweepStale(p)
  \/ \E j \in Projects : DeleteProject(j) \/ CancelRuns(j)
  \/ \E r \in Runs : RunStep(r) \/ TimeOut(r)
  \/ GithubChanges

Spec == Init /\ [][Next]_vars
-----------------------------------------------------------------------------
(* Fairness: Inngest executes and retries every run it accepted, and the   *)
(* cron of the sweeper keeps firing.  Users and GitHub promise nothing.    *)
Fairness ==
  /\ \A r \in Runs : WF_vars(RunStep(r))
  /\ \A p \in Repos : WF_vars(SweepStale(p))

FairSpec == Spec /\ Fairness

(* The state has the types the Prisma schema and the handler give it. *)
TypeOK ==
  /\ indexStatus \in [Repos -> IndexStatuses]
  /\ indexedCommitSha \in [Repos -> Shas \cup {None}]
  /\ contents \in [Repos -> Shas \cup {None, Mixed}]
  /\ jobs \in Seq(JobRows)
  /\ run \in [Runs -> RunStates]
  /\ deleted \subseteq Projects /\ cancels \subseteq Projects
  /\ githubUp \in BOOLEAN

(* No step through which the lock changes hands loses its reply, and those *)
(* of a run that has no lock, before and after it, do not throw either: a  *)
(* run that fails without the lock takes it from whoever has it.           *)
LockStepsReliable ==
  /\ Faulty \cap ({"acquire-lock", "mark-repository-indexed", "mark-repository-failed"}
                   \cup ReleasedSteps) = {}
  /\ Throwing \cap ({"acquire-lock"} \cup ReleasedSteps) = {}

(* acquireIndexingLock is the actual safety net: whatever is requested,    *)
(* swept, retried or cancelled, at most one run indexes a repository.      *)
OneIndexer ==
  \A r, q \in Runs :
    Indexing(r) /\ Indexing(q) /\ run[r].repo = run[q].repo => r = q

(* A repository shown as INDEXED holds complete rows of the commit it      *)
(* names: no interrupted or superseded rebuild is ever published.          *)
PublishedIsComplete ==
  \A p \in Repos :
    indexStatus[p] = "INDEXED" =>
      indexedCommitSha[p] \in Shas /\ contents[p] = indexedCommitSha[p]

LatestJob(p) ==
  CHOOSE j \in DOMAIN jobs :
    jobs[j].repo = p /\ \A k \in DOMAIN jobs : jobs[k].repo = p => k <= j

(* getIndexStatus: the latest job speaks for the repository, and before    *)
(* any job exists the row itself.                                          *)
ApiStatus(p) ==
  IF \E j \in DOMAIN jobs : jobs[j].repo = p
  THEN jobs[LatestJob(p)].status ELSE indexStatus[p]

(* What the poller shows agrees with the repository: RUNNING while a run   *)
(* with a job indexes it, and once nothing executes for it, SUCCEEDED      *)
(* exactly when it is INDEXED and FAILED exactly when it is FAILED.        *)
ApiStatusAgrees ==
  \A p \in Repos :
    /\ (\E r \in Of(p) : Indexing(r) /\ run[r].job # 0) => ApiStatus(p) = "RUNNING"
    /\ (\A r \in Of(p) : ~Executing(r) /\ run[r].st # "failing") =>
         /\ indexStatus[p] = "INDEXED" => ApiStatus(p) = "SUCCEEDED"
         /\ indexStatus[p] = "FAILED" => ApiStatus(p) = "FAILED"

(* Terminal success and terminal failure are terminal: a job that reached  *)
(* one never changes status again.                                         *)
TerminalJobsStay ==
  [][\A j \in DOMAIN jobs :
       jobs[j].status # "RUNNING" => jobs'[j].status = jobs[j].status]_vars

Refused(r) ==
  At(r, "acquire-lock") /\ run'[r] = Ended /\ run[r].st = "active"

(* A run refused the lock leaves quietly because another index of the      *)
(* repository is in flight.                                                *)
RefusedOnlyWhileInFlight ==
  [][\A r \in Runs :
       Refused(r) => \E q \in Of(run[r].repo) \ {r} :
                       Indexing(q) \/ run[q].st = "failing"]_vars

(* A transient failure to resolve the head commit is retried: a run gives  *)
(* up over it only while GitHub is still down.                             *)
OutageIsRetried ==
  [][\A r \in Runs :
       At(r, "transient-throw") /\ run'[r].st = "failing" => ~githubUp]_vars

(* An interrupted job never leads to a silent success: a run may report    *)
(* "already indexed" only when the rows of that commit are complete.       *)
NoOpOnlyWhenComplete ==
  \A r \in Runs :
    At(r, "mark-noop-succeeded") => contents[run[r].repo] = run[r].sha

(* A connect request that was dropped is healed by the sweeper: no         *)
(* repository stays PENDING.                                               *)
PendingIsHealed ==
  \A p \in Repos : indexStatus[p] = "PENDING" ~> indexStatus[p] # "PENDING"

(* Indexing ends: the lock of a repository is always given back.           *)
IndexingEnds ==
  \A p \in Repos : indexStatus[p] = "INDEXING" ~> indexStatus[p] # "INDEXING"

(* The lock, the published commit and the contents behave as the abstract  *)
(* serial indexer does.                                                    *)
Serial == INSTANCE SerialIndexing
  WITH busy <- [p \in Repos |-> indexStatus[p] = "INDEXING"],
       published <- indexedCommitSha

ImplementsSerialIndexing == Serial!Spec
-----------------------------------------------------------------------------
(* The inductive invariant behind OneIndexer, PublishedIsComplete and      *)
(* ImplementsSerialIndexing.                                               *)

(* The run gave its lock to onFailure, which has not given it back. *)
Owns(r) == Indexing(r) \/ FailingAt(r, "mark-repository-failed")

(* Steps of a run that knows the commit it indexes. *)
ShaSteps ==
  {"record-target-sha", "fetch-extract-persist", "persisting", "sleep",
   "record-persist-progress", "mark-repository-indexed"}

RunShape(r) ==
  /\ run[r].st \notin {"unused", "ended"} => run[r].repo \in Repos
  /\ run[r].st = "queued" => run[r].pc = "acquire-lock"
  /\ Executing(r) => run[r].pc \notin FailureSteps
  /\ run[r].st = "failing" => run[r].pc \in FailureSteps
  /\ Executing(r) /\ run[r].pc \notin {"acquire-lock", "create-index-job"} =>
       run[r].job \in DOMAIN jobs
  /\ FailingAt(r, "mark-job-failed") => run[r].job \in DOMAIN jobs
  /\ Executing(r) /\ run[r].pc \in ShaSteps => run[r].sha \in Shas

(* An owner's repository is locked, and has no other owner. *)
LockInv ==
  /\ \A r \in Runs : Owns(r) => indexStatus[run[r].repo] = "INDEXING"
  /\ \A r, q \in Runs :
       Owns(r) /\ Owns(q) /\ run[r].repo = run[q].repo => r = q

(* Whoever persists is alone, and what it completed stays until published. *)
ContentsInv ==
  \A r \in Runs :
    /\ At(r, "persisting") => run[r].alone
    /\ Executing(r) /\ run[r].pc \in {"record-persist-progress", "mark-repository-indexed"} =>
         contents[run[r].repo] = run[r].sha

ShapeInv == \A r \in Runs : RunShape(r)

IInv == TypeOK /\ ShapeInv /\ LockInv /\ ContentsInv /\ PublishedIsComplete

(* No lock is left behind: a repository shown as INDEXING is being indexed *)
(* by a run, or by the onFailure of a run that is about to give it back.   *)
LockHasAnOwner ==
  \A p \in Repos : indexStatus[p] = "INDEXING" => \E r \in Of(p) : Owns(r)
-----------------------------------------------------------------------------
(* What a reader of index-status sees of one repository.                   *)

HasJob(p) == \E j \in DOMAIN jobs : jobs[j].repo = p

JobServed(p) == IF HasJob(p) THEN jobs[LatestJob(p)].status ELSE "none"

(* What the run of the latest job has made of the repository's row.        *)
RowResult(p) ==
  LET r == jobs[LatestJob(p)].run IN
  IF HasJob(p) /\ Owns(r) THEN "RUNNING"
  ELSE IF HasJob(p) /\ At(r, "mark-job-succeeded") THEN "SUCCEEDED"
  ELSE IF HasJob(p) /\ run[r].st = "failing" THEN "FAILED"
  ELSE JobServed(p)

Server(p) == INSTANCE IndexingServer
  WITH row <- indexStatus[p], job <- JobServed(p), result <- RowResult(p)

(* The row and the latest job of every repository change as those of an    *)
(* IndexingServer: the job says what its own run made of the row, after it *)
(* did and whatever other runs do to the row meanwhile.                    *)
ImplementsIndexingServer ==
  /\ \A p \in Repos : Server(p)!ServerInit
  /\ [][\A p \in Repos : Server(p)!ServerNext \/ UNCHANGED Server(p)!serverVars]_vars
=============================================================================
