------------------------ MODULE IndexLifecycleProofs ------------------------
(***************************************************************************)
(* Proofs about IndexLifecycle, for every set of repositories, runs and    *)
(* commits and every number of retries.                                    *)
(***************************************************************************)
EXTENDS IndexLifecycle, SequenceTheorems, TLAPS

USE ConstantsAssumption

(***************************************************************************)
(* Facts about one run's record.                                           *)
(***************************************************************************)

(* RunShape, of a record x when the job rows are D. *)
ShapeOf(x, D) ==
  /\ x.st \notin {"unused", "ended"} => x.repo \in Repos
  /\ x.st = "queued" => x.pc = "acquire-lock"
  /\ x.st \in {"active", "zombie"} => x.pc \notin FailureSteps
  /\ x.st = "failing" => x.pc \in FailureSteps
  /\ x.st \in {"active", "zombie"} /\ x.pc \notin {"acquire-lock", "create-index-job"} =>
       x.job \in D
  /\ x.st = "failing" /\ x.pc = "mark-job-failed" => x.job \in D
  /\ x.st \in {"active", "zombie"} /\ x.pc \in ShaSteps => x.sha \in Shas

(* Owns, of a record. *)
OwnsRec(x) ==
  \/ x.st \in {"active", "zombie"} /\ x.pc \in LockedSteps
  \/ x.st = "failing" /\ x.pc = "mark-repository-failed"

LEMMA ShapeIsShapeOf ==
  /\ \A r \in Runs : RunShape(r) <=> ShapeOf(run[r], DOMAIN jobs)
  /\ \A r \in Runs : Owns(r) <=> OwnsRec(run[r])
BY DEF RunShape, ShapeOf, Owns, OwnsRec, Indexing, Executing, FailingAt

LEMMA FreshRecords ==
  /\ Unused \in RunStates /\ Ended \in RunStates
  /\ \A D : ShapeOf(Ended, D) /\ ShapeOf(Unused, D)
  /\ ~OwnsRec(Ended) /\ ~OwnsRec(Unused)
  /\ Ended.st = "ended" /\ Unused.st = "unused"
BY DEF Unused, Ended, RunStates, ShapeOf, OwnsRec, Steps

LEMMA FailedRecord ==
  ASSUME NEW r \in Runs, run[r] \in RunStates, run[r].repo \in Repos, NEW D
  PROVE  /\ Failed(r) \in RunStates /\ ShapeOf(Failed(r), D)
         /\ Failed(r).st = "failing" /\ Failed(r).repo = run[r].repo
         /\ OwnsRec(Failed(r))
BY DEF Failed, Unused, RunStates, ShapeOf, Steps, FailureSteps, OwnsRec

Again(x, n, step) == [x EXCEPT !.tries = n, !.pc = step, !.alone = TRUE]

LEMMA AgainRecord ==
  ASSUME NEW x \in RunStates, NEW step \in Steps, NEW n \in Nat
  PROVE  /\ Again(x, n, step) \in RunStates
         /\ Again(x, n, step).pc = step
         /\ Again(x, n, step).st = x.st /\ Again(x, n, step).repo = x.repo
         /\ Again(x, n, step).job = x.job /\ Again(x, n, step).sha = x.sha
         /\ Again(x, n, step).indexed = x.indexed
BY DEF RunStates, Again

LEMMA RetriedRecord ==
  ASSUME NEW r \in Runs, run[r] \in RunStates, NEW D,
         ShapeOf(run[r], D), Executing(r) \/ run[r].st = "failing"
  PROVE  /\ Retried(r) \in RunStates
         /\ ShapeOf(Retried(r), D)
         /\ \/ Retried(r) = Ended
            \/ /\ Retried(r).repo = run[r].repo
               /\ Retried(r).st \in {run[r].st, "failing"}
         /\ Retried(r).st \in {"active", "zombie"} =>
              /\ Retried(r).st = "active"
              /\ \/ Retried(r).pc = run[r].pc /\ Retried(r).pc # "persisting"
                 \/ Retried(r).pc = "fetch-extract-persist"
         /\ Retried(r).st \in {"active", "zombie"} => Retried(r).sha = run[r].sha
         /\ OwnsRec(Retried(r)) =>
              OwnsRec(run[r]) \/ run[r].st = "active"
<1>1. run[r].repo \in Repos
  BY DEF ShapeOf, Executing
<1> DEFINE step == IF run[r].pc = "persisting" THEN "fetch-extract-persist" ELSE run[r].pc
           n == run[r].tries + 1
           again == Again(run[r], n, step)
<1>2. \/ Retried(r) = Ended /\ run[r].st # "active"
      \/ Retried(r) = again /\ run[r].st \in {"active", "failing"}
      \/ Retried(r) = Failed(r) /\ run[r].st = "active"
  BY DEF Retried, Executing, Again
<1>3. step \in Steps
  BY DEF RunStates, Steps, LockedSteps
<1>4. /\ again \in RunStates /\ again.pc = step /\ again.st = run[r].st
      /\ again.repo = run[r].repo /\ again.job = run[r].job /\ again.sha = run[r].sha
  <2>1. n \in Nat
    BY DEF RunStates
  <2> HIDE DEF n, step
  <2> QED
    BY <1>3, <2>1, AgainRecord
<1>5. ShapeOf(again, D)
  BY <1>4 DEF ShapeOf, ShaSteps, FailureSteps
<1>6. OwnsRec(again) => OwnsRec(run[r])
  BY <1>4 DEF OwnsRec, LockedSteps
<1> HIDE DEF again
<1> QED
  BY <1>1, <1>2, <1>4, <1>5, <1>6, FreshRecords, FailedRecord
  DEF RunStates

LEMMA GotoRecord ==
  ASSUME NEW r \in Runs, run[r] \in RunStates, NEW step \in Steps
  PROVE  /\ Goto(r, step) \in RunStates
         /\ Goto(r, step).pc = step
         /\ Goto(r, step).st = run[r].st /\ Goto(r, step).repo = run[r].repo
         /\ Goto(r, step).job = run[r].job /\ Goto(r, step).sha = run[r].sha
         /\ Goto(r, step).alone = run[r].alone
BY DEF Goto, RunStates
-----------------------------------------------------------------------------
(***************************************************************************)
(* One run changes: types and shapes.                                      *)
(***************************************************************************)

LEMMA BecomesStep ==
  ASSUME TypeOK, ShapeInv, NEW r \in Runs, NEW x \in RunStates,
         DOMAIN jobs \subseteq DOMAIN jobs', ShapeOf(x, DOMAIN jobs'),
         Becomes(r, x)
  PROVE  /\ run' \in [Runs -> RunStates] /\ ShapeInv'
         /\ run'[r] = x /\ \A q \in Runs \ {r} : run'[q] = run[q]
<1>1. /\ run' \in [Runs -> RunStates]
      /\ run'[r] = x /\ \A q \in Runs \ {r} : run'[q] = run[q]
  BY DEF Becomes, TypeOK
<1>2. \A q \in Runs : ShapeOf(run'[q], DOMAIN jobs')
  BY <1>1, ShapeIsShapeOf DEF ShapeInv, ShapeOf
<1>3. ShapeInv'
  BY <1>2 DEF ShapeInv, RunShape, ShapeOf, Executing, FailingAt
<1> QED
  BY <1>1, <1>3

LEMMA RetryStep ==
  ASSUME TypeOK, ShapeInv, NEW r \in Runs,
         Executing(r) \/ run[r].st = "failing",
         DOMAIN jobs \subseteq DOMAIN jobs', Becomes(r, Retried(r))
  PROVE  run' \in [Runs -> RunStates] /\ ShapeInv'
<1>1. run[r] \in RunStates /\ ShapeOf(run[r], DOMAIN jobs')
  BY ShapeIsShapeOf DEF TypeOK, ShapeInv, ShapeOf
<1>2. Retried(r) \in RunStates /\ ShapeOf(Retried(r), DOMAIN jobs')
  BY <1>1, RetriedRecord
<1> QED
  BY <1>2, BecomesStep

LEMMA ReplyStep ==
  ASSUME TypeOK, ShapeInv, NEW r \in Runs, NEW step, NEW next \in RunStates,
         Executing(r) \/ run[r].st = "failing",
         DOMAIN jobs \subseteq DOMAIN jobs', ShapeOf(next, DOMAIN jobs'),
         Reply(r, step, next)
  PROVE  run' \in [Runs -> RunStates] /\ ShapeInv'
<1>1. CASE Becomes(r, Retried(r))
  BY <1>1, RetryStep
<1>2. CASE Becomes(r, Ended)
  BY <1>2, FreshRecords, BecomesStep
<1>3. CASE Becomes(r, next)
  BY <1>3, BecomesStep
<1> QED
  BY <1>1, <1>2, <1>3 DEF Reply

LEMMA JobUpdated ==
  ASSUME TypeOK, NEW j \in DOMAIN jobs, NEW status \in {"RUNNING", "SUCCEEDED", "FAILED"},
         NEW sha \in Shas \cup {None}, UpdateJob(j, status, sha)
  PROVE  jobs' \in Seq(JobRows) /\ DOMAIN jobs' = DOMAIN jobs
<1> DEFINE row == [jobs[j] EXCEPT !.status = status, !.sha = sha]
<1>1. jobs \in Seq(JobRows) /\ j \in 1 .. Len(jobs) /\ jobs[j] \in JobRows
  BY DEF TypeOK
<1>2. row \in JobRows
  BY <1>1 DEF JobRows
<1>3. jobs' = [jobs EXCEPT ![j] = row]
  BY DEF UpdateJob
<1> HIDE DEF row
<1> QED
  BY <1>1, <1>2, <1>3, ExceptSeq

LEMMA JobFields ==
  ASSUME TypeOK, NEW j \in DOMAIN jobs
  PROVE  jobs[j].sha \in Shas \cup {None}
         /\ jobs[j].status \in {"RUNNING", "SUCCEEDED", "FAILED"}
<1>1. jobs[j] \in JobRows
  BY DEF TypeOK
<1> QED
  BY <1>1 DEF JobRows
-----------------------------------------------------------------------------
(***************************************************************************)
(* Type correctness.                                                       *)
(***************************************************************************)

TypeShape == TypeOK /\ ShapeInv

LEMMA RunTyped ==
  ASSUME TypeShape, NEW r \in Runs
  PROVE  /\ run[r] \in RunStates /\ ShapeOf(run[r], DOMAIN jobs)
         /\ run[r].st \notin {"unused", "ended"} => run[r].repo \in Repos
BY ShapeIsShapeOf DEF TypeShape, TypeOK, ShapeInv, ShapeOf

(* The steps of the API, the sweeper and the environment. *)
LEMMA TypeShapeEnvironment ==
  ASSUME TypeShape,
         \/ \E p \in Repos : ConnectRepository(p) \/ TriggerIndex(p) \/ SweepStale(p)
         \/ \E j \in Projects : DeleteProject(j) \/ CancelRuns(j)
         \/ \E r \in Runs : TimeOut(r)
         \/ GithubChanges
  PROVE  TypeShape'
<1> USE DEF TypeShape
<1>1. ASSUME NEW p \in Repos, NEW preset \in BOOLEAN, Enqueue(p, preset),
             UNCHANGED jobs
      PROVE  run' \in [Runs -> RunStates] /\ ShapeInv'
  <2> DEFINE x == [Unused EXCEPT !.st = "queued", !.repo = p, !.preset = preset]
  <2>1. PICK r \in Runs : Becomes(r, x)
    BY <1>1 DEF Enqueue
  <2>2. x \in RunStates /\ \A D : ShapeOf(x, D)
    BY DEF Unused, RunStates, Steps, ShapeOf
  <2> HIDE DEF x
  <2> QED
    BY <1>1, <2>1, <2>2, BecomesStep
<1>2. ASSUME NEW p \in Repos, ConnectRepository(p)
      PROVE  TypeShape'
  <2>1. run' \in [Runs -> RunStates] /\ ShapeInv'
    <3>1. CASE Enqueue(p, FALSE)
      BY <1>1, <1>2, <3>1 DEF ConnectRepository
    <3>2. CASE UNCHANGED run
      BY <1>2, <3>2 DEF ConnectRepository, TypeOK, ShapeInv, RunShape, Executing, FailingAt
    <3> QED
      BY <1>2, <3>1, <3>2 DEF ConnectRepository
  <2> QED
    BY <1>2, <2>1 DEF ConnectRepository, TypeOK, IndexStatuses, LOCKABLE_STATUSES, envVars
<1>3. ASSUME NEW p \in Repos, TriggerIndex(p) \/ SweepStale(p)
      PROVE  TypeShape'
  <2>1. run' \in [Runs -> RunStates] /\ ShapeInv'
    BY <1>1, <1>3 DEF TriggerIndex, SweepStale
  <2> QED
    BY <1>3, <2>1 DEF TriggerIndex, SweepStale, TypeOK, envVars, repoVars
<1>4. ASSUME NEW j \in Projects, DeleteProject(j)
      PROVE  TypeShape'
  BY <1>4 DEF DeleteProject, TypeOK, repoVars, ShapeInv, RunShape, Executing, FailingAt
<1>5. ASSUME NEW r \in Runs, NEW inFlight
      PROVE  Cancelled(r, inFlight) \in RunStates
             /\ ShapeOf(Cancelled(r, inFlight), DOMAIN jobs)
  <2> DEFINE z == [run[r] EXCEPT !.st = "zombie"]
  <2>1. run[r] \in RunStates /\ ShapeOf(run[r], DOMAIN jobs)
    BY RunTyped
  <2>2. z \in RunStates
    BY <2>1 DEF RunStates
  <2>3. run[r].st \in {"queued", "active"} => ShapeOf(z, DOMAIN jobs)
    BY <2>1 DEF ShapeOf, RunStates, FailureSteps, ShaSteps
  <2> HIDE DEF z
  <2> QED
    BY <2>1, <2>2, <2>3, FreshRecords DEF Cancelled, z
<1>6. ASSUME NEW j \in Projects, CancelRuns(j)
      PROVE  TypeShape'
  <2>1. PICK inFlight :
          run' = [r \in Runs |-> IF run[r].repo \in Repos /\ ProjectOf[run[r].repo] = j
                                 THEN Cancelled(r, inFlight) ELSE run[r]]
    BY <1>6 DEF CancelRuns
  <2>2. \A r \in Runs : run'[r] \in RunStates /\ ShapeOf(run'[r], DOMAIN jobs)
    BY <1>5, <2>1, RunTyped
  <2>3. run' \in [Runs -> RunStates]
    BY <2>1, <2>2
  <2>4. UNCHANGED jobs
    BY <1>6 DEF CancelRuns
  <2>5. ShapeInv'
    BY <2>2, <2>4 DEF ShapeInv, RunShape, ShapeOf, Executing, FailingAt
  <2> QED
    BY <1>6, <2>3, <2>5 DEF CancelRuns, TypeOK, repoVars
<1>7. ASSUME NEW r \in Runs, TimeOut(r)
      PROVE  TypeShape'
  <2>1. PICK inFlight : Becomes(r, Cancelled(r, inFlight))
    BY <1>7 DEF TimeOut
  <2>2. UNCHANGED jobs
    BY <1>7 DEF TimeOut
  <2>3. run' \in [Runs -> RunStates] /\ ShapeInv'
    BY <1>5, <2>1, <2>2, BecomesStep
  <2> QED
    BY <1>7, <2>3 DEF TimeOut, TypeOK, envVars, repoVars
<1>8. ASSUME GithubChanges
      PROVE  TypeShape'
  BY <1>8 DEF GithubChanges, TypeOK, repoVars, ShapeInv, RunShape, Executing, FailingAt
<1> QED
  BY <1>2, <1>3, <1>4, <1>6, <1>7, <1>8

(* The steps of a run. *)
LEMMA TypeShapeRun ==
  ASSUME TypeShape, NEW r \in Runs, RunStep(r)
  PROVE  TypeShape'
<1> USE DEF TypeShape
<1>1. /\ run[r] \in RunStates /\ ShapeOf(run[r], DOMAIN jobs)
      /\ run[r].st \notin {"unused", "ended"} => run[r].repo \in Repos
  BY RunTyped
<1> DEFINE Alive == Executing(r) \/ run[r].st = "failing"
<1>2. ASSUME NEW step \in Steps,
             Executing(r) => step \notin FailureSteps,
             run[r].st = "failing" => step \in FailureSteps \ {"mark-job-failed"},
             step \notin {"acquire-lock", "create-index-job"} \cup FailureSteps =>
               run[r].job \in DOMAIN jobs,
             step \in ShaSteps => run[r].sha \in Shas,
             Alive
      PROVE  Goto(r, step) \in RunStates /\ ShapeOf(Goto(r, step), DOMAIN jobs)
  BY <1>1, <1>2, GotoRecord DEF ShapeOf, Executing
<1>3. Executing(r) => run[r].repo \in Repos /\ Failed(r) \in RunStates
                      /\ ShapeOf(Failed(r), DOMAIN jobs)
  BY <1>1, FailedRecord DEF Executing
<1>4. Executing(r) /\ run[r].pc \notin {"acquire-lock", "create-index-job"} =>
        run[r].job \in DOMAIN jobs
  BY <1>1 DEF ShapeOf, Executing
<1>5. Executing(r) /\ run[r].pc \in ShaSteps => run[r].sha \in Shas
  BY <1>1 DEF ShapeOf, Executing

<1>6. CASE Start(r)
  <2> DEFINE x == [run[r] EXCEPT !.st = "active"]
  <2>1. x \in RunStates /\ ShapeOf(x, DOMAIN jobs)
    BY <1>1, <1>6 DEF Start, RunStates, ShapeOf, FailureSteps, ShaSteps
  <2>2. Becomes(r, x) /\ UNCHANGED jobs
    BY <1>6 DEF Start
  <2> HIDE DEF x
  <2>3. run' \in [Runs -> RunStates] /\ ShapeInv'
    BY <2>1, <2>2, BecomesStep
  <2> QED
    BY <1>6, <2>3 DEF Start, TypeOK, repoVars, envVars
<1>7. CASE AcquireIndexingLock(r)
  <2>1. UNCHANGED jobs /\ Alive
    BY <1>7 DEF AcquireIndexingLock, At
  <2>2. PICK next \in {Goto(r, "create-index-job"), Ended} : Reply(r, "acquire-lock", next)
    BY <1>7 DEF AcquireIndexingLock
  <2>3. next \in RunStates /\ ShapeOf(next, DOMAIN jobs)
    BY <1>2, <1>7, <2>1, <2>2, FreshRecords DEF AcquireIndexingLock, At, Executing, Steps, LockedSteps, ReleasedSteps, FailureSteps, ShaSteps
  <2>4. run' \in [Runs -> RunStates] /\ ShapeInv'
    BY <2>1, <2>2, <2>3, ReplyStep
  <2> QED
    BY <1>7, <2>4 DEF AcquireIndexingLock, TypeOK, IndexStatuses, envVars
<1>8. CASE CreateIndexJob(r)
  <2> DEFINE row == [run |-> r, repo |-> run[r].repo, sha |-> None, status |-> "RUNNING"]
             next == [Goto(r, "resolve-target") EXCEPT !.job = Len(jobs')]
  <2>1. Alive /\ Executing(r) /\ row \in JobRows
    BY <1>3, <1>8 DEF CreateIndexJob, At, JobRows
  <2>2. jobs \in Seq(JobRows) /\ jobs' = Append(jobs, row)
    BY <1>8 DEF CreateIndexJob, TypeOK
  <2>3. /\ jobs' \in Seq(JobRows) /\ DOMAIN jobs \subseteq DOMAIN jobs'
        /\ Len(jobs') \in DOMAIN jobs' /\ Len(jobs') \in Nat
    <3> HIDE DEF row
    <3> QED BY <2>1, <2>2, AppendProperties
  <2>4. next \in RunStates /\ ShapeOf(next, DOMAIN jobs')
    <3>1. Goto(r, "resolve-target") \in RunStates
      BY <1>1, GotoRecord DEF Steps, LockedSteps, ReleasedSteps, FailureSteps, ShaSteps
    <3>2. /\ next \in RunStates /\ next.pc = "resolve-target" /\ next.job = Len(jobs')
          /\ next.st = run[r].st /\ next.repo = run[r].repo
      BY <1>1, <2>3, <3>1 DEF Goto, RunStates
    <3> HIDE DEF next
    <3> QED
      BY <1>3, <2>1, <2>3, <3>2 DEF ShapeOf, Executing, FailureSteps, ShaSteps
  <2>5. Reply(r, "create-index-job", next)
    BY <1>8 DEF CreateIndexJob
  <2> HIDE DEF next, row
  <2>6. run' \in [Runs -> RunStates] /\ ShapeInv'
    BY <2>1, <2>3, <2>4, <2>5, ReplyStep
  <2> QED
    BY <1>8, <2>3, <2>6 DEF CreateIndexJob, TypeOK, repoVars, envVars
<1>9. CASE CreateIndexJobRejected(r)
  <2>1. UNCHANGED jobs /\ Alive /\ Becomes(r, Retried(r))
    BY <1>9 DEF CreateIndexJobRejected, At, FailingAt
  <2>2. run' \in [Runs -> RunStates] /\ ShapeInv'
    BY <2>1, RetryStep
  <2> QED
    BY <1>9, <2>2 DEF CreateIndexJobRejected, TypeOK, repoVars, envVars
<1>10. CASE ResolveTarget(r)
  <2> DEFINE p == indexedCommitSha[run[r].repo]
             next == [Goto(r, "resolve-head-sha") EXCEPT !.indexed = p]
  <2>1. UNCHANGED jobs /\ Alive /\ Executing(r) /\ p \in Shas \cup {None}
    BY <1>3, <1>10 DEF ResolveTarget, At, TypeOK
  <2>2. Goto(r, "resolve-head-sha") \in RunStates
        /\ ShapeOf(Goto(r, "resolve-head-sha"), DOMAIN jobs)
    BY <1>2, <1>4, <1>10, <2>1 DEF ResolveTarget, At, Executing, Steps, LockedSteps, ReleasedSteps, FailureSteps, ShaSteps
  <2>3. next \in RunStates /\ ShapeOf(next, DOMAIN jobs)
    <3> HIDE DEF p
    <3> QED BY <2>1, <2>2 DEF RunStates, ShapeOf
  <2>4. Reply(r, "resolve-target", next)
    BY <1>10 DEF ResolveTarget
  <2> HIDE DEF next
  <2>5. run' \in [Runs -> RunStates] /\ ShapeInv'
    BY <2>1, <2>3, <2>4, ReplyStep
  <2> QED
    BY <1>10, <2>5 DEF ResolveTarget, TypeOK, repoVars, envVars
<1>11. CASE ResolveHeadSha(r)
  <2>1. UNCHANGED jobs /\ Alive /\ Executing(r)
    BY <1>11 DEF ResolveHeadSha, At
  <2>2. PICK sha \in Shas, step \in {"mark-noop-succeeded", "record-target-sha"} :
          Reply(r, "resolve-head-sha", [Goto(r, step) EXCEPT !.sha = sha])
    BY <1>11 DEF ResolveHeadSha
  <2> DEFINE next == [Goto(r, step) EXCEPT !.sha = sha]
  <2>3. next \in RunStates /\ ShapeOf(next, DOMAIN jobs)
    <3>1. step \in Steps
      BY DEF Steps, LockedSteps, ReleasedSteps, FailureSteps, ShaSteps
    <3>2. Goto(r, step) \in RunStates /\ Goto(r, step).pc = step /\ Goto(r, step).st = run[r].st
          /\ Goto(r, step).repo = run[r].repo /\ Goto(r, step).job = run[r].job
      BY <1>1, <3>1, GotoRecord
    <3>3. /\ next \in RunStates /\ next.pc = step /\ next.sha = sha
          /\ next.st = run[r].st /\ next.repo = run[r].repo /\ next.job = run[r].job
      BY <3>2 DEF RunStates
    <3>4. run[r].job \in DOMAIN jobs
      BY <1>4, <1>11 DEF ResolveHeadSha, At
    <3> HIDE DEF next
    <3> QED
      BY <1>3, <2>1, <3>3, <3>4 DEF ShapeOf, Executing, FailureSteps, ShaSteps
  <2> HIDE DEF next
  <2>4. run' \in [Runs -> RunStates] /\ ShapeInv'
    BY <2>1, <2>2, <2>3, ReplyStep DEF next
  <2> QED
    BY <1>11, <2>4 DEF ResolveHeadSha, TypeOK, repoVars, envVars
<1>12. CASE HeadNotAccessible(r)
  <2>1. UNCHANGED jobs /\ Alive /\ Executing(r)
    BY <1>12 DEF HeadNotAccessible, At
  <2>2. run' \in [Runs -> RunStates] /\ ShapeInv'
    BY <1>3, <1>12, <2>1, ReplyStep DEF HeadNotAccessible
  <2> QED
    BY <1>12, <2>2 DEF HeadNotAccessible, TypeOK, repoVars, envVars
<1>13. CASE HeadUnavailable(r)
  <2>1. UNCHANGED jobs /\ Alive
    BY <1>13 DEF HeadUnavailable, At, FailingAt
  <2>2. run' \in [Runs -> RunStates] /\ ShapeInv'
    <3>1. Goto(r, "transient-throw") \in RunStates /\ ShapeOf(Goto(r, "transient-throw"), DOMAIN jobs)
      BY <1>2, <1>4, <1>5, <1>13, <2>1 DEF HeadUnavailable, At, FailingAt, Executing, Steps, LockedSteps, ReleasedSteps, FailureSteps, ShaSteps
    <3> QED
      BY <1>13, <2>1, <3>1, ReplyStep DEF HeadUnavailable
  <2> QED
    BY <1>13, <2>1, <2>2 DEF HeadUnavailable, TypeOK, IndexStatuses, LOCKABLE_STATUSES, repoVars, envVars
<1>14. CASE ThrowTransient(r)
  <2>1. UNCHANGED jobs /\ Alive /\ Becomes(r, Retried(r))
    BY <1>14 DEF ThrowTransient, At, FailingAt
  <2>2. run' \in [Runs -> RunStates] /\ ShapeInv'
    BY <2>1, RetryStep
  <2> QED
    BY <1>14, <2>2 DEF ThrowTransient, TypeOK, repoVars, envVars
<1>15. CASE MarkSucceededNoOp(r)
  <2>1. Alive /\ run[r].job \in DOMAIN jobs
    BY <1>1, <1>4, <1>15 DEF MarkSucceededNoOp, At, FailingAt, ShapeOf
  <2>2. jobs' \in Seq(JobRows) /\ DOMAIN jobs' = DOMAIN jobs
    BY <1>5, <1>15, <2>1, JobUpdated, JobFields DEF MarkSucceededNoOp, At, ShaSteps
  <2>3. run' \in [Runs -> RunStates] /\ ShapeInv'
    BY <1>15, <2>1, <2>2, FreshRecords, ReplyStep DEF MarkSucceededNoOp
  <2> QED
    BY <1>15, <2>2, <2>3 DEF MarkSucceededNoOp, TypeOK, repoVars, envVars
<1>16. CASE RecordTargetSha(r)
  <2>1. Alive /\ run[r].job \in DOMAIN jobs
    BY <1>1, <1>4, <1>16 DEF RecordTargetSha, At, FailingAt, ShapeOf
  <2>2. jobs' \in Seq(JobRows) /\ DOMAIN jobs' = DOMAIN jobs
    BY <1>5, <1>16, <2>1, JobUpdated, JobFields DEF RecordTargetSha, At, ShaSteps
  <2>3. run' \in [Runs -> RunStates] /\ ShapeInv'
    <3>1. Goto(r, "fetch-extract-persist") \in RunStates /\ ShapeOf(Goto(r, "fetch-extract-persist"), DOMAIN jobs')
      BY <1>2, <1>4, <1>5, <1>16, <2>1, <2>2 DEF RecordTargetSha, At, Executing, Steps, LockedSteps, ReleasedSteps, FailureSteps, ShaSteps
    <3> QED
      BY <1>16, <2>1, <2>2, <3>1, ReplyStep DEF RecordTargetSha
  <2> QED
    BY <1>16, <2>2, <2>3 DEF RecordTargetSha, TypeOK, repoVars, envVars
<1>17. CASE FetchRefused(r)
  <2>1. UNCHANGED jobs /\ Alive /\ Executing(r)
    BY <1>17 DEF FetchRefused, At
  <2>2. run' \in [Runs -> RunStates] /\ ShapeInv'
    BY <1>3, <1>17, <2>1, FreshRecords, BecomesStep DEF FetchRefused
  <2> QED
    BY <1>17, <2>2 DEF FetchRefused, TypeOK, repoVars, envVars
<1>18. CASE RateLimited(r)
  <2> DEFINE x == [Goto(r, "sleep") EXCEPT !.sleeps = @ + 1]
  <2>1. UNCHANGED jobs /\ Alive /\ Executing(r)
    BY <1>18 DEF RateLimited, At
  <2>2. Goto(r, "sleep") \in RunStates /\ ShapeOf(Goto(r, "sleep"), DOMAIN jobs)
    BY <1>2, <1>4, <1>5, <1>18, <2>1 DEF RateLimited, At, Executing, Steps, LockedSteps, ReleasedSteps, FailureSteps, ShaSteps
  <2>3. x \in RunStates /\ ShapeOf(x, DOMAIN jobs)
    BY <2>2 DEF RunStates, ShapeOf
  <2>4. Reply(r, "fetch-extract-persist", x) \/ Reply(r, "fetch-extract-persist", Failed(r))
    BY <1>18 DEF RateLimited
  <2> HIDE DEF x
  <2>5. run' \in [Runs -> RunStates] /\ ShapeInv'
    BY <1>3, <2>1, <2>3, <2>4, ReplyStep
  <2> QED
    BY <1>18, <2>5 DEF RateLimited, TypeOK, repoVars, envVars
<1>19. CASE WakeUp(r)
  <2> DEFINE x == Goto(r, "fetch-extract-persist")
  <2>1. UNCHANGED jobs /\ Alive /\ Executing(r)
    BY <1>19 DEF WakeUp, At
  <2>2. x \in RunStates /\ ShapeOf(x, DOMAIN jobs)
    BY <1>2, <1>4, <1>5, <1>19, <2>1 DEF WakeUp, At, Executing, Steps, LockedSteps, ReleasedSteps, FailureSteps, ShaSteps
  <2>3. Becomes(r, x) \/ Becomes(r, Ended)
    BY <1>19 DEF WakeUp
  <2> HIDE DEF x
  <2>4. run' \in [Runs -> RunStates] /\ ShapeInv'
    BY <2>1, <2>2, <2>3, FreshRecords, BecomesStep
  <2> QED
    BY <1>19, <2>4 DEF WakeUp, TypeOK, repoVars, envVars
<1>20. CASE PersistBegins(r)
  <2> DEFINE p == run[r].repo
             x == [run[r] EXCEPT !.pc = "persisting", !.alone = (Persisting(p) = {})]
  <2>1. UNCHANGED jobs /\ Executing(r) /\ p \in Repos
    BY <1>3, <1>20 DEF PersistBegins, At
  <2>2. x \in RunStates /\ ShapeOf(x, DOMAIN jobs)
    <3>1. "persisting" \in Steps /\ (Persisting(p) = {}) \in BOOLEAN
      BY DEF Steps, LockedSteps, ReleasedSteps, FailureSteps, ShaSteps
    <3>2. /\ x \in RunStates /\ x.pc = "persisting" /\ x.st = run[r].st
          /\ x.repo = run[r].repo /\ x.job = run[r].job /\ x.sha = run[r].sha
      BY <1>1, <3>1 DEF RunStates
    <3>3. run[r].sha \in Shas /\ run[r].job \in DOMAIN jobs
      BY <1>4, <1>5, <1>20 DEF PersistBegins, At, ShaSteps
    <3> HIDE DEF x
    <3> QED
      BY <2>1, <3>2, <3>3 DEF ShapeOf, Executing, FailureSteps
  <2>3. \A q \in Runs : run'[q] \in RunStates /\ ShapeOf(run'[q], DOMAIN jobs)
    <3> TAKE q \in Runs
    <3>1. run[q] \in RunStates /\ ShapeOf(run[q], DOMAIN jobs)
      BY RunTyped
    <3> DEFINE y == [run[q] EXCEPT !.alone = FALSE]
    <3>2. y \in RunStates /\ ShapeOf(y, DOMAIN jobs)
      BY <3>1 DEF RunStates, ShapeOf
    <3>3. r \notin Persisting(p)
      BY <1>20 DEF PersistBegins, Persisting, At
    <3>4. run'[q] \in {x, y, run[q]}
      BY <1>20, <3>3 DEF PersistBegins
    <3> HIDE DEF x, y
    <3> QED
      BY <2>2, <3>1, <3>2, <3>4
  <2>4. run' \in [Runs -> RunStates]
    BY <1>20, <2>3 DEF PersistBegins
  <2>5. ShapeInv'
    BY <2>1, <2>3 DEF ShapeInv, RunShape, ShapeOf, Executing, FailingAt
  <2> QED
    BY <1>20, <2>4, <2>5 DEF PersistBegins, TypeOK, envVars
<1>21. CASE PersistEnds(r)
  <2> DEFINE x == [Goto(r, "record-persist-progress") EXCEPT !.alone = TRUE]
  <2>1. UNCHANGED jobs /\ Alive /\ Executing(r)
    BY <1>21 DEF PersistEnds, At
  <2>2. Goto(r, "record-persist-progress") \in RunStates
        /\ ShapeOf(Goto(r, "record-persist-progress"), DOMAIN jobs)
    BY <1>2, <1>4, <1>5, <1>21, <2>1 DEF PersistEnds, At, Executing, Steps, LockedSteps, ReleasedSteps, FailureSteps, ShaSteps
  <2>3. x \in RunStates /\ ShapeOf(x, DOMAIN jobs)
    BY <2>2 DEF RunStates, ShapeOf
  <2>4. Reply(r, "fetch-extract-persist", x)
    BY <1>21 DEF PersistEnds
  <2> HIDE DEF x
  <2>5. run' \in [Runs -> RunStates] /\ ShapeInv'
    BY <2>1, <2>3, <2>4, ReplyStep
  <2>6. run[r].sha \in Shas
    BY <1>5, <1>21 DEF PersistEnds, At, ShaSteps
  <2> QED
    BY <1>21, <2>5, <2>6 DEF PersistEnds, TypeOK, envVars
<1>22. CASE RecordPersistProgress(r)
  <2>1. UNCHANGED jobs /\ Alive
    BY <1>22 DEF RecordPersistProgress, At, FailingAt
  <2>2. run' \in [Runs -> RunStates] /\ ShapeInv'
    <3>1. Goto(r, "mark-repository-indexed") \in RunStates /\ ShapeOf(Goto(r, "mark-repository-indexed"), DOMAIN jobs)
      BY <1>2, <1>4, <1>5, <1>22, <2>1 DEF RecordPersistProgress, At, FailingAt, Executing, Steps, LockedSteps, ReleasedSteps, FailureSteps, ShaSteps
    <3> QED
      BY <1>22, <2>1, <3>1, ReplyStep DEF RecordPersistProgress
  <2> QED
    BY <1>22, <2>1, <2>2 DEF RecordPersistProgress, TypeOK, IndexStatuses, LOCKABLE_STATUSES, repoVars, envVars
<1>23. CASE MarkIndexed(r)
  <2>1. UNCHANGED jobs /\ Alive /\ Executing(r) /\ run[r].sha \in Shas
    BY <1>5, <1>23 DEF MarkIndexed, At, ShaSteps
  <2>2. Goto(r, "mark-job-succeeded") \in RunStates
        /\ ShapeOf(Goto(r, "mark-job-succeeded"), DOMAIN jobs)
    BY <1>2, <1>4, <1>23, <2>1 DEF MarkIndexed, At, Executing, Steps, LockedSteps, ReleasedSteps, FailureSteps, ShaSteps
  <2>3. run' \in [Runs -> RunStates] /\ ShapeInv'
    BY <1>23, <2>1, <2>2, ReplyStep DEF MarkIndexed
  <2> QED
    BY <1>23, <2>1, <2>3 DEF MarkIndexed, TypeOK, IndexStatuses, LOCKABLE_STATUSES, envVars
<1>24. CASE MarkJobSucceeded(r)
  <2>1. Alive /\ run[r].job \in DOMAIN jobs
    BY <1>1, <1>4, <1>24 DEF MarkJobSucceeded, At, FailingAt, ShapeOf
  <2>2. jobs' \in Seq(JobRows) /\ DOMAIN jobs' = DOMAIN jobs
    BY <1>5, <1>24, <2>1, JobUpdated, JobFields DEF MarkJobSucceeded, At, ShaSteps
  <2>3. run' \in [Runs -> RunStates] /\ ShapeInv'
    <3>1. Goto(r, "emit-repository-indexed") \in RunStates /\ ShapeOf(Goto(r, "emit-repository-indexed"), DOMAIN jobs')
      BY <1>2, <1>4, <1>5, <1>24, <2>1, <2>2 DEF MarkJobSucceeded, At, Executing, Steps, LockedSteps, ReleasedSteps, FailureSteps, ShaSteps
    <3> QED
      BY <1>24, <2>1, <2>2, <3>1, ReplyStep DEF MarkJobSucceeded
  <2> QED
    BY <1>24, <2>2, <2>3 DEF MarkJobSucceeded, TypeOK, repoVars, envVars
<1>25. CASE EmitRepositoryIndexed(r)
  <2>1. UNCHANGED jobs /\ Alive
    BY <1>25 DEF EmitRepositoryIndexed, At, FailingAt
  <2>2. run' \in [Runs -> RunStates] /\ ShapeInv'
    BY <1>25, <2>1, FreshRecords, ReplyStep DEF EmitRepositoryIndexed
  <2> QED
    BY <1>25, <2>2 DEF EmitRepositoryIndexed, TypeOK, repoVars, envVars
<1>26. CASE MarkFailed(r)
  <2>1. UNCHANGED jobs /\ Alive
    BY <1>26 DEF MarkFailed, At, FailingAt
  <2>2. run' \in [Runs -> RunStates] /\ ShapeInv'
    <3>1. Goto(r, "find-job-for-failure") \in RunStates /\ ShapeOf(Goto(r, "find-job-for-failure"), DOMAIN jobs)
      BY <1>2, <1>4, <1>5, <1>26, <2>1 DEF MarkFailed, At, FailingAt, Executing, Steps, LockedSteps, ReleasedSteps, FailureSteps, ShaSteps
    <3> QED
      BY <1>26, <2>1, <3>1, ReplyStep DEF MarkFailed
  <2> QED
    BY <1>26, <2>1, <2>2 DEF MarkFailed, TypeOK, IndexStatuses, LOCKABLE_STATUSES, repoVars, envVars
<1>27. CASE FindJobForFailure(r)
  <2>1. UNCHANGED jobs /\ Alive
    BY <1>27 DEF FindJobForFailure, FailingAt
  <2>2. CASE Reply(r, "find-job-for-failure", Ended)
    BY <1>27, <2>1, <2>2, FreshRecords, ReplyStep DEF FindJobForFailure, TypeOK, repoVars, envVars
  <2>3. ASSUME NEW j \in DOMAIN jobs,
               Reply(r, "find-job-for-failure", [Goto(r, "mark-job-failed") EXCEPT !.job = j])
        PROVE  TypeShape'
    <3> DEFINE x == [Goto(r, "mark-job-failed") EXCEPT !.job = j]
    <3>1. j \in Nat
      BY DEF TypeOK
    <3>2. Goto(r, "mark-job-failed") \in RunStates
      BY <1>1, GotoRecord DEF Steps, LockedSteps, ReleasedSteps, FailureSteps, ShaSteps
    <3>3. /\ x \in RunStates /\ x.pc = "mark-job-failed" /\ x.job = j
          /\ x.st = run[r].st /\ x.repo = run[r].repo
      BY <1>1, <3>1, <3>2 DEF Goto, RunStates
    <3>4. Reply(r, "find-job-for-failure", x)
      BY <2>3
    <3>5. run[r].st = "failing"
      BY <1>27 DEF FindJobForFailure, FailingAt
    <3> HIDE DEF x
    <3>6. ShapeOf(x, DOMAIN jobs)
      BY <1>1, <3>3, <3>5 DEF ShapeOf, FailureSteps
    <3>7. run' \in [Runs -> RunStates] /\ ShapeInv'
      BY <2>1, <3>3, <3>4, <3>6, ReplyStep
    <3> QED
      BY <1>27, <3>7 DEF FindJobForFailure, TypeOK, repoVars, envVars
  <2> QED
    BY <1>27, <2>2, <2>3 DEF FindJobForFailure
<1>28. CASE MarkJobFailed(r)
  <2>1. Alive /\ run[r].job \in DOMAIN jobs
    BY <1>1, <1>4, <1>28 DEF MarkJobFailed, At, FailingAt, ShapeOf
  <2>2. jobs' \in Seq(JobRows) /\ DOMAIN jobs' = DOMAIN jobs
    BY <1>5, <1>28, <2>1, JobUpdated, JobFields DEF MarkJobFailed, At, ShaSteps
  <2>3. run' \in [Runs -> RunStates] /\ ShapeInv'
    BY <1>28, <2>1, <2>2, FreshRecords, ReplyStep DEF MarkJobFailed
  <2> QED
    BY <1>28, <2>2, <2>3 DEF MarkJobFailed, TypeOK, repoVars, envVars
<1>29. CASE StepThrows(r)
  <2>1. UNCHANGED jobs /\ Alive /\ Becomes(r, Retried(r))
    BY <1>29 DEF StepThrows, At, FailingAt
  <2>2. run' \in [Runs -> RunStates] /\ ShapeInv'
    BY <2>1, RetryStep
  <2> QED
    BY <1>29, <2>2 DEF StepThrows, TypeOK, repoVars, envVars
<1> QED
  BY <1>6, <1>7, <1>8, <1>9, <1>10, <1>11, <1>12, <1>13, <1>14, <1>15, <1>16, <1>17, <1>18, <1>19, <1>20, <1>21, <1>22, <1>23, <1>24, <1>25, <1>26, <1>27, <1>28, <1>29 DEF RunStep

LEMMA InitTypeShape == Init => TypeShape
<1> SUFFICES ASSUME Init PROVE TypeShape
  OBVIOUS
<1>1. jobs \in Seq(JobRows)
  BY DEF Init
<1>2. run \in [Runs -> RunStates] /\ \A r \in Runs : run[r] = Unused
  BY FreshRecords DEF Init
<1>3. ShapeInv
  BY <1>2, FreshRecords, ShapeIsShapeOf DEF ShapeInv
<1> QED
  BY <1>1, <1>2, <1>3 DEF Init, TypeShape, TypeOK, IndexStatuses

LEMMA TypeShapeNext == TypeShape /\ [Next]_vars => TypeShape'
<1> SUFFICES ASSUME TypeShape, [Next]_vars PROVE TypeShape'
  OBVIOUS
<1>1. CASE UNCHANGED vars
  BY <1>1 DEF vars, TypeShape, TypeOK, ShapeInv, RunShape, Executing, FailingAt
<1>2. CASE Next
  BY <1>2, TypeShapeEnvironment, TypeShapeRun DEF Next
<1> QED
  BY <1>1, <1>2

LEMMA TypeShapeCorrect == Spec => []TypeShape
BY InitTypeShape, TypeShapeNext, PTL DEF Spec

(* Every state of every behaviour has the declared types: job references   *)
(* point at existing rows and a run past resolve-head-sha knows its commit. *)
THEOREM TypeCorrect == Spec => []TypeOK
<1>1. TypeShape => TypeOK
  BY DEF TypeShape
<1> QED
  BY <1>1, TypeShapeCorrect, PTL
-----------------------------------------------------------------------------
(***************************************************************************)
(* Claims.  What a run's record claims about its repository: the lock,     *)
(* being alone while it persists, and that the contents are those of its   *)
(* commit.  Most steps make no claim that was not made before.             *)
(***************************************************************************)

PersistRec(x) == x.st \in {"active", "zombie"} /\ x.pc = "persisting"

PublishRec(x) ==
  x.st \in {"active", "zombie"}
  /\ x.pc \in {"record-persist-progress", "mark-repository-indexed"}

NoMoreClaims(x, y) ==
  /\ OwnsRec(y) => OwnsRec(x) /\ y.repo = x.repo
  /\ PersistRec(y) => PersistRec(x) /\ (x.alone => y.alone)
  /\ PublishRec(y) => PublishRec(x) /\ y.repo = x.repo /\ y.sha = x.sha

NoNewClaim == \A q \in Runs : NoMoreClaims(run[q], run'[q])

LEMMA ClaimsOfRuns ==
  /\ \A q \in Runs : Owns(q) <=> OwnsRec(run[q])
  /\ \A q \in Runs : Owns(q)' <=> OwnsRec(run'[q])
  /\ ContentsInv <=> \A q \in Runs : /\ PersistRec(run[q]) => run[q].alone
                                     /\ PublishRec(run[q]) => contents[run[q].repo] = run[q].sha
  /\ ContentsInv' <=> \A q \in Runs : /\ PersistRec(run'[q]) => run'[q].alone
                                      /\ PublishRec(run'[q]) => contents'[run'[q].repo] = run'[q].sha
BY DEF Owns, OwnsRec, Indexing, Executing, FailingAt, ContentsInv, PersistRec, PublishRec, At

LEMMA OwnersAreLocked ==
  ASSUME TypeShape, LockInv, NEW q \in Runs
  PROVE  /\ OwnsRec(run[q]) => run[q].repo \in Repos /\ indexStatus[run[q].repo] = "INDEXING"
         /\ PersistRec(run[q]) \/ PublishRec(run[q]) => OwnsRec(run[q])
         /\ \A r \in Runs : OwnsRec(run[q]) /\ OwnsRec(run[r]) /\ run[q].repo = run[r].repo => q = r
BY RunTyped, ClaimsOfRuns DEF LockInv, OwnsRec, PersistRec, PublishRec, LockedSteps

LEMMA EndedClaimsNothing ==
  \A x : NoMoreClaims(x, Ended) /\ NoMoreClaims(x, x)
BY DEF NoMoreClaims, Ended, Unused, OwnsRec, PersistRec, PublishRec

LEMMA BecomesClaims ==
  ASSUME TypeShape, NEW r \in Runs, NEW x, Becomes(r, x), NoMoreClaims(run[r], x)
  PROVE  NoNewClaim
<1>1. run'[r] = x /\ \A q \in Runs \ {r} : run'[q] = run[q]
  BY DEF Becomes, TypeShape, TypeOK
<1> QED
  BY <1>1, EndedClaimsNothing DEF NoNewClaim

LEMMA RetriedClaims ==
  ASSUME TypeShape, NEW r \in Runs, Executing(r) \/ run[r].st = "failing",
         OwnsRec(run[r]) \/ run[r].st # "active"
  PROVE  NoMoreClaims(run[r], Retried(r))
<1>1. Retried(r) # Ended => Retried(r).repo = run[r].repo
  BY RunTyped, RetriedRecord
<1>2. OwnsRec(Retried(r)) => OwnsRec(run[r])
  BY RunTyped, RetriedRecord
<1>3. ~PersistRec(Retried(r))
  BY RunTyped, RetriedRecord DEF PersistRec
<1>4. PublishRec(Retried(r)) => PublishRec(run[r]) /\ Retried(r).sha = run[r].sha
  BY RunTyped, RetriedRecord, FreshRecords DEF PublishRec, Executing
<1> QED
  BY <1>1, <1>2, <1>3, <1>4, EndedClaimsNothing DEF NoMoreClaims

LEMMA ReplyClaims ==
  ASSUME TypeShape, NEW r \in Runs, NEW step, NEW next, Reply(r, step, next),
         Executing(r) \/ run[r].st = "failing",
         NoMoreClaims(run[r], next),
         step \in Faulty => OwnsRec(run[r]) \/ run[r].st # "active"
  PROVE  NoNewClaim
<1>1. CASE step \in Faulty /\ Becomes(r, Retried(r))
  BY <1>1, RetriedClaims, BecomesClaims
<1>2. CASE Becomes(r, Ended)
  BY <1>2, BecomesClaims, EndedClaimsNothing
<1>3. CASE Becomes(r, next)
  BY <1>3, BecomesClaims
<1> QED
  BY <1>1, <1>2, <1>3 DEF Reply

LEMMA ClaimsKept ==
  ASSUME LockInv, ContentsInv, NoNewClaim, UNCHANGED <<indexStatus, contents>>
  PROVE  LockInv' /\ ContentsInv'
<1>1. LockInv'
  BY ClaimsOfRuns DEF LockInv, NoNewClaim, NoMoreClaims
<1>2. ContentsInv'
  BY ClaimsOfRuns DEF NoNewClaim, NoMoreClaims
<1> QED
  BY <1>1, <1>2

(* The environment claims nothing. *)
LEMMA EnvironmentClaims ==
  ASSUME TypeShape,
         \/ \E p \in Repos : ConnectRepository(p) \/ TriggerIndex(p) \/ SweepStale(p)
         \/ \E j \in Projects : DeleteProject(j) \/ CancelRuns(j)
         \/ \E r \in Runs : TimeOut(r)
         \/ GithubChanges
  PROVE  NoNewClaim
<1>1. ASSUME NEW p \in Repos, NEW preset \in BOOLEAN, Enqueue(p, preset)
      PROVE  NoNewClaim
  <2> DEFINE x == [Unused EXCEPT !.st = "queued", !.repo = p, !.preset = preset]
  <2>1. PICK r \in Runs : Becomes(r, x)
    BY <1>1 DEF Enqueue
  <2>2. NoMoreClaims(run[r], x)
    BY DEF Unused, OwnsRec, PersistRec, PublishRec, NoMoreClaims
  <2> HIDE DEF x
  <2> QED
    BY <2>1, <2>2, BecomesClaims
<1>2. UNCHANGED run => NoNewClaim
  BY EndedClaimsNothing DEF NoNewClaim
<1>3. ASSUME NEW r \in Runs, NEW inFlight
      PROVE  NoMoreClaims(run[r], Cancelled(r, inFlight))
  <2>1. run[r] \in RunStates /\ ShapeOf(run[r], DOMAIN jobs)
    BY RunTyped
  <2> DEFINE z == [run[r] EXCEPT !.st = "zombie"]
  <2>2. /\ z.st = "zombie" /\ z.pc = run[r].pc /\ z.repo = run[r].repo
        /\ z.sha = run[r].sha /\ z.alone = run[r].alone
    BY <2>1 DEF RunStates
  <2>3. \/ Cancelled(r, inFlight) = run[r]
        \/ Cancelled(r, inFlight) = Ended
        \/ /\ Cancelled(r, inFlight) = z
           /\ run[r].st \in {"queued", "active"}
    BY DEF Cancelled
  <2>4. run[r].st \in {"queued", "active"} => NoMoreClaims(run[r], z)
    BY <2>1, <2>2 DEF OwnsRec, PersistRec, PublishRec, NoMoreClaims, ShapeOf, LockedSteps
  <2> HIDE DEF z
  <2> QED
    BY <2>3, <2>4, EndedClaimsNothing
<1>4. ASSUME NEW j \in Projects, CancelRuns(j)
      PROVE  NoNewClaim
  BY <1>3, <1>4, EndedClaimsNothing DEF CancelRuns, NoNewClaim
<1>5. ASSUME NEW r \in Runs, TimeOut(r)
      PROVE  NoNewClaim
  <2>1. PICK inFlight : Becomes(r, Cancelled(r, inFlight))
    BY <1>5 DEF TimeOut
  <2> QED
    BY <1>3, <2>1, BecomesClaims
<1>6. ASSUME NEW p \in Repos, ConnectRepository(p) \/ TriggerIndex(p) \/ SweepStale(p)
      PROVE  NoNewClaim
  BY <1>1, <1>2, <1>6 DEF ConnectRepository, TriggerIndex, SweepStale
<1> QED
  BY <1>2, <1>4, <1>5, <1>6 DEF DeleteProject, GithubChanges

(* A run's steps claim nothing new, but for the lock, the start and the    *)
(* completion of persisting.                                               *)
LEMMA RunStepClaims ==
  ASSUME TypeShape, LockStepsReliable, NEW r \in Runs, RunStep(r)
  PROVE  \/ AcquireIndexingLock(r) \/ PersistBegins(r) \/ PersistEnds(r)
         \/ NoNewClaim /\ (UNCHANGED repoVars \/ MarkIndexed(r) \/ MarkFailed(r))
<1>1. run[r] \in RunStates
  BY RunTyped
<1> DEFINE Alive == Executing(r) \/ run[r].st = "failing"
<1>2. ASSUME NEW step \in Steps,
             Alive, OwnsRec(run[r]) \/ step \notin LockedSteps,
             step \notin {"record-persist-progress", "mark-repository-indexed", "persisting"},
             step # "mark-repository-failed"
      PROVE  NoMoreClaims(run[r], Goto(r, step))
  BY <1>1, <1>2, GotoRecord DEF NoMoreClaims, OwnsRec, PersistRec, PublishRec
<1>3. OwnsRec(run[r]) => NoMoreClaims(run[r], Failed(r))
  BY DEF NoMoreClaims, OwnsRec, PersistRec, PublishRec, Failed, Unused
<1>4. Executing(r) /\ run[r].pc \in LockedSteps => OwnsRec(run[r])
  BY DEF OwnsRec, Executing
<1>5. Becomes(r, Retried(r)) /\ Alive /\ (OwnsRec(run[r]) \/ run[r].st # "active") => NoNewClaim
  BY RetriedClaims, BecomesClaims
<1>6. CASE Start(r)
  <2> DEFINE x == [run[r] EXCEPT !.st = "active"]
  <2>1. x.st = "active" /\ x.pc = run[r].pc /\ x.repo = run[r].repo
    BY <1>1 DEF RunStates
  <2>2. Becomes(r, x) /\ run[r].pc = "acquire-lock" /\ UNCHANGED repoVars
    BY <1>6, RunTyped DEF Start, ShapeOf
  <2>3. NoMoreClaims(run[r], x)
    BY <2>1, <2>2 DEF NoMoreClaims, OwnsRec, PersistRec, PublishRec, LockedSteps
  <2> HIDE DEF x
  <2> QED
    BY <2>2, <2>3, BecomesClaims
<1>7. CASE CreateIndexJob(r)
  <2> DEFINE id == Len(jobs')
             x == [Goto(r, "resolve-target") EXCEPT !.job = id]
  <2>1. Alive /\ OwnsRec(run[r]) /\ UNCHANGED repoVars /\ Reply(r, "create-index-job", x)
    BY <1>4, <1>7 DEF CreateIndexJob, At, LockedSteps
  <2>2. NoMoreClaims(run[r], Goto(r, "resolve-target"))
    BY <1>2, <2>1 DEF Steps, LockedSteps, ReleasedSteps, FailureSteps
  <2>3. NoMoreClaims(run[r], x)
    <3> HIDE DEF id
    <3> QED BY <1>1, <2>2 DEF Goto, RunStates, NoMoreClaims, OwnsRec, PersistRec, PublishRec
  <2> HIDE DEF x
  <2> QED
    BY <2>1, <2>3, ReplyClaims
<1>8. CASE CreateIndexJobRejected(r)
  BY <1>4, <1>5, <1>8 DEF CreateIndexJobRejected, At, LockedSteps
<1>9. CASE ResolveTarget(r)
  <2> DEFINE c == indexedCommitSha[run[r].repo]
             x == [Goto(r, "resolve-head-sha") EXCEPT !.indexed = c]
  <2>1. Alive /\ OwnsRec(run[r]) /\ UNCHANGED repoVars /\ Reply(r, "resolve-target", x)
    BY <1>4, <1>9 DEF ResolveTarget, At, LockedSteps
  <2>2. NoMoreClaims(run[r], Goto(r, "resolve-head-sha"))
    BY <1>2, <2>1 DEF Steps, LockedSteps, ReleasedSteps, FailureSteps
  <2>3. NoMoreClaims(run[r], x)
    <3> HIDE DEF c
    <3> QED BY <1>1, <2>2 DEF Goto, RunStates, NoMoreClaims, OwnsRec, PersistRec, PublishRec
  <2> HIDE DEF x
  <2> QED
    BY <2>1, <2>3, ReplyClaims
<1>10. CASE ResolveHeadSha(r)
  <2>1. Alive /\ OwnsRec(run[r]) /\ UNCHANGED repoVars
    BY <1>4, <1>10 DEF ResolveHeadSha, At, LockedSteps
  <2>2. PICK sha \in Shas, step \in {"mark-noop-succeeded", "record-target-sha"} :
          Reply(r, "resolve-head-sha", [Goto(r, step) EXCEPT !.sha = sha])
    BY <1>10 DEF ResolveHeadSha
  <2> DEFINE x == [Goto(r, step) EXCEPT !.sha = sha]
  <2>3. NoMoreClaims(run[r], Goto(r, step))
    BY <1>2, <2>1 DEF Steps, LockedSteps, ReleasedSteps, FailureSteps
  <2>4. NoMoreClaims(run[r], x)
    BY <1>1, <2>3 DEF Goto, RunStates, NoMoreClaims, OwnsRec, PersistRec, PublishRec
  <2> HIDE DEF x
  <2> QED
    BY <2>1, <2>2, <2>4, ReplyClaims DEF x
<1>11. CASE HeadNotAccessible(r)
  BY <1>3, <1>4, <1>11, ReplyClaims DEF HeadNotAccessible, At, LockedSteps
<1>12. CASE HeadUnavailable(r)
  <2>1. Alive /\ OwnsRec(run[r]) /\ UNCHANGED repoVars
    BY <1>4, <1>12 DEF HeadUnavailable, At, LockedSteps
  <2>2. NoMoreClaims(run[r], Goto(r, "transient-throw"))
    BY <1>2, <2>1 DEF Steps, LockedSteps, ReleasedSteps, FailureSteps
  <2> QED
    BY <1>12, <2>1, <2>2, ReplyClaims DEF HeadUnavailable
<1>13. CASE ThrowTransient(r)
  BY <1>4, <1>5, <1>13 DEF ThrowTransient, At, LockedSteps
<1>14. CASE MarkSucceededNoOp(r)
  BY <1>4, <1>14, ReplyClaims, EndedClaimsNothing DEF MarkSucceededNoOp, At, LockedSteps
<1>15. CASE RecordTargetSha(r)
  <2>1. Alive /\ OwnsRec(run[r]) /\ UNCHANGED repoVars
    BY <1>4, <1>15 DEF RecordTargetSha, At, LockedSteps
  <2>2. NoMoreClaims(run[r], Goto(r, "fetch-extract-persist"))
    BY <1>2, <2>1 DEF Steps, LockedSteps, ReleasedSteps, FailureSteps
  <2> QED
    BY <1>15, <2>1, <2>2, ReplyClaims DEF RecordTargetSha
<1>16. CASE FetchRefused(r)
  BY <1>3, <1>4, <1>16, BecomesClaims, EndedClaimsNothing DEF FetchRefused, At, LockedSteps
<1>17. CASE RateLimited(r)
  <2> DEFINE x == [Goto(r, "sleep") EXCEPT !.sleeps = @ + 1]
  <2>1. Alive /\ OwnsRec(run[r]) /\ UNCHANGED repoVars
    BY <1>4, <1>17 DEF RateLimited, At, LockedSteps
  <2>2. NoMoreClaims(run[r], Goto(r, "sleep"))
    BY <1>2, <2>1 DEF Steps, LockedSteps, ReleasedSteps, FailureSteps
  <2>3. NoMoreClaims(run[r], x)
    BY <1>1, <2>2 DEF Goto, RunStates, NoMoreClaims, OwnsRec, PersistRec, PublishRec
  <2>4. Reply(r, "fetch-extract-persist", x) \/ Reply(r, "fetch-extract-persist", Failed(r))
    BY <1>17 DEF RateLimited
  <2> HIDE DEF x
  <2> QED
    BY <1>3, <2>1, <2>3, <2>4, ReplyClaims
<1>18. CASE WakeUp(r)
  <2>1. Alive /\ OwnsRec(run[r]) /\ UNCHANGED repoVars
    BY <1>4, <1>18 DEF WakeUp, At, LockedSteps
  <2>2. NoMoreClaims(run[r], Goto(r, "fetch-extract-persist"))
    BY <1>2, <2>1 DEF Steps, LockedSteps, ReleasedSteps, FailureSteps
  <2>3. Becomes(r, Ended) \/ Becomes(r, Goto(r, "fetch-extract-persist"))
    BY <1>18 DEF WakeUp
  <2> QED
    BY <2>2, <2>3, <2>1, BecomesClaims, EndedClaimsNothing
<1>19. CASE RecordPersistProgress(r)
  <2>1. Alive /\ OwnsRec(run[r]) /\ PublishRec(run[r]) /\ UNCHANGED repoVars
    BY <1>4, <1>19 DEF RecordPersistProgress, At, LockedSteps, PublishRec, Executing
  <2>2. "mark-repository-indexed" \in Steps
    BY DEF Steps, LockedSteps, ReleasedSteps, FailureSteps
  <2>3. NoMoreClaims(run[r], Goto(r, "mark-repository-indexed"))
    BY <1>1, <2>1, <2>2, GotoRecord
    DEF NoMoreClaims, OwnsRec, PersistRec, PublishRec, LockedSteps
  <2> QED
    BY <1>19, <2>1, <2>3, ReplyClaims DEF RecordPersistProgress
<1>20. CASE MarkIndexed(r)
  <2>1. Alive
    BY <1>20 DEF MarkIndexed, At
  <2>2. NoMoreClaims(run[r], Goto(r, "mark-job-succeeded"))
    BY <1>2, <2>1 DEF Steps, LockedSteps, ReleasedSteps, FailureSteps
  <2>3. "mark-repository-indexed" \notin Faulty
    BY DEF LockStepsReliable
  <2> QED
    BY <1>20, <2>1, <2>2, <2>3, ReplyClaims DEF MarkIndexed
<1>21. CASE MarkJobSucceeded(r)
  <2>1. Alive /\ UNCHANGED repoVars
    BY <1>21 DEF MarkJobSucceeded, At
  <2>2. NoMoreClaims(run[r], Goto(r, "emit-repository-indexed"))
    BY <1>2, <2>1 DEF Steps, LockedSteps, ReleasedSteps, FailureSteps
  <2>3. "mark-job-succeeded" \notin Faulty
    BY DEF LockStepsReliable, ReleasedSteps
  <2> QED
    BY <1>21, <2>1, <2>2, <2>3, ReplyClaims DEF MarkJobSucceeded
<1>22. CASE EmitRepositoryIndexed(r)
  <2>1. Alive /\ UNCHANGED repoVars
    BY <1>22 DEF EmitRepositoryIndexed, At
  <2>2. "emit-repository-indexed" \notin Faulty
    BY DEF LockStepsReliable, ReleasedSteps
  <2> QED
    BY <1>22, <2>1, <2>2, ReplyClaims, EndedClaimsNothing DEF EmitRepositoryIndexed
<1>23. CASE MarkFailed(r)
  <2>1. Alive /\ run[r].st # "active"
    BY <1>23 DEF MarkFailed, FailingAt
  <2>2. NoMoreClaims(run[r], Goto(r, "find-job-for-failure"))
    BY <1>2, <2>1 DEF Steps, LockedSteps, ReleasedSteps, FailureSteps
  <2> QED
    BY <1>23, <2>1, <2>2, ReplyClaims DEF MarkFailed
<1>24. CASE FindJobForFailure(r)
  <2>1. Alive /\ run[r].st # "active" /\ UNCHANGED repoVars
    BY <1>24 DEF FindJobForFailure, FailingAt
  <2>2. CASE Reply(r, "find-job-for-failure", Ended)
    BY <2>1, <2>2, ReplyClaims, EndedClaimsNothing
  <2>3. ASSUME NEW j \in DOMAIN jobs,
               Reply(r, "find-job-for-failure", [Goto(r, "mark-job-failed") EXCEPT !.job = j])
        PROVE  NoNewClaim
    <3> DEFINE x == [Goto(r, "mark-job-failed") EXCEPT !.job = j]
    <3>1. NoMoreClaims(run[r], Goto(r, "mark-job-failed"))
      BY <1>2, <2>1 DEF Steps, LockedSteps, ReleasedSteps, FailureSteps
    <3>2. NoMoreClaims(run[r], x)
      BY <1>1, <3>1 DEF Goto, RunStates, NoMoreClaims, OwnsRec, PersistRec, PublishRec
    <3>3. Reply(r, "find-job-for-failure", x)
      BY <2>3
    <3> HIDE DEF x
    <3> QED
      BY <2>1, <3>2, <3>3, ReplyClaims
  <2> QED
    BY <1>24, <2>1, <2>2, <2>3 DEF FindJobForFailure
<1>25. CASE MarkJobFailed(r)
  BY <1>25, ReplyClaims, EndedClaimsNothing DEF MarkJobFailed, FailingAt
<1>26. CASE StepThrows(r)
  <2>1. /\ Alive /\ UNCHANGED repoVars /\ Becomes(r, Retried(r))
        /\ run[r].pc \in Faulty \cup Throwing \/ run[r].pc = "persisting"
    BY <1>26 DEF StepThrows
  <2>2. run[r].st = "active" => run[r].pc \in LockedSteps
    <3>1. run[r].st = "active" => run[r].pc \notin FailureSteps
      BY RunTyped DEF ShapeOf
    <3> QED
      BY <1>1, <2>1, <3>1 DEF LockStepsReliable, RunStates, Steps, LockedSteps, ReleasedSteps, FailureSteps
  <2> QED
    BY <1>4, <1>5, <2>1, <2>2 DEF Executing
<1> QED
  BY <1>6, <1>7, <1>8, <1>9, <1>10, <1>11, <1>12, <1>13, <1>14, <1>15, <1>16, <1>17, <1>18, <1>19, <1>20, <1>21, <1>22, <1>23, <1>24, <1>25, <1>26 DEF RunStep
-----------------------------------------------------------------------------
(***************************************************************************)
(* The inductive invariant, and what each kind of step does to the lock,   *)
(* the contents and the published commit.                                  *)
(***************************************************************************)

LEMMA PublishedKept ==
  ASSUME PublishedIsComplete, UNCHANGED <<indexedCommitSha, contents>>,
         \A p \in Repos : indexStatus'[p] = "INDEXED" => indexStatus[p] = "INDEXED"
  PROVE  PublishedIsComplete'
BY DEF PublishedIsComplete

(* A run refused changes nothing; a run that acquires is the only owner. *)
LEMMA AcquireStep ==
  ASSUME IInv, LockStepsReliable, NEW r \in Runs, AcquireIndexingLock(r)
  PROVE  /\ LockInv' /\ ContentsInv' /\ PublishedIsComplete'
         /\ \/ UNCHANGED repoVars
            \/ Serial!Take(run[r].repo)
<1> DEFINE p == run[r].repo
           x == Goto(r, "create-index-job")
<1>1. TypeShape /\ run[r] \in RunStates /\ p \in Repos
  BY RunTyped DEF IInv, TypeShape, AcquireIndexingLock, At, Executing
<1>2. /\ x.st = run[r].st /\ x.pc = "create-index-job" /\ x.repo = p
  BY <1>1, GotoRecord DEF Steps, LockedSteps
<1>3. /\ run' \in [Runs -> RunStates]
      /\ \A q \in Runs \ {r} : run'[q] = run[q]
      /\ run'[r] = Ended \/ (indexStatus[p] \in LOCKABLE_STATUSES /\ run'[r] = x)
  <2>1. "acquire-lock" \notin Faulty
    BY DEF LockStepsReliable
  <2>2. x \in RunStates
    BY <1>1, GotoRecord DEF Steps, LockedSteps
  <2> QED
    BY <1>1, <2>1, <2>2, FreshRecords DEF AcquireIndexingLock, Reply, Becomes, TypeShape, TypeOK
<1>4. /\ UNCHANGED <<indexedCommitSha, contents>>
      /\ \/ UNCHANGED indexStatus /\ indexStatus[p] \notin LOCKABLE_STATUSES
         \/ /\ indexStatus[p] \in LOCKABLE_STATUSES
            /\ indexStatus' = [indexStatus EXCEPT ![p] = "INDEXING"]
  BY DEF AcquireIndexingLock
<1>5. indexStatus \in [Repos -> IndexStatuses]
  BY DEF IInv, TypeOK
<1>6. \A q \in Runs : PersistRec(run'[q]) \/ PublishRec(run'[q]) => run'[q] = run[q]
  BY <1>2, <1>3, FreshRecords DEF PersistRec, PublishRec
<1>7. ContentsInv'
  BY <1>4, <1>6, ClaimsOfRuns DEF IInv
<1>8. PublishedIsComplete'
  BY <1>4, <1>5, PublishedKept DEF IInv
<1>9. \A q \in Runs : OwnsRec(run[q]) => run[q].repo \in Repos /\ indexStatus[run[q].repo] = "INDEXING"
  BY <1>1, OwnersAreLocked DEF IInv
<1>10. LockInv'
  <2>1. CASE run'[r] = Ended
    BY <1>1, <1>3, <1>4, <1>5, <1>9, <2>1, ClaimsOfRuns, FreshRecords DEF LockInv, IInv
  <2>2. CASE indexStatus[p] \in LOCKABLE_STATUSES /\ run'[r] = x
    <3>1. \A q \in Runs \ {r} : OwnsRec(run[q]) => run[q].repo # p
      BY <1>9, <2>2 DEF LOCKABLE_STATUSES
    <3>2. \A q \in Runs \ {r} : Owns(q)' => OwnsRec(run[q]) /\ run'[q] = run[q]
      BY <1>3, ClaimsOfRuns
    <3> HIDE DEF x
    <3> QED
      BY <1>1, <1>2, <1>3, <1>4, <1>5, <1>9, <2>2, <3>1, <3>2, ClaimsOfRuns DEF LockInv, IInv
  <2> QED
    BY <1>3, <2>1, <2>2
<1>11. UNCHANGED repoVars \/ Serial!Take(p)
  BY <1>1, <1>4, <1>5 DEF repoVars, Serial!Take, LOCKABLE_STATUSES
<1> QED
  BY <1>7, <1>8, <1>10, <1>11

(* Nobody else persists or has completed anything: the owner is alone. *)
LEMMA PersistBeginsStep ==
  ASSUME IInv, NEW r \in Runs, PersistBegins(r)
  PROVE  /\ LockInv' /\ ContentsInv' /\ PublishedIsComplete'
         /\ Serial!Write(run[r].repo)
<1> DEFINE p == run[r].repo
           alone == (Persisting(p) = {})
           x == [run[r] EXCEPT !.pc = "persisting", !.alone = alone]
<1>1. TypeShape /\ run[r] \in RunStates /\ OwnsRec(run[r]) /\ ~PersistRec(run[r]) /\ p \in Repos
  BY RunTyped DEF IInv, TypeShape, PersistBegins, At, Executing, OwnsRec, PersistRec, LockedSteps
<1>2. Persisting(p) = {}
  BY <1>1, OwnersAreLocked DEF IInv, Persisting, Of, At, Executing, PersistRec
<1>3. /\ x.st = run[r].st /\ x.pc = "persisting" /\ x.repo = p /\ x.alone = TRUE
  BY <1>1, <1>2 DEF RunStates
<1>4. OwnsRec(x) /\ PersistRec(x) /\ ~PublishRec(x)
  BY <1>1, <1>3 DEF PersistBegins, At, Executing, OwnsRec, PersistRec, PublishRec, LockedSteps
<1>5. run'[r] = x /\ \A q \in Runs \ {r} : run'[q] = run[q]
  BY <1>2 DEF PersistBegins
<1> HIDE DEF x, alone
<1>6. /\ UNCHANGED <<indexStatus, indexedCommitSha>>
      /\ contents' = [contents EXCEPT ![p] = Mixed]
      /\ contents \in [Repos -> Shas \cup {None, Mixed}]
  BY DEF PersistBegins, IInv, TypeOK
<1>7. LockInv'
  BY <1>1, <1>3, <1>4, <1>5, <1>6, ClaimsOfRuns DEF LockInv, IInv
<1>8. ContentsInv'
  <2>1. \A q \in Runs \ {r} : PublishRec(run[q]) => run[q].repo # p /\ run[q].repo \in Repos
    BY <1>1, OwnersAreLocked DEF IInv
  <2> QED
    BY <1>3, <1>4, <1>5, <1>6, <2>1, ClaimsOfRuns DEF IInv
<1>9. indexStatus[p] = "INDEXING"
  BY <1>1, OwnersAreLocked DEF IInv
<1>10. PublishedIsComplete'
  BY <1>6, <1>9 DEF IInv, PublishedIsComplete
<1>11. Serial!Write(p)
  BY <1>1, <1>6, <1>9 DEF Serial!Write
<1> QED
  BY <1>7, <1>8, <1>10, <1>11

(* A persist step that was alone leaves the rows of its commit. *)
LEMMA PersistEndsStep ==
  ASSUME IInv, NEW r \in Runs, PersistEnds(r)
  PROVE  /\ LockInv' /\ ContentsInv' /\ PublishedIsComplete'
         /\ Serial!Write(run[r].repo)
<1> DEFINE p == run[r].repo
           sha == run[r].sha
           x == [Goto(r, "record-persist-progress") EXCEPT !.alone = TRUE]
<1>1. /\ TypeShape /\ run[r] \in RunStates /\ p \in Repos /\ sha \in Shas
      /\ OwnsRec(run[r]) /\ PersistRec(run[r]) /\ Executing(r)
  BY RunTyped
  DEF IInv, TypeShape, PersistEnds, At, Executing, OwnsRec, PersistRec, LockedSteps, ShapeOf, ShaSteps
<1>2. /\ UNCHANGED <<indexStatus, indexedCommitSha>>
      /\ contents' = [contents EXCEPT ![p] = sha]
      /\ contents \in [Repos -> Shas \cup {None, Mixed}]
  BY <1>1, ClaimsOfRuns DEF PersistEnds, IInv, TypeOK
<1>3. /\ x.st = run[r].st /\ x.pc = "record-persist-progress" /\ x.repo = p /\ x.sha = sha
  BY <1>1 DEF RunStates, Goto
<1>4. /\ \A q \in Runs \ {r} : run'[q] = run[q]
      /\ run'[r] \in {Ended, x, Retried(r)}
  BY <1>1 DEF PersistEnds, Reply, Becomes, TypeShape, TypeOK
<1> HIDE DEF x
<1>5. /\ OwnsRec(run'[r]) => run'[r].repo = p
      /\ ~PersistRec(run'[r])
      /\ PublishRec(run'[r]) => run'[r].repo = p /\ run'[r].sha = sha
  <2>1. CASE run'[r] = Ended
    BY <2>1, FreshRecords DEF OwnsRec, PersistRec, PublishRec
  <2>2. CASE run'[r] = x
    BY <1>3, <2>2 DEF PersistRec
  <2>3. CASE run'[r] = Retried(r)
    BY <1>1, <2>3, RetriedClaims, RunTyped, RetriedRecord DEF NoMoreClaims, PersistRec, PublishRec
  <2> QED
    BY <1>4, <2>1, <2>2, <2>3
<1>6. LockInv'
  BY <1>1, <1>2, <1>4, <1>5, ClaimsOfRuns DEF LockInv, IInv
<1>7. ContentsInv'
  <2>1. \A q \in Runs \ {r} : PublishRec(run[q]) => run[q].repo # p /\ run[q].repo \in Repos
    BY <1>1, OwnersAreLocked DEF IInv
  <2> QED
    BY <1>1, <1>2, <1>4, <1>5, <2>1, ClaimsOfRuns DEF IInv
<1>8. indexStatus[p] = "INDEXING"
  BY <1>1, OwnersAreLocked DEF IInv
<1>9. PublishedIsComplete'
  BY <1>2, <1>8 DEF IInv, PublishedIsComplete
<1>10. Serial!Write(p)
  BY <1>1, <1>2, <1>8 DEF Serial!Write
<1> QED
  BY <1>6, <1>7, <1>9, <1>10

(* The owner publishes what it completed, and gives the lock back. *)
LEMMA MarkIndexedStep ==
  ASSUME IInv, LockStepsReliable, NoNewClaim, NEW r \in Runs, MarkIndexed(r)
  PROVE  /\ LockInv' /\ ContentsInv' /\ PublishedIsComplete'
         /\ Serial!Publish(run[r].repo)
<1> DEFINE p == run[r].repo
           sha == run[r].sha
           x == Goto(r, "mark-job-succeeded")
<1>1. /\ TypeShape /\ run[r] \in RunStates /\ p \in Repos /\ sha \in Shas
      /\ OwnsRec(run[r]) /\ PublishRec(run[r])
  BY RunTyped
  DEF IInv, TypeShape, MarkIndexed, At, Executing, OwnsRec, PublishRec, LockedSteps, ShapeOf, ShaSteps
<1>2. /\ UNCHANGED contents
      /\ indexStatus' = [indexStatus EXCEPT ![p] = "INDEXED"]
      /\ indexedCommitSha' = [indexedCommitSha EXCEPT ![p] = sha]
      /\ indexStatus \in [Repos -> IndexStatuses]
      /\ indexedCommitSha \in [Repos -> Shas \cup {None}]
  BY DEF MarkIndexed, IInv, TypeOK
<1>3. indexStatus[p] = "INDEXING" /\ contents[p] = sha
  BY <1>1, OwnersAreLocked, ClaimsOfRuns DEF IInv
<1>4. ~OwnsRec(run'[r])
  <2>1. x.st = run[r].st /\ x.pc = "mark-job-succeeded"
    BY <1>1, GotoRecord DEF Steps, ReleasedSteps
  <2>2. ~OwnsRec(x)
    BY <1>1, <2>1 DEF OwnsRec, LockedSteps, PublishRec
  <2>3. run'[r] = x \/ run'[r] = Ended
    BY <1>1 DEF LockStepsReliable, MarkIndexed, Reply, Becomes, TypeShape, TypeOK
  <2> HIDE DEF x
  <2> QED
    BY <2>2, <2>3, FreshRecords
<1>5. LockInv'
  <2>1. \A q \in Runs : Owns(q)' => OwnsRec(run[q]) /\ run'[q].repo = run[q].repo /\ q # r
    BY <1>4, ClaimsOfRuns DEF NoNewClaim, NoMoreClaims
  <2>2. \A q \in Runs \ {r} : OwnsRec(run[q]) =>
          run[q].repo # p /\ run[q].repo \in Repos /\ indexStatus[run[q].repo] = "INDEXING"
    BY <1>1, OwnersAreLocked DEF IInv
  <2> QED
    BY <1>1, <1>2, <2>1, <2>2, OwnersAreLocked DEF LockInv, IInv
<1>6. ContentsInv'
  BY <1>2, ClaimsOfRuns DEF NoNewClaim, NoMoreClaims, IInv
<1>7. PublishedIsComplete'
  BY <1>1, <1>2, <1>3 DEF IInv, PublishedIsComplete
<1>8. Serial!Publish(p)
  BY <1>1, <1>2, <1>3 DEF Serial!Publish
<1> QED
  BY <1>5, <1>6, <1>7, <1>8

(* onFailure gives back the lock its run had. *)
LEMMA MarkFailedStep ==
  ASSUME IInv, LockStepsReliable, NoNewClaim, NEW r \in Runs, MarkFailed(r)
  PROVE  /\ LockInv' /\ ContentsInv' /\ PublishedIsComplete'
         /\ Serial!Abandon(run[r].repo)
<1> DEFINE p == run[r].repo
           x == Goto(r, "find-job-for-failure")
<1>1. TypeShape /\ run[r] \in RunStates /\ p \in Repos /\ OwnsRec(run[r])
  BY RunTyped DEF IInv, TypeShape, MarkFailed, FailingAt, OwnsRec
<1>2. /\ UNCHANGED <<indexedCommitSha, contents>>
      /\ indexStatus' = [indexStatus EXCEPT ![p] = "FAILED"]
      /\ indexStatus \in [Repos -> IndexStatuses]
  BY DEF MarkFailed, IInv, TypeOK
<1>3. indexStatus[p] = "INDEXING"
  BY <1>1, OwnersAreLocked DEF IInv
<1>4. ~OwnsRec(run'[r])
  <2>1. x.st = run[r].st /\ x.pc = "find-job-for-failure"
    BY <1>1, GotoRecord DEF Steps, FailureSteps
  <2>2. ~OwnsRec(x)
    BY <2>1 DEF OwnsRec, LockedSteps, MarkFailed, FailingAt
  <2>3. run'[r] = x \/ run'[r] = Ended
    BY <1>1 DEF LockStepsReliable, MarkFailed, Reply, Becomes, TypeShape, TypeOK
  <2> HIDE DEF x
  <2> QED
    BY <2>2, <2>3, FreshRecords
<1>5. LockInv'
  <2>1. \A q \in Runs : Owns(q)' => OwnsRec(run[q]) /\ run'[q].repo = run[q].repo /\ q # r
    BY <1>4, ClaimsOfRuns DEF NoNewClaim, NoMoreClaims
  <2>2. \A q \in Runs \ {r} : OwnsRec(run[q]) =>
          run[q].repo # p /\ run[q].repo \in Repos /\ indexStatus[run[q].repo] = "INDEXING"
    BY <1>1, OwnersAreLocked DEF IInv
  <2> QED
    BY <1>1, <1>2, <2>1, <2>2, OwnersAreLocked DEF LockInv, IInv
<1>6. ContentsInv'
  BY <1>2, ClaimsOfRuns DEF NoNewClaim, NoMoreClaims, IInv
<1>7. PublishedIsComplete'
  BY <1>2, PublishedKept DEF IInv
<1>8. Serial!Abandon(p)
  BY <1>1, <1>2, <1>3 DEF Serial!Abandon
<1> QED
  BY <1>5, <1>6, <1>7, <1>8
-----------------------------------------------------------------------------
(***************************************************************************)
(* The theorems about the lock.                                            *)
(***************************************************************************)

Kept == LockInv' /\ ContentsInv' /\ PublishedIsComplete'

(* A step preserves the invariant, and is a step of the serial indexer. *)
LEMMA StepKeepsAndSimulates ==
  ASSUME IInv, LockStepsReliable, [Next]_vars
  PROVE  Kept /\ [Serial!Next]_(Serial!vars)
<1>1. TypeShape
  BY DEF IInv, TypeShape
<1>2. UNCHANGED repoVars => UNCHANGED Serial!vars
  BY DEF repoVars, Serial!vars
<1>3. NoNewClaim /\ UNCHANGED repoVars => Kept
  BY ClaimsKept, PublishedKept DEF Kept, IInv, repoVars
<1>4. ASSUME NEW p \in Repos, ConnectRepository(p)
      PROVE  Kept /\ UNCHANGED Serial!vars
  <2>1. NoNewClaim
    BY <1>1, <1>4, EnvironmentClaims
  <2>2. /\ indexStatus[p] = "ABSENT" /\ indexStatus' = [indexStatus EXCEPT ![p] = "PENDING"]
        /\ indexStatus \in [Repos -> IndexStatuses]
        /\ UNCHANGED <<indexedCommitSha, contents>>
    BY <1>4 DEF ConnectRepository, IInv, TypeOK
  <2>3. \A q \in Runs : OwnsRec(run[q]) =>
          run[q].repo \in Repos /\ indexStatus[run[q].repo] = "INDEXING"
    BY <1>1, OwnersAreLocked DEF IInv
  <2>4. \A q \in Runs : Owns(q)' => OwnsRec(run[q]) /\ run'[q].repo = run[q].repo
    BY <2>1, ClaimsOfRuns DEF NoNewClaim, NoMoreClaims
  <2>5. LockInv'
    BY <1>1, <2>2, <2>3, <2>4, OwnersAreLocked DEF LockInv, IInv
  <2>6. ContentsInv'
    BY <2>1, <2>2, ClaimsOfRuns DEF NoNewClaim, NoMoreClaims, IInv
  <2>7. PublishedIsComplete'
    BY <2>2, PublishedKept DEF IInv
  <2>8. UNCHANGED Serial!vars
    BY <2>2 DEF Serial!vars
  <2> QED
    BY <2>5, <2>6, <2>7, <2>8 DEF Kept
<1>5. CASE \/ \E p \in Repos : TriggerIndex(p) \/ SweepStale(p)
           \/ \E j \in Projects : DeleteProject(j) \/ CancelRuns(j)
           \/ \E r \in Runs : TimeOut(r)
           \/ GithubChanges
  <2>1. NoNewClaim
    BY <1>1, <1>5, EnvironmentClaims
  <2>2. UNCHANGED repoVars
    BY <1>5 DEF TriggerIndex, SweepStale, DeleteProject, CancelRuns, TimeOut, GithubChanges
  <2> QED
    BY <1>2, <1>3, <2>1, <2>2
<1>6. ASSUME NEW r \in Runs, RunStep(r)
      PROVE  Kept /\ [Serial!Next]_(Serial!vars)
  <2>1. NoNewClaim /\ UNCHANGED repoVars => Kept /\ UNCHANGED Serial!vars
    BY <1>2, <1>3
  <2>2. AcquireIndexingLock(r) \/ PersistBegins(r) \/ PersistEnds(r)
        \/ MarkIndexed(r) \/ MarkFailed(r) => run[r].repo \in Repos
    BY <1>1, RunTyped
    DEF AcquireIndexingLock, PersistBegins, PersistEnds, MarkIndexed, MarkFailed,
        At, Executing, FailingAt
  <2> DEFINE p == run[r].repo
  <2>3. p \in Repos /\ (Serial!Take(p) \/ Serial!Write(p) \/ Serial!Publish(p) \/ Serial!Abandon(p))
          => Serial!Next
    BY DEF Serial!Next, Serial!Take, Serial!Write, Serial!Publish, Serial!Abandon
  <2> HIDE DEF p
  <2>4. CASE AcquireIndexingLock(r)
    <3>1. Kept /\ (UNCHANGED repoVars \/ Serial!Take(p))
      BY <2>4, AcquireStep DEF Kept, p
    <3> QED
      BY <1>2, <2>2, <2>3, <2>4, <3>1 DEF p
  <2>5. CASE PersistBegins(r)
    <3>1. Kept /\ Serial!Write(p)
      BY <2>5, PersistBeginsStep DEF Kept, p
    <3> QED
      BY <2>2, <2>3, <2>5, <3>1 DEF p
  <2>6. CASE PersistEnds(r)
    <3>1. Kept /\ Serial!Write(p)
      BY <2>6, PersistEndsStep DEF Kept, p
    <3> QED
      BY <2>2, <2>3, <2>6, <3>1 DEF p
  <2>7. CASE NoNewClaim /\ MarkIndexed(r)
    <3>1. Kept /\ Serial!Publish(p)
      BY <2>7, MarkIndexedStep DEF Kept, p
    <3> QED
      BY <2>2, <2>3, <2>7, <3>1 DEF p
  <2>8. CASE NoNewClaim /\ MarkFailed(r)
    <3>1. Kept /\ Serial!Abandon(p)
      BY <2>8, MarkFailedStep DEF Kept, p
    <3> QED
      BY <2>2, <2>3, <2>8, <3>1 DEF p
  <2> QED
    BY <1>1, <1>6, <2>1, <2>4, <2>5, <2>6, <2>7, <2>8, RunStepClaims
<1>7. CASE UNCHANGED vars
  <2>1. NoNewClaim /\ UNCHANGED repoVars
    BY <1>7, EndedClaimsNothing DEF vars, repoVars, NoNewClaim
  <2> QED
    BY <1>2, <1>3, <2>1
<1> QED
  BY <1>4, <1>5, <1>6, <1>7 DEF Next

LEMMA IInvCorrect ==
  ASSUME LockStepsReliable
  PROVE  Spec => []IInv
<1>1. Init => IInv
  <2> SUFFICES ASSUME Init PROVE IInv
    OBVIOUS
  <2>1. TypeShape /\ \A r \in Runs : run[r] = Unused
    BY InitTypeShape DEF Init
  <2>2. LockInv /\ ContentsInv
    BY <2>1, ClaimsOfRuns, FreshRecords DEF LockInv, PersistRec, PublishRec
  <2>3. PublishedIsComplete
    BY DEF Init, PublishedIsComplete
  <2> QED
    BY <2>1, <2>2, <2>3 DEF TypeShape, IInv
<1>2. IInv /\ [Next]_vars => IInv'
  <2> SUFFICES ASSUME IInv, [Next]_vars PROVE IInv'
    OBVIOUS
  <2>1. TypeShape'
    BY TypeShapeNext DEF TypeShape, IInv
  <2>2. Kept
    BY StepKeepsAndSimulates
  <2> QED
    BY <2>1, <2>2 DEF TypeShape, Kept, IInv
<1> QED
  BY <1>1, <1>2, PTL DEF Spec

(* Two runs never index one repository at the same time, whatever is       *)
(* requested, swept, cancelled, timed out, retried or lost.                *)
THEOREM OneIndexerAlways ==
  ASSUME LockStepsReliable
  PROVE  Spec => []OneIndexer
<1>1. IInv => OneIndexer
  BY DEF IInv, LockInv, OneIndexer, Owns
<1> QED
  BY <1>1, IInvCorrect, PTL

(* A repository shown as INDEXED always holds complete rows of the commit  *)
(* it names.                                                               *)
THEOREM PublishedAlwaysComplete ==
  ASSUME LockStepsReliable
  PROVE  Spec => []PublishedIsComplete
<1>1. IInv => PublishedIsComplete
  BY DEF IInv
<1> QED
  BY <1>1, IInvCorrect, PTL

(* The life cycle implements the serial indexer: locks, rebuilds and       *)
(* publications of all runs, retries included, are one attempt at a time.  *)
THEOREM LifecycleImplementsSerial ==
  ASSUME LockStepsReliable
  PROVE  Spec => ImplementsSerialIndexing
<1>1. Init => Serial!Init
  BY DEF Init, Serial!Init
<1>2. IInv /\ [Next]_vars => [Serial!Next]_(Serial!vars)
  BY StepKeepsAndSimulates
<1> QED
  BY <1>1, <1>2, IInvCorrect, PTL DEF Spec, ImplementsSerialIndexing, Serial!Spec
-----------------------------------------------------------------------------
(***************************************************************************)
(* The job rows, while the lock is always given back and the steps that    *)
(* create, find and fail a job execute once.  IndexLifecycle's runs noop   *)
(* and unlock show what goes wrong without.                                *)
(***************************************************************************)

(* Runs are neither cancelled nor timed out, the head has always moved,    *)
(* and onFailure can unlock the repository.                                *)
LockGoesOn ==
  /\ LockStepsReliable
  /\ "mark-repository-failed" \notin Throwing
  /\ MayHappen \cap {"cancel", "timeout", "unmovedHead"} = {}

RunsGoOn ==
  /\ LockGoesOn
  /\ (Faulty \cup Throwing) \cap ({"create-index-job"} \cup FailureSteps) = {}

(* Steps of a run that has a job and holds the lock.                       *)
IndexSteps == LockedSteps \ {"create-index-job", "mark-noop-succeeded"}

(* A run that has not created its job yet.                                 *)
Jobless(x) ==
  \/ x.st \in {"unused", "queued"}
  \/ x.st = "active" /\ x.pc \in {"acquire-lock", "create-index-job"}

(* What the record of a run says of the job rows.                          *)
JobShape(r) ==
  LET x == run[r] IN
  /\ x.st # "zombie" /\ (x.st = "active" => x.pc # "mark-noop-succeeded")
  /\ x.st \notin {"unused", "ended"} => indexStatus[x.repo] # "ABSENT"
  /\ Jobless(x) => x.job = 0 /\ \A j \in DOMAIN jobs : jobs[j].run # r
  /\ x.st = "active" /\ ~Jobless(x) =>
       /\ jobs[x.job].run = r /\ jobs[x.job].repo = x.repo
       /\ jobs[x.job].status = IF x.pc = "emit-repository-indexed" THEN "SUCCEEDED" ELSE "RUNNING"
  /\ x.st = "failing" =>
       /\ \E j \in DOMAIN jobs : jobs[j].run = r
       /\ \A j \in DOMAIN jobs : jobs[j].run = r => jobs[j].repo = x.repo /\ jobs[j].status = "RUNNING"
       /\ x.pc = "mark-job-failed" => jobs[x.job].run = r
  /\ OwnsRec(x) => \A j, k \in DOMAIN jobs : jobs[j].run = r /\ jobs[k].repo = x.repo => k <= j

(* A job that has succeeded, or failed, or is about to.                    *)
Succeeds(j) ==
  \/ jobs[j].status = "SUCCEEDED"
  \/ run[jobs[j].run].st = "active" /\ run[jobs[j].run].pc = "mark-job-succeeded"

Fails(j) ==
  \/ jobs[j].status = "FAILED"
  \/ run[jobs[j].run].st = "failing" /\ run[jobs[j].run].pc \in {"find-job-for-failure", "mark-job-failed"}

IsLatest(p, j) ==
  jobs[j].repo = p /\ \A k \in DOMAIN jobs : jobs[k].repo = p => k <= j

(* The status of a repository is that of its latest job.                   *)
JobsAgree(p) ==
  /\ indexStatus[p] = "INDEXED" => \E j \in DOMAIN jobs : IsLatest(p, j) /\ Succeeds(j)
  /\ indexStatus[p] = "FAILED" => \E j \in DOMAIN jobs : IsLatest(p, j) /\ Fails(j)
  /\ indexStatus[p] = "INDEXING" => \E r \in Runs : OwnsRec(run[r]) /\ run[r].repo = p

JobInv ==
  /\ cancels = {}
  /\ \A r \in Runs : JobShape(r)
  /\ \A j, k \in DOMAIN jobs : jobs[j].run = jobs[k].run => j = k
  /\ \A p \in Repos : JobsAgree(p)

SameJob(j) ==
  jobs'[j].run = jobs[j].run /\ jobs'[j].repo = jobs[j].repo /\ jobs'[j].status = jobs[j].status

SameJobs == DOMAIN jobs' = DOMAIN jobs /\ \A j \in DOMAIN jobs : SameJob(j)

(* Only run r moved; the job rows that changed or are new are its own, and *)
(* it creates one only while it holds the lock.                            *)
OnlyMoves(r) ==
  /\ \A q \in Runs \ {r} : run'[q] = run[q]
  /\ DOMAIN jobs \subseteq DOMAIN jobs'
  /\ \A j \in DOMAIN jobs :
       jobs'[j].run = jobs[j].run /\ jobs'[j].repo = jobs[j].repo /\ (jobs[j].run # r => SameJob(j))
  /\ \A j \in DOMAIN jobs' \ DOMAIN jobs :
       jobs'[j].run = r /\ jobs'[j].repo = run[r].repo /\ OwnsRec(run[r])
  /\ \A p \in Repos : indexStatus[p] # "ABSENT" => indexStatus'[p] # "ABSENT"

LEMMA OthersKeepJobs ==
  ASSUME TypeShape, LockInv, JobInv, NEW r \in Runs, OnlyMoves(r), NEW q \in Runs \ {r}
  PROVE  JobShape(q)'
<1> DEFINE x == run[q]
<1>1. run'[q] = x /\ JobShape(q) /\ x \in RunStates /\ ShapeOf(x, DOMAIN jobs)
      /\ (x.st \notin {"unused", "ended"} => x.repo \in Repos)
  BY RunTyped DEF JobInv, OnlyMoves
<1>2. \A j \in DOMAIN jobs' : jobs'[j].run = q => j \in DOMAIN jobs /\ jobs[j].run = q /\ SameJob(j)
  BY DEF OnlyMoves
<1>3. \A j \in DOMAIN jobs : jobs[j].run = q => j \in DOMAIN jobs' /\ jobs'[j].run = q /\ SameJob(j)
  BY DEF OnlyMoves
<1>4. x.st \notin {"unused", "ended"} => indexStatus'[x.repo] # "ABSENT"
  BY <1>1 DEF JobShape, OnlyMoves
<1>5. Jobless(x) => x.job = 0 /\ \A j \in DOMAIN jobs' : jobs'[j].run # q
  BY <1>1, <1>2 DEF JobShape
<1>6. x.st = "active" /\ ~Jobless(x) =>
       /\ jobs'[x.job].run = q /\ jobs'[x.job].repo = x.repo
       /\ jobs'[x.job].status = IF x.pc = "emit-repository-indexed" THEN "SUCCEEDED" ELSE "RUNNING"
  BY <1>1, <1>3 DEF JobShape, ShapeOf, SameJob, Jobless
<1>7. x.st = "failing" =>
       /\ \E j \in DOMAIN jobs' : jobs'[j].run = q
       /\ \A j \in DOMAIN jobs' : jobs'[j].run = q => jobs'[j].repo = x.repo /\ jobs'[j].status = "RUNNING"
       /\ x.pc = "mark-job-failed" => jobs'[x.job].run = q
  BY <1>1, <1>2, <1>3 DEF JobShape, ShapeOf, SameJob
<1>8. ASSUME OwnsRec(x), NEW j \in DOMAIN jobs', NEW k \in DOMAIN jobs',
             jobs'[j].run = q, jobs'[k].repo = x.repo
      PROVE  k <= j
  <2>1. j \in DOMAIN jobs /\ jobs[j].run = q
    BY <1>2, <1>8
  <2>2. CASE k \in DOMAIN jobs
    BY <1>1, <1>8, <2>1, <2>2 DEF JobShape, OnlyMoves
  <2>3. CASE k \notin DOMAIN jobs
    BY <1>8, <2>3, OwnersAreLocked DEF OnlyMoves
  <2> QED BY <2>2, <2>3
<1> HIDE DEF x
<1> QED BY <1>1, <1>4, <1>5, <1>6, <1>7, <1>8 DEF JobShape, x

LEMMA JobsStayUnique ==
  ASSUME JobInv, NEW r \in Runs, OnlyMoves(r),
         \/ DOMAIN jobs' = DOMAIN jobs
         \/ /\ \A j \in DOMAIN jobs : jobs[j].run # r
            /\ \E n : DOMAIN jobs' \ DOMAIN jobs = {n}
  PROVE  (\A j, k \in DOMAIN jobs : jobs[j].run = jobs[k].run => j = k)'
BY DEF JobInv, OnlyMoves

(* What is kept for the repositories whose status r leaves alone.          *)
LEMMA AgreementKept ==
  ASSUME TypeShape, LockInv, JobInv, NEW r \in Runs, OnlyMoves(r), NEW p \in Repos,
         indexStatus'[p] \in {indexStatus[p], "PENDING"},
         \A j \in DOMAIN jobs : (Succeeds(j) => Succeeds(j)') /\ (Fails(j) => Fails(j)'),
         OwnsRec(run[r]) /\ run[r].repo = p => OwnsRec(run'[r]) /\ run'[r].repo = p
  PROVE  JobsAgree(p)'
<1>1. JobsAgree(p)
  BY DEF JobInv
<1>2. ASSUME NEW j \in DOMAIN jobs, IsLatest(p, j), indexStatus[p] # "INDEXING"
      PROVE  j \in DOMAIN jobs' /\ IsLatest(p, j)'
  <2>1. \A k \in DOMAIN jobs' \ DOMAIN jobs : jobs'[k].repo # p
    BY <1>2, OwnersAreLocked DEF OnlyMoves
  <2> QED BY <1>2, <2>1 DEF IsLatest, OnlyMoves
<1>3. indexStatus'[p] = "INDEXED" => \E j \in DOMAIN jobs' : IsLatest(p, j)' /\ Succeeds(j)'
  BY <1>1, <1>2 DEF JobsAgree
<1>4. indexStatus'[p] = "FAILED" => \E j \in DOMAIN jobs' : IsLatest(p, j)' /\ Fails(j)'
  BY <1>1, <1>2 DEF JobsAgree
<1>5. indexStatus'[p] = "INDEXING" => \E q \in Runs : OwnsRec(run'[q]) /\ run'[q].repo = p
  BY <1>1 DEF JobsAgree, OnlyMoves
<1> QED BY <1>3, <1>4, <1>5 DEF JobsAgree, IsLatest, Succeeds, Fails

(* One lemma per kind of move shows that it keeps the job rows in order:   *)
(* others keep their shape because only r moves (OthersKeepJobs).          *)

JobsKept(r) ==
  /\ JobShape(r)'
  /\ OnlyMoves(r)
  /\ \A p \in Repos : JobsAgree(p)'
  /\ (\A j, k \in DOMAIN jobs : jobs[j].run = jobs[k].run => j = k)'

(* A run that goes on indexing, or gives up and leaves the lock to         *)
(* onFailure.                                                              *)
Continues(x, y) ==
  /\ y.repo = x.repo
  /\ \/ y.st = "active" /\ y.job = x.job /\ y.pc \in IndexSteps
     \/ y.st = "failing" /\ y.pc = "mark-repository-failed"

Succeeding(x) == x.st = "active" /\ x.pc = "mark-job-succeeded"
Failing(x) == x.st = "failing" /\ x.pc \in {"find-job-for-failure", "mark-job-failed"}

OutcomesStay == \A j \in DOMAIN jobs : (Succeeds(j) => Succeeds(j)') /\ (Fails(j) => Fails(j)')

LEMMA OutcomesKept ==
  ASSUME TypeShape, NEW r \in Runs, \A q \in Runs \ {r} : run'[q] = run[q], SameJobs,
         Succeeding(run[r]) => Succeeding(run'[r]), Failing(run[r]) => Failing(run'[r])
  PROVE  OutcomesStay
<1> SUFFICES ASSUME NEW j \in DOMAIN jobs
             PROVE  (Succeeds(j) => Succeeds(j)') /\ (Fails(j) => Fails(j)')
  BY DEF OutcomesStay
<1>1. jobs[j] \in JobRows
  BY DEF TypeShape, TypeOK
<1>2. jobs[j].run \in Runs /\ SameJob(j)
  BY <1>1 DEF JobRows, SameJobs
<1>3. (Succeeding(run[jobs[j].run]) => Succeeding(run'[jobs[j].run]))
      /\ (Failing(run[jobs[j].run]) => Failing(run'[jobs[j].run]))
  BY <1>2
<1> QED BY <1>2, <1>3 DEF Succeeds, Fails, SameJob, Succeeding, Failing

LEMMA SamePlaceKept ==
  ASSUME TypeShape, LockInv, JobInv, NEW r \in Runs, SameJobs, UNCHANGED indexStatus,
         \A q \in Runs \ {r} : run'[q] = run[q],
         Succeeding(run[r]) => Succeeding(run'[r]), Failing(run[r]) => Failing(run'[r]),
         OwnsRec(run[r]) => OwnsRec(run'[r]) /\ run'[r].repo = run[r].repo,
         JobShape(r)'
  PROVE  JobsKept(r)
<1>1. OnlyMoves(r)
  BY DEF OnlyMoves, SameJobs, SameJob
<1>2. (\A j, k \in DOMAIN jobs : jobs[j].run = jobs[k].run => j = k)'
  BY <1>1, JobsStayUnique DEF SameJobs
<1>3. ASSUME NEW p \in Repos PROVE JobsAgree(p)'
  BY <1>1, OutcomesKept, AgreementKept DEF OutcomesStay
<1> QED BY <1>1, <1>2, <1>3 DEF JobsKept

LEMMA ContinuesKeeps ==
  ASSUME TypeShape, LockInv, JobInv, NEW r \in Runs,
         run[r].st = "active", run[r].pc \in IndexSteps, Continues(run[r], run'[r]),
         \A q \in Runs \ {r} : run'[q] = run[q],
         SameJobs, UNCHANGED indexStatus
  PROVE  JobsKept(r)
<1>1. JobShape(r) /\ ~Jobless(run[r]) /\ OwnsRec(run[r]) /\ OwnsRec(run'[r])
  BY DEF JobInv, Jobless, IndexSteps, LockedSteps, OwnsRec, Continues
<1>2. OnlyMoves(r)
  BY DEF OnlyMoves, SameJobs, SameJob
<1>3. run[r].job \in DOMAIN jobs /\ run[r].repo \in Repos
  BY <1>1, RunTyped DEF ShapeOf, Jobless
<1>4. \A j \in DOMAIN jobs : jobs[j].run = r => j = run[r].job
  BY <1>1, <1>3 DEF JobShape, JobInv
<1>5. JobShape(r)'
  BY <1>1, <1>3, <1>4 DEF JobShape, Jobless, Continues, SameJobs, SameJob, IndexSteps, LockedSteps, OwnsRec
<1>6. ~Succeeding(run[r]) /\ ~Failing(run[r])
  BY DEF IndexSteps, LockedSteps, Succeeding, Failing
<1> QED BY <1>1, <1>5, <1>6, SamePlaceKept DEF Continues

(* A run starts, is refused the lock, has announced its success, or found  *)
(* the job it is to fail.                                                  *)
LEMMA IdleMoveKeeps ==
  ASSUME TypeShape, LockInv, JobInv, NEW r \in Runs,
         \/ /\ run[r].st = "queued" /\ run'[r].st = "active" /\ run'[r].pc = "acquire-lock"
            /\ run'[r].repo = run[r].repo /\ run'[r].job = run[r].job
         \/ /\ run[r].st = "active" /\ run[r].pc \in {"acquire-lock", "emit-repository-indexed"}
            /\ run'[r] = Ended
         \/ /\ run[r].st = "failing" /\ run[r].pc = "find-job-for-failure"
            /\ run'[r].st = "failing" /\ run'[r].pc = "mark-job-failed"
            /\ run'[r].repo = run[r].repo /\ jobs[run'[r].job].run = r /\ run'[r].job \in DOMAIN jobs,
         \A q \in Runs \ {r} : run'[q] = run[q],
         SameJobs, UNCHANGED indexStatus
  PROVE  JobsKept(r)
<1>1. JobShape(r) /\ ~OwnsRec(run[r])
  BY RunTyped DEF JobInv, OwnsRec, LockedSteps, ShapeOf
<1>2. OnlyMoves(r)
  BY DEF OnlyMoves, SameJobs, SameJob
<1>3. JobShape(r)'
  <2>1. CASE run'[r].st = "active"
    BY <1>1, <2>1, FreshRecords DEF JobShape, Jobless, SameJobs, SameJob, OwnsRec, LockedSteps
  <2>2. CASE run'[r].st = "failing"
    BY <1>1, <2>2, FreshRecords DEF JobShape, Jobless, SameJobs, SameJob, OwnsRec
  <2>3. CASE run'[r] = Ended
    BY <2>3, FreshRecords DEF JobShape, Jobless
  <2>. QED BY <2>1, <2>2, <2>3
<1> QED BY <1>1, <1>3, SamePlaceKept DEF Succeeding, Failing

LEMMA AcquireKeeps ==
  ASSUME TypeShape, LockInv, JobInv, NEW r \in Runs, NEW p \in Repos, p = run[r].repo,
         run[r].st = "active" /\ run[r].pc = "acquire-lock" /\ indexStatus[p] # "INDEXING",
         run'[r].st = "active" /\ run'[r].pc = "create-index-job" /\ run'[r].repo = p
           /\ run'[r].job = run[r].job,
         indexStatus' = [indexStatus EXCEPT ![p] = "INDEXING"],
         \A q \in Runs \ {r} : run'[q] = run[q], SameJobs
  PROVE  JobsKept(r)
<1>1. JobShape(r) /\ ~OwnsRec(run[r]) /\ OwnsRec(run'[r])
  BY DEF JobInv, OwnsRec, LockedSteps
<1>2. OnlyMoves(r)
  BY DEF OnlyMoves, SameJobs, SameJob, TypeShape, TypeOK
<1>3. indexStatus'[p] = "INDEXING" /\ \A d \in Repos \ {p} : indexStatus'[d] = indexStatus[d]
  BY DEF TypeShape, TypeOK
<1>4. JobShape(r)'
  BY <1>1, <1>3 DEF JobShape, Jobless, SameJobs, SameJob
<1>5. OutcomesStay
  BY OutcomesKept DEF Succeeding, Failing
<1>6. ASSUME NEW d \in Repos \ {p} PROVE JobsAgree(d)'
  BY <1>1, <1>2, <1>3, <1>5, AgreementKept DEF OutcomesStay
<1>7. JobsAgree(p)'
  BY <1>1, <1>3 DEF JobsAgree
<1>8. (\A j, k \in DOMAIN jobs : jobs[j].run = jobs[k].run => j = k)'
  BY <1>2, JobsStayUnique DEF SameJobs
<1> QED BY <1>2, <1>4, <1>6, <1>7, <1>8 DEF JobsKept

LEMMA CreateKeeps ==
  ASSUME TypeShape, LockInv, JobInv, NEW r \in Runs,
         run[r].st = "active" /\ run[r].pc = "create-index-job",
         run'[r].st = "active" /\ run'[r].pc = "resolve-target" /\ run'[r].repo = run[r].repo,
         run'[r].job = Len(jobs) + 1,
         NEW row, row.run = r /\ row.repo = run[r].repo /\ row.status = "RUNNING",
         jobs' = Append(jobs, row), UNCHANGED indexStatus,
         \A q \in Runs \ {r} : run'[q] = run[q]
  PROVE  JobsKept(r)
<1> DEFINE n == Len(jobs) + 1
<1>1. JobShape(r) /\ OwnsRec(run[r]) /\ OwnsRec(run'[r]) /\ run[r].repo \in Repos
  BY RunTyped DEF JobInv, OwnsRec, LockedSteps
<1>2. /\ DOMAIN jobs = 1 .. Len(jobs) /\ Len(jobs) \in Nat /\ DOMAIN jobs' = 1 .. n
      /\ jobs'[n] = row /\ \A j \in DOMAIN jobs : jobs'[j] = jobs[j]
  BY DEF TypeShape, TypeOK
<1>3. DOMAIN jobs' \ DOMAIN jobs = {n} /\ DOMAIN jobs \subseteq DOMAIN jobs' /\ n \in DOMAIN jobs'
      /\ \A j \in DOMAIN jobs' : j <= n
  BY <1>2
<1>4. \A j \in DOMAIN jobs : jobs[j].run # r
  BY <1>1 DEF JobShape, Jobless
<1>. HIDE DEF n
<1>5. OnlyMoves(r)
  BY <1>1, <1>2, <1>3 DEF OnlyMoves, SameJob
<1>6. \A j \in DOMAIN jobs' : jobs'[j].run = r => j = n
  BY <1>2, <1>3, <1>4
<1>7. JobShape(r)'
  BY <1>1, <1>2, <1>3, <1>6 DEF JobShape, Jobless, n
<1>8. (\A j, k \in DOMAIN jobs : jobs[j].run = jobs[k].run => j = k)'
  BY <1>3, <1>4, <1>5, JobsStayUnique
<1>9. ASSUME NEW j \in DOMAIN jobs PROVE (Succeeds(j) => Succeeds(j)') /\ (Fails(j) => Fails(j)')
  <2>1. jobs[j].run \in Runs \ {r} /\ jobs'[j] = jobs[j]
    <3>1. jobs[j] \in JobRows
      BY DEF TypeShape, TypeOK
    <3>. QED BY <1>2, <1>4, <3>1 DEF JobRows
  <2>. QED BY <2>1 DEF Succeeds, Fails
<1>10. ASSUME NEW p \in Repos PROVE JobsAgree(p)'
  BY <1>1, <1>5, <1>9, AgreementKept
<1> QED BY <1>5, <1>7, <1>8, <1>10 DEF JobsKept

(* The outcome of a job that the lock's owner settles is that of its       *)
(* repository.                                                             *)
LEMMA SettleKeeps ==
  ASSUME TypeShape, LockInv, JobInv, NEW r \in Runs, NEW p \in Repos, p = run[r].repo,
         \/ /\ run[r].st = "active" /\ run[r].pc = "mark-repository-indexed"
            /\ run'[r].st = "active" /\ run'[r].pc = "mark-job-succeeded"
            /\ run'[r].job = run[r].job
            /\ indexStatus' = [indexStatus EXCEPT ![p] = "INDEXED"]
         \/ /\ run[r].st = "failing" /\ run[r].pc = "mark-repository-failed"
            /\ run'[r].st = "failing" /\ run'[r].pc = "find-job-for-failure"
            /\ indexStatus' = [indexStatus EXCEPT ![p] = "FAILED"],
         run'[r].repo = p, UNCHANGED jobs, \A q \in Runs \ {r} : run'[q] = run[q]
  PROVE  JobsKept(r)
<1>1. JobShape(r) /\ OwnsRec(run[r]) /\ ~OwnsRec(run'[r])
  BY DEF JobInv, OwnsRec, LockedSteps
<1>2. indexStatus'[p] \in {"INDEXED", "FAILED"} /\ \A d \in Repos \ {p} : indexStatus'[d] = indexStatus[d]
  BY DEF TypeShape, TypeOK
<1>3. OnlyMoves(r) /\ SameJobs
  BY <1>2 DEF OnlyMoves, SameJob, SameJobs
<1>4. PICK j \in DOMAIN jobs : jobs[j].run = r /\ jobs[j].repo = p
                               /\ (run[r].st = "active" => j = run[r].job)
  <2>1. CASE run[r].st = "active"
    BY <1>1, <2>1, RunTyped DEF JobShape, Jobless, ShapeOf
  <2>2. CASE run[r].st = "failing"
    BY <1>1, <2>2 DEF JobShape
  <2>. QED BY <2>1, <2>2
<1>5. IsLatest(p, j)
  BY <1>1, <1>4 DEF JobShape, IsLatest
<1>6. JobShape(r)'
  BY <1>1, <1>2, <1>4 DEF JobShape, Jobless
<1>7. JobsAgree(p)'
  <2>1. CASE run[r].st = "active"
    <3>1. indexStatus'[p] = "INDEXED"
      BY <2>1 DEF TypeShape, TypeOK
    <3>. QED BY <1>4, <1>5, <2>1, <3>1 DEF JobsAgree, IsLatest, Succeeds
  <2>2. CASE run[r].st = "failing"
    <3>1. indexStatus'[p] = "FAILED"
      BY <2>2 DEF TypeShape, TypeOK
    <3>. QED BY <1>4, <1>5, <2>2, <3>1 DEF JobsAgree, IsLatest, Fails
  <2>. QED BY <2>1, <2>2
<1>8. OutcomesStay
  BY <1>3, OutcomesKept DEF Succeeding, Failing
<1>9. ASSUME NEW d \in Repos \ {p} PROVE JobsAgree(d)'
  BY <1>1, <1>2, <1>3, <1>8, AgreementKept DEF OutcomesStay
<1>10. (\A i, k \in DOMAIN jobs : jobs[i].run = jobs[k].run => i = k)'
  BY <1>3, JobsStayUnique DEF SameJobs
<1> QED BY <1>3, <1>6, <1>7, <1>9, <1>10 DEF JobsKept

(* The job itself is settled.                                              *)
LEMMA SettleJobKeeps ==
  ASSUME TypeShape, LockInv, JobInv, NEW r \in Runs,
         \/ /\ Succeeding(run[r]) /\ jobs'[run[r].job].status = "SUCCEEDED"
            /\ run'[r].st = "active" /\ run'[r].pc = "emit-repository-indexed"
            /\ run'[r].repo = run[r].repo /\ run'[r].job = run[r].job
         \/ /\ run[r].st = "failing" /\ run[r].pc = "mark-job-failed"
            /\ jobs'[run[r].job].status = "FAILED" /\ run'[r] = Ended,
         DOMAIN jobs' = DOMAIN jobs, \A j \in DOMAIN jobs \ {run[r].job} : jobs'[j] = jobs[j],
         jobs'[run[r].job].run = jobs[run[r].job].run, jobs'[run[r].job].repo = jobs[run[r].job].repo,
         UNCHANGED indexStatus, \A q \in Runs \ {r} : run'[q] = run[q]
  PROVE  JobsKept(r)
<1>1. JobShape(r) /\ ~OwnsRec(run[r])
  BY DEF JobInv, OwnsRec, LockedSteps, Succeeding
<1>2. run[r].job \in DOMAIN jobs /\ jobs[run[r].job].run = r
  BY <1>1, RunTyped DEF JobShape, Jobless, ShapeOf, Succeeding
<1>3. \A j \in DOMAIN jobs : jobs[j].run = r <=> j = run[r].job
  BY <1>2 DEF JobInv
<1>4. OnlyMoves(r)
  BY <1>2 DEF OnlyMoves, SameJob
<1>5. JobShape(r)'
  <2>1. CASE Succeeding(run[r])
    BY <1>1, <1>2, <2>1 DEF JobShape, Jobless, Succeeding, OwnsRec, LockedSteps
  <2>2. CASE run'[r] = Ended
    BY <2>2, FreshRecords DEF JobShape, Jobless
  <2>. QED BY <2>1, <2>2
<1>6. ASSUME NEW j \in DOMAIN jobs PROVE (Succeeds(j) => Succeeds(j)') /\ (Fails(j) => Fails(j)')
  <2>1. CASE j = run[r].job
    BY <1>1, <1>2, <2>1 DEF Succeeds, Fails, JobShape, Jobless, Succeeding
  <2>2. CASE j # run[r].job
    <3>1. jobs[j] \in JobRows
      BY DEF TypeShape, TypeOK
    <3>. QED BY <1>3, <2>2, <3>1 DEF Succeeds, Fails, JobRows
  <2>. QED BY <2>1, <2>2
<1>7. ASSUME NEW p \in Repos PROVE JobsAgree(p)'
  BY <1>1, <1>4, <1>6, AgreementKept
<1>8. (\A j, k \in DOMAIN jobs : jobs[j].run = jobs[k].run => j = k)'
  BY <1>4, JobsStayUnique
<1> QED BY <1>4, <1>5, <1>7, <1>8 DEF JobsKept

LEMMA BecomesOnly ==
  ASSUME TypeShape, NEW r \in Runs, NEW x, Becomes(r, x)
  PROVE  run'[r] = x /\ \A q \in Runs \ {r} : run'[q] = run[q]
BY DEF Becomes, TypeShape, TypeOK

LEMMA RetriedContinues ==
  ASSUME TypeShape, NEW r \in Runs, run[r].st = "active", run[r].pc \in IndexSteps
  PROVE  Continues(run[r], Retried(r)) /\ Continues(run[r], Failed(r))
<1>1. run[r] \in RunStates /\ run[r].repo \in Repos
  BY RunTyped
<1>2. Continues(run[r], Failed(r))
  BY DEF Continues, Failed, Unused
<1> DEFINE step == IF run[r].pc = "persisting" THEN "fetch-extract-persist" ELSE run[r].pc
           n == run[r].tries + 1
           again == Again(run[r], n, step)
<1>3. Retried(r) = again \/ Retried(r) = Failed(r)
  BY DEF Retried, Again
<1>4. step \in IndexSteps /\ step \in Steps /\ n \in Nat
  BY <1>1 DEF IndexSteps, LockedSteps, Steps, RunStates
<1>5. Continues(run[r], again)
  <2> HIDE DEF n, step
  <2> QED BY <1>1, <1>4, AgainRecord DEF Continues
<1> HIDE DEF again
<1> QED BY <1>2, <1>3, <1>5

LEMMA GotoContinues ==
  ASSUME TypeShape, NEW r \in Runs, run[r].st = "active", NEW step \in IndexSteps
  PROVE  Continues(run[r], Goto(r, step))
BY RunTyped, GotoRecord DEF Continues, IndexSteps, Steps

LEMMA ReplyContinues ==
  ASSUME TypeShape, NEW r \in Runs, run[r].st = "active", run[r].pc \in IndexSteps,
         NEW step, NEW next, Reply(r, step, next), Continues(run[r], next)
  PROVE  Continues(run[r], run'[r]) /\ \A q \in Runs \ {r} : run'[q] = run[q]
BY BecomesOnly, RetriedContinues DEF Reply

(* A step that may fail leaves the run indexing, or failing.               *)
LEMMA IndexingContinues ==
  ASSUME TypeShape, IInv, LockGoesOn, NEW r \in Runs, run[r].st = "active", run[r].pc \in IndexSteps,
         \/ ResolveTarget(r) \/ ResolveHeadSha(r) \/ HeadNotAccessible(r) \/ HeadUnavailable(r)
         \/ ThrowTransient(r) \/ RecordTargetSha(r) \/ FetchRefused(r) \/ RateLimited(r)
         \/ WakeUp(r) \/ PersistBegins(r) \/ PersistEnds(r) \/ RecordPersistProgress(r)
         \/ StepThrows(r)
  PROVE  /\ Continues(run[r], run'[r]) /\ \A q \in Runs \ {r} : run'[q] = run[q]
         /\ UNCHANGED indexStatus /\ (UNCHANGED jobs \/ RecordTargetSha(r))
<1>1. run[r] \in RunStates /\ run[r].repo \in Repos
  BY RunTyped
<1> DEFINE Goes == Continues(run[r], run'[r]) /\ \A q \in Runs \ {r} : run'[q] = run[q]
<1>2. ASSUME Becomes(r, Retried(r)) \/ Becomes(r, Failed(r)) PROVE Goes
  BY <1>2, BecomesOnly, RetriedContinues
<1>3. ASSUME NEW step \in IndexSteps, NEW next, NEW s, Reply(r, s, next),
             next.repo = Goto(r, step).repo, next.st = Goto(r, step).st,
             next.pc = Goto(r, step).pc, next.job = Goto(r, step).job
      PROVE  Goes
  <2>1. Continues(run[r], next)
    BY <1>3, GotoContinues DEF Continues, IndexSteps, LockedSteps
  <2> QED BY <1>3, <2>1, ReplyContinues
<1>. HIDE DEF Goes
<1>4. CASE ResolveTarget(r)
  <2> DEFINE c == indexedCommitSha[run[r].repo]
             x == [Goto(r, "resolve-head-sha") EXCEPT !.indexed = c]
  <2>1. Reply(r, "resolve-target", x)
    BY <1>4 DEF ResolveTarget
  <2>2. x.repo = Goto(r, "resolve-head-sha").repo /\ x.st = Goto(r, "resolve-head-sha").st
        /\ x.pc = Goto(r, "resolve-head-sha").pc /\ x.job = Goto(r, "resolve-head-sha").job
    BY <1>1 DEF Goto, RunStates
  <2>3. "resolve-head-sha" \in IndexSteps
    BY DEF IndexSteps, LockedSteps
  <2> HIDE DEF x
  <2> QED BY <1>3, <1>4, <2>1, <2>2, <2>3 DEF ResolveTarget, repoVars, Goes
<1>5. CASE ResolveHeadSha(r)
  <2>1. PICK sha \in Shas : Reply(r, "resolve-head-sha", [Goto(r, "record-target-sha") EXCEPT !.sha = sha])
    BY <1>5 DEF ResolveHeadSha, LockGoesOn
  <2> DEFINE x == [Goto(r, "record-target-sha") EXCEPT !.sha = sha]
  <2>2. x.repo = Goto(r, "record-target-sha").repo /\ x.st = Goto(r, "record-target-sha").st
        /\ x.pc = Goto(r, "record-target-sha").pc /\ x.job = Goto(r, "record-target-sha").job
    BY <1>1 DEF Goto, RunStates
  <2>3. "record-target-sha" \in IndexSteps /\ Reply(r, "resolve-head-sha", x)
    BY <2>1 DEF IndexSteps, LockedSteps
  <2> HIDE DEF x
  <2> QED BY <1>3, <1>5, <2>2, <2>3 DEF ResolveHeadSha, repoVars, Goes
<1>6. CASE HeadNotAccessible(r)
  BY <1>6, ReplyContinues, RetriedContinues DEF HeadNotAccessible, repoVars, Goes
<1>7. CASE HeadUnavailable(r)
  <2>1. "transient-throw" \in IndexSteps
    BY DEF IndexSteps, LockedSteps
  <2> QED BY <1>7, <2>1, GotoContinues, ReplyContinues DEF HeadUnavailable, repoVars
<1>8. CASE ThrowTransient(r) \/ StepThrows(r)
  BY <1>2, <1>8 DEF ThrowTransient, StepThrows, repoVars, Goes
<1>9. CASE RecordTargetSha(r)
  <2>1. "fetch-extract-persist" \in IndexSteps
    BY DEF IndexSteps, LockedSteps
  <2> QED BY <1>9, <2>1, GotoContinues, ReplyContinues DEF RecordTargetSha, repoVars
<1>10. CASE FetchRefused(r)
  BY <1>2, <1>10 DEF FetchRefused, repoVars, Goes
<1>11. CASE RateLimited(r)
  <2> DEFINE x == [Goto(r, "sleep") EXCEPT !.sleeps = @ + 1]
  <2>1. "sleep" \in IndexSteps
    BY DEF IndexSteps, LockedSteps
  <2>2. x.repo = Goto(r, "sleep").repo /\ x.st = Goto(r, "sleep").st
        /\ x.pc = Goto(r, "sleep").pc /\ x.job = Goto(r, "sleep").job
    BY <1>1 DEF Goto, RunStates
  <2>3. Reply(r, "fetch-extract-persist", x) \/ Reply(r, "fetch-extract-persist", Failed(r))
    BY <1>11 DEF RateLimited
  <2> HIDE DEF x
  <2> QED BY <1>3, <1>11, <2>1, <2>2, <2>3, ReplyContinues, RetriedContinues
          DEF RateLimited, repoVars, Goes
<1>12. CASE WakeUp(r)
  <2>1. "fetch-extract-persist" \in IndexSteps
    BY DEF IndexSteps, LockedSteps
  <2> QED BY <1>12, <2>1, GotoContinues, BecomesOnly DEF WakeUp, repoVars
<1>13. CASE PersistBegins(r)
  <2> DEFINE p == run[r].repo
             x == [run[r] EXCEPT !.pc = "persisting", !.alone = (Persisting(p) = {})]
  <2>1. \A q \in Persisting(p) : q = r
    BY <1>1, <1>13 DEF Persisting, Of, IInv, LockInv, Owns, Indexing, At, LockedSteps, PersistBegins
  <2>2. r \notin Persisting(p)
    BY <1>13 DEF PersistBegins, At, Persisting
  <2>3. run'[r] = x /\ \A q \in Runs \ {r} : run'[q] = run[q]
    BY <1>13, <2>1, <2>2 DEF PersistBegins
  <2>4. Continues(run[r], x)
    BY <1>1 DEF RunStates, Continues, IndexSteps, LockedSteps
  <2> QED BY <1>13, <2>3, <2>4 DEF PersistBegins
<1>14. CASE PersistEnds(r)
  <2> DEFINE x == [Goto(r, "record-persist-progress") EXCEPT !.alone = TRUE]
  <2>1. "record-persist-progress" \in IndexSteps
    BY DEF IndexSteps, LockedSteps
  <2>2. x.repo = Goto(r, "record-persist-progress").repo /\ x.st = Goto(r, "record-persist-progress").st
        /\ x.pc = Goto(r, "record-persist-progress").pc /\ x.job = Goto(r, "record-persist-progress").job
    BY <1>1 DEF Goto, RunStates
  <2>3. Reply(r, "fetch-extract-persist", x)
    BY <1>14 DEF PersistEnds
  <2> HIDE DEF x
  <2> QED BY <1>3, <1>14, <2>1, <2>2, <2>3 DEF PersistEnds, Goes
<1>15. CASE RecordPersistProgress(r)
  <2>1. "mark-repository-indexed" \in IndexSteps
    BY DEF IndexSteps, LockedSteps
  <2> QED BY <1>15, <2>1, GotoContinues, ReplyContinues DEF RecordPersistProgress, repoVars
<1> QED BY <1>4, <1>5, <1>6, <1>7, <1>8, <1>9, <1>10, <1>11, <1>12, <1>13, <1>14, <1>15

LEMMA JobRowUpdated ==
  ASSUME TypeShape, NEW j \in DOMAIN jobs, NEW status, NEW sha, UpdateJob(j, status, sha)
  PROVE  /\ DOMAIN jobs' = DOMAIN jobs /\ \A k \in DOMAIN jobs \ {j} : jobs'[k] = jobs[k]
         /\ jobs'[j].run = jobs[j].run /\ jobs'[j].repo = jobs[j].repo /\ jobs'[j].status = status
<1>1. jobs[j] \in JobRows
  BY DEF TypeShape, TypeOK
<1> DEFINE row == [jobs[j] EXCEPT !.status = status, !.sha = sha]
<1>2. row.run = jobs[j].run /\ row.repo = jobs[j].repo /\ row.status = status
  BY <1>1 DEF JobRows
<1>3. jobs' = [jobs EXCEPT ![j] = row]
  BY DEF UpdateJob
<1>. HIDE DEF row
<1> QED BY <1>2, <1>3 DEF TypeShape, TypeOK

(* What a step of a run is, in these terms.                                *)

OnlyRun(r) == \A q \in Runs \ {r} : run'[q] = run[q]

IdleMove(r) ==
  /\ \/ /\ run[r].st = "queued" /\ run'[r].st = "active" /\ run'[r].pc = "acquire-lock"
        /\ run'[r].repo = run[r].repo /\ run'[r].job = run[r].job
     \/ /\ run[r].st = "active" /\ run[r].pc \in {"acquire-lock", "emit-repository-indexed"}
        /\ run'[r] = Ended
     \/ /\ run[r].st = "failing" /\ run[r].pc = "find-job-for-failure"
        /\ run'[r].st = "failing" /\ run'[r].pc = "mark-job-failed"
        /\ run'[r].repo = run[r].repo /\ jobs[run'[r].job].run = r /\ run'[r].job \in DOMAIN jobs
  /\ OnlyRun(r) /\ SameJobs /\ UNCHANGED indexStatus

AcquireMove(r) ==
  LET p == run[r].repo IN
  /\ p \in Repos /\ run[r].st = "active" /\ run[r].pc = "acquire-lock" /\ indexStatus[p] # "INDEXING"
  /\ run'[r].st = "active" /\ run'[r].pc = "create-index-job" /\ run'[r].repo = p
  /\ run'[r].job = run[r].job /\ indexStatus' = [indexStatus EXCEPT ![p] = "INDEXING"]
  /\ OnlyRun(r) /\ SameJobs

CreateMove(r) ==
  /\ run[r].st = "active" /\ run[r].pc = "create-index-job"
  /\ run'[r].st = "active" /\ run'[r].pc = "resolve-target" /\ run'[r].repo = run[r].repo
  /\ run'[r].job = Len(jobs) + 1
  /\ \E row : /\ row.run = r /\ row.repo = run[r].repo /\ row.status = "RUNNING"
               /\ jobs' = Append(jobs, row)
  /\ OnlyRun(r) /\ UNCHANGED indexStatus

ContinueMove(r) ==
  /\ run[r].st = "active" /\ run[r].pc \in IndexSteps /\ Continues(run[r], run'[r])
  /\ OnlyRun(r) /\ SameJobs /\ UNCHANGED indexStatus

SettleMove(r) ==
  LET p == run[r].repo IN
  /\ \/ /\ run[r].st = "active" /\ run[r].pc = "mark-repository-indexed"
        /\ run'[r].st = "active" /\ run'[r].pc = "mark-job-succeeded"
        /\ run'[r].job = run[r].job
        /\ indexStatus' = [indexStatus EXCEPT ![p] = "INDEXED"]
     \/ /\ run[r].st = "failing" /\ run[r].pc = "mark-repository-failed"
        /\ run'[r].st = "failing" /\ run'[r].pc = "find-job-for-failure"
        /\ indexStatus' = [indexStatus EXCEPT ![p] = "FAILED"]
  /\ p \in Repos /\ run'[r].repo = p /\ UNCHANGED jobs /\ OnlyRun(r)

SettleJobMove(r) ==
  LET j == run[r].job IN
  /\ \/ /\ Succeeding(run[r]) /\ jobs'[j].status = "SUCCEEDED"
        /\ run'[r].st = "active" /\ run'[r].pc = "emit-repository-indexed"
        /\ run'[r].repo = run[r].repo /\ run'[r].job = run[r].job
     \/ /\ run[r].st = "failing" /\ run[r].pc = "mark-job-failed"
        /\ jobs'[j].status = "FAILED" /\ run'[r] = Ended
  /\ DOMAIN jobs' = DOMAIN jobs /\ \A k \in DOMAIN jobs \ {j} : jobs'[k] = jobs[k]
  /\ jobs'[j].run = jobs[j].run /\ jobs'[j].repo = jobs[j].repo
  /\ UNCHANGED indexStatus /\ OnlyRun(r)

RunMoves(r) ==
  \/ IdleMove(r) \/ AcquireMove(r) \/ CreateMove(r) \/ ContinueMove(r)
  \/ SettleMove(r) \/ SettleJobMove(r)

LEMMA RunStepMoves ==
  ASSUME IInv, JobInv, RunsGoOn, NEW r \in Runs, RunStep(r)
  PROVE  RunMoves(r)
<1>1. TypeShape /\ LockInv /\ JobShape(r) /\ run[r] \in RunStates /\ ShapeOf(run[r], DOMAIN jobs)
  BY RunTyped DEF IInv, TypeShape, JobInv
<1>2. Executing(r) => run[r].st = "active" /\ run[r].pc # "mark-noop-succeeded"
  BY <1>1 DEF Executing, JobShape
<1>3. /\ "acquire-lock" \notin Faulty /\ "create-index-job" \notin Faulty
      /\ "mark-repository-indexed" \notin Faulty
      /\ Faulty \cap (ReleasedSteps \cup FailureSteps) = {}
      /\ Throwing \cap ({"acquire-lock", "create-index-job"} \cup ReleasedSteps \cup FailureSteps) = {}
  BY DEF RunsGoOn, LockGoesOn, LockStepsReliable
<1>4. \A x : Becomes(r, x) => run'[r] = x /\ \A q \in Runs \ {r} : run'[q] = run[q]
  BY <1>1, BecomesOnly
<1>5. ASSUME NEW step, NEW next, Reply(r, step, next), step \notin Faulty, run[r].st # "zombie"
      PROVE  run'[r] = next /\ \A q \in Runs \ {r} : run'[q] = run[q]
  BY <1>4, <1>5 DEF Reply
<1>6. UNCHANGED jobs => SameJobs
  BY DEF SameJobs, SameJob
<1>7. CASE Start(r)
  <2> DEFINE x == [run[r] EXCEPT !.st = "active"]
  <2>1. /\ x.st = "active" /\ x.pc = run[r].pc /\ x.repo = run[r].repo /\ x.job = run[r].job
        /\ run[r].st = "queued" /\ run[r].pc = "acquire-lock" /\ run'[r] = x
        /\ UNCHANGED <<jobs, indexStatus>> /\ \A q \in Runs \ {r} : run'[q] = run[q]
    BY <1>1, <1>4, <1>7 DEF Start, RunStates, ShapeOf, repoVars
  <2> HIDE DEF x
  <2> QED BY <1>1, <1>6, <2>1 DEF RunMoves, OnlyRun, IdleMove
<1>8. CASE AcquireIndexingLock(r)
  <2> DEFINE p == run[r].repo
  <2>1. /\ run[r].st = "active" /\ run[r].pc = "acquire-lock" /\ UNCHANGED jobs /\ p \in Repos
        /\ \A q \in Runs \ {r} : run'[q] = run[q]
    BY <1>1, <1>2, <1>3, <1>5, <1>8 DEF AcquireIndexingLock, At, ShapeOf
  <2>2. CASE indexStatus[p] \in LOCKABLE_STATUSES
    <3>1. run'[r] = Goto(r, "create-index-job") /\ indexStatus' = [indexStatus EXCEPT ![p] = "INDEXING"]
      BY <1>3, <1>5, <1>8, <2>1, <2>2 DEF AcquireIndexingLock
    <3>2. run'[r].st = "active" /\ run'[r].pc = "create-index-job" /\ run'[r].repo = p
          /\ run'[r].job = run[r].job
      BY <1>1, <2>1, <3>1 DEF Goto, RunStates
    <3> QED BY <1>1, <1>6, <2>1, <2>2, <3>1, <3>2 DEF RunMoves, OnlyRun, AcquireMove, LOCKABLE_STATUSES
  <2>3. CASE indexStatus[p] \notin LOCKABLE_STATUSES
    <3>1. run'[r] = Ended /\ UNCHANGED indexStatus
      BY <1>3, <1>5, <1>8, <2>1, <2>3 DEF AcquireIndexingLock
    <3> QED BY <1>1, <1>6, <2>1, <3>1 DEF RunMoves, OnlyRun, IdleMove
  <2> QED BY <2>2, <2>3
<1>9. CASE CreateIndexJob(r)
  <2> DEFINE row == [run |-> r, repo |-> run[r].repo, sha |-> None, status |-> "RUNNING"]
             n == Len(jobs) + 1
             x == [Goto(r, "resolve-target") EXCEPT !.job = n]
  <2>1. run[r].st = "active" /\ run[r].pc = "create-index-job" /\ UNCHANGED indexStatus
        /\ jobs' = Append(jobs, row)
    BY <1>2, <1>9 DEF CreateIndexJob, At, repoVars
  <2>2. Len(jobs') = n
    BY <1>1, <2>1 DEF TypeShape, TypeOK
  <2>3. run'[r] = x /\ \A q \in Runs \ {r} : run'[q] = run[q]
    BY <1>3, <1>5, <1>9, <2>1, <2>2 DEF CreateIndexJob
  <2>4. row.run = r /\ row.repo = run[r].repo /\ row.status = "RUNNING"
    OBVIOUS
  <2>5. x.st = "active" /\ x.pc = "resolve-target" /\ x.repo = run[r].repo /\ x.job = n
    <3> HIDE DEF n
    <3> QED BY <1>1, <2>1 DEF Goto, RunStates
  <2> HIDE DEF row, x
  <2> QED BY <1>1, <2>1, <2>3, <2>4, <2>5 DEF RunMoves, OnlyRun, CreateMove
<1>10. CASE CreateIndexJobRejected(r)
  BY <1>1, <1>2, <1>10 DEF CreateIndexJobRejected, IdTaken, At, JobShape, Jobless
<1>11. CASE MarkSucceededNoOp(r)
  BY <1>2, <1>11 DEF MarkSucceededNoOp, At
<1>12. CASE \/ ResolveTarget(r) \/ ResolveHeadSha(r) \/ HeadNotAccessible(r) \/ HeadUnavailable(r)
            \/ ThrowTransient(r) \/ RecordTargetSha(r) \/ FetchRefused(r) \/ RateLimited(r)
            \/ WakeUp(r) \/ PersistBegins(r) \/ PersistEnds(r) \/ RecordPersistProgress(r)
            \/ StepThrows(r)
  <2>1. run[r].st = "active" /\ run[r].pc \in IndexSteps
    <3>1. CASE StepThrows(r)
      <4>1. run[r].pc \in Faulty \cup Throwing \/ run[r].pc = "persisting"
        BY <3>1 DEF StepThrows
      <4>2. run[r].pc \notin FailureSteps \cup ReleasedSteps \cup {"acquire-lock", "create-index-job"}
        BY <1>3, <4>1 DEF FailureSteps, ReleasedSteps
      <4>3. run[r].st = "active"
        BY <1>1, <1>2, <3>1, <4>2 DEF StepThrows, ShapeOf
      <4> QED BY <1>1, <1>2, <4>2, <4>3 DEF IndexSteps, RunStates, Steps, Executing
    <3>2. CASE ~StepThrows(r)
      BY <1>2, <1>12, <3>2 DEF IndexSteps, LockedSteps, ResolveTarget, ResolveHeadSha, HeadNotAccessible,
         HeadUnavailable, ThrowTransient, RecordTargetSha, FetchRefused, RateLimited, WakeUp,
         PersistBegins, PersistEnds, RecordPersistProgress, At
    <3> QED BY <3>1, <3>2
  <2>2. /\ Continues(run[r], run'[r]) /\ \A q \in Runs \ {r} : run'[q] = run[q]
        /\ UNCHANGED indexStatus /\ (UNCHANGED jobs \/ RecordTargetSha(r))
    BY <1>1, <1>12, <2>1, IndexingContinues DEF RunsGoOn
  <2>3. SameJobs
    <3>1. CASE RecordTargetSha(r)
      <4>1. run[r].job \in DOMAIN jobs
        BY <1>1, <2>1 DEF ShapeOf, IndexSteps, LockedSteps
      <4> QED BY <1>1, <3>1, <4>1, JobRowUpdated DEF RecordTargetSha, SameJobs, SameJob
    <3> QED BY <1>6, <2>2, <3>1
  <2> QED BY <1>1, <2>1, <2>2, <2>3 DEF RunMoves, OnlyRun, ContinueMove
<1>13. CASE MarkIndexed(r)
  <2>1. /\ run[r].st = "active" /\ run[r].pc = "mark-repository-indexed" /\ UNCHANGED jobs
        /\ run'[r] = Goto(r, "mark-job-succeeded") /\ \A q \in Runs \ {r} : run'[q] = run[q]
        /\ indexStatus' = [indexStatus EXCEPT ![run[r].repo] = "INDEXED"] /\ run[r].repo \in Repos
    BY <1>1, <1>2, <1>3, <1>5, <1>13 DEF MarkIndexed, At, ShapeOf
  <2>2. run'[r].st = "active" /\ run'[r].pc = "mark-job-succeeded" /\ run'[r].repo = run[r].repo
        /\ run'[r].job = run[r].job
    BY <1>1, <2>1 DEF Goto, RunStates
  <2> QED BY <1>1, <2>1, <2>2 DEF RunMoves, OnlyRun, SettleMove
<1>14. CASE MarkFailed(r)
  <2>1. /\ run[r].st = "failing" /\ run[r].pc = "mark-repository-failed" /\ UNCHANGED jobs
        /\ run'[r] = Goto(r, "find-job-for-failure") /\ \A q \in Runs \ {r} : run'[q] = run[q]
        /\ indexStatus' = [indexStatus EXCEPT ![run[r].repo] = "FAILED"] /\ run[r].repo \in Repos
    BY <1>1, <1>3, <1>5, <1>14 DEF MarkFailed, FailingAt, ShapeOf, FailureSteps
  <2>2. run'[r].st = "failing" /\ run'[r].pc = "find-job-for-failure" /\ run'[r].repo = run[r].repo
    BY <1>1, <2>1 DEF Goto, RunStates
  <2> QED BY <1>1, <2>1, <2>2 DEF RunMoves, OnlyRun, SettleMove
<1>15. CASE MarkJobSucceeded(r)
  <2>1. /\ run[r].st = "active" /\ run[r].pc = "mark-job-succeeded" /\ UNCHANGED indexStatus
        /\ run'[r] = Goto(r, "emit-repository-indexed") /\ \A q \in Runs \ {r} : run'[q] = run[q]
        /\ UpdateJob(run[r].job, "SUCCEEDED", jobs[run[r].job].sha)
    BY <1>1, <1>2, <1>3, <1>5, <1>15 DEF MarkJobSucceeded, At, ReleasedSteps, repoVars
  <2>2. run'[r].st = "active" /\ run'[r].pc = "emit-repository-indexed" /\ run'[r].repo = run[r].repo
        /\ run'[r].job = run[r].job
    BY <1>1, <2>1 DEF Goto, RunStates
  <2>3. run[r].job \in DOMAIN jobs
    BY <1>1, <2>1 DEF ShapeOf
  <2> QED BY <1>1, <2>1, <2>2, <2>3, JobRowUpdated DEF RunMoves, OnlyRun, SettleJobMove, Succeeding
<1>16. CASE EmitRepositoryIndexed(r)
  <2>1. /\ run[r].st = "active" /\ run[r].pc = "emit-repository-indexed" /\ UNCHANGED <<jobs, indexStatus>>
        /\ run'[r] = Ended /\ \A q \in Runs \ {r} : run'[q] = run[q]
    BY <1>1, <1>2, <1>3, <1>5, <1>16 DEF EmitRepositoryIndexed, At, ReleasedSteps, repoVars
  <2> QED BY <1>1, <1>6, <2>1 DEF RunMoves, OnlyRun, IdleMove
<1>17. CASE FindJobForFailure(r)
  <2>1. /\ run[r].st = "failing" /\ run[r].pc = "find-job-for-failure" /\ UNCHANGED <<jobs, indexStatus>>
        /\ "find-job-for-failure" \notin Faulty
    BY <1>3, <1>17 DEF FindJobForFailure, FailingAt, FailureSteps, repoVars
  <2>2. {j \in DOMAIN jobs : jobs[j].run = r} # {}
    BY <1>1, <2>1 DEF JobShape
  <2>3. PICK j \in DOMAIN jobs : jobs[j].run = r
          /\ Reply(r, "find-job-for-failure", [Goto(r, "mark-job-failed") EXCEPT !.job = j])
    BY <1>17, <2>2 DEF FindJobForFailure
  <2> DEFINE x == [Goto(r, "mark-job-failed") EXCEPT !.job = j]
  <2>4. x.st = "failing" /\ x.pc = "mark-job-failed" /\ x.repo = run[r].repo /\ x.job = j
    BY <1>1, <2>1 DEF Goto, RunStates
  <2>5. run'[r] = x /\ \A q \in Runs \ {r} : run'[q] = run[q]
    BY <1>5, <2>1, <2>3
  <2> HIDE DEF x
  <2> QED BY <1>1, <1>6, <2>1, <2>3, <2>4, <2>5 DEF RunMoves, OnlyRun, IdleMove
<1>18. CASE MarkJobFailed(r)
  <2>1. /\ run[r].st = "failing" /\ run[r].pc = "mark-job-failed" /\ UNCHANGED indexStatus
        /\ run'[r] = Ended /\ \A q \in Runs \ {r} : run'[q] = run[q]
        /\ UpdateJob(run[r].job, "FAILED", jobs[run[r].job].sha)
    BY <1>3, <1>5, <1>18 DEF MarkJobFailed, FailingAt, FailureSteps, repoVars
  <2>2. run[r].job \in DOMAIN jobs
    BY <1>1, <2>1 DEF ShapeOf
  <2> QED BY <1>1, <2>1, <2>2, JobRowUpdated DEF RunMoves, OnlyRun, SettleJobMove
<1> QED BY <1>7, <1>8, <1>9, <1>10, <1>11, <1>12, <1>13, <1>14, <1>15, <1>16, <1>17, <1>18 DEF RunStep

LEMMA RunStepKeepsJobs ==
  ASSUME IInv, JobInv, RunsGoOn, NEW r \in Runs, RunStep(r)
  PROVE  JobsKept(r)
<1>1. TypeShape /\ LockInv
  BY DEF IInv, TypeShape
<1>2. CASE IdleMove(r)
  BY <1>1, <1>2, IdleMoveKeeps DEF IdleMove, OnlyRun
<1>3. CASE AcquireMove(r)
  BY <1>1, <1>3, AcquireKeeps DEF AcquireMove, OnlyRun
<1>4. CASE CreateMove(r)
  BY <1>1, <1>4, CreateKeeps DEF CreateMove, OnlyRun
<1>5. CASE ContinueMove(r)
  BY <1>1, <1>5, ContinuesKeeps DEF ContinueMove, OnlyRun
<1>6. CASE SettleMove(r)
  BY <1>1, <1>6, SettleKeeps DEF SettleMove, OnlyRun
<1>7. CASE SettleJobMove(r)
  BY <1>1, <1>7, SettleJobKeeps DEF SettleJobMove, OnlyRun
<1> QED BY <1>2, <1>3, <1>4, <1>5, <1>6, <1>7, RunStepMoves DEF RunMoves

LEMMA JobInvCorrect ==
  ASSUME RunsGoOn
  PROVE  Spec => [](IInv /\ JobInv)
<1>1. Init => JobInv
  <2> SUFFICES ASSUME Init PROVE JobInv
    OBVIOUS
  <2>1. \A r \in Runs : run[r] = Unused
    BY DEF Init
  <2>2. DOMAIN jobs = {}
    BY DEF Init
  <2>3. ASSUME NEW r \in Runs PROVE JobShape(r)
    BY <2>1, <2>2 DEF JobShape, Jobless, Unused, OwnsRec
  <2>4. ASSUME NEW p \in Repos PROVE JobsAgree(p)
    BY DEF Init, JobsAgree
  <2> QED BY <2>2, <2>3, <2>4 DEF JobInv, Init
<1>2. IInv /\ JobInv /\ [Next]_vars => JobInv'
  <2> SUFFICES ASSUME IInv, JobInv, [Next]_vars PROVE JobInv'
    OBVIOUS
  <2>1. TypeShape /\ LockInv
    BY DEF IInv, TypeShape
  <2>2. ASSUME NEW r \in Runs, JobsKept(r), cancels' = {} PROVE JobInv'
    <3>1. \A q \in Runs \ {r} : JobShape(q)'
      BY <2>1, <2>2, OthersKeepJobs DEF JobsKept
    <3> QED BY <2>2, <3>1 DEF JobsKept, JobInv
  <2>3. ASSUME NEW r \in Runs, RunStep(r) PROVE JobInv'
    <3>1. cancels' = cancels
      BY <2>3 DEF RunStep, envVars, Start, AcquireIndexingLock, CreateIndexJob,
         CreateIndexJobRejected, ResolveTarget, ResolveHeadSha, HeadNotAccessible, HeadUnavailable,
         ThrowTransient, MarkSucceededNoOp, RecordTargetSha, FetchRefused, RateLimited, WakeUp,
         PersistBegins, PersistEnds, RecordPersistProgress, MarkIndexed, MarkJobSucceeded,
         EmitRepositoryIndexed, MarkFailed, FindJobForFailure, MarkJobFailed, StepThrows
    <3> QED BY <2>2, <2>3, <3>1, RunStepKeepsJobs DEF JobInv
  <2>4. ASSUME NEW p \in Repos, NEW preset \in BOOLEAN, Enqueue(p, preset), indexStatus'[p] # "ABSENT",
               indexStatus' = indexStatus \/ indexStatus' = [indexStatus EXCEPT ![p] = "PENDING"],
               UNCHANGED <<jobs, cancels>>
        PROVE  JobInv'
    <3> DEFINE x == [Unused EXCEPT !.st = "queued", !.repo = p, !.preset = preset]
    <3>1. PICK r \in Runs : run[r].st = "unused" /\ Becomes(r, x)
      BY <2>4 DEF Enqueue
    <3>2. x.st = "queued" /\ x.repo = p /\ x.job = 0 /\ ~OwnsRec(x)
      BY DEF Unused, OwnsRec
    <3> HIDE DEF x
    <3>3. run'[r] = x /\ (\A q \in Runs \ {r} : run'[q] = run[q]) /\ JobShape(r) /\ ~OwnsRec(run[r])
      BY <2>1, <3>1, BecomesOnly DEF JobInv, OwnsRec
    <3>4. JobShape(r)'
      BY <2>4, <3>1, <3>2, <3>3 DEF JobShape, Jobless
    <3>5. SameJobs /\ OnlyMoves(r)
      BY <2>1, <2>4, <3>3 DEF OnlyMoves, SameJobs, SameJob, TypeShape, TypeOK
    <3>6. OutcomesStay
      BY <2>1, <3>1, <3>3, <3>5, OutcomesKept DEF Succeeding, Failing
    <3>7. ASSUME NEW d \in Repos PROVE JobsAgree(d)'
      <4>1. indexStatus'[d] \in {indexStatus[d], "PENDING"}
        BY <2>1, <2>4 DEF TypeShape, TypeOK
      <4> QED BY <2>1, <3>3, <3>5, <3>6, <4>1, AgreementKept DEF OutcomesStay
    <3>8. (\A j, k \in DOMAIN jobs : jobs[j].run = jobs[k].run => j = k)'
      BY <3>5, JobsStayUnique DEF SameJobs
    <3> QED BY <2>2, <2>4, <3>4, <3>5, <3>7, <3>8 DEF JobsKept, JobInv
  <2>5. ASSUME UNCHANGED <<run, jobs, cancels>>,
               \A p \in Repos : /\ indexStatus'[p] \in {indexStatus[p], "PENDING"}
                                /\ indexStatus[p] # "ABSENT" => indexStatus'[p] # "ABSENT"
        PROVE  JobInv'
    <3>1. ASSUME NEW r \in Runs PROVE JobShape(r)'
      BY <2>1, <2>5, RunTyped DEF JobInv, JobShape
    <3>2. ASSUME NEW p \in Repos PROVE JobsAgree(p)'
      BY <2>5 DEF JobInv, JobsAgree, IsLatest, Succeeds, Fails
    <3> QED BY <2>5, <3>1, <3>2 DEF JobInv
  <2>6. ASSUME NEW p \in Repos, ConnectRepository(p) PROVE JobInv'
    <3>1. /\ indexStatus' = [indexStatus EXCEPT ![p] = "PENDING"] /\ UNCHANGED <<jobs, cancels>>
          /\ Enqueue(p, FALSE) \/ UNCHANGED run
      BY <2>6 DEF ConnectRepository, envVars
    <3>2. indexStatus'[p] = "PENDING" /\ \A d \in Repos \ {p} : indexStatus'[d] = indexStatus[d]
      BY <2>1, <3>1 DEF TypeShape, TypeOK
    <3> QED BY <2>4, <2>5, <3>1, <3>2
  <2>7. ASSUME NEW p \in Repos, TriggerIndex(p) \/ SweepStale(p) PROVE JobInv'
    BY <2>4, <2>7 DEF TriggerIndex, SweepStale, repoVars, envVars
  <2>8. ASSUME NEW j \in Projects, DeleteProject(j) \/ CancelRuns(j) PROVE FALSE
    BY <2>8 DEF DeleteProject, CancelRuns, RunsGoOn, LockGoesOn, JobInv
  <2>9. ASSUME NEW r \in Runs, TimeOut(r) PROVE FALSE
    BY <2>9 DEF TimeOut, RunsGoOn, LockGoesOn
  <2>10. CASE GithubChanges
    BY <2>5, <2>10 DEF GithubChanges, repoVars
  <2>11. CASE UNCHANGED vars
    BY <2>5, <2>11 DEF vars
  <2> QED BY <2>3, <2>6, <2>7, <2>8, <2>9, <2>10, <2>11 DEF Next
<1>3. Spec => []IInv
  BY IInvCorrect DEF RunsGoOn, LockGoesOn
<1> QED BY <1>1, <1>2, <1>3, PTL DEF Spec

(* The status the API shows is the repository's: RUNNING while a run with  *)
(* a job indexes it, and when nothing executes for it what its row says.   *)
THEOREM ApiStatusAlwaysAgrees ==
  ASSUME RunsGoOn
  PROVE  Spec => []ApiStatusAgrees
<1>1. IInv /\ JobInv => ApiStatusAgrees
  <2> SUFFICES ASSUME IInv, JobInv, NEW p \in Repos
               PROVE  /\ (\E r \in Of(p) : Indexing(r) /\ run[r].job # 0) => ApiStatus(p) = "RUNNING"
                      /\ (\A r \in Of(p) : ~Executing(r) /\ run[r].st # "failing") =>
                           /\ indexStatus[p] = "INDEXED" => ApiStatus(p) = "SUCCEEDED"
                           /\ indexStatus[p] = "FAILED" => ApiStatus(p) = "FAILED"
    BY DEF ApiStatusAgrees
  <2>1. ASSUME NEW j \in DOMAIN jobs, IsLatest(p, j) PROVE ApiStatus(p) = jobs[j].status
    <3>1. DOMAIN jobs \subseteq Nat
      BY DEF IInv, TypeOK
    <3>2. LatestJob(p) = j
      <4>1. \A k \in DOMAIN jobs :
              (jobs[k].repo = p /\ \A i \in DOMAIN jobs : jobs[i].repo = p => i <= k) <=> k = j
        BY <2>1, <3>1 DEF IsLatest
      <4> QED BY <4>1 DEF LatestJob
    <3> QED BY <2>1, <3>2 DEF ApiStatus, IsLatest
  <2>2. ASSUME NEW r \in Of(p), Indexing(r), run[r].job # 0 PROVE ApiStatus(p) = "RUNNING"
    <3>1. JobShape(r) /\ OwnsRec(run[r]) /\ r \in Runs /\ run[r].repo = p
      BY <2>2 DEF JobInv, Of, Indexing, Executing, OwnsRec
    <3>2. run[r].st = "active" /\ ~Jobless(run[r]) /\ run[r].pc # "emit-repository-indexed"
      BY <2>2, <3>1 DEF JobShape, Indexing, Executing, LockedSteps
    <3>3. run[r].job \in DOMAIN jobs
      BY <3>1, <3>2, RunTyped DEF ShapeOf, IInv, TypeShape, Jobless
    <3>4. IsLatest(p, run[r].job) /\ jobs[run[r].job].status = "RUNNING"
      BY <3>1, <3>2, <3>3 DEF JobShape, IsLatest
    <3> QED BY <2>1, <3>3, <3>4
  <2>3. ASSUME \A r \in Of(p) : ~Executing(r) /\ run[r].st # "failing"
        PROVE  /\ indexStatus[p] = "INDEXED" => ApiStatus(p) = "SUCCEEDED"
               /\ indexStatus[p] = "FAILED" => ApiStatus(p) = "FAILED"
    <3>1. ASSUME NEW j \in DOMAIN jobs, jobs[j].repo = p
          PROVE  ~Succeeding(run[jobs[j].run]) /\ ~Failing(run[jobs[j].run])
      <4>1. jobs[j].run \in Runs
        <5>1. jobs[j] \in JobRows
          BY DEF IInv, TypeOK
        <5> QED BY <5>1 DEF JobRows
      <4>2. JobShape(jobs[j].run)
        BY <4>1 DEF JobInv
      <4>3. Succeeding(run[jobs[j].run]) => run[jobs[j].run].repo = p
        <5>1. SUFFICES ASSUME Succeeding(run[jobs[j].run]) PROVE run[jobs[j].run].repo = p
          OBVIOUS
        <5>2. ~Jobless(run[jobs[j].run]) /\ run[jobs[j].run].job \in DOMAIN jobs
          BY <4>1, <5>1, RunTyped DEF Jobless, Succeeding, ShapeOf, IInv, TypeShape
        <5>3. run[jobs[j].run].job = j
          BY <4>2, <5>1, <5>2 DEF JobShape, JobInv, Succeeding
        <5> QED BY <3>1, <4>2, <5>1, <5>2, <5>3 DEF JobShape, Succeeding
      <4>4. Failing(run[jobs[j].run]) => run[jobs[j].run].repo = p
        BY <3>1, <4>2 DEF JobShape, Failing
      <4> QED BY <2>3, <4>1, <4>3, <4>4 DEF Of, Executing, Succeeding, Failing
    <3>2. ASSUME indexStatus[p] = "INDEXED" PROVE ApiStatus(p) = "SUCCEEDED"
      <4>1. PICK j \in DOMAIN jobs : IsLatest(p, j) /\ Succeeds(j)
        BY <3>2 DEF JobInv, JobsAgree
      <4> QED BY <2>1, <3>1, <4>1 DEF IsLatest, Succeeds, Succeeding
    <3>3. ASSUME indexStatus[p] = "FAILED" PROVE ApiStatus(p) = "FAILED"
      <4>1. PICK j \in DOMAIN jobs : IsLatest(p, j) /\ Fails(j)
        BY <3>3 DEF JobInv, JobsAgree
      <4> QED BY <2>1, <3>1, <4>1 DEF IsLatest, Fails, Failing
    <3> QED BY <3>2, <3>3
  <2> QED BY <2>2, <2>3
<1> QED BY <1>1, JobInvCorrect, PTL

-----------------------------------------------------------------------------
(***************************************************************************)
(* Terminal jobs, whatever else fails or is cancelled, while the steps     *)
(* after a success execute once: what a run can still do to the jobs it    *)
(* created depends on where it is, and only its own steps settle them.     *)
(***************************************************************************)

SettlesOnce ==
  /\ Faulty \cap {"mark-noop-succeeded", "mark-job-succeeded"} = {}
  /\ "emit-repository-indexed" \notin Faulty \cup Throwing

(* A run that has created no job; one that knows its job; one that leaves  *)
(* a job of that status alone.                                             *)
CreatedNone(x) ==
  \/ x.st \in {"unused", "queued"}
  \/ x.st \in {"active", "zombie"} /\ x.pc = "acquire-lock"

KnowsJob(x) ==
  \/ x.st \in {"active", "zombie"} /\ x.pc \notin {"acquire-lock", "create-index-job"}
  \/ x.st = "failing" /\ x.pc = "mark-job-failed"

LeavesAlone(x, status) ==
  \/ x.st = "ended"
  \/ x.st \in {"active", "zombie"} /\ x.pc = "emit-repository-indexed"
  \/ x.st = "failing" /\ x.pc = "mark-job-failed" /\ status = "FAILED"

SettledInv ==
  /\ \A r \in Runs : CreatedNone(run[r]) => \A j \in DOMAIN jobs : jobs[j].run # r
  /\ \A r \in Runs : KnowsJob(run[r]) => jobs[run[r].job].run = r
  /\ \A j \in DOMAIN jobs :
       jobs[j].status # "RUNNING" => LeavesAlone(run[jobs[j].run], jobs[j].status)

TerminalStep ==
  \A j \in DOMAIN jobs : jobs[j].status # "RUNNING" => jobs'[j].status = jobs[j].status

(* The run goes on, knowing no more and settling no more than before.      *)
Inherits(x, y) ==
  /\ CreatedNone(y) => CreatedNone(x)
  /\ KnowsJob(y) => KnowsJob(x) /\ y.job = x.job
  /\ \A status : LeavesAlone(x, status) => LeavesAlone(y, status)

SameStatuses ==
  DOMAIN jobs' = DOMAIN jobs
  /\ \A j \in DOMAIN jobs : jobs'[j].run = jobs[j].run /\ jobs'[j].status = jobs[j].status

LEMMA InheritedSettled ==
  ASSUME TypeShape, SettledInv, SameStatuses, \A q \in Runs : Inherits(run[q], run'[q])
  PROVE  SettledInv' /\ TerminalStep
<1>1. \A q \in Runs : KnowsJob(run[q]) => run[q].job \in DOMAIN jobs
  BY RunTyped DEF KnowsJob, ShapeOf
<1>2. \A j \in DOMAIN jobs : jobs[j].run \in Runs
  <2>1. \A j \in DOMAIN jobs : jobs[j] \in JobRows
    BY DEF TypeShape, TypeOK
  <2> QED BY <2>1 DEF JobRows
<1> QED BY <1>1, <1>2 DEF SettledInv, SameStatuses, Inherits, TerminalStep

LEMMA RetriedGoesOn ==
  ASSUME TypeShape, NEW r \in Runs, Executing(r) \/ run[r].st = "failing"
  PROVE  \/ Retried(r) = Ended /\ run[r].st # "active"
         \/ /\ run[r].st \in {"active", "failing"} /\ Retried(r).st = run[r].st
            /\ Retried(r).repo = run[r].repo /\ Retried(r).job = run[r].job
            /\ Retried(r).sha = run[r].sha /\ Retried(r).indexed = run[r].indexed
            /\ \/ Retried(r).pc = run[r].pc
               \/ run[r].pc = "persisting" /\ Retried(r).pc = "fetch-extract-persist"
         \/ Retried(r) = Failed(r) /\ run[r].st = "active"
<1> DEFINE step == IF run[r].pc = "persisting" THEN "fetch-extract-persist" ELSE run[r].pc
           n == run[r].tries + 1
           again == Again(run[r], n, step)
<1>1. run[r] \in RunStates
  BY RunTyped
<1>2. \/ Retried(r) = Ended /\ run[r].st # "active"
      \/ Retried(r) = again /\ run[r].st \in {"active", "failing"}
      \/ Retried(r) = Failed(r) /\ run[r].st = "active"
  BY DEF Retried, Executing, Again
<1>3. /\ again.pc = step /\ again.st = run[r].st /\ again.repo = run[r].repo /\ again.job = run[r].job
      /\ again.sha = run[r].sha /\ again.indexed = run[r].indexed
  <2>1. n \in Nat /\ step \in Steps
    BY <1>1 DEF RunStates, Steps, LockedSteps
  <2> HIDE DEF n, step
  <2> QED BY <1>1, <2>1, AgainRecord
<1> HIDE DEF again
<1> QED BY <1>2, <1>3

LEMMA EndedInherits == \A x : Inherits(x, Ended) /\ Inherits(x, x)
BY DEF Inherits, Ended, Unused, CreatedNone, KnowsJob, LeavesAlone

LEMMA RetriedInherits ==
  ASSUME TypeShape, NEW r \in Runs, Executing(r) \/ run[r].st = "failing",
         run[r].st = "active" => run[r].pc # "emit-repository-indexed"
  PROVE  Inherits(run[r], Retried(r))
<1>1. CASE Retried(r) = Ended
  BY <1>1, EndedInherits
<1>2. CASE Retried(r) = Failed(r) /\ run[r].st = "active"
  BY <1>2 DEF Failed, Unused, Inherits, CreatedNone, KnowsJob, LeavesAlone
<1>3. CASE /\ run[r].st \in {"active", "failing"} /\ Retried(r).st = run[r].st
            /\ Retried(r).job = run[r].job
            /\ \/ Retried(r).pc = run[r].pc
               \/ run[r].pc = "persisting" /\ Retried(r).pc = "fetch-extract-persist"
  <2> DEFINE y == Retried(r)
  <2> HIDE DEF y
  <2> QED BY <1>3 DEF Inherits, CreatedNone, KnowsJob, LeavesAlone
<1> QED BY <1>1, <1>2, <1>3, RetriedGoesOn

LEMMA BecomesInherits ==
  ASSUME TypeShape, NEW r \in Runs, NEW x, Becomes(r, x), Inherits(run[r], x)
  PROVE  \A q \in Runs : Inherits(run[q], run'[q])
BY BecomesOnly, EndedInherits

LEMMA ReplyInherits ==
  ASSUME TypeShape, NEW r \in Runs, NEW step, NEW next, Reply(r, step, next),
         Executing(r) \/ run[r].st = "failing",
         step \in Faulty => (run[r].st = "active" => run[r].pc # "emit-repository-indexed"),
         run[r].st # "zombie" => Inherits(run[r], next)
  PROVE  \A q \in Runs : Inherits(run[q], run'[q])
<1>1. CASE Becomes(r, Ended)
  BY <1>1, BecomesInherits, EndedInherits
<1>2. CASE Becomes(r, next) /\ run[r].st # "zombie"
  BY <1>2, BecomesInherits
<1>3. CASE Becomes(r, Retried(r)) /\ step \in Faulty
  BY <1>3, RetriedInherits, BecomesInherits
<1> QED BY <1>1, <1>2, <1>3 DEF Reply

(* A job is created, found, or settled by the run that created it.         *)
LEMMA CreatedSettled ==
  ASSUME TypeShape, SettledInv, NEW r \in Runs, NEW row, row.run = r, row.status = "RUNNING",
         run[r].st \in {"active", "zombie"}, run[r].pc = "create-index-job",
         jobs' = Append(jobs, row), \A q \in Runs \ {r} : run'[q] = run[q],
         ~CreatedNone(run'[r]), KnowsJob(run'[r]) => run'[r].job = Len(jobs) + 1
  PROVE  SettledInv' /\ TerminalStep
<1>1. PICK n \in Nat : /\ n = Len(jobs) + 1 /\ DOMAIN jobs = 1 .. n - 1 /\ DOMAIN jobs' = 1 .. n
                       /\ jobs'[n] = row /\ \A j \in DOMAIN jobs : jobs'[j] = jobs[j]
  BY DEF TypeShape, TypeOK
<1>2. \A j \in DOMAIN jobs' : j = n \/ j \in DOMAIN jobs
  BY <1>1
<1>3. \A j \in DOMAIN jobs : jobs[j].run \in Runs
  <2>1. \A j \in DOMAIN jobs : jobs[j] \in JobRows
    BY DEF TypeShape, TypeOK
  <2> QED BY <2>1 DEF JobRows
<1>4. \A q \in Runs : KnowsJob(run[q]) => run[q].job \in DOMAIN jobs
  BY RunTyped DEF KnowsJob, ShapeOf
<1>5. \A j \in DOMAIN jobs : jobs[j].run = r => jobs[j].status = "RUNNING"
  BY DEF SettledInv, LeavesAlone
<1>6. ASSUME NEW q \in Runs, CreatedNone(run'[q]), NEW j \in DOMAIN jobs' PROVE jobs'[j].run # q
  BY <1>1, <1>2, <1>6 DEF SettledInv
<1>7. ASSUME NEW q \in Runs, KnowsJob(run'[q]) PROVE jobs'[run'[q].job].run = q
  BY <1>1, <1>4, <1>7 DEF SettledInv
<1>8. ASSUME NEW j \in DOMAIN jobs', jobs'[j].status # "RUNNING"
      PROVE  LeavesAlone(run'[jobs'[j].run], jobs'[j].status)
  BY <1>1, <1>2, <1>3, <1>5, <1>8 DEF SettledInv
<1>9. TerminalStep
  BY <1>1 DEF TerminalStep
<1> QED BY <1>6, <1>7, <1>8, <1>9 DEF SettledInv

LEMMA FoundSettled ==
  ASSUME TypeShape, SettledInv, NEW r \in Runs, UNCHANGED jobs, \A q \in Runs \ {r} : run'[q] = run[q],
         run[r].st = "failing", run[r].pc = "find-job-for-failure",
         run'[r].st = "failing", run'[r].pc = "mark-job-failed", jobs[run'[r].job].run = r
  PROVE  SettledInv' /\ TerminalStep
<1>1. \A j \in DOMAIN jobs : jobs[j].run \in Runs
  <2>1. \A j \in DOMAIN jobs : jobs[j] \in JobRows
    BY DEF TypeShape, TypeOK
  <2> QED BY <2>1 DEF JobRows
<1> QED BY <1>1 DEF SettledInv, TerminalStep, CreatedNone, KnowsJob, LeavesAlone

LEMMA MarkedSettled ==
  ASSUME TypeShape, SettledInv, NEW r \in Runs, NEW status, NEW sha,
         UpdateJob(run[r].job, status, sha), \A q \in Runs \ {r} : run'[q] = run[q],
         \/ /\ run[r].st \in {"active", "zombie"}
            /\ run[r].pc \in {"mark-noop-succeeded", "mark-job-succeeded"}
            /\ \/ run'[r] = Ended
               \/ /\ run'[r].st = "active" /\ run'[r].pc = "emit-repository-indexed"
                  /\ run'[r].job = run[r].job
         \/ /\ run[r].st = "failing" /\ run[r].pc = "mark-job-failed" /\ status = "FAILED"
            /\ \/ run'[r] = Ended
               \/ /\ run'[r].st = "failing" /\ run'[r].pc = "mark-job-failed"
                  /\ run'[r].job = run[r].job
  PROVE  SettledInv' /\ TerminalStep
<1>1. KnowsJob(run[r])
  BY DEF KnowsJob
<1>2. \A q \in Runs : KnowsJob(run[q]) => run[q].job \in DOMAIN jobs
  BY RunTyped DEF KnowsJob, ShapeOf
<1>3. PICK i \in DOMAIN jobs : i = run[r].job /\ jobs[i].run = r
  BY <1>1, <1>2 DEF SettledInv
<1>4. \A j \in DOMAIN jobs : jobs[j].run \in Runs
  <2>1. \A j \in DOMAIN jobs : jobs[j] \in JobRows
    BY DEF TypeShape, TypeOK
  <2> QED BY <2>1 DEF JobRows
<1>5. /\ DOMAIN jobs' = DOMAIN jobs /\ \A k \in DOMAIN jobs \ {i} : jobs'[k] = jobs[k]
      /\ jobs'[i].run = r /\ jobs'[i].status = status
  BY <1>3, JobRowUpdated
<1>6. /\ ~CreatedNone(run'[r]) /\ (KnowsJob(run'[r]) => run'[r].job = i)
      /\ \A j \in DOMAIN jobs : jobs[j].run = r /\ jobs[j].status # "RUNNING" => jobs[j].status = status
      /\ \A c : LeavesAlone(run[r], c) => LeavesAlone(run'[r], c)
      /\ LeavesAlone(run'[r], status)
  BY <1>3, FreshRecords DEF CreatedNone, KnowsJob, LeavesAlone, SettledInv
<1>7. \A j \in DOMAIN jobs : jobs'[j].run = jobs[j].run
  BY <1>3, <1>5
<1>8. ASSUME NEW q \in Runs, CreatedNone(run'[q]), NEW j \in DOMAIN jobs' PROVE jobs'[j].run # q
  BY <1>5, <1>6, <1>7, <1>8 DEF SettledInv
<1>9. ASSUME NEW q \in Runs, KnowsJob(run'[q]) PROVE jobs'[run'[q].job].run = q
  BY <1>2, <1>5, <1>6, <1>7, <1>9 DEF SettledInv
<1>10. ASSUME NEW j \in DOMAIN jobs', jobs'[j].status # "RUNNING"
       PROVE  LeavesAlone(run'[jobs'[j].run], jobs'[j].status)
  BY <1>3, <1>4, <1>5, <1>6, <1>7, <1>10 DEF SettledInv
<1>11. TerminalStep
  BY <1>3, <1>5, <1>6 DEF TerminalStep
<1> QED BY <1>8, <1>9, <1>10, <1>11 DEF SettledInv

LEMMA RunStepSettles ==
  ASSUME TypeShape, SettledInv, SettlesOnce, NEW r \in Runs, RunStep(r)
  PROVE  SettledInv' /\ TerminalStep
<1> DEFINE Goes == \A q \in Runs : Inherits(run[q], run'[q])
           Alive == Executing(r) \/ run[r].st = "failing"
           Done == SettledInv' /\ TerminalStep
<1>1. run[r] \in RunStates /\ ShapeOf(run[r], DOMAIN jobs) /\ run[r].repo \in Repos \cup {None}
  BY RunTyped DEF RunStates
<1>2. UNCHANGED jobs => SameStatuses
  BY DEF SameStatuses
<1>3. SameStatuses /\ Goes => Done
  BY InheritedSettled
<1>4. ASSUME Alive, Becomes(r, Retried(r)), run[r].st = "active" => run[r].pc # "emit-repository-indexed"
      PROVE  Goes
  BY <1>4, RetriedInherits, BecomesInherits
<1>5. ASSUME Executing(r), run[r].pc # "emit-repository-indexed", NEW s, NEW next, Reply(r, s, next),
             next.st = run[r].st, CreatedNone(next) => CreatedNone(run[r]),
             KnowsJob(next) => KnowsJob(run[r]) /\ next.job = run[r].job
      PROVE  Goes
  <2>1. Inherits(run[r], next)
    BY <1>5 DEF Inherits, LeavesAlone, Executing
  <2> QED BY <1>5, <2>1, ReplyInherits
<1>6. ASSUME Executing(r), run[r].pc # "emit-repository-indexed", NEW s, NEW step \in Steps,
             step \notin {"acquire-lock"},
             step # "create-index-job" => KnowsJob(run[r]),
             NEW next, Reply(r, s, next),
             next.st = Goto(r, step).st, next.pc = Goto(r, step).pc, next.job = Goto(r, step).job
      PROVE  Goes
  <2>1. next.st = run[r].st /\ next.pc = step /\ next.job = run[r].job
    BY <1>1, <1>6, GotoRecord
  <2> QED BY <1>5, <1>6, <2>1 DEF CreatedNone, KnowsJob, Executing
<1>7. \/ Inherits(run[r], Ended) /\ Inherits(run[r], Failed(r))
      \/ (Executing(r) /\ run[r].pc = "emit-repository-indexed")
      \/ (run[r].st = "failing")
      \/ run[r].st = "ended"
  BY EndedInherits DEF Inherits, Failed, Unused, CreatedNone, KnowsJob, LeavesAlone, Executing
<1> HIDE DEF Goes, Done
<1> SUFFICES Done
  BY DEF Done
<1>8. CASE Start(r)
  <2> DEFINE x == [run[r] EXCEPT !.st = "active"]
  <2>1. x.st = "active" /\ x.pc = "acquire-lock" /\ run[r].st = "queued" /\ Becomes(r, x)
    BY <1>1, <1>8 DEF Start, RunStates, ShapeOf
  <2>2. Inherits(run[r], x)
    <3> HIDE DEF x
    <3> QED BY <2>1 DEF Inherits, CreatedNone, KnowsJob, LeavesAlone
  <2> QED BY <1>2, <1>3, <1>8, <2>1, <2>2, BecomesInherits DEF Start, Goes
<1>9. CASE AcquireIndexingLock(r)
  <2>1. /\ Executing(r) /\ run[r].pc = "acquire-lock" /\ UNCHANGED jobs
        /\ Reply(r, "acquire-lock", Goto(r, "create-index-job")) \/ Reply(r, "acquire-lock", Ended)
    BY <1>9 DEF AcquireIndexingLock, At
  <2>2. "create-index-job" \in Steps
    BY DEF Steps, LockedSteps
  <2>3. CASE Reply(r, "acquire-lock", Goto(r, "create-index-job"))
    BY <1>2, <1>3, <1>6, <2>1, <2>2, <2>3
  <2>4. CASE Reply(r, "acquire-lock", Ended)
    BY <1>2, <1>3, <2>1, <2>4, EndedInherits, ReplyInherits DEF Goes
  <2> QED BY <2>1, <2>3, <2>4
<1>10. CASE CreateIndexJob(r)
  <2> DEFINE row == [run |-> r, repo |-> run[r].repo, sha |-> None, status |-> "RUNNING"]
             n == Len(jobs) + 1
             x == [Goto(r, "resolve-target") EXCEPT !.job = n]
  <2>1. Executing(r) /\ run[r].pc = "create-index-job" /\ jobs' = Append(jobs, row)
    BY <1>10 DEF CreateIndexJob, At
  <2>2. Len(jobs') = n
    BY <2>1 DEF TypeShape, TypeOK
  <2>3. Reply(r, "create-index-job", x)
    BY <1>10, <2>2 DEF CreateIndexJob
  <2>4. x.st = run[r].st /\ x.pc = "resolve-target" /\ x.job = n
    <3> HIDE DEF n
    <3> QED BY <1>1 DEF Goto, RunStates
  <2>5. row.run = r /\ row.status = "RUNNING"
    OBVIOUS
  <2> HIDE DEF row, x
  <2>6. ~CreatedNone(x) /\ (KnowsJob(x) => x.job = n)
    BY <2>1, <2>4 DEF CreatedNone, KnowsJob, Executing
  <2>7. ~CreatedNone(Ended) /\ ~KnowsJob(Ended)
    BY DEF Ended, Unused, CreatedNone, KnowsJob
  <2>8. ~CreatedNone(Retried(r)) /\ ~KnowsJob(Retried(r))
    <3>1. Failed(r).st = "failing" /\ Failed(r).pc = "mark-repository-failed"
      BY DEF Failed, Unused
    <3>2. CASE Retried(r) = Ended
      BY <2>7, <3>2
    <3>3. CASE Retried(r) = Failed(r)
      BY <3>1, <3>3 DEF CreatedNone, KnowsJob
    <3>4. CASE Retried(r).st \in {"active", "failing"} /\ Retried(r).pc = "create-index-job"
               /\ Retried(r).st = run[r].st
      BY <2>1, <3>4 DEF CreatedNone, KnowsJob, Executing
    <3> QED BY <2>1, <3>2, <3>3, <3>4, RetriedGoesOn
  <2>9. (\A q \in Runs \ {r} : run'[q] = run[q]) /\ run'[r] \in {x, Ended, Retried(r)}
    BY <2>3, BecomesOnly DEF Reply
  <2> QED BY <2>1, <2>5, <2>6, <2>7, <2>8, <2>9, CreatedSettled DEF Done, Executing
<1>11. CASE CreateIndexJobRejected(r) \/ ThrowTransient(r)
  BY <1>2, <1>3, <1>4, <1>11 DEF CreateIndexJobRejected, ThrowTransient, At
<1>12. CASE ResolveTarget(r)
  <2> DEFINE x == [Goto(r, "resolve-head-sha") EXCEPT !.indexed = indexedCommitSha[run[r].repo]]
  <2>1. Reply(r, "resolve-target", x) /\ Executing(r) /\ run[r].pc = "resolve-target" /\ UNCHANGED jobs
    BY <1>12 DEF ResolveTarget, At
  <2>2. /\ x.st = Goto(r, "resolve-head-sha").st /\ x.pc = Goto(r, "resolve-head-sha").pc
        /\ x.job = Goto(r, "resolve-head-sha").job
    BY <1>1 DEF Goto, RunStates
  <2>3. "resolve-head-sha" \in Steps /\ KnowsJob(run[r])
    BY <2>1 DEF Steps, LockedSteps, KnowsJob, Executing
  <2> HIDE DEF x
  <2> QED BY <1>2, <1>3, <1>6, <2>1, <2>2, <2>3
<1>13. CASE ResolveHeadSha(r)
  <2>1. PICK sha \in Shas, step \in {"mark-noop-succeeded", "record-target-sha"} :
               Reply(r, "resolve-head-sha", [Goto(r, step) EXCEPT !.sha = sha])
    BY <1>13 DEF ResolveHeadSha
  <2> DEFINE x == [Goto(r, step) EXCEPT !.sha = sha]
  <2>2. x.st = Goto(r, step).st /\ x.pc = Goto(r, step).pc /\ x.job = Goto(r, step).job
    BY <1>1 DEF Goto, RunStates
  <2>3. /\ step \in Steps /\ step \notin {"acquire-lock"} /\ KnowsJob(run[r])
        /\ Executing(r) /\ run[r].pc = "resolve-head-sha" /\ UNCHANGED jobs
    BY <1>13 DEF Steps, LockedSteps, KnowsJob, Executing, ResolveHeadSha, At
  <2>4. Reply(r, "resolve-head-sha", x)
    BY <2>1
  <2> HIDE DEF x
  <2> QED BY <1>2, <1>3, <1>6, <2>2, <2>3, <2>4
<1>14. CASE HeadNotAccessible(r)
  <2>1. Executing(r) /\ run[r].pc = "resolve-head-sha" /\ UNCHANGED jobs
        /\ Reply(r, "resolve-head-sha", Failed(r))
    BY <1>14 DEF HeadNotAccessible, At
  <2> QED BY <1>2, <1>3, <1>7, <2>1, ReplyInherits DEF Goes, Executing
<1>15. CASE HeadUnavailable(r) \/ RecordPersistProgress(r) \/ MarkIndexed(r)
  <2>1. PICK step \in {"transient-throw", "mark-repository-indexed", "mark-job-succeeded"} :
          \E s : Reply(r, s, Goto(r, step))
    BY <1>15 DEF HeadUnavailable, RecordPersistProgress, MarkIndexed
  <2>2. /\ step \in Steps /\ step \notin {"acquire-lock"} /\ KnowsJob(run[r])
        /\ Executing(r) /\ run[r].pc # "emit-repository-indexed" /\ UNCHANGED jobs
    BY <1>15 DEF Steps, LockedSteps, ReleasedSteps, KnowsJob, Executing, HeadUnavailable,
                 RecordPersistProgress, MarkIndexed, At
  <2> QED BY <1>2, <1>3, <1>6, <2>1, <2>2
<1>16. CASE MarkSucceededNoOp(r)
  <2>1. run'[r] = Ended /\ \A q \in Runs \ {r} : run'[q] = run[q]
    BY <1>16, BecomesOnly DEF MarkSucceededNoOp, Reply, SettlesOnce
  <2> QED BY <1>16, <2>1, MarkedSettled DEF MarkSucceededNoOp, At, Executing, Done
<1>17. CASE RecordTargetSha(r)
  <2>1. Executing(r) /\ run[r].pc = "record-target-sha" /\ KnowsJob(run[r]) /\ run[r].job \in DOMAIN jobs
        /\ "fetch-extract-persist" \in Steps
    BY <1>1, <1>17 DEF RecordTargetSha, At, Executing, KnowsJob, ShapeOf, Steps, LockedSteps
  <2>2. SameStatuses
    BY <1>17, <2>1, JobRowUpdated DEF RecordTargetSha, SameStatuses
  <2>3. Goes
    BY <1>6, <1>17, <2>1 DEF RecordTargetSha
  <2> QED BY <1>3, <2>2, <2>3
<1>18. CASE FetchRefused(r)
  <2>1. Executing(r) /\ run[r].pc = "fetch-extract-persist" /\ UNCHANGED jobs
        /\ (Becomes(r, Ended) \/ Becomes(r, Failed(r)))
    BY <1>18 DEF FetchRefused, At
  <2> QED BY <1>2, <1>3, <1>7, <2>1, BecomesInherits DEF Goes, Executing
<1>19. CASE RateLimited(r)
  <2> DEFINE x == [Goto(r, "sleep") EXCEPT !.sleeps = @ + 1]
  <2>1. Executing(r) /\ run[r].pc = "fetch-extract-persist" /\ UNCHANGED jobs
        /\ (Reply(r, "fetch-extract-persist", x) \/ Reply(r, "fetch-extract-persist", Failed(r)))
    BY <1>19 DEF RateLimited, At
  <2>2. x.st = Goto(r, "sleep").st /\ x.pc = Goto(r, "sleep").pc /\ x.job = Goto(r, "sleep").job
    BY <1>1 DEF Goto, RunStates
  <2>3. "sleep" \in Steps /\ KnowsJob(run[r])
    BY <2>1 DEF Steps, LockedSteps, KnowsJob, Executing
  <2> HIDE DEF x
  <2>4. CASE Reply(r, "fetch-extract-persist", x)
    BY <1>2, <1>3, <1>6, <2>1, <2>2, <2>3, <2>4
  <2>5. CASE Reply(r, "fetch-extract-persist", Failed(r))
    BY <1>2, <1>3, <1>7, <2>1, <2>5, ReplyInherits DEF Goes, Executing
  <2> QED BY <2>1, <2>4, <2>5
<1>20. CASE WakeUp(r)
  <2> DEFINE x == Goto(r, "fetch-extract-persist")
  <2>1. Executing(r) /\ run[r].pc = "sleep" /\ UNCHANGED jobs /\ (Becomes(r, Ended) \/ Becomes(r, x))
    BY <1>20 DEF WakeUp, At
  <2>2. x.st = run[r].st /\ x.pc = "fetch-extract-persist" /\ x.job = run[r].job
    BY <1>1, GotoRecord DEF Steps, LockedSteps
  <2> HIDE DEF x
  <2>3. Inherits(run[r], x)
    BY <2>1, <2>2 DEF Inherits, CreatedNone, KnowsJob, LeavesAlone, Executing
  <2> QED BY <1>2, <1>3, <2>1, <2>3, EndedInherits, BecomesInherits DEF Goes
<1>21. CASE PersistBegins(r)
  <2>1. \A q \in Runs : /\ run'[q].st = run[q].st /\ run'[q].job = run[q].job
                        /\ \/ run'[q].pc = run[q].pc
                           \/ q = r /\ run'[q].pc = "persisting" /\ run[q].pc = "fetch-extract-persist"
    <3> SUFFICES ASSUME NEW q \in Runs
                 PROVE  /\ run'[q].st = run[q].st /\ run'[q].job = run[q].job
                        /\ \/ run'[q].pc = run[q].pc
                           \/ q = r /\ run'[q].pc = "persisting" /\ run[q].pc = "fetch-extract-persist"
      OBVIOUS
    <3>1. run[q] \in RunStates
      BY RunTyped
    <3>2. run[r].pc = "fetch-extract-persist"
      BY <1>21 DEF PersistBegins, At
    <3> DEFINE crowd == Persisting(run[r].repo)
    <3>3. run'[q] = CASE q = r -> [run[r] EXCEPT !.pc = "persisting", !.alone = (crowd = {})]
                      [] q \in crowd -> [run[q] EXCEPT !.alone = FALSE]
                      [] OTHER -> run[q]
      BY <1>21 DEF PersistBegins
    <3> HIDE DEF crowd
    <3>4. CASE q = r
      BY <3>1, <3>2, <3>3, <3>4 DEF RunStates
    <3>5. CASE q # r /\ q \in crowd
      BY <3>1, <3>3, <3>5 DEF RunStates
    <3>6. CASE q # r /\ q \notin crowd
      BY <3>3, <3>6
    <3> QED BY <3>4, <3>5, <3>6
  <2>2. Goes
    BY <2>1 DEF Goes, Inherits, CreatedNone, KnowsJob, LeavesAlone
  <2> QED BY <1>2, <1>3, <1>21, <2>2 DEF PersistBegins
<1>22. CASE PersistEnds(r)
  <2> DEFINE x == [Goto(r, "record-persist-progress") EXCEPT !.alone = TRUE]
  <2>1. Executing(r) /\ run[r].pc = "persisting" /\ UNCHANGED jobs /\ Reply(r, "fetch-extract-persist", x)
    BY <1>22 DEF PersistEnds, At
  <2>2. /\ x.st = Goto(r, "record-persist-progress").st /\ x.pc = Goto(r, "record-persist-progress").pc
        /\ x.job = Goto(r, "record-persist-progress").job
    BY <1>1 DEF Goto, RunStates
  <2>3. "record-persist-progress" \in Steps /\ KnowsJob(run[r])
    BY <2>1 DEF Steps, LockedSteps, KnowsJob, Executing
  <2> HIDE DEF x
  <2> QED BY <1>2, <1>3, <1>6, <2>1, <2>2, <2>3
<1>23. CASE MarkJobSucceeded(r)
  <2>1. Executing(r) /\ run[r].pc = "mark-job-succeeded"
        /\ UpdateJob(run[r].job, "SUCCEEDED", jobs[run[r].job].sha)
        /\ Becomes(r, IF run[r].st = "zombie" THEN Ended ELSE Goto(r, "emit-repository-indexed"))
    BY <1>23 DEF MarkJobSucceeded, At, Reply, SettlesOnce
  <2>2. (\A q \in Runs \ {r} : run'[q] = run[q])
        /\ run'[r] = (IF run[r].st = "zombie" THEN Ended ELSE Goto(r, "emit-repository-indexed"))
    BY <2>1, BecomesOnly
  <2>3. /\ Goto(r, "emit-repository-indexed").st = run[r].st
        /\ Goto(r, "emit-repository-indexed").pc = "emit-repository-indexed"
        /\ Goto(r, "emit-repository-indexed").job = run[r].job
    BY <1>1, GotoRecord DEF Steps, ReleasedSteps
  <2> QED BY <2>1, <2>2, <2>3, MarkedSettled DEF Executing, Done
<1>24. CASE EmitRepositoryIndexed(r)
  <2>1. Becomes(r, Ended) /\ UNCHANGED jobs
    BY <1>24 DEF EmitRepositoryIndexed, Reply, SettlesOnce
  <2> QED BY <1>2, <1>3, <2>1, EndedInherits, BecomesInherits DEF Goes
<1>25. CASE MarkFailed(r)
  <2> DEFINE x == Goto(r, "find-job-for-failure")
  <2>1. run[r].st = "failing" /\ run[r].pc = "mark-repository-failed" /\ UNCHANGED jobs
        /\ Reply(r, "mark-repository-failed", x)
    BY <1>25 DEF MarkFailed, FailingAt
  <2>2. x.st = "failing" /\ x.pc = "find-job-for-failure"
    BY <1>1, <2>1, GotoRecord DEF Steps, FailureSteps
  <2> HIDE DEF x
  <2>3. Inherits(run[r], x)
    BY <2>1, <2>2 DEF Inherits, CreatedNone, KnowsJob, LeavesAlone
  <2> QED BY <1>2, <1>3, <2>1, <2>3, ReplyInherits DEF Goes
<1>26. CASE FindJobForFailure(r)
  <2>1. run[r].st = "failing" /\ run[r].pc = "find-job-for-failure" /\ UNCHANGED jobs
    BY <1>26 DEF FindJobForFailure, FailingAt
  <2>2. CASE Reply(r, "find-job-for-failure", Ended)
    BY <1>2, <1>3, <2>1, <2>2, EndedInherits, ReplyInherits DEF Goes
  <2>3. ASSUME NEW j \in DOMAIN jobs, jobs[j].run = r,
               Reply(r, "find-job-for-failure", [Goto(r, "mark-job-failed") EXCEPT !.job = j])
        PROVE  Done
    <3> DEFINE x == [Goto(r, "mark-job-failed") EXCEPT !.job = j]
    <3>1. x.st = "failing" /\ x.pc = "mark-job-failed" /\ x.job = j /\ Reply(r, "find-job-for-failure", x)
      BY <1>1, <2>1, <2>3 DEF Goto, RunStates
    <3> HIDE DEF x
    <3>2. CASE Becomes(r, x)
      BY <2>1, <2>3, <3>1, <3>2, BecomesOnly, FoundSettled DEF Done
    <3>3. CASE Becomes(r, Retried(r))
      BY <1>2, <1>3, <1>4, <2>1, <3>3
    <3> QED BY <2>1, <3>1, <3>2, <3>3 DEF Reply
  <2> QED BY <1>26, <2>2, <2>3 DEF FindJobForFailure
<1>27. CASE MarkJobFailed(r)
  <2>1. run[r].st = "failing" /\ run[r].pc = "mark-job-failed"
        /\ UpdateJob(run[r].job, "FAILED", jobs[run[r].job].sha)
        /\ (Becomes(r, Ended) \/ Becomes(r, Retried(r)))
    BY <1>27 DEF MarkJobFailed, FailingAt, Reply
  <2>2. (\A q \in Runs \ {r} : run'[q] = run[q]) /\ run'[r] \in {Ended, Retried(r)}
    BY <2>1, BecomesOnly
  <2> QED BY <2>1, <2>2, RetriedGoesOn, MarkedSettled DEF Done
<1>28. CASE StepThrows(r)
  <2>1. Alive /\ Becomes(r, Retried(r)) /\ UNCHANGED jobs
        /\ run[r].pc # "emit-repository-indexed"
    BY <1>28 DEF StepThrows, SettlesOnce
  <2> QED BY <1>2, <1>3, <1>4, <2>1
<1> QED BY <1>8, <1>9, <1>10, <1>11, <1>12, <1>13, <1>14, <1>15, <1>16, <1>17, <1>18, <1>19, <1>20,
           <1>21, <1>22, <1>23, <1>24, <1>25, <1>26, <1>27, <1>28 DEF RunStep, Done

(* A job that ended as SUCCEEDED or FAILED keeps that status: no late or   *)
(* repeated step settles it again, of any run, cancelled, timed out,       *)
(* retried or failing, and whoever has the lock.                           *)
THEOREM TerminalJobsAlwaysStay ==
  ASSUME SettlesOnce
  PROVE  Spec => TerminalJobsStay
<1>1. Init => SettledInv
  BY DEF Init, SettledInv, KnowsJob, Unused
<1>2. TypeShape /\ SettledInv /\ [Next]_vars => SettledInv' /\ [TerminalStep]_vars
  <2> SUFFICES ASSUME TypeShape, SettledInv, [Next]_vars PROVE SettledInv' /\ TerminalStep
    OBVIOUS
  <2>1. ASSUME UNCHANGED jobs, \A q \in Runs : Inherits(run[q], run'[q])
        PROVE  SettledInv' /\ TerminalStep
    BY <2>1, InheritedSettled DEF SameStatuses
  <2>2. ASSUME NEW p, NEW preset, Enqueue(p, preset) PROVE \A q \in Runs : Inherits(run[q], run'[q])
    <3> DEFINE x == [Unused EXCEPT !.st = "queued", !.repo = p, !.preset = preset]
    <3>1. PICK q \in Runs : run[q].st = "unused" /\ Becomes(q, x)
      BY <2>2 DEF Enqueue
    <3>2. x.st = "queued"
      BY DEF Unused
    <3> HIDE DEF x
    <3>3. Inherits(run[q], x)
      BY <3>1, <3>2 DEF Inherits, CreatedNone, KnowsJob, LeavesAlone
    <3> QED BY <3>1, <3>3, BecomesInherits
  <2>3. ASSUME NEW p \in Repos, ConnectRepository(p) \/ TriggerIndex(p) \/ SweepStale(p)
        PROVE  SettledInv' /\ TerminalStep
    BY <2>1, <2>2, <2>3, EndedInherits DEF ConnectRepository, TriggerIndex, SweepStale
  <2>4. ASSUME NEW q \in Runs, NEW inFlight PROVE Inherits(run[q], Cancelled(q, inFlight))
    <3> DEFINE x == [run[q] EXCEPT !.st = "zombie"]
    <3>1. x.st = "zombie" /\ x.pc = run[q].pc /\ x.job = run[q].job
      BY RunTyped DEF RunStates
    <3> HIDE DEF x
    <3>2. run[q].st = "active" => Inherits(run[q], x)
      BY <3>1 DEF Inherits, CreatedNone, KnowsJob, LeavesAlone
    <3>3. run[q].st = "queued" => Inherits(run[q], x)
      BY <3>1, RunTyped DEF Inherits, CreatedNone, KnowsJob, LeavesAlone, ShapeOf
    <3> QED BY <3>2, <3>3, EndedInherits DEF Cancelled, x
  <2>5. ASSUME NEW j \in Projects, CancelRuns(j) PROVE SettledInv' /\ TerminalStep
    BY <2>1, <2>4, <2>5, EndedInherits DEF CancelRuns
  <2>6. ASSUME NEW r \in Runs, TimeOut(r) PROVE SettledInv' /\ TerminalStep
    BY <2>1, <2>4, <2>6, BecomesInherits DEF TimeOut
  <2>7. CASE (\E j \in Projects : DeleteProject(j)) \/ GithubChanges \/ UNCHANGED vars
    BY <2>1, <2>7, EndedInherits DEF DeleteProject, GithubChanges, vars
  <2>8. ASSUME NEW r \in Runs, RunStep(r) PROVE SettledInv' /\ TerminalStep
    BY <2>8, RunStepSettles
  <2> QED BY <2>3, <2>5, <2>6, <2>7, <2>8 DEF Next
<1> QED BY <1>1, <1>2, TypeShapeCorrect, PTL DEF Spec, TerminalJobsStay, TerminalStep
-----------------------------------------------------------------------------
(***************************************************************************)
(* The owner of a lock.  Each step of a run hands the lock on, to the same *)
(* run or its onFailure, or gives it back; the steps that create, find and *)
(* fail a job may be repeated.                                             *)
(***************************************************************************)

OwnerInv ==
  /\ cancels = {}
  /\ \A r \in Runs : /\ run[r].st # "zombie" /\ (run[r].st = "active" => run[r].pc # "mark-noop-succeeded")
                     /\ run[r].st \notin {"unused", "ended"} => indexStatus[run[r].repo] # "ABSENT"
  /\ \A p \in Repos : indexStatus[p] = "INDEXING" => \E r \in Runs : OwnsRec(run[r]) /\ run[r].repo = p

(* Run r moves from x to y.                                                *)
GoesFrom(x, y) ==
  \/ y = Ended
  \/ y.st \in {"active", "failing"} /\ y.repo = x.repo /\ (y.st = "active" => y.pc # "mark-noop-succeeded")

HandsOn(r) ==
  LET p == run[r].repo IN
  /\ \A q \in Runs \ {r} : run'[q] = run[q]
  /\ run[r].st \notin {"unused", "ended"} /\ GoesFrom(run[r], run'[r])
  /\ \/ UNCHANGED indexStatus /\ (OwnsRec(run[r]) => OwnsRec(run'[r]))
     \/ indexStatus' = [indexStatus EXCEPT ![p] = "INDEXING"] /\ OwnsRec(run'[r])
     \/ \E status \in {"INDEXED", "FAILED"} : indexStatus' = [indexStatus EXCEPT ![p] = status]

LEMMA HandingOnKeeps ==
  ASSUME TypeShape, OwnerInv, NEW r \in Runs, HandsOn(r), cancels' = {}
  PROVE  OwnerInv'
<1>1. run[r].repo \in Repos
  BY RunTyped DEF HandsOn
<1>2. \A p \in Repos : /\ indexStatus'[p] # indexStatus[p] => p = run[r].repo
                       /\ indexStatus[p] # "ABSENT" => indexStatus'[p] # "ABSENT"
  BY DEF HandsOn, TypeShape, TypeOK
<1>3. ASSUME NEW q \in Runs
      PROVE  /\ run'[q].st # "zombie" /\ (run'[q].st = "active" => run'[q].pc # "mark-noop-succeeded")
             /\ run'[q].st \notin {"unused", "ended"} => indexStatus'[run'[q].repo] # "ABSENT"
  <2>1. q # r => run'[q] = run[q]
    BY DEF HandsOn
  <2>2. run[q].st \notin {"unused", "ended"} => run[q].repo \in Repos
    BY RunTyped
  <2>3. CASE q # r
    BY <1>2, <2>1, <2>2, <2>3 DEF OwnerInv
  <2>4. CASE q = r
    BY <1>1, <1>2, <2>4, FreshRecords DEF OwnerInv, HandsOn, GoesFrom
  <2> QED BY <2>3, <2>4
<1>4. ASSUME NEW p \in Repos, indexStatus'[p] = "INDEXING"
      PROVE  \E q \in Runs : OwnsRec(run'[q]) /\ run'[q].repo = p
  <2>1. CASE p = run[r].repo /\ OwnsRec(run'[r])
    BY <2>1, FreshRecords DEF HandsOn, GoesFrom
  <2>2. CASE \/ p # run[r].repo
             \/ UNCHANGED indexStatus /\ (OwnsRec(run[r]) => OwnsRec(run'[r]))
    <3>1. PICK q \in Runs : OwnsRec(run[q]) /\ run[q].repo = p
      BY <1>2, <1>4, <2>2 DEF OwnerInv
    <3> QED BY <2>1, <2>2, <3>1 DEF HandsOn
  <2>3. ASSUME p = run[r].repo,
               \E status \in {"INDEXED", "FAILED"} : indexStatus' = [indexStatus EXCEPT ![run[r].repo] = status]
        PROVE  FALSE
    BY <1>1, <1>4, <2>3 DEF TypeShape, TypeOK
  <2>4. CASE p = run[r].repo
    <3>1. CASE UNCHANGED indexStatus /\ (OwnsRec(run[r]) => OwnsRec(run'[r]))
      BY <2>2, <3>1
    <3>2. CASE OwnsRec(run'[r])
      BY <2>1, <2>4, <3>2
    <3> QED BY <2>3, <2>4, <3>1, <3>2 DEF HandsOn
  <2> QED BY <2>2, <2>4
<1> QED BY <1>3, <1>4 DEF OwnerInv

LEMMA RunStepHandsOn ==
  ASSUME IInv, OwnerInv, LockGoesOn, NEW r \in Runs, RunStep(r)
  PROVE  HandsOn(r)
<1>1. TypeShape /\ run[r] \in RunStates /\ ShapeOf(run[r], DOMAIN jobs)
      /\ run[r].st # "zombie" /\ (run[r].st = "active" => run[r].pc # "mark-noop-succeeded")
  BY RunTyped DEF IInv, TypeShape, OwnerInv
<1> DEFINE Others == \A q \in Runs \ {r} : run'[q] = run[q]
<1>2. \A x : Becomes(r, x) => run'[r] = x /\ Others
  BY <1>1, BecomesOnly
<1>3. ASSUME NEW step \in Steps
      PROVE  Goto(r, step).st = run[r].st /\ Goto(r, step).pc = step /\ Goto(r, step).repo = run[r].repo
  BY <1>1, GotoRecord
<1>4. CASE \/ ResolveTarget(r) \/ ResolveHeadSha(r) \/ HeadNotAccessible(r) \/ HeadUnavailable(r)
           \/ ThrowTransient(r) \/ RecordTargetSha(r) \/ FetchRefused(r) \/ RateLimited(r)
           \/ WakeUp(r) \/ PersistBegins(r) \/ PersistEnds(r) \/ RecordPersistProgress(r)
           \/ StepThrows(r) /\ run[r].st = "active" /\ run[r].pc \in IndexSteps
  <2>1. run[r].st = "active" /\ run[r].pc \in IndexSteps
    BY <1>1, <1>4 DEF IndexSteps, LockedSteps, Executing, At, ResolveTarget, ResolveHeadSha, HeadNotAccessible,
       HeadUnavailable, ThrowTransient, RecordTargetSha, FetchRefused, RateLimited, WakeUp,
       PersistBegins, PersistEnds, RecordPersistProgress
  <2>2. Continues(run[r], run'[r]) /\ Others /\ UNCHANGED indexStatus
    BY <1>1, <1>4, <2>1, IndexingContinues
  <2> QED BY <2>1, <2>2 DEF HandsOn, GoesFrom, Continues, OwnsRec, IndexSteps
<1>5. CASE Start(r)
  <2> DEFINE x == [run[r] EXCEPT !.st = "active"]
  <2>1. run'[r] = x /\ Others /\ UNCHANGED indexStatus /\ run[r].st = "queued" /\ run[r].pc = "acquire-lock"
    BY <1>1, <1>2, <1>5 DEF Start, repoVars, ShapeOf
  <2>2. x.st = "active" /\ x.pc = run[r].pc /\ x.repo = run[r].repo
    BY <1>1 DEF RunStates
  <2> QED BY <2>1, <2>2 DEF HandsOn, GoesFrom, OwnsRec
<1>6. CASE AcquireIndexingLock(r)
  <2> DEFINE p == run[r].repo
             x == Goto(r, "create-index-job")
  <2>1. /\ run[r].st = "active" /\ run[r].pc = "acquire-lock" /\ Others
        /\ \/ run'[r] = x /\ indexStatus' = [indexStatus EXCEPT ![p] = "INDEXING"]
           \/ run'[r] = Ended /\ UNCHANGED indexStatus
    BY <1>1, <1>2, <1>6 DEF AcquireIndexingLock, At, Executing, Reply, LockGoesOn, LockStepsReliable
  <2>2. x.st = run[r].st /\ x.pc = "create-index-job" /\ x.repo = p
    BY <1>3 DEF Steps, LockedSteps
  <2> HIDE DEF x
  <2> QED BY <2>1, <2>2 DEF HandsOn, GoesFrom, OwnsRec, LockedSteps
<1>7. ASSUME run[r].st = "active", run[r].pc = "create-index-job", Becomes(r, Retried(r)), UNCHANGED indexStatus
      PROVE  HandsOn(r)
  <2>1. /\ Retried(r).repo = run[r].repo
        /\ \/ Retried(r).st = "active" /\ Retried(r).pc = "create-index-job"
           \/ Retried(r).st = "failing" /\ Retried(r).pc = "mark-repository-failed"
    BY <1>1, <1>7, RetriedGoesOn DEF Executing, Failed, Unused
  <2> QED BY <1>2, <1>7, <2>1 DEF HandsOn, GoesFrom, OwnsRec, LockedSteps
<1>8. CASE CreateIndexJob(r) \/ CreateIndexJobRejected(r)
  <2> DEFINE n == Len(jobs')
             x == [Goto(r, "resolve-target") EXCEPT !.job = n]
  <2>1. /\ run[r].st = "active" /\ run[r].pc = "create-index-job" /\ UNCHANGED indexStatus
        /\ Becomes(r, x) \/ Becomes(r, Retried(r))
    BY <1>1, <1>8 DEF CreateIndexJob, CreateIndexJobRejected, At, Executing, Reply, repoVars
  <2>2. x.st = "active" /\ x.pc = "resolve-target" /\ x.repo = run[r].repo
    <3> HIDE DEF n
    <3> QED BY <1>1, <2>1 DEF Goto, RunStates
  <2> HIDE DEF x
  <2>3. CASE Becomes(r, x)
    BY <1>2, <2>1, <2>2, <2>3 DEF HandsOn, GoesFrom, OwnsRec, LockedSteps
  <2> QED BY <1>7, <2>1, <2>3
<1>9. CASE MarkSucceededNoOp(r)
  BY <1>1, <1>9 DEF MarkSucceededNoOp, At, Executing
<1>10. CASE MarkIndexed(r)
  <2> DEFINE x == Goto(r, "mark-job-succeeded")
  <2>1. /\ run[r].st = "active" /\ run'[r] = x /\ Others
        /\ indexStatus' = [indexStatus EXCEPT ![run[r].repo] = "INDEXED"]
    BY <1>1, <1>2, <1>10 DEF MarkIndexed, At, Executing, Reply, LockGoesOn, LockStepsReliable
  <2>2. x.st = run[r].st /\ x.pc = "mark-job-succeeded" /\ x.repo = run[r].repo
    BY <1>3 DEF Steps, ReleasedSteps
  <2> HIDE DEF x
  <2> QED BY <2>1, <2>2 DEF HandsOn, GoesFrom
<1>11. CASE MarkJobSucceeded(r) \/ EmitRepositoryIndexed(r)
  <2> DEFINE x == Goto(r, "emit-repository-indexed")
  <2>1. /\ run[r].st = "active" /\ run[r].pc \in ReleasedSteps /\ Others /\ UNCHANGED indexStatus
        /\ run'[r] = x \/ run'[r] = Ended
    BY <1>1, <1>2, <1>11 DEF MarkJobSucceeded, EmitRepositoryIndexed, At, Executing, Reply, repoVars,
                             LockGoesOn, LockStepsReliable, ReleasedSteps
  <2>2. x.st = run[r].st /\ x.pc = "emit-repository-indexed" /\ x.repo = run[r].repo
    BY <1>3 DEF Steps, ReleasedSteps
  <2> HIDE DEF x
  <2> QED BY <2>1, <2>2 DEF HandsOn, GoesFrom, OwnsRec, LockedSteps, ReleasedSteps
<1>12. CASE MarkFailed(r)
  <2> DEFINE x == Goto(r, "find-job-for-failure")
  <2>1. /\ run[r].st = "failing" /\ run'[r] = x /\ Others
        /\ indexStatus' = [indexStatus EXCEPT ![run[r].repo] = "FAILED"]
    BY <1>1, <1>2, <1>12 DEF MarkFailed, FailingAt, Reply, LockGoesOn, LockStepsReliable
  <2>2. x.st = run[r].st /\ x.pc = "find-job-for-failure" /\ x.repo = run[r].repo
    BY <1>3 DEF Steps, FailureSteps
  <2> HIDE DEF x
  <2> QED BY <2>1, <2>2 DEF HandsOn, GoesFrom
<1>13. ASSUME run[r].st = "failing", run[r].pc \in {"find-job-for-failure", "mark-job-failed"},
              UNCHANGED indexStatus, NEW x, Becomes(r, x),
              x \in {Ended, Retried(r)} \/ (x.st = "failing" /\ x.repo = run[r].repo)
       PROVE  HandsOn(r)
  <2>1. Retried(r) = Ended \/ (Retried(r).st = "failing" /\ Retried(r).repo = run[r].repo)
    BY <1>1, <1>13, RetriedGoesOn
  <2> QED BY <1>2, <1>13, <2>1 DEF HandsOn, GoesFrom, OwnsRec
<1>14. CASE FindJobForFailure(r)
  <2>1. run[r].st = "failing" /\ run[r].pc = "find-job-for-failure" /\ UNCHANGED indexStatus
    BY <1>14 DEF FindJobForFailure, FailingAt, repoVars
  <2>2. PICK j \in Nat : \/ Becomes(r, Ended) \/ Becomes(r, Retried(r))
                         \/ Becomes(r, [Goto(r, "mark-job-failed") EXCEPT !.job = j])
    <3>1. DOMAIN jobs \subseteq Nat
      BY <1>1 DEF TypeShape, TypeOK
    <3> QED BY <1>1, <1>14, <3>1 DEF FindJobForFailure, Reply
  <2> DEFINE x == [Goto(r, "mark-job-failed") EXCEPT !.job = j]
  <2>3. x.st = "failing" /\ x.repo = run[r].repo
    BY <1>1, <2>1 DEF Goto, RunStates
  <2>4. Becomes(r, Ended) \/ Becomes(r, Retried(r)) \/ Becomes(r, x)
    BY <2>2
  <2> HIDE DEF x
  <2> QED BY <1>13, <2>1, <2>3, <2>4
<1>15. CASE MarkJobFailed(r)
  BY <1>13, <1>15 DEF MarkJobFailed, FailingAt, repoVars, Reply
<1>16. CASE StepThrows(r)
  <2>1. /\ Becomes(r, Retried(r)) /\ UNCHANGED indexStatus /\ run[r].st \in {"active", "failing"}
        /\ run[r].pc \in Faulty \cup Throwing \/ run[r].pc = "persisting"
    BY <1>1, <1>16 DEF StepThrows, Executing, repoVars
  <2>2. run[r].st = "active" => run[r].pc = "create-index-job" \/ run[r].pc \in IndexSteps
    BY <1>1, <2>1 DEF ShapeOf, RunStates, Steps, IndexSteps, LockedSteps, ReleasedSteps, FailureSteps,
                      LockGoesOn, LockStepsReliable
  <2>3. run[r].st = "failing" => run[r].pc \in {"find-job-for-failure", "mark-job-failed"}
    BY <1>1, <2>1 DEF ShapeOf, FailureSteps, LockGoesOn, LockStepsReliable
  <2> QED BY <1>4, <1>7, <1>13, <1>16, <2>1, <2>2, <2>3
<1> QED BY <1>4, <1>5, <1>6, <1>8, <1>9, <1>10, <1>11, <1>12, <1>14, <1>15, <1>16 DEF RunStep

LEMMA OwnerInvCorrect ==
  ASSUME LockGoesOn
  PROVE  Spec => [](IInv /\ OwnerInv)
<1>1. Init => OwnerInv
  BY DEF Init, OwnerInv, Unused
<1>2. IInv /\ OwnerInv /\ [Next]_vars => OwnerInv'
  <2> SUFFICES ASSUME IInv, OwnerInv, [Next]_vars PROVE OwnerInv'
    OBVIOUS
  <2>1. TypeShape
    BY DEF IInv, TypeShape
  <2>2. ASSUME NEW r \in Runs, RunStep(r) PROVE OwnerInv'
    <3>1. cancels' = cancels
      BY <2>2 DEF RunStep, envVars, Start, AcquireIndexingLock, CreateIndexJob,
         CreateIndexJobRejected, ResolveTarget, ResolveHeadSha, HeadNotAccessible, HeadUnavailable,
         ThrowTransient, MarkSucceededNoOp, RecordTargetSha, FetchRefused, RateLimited, WakeUp,
         PersistBegins, PersistEnds, RecordPersistProgress, MarkIndexed, MarkJobSucceeded,
         EmitRepositoryIndexed, MarkFailed, FindJobForFailure, MarkJobFailed, StepThrows
    <3> QED BY <2>1, <2>2, <3>1, RunStepHandsOn, HandingOnKeeps DEF OwnerInv
  <2>3. ASSUME NEW p \in Repos, indexStatus'[p] # "ABSENT",
               \A d \in Repos : /\ indexStatus'[d] = "INDEXING" => indexStatus[d] = "INDEXING"
                                /\ indexStatus[d] # "ABSENT" => indexStatus'[d] # "ABSENT",
               (\E preset : Enqueue(p, preset)) \/ UNCHANGED run, UNCHANGED cancels
        PROVE  OwnerInv'
    <3>1. CASE UNCHANGED run
      BY <2>1, <2>3, <3>1, RunTyped DEF OwnerInv
    <3>2. ASSUME NEW preset, Enqueue(p, preset) PROVE OwnerInv'
      <4> DEFINE x == [Unused EXCEPT !.st = "queued", !.repo = p, !.preset = preset]
      <4>1. PICK r \in Runs : run[r].st = "unused" /\ Becomes(r, x)
        BY <3>2 DEF Enqueue
      <4>2. x.st = "queued" /\ x.repo = p
        BY DEF Unused
      <4> HIDE DEF x
      <4>3. run'[r] = x /\ (\A q \in Runs \ {r} : run'[q] = run[q]) /\ ~OwnsRec(run[r])
        BY <2>1, <4>1, BecomesOnly DEF OwnsRec
      <4> QED BY <2>1, <2>3, <4>2, <4>3, RunTyped DEF OwnerInv
    <3> QED BY <2>3, <3>1, <3>2
  <2>4. ASSUME NEW p \in Repos, ConnectRepository(p) PROVE OwnerInv'
    <3>1. /\ indexStatus' = [indexStatus EXCEPT ![p] = "PENDING"] /\ UNCHANGED cancels
          /\ Enqueue(p, FALSE) \/ UNCHANGED run
      BY <2>4 DEF ConnectRepository, envVars
    <3>2. indexStatus'[p] = "PENDING" /\ \A d \in Repos \ {p} : indexStatus'[d] = indexStatus[d]
      BY <2>1, <3>1 DEF TypeShape, TypeOK
    <3> QED BY <2>3, <3>1, <3>2
  <2>5. ASSUME NEW p \in Repos, TriggerIndex(p) \/ SweepStale(p) PROVE OwnerInv'
    BY <2>3, <2>5 DEF TriggerIndex, SweepStale, repoVars, envVars
  <2>6. ~(\E j \in Projects : DeleteProject(j) \/ CancelRuns(j)) /\ ~(\E r \in Runs : TimeOut(r))
    BY DEF DeleteProject, CancelRuns, TimeOut, LockGoesOn, OwnerInv
  <2>7. CASE GithubChanges \/ UNCHANGED vars
    BY <2>7 DEF GithubChanges, repoVars, vars, OwnerInv
  <2> QED BY <2>2, <2>4, <2>5, <2>6, <2>7 DEF Next
<1> QED BY <1>1, <1>2, IInvCorrect, PTL DEF Spec, LockGoesOn

(* No lock is left behind: a repository shown as INDEXING is always being  *)
(* indexed by a run, or about to be given back by its onFailure.           *)
THEOREM LocksAlwaysHaveOwners ==
  ASSUME LockGoesOn
  PROVE  Spec => []LockHasAnOwner
<1>1. OwnerInv => LockHasAnOwner
  BY ClaimsOfRuns DEF OwnerInv, LockHasAnOwner, Of
<1> QED BY <1>1, OwnerInvCorrect, PTL

(* A run is refused the lock only because another index of the repository  *)
(* is in flight, or its onFailure still is.                                *)
THEOREM RefusalsMeanInFlight ==
  ASSUME LockGoesOn
  PROVE  Spec => RefusedOnlyWhileInFlight
<1>1. IInv /\ OwnerInv /\ [Next]_vars =>
        [\A r \in Runs :
           Refused(r) => \E q \in Of(run[r].repo) \ {r} : Indexing(q) \/ run[q].st = "failing"]_vars
  <2> SUFFICES ASSUME IInv, OwnerInv, Next, NEW r \in Runs, Refused(r)
               PROVE  \E q \in Of(run[r].repo) \ {r} : Indexing(q) \/ run[q].st = "failing"
    OBVIOUS
  <2>1. /\ TypeShape /\ run[r].repo \in Repos /\ run[r].st = "active" /\ run[r].pc = "acquire-lock"
        /\ run'[r] = Ended /\ run'[r] # run[r] /\ ~OwnsRec(run[r])
    BY RunTyped, FreshRecords DEF IInv, TypeShape, Refused, At, OwnsRec, LockedSteps
  <2>2. PICK q \in Runs : RunStep(q)
    <3>1. ASSUME NEW p, NEW preset, Enqueue(p, preset) PROVE FALSE
      <4> DEFINE x == [Unused EXCEPT !.st = "queued", !.repo = p, !.preset = preset]
      <4>1. PICK q \in Runs : run[q].st = "unused" /\ Becomes(q, x)
        BY <3>1 DEF Enqueue
      <4> HIDE DEF x
      <4> QED BY <2>1, <4>1, BecomesOnly
    <3>2. run' # run
      BY <2>1
    <3>3. ~(\E p \in Repos : ConnectRepository(p) \/ TriggerIndex(p) \/ SweepStale(p))
      BY <3>1, <3>2 DEF ConnectRepository, TriggerIndex, SweepStale
    <3>4. ~(\E j \in Projects : DeleteProject(j) \/ CancelRuns(j)) /\ ~(\E q \in Runs : TimeOut(q))
      BY DEF DeleteProject, CancelRuns, TimeOut, LockGoesOn, OwnerInv
    <3>5. ~GithubChanges
      BY <3>2 DEF GithubChanges
    <3> QED BY <3>3, <3>4, <3>5 DEF Next
  <2>3. HandsOn(r) /\ RunStep(r)
    BY <2>1, <2>2, RunStepHandsOn DEF HandsOn
  <2>4. "acquire-lock" \notin Faulty \cup Throwing
    BY DEF LockGoesOn, LockStepsReliable
  <2>5. AcquireIndexingLock(r)
    BY <2>1, <2>3, <2>4 DEF RunStep, Start, CreateIndexJob,
       CreateIndexJobRejected, ResolveTarget, ResolveHeadSha, HeadNotAccessible, HeadUnavailable,
       ThrowTransient, MarkSucceededNoOp, RecordTargetSha, FetchRefused, RateLimited, WakeUp,
       PersistBegins, PersistEnds, RecordPersistProgress, MarkIndexed, MarkJobSucceeded,
       EmitRepositoryIndexed, MarkFailed, FindJobForFailure, MarkJobFailed, StepThrows, At, FailingAt
  <2>6. indexStatus[run[r].repo] \notin LOCKABLE_STATUSES
    <3> SUFFICES ASSUME indexStatus[run[r].repo] \in LOCKABLE_STATUSES PROVE FALSE
      OBVIOUS
    <3>1. Becomes(r, Goto(r, "create-index-job"))
      BY <2>1, <2>4, <2>5 DEF AcquireIndexingLock, Reply
    <3>2. run'[r] = Goto(r, "create-index-job")
      BY <2>1, <3>1, BecomesOnly
    <3>3. Goto(r, "create-index-job").st = "active"
      BY <2>1, RunTyped DEF Goto, RunStates
    <3> QED BY <2>1, <3>2, <3>3, FreshRecords
  <2>7. indexStatus[run[r].repo] = "INDEXING"
    BY <2>1, <2>6 DEF OwnerInv, IInv, TypeOK, IndexStatuses
  <2>8. PICK o \in Runs : OwnsRec(run[o]) /\ run[o].repo = run[r].repo
    BY <2>1, <2>7 DEF OwnerInv
  <2> QED BY <2>1, <2>8 DEF Of, OwnsRec, Indexing, Executing
<1> QED BY <1>1, OwnerInvCorrect, PTL DEF Spec, RefusedOnlyWhileInFlight
-----------------------------------------------------------------------------
(***************************************************************************)
(* The no-op path.  While a rebuild that began always completes and is     *)
(* published, the rows are those of indexedCommitSha whenever nobody       *)
(* rebuilds them; the run silent shows an index that fails in between.     *)
(***************************************************************************)

RebuildsComplete ==
  /\ LockStepsReliable
  /\ (Faulty \cup Throwing) \cap {"fetch-extract-persist", "persisting", "record-persist-progress",
                                  "mark-repository-indexed"} = {}

(* Rebuilding, or about to publish what was rebuilt.                       *)
MidRec(x) ==
  x.st \in {"active", "zombie"}
  /\ x.pc \in {"persisting", "record-persist-progress", "mark-repository-indexed"}

CleanRec(x) == OwnsRec(x) /\ ~MidRec(x)
HeadRec(x) == x.st \in {"active", "zombie"} /\ x.pc = "resolve-head-sha"
NoOpRec(x) == x.st \in {"active", "zombie"} /\ x.pc = "mark-noop-succeeded"

(* What the record of a run says of a repository with contents c, where    *)
(* commit i is published.                                                  *)
Claims(x, c, i) ==
  /\ CleanRec(x) => c = i
  /\ HeadRec(x) => x.indexed = i
  /\ NoOpRec(x) => x.sha = i

NoOpInv ==
  /\ \A p \in Repos : indexStatus[p] # "INDEXING" => contents[p] = indexedCommitSha[p]
  /\ \A r \in Runs : Claims(run[r], contents[run[r].repo], indexedCommitSha[run[r].repo])

(* y claims nothing that x did not.                                        *)
ClaimsOnly(x, y) ==
  /\ CleanRec(y) => CleanRec(x) /\ y.repo = x.repo
  /\ HeadRec(y) => HeadRec(x) /\ y.repo = x.repo /\ y.indexed = x.indexed
  /\ NoOpRec(y) => NoOpRec(x) /\ y.repo = x.repo /\ y.sha = x.sha

LEMMA ClaimsOnlyKeep ==
  ASSUME NoOpInv, \A q \in Runs : ClaimsOnly(run[q], run'[q]), UNCHANGED <<contents, indexedCommitSha>>,
         \A p \in Repos : indexStatus[p] = "INDEXING" => indexStatus'[p] = "INDEXING"
  PROVE  NoOpInv'
BY DEF NoOpInv, ClaimsOnly, Claims

LEMMA ClaimsOfOthers ==
  ASSUME TypeShape, NoOpInv, NEW r \in Runs, NEW p \in Repos,
         \A q \in Runs \ {r} : run'[q] = run[q] /\ (OwnsRec(run[q]) => run[q].repo # p),
         \A d \in Repos \ {p} : /\ indexStatus'[d] = indexStatus[d] /\ contents'[d] = contents[d]
                                /\ indexedCommitSha'[d] = indexedCommitSha[d],
         indexStatus'[p] # "INDEXING" => contents'[p] = indexedCommitSha'[p],
         run'[r].repo = p \/ run'[r] = Ended, Claims(run'[r], contents'[p], indexedCommitSha'[p])
  PROVE  NoOpInv'
<1>1. ASSUME NEW q \in Runs PROVE Claims(run'[q], contents'[run'[q].repo], indexedCommitSha'[run'[q].repo])
  <2>1. CASE q = r
    BY <2>1 DEF Claims, Ended, Unused, CleanRec, HeadRec, NoOpRec, OwnsRec
  <2>2. CASE q # r /\ OwnsRec(run[q])
    <3>1. run[q].repo \in Repos \ {p}
      BY <2>2, RunTyped DEF OwnsRec
    <3> QED BY <2>2, <3>1 DEF NoOpInv
  <2>3. CASE q # r /\ ~OwnsRec(run[q])
    BY <2>3 DEF Claims, CleanRec, HeadRec, NoOpRec, OwnsRec, LockedSteps
  <2> QED BY <2>1, <2>2, <2>3
<1> QED BY <1>1 DEF NoOpInv

LEMMA EndedClaimsOnly == \A x : ClaimsOnly(x, Ended) /\ ClaimsOnly(x, x)
BY DEF ClaimsOnly, Ended, Unused, CleanRec, HeadRec, NoOpRec, OwnsRec

LEMMA FailedClaimsOnly ==
  ASSUME NEW r \in Runs, CleanRec(run[r])
  PROVE  ClaimsOnly(run[r], Failed(r))
BY DEF ClaimsOnly, Failed, Unused, CleanRec, MidRec, HeadRec, NoOpRec, OwnsRec

LEMMA RetriedClaimsOnly ==
  ASSUME TypeShape, NEW r \in Runs, Executing(r) \/ run[r].st = "failing",
         run[r].st = "active" => CleanRec(run[r])
  PROVE  ClaimsOnly(run[r], Retried(r))
<1>1. CASE Retried(r) = Ended
  BY <1>1, EndedClaimsOnly
<1>2. CASE Retried(r) = Failed(r) /\ run[r].st = "active"
  BY <1>2, FailedClaimsOnly
<1>3. CASE /\ run[r].st \in {"active", "failing"} /\ Retried(r).st = run[r].st
           /\ Retried(r).repo = run[r].repo /\ Retried(r).sha = run[r].sha
           /\ Retried(r).indexed = run[r].indexed
           /\ \/ Retried(r).pc = run[r].pc
              \/ run[r].pc = "persisting" /\ Retried(r).pc = "fetch-extract-persist"
  <2> DEFINE y == Retried(r)
  <2> HIDE DEF y
  <2> QED BY <1>3 DEF ClaimsOnly, CleanRec, MidRec, HeadRec, NoOpRec, OwnsRec
<1> QED BY <1>1, <1>2, <1>3, RetriedGoesOn

LEMMA ReplyClaimsOnly ==
  ASSUME TypeShape, NEW r \in Runs, NEW step, NEW next, Reply(r, step, next),
         Executing(r) \/ run[r].st = "failing",
         step \in Faulty => (run[r].st = "active" => CleanRec(run[r])),
         run[r].st # "zombie" => ClaimsOnly(run[r], next)
  PROVE  \A q \in Runs : ClaimsOnly(run[q], run'[q])
<1>1. CASE Becomes(r, Ended)
  BY <1>1, BecomesOnly, EndedClaimsOnly
<1>2. CASE Becomes(r, next) /\ run[r].st # "zombie"
  BY <1>2, BecomesOnly, EndedClaimsOnly
<1>3. CASE Becomes(r, Retried(r)) /\ step \in Faulty
  BY <1>3, RetriedClaimsOnly, BecomesOnly, EndedClaimsOnly
<1> QED BY <1>1, <1>2, <1>3 DEF Reply

(* Only the owner of a lock has its repository.                            *)
LEMMA OthersElsewhere ==
  ASSUME IInv, NEW r \in Runs, OwnsRec(run[r]) \/ indexStatus[run[r].repo] # "INDEXING"
  PROVE  \A q \in Runs \ {r} : OwnsRec(run[q]) => run[q].repo # run[r].repo
BY OwnersAreLocked DEF IInv, TypeShape

LEMMA RunStepClaimsOnly ==
  ASSUME IInv, NoOpInv, RebuildsComplete, NEW r \in Runs, RunStep(r)
  PROVE  NoOpInv'
<1> DEFINE p == run[r].repo
           Goes == (\A q \in Runs : ClaimsOnly(run[q], run'[q])) /\ UNCHANGED repoVars
           Done == NoOpInv'
<1>1. /\ TypeShape /\ LockInv /\ run[r] \in RunStates /\ ShapeOf(run[r], DOMAIN jobs)
      /\ (run[r].st \notin {"unused", "ended"} => p \in Repos)
  BY RunTyped DEF IInv, TypeShape
<1>2. Goes => Done
  BY ClaimsOnlyKeep DEF repoVars
<1>3. Executing(r) /\ run[r].pc \in LockedSteps \ {"persisting", "record-persist-progress", "mark-repository-indexed"}
        => CleanRec(run[r])
  BY DEF Executing, CleanRec, MidRec, OwnsRec
<1>4. \A x : Becomes(r, x) => run'[r] = x /\ \A q \in Runs \ {r} : run'[q] = run[q]
  BY <1>1, BecomesOnly
<1>5. ASSUME Executing(r) \/ run[r].st = "failing", Becomes(r, Retried(r)),
             run[r].st = "active" => CleanRec(run[r]), UNCHANGED repoVars
      PROVE  Goes
  BY <1>1, <1>4, <1>5, RetriedClaimsOnly, EndedClaimsOnly
<1>6. ASSUME CleanRec(run[r]), Executing(r), NEW s, NEW next, Reply(r, s, next), UNCHANGED repoVars,
             next \in {Failed(r), Ended}
      PROVE  Goes
  BY <1>1, <1>6, ReplyClaimsOnly, FailedClaimsOnly, EndedClaimsOnly
<1>7. ASSUME CleanRec(run[r]), Executing(r), NEW s, NEW step \in Steps, NEW next, Reply(r, s, next),
             step \notin {"resolve-head-sha", "mark-noop-succeeded"}, UNCHANGED repoVars,
             next.st = Goto(r, step).st, next.pc = Goto(r, step).pc, next.repo = Goto(r, step).repo
      PROVE  Goes
  <2>1. next.st = run[r].st /\ next.pc = step /\ next.repo = p
    BY <1>1, <1>7, GotoRecord
  <2>2. ClaimsOnly(run[r], next)
    BY <1>7, <2>1 DEF ClaimsOnly, HeadRec, NoOpRec, CleanRec
  <2> QED BY <1>1, <1>7, <2>2, ReplyClaimsOnly
<1> HIDE DEF Goes, Done
<1> SUFFICES Done
  BY DEF Done
<1>8. CASE Start(r)
  <2> DEFINE x == [run[r] EXCEPT !.st = "active"]
  <2>1. x.st = "active" /\ x.pc = "acquire-lock" /\ run'[r] = x /\ UNCHANGED repoVars
        /\ \A q \in Runs \ {r} : run'[q] = run[q]
    BY <1>1, <1>4, <1>8 DEF Start, RunStates, ShapeOf
  <2> HIDE DEF x
  <2>2. ClaimsOnly(run[r], x)
    BY <2>1 DEF ClaimsOnly, CleanRec, HeadRec, NoOpRec, OwnsRec, LockedSteps
  <2> QED BY <1>2, <2>1, <2>2, EndedClaimsOnly DEF Goes
<1>9. CASE AcquireIndexingLock(r)
  <2> DEFINE x == Goto(r, "create-index-job")
  <2>1. /\ Executing(r) /\ p \in Repos /\ "acquire-lock" \notin Faulty
        /\ \A q \in Runs \ {r} : run'[q] = run[q]
        /\ \/ run'[r] \in {x, Ended} /\ indexStatus[p] \in LOCKABLE_STATUSES
              /\ indexStatus' = [indexStatus EXCEPT ![p] = "INDEXING"]
           \/ run'[r] = Ended /\ UNCHANGED indexStatus
        /\ UNCHANGED <<contents, indexedCommitSha>>
    BY <1>1, <1>4, <1>9 DEF AcquireIndexingLock, At, Executing, Reply, RebuildsComplete, LockStepsReliable
  <2>2. x.st = run[r].st /\ x.pc = "create-index-job" /\ x.repo = p
    BY <1>1, GotoRecord DEF Steps, LockedSteps
  <2> HIDE DEF x
  <2>3. CASE run'[r] = Ended
    BY <2>1, <2>3, EndedClaimsOnly, ClaimsOnlyKeep, <1>1 DEF Done, TypeShape, TypeOK
  <2>4. CASE run'[r] = x /\ indexStatus[p] \in LOCKABLE_STATUSES
             /\ indexStatus' = [indexStatus EXCEPT ![p] = "INDEXING"]
    <3>1. contents[p] = indexedCommitSha[p] /\ indexStatus[p] # "INDEXING"
      BY <2>1, <2>4 DEF NoOpInv, LOCKABLE_STATUSES
    <3>2. Claims(x, contents'[p], indexedCommitSha'[p])
      BY <2>1, <2>2, <3>1 DEF Claims, HeadRec, NoOpRec
    <3>3. \A d \in Repos \ {p} : indexStatus'[d] = indexStatus[d]
      BY <1>1, <2>4 DEF TypeShape, TypeOK
    <3>4. indexStatus'[p] = "INDEXING"
      BY <1>1, <2>1, <2>4 DEF TypeShape, TypeOK
    <3> QED BY <1>1, <2>1, <2>2, <2>4, <3>1, <3>2, <3>3, <3>4, OthersElsewhere, ClaimsOfOthers DEF Done
  <2> QED BY <2>1, <2>3, <2>4
<1>10. CASE CreateIndexJob(r)
  <2> DEFINE n == Len(jobs')
             x == [Goto(r, "resolve-target") EXCEPT !.job = n]
  <2>1. CleanRec(run[r]) /\ Executing(r) /\ Reply(r, "create-index-job", x) /\ UNCHANGED repoVars
    BY <1>3, <1>10 DEF CreateIndexJob, At, LockedSteps
  <2>2. /\ x.st = Goto(r, "resolve-target").st /\ x.pc = Goto(r, "resolve-target").pc
        /\ x.repo = Goto(r, "resolve-target").repo
    <3> HIDE DEF n
    <3> QED BY <1>1 DEF Goto, RunStates
  <2>3. "resolve-target" \in Steps
    BY DEF Steps, LockedSteps
  <2> HIDE DEF x
  <2> QED BY <1>2, <1>7, <2>1, <2>2, <2>3
<1>11. CASE CreateIndexJobRejected(r) \/ ThrowTransient(r)
  <2>1. CleanRec(run[r]) /\ Executing(r) /\ Becomes(r, Retried(r)) /\ UNCHANGED repoVars
    BY <1>3, <1>11 DEF CreateIndexJobRejected, ThrowTransient, At, LockedSteps
  <2> QED BY <1>2, <1>5, <2>1
<1>12. CASE ResolveTarget(r)
  <2> DEFINE c == indexedCommitSha[p]
             x == [Goto(r, "resolve-head-sha") EXCEPT !.indexed = c]
  <2>1. CleanRec(run[r]) /\ Executing(r) /\ Reply(r, "resolve-target", x) /\ UNCHANGED repoVars /\ p \in Repos
    BY <1>1, <1>3, <1>12 DEF ResolveTarget, At, LockedSteps, Executing
  <2>2. x.st = run[r].st /\ x.pc = "resolve-head-sha" /\ x.repo = p /\ x.indexed = c
    BY <1>1 DEF Goto, RunStates
  <2> HIDE DEF x
  <2>3. CASE Becomes(r, x)
    <3>1. contents[p] = indexedCommitSha[p]
      BY <2>1 DEF NoOpInv, Claims
    <3>2. Claims(x, contents'[p], indexedCommitSha'[p])
      BY <2>1, <2>2, <3>1 DEF Claims, NoOpRec, repoVars
    <3> QED BY <1>1, <1>4, <2>1, <2>2, <2>3, <3>1, <3>2, OthersElsewhere, ClaimsOfOthers
            DEF Done, CleanRec, repoVars
  <2>4. CASE Becomes(r, Retried(r)) \/ Becomes(r, Ended)
    BY <1>2, <1>5, <1>4, <2>1, <2>4, EndedClaimsOnly DEF Goes
  <2> QED BY <2>1, <2>3, <2>4 DEF Reply
<1>13. CASE ResolveHeadSha(r)
  <2>1. PICK sha \in Shas : \E step \in {"mark-noop-succeeded", "record-target-sha"} :
          /\ step = "mark-noop-succeeded" => sha = run[r].indexed
          /\ Reply(r, "resolve-head-sha", [Goto(r, step) EXCEPT !.sha = sha])
    BY <1>13 DEF ResolveHeadSha
  <2>2. PICK step \in {"mark-noop-succeeded", "record-target-sha"} :
          /\ step = "mark-noop-succeeded" => sha = run[r].indexed
          /\ Reply(r, "resolve-head-sha", [Goto(r, step) EXCEPT !.sha = sha])
    BY <2>1
  <2> DEFINE x == [Goto(r, step) EXCEPT !.sha = sha]
  <2>3. x.st = run[r].st /\ x.pc = step /\ x.repo = p /\ x.sha = sha
    BY <1>1 DEF Goto, RunStates
  <2>4. CleanRec(run[r]) /\ HeadRec(run[r]) /\ Executing(r) /\ p \in Repos /\ UNCHANGED repoVars
    BY <1>1, <1>3, <1>13 DEF ResolveHeadSha, At, LockedSteps, Executing, HeadRec
  <2>5. Reply(r, "resolve-head-sha", x)
    BY <2>2
  <2> HIDE DEF x
  <2>6. CASE Becomes(r, x)
    <3>1. contents[p] = indexedCommitSha[p] /\ run[r].indexed = indexedCommitSha[p]
      BY <2>4 DEF NoOpInv, Claims
    <3>2. Claims(x, contents'[p], indexedCommitSha'[p])
      BY <2>2, <2>3, <2>4, <3>1 DEF Claims, HeadRec, NoOpRec, repoVars
    <3> QED BY <1>1, <1>4, <2>3, <2>4, <2>6, <3>1, <3>2, OthersElsewhere, ClaimsOfOthers
            DEF Done, CleanRec, repoVars
  <2>7. CASE Becomes(r, Retried(r)) \/ Becomes(r, Ended)
    BY <1>2, <1>5, <1>4, <2>4, <2>7, EndedClaimsOnly DEF Goes
  <2> QED BY <2>5, <2>6, <2>7 DEF Reply
<1>14. CASE HeadNotAccessible(r) \/ MarkSucceededNoOp(r)
  <2>1. CleanRec(run[r]) /\ Executing(r) /\ UNCHANGED repoVars
        /\ \E s : Reply(r, s, Failed(r)) \/ Reply(r, s, Ended)
    BY <1>3, <1>14 DEF HeadNotAccessible, MarkSucceededNoOp, At, LockedSteps
  <2> QED BY <1>2, <1>6, <2>1
<1>15. CASE HeadUnavailable(r) \/ RecordTargetSha(r)
  <2>1. CleanRec(run[r]) /\ Executing(r) /\ UNCHANGED repoVars
    BY <1>3, <1>15 DEF HeadUnavailable, RecordTargetSha, At, LockedSteps
  <2>2. \E s : Reply(r, s, Goto(r, "transient-throw")) \/ Reply(r, s, Goto(r, "fetch-extract-persist"))
    BY <1>15 DEF HeadUnavailable, RecordTargetSha
  <2>3. {"transient-throw", "fetch-extract-persist"} \subseteq Steps
    BY DEF Steps, LockedSteps
  <2> QED BY <1>2, <1>7, <2>1, <2>2, <2>3
<1>16. CASE FetchRefused(r) \/ WakeUp(r)
  <2>1. CleanRec(run[r]) /\ Executing(r) /\ UNCHANGED repoVars
        /\ \/ Becomes(r, Ended)
           \/ Becomes(r, Failed(r))
           \/ Becomes(r, Goto(r, "fetch-extract-persist")) /\ run[r].st # "zombie"
    BY <1>3, <1>16 DEF FetchRefused, WakeUp, At, LockedSteps
  <2>2. ClaimsOnly(run[r], Goto(r, "fetch-extract-persist"))
    <3>1. /\ Goto(r, "fetch-extract-persist").pc = "fetch-extract-persist"
          /\ Goto(r, "fetch-extract-persist").repo = run[r].repo
      BY <1>1, GotoRecord DEF Steps, LockedSteps
    <3> QED BY <2>1, <3>1 DEF ClaimsOnly, HeadRec, NoOpRec
  <2> QED BY <1>2, <1>4, <2>1, <2>2, FailedClaimsOnly, EndedClaimsOnly DEF Goes
<1>17. CASE RateLimited(r)
  <2> DEFINE x == [Goto(r, "sleep") EXCEPT !.sleeps = @ + 1]
  <2>1. CleanRec(run[r]) /\ Executing(r) /\ UNCHANGED repoVars
        /\ (Reply(r, "fetch-extract-persist", x) \/ Reply(r, "fetch-extract-persist", Failed(r)))
    BY <1>3, <1>17 DEF RateLimited, At, LockedSteps
  <2>2. x.st = Goto(r, "sleep").st /\ x.pc = Goto(r, "sleep").pc /\ x.repo = Goto(r, "sleep").repo
        /\ "sleep" \in Steps
    BY <1>1 DEF Goto, RunStates, Steps, LockedSteps
  <2> HIDE DEF x
  <2> QED BY <1>2, <1>6, <1>7, <2>1, <2>2
<1>18. CASE PersistBegins(r)
  <2>1. Executing(r) /\ run[r].pc = "fetch-extract-persist" /\ p \in Repos /\ OwnsRec(run[r])
    BY <1>1, <1>18 DEF PersistBegins, At, Executing, OwnsRec, LockedSteps
  <2>2. \A q \in Runs \ {r} : ~(OwnsRec(run[q]) /\ run[q].repo = p)
    BY <2>1, OthersElsewhere
  <2>3. Persisting(p) = {}
    BY <2>1, <2>2 DEF Persisting, Of, At, Executing, OwnsRec, LockedSteps
  <2> DEFINE x == [run[r] EXCEPT !.pc = "persisting", !.alone = TRUE]
  <2>4. run'[r] = x /\ \A q \in Runs \ {r} : run'[q] = run[q]
    BY <1>18, <2>3 DEF PersistBegins
  <2>5. x.st = run[r].st /\ x.pc = "persisting" /\ x.repo = p
    BY <1>1 DEF RunStates
  <2>6. /\ UNCHANGED <<indexStatus, indexedCommitSha>>
        /\ \A d \in Repos \ {p} : contents'[d] = contents[d]
    BY <1>1, <1>18 DEF PersistBegins, TypeShape, TypeOK
  <2>7. indexStatus[p] = "INDEXING"
    BY <1>1, <2>1, OwnersAreLocked
  <2> HIDE DEF x
  <2>8. Claims(x, contents'[p], indexedCommitSha'[p])
    BY <2>1, <2>5 DEF Claims, CleanRec, MidRec, HeadRec, NoOpRec, Executing
  <2> QED BY <1>1, <2>1, <2>2, <2>4, <2>5, <2>6, <2>7, <2>8, ClaimsOfOthers DEF Done
<1>19. CASE PersistEnds(r)
  <2> DEFINE x == [Goto(r, "record-persist-progress") EXCEPT !.alone = TRUE]
  <2>1. Executing(r) /\ p \in Repos /\ OwnsRec(run[r])
    BY <1>1, <1>19 DEF PersistEnds, At, Executing, OwnsRec, LockedSteps
  <2>2. run'[r] \in {x, Ended} /\ \A q \in Runs \ {r} : run'[q] = run[q]
    BY <1>4, <1>19 DEF PersistEnds, Reply, RebuildsComplete
  <2>3. x.st = run[r].st /\ x.pc = "record-persist-progress" /\ x.repo = p
    BY <1>1 DEF Goto, RunStates
  <2>4. /\ UNCHANGED <<indexStatus, indexedCommitSha>>
        /\ \A d \in Repos \ {p} : contents'[d] = contents[d]
    BY <1>1, <1>19 DEF PersistEnds, TypeShape, TypeOK
  <2>5. indexStatus[p] = "INDEXING" /\ \A q \in Runs \ {r} : OwnsRec(run[q]) => run[q].repo # p
    BY <1>1, <2>1, OwnersAreLocked, OthersElsewhere
  <2> HIDE DEF x
  <2>6. Claims(run'[r], contents'[p], indexedCommitSha'[p])
    BY <2>1, <2>2, <2>3, FreshRecords DEF Claims, CleanRec, MidRec, HeadRec, NoOpRec, Executing
  <2> QED BY <1>1, <2>1, <2>2, <2>3, <2>4, <2>5, <2>6, ClaimsOfOthers DEF Done
<1>20. CASE RecordPersistProgress(r)
  <2> DEFINE x == Goto(r, "mark-repository-indexed")
  <2>1. Executing(r) /\ UNCHANGED repoVars /\ run'[r] \in {x, Ended} /\ \A q \in Runs \ {r} : run'[q] = run[q]
    BY <1>4, <1>20 DEF RecordPersistProgress, At, Reply, RebuildsComplete
  <2>2. x.st = run[r].st /\ x.pc = "mark-repository-indexed"
    BY <1>1, GotoRecord DEF Steps, LockedSteps
  <2> HIDE DEF x
  <2>3. ClaimsOnly(run[r], x)
    BY <2>1, <2>2 DEF ClaimsOnly, CleanRec, MidRec, HeadRec, NoOpRec, Executing
  <2> QED BY <1>2, <2>1, <2>3, EndedClaimsOnly DEF Goes
<1>21. CASE MarkIndexed(r)
  <2> DEFINE x == Goto(r, "mark-job-succeeded")
  <2>1. Executing(r) /\ run[r].pc = "mark-repository-indexed" /\ p \in Repos /\ OwnsRec(run[r])
    BY <1>1, <1>21 DEF MarkIndexed, At, Executing, OwnsRec, LockedSteps
  <2>2. run'[r] \in {x, Ended} /\ \A q \in Runs \ {r} : run'[q] = run[q]
    BY <1>4, <1>21 DEF MarkIndexed, Reply, RebuildsComplete
  <2>3. x.pc = "mark-job-succeeded" /\ x.st = run[r].st /\ x.repo = p
    BY <1>1, GotoRecord DEF Steps, ReleasedSteps
  <2>4. contents[p] = run[r].sha
    BY <2>1 DEF IInv, ContentsInv
  <2>5. /\ indexedCommitSha'[p] = run[r].sha /\ UNCHANGED contents
        /\ \A d \in Repos \ {p} : indexStatus'[d] = indexStatus[d] /\ indexedCommitSha'[d] = indexedCommitSha[d]
    BY <1>1, <1>21, <2>1 DEF MarkIndexed, TypeShape, TypeOK
  <2> HIDE DEF x
  <2>6. Claims(run'[r], contents'[p], indexedCommitSha'[p])
    BY <2>4, <2>5, <2>2, <2>3, FreshRecords DEF Claims, CleanRec, HeadRec, NoOpRec, Ended, Unused
  <2> QED BY <1>1, <2>1, <2>2, <2>3, <2>4, <2>5, <2>6, OthersElsewhere, ClaimsOfOthers DEF Done
<1>22. CASE MarkJobSucceeded(r) \/ EmitRepositoryIndexed(r)
  <2> DEFINE x == Goto(r, "emit-repository-indexed")
  <2>1. Executing(r) /\ UNCHANGED repoVars /\ run'[r] \in {x, Ended} /\ \A q \in Runs \ {r} : run'[q] = run[q]
    BY <1>4, <1>22 DEF MarkJobSucceeded, EmitRepositoryIndexed, At, Reply, RebuildsComplete,
                       LockStepsReliable, ReleasedSteps
  <2>2. x.st = run[r].st /\ x.pc = "emit-repository-indexed"
    BY <1>1, GotoRecord DEF Steps, ReleasedSteps
  <2> HIDE DEF x
  <2>3. ClaimsOnly(run[r], x)
    BY <2>1, <2>2 DEF ClaimsOnly, CleanRec, OwnsRec, LockedSteps, HeadRec, NoOpRec, Executing
  <2> QED BY <1>2, <2>1, <2>3, EndedClaimsOnly DEF Goes
<1>23. CASE MarkFailed(r)
  <2> DEFINE x == Goto(r, "find-job-for-failure")
  <2>1. run[r].st = "failing" /\ run[r].pc = "mark-repository-failed" /\ p \in Repos /\ CleanRec(run[r])
    BY <1>1, <1>23 DEF MarkFailed, FailingAt, CleanRec, MidRec, OwnsRec
  <2>2. run'[r] = x /\ \A q \in Runs \ {r} : run'[q] = run[q]
    BY <1>4, <1>23, <2>1 DEF MarkFailed, Reply, RebuildsComplete, LockStepsReliable
  <2>3. x.pc = "find-job-for-failure" /\ x.st = "failing" /\ x.repo = p
    BY <1>1, <2>1, GotoRecord DEF Steps, FailureSteps
  <2>4. contents[p] = indexedCommitSha[p]
    BY <2>1 DEF NoOpInv, Claims
  <2>5. UNCHANGED <<contents, indexedCommitSha>> /\ \A d \in Repos \ {p} : indexStatus'[d] = indexStatus[d]
    BY <1>1, <1>23 DEF MarkFailed, TypeShape, TypeOK
  <2> HIDE DEF x
  <2>6. Claims(x, contents'[p], indexedCommitSha'[p])
    BY <2>4, <2>5, <2>3 DEF Claims, HeadRec, NoOpRec
  <2> QED BY <1>1, <2>1, <2>2, <2>3, <2>4, <2>5, <2>6, OthersElsewhere, ClaimsOfOthers DEF Done, CleanRec
<1>24. ASSUME run[r].st = "failing", run[r].pc \in {"find-job-for-failure", "mark-job-failed"},
              NEW s, NEW next, Reply(r, s, next), UNCHANGED repoVars,
              next.st \in {"failing", "ended"}, next.pc # "mark-repository-failed"
       PROVE  Goes
  <2>1. ClaimsOnly(run[r], next)
    BY <1>24 DEF ClaimsOnly, CleanRec, OwnsRec, HeadRec, NoOpRec
  <2> QED BY <1>1, <1>24, <2>1, ReplyClaimsOnly DEF Goes
<1>25. CASE FindJobForFailure(r)
  <2>1. run[r].st = "failing" /\ run[r].pc = "find-job-for-failure" /\ UNCHANGED repoVars
    BY <1>25 DEF FindJobForFailure, FailingAt
  <2>2. Ended.st = "ended" /\ Ended.pc = "acquire-lock"
    BY DEF Ended, Unused
  <2>3. ASSUME NEW j, Reply(r, "find-job-for-failure", [Goto(r, "mark-job-failed") EXCEPT !.job = j])
        PROVE  Goes
    <3> DEFINE x == [Goto(r, "mark-job-failed") EXCEPT !.job = j]
    <3>1. x.st = "failing" /\ x.pc = "mark-job-failed" /\ Reply(r, "find-job-for-failure", x)
      BY <1>1, <2>1, <2>3 DEF Goto, RunStates
    <3> HIDE DEF x
    <3> QED BY <1>24, <2>1, <3>1
  <2>4. Reply(r, "find-job-for-failure", Ended) => Goes
    BY <1>24, <2>1, <2>2
  <2> QED BY <1>2, <1>25, <2>3, <2>4 DEF FindJobForFailure
<1>26. CASE MarkJobFailed(r)
  <2>1. run[r].st = "failing" /\ run[r].pc = "mark-job-failed" /\ UNCHANGED repoVars
        /\ Reply(r, "mark-job-failed", Ended)
    BY <1>26 DEF MarkJobFailed, FailingAt
  <2>2. Ended.st = "ended" /\ Ended.pc = "acquire-lock"
    BY DEF Ended, Unused
  <2> QED BY <1>2, <1>24, <2>1, <2>2
<1>27. CASE StepThrows(r)
  <2>1. /\ Executing(r) \/ run[r].st = "failing"
        /\ Becomes(r, Retried(r)) /\ UNCHANGED repoVars
        /\ run[r].pc \in Faulty \cup Throwing /\ run[r].pc # "persisting"
    BY <1>27 DEF StepThrows, RebuildsComplete
  <2>2. run[r].st = "active" =>
          run[r].pc \in LockedSteps \ {"persisting", "record-persist-progress", "mark-repository-indexed"}
    BY <1>1, <2>1 DEF ShapeOf, RunStates, Steps, RebuildsComplete, LockStepsReliable
  <2> QED BY <1>2, <1>3, <1>5, <2>1, <2>2 DEF Executing
<1> QED BY <1>8, <1>9, <1>10, <1>11, <1>12, <1>13, <1>14, <1>15, <1>16, <1>17, <1>18, <1>19, <1>20,
           <1>21, <1>22, <1>23, <1>25, <1>26, <1>27 DEF RunStep

(* A run reports "already indexed" only if the rows of that commit are     *)
(* complete, as long as a rebuild that began is completed and published.   *)
THEOREM NoOpsAreComplete ==
  ASSUME RebuildsComplete
  PROVE  Spec => []NoOpOnlyWhenComplete
<1>1. Init => NoOpInv
  BY DEF Init, NoOpInv, Claims, CleanRec, HeadRec, NoOpRec, OwnsRec, Unused
<1>2. IInv /\ NoOpInv /\ [Next]_vars => NoOpInv'
  <2> SUFFICES ASSUME IInv, NoOpInv, [Next]_vars PROVE NoOpInv'
    OBVIOUS
  <2>1. TypeShape
    BY DEF IInv, TypeShape
  <2>2. ASSUME NEW p \in Repos, NEW preset, Enqueue(p, preset)
        PROVE  \A q \in Runs : ClaimsOnly(run[q], run'[q])
    <3> DEFINE x == [Unused EXCEPT !.st = "queued", !.repo = p, !.preset = preset]
    <3>1. PICK r \in Runs : Becomes(r, x)
      BY <2>2 DEF Enqueue
    <3>2. x.st = "queued"
      BY DEF Unused
    <3> HIDE DEF x
    <3>3. ClaimsOnly(run[r], x)
      BY <3>2 DEF ClaimsOnly, CleanRec, HeadRec, NoOpRec, OwnsRec
    <3> QED BY <2>1, <3>1, <3>3, BecomesOnly, EndedClaimsOnly
  <2>3. ASSUME NEW p \in Repos, ConnectRepository(p) \/ TriggerIndex(p) \/ SweepStale(p) PROVE NoOpInv'
    <3>1. \A q \in Runs : ClaimsOnly(run[q], run'[q])
      BY <2>2, <2>3, EndedClaimsOnly DEF ConnectRepository, TriggerIndex, SweepStale
    <3>2. /\ UNCHANGED <<contents, indexedCommitSha>>
          /\ \A d \in Repos : indexStatus[d] = "INDEXING" => indexStatus'[d] = "INDEXING"
      BY <2>1, <2>3 DEF ConnectRepository, TriggerIndex, SweepStale, repoVars, TypeShape, TypeOK
    <3> QED BY <3>1, <3>2, ClaimsOnlyKeep
  <2>4. ASSUME NEW q \in Runs, NEW inFlight PROVE ClaimsOnly(run[q], Cancelled(q, inFlight))
    <3> DEFINE x == [run[q] EXCEPT !.st = "zombie"]
    <3>1. /\ x.st = "zombie" /\ x.pc = run[q].pc /\ x.repo = run[q].repo /\ x.sha = run[q].sha
          /\ x.indexed = run[q].indexed
      BY <2>1, RunTyped DEF RunStates
    <3>2. run[q].st = "queued" => run[q].pc = "acquire-lock"
      BY <2>1, RunTyped DEF ShapeOf
    <3> HIDE DEF x
    <3>3. run[q].st \in {"queued", "active"} => ClaimsOnly(run[q], x)
      BY <3>1, <3>2 DEF ClaimsOnly, CleanRec, MidRec, HeadRec, NoOpRec, OwnsRec, LockedSteps
    <3> QED BY <3>3, EndedClaimsOnly DEF Cancelled, x
  <2>5. ASSUME NEW j \in Projects, CancelRuns(j) PROVE NoOpInv'
    BY <2>4, <2>5, EndedClaimsOnly, ClaimsOnlyKeep DEF CancelRuns, repoVars
  <2>6. ASSUME NEW r \in Runs, TimeOut(r) PROVE NoOpInv'
    BY <2>1, <2>4, <2>6, BecomesOnly, EndedClaimsOnly, ClaimsOnlyKeep DEF TimeOut, repoVars
  <2>7. CASE (\E j \in Projects : DeleteProject(j)) \/ GithubChanges \/ UNCHANGED vars
    BY <2>7, EndedClaimsOnly, ClaimsOnlyKeep DEF DeleteProject, GithubChanges, repoVars, vars
  <2>8. ASSUME NEW r \in Runs, RunStep(r) PROVE NoOpInv'
    BY <2>8, RunStepClaimsOnly
  <2> QED BY <2>3, <2>5, <2>6, <2>7, <2>8 DEF Next
<1>3. IInv /\ NoOpInv => NoOpOnlyWhenComplete
  BY DEF NoOpInv, Claims, NoOpRec, CleanRec, MidRec, OwnsRec, LockedSteps, NoOpOnlyWhenComplete, At, Executing
<1> QED BY <1>1, <1>2, <1>3, IInvCorrect, PTL DEF Spec, RebuildsComplete
-----------------------------------------------------------------------------
(***************************************************************************)
(* The indexing server.  A step of a run changes what is served of a       *)
(* repository only if it moves its row, or its latest job, or the run of   *)
(* that job; everything else leaves the latest job latest and as it was.   *)
(***************************************************************************)

(* A run that has ended has settled its jobs, and a repository with jobs   *)
(* has a latest one.                                                       *)
ServeInv ==
  /\ \A j \in DOMAIN jobs : run[jobs[j].run].st = "ended" => jobs[j].status # "RUNNING"
  /\ \A p \in Repos : HasJob(p) => \E j \in DOMAIN jobs : IsLatest(p, j)

ResultOf(x, status) ==
  IF OwnsRec(x) THEN "RUNNING"
  ELSE IF Succeeding(x) THEN "SUCCEEDED"
  ELSE IF Failing(x) THEN "FAILED" ELSE status

(* What is served of p, in terms of its latest job j.                      *)
Serves(p, j) ==
  /\ HasJob(p)
  /\ JobServed(p) = jobs[j].status
  /\ RowResult(p) = ResultOf(run[jobs[j].run], jobs[j].status)

LatestJobsServe ==
  /\ \A p \in Repos : \A j \in DOMAIN jobs : IsLatest(p, j) => Serves(p, j)
  /\ \A p \in Repos : ~HasJob(p) => JobServed(p) = "none" /\ RowResult(p) = "none"

LEMMA LatestServes == IInv /\ JobInv => LatestJobsServe
<1> SUFFICES ASSUME IInv, JobInv PROVE LatestJobsServe
  OBVIOUS
<1>1. ASSUME NEW p \in Repos, NEW j \in DOMAIN jobs, IsLatest(p, j) PROVE Serves(p, j)
  <2>1. HasJob(p) /\ DOMAIN jobs \subseteq Nat
    BY <1>1 DEF HasJob, IsLatest, IInv, TypeOK
  <2>2. LatestJob(p) = j
    <3>1. \A k \in DOMAIN jobs :
            (jobs[k].repo = p /\ \A i \in DOMAIN jobs : jobs[i].repo = p => i <= k) <=> k = j
      BY <1>1, <2>1 DEF IsLatest
    <3> QED BY <3>1 DEF LatestJob
  <2> DEFINE r == jobs[j].run
  <2>3. r \in Runs
    <3>1. jobs[j] \in JobRows
      BY DEF IInv, TypeOK
    <3> QED BY <3>1 DEF JobRows
  <2>4. /\ run[r].st # "zombie" /\ (Owns(r) <=> OwnsRec(run[r]))
        /\ run[r].st = "failing" => run[r].pc \in FailureSteps
    BY <2>3, ClaimsOfRuns, RunTyped DEF JobInv, JobShape, IInv, TypeShape, ShapeOf
  <2>5. /\ At(r, "mark-job-succeeded") <=> Succeeding(run[r])
        /\ ~OwnsRec(run[r]) => (run[r].st = "failing" <=> Failing(run[r]))
    BY <2>4 DEF At, Executing, Succeeding, Failing, OwnsRec, FailureSteps
  <2> QED BY <2>1, <2>2, <2>4, <2>5 DEF Serves, JobServed, RowResult, ResultOf
<1>2. ASSUME NEW p \in Repos, ~HasJob(p) PROVE JobServed(p) = "none" /\ RowResult(p) = "none"
  BY <1>2 DEF JobServed, RowResult
<1> QED BY <1>1, <1>2 DEF LatestJobsServe

(* The run of a job of p knows that it is its job.                         *)
LEMMA RunOfJob ==
  ASSUME IInv, JobInv, NEW j \in DOMAIN jobs
  PROVE  LET x == run[jobs[j].run] IN
         /\ jobs[j].run \in Runs /\ ~Jobless(x) /\ x.st \in {"active", "failing", "ended"}
         /\ x.st # "ended" => x.repo = jobs[j].repo
         /\ x.st = "active" => x.job = j
<1> DEFINE r == jobs[j].run
<1>1. r \in Runs
  <2>1. jobs[j] \in JobRows
    BY DEF IInv, TypeOK
  <2> QED BY <2>1 DEF JobRows
<1>2. JobShape(r) /\ run[r] \in RunStates /\ ShapeOf(run[r], DOMAIN jobs)
  BY <1>1, RunTyped DEF JobInv, IInv, TypeShape
<1>3. ~Jobless(run[r]) /\ run[r].st \in {"active", "failing", "ended"}
  BY <1>2 DEF JobShape, RunStates, Jobless
<1>4. run[r].st = "active" => run[r].job = j
  BY <1>1, <1>2, <1>3 DEF JobShape, ShapeOf, Jobless, JobInv
<1> QED BY <1>1, <1>2, <1>3, <1>4 DEF JobShape

(* A status served as RUNNING is that of a run that has not settled it.    *)
LEMMA ResultsOfJobs ==
  ASSUME IInv, JobInv, ServeInv, NEW j \in DOMAIN jobs, ~OwnsRec(run[jobs[j].run])
  PROVE  ResultOf(run[jobs[j].run], jobs[j].status) # "RUNNING"
<1> DEFINE r == jobs[j].run
<1>1. r \in Runs /\ ~Jobless(run[r]) /\ run[r].st \in {"active", "failing", "ended"}
  BY RunOfJob
<1>2. JobShape(r) /\ run[r] \in RunStates /\ ShapeOf(run[r], DOMAIN jobs)
  BY <1>1, RunTyped DEF JobInv, IInv, TypeShape
<1>3. CASE run[r].st = "ended"
  BY <1>3 DEF ServeInv, ResultOf, Succeeding, Failing
<1>4. CASE run[r].st = "failing"
  BY <1>2, <1>4 DEF ResultOf, Succeeding, Failing, OwnsRec, ShapeOf, FailureSteps
<1>5. CASE run[r].st = "active"
  <2>1. run[r].pc \in ReleasedSteps /\ run[r].job = j
    BY <1>1, <1>2, <1>5, RunOfJob DEF OwnsRec, ShapeOf, RunStates, Steps, Jobless
  <2> QED BY <1>1, <1>2, <1>5, <2>1 DEF ResultOf, Succeeding, Failing, ReleasedSteps, JobShape
<1> QED BY <1>1, <1>3, <1>4, <1>5

LatestSame(p, r) ==
  /\ \A j \in DOMAIN jobs' \ DOMAIN jobs : jobs'[j].repo # p
  /\ \A j \in DOMAIN jobs : IsLatest(p, j) /\ jobs[j].run = r =>
       /\ jobs'[j].status = jobs[j].status
       /\ ResultOf(run'[r], jobs[j].status) = ResultOf(run[r], jobs[j].status)

LEMMA ServedAsBefore ==
  ASSUME IInv, JobInv, ServeInv, LatestJobsServe, LatestJobsServe', NEW r \in Runs,
         OnlyMoves(r), NEW p \in Repos, LatestSame(p, r)
  PROVE  JobServed(p)' = JobServed(p) /\ RowResult(p)' = RowResult(p)
<1>1. CASE ~HasJob(p)
  <2>1. ~HasJob(p)'
    BY <1>1 DEF HasJob, OnlyMoves, LatestSame
  <2> QED BY <1>1, <2>1 DEF LatestJobsServe
<1>2. CASE HasJob(p)
  <2>1. PICK j \in DOMAIN jobs : IsLatest(p, j)
    BY <1>2 DEF ServeInv
  <2>2. j \in DOMAIN jobs' /\ IsLatest(p, j)'
    BY <2>1 DEF IsLatest, OnlyMoves, LatestSame
  <2>3. Serves(p, j) /\ Serves(p, j)'
    BY <2>1, <2>2 DEF LatestJobsServe
  <2>4. jobs[j].run \in Runs /\ jobs'[j].run = jobs[j].run
    BY RunOfJob DEF OnlyMoves
  <2>5. CASE jobs[j].run = r
    BY <2>1, <2>3, <2>4, <2>5 DEF Serves, LatestSame
  <2>6. CASE jobs[j].run # r
    BY <2>3, <2>4, <2>6 DEF Serves, OnlyMoves, SameJob
  <2> QED BY <2>5, <2>6
<1> QED BY <1>1, <1>2

ServeAll == IInv /\ JobInv /\ ServeInv /\ LatestJobsServe

ServedOf(p) == Server(p)!ServerNext \/ UNCHANGED Server(p)!serverVars

LEMMA OtherRepositoriesServed ==
  ASSUME ServeAll, LatestJobsServe', NEW r \in Runs, RunMoves(r), OnlyMoves(r),
         NEW p \in Repos, p # run[r].repo
  PROVE  ServedOf(p)
<1>1. run[r].st \notin {"unused", "ended"} /\ indexStatus'[p] = indexStatus[p]
  BY DEF RunMoves, IdleMove, AcquireMove, CreateMove, ContinueMove, SettleMove, SettleJobMove,
         Succeeding, ServeAll, IInv, TypeOK
<1>2. \A j \in DOMAIN jobs : jobs[j].run = r => ~IsLatest(p, j)
  BY <1>1, RunOfJob DEF IsLatest, ServeAll
<1>3. LatestSame(p, r)
  BY <1>2 DEF LatestSame, OnlyMoves
<1>4. JobServed(p)' = JobServed(p) /\ RowResult(p)' = RowResult(p)
  BY <1>3, ServedAsBefore DEF ServeAll
<1> QED BY <1>1, <1>4 DEF ServedOf, Server!serverVars

LEMMA IdleServed ==
  ASSUME ServeAll, LatestJobsServe', NEW r \in Runs, IdleMove(r) \/ ContinueMove(r), OnlyMoves(r),
         NEW p \in Repos
  PROVE  ServedOf(p)
<1>1. DOMAIN jobs' = DOMAIN jobs /\ (\A j \in DOMAIN jobs : jobs'[j].status = jobs[j].status)
      /\ UNCHANGED indexStatus
  BY DEF IdleMove, ContinueMove, SameJobs, SameJob
<1>2. ASSUME NEW j \in DOMAIN jobs, jobs[j].run = r
      PROVE  ResultOf(run'[r], jobs[j].status) = ResultOf(run[r], jobs[j].status)
  <2>1. ~Jobless(run[r])
    BY <1>2, RunOfJob DEF ServeAll
  <2>2. CASE ContinueMove(r)
    BY <2>2 DEF ContinueMove, Continues, ResultOf, OwnsRec, IndexSteps
  <2>3. CASE run[r].st = "active" /\ IdleMove(r)
    BY <2>1, <2>3, FreshRecords DEF IdleMove, Jobless, ResultOf, OwnsRec, LockedSteps, Succeeding, Failing
  <2>4. CASE run[r].st = "failing" /\ IdleMove(r)
    BY <2>4 DEF IdleMove, ResultOf, OwnsRec, Succeeding, Failing
  <2> QED BY <2>1, <2>2, <2>3, <2>4 DEF IdleMove, Jobless
<1>3. LatestSame(p, r)
  BY <1>1, <1>2 DEF LatestSame
<1>4. JobServed(p)' = JobServed(p) /\ RowResult(p)' = RowResult(p)
  BY <1>3, ServedAsBefore DEF ServeAll
<1> QED BY <1>1, <1>4 DEF ServedOf, Server!serverVars

LEMMA AcquireServed ==
  ASSUME ServeAll, LatestJobsServe', NEW r \in Runs, AcquireMove(r), OnlyMoves(r),
         NEW p \in Repos, p = run[r].repo
  PROVE  ServedOf(p)
<1>1. DOMAIN jobs' = DOMAIN jobs /\ Jobless(run[r])
  BY DEF AcquireMove, SameJobs, Jobless
<1>2. \A j \in DOMAIN jobs : jobs[j].run # r
  BY <1>1, RunOfJob DEF ServeAll
<1>3. LatestSame(p, r)
  BY <1>1, <1>2 DEF LatestSame
<1>4. JobServed(p)' = JobServed(p) /\ RowResult(p)' = RowResult(p)
  BY <1>3, ServedAsBefore DEF ServeAll
<1>5. indexStatus[p] \in {"PENDING", "FAILED", "INDEXED"} /\ indexStatus'[p] = "INDEXING"
  <2>1. indexStatus[p] # "ABSENT" /\ indexStatus[p] # "INDEXING"
    BY DEF AcquireMove, ServeAll, JobInv, JobShape
  <2> QED BY <2>1 DEF AcquireMove, ServeAll, IInv, TypeOK, IndexStatuses, LOCKABLE_STATUSES
<1> QED BY <1>4, <1>5 DEF ServedOf, Server!ServerNext, Server!AcquireLock

(* The new job is the latest; the last one's run does not hold the lock.   *)
LEMMA CreateServed ==
  ASSUME ServeAll, LatestJobsServe', NEW r \in Runs, CreateMove(r), OnlyMoves(r),
         NEW p \in Repos, p = run[r].repo
  PROVE  ServedOf(p)
<1>1. OwnsRec(run[r]) /\ OwnsRec(run'[r]) /\ Jobless(run[r]) /\ indexStatus[p] = "INDEXING"
      /\ UNCHANGED indexStatus
  <2>1. OwnsRec(run[r]) /\ OwnsRec(run'[r]) /\ Jobless(run[r])
    BY DEF CreateMove, OwnsRec, LockedSteps, Jobless
  <2> QED BY <2>1, OwnersAreLocked DEF ServeAll, IInv, TypeShape, CreateMove
<1>2. RowResult(p) # "RUNNING"
  <2>1. CASE ~HasJob(p)
    BY <2>1 DEF ServeAll, LatestJobsServe
  <2>2. CASE HasJob(p)
    <3>1. PICK j \in DOMAIN jobs : IsLatest(p, j)
      BY <2>2 DEF ServeAll, ServeInv
    <3>2. jobs[j].run \in Runs \ {r} /\ (OwnsRec(run[jobs[j].run]) => run[jobs[j].run].repo = p)
      BY <1>1, <3>1, RunOfJob DEF ServeAll, IsLatest, OwnsRec
    <3>3. ~OwnsRec(run[jobs[j].run])
      BY <1>1, <3>2, OwnersAreLocked DEF ServeAll, IInv, TypeShape
    <3>4. RowResult(p) = ResultOf(run[jobs[j].run], jobs[j].status)
      BY <3>1 DEF ServeAll, LatestJobsServe, Serves
    <3> QED BY <3>3, <3>4, ResultsOfJobs DEF ServeAll
  <2> QED BY <2>1, <2>2
<1>3. JobServed(p)' = "RUNNING" /\ RowResult(p)' = "RUNNING"
  <2>1. PICK row : row.run = r /\ row.repo = p /\ row.status = "RUNNING" /\ jobs' = Append(jobs, row)
    BY DEF CreateMove
  <2>2. PICK n \in Nat : DOMAIN jobs' = 1 .. n /\ jobs'[n] = row /\ n > 0
    BY <2>1 DEF ServeAll, IInv, TypeOK
  <2>3. n \in DOMAIN jobs' /\ \A k \in DOMAIN jobs' : k <= n
    BY <2>2
  <2>4. IsLatest(p, n)'
    BY <2>1, <2>2, <2>3 DEF IsLatest
  <2>5. Serves(p, n)'
    BY <2>3, <2>4 DEF LatestJobsServe
  <2> QED BY <1>1, <2>1, <2>2, <2>5 DEF Serves, ResultOf
<1> QED BY <1>1, <1>2, <1>3 DEF ServedOf, Server!ServerNext, Server!CreateJob

(* The lock's holder has the latest job.                                   *)
LEMMA SettleServed ==
  ASSUME ServeAll, LatestJobsServe', NEW r \in Runs, SettleMove(r), OnlyMoves(r),
         NEW p \in Repos, p = run[r].repo
  PROVE  ServedOf(p)
<1>1. OwnsRec(run[r]) /\ ~OwnsRec(run'[r]) /\ UNCHANGED jobs /\ indexStatus[p] = "INDEXING"
  <2>1. OwnsRec(run[r]) /\ ~OwnsRec(run'[r]) /\ UNCHANGED jobs
    BY DEF SettleMove, OwnsRec, LockedSteps
  <2> QED BY <2>1, OwnersAreLocked DEF ServeAll, IInv, TypeShape
<1>2. PICK j \in DOMAIN jobs : jobs[j].run = r /\ jobs[j].repo = p
  <2>1. JobShape(r) /\ ShapeOf(run[r], DOMAIN jobs)
    BY RunTyped DEF ServeAll, JobInv, IInv, TypeShape
  <2> QED BY <2>1 DEF SettleMove, JobShape, Jobless, ShapeOf
<1>3. IsLatest(p, j)
  BY <1>1, <1>2 DEF ServeAll, JobInv, JobShape, IsLatest
<1>4. IsLatest(p, j)' /\ j \in DOMAIN jobs'
  BY <1>1, <1>3 DEF IsLatest
<1>5. Serves(p, j) /\ Serves(p, j)'
  BY <1>3, <1>4 DEF ServeAll, LatestJobsServe
<1>6. RowResult(p) = "RUNNING" /\ JobServed(p)' = JobServed(p)
  BY <1>1, <1>2, <1>5 DEF Serves, ResultOf
<1>7. CASE run[r].st = "active"
  <2>1. indexStatus'[p] = "INDEXED" /\ RowResult(p)' = "SUCCEEDED"
    BY <1>1, <1>2, <1>5, <1>7 DEF SettleMove, Serves, ResultOf, Succeeding, ServeAll, IInv, TypeOK
  <2> QED BY <1>1, <1>6, <2>1 DEF ServedOf, Server!ServerNext, Server!MarkRepository
<1>8. CASE run[r].st = "failing"
  <2>1. indexStatus'[p] = "FAILED" /\ RowResult(p)' = "FAILED"
    BY <1>1, <1>2, <1>5, <1>8 DEF SettleMove, Serves, ResultOf, Succeeding, Failing, ServeAll, IInv, TypeOK
  <2> QED BY <1>1, <1>6, <2>1 DEF ServedOf, Server!ServerNext, Server!MarkRepository
<1> QED BY <1>7, <1>8 DEF SettleMove

LEMMA SettleJobServed ==
  ASSUME ServeAll, LatestJobsServe', NEW r \in Runs, SettleJobMove(r), OnlyMoves(r),
         NEW p \in Repos, p = run[r].repo
  PROVE  ServedOf(p)
<1>1. PICK i \in DOMAIN jobs :
        i = run[r].job /\ jobs[i].run = r /\ jobs[i].status = "RUNNING"
      /\ DOMAIN jobs' = DOMAIN jobs /\ UNCHANGED indexStatus
  <2>1. JobShape(r) /\ ShapeOf(run[r], DOMAIN jobs)
    BY RunTyped DEF ServeAll, JobInv, IInv, TypeShape
  <2> QED BY <2>1 DEF SettleJobMove, JobShape, Jobless, ShapeOf, Succeeding
<1>2. \A j \in DOMAIN jobs : jobs[j].run = r => j = i
  BY <1>1 DEF ServeAll, JobInv
<1>3. CASE IsLatest(p, i)
  <2>1. i \in DOMAIN jobs' /\ IsLatest(p, i)'
    BY <1>1, <1>3 DEF IsLatest, OnlyMoves
  <2>2. Serves(p, i) /\ Serves(p, i)' /\ jobs'[i].run = r
    BY <1>1, <1>3, <2>1 DEF ServeAll, LatestJobsServe, OnlyMoves
  <2>3. JobServed(p) = "RUNNING" /\ RowResult(p) # "RUNNING"
        /\ JobServed(p)' = RowResult(p) /\ RowResult(p)' = RowResult(p)
    <3>1. CASE Succeeding(run[r])
      BY <1>1, <2>2, <3>1, FreshRecords
         DEF Serves, ResultOf, SettleJobMove, Succeeding, Failing, OwnsRec, LockedSteps
    <3>2. CASE run[r].st = "failing"
      BY <1>1, <2>2, <3>2, FreshRecords
         DEF Serves, ResultOf, SettleJobMove, Succeeding, Failing, OwnsRec
    <3> QED BY <3>1, <3>2 DEF SettleJobMove
  <2> QED BY <1>1, <2>3 DEF ServedOf, Server!ServerNext, Server!MarkJob
<1>4. CASE ~IsLatest(p, i)
  <2>1. LatestSame(p, r)
    BY <1>1, <1>2, <1>4 DEF LatestSame
  <2>2. JobServed(p)' = JobServed(p) /\ RowResult(p)' = RowResult(p)
    BY <2>1, ServedAsBefore DEF ServeAll
  <2> QED BY <1>1, <2>2 DEF ServedOf, Server!serverVars
<1> QED BY <1>3, <1>4

LEMMA MovesKeepServeInv ==
  ASSUME IInv, JobInv, ServeInv, NEW r \in Runs, RunMoves(r), OnlyMoves(r)
  PROVE  ServeInv'
<1>1. JobShape(r) /\ run[r] \in RunStates /\ ShapeOf(run[r], DOMAIN jobs)
  BY RunTyped DEF JobInv, IInv, TypeShape
<1>2. ASSUME NEW j \in DOMAIN jobs', run'[jobs'[j].run].st = "ended"
      PROVE  jobs'[j].status # "RUNNING"
  <2>1. CASE j \notin DOMAIN jobs
    <3>1. jobs'[j].run = r /\ ~IdleMove(r) /\ ~AcquireMove(r) /\ ~ContinueMove(r)
          /\ ~SettleMove(r) /\ ~SettleJobMove(r)
      BY <2>1 DEF OnlyMoves, IdleMove, AcquireMove, ContinueMove, SettleMove, SettleJobMove, SameJobs
    <3> QED BY <1>2, <3>1 DEF RunMoves, CreateMove
  <2>2. CASE j \in DOMAIN jobs /\ jobs[j].run # r
    <3>1. jobs[j].run \in Runs /\ SameJob(j) /\ run'[jobs[j].run] = run[jobs[j].run]
      BY <2>2, RunOfJob DEF OnlyMoves
    <3> QED BY <1>2, <2>2, <3>1 DEF SameJob, ServeInv
  <2>3. CASE j \in DOMAIN jobs /\ jobs[j].run = r
    <3>1. run'[r].st = "ended" /\ ~Jobless(run[r]) /\ (run[r].st = "active" => run[r].job = j)
      BY <1>2, <2>3, RunOfJob DEF OnlyMoves
    <3>2. CASE IdleMove(r)
      <4>1. run[r].st = "active" /\ run[r].pc = "emit-repository-indexed" /\ SameJob(j)
        BY <2>3, <3>1, <3>2 DEF IdleMove, Jobless, SameJobs
      <4> QED BY <1>1, <3>1, <4>1 DEF JobShape, SameJob
    <3>3. CASE SettleJobMove(r)
      <4>1. run[r].st = "failing" /\ run[r].pc = "mark-job-failed"
        BY <3>1, <3>3 DEF SettleJobMove
      <4>2. run[r].job = j
        BY <1>1, <2>3, <4>1 DEF JobShape, ShapeOf, JobInv
      <4> QED BY <3>3, <4>1, <4>2 DEF SettleJobMove, Succeeding
    <3> QED BY <3>1, <3>2, <3>3
            DEF RunMoves, AcquireMove, CreateMove, ContinueMove, SettleMove, Continues
  <2> QED BY <2>1, <2>2, <2>3
<1>3. ASSUME NEW p \in Repos, HasJob(p)' PROVE \E j \in DOMAIN jobs' : IsLatest(p, j)'
  <2>1. CASE \E j \in DOMAIN jobs' \ DOMAIN jobs : jobs'[j].repo = p
    <3>1. CreateMove(r) /\ p = run[r].repo
      BY <2>1 DEF OnlyMoves, RunMoves, IdleMove, AcquireMove, ContinueMove, SettleMove,
                  SettleJobMove, SameJobs
    <3>2. PICK row : row.run = r /\ row.repo = p /\ jobs' = Append(jobs, row)
      BY <3>1 DEF CreateMove
    <3>3. PICK n \in Nat : DOMAIN jobs' = 1 .. n /\ jobs'[n] = row /\ n > 0
      BY <3>2 DEF IInv, TypeOK
    <3>4. n \in DOMAIN jobs' /\ \A k \in DOMAIN jobs' : k <= n
      BY <3>3
    <3>5. IsLatest(p, n)'
      BY <3>2, <3>3, <3>4 DEF IsLatest
    <3> QED BY <3>4, <3>5
  <2>2. CASE \A j \in DOMAIN jobs' \ DOMAIN jobs : jobs'[j].repo # p
    <3>1. PICK j \in DOMAIN jobs : IsLatest(p, j)
      BY <1>3, <2>2 DEF HasJob, OnlyMoves, ServeInv
    <3> QED BY <2>2, <3>1 DEF IsLatest, OnlyMoves
  <2> QED BY <2>1, <2>2
<1> QED BY <1>2, <1>3 DEF ServeInv, IsLatest

(* What happens to no run that ever had a job.                             *)
QuietStep ==
  /\ UNCHANGED jobs
  /\ \A r \in Runs : run'[r] = run[r] \/ run[r].st = "unused"
  /\ \A r \in Runs : run'[r].st = "ended" => run[r].st = "ended"
  /\ \A p \in Repos : \/ indexStatus'[p] = indexStatus[p]
                      \/ indexStatus[p] = "ABSENT" /\ indexStatus'[p] = "PENDING"

LEMMA StepsOfTheServer ==
  ASSUME IInv, JobInv, RunsGoOn, Next
  PROVE  (\E r \in Runs : RunStep(r)) \/ QuietStep
<1>0. TypeShape
  BY DEF IInv, TypeShape
<1>1. ASSUME NEW p, NEW preset, Enqueue(p, preset)
      PROVE  /\ \A r \in Runs : run'[r] = run[r] \/ run[r].st = "unused"
             /\ \A r \in Runs : run'[r].st = "ended" => run[r].st = "ended"
  <2> DEFINE x == [Unused EXCEPT !.st = "queued", !.repo = p, !.preset = preset]
  <2>1. PICK q \in Runs : run[q].st = "unused" /\ Becomes(q, x)
    BY <1>1 DEF Enqueue
  <2>2. x.st = "queued"
    BY DEF Unused
  <2> HIDE DEF x
  <2> QED BY <1>0, <2>1, <2>2, BecomesOnly
<1>2. ASSUME NEW p \in Repos, ConnectRepository(p) PROVE QuietStep
  <2>1. /\ \A d \in Repos : \/ indexStatus'[d] = indexStatus[d]
                            \/ indexStatus[d] = "ABSENT" /\ indexStatus'[d] = "PENDING"
        /\ UNCHANGED jobs
    BY <1>2 DEF ConnectRepository, IInv, TypeOK
  <2> QED BY <1>1, <1>2, <2>1 DEF ConnectRepository, QuietStep
<1>3. ASSUME NEW p \in Repos, TriggerIndex(p) \/ SweepStale(p) PROVE QuietStep
  BY <1>1, <1>3 DEF TriggerIndex, SweepStale, QuietStep, repoVars
<1>4. ASSUME NEW j \in Projects, DeleteProject(j) \/ CancelRuns(j) PROVE FALSE
  BY <1>4 DEF DeleteProject, CancelRuns, RunsGoOn, LockGoesOn, JobInv
<1>5. ASSUME NEW r \in Runs, TimeOut(r) PROVE FALSE
  BY <1>5 DEF TimeOut, RunsGoOn, LockGoesOn
<1>6. GithubChanges => QuietStep
  BY DEF GithubChanges, QuietStep, repoVars
<1> QED BY <1>2, <1>3, <1>4, <1>5, <1>6 DEF Next

LEMMA QuietIsServed ==
  ASSUME ServeAll, LatestJobsServe', QuietStep
  PROVE  ServeInv' /\ \A p \in Repos : ServedOf(p)
<1>1. ASSUME NEW j \in DOMAIN jobs PROVE jobs[j].run \in Runs /\ run'[jobs[j].run] = run[jobs[j].run]
  BY RunOfJob DEF QuietStep, ServeAll
<1>2. ServeInv'
  BY <1>1 DEF QuietStep, ServeAll, ServeInv, HasJob, IsLatest
<1>3. ASSUME NEW p \in Repos PROVE JobServed(p)' = JobServed(p) /\ RowResult(p)' = RowResult(p)
  <2>1. HasJob(p)' <=> HasJob(p)
    BY DEF HasJob, QuietStep
  <2>2. CASE ~HasJob(p)
    BY <2>1, <2>2 DEF ServeAll, LatestJobsServe
  <2>3. CASE HasJob(p)
    <3>1. PICK j \in DOMAIN jobs : IsLatest(p, j)
      BY <2>3 DEF ServeAll, ServeInv
    <3>2. j \in DOMAIN jobs' /\ IsLatest(p, j)'
      BY <3>1 DEF IsLatest, QuietStep
    <3>3. Serves(p, j) /\ Serves(p, j)'
      BY <3>1, <3>2 DEF ServeAll, LatestJobsServe
    <3> QED BY <1>1, <3>3 DEF Serves, QuietStep
  <2> QED BY <2>2, <2>3
<1>4. ASSUME NEW p \in Repos PROVE ServedOf(p)
  BY <1>3 DEF QuietStep, ServedOf, Server!ServerNext, Server!Connect, Server!serverVars
<1> QED BY <1>2, <1>4

LEMMA StepIsServed ==
  ASSUME ServeAll, LatestJobsServe', RunsGoOn, [Next]_vars
  PROVE  ServeInv' /\ \A p \in Repos : ServedOf(p)
<1>1. CASE UNCHANGED vars
  <2>1. QuietStep
    BY <1>1 DEF vars, QuietStep
  <2> QED BY <2>1, QuietIsServed
<1>2. ASSUME NEW r \in Runs, RunStep(r) PROVE ServeInv' /\ \A p \in Repos : ServedOf(p)
  <2>1. RunMoves(r) /\ OnlyMoves(r)
    BY <1>2, RunStepMoves, RunStepKeepsJobs DEF ServeAll, JobsKept
  <2>2. ServeInv'
    BY <2>1, MovesKeepServeInv DEF ServeAll
  <2>3. ASSUME NEW p \in Repos PROVE ServedOf(p)
    BY <2>1, OtherRepositoriesServed, IdleServed, AcquireServed, CreateServed, SettleServed,
       SettleJobServed DEF RunMoves
  <2> QED BY <2>2, <2>3
<1>3. CASE QuietStep
  BY <1>3, QuietIsServed
<1> QED BY <1>1, <1>2, <1>3, StepsOfTheServer DEF ServeAll

(* The row and the latest job of each repository behave as the server that *)
(* the status poller is checked against: whatever else runs, a job tells   *)
(* what its own run made of the row, once, and after it did.               *)
THEOREM LifecycleImplementsServer ==
  ASSUME RunsGoOn
  PROVE  Spec => ImplementsIndexingServer
<1>1. Init => ServeInv
  BY DEF Init, ServeInv, HasJob
<1>2. Init => \A p \in Repos : Server(p)!ServerInit
  BY DEF Init, Server!ServerInit, JobServed, RowResult, HasJob
<1>3. IInv /\ JobInv /\ ServeInv /\ LatestJobsServe /\ LatestJobsServe' /\ [Next]_vars =>
        ServeInv' /\ \A p \in Repos : ServedOf(p)
  BY StepIsServed DEF ServeAll
<1>4. IInv /\ JobInv /\ ServeInv /\ LatestJobsServe /\ LatestJobsServe' /\ [Next]_vars =>
        [\A p \in Repos : Server(p)!ServerNext \/ UNCHANGED Server(p)!serverVars]_vars
  BY <1>3 DEF ServedOf
<1>5. Spec => [](IInv /\ JobInv)
  BY JobInvCorrect
<1> QED BY <1>1, <1>2, <1>3, <1>4, <1>5, LatestServes, PTL DEF Spec, ImplementsIndexingServer
-----------------------------------------------------------------------------
(***************************************************************************)
(* Runs wind down.  The fuel of a run is a natural number with four        *)
(* digits, each a budget of the handler: how far the run is from its end,  *)
(* the rate-limit waits left, the steps left, the attempts left; the last  *)
(* bit tells a rebuild that began from one that is about to.               *)
(***************************************************************************)

Rank(x) ==
  CASE x.st = "unused" -> 5 [] x.st = "queued" -> 4 [] x.st = "active" -> 3
    [] x.st = "zombie" -> 2 [] x.st = "failing" -> 1 [] OTHER -> 0

Stage(x) ==
  CASE x.pc = "acquire-lock" -> 13 [] x.pc = "create-index-job" -> 12
    [] x.pc = "resolve-target" -> 11 [] x.pc = "resolve-head-sha" -> 10
    [] x.pc \in {"transient-throw", "mark-noop-succeeded", "record-target-sha"} -> 9
    [] x.pc = "sleep" -> 8 [] x.pc \in {"fetch-extract-persist", "persisting"} -> 7
    [] x.pc = "record-persist-progress" -> 6 [] x.pc = "mark-repository-indexed" -> 5
    [] x.pc = "mark-job-succeeded" -> 4 [] x.pc = "emit-repository-indexed" -> 3
    [] x.pc = "mark-repository-failed" -> 2 [] x.pc = "find-job-for-failure" -> 1
    [] OTHER -> 0

WaitsLeft(x) == Rank(x) * (MAX_RATE_LIMIT_SLEEPS + 1) + (MAX_RATE_LIMIT_SLEEPS - x.sleeps)
StepsLeft(x) == WaitsLeft(x) * 14 + Stage(x)
TriesLeft(x) == StepsLeft(x) * (MAX_RETRIES + 1) + (MAX_RETRIES - x.tries)
Fuel(x) == TriesLeft(x) * 2 + (IF x.pc = "persisting" THEN 0 ELSE 1)

(* A run waits and retries no more often than it may.                      *)
WithinBounds(x) == x \in RunStates /\ x.sleeps <= MAX_RATE_LIMIT_SLEEPS /\ x.tries <= MAX_RETRIES

(* Every step a run takes uses up fuel, and nothing refuels a run, with    *)
(* every step failing, runs cancelled, and GitHub down: a run takes at     *)
(* most Fuel(Unused) steps, whichever steps of other runs lie between.     *)
RunsWindDown ==
  [][\A r \in Runs :
       /\ Fuel(run[r]) \in Nat /\ Fuel(run'[r]) <= Fuel(run[r])
       /\ RunStep(r) => Fuel(run'[r]) < Fuel(run[r])]_vars

LEMMA Digits ==
  ASSUME NEW m \in Nat, NEW a \in Nat, NEW b \in 0..m, NEW c \in Nat, NEW d \in 0..m
  PROVE  /\ a * (m + 1) + b \in Nat
         /\ c < a => c * (m + 1) + d < a * (m + 1) + b
<1>1. a * (m + 1) \in Nat /\ c * (m + 1) \in Nat
  OBVIOUS
<1>2. ASSUME c < a PROVE c * (m + 1) + d < a * (m + 1) + b
  <2> DEFINE e == a - (c + 1)
  <2>1. e \in Nat /\ a = c + 1 + e
    BY <1>2
  <2>2. e * (m + 1) \in Nat
    BY <2>1
  <2> HIDE DEF e
  <2>3. a * (m + 1) = c * (m + 1) + (m + 1) + e * (m + 1)
    BY <2>1
  <2> QED BY <1>1, <2>2, <2>3
<1> QED BY <1>1, <1>2

(* What uses up fuel: the most significant digit that changes goes down.   *)
Same(y, x) == y.st = x.st /\ y.sleeps = x.sleeps /\ y.pc = x.pc /\ y.tries = x.tries

Lower(y, x) ==
  \/ Rank(y) < Rank(x)
  \/ y.st = x.st /\ y.sleeps > x.sleeps
  \/ y.st = x.st /\ y.sleeps = x.sleeps /\ Stage(y) < Stage(x)
  \/ y.st = x.st /\ y.sleeps = x.sleeps /\ Stage(y) = Stage(x) /\ y.tries > x.tries
  \/ /\ y.st = x.st /\ y.sleeps = x.sleeps /\ y.tries = x.tries
     /\ x.pc = "fetch-extract-persist" /\ y.pc = "persisting"

LEMMA DigitsInRange ==
  ASSUME NEW x, WithinBounds(x)
  PROVE  /\ Rank(x) \in Nat /\ Stage(x) \in 0..13
         /\ MAX_RATE_LIMIT_SLEEPS - x.sleeps \in 0..MAX_RATE_LIMIT_SLEEPS
         /\ MAX_RETRIES - x.tries \in 0..MAX_RETRIES
<1>1. x.sleeps \in Nat /\ x.tries \in Nat
  BY DEF WithinBounds, RunStates
<1> QED BY <1>1, ConstantsAssumption DEF WithinBounds, Rank, Stage

LEMMA FuelDrops ==
  ASSUME NEW x, NEW y, WithinBounds(x), WithinBounds(y), Lower(y, x) \/ Same(y, x)
  PROVE  Fuel(x) \in Nat /\ Fuel(y) <= Fuel(x) /\ (Lower(y, x) => Fuel(y) < Fuel(x))
<1> DEFINE last(z) == IF z.pc = "persisting" THEN 0 ELSE 1
<1>1. MAX_RATE_LIMIT_SLEEPS \in Nat /\ MAX_RETRIES \in Nat
  BY ConstantsAssumption
<1>2. ASSUME NEW z, WithinBounds(z)
      PROVE  WaitsLeft(z) \in Nat /\ StepsLeft(z) \in Nat /\ TriesLeft(z) \in Nat /\ Fuel(z) \in Nat
  <2>1. WaitsLeft(z) \in Nat
    BY <1>1, <1>2, DigitsInRange, Digits DEF WaitsLeft
  <2>2. StepsLeft(z) \in Nat
    BY <1>2, <2>1, DigitsInRange DEF StepsLeft
  <2>3. TriesLeft(z) \in Nat
    BY <1>1, <1>2, <2>2, DigitsInRange, Digits DEF TriesLeft
  <2>4. Fuel(z) \in Nat
    BY <2>3 DEF Fuel
  <2> QED BY <2>1, <2>2, <2>3, <2>4
<1>3. TriesLeft(y) < TriesLeft(x) => Fuel(y) < Fuel(x)
  BY <1>2 DEF Fuel
<1>4. StepsLeft(y) < StepsLeft(x) => TriesLeft(y) < TriesLeft(x)
  BY <1>1, <1>2, DigitsInRange, Digits DEF TriesLeft
<1>5. WaitsLeft(y) < WaitsLeft(x) => StepsLeft(y) < StepsLeft(x)
  BY <1>2, DigitsInRange DEF StepsLeft
<1>6. Rank(y) < Rank(x) => WaitsLeft(y) < WaitsLeft(x)
  BY <1>1, DigitsInRange, Digits DEF WaitsLeft
<1>7. y.st = x.st => Rank(y) = Rank(x)
  BY DEF Rank
<1>8. x.sleeps \in Nat /\ y.sleeps \in Nat /\ x.tries \in Nat /\ y.tries \in Nat
  BY DEF WithinBounds, RunStates
<1>9. CASE Rank(y) < Rank(x)
  BY <1>2, <1>3, <1>4, <1>5, <1>6, <1>9
<1>10. CASE y.st = x.st /\ y.sleeps > x.sleeps
  <2>1. MAX_RATE_LIMIT_SLEEPS - y.sleeps < MAX_RATE_LIMIT_SLEEPS - x.sleeps
    BY <1>1, <1>8, <1>10
  <2> DEFINE k == Rank(x) * (MAX_RATE_LIMIT_SLEEPS + 1)
             u == MAX_RATE_LIMIT_SLEEPS - x.sleeps
             v == MAX_RATE_LIMIT_SLEEPS - y.sleeps
  <2>2. k \in Nat /\ u \in Nat /\ v \in Nat
    BY <1>1, DigitsInRange
  <2>3. WaitsLeft(x) = k + u /\ WaitsLeft(y) = k + v /\ v < u
    BY <1>7, <1>10, <2>1 DEF WaitsLeft
  <2> HIDE DEF k, u, v
  <2>4. WaitsLeft(y) < WaitsLeft(x)
    BY <2>2, <2>3
  <2> QED BY <1>2, <1>3, <1>4, <1>5, <2>4
<1>11. y.st = x.st /\ y.sleeps = x.sleeps => WaitsLeft(y) = WaitsLeft(x)
  BY <1>7 DEF WaitsLeft
<1>12. CASE y.st = x.st /\ y.sleeps = x.sleeps /\ Stage(y) < Stage(x)
  <2>1. StepsLeft(y) < StepsLeft(x)
    BY <1>2, <1>11, <1>12, DigitsInRange DEF StepsLeft
  <2> QED BY <1>2, <1>3, <1>4, <2>1
<1>13. ASSUME y.st = x.st, y.sleeps = x.sleeps, Stage(y) = Stage(x), y.tries > x.tries
       PROVE  Fuel(y) < Fuel(x)
  <2> DEFINE k == StepsLeft(x) * (MAX_RETRIES + 1)
             u == MAX_RETRIES - x.tries
             v == MAX_RETRIES - y.tries
  <2>1. StepsLeft(y) = StepsLeft(x)
    BY <1>11, <1>13 DEF StepsLeft
  <2>2. k \in Nat /\ u \in Nat /\ v \in Nat
    BY <1>1, <1>2, DigitsInRange
  <2>3. v < u
    BY <1>1, <1>8, <1>13
  <2>4. TriesLeft(x) = k + u /\ TriesLeft(y) = k + v
    BY <2>1 DEF TriesLeft
  <2> HIDE DEF k, u, v
  <2> QED BY <1>3, <2>2, <2>3, <2>4
<1>14. y.st = x.st /\ y.sleeps = x.sleeps /\ Stage(y) = Stage(x) /\ y.tries = x.tries
         => TriesLeft(y) = TriesLeft(x)
  BY <1>11 DEF TriesLeft, StepsLeft
<1>15. ASSUME y.st = x.st, y.sleeps = x.sleeps, y.tries = x.tries,
              x.pc = "fetch-extract-persist", y.pc = "persisting"
       PROVE  Fuel(y) < Fuel(x)
  <2>1. Stage(y) = Stage(x)
    BY <1>15 DEF Stage
  <2> QED BY <1>2, <1>14, <1>15, <2>1 DEF Fuel
<1>16. CASE Same(y, x)
  <2>1. Stage(y) = Stage(x) /\ Fuel(y) = Fuel(x)
    BY <1>14, <1>16 DEF Same, Stage, Fuel
  <2>2. ~Lower(y, x)
    BY <1>8, <1>16, <2>1, DigitsInRange, <1>7 DEF Lower, Same
  <2> QED BY <1>2, <2>1, <2>2
<1> QED BY <1>2, <1>9, <1>10, <1>12, <1>13, <1>15, <1>16 DEF Lower

(* y may follow x: within its bounds, and with less fuel.                  *)
Burns(y, x) == WithinBounds(y) /\ Lower(y, x)

LEMMA EndedBurns ==
  ASSUME NEW x, x.st \in {"queued", "active", "zombie", "failing"}
  PROVE  Burns(Ended, x)
<1>1. WithinBounds(Ended) /\ Ended.st = "ended"
  BY FreshRecords, ConstantsAssumption DEF WithinBounds, Ended, Unused
<1>2. Rank(Ended) = 0 /\ Rank(x) > 0
  BY <1>1 DEF Rank
<1> QED BY <1>1, <1>2 DEF Burns, Lower

LEMMA FailedBurns ==
  ASSUME TypeShape, NEW r \in Runs, Executing(r)
  PROVE  Burns(Failed(r), run[r])
<1>1. Failed(r) \in RunStates /\ Failed(r).st = "failing"
  BY RunTyped, FailedRecord DEF Executing
<1>2. Failed(r).sleeps = 0 /\ Failed(r).tries = 0
  BY DEF Failed, Unused
<1>3. Rank(Failed(r)) = 1 /\ Rank(run[r]) > 1
  BY <1>1 DEF Rank, Executing
<1> QED BY <1>1, <1>2, <1>3, ConstantsAssumption DEF Burns, Lower, WithinBounds

LEMMA RetriedBurns ==
  ASSUME TypeShape, NEW r \in Runs, WithinBounds(run[r]), Executing(r) \/ run[r].st = "failing"
  PROVE  Burns(Retried(r), run[r])
<1> DEFINE step == IF run[r].pc = "persisting" THEN "fetch-extract-persist" ELSE run[r].pc
           n == run[r].tries + 1
           again == Again(run[r], n, step)
<1>1. run[r] \in RunStates
  BY RunTyped
<1>2. \/ Retried(r) = Ended
      \/ Retried(r) = Failed(r) /\ run[r].st = "active"
      \/ Retried(r) = again /\ run[r].tries < MAX_RETRIES
  BY DEF Retried, Again
<1>3. step \in Steps /\ n \in Nat
  BY <1>1 DEF RunStates, Steps, LockedSteps
<1>5. ASSUME run[r].tries < MAX_RETRIES PROVE Burns(again, run[r])
  <2>1. /\ again \in RunStates /\ again.st = run[r].st /\ again.sleeps = run[r].sleeps
        /\ again.pc = step /\ again.tries = run[r].tries + 1
    <3>1. n = run[r].tries + 1
      OBVIOUS
    <3> HIDE DEF step, n
    <3>2. again.sleeps = run[r].sleeps /\ again.tries = n
      BY <1>1 DEF RunStates, Again
    <3> QED BY <1>1, <1>3, <3>1, <3>2, AgainRecord
  <2>2. Stage(again) = Stage(run[r])
    <3>1. again.pc = run[r].pc \/ (run[r].pc = "persisting" /\ again.pc = "fetch-extract-persist")
      BY <2>1
    <3> HIDE DEF again
    <3> QED BY <3>1 DEF Stage
  <2> HIDE DEF again
  <2> QED BY <1>1, <1>5, <2>1, <2>2, ConstantsAssumption DEF Burns, Lower, WithinBounds, RunStates
<1> HIDE DEF again
<1> QED BY <1>2, <1>5, EndedBurns, FailedBurns DEF Executing

LEMMA ReplyBurns ==
  ASSUME TypeShape, NEW r \in Runs, WithinBounds(run[r]), NEW step, NEW next, Reply(r, step, next),
         Executing(r) \/ run[r].st = "failing", run[r].st # "zombie" => Burns(next, run[r])
  PROVE  Burns(run'[r], run[r]) /\ \A q \in Runs \ {r} : run'[q] = run[q]
BY BecomesOnly, EndedBurns, RetriedBurns DEF Reply, Executing

(* The handler goes on at a later step.                                    *)
LEMMA GotoBurns ==
  ASSUME TypeShape, NEW r \in Runs, WithinBounds(run[r]), NEW step \in Steps, NEW next \in RunStates,
         next.pc = step, next.st = run[r].st, next.tries = 0,
         \/ next.sleeps = run[r].sleeps /\ Stage(next) < Stage(run[r])
         \/ next.sleeps > run[r].sleeps /\ next.sleeps <= MAX_RATE_LIMIT_SLEEPS
  PROVE  Burns(next, run[r])
BY ConstantsAssumption DEF Burns, Lower, WithinBounds

LEMMA RunStepBurns ==
  ASSUME TypeShape, NEW r \in Runs, WithinBounds(run[r]), RunStep(r)
  PROVE  Burns(run'[r], run[r]) /\ \A q \in Runs \ {r} : Same(run'[q], run[q]) /\ run'[q] \in RunStates
<1> DEFINE Done == /\ Burns(run'[r], run[r])
                   /\ \A q \in Runs \ {r} : Same(run'[q], run[q]) /\ run'[q] \in RunStates
<1>1. run[r] \in RunStates /\ ShapeOf(run[r], DOMAIN jobs) /\ \A q \in Runs : run[q] \in RunStates
  BY RunTyped
<1>2. \A step \in Steps :
        /\ Goto(r, step) \in RunStates /\ Goto(r, step).pc = step /\ Goto(r, step).st = run[r].st
        /\ Goto(r, step).tries = 0 /\ Goto(r, step).sleeps = run[r].sleeps
  BY <1>1, GotoRecord DEF Goto, RunStates
<1>3. ASSUME NEW step \in Steps, Stage([pc |-> step]) < Stage(run[r])
      PROVE  Burns(Goto(r, step), run[r])
  <2>1. Stage(Goto(r, step)) = Stage([pc |-> step])
    BY <1>2 DEF Stage
  <2> QED BY <1>2, <1>3, <2>1, GotoBurns
<1>4. ASSUME NEW x, Becomes(r, x), Burns(x, run[r])
      PROVE  Done
  BY <1>1, <1>4, BecomesOnly DEF Same
<1>5. ASSUME Executing(r) \/ run[r].st = "failing", NEW s, NEW next, Reply(r, s, next),
             run[r].st # "zombie" => Burns(next, run[r])
      PROVE  Done
  BY <1>1, <1>5, ReplyBurns DEF Same
<1>6. ASSUME Executing(r) \/ run[r].st = "failing", NEW s, NEW step \in Steps, Reply(r, s, Goto(r, step)),
             Stage([pc |-> step]) < Stage(run[r])
      PROVE  Done
  BY <1>3, <1>5, <1>6
<1>7. ASSUME Executing(r) \/ run[r].st = "failing", NEW s, NEW step \in Steps, NEW next, Reply(r, s, next),
             next.st = Goto(r, step).st, next.pc = step, next.tries = 0, next.sleeps = run[r].sleeps,
             next \in RunStates, Stage([pc |-> step]) < Stage(run[r])
      PROVE  Done
  <2>1. Stage(next) = Stage([pc |-> step])
    BY <1>7 DEF Stage
  <2> QED BY <1>2, <1>5, <1>7, <2>1, GotoBurns
<1>8. \A x : x.pc = "acquire-lock" => Stage(x) = 13
  BY DEF Stage
<1> HIDE DEF Done
<1> SUFFICES Done
  BY DEF Done
<1>9. CASE Start(r)
  <2> DEFINE x == [run[r] EXCEPT !.st = "active"]
  <2>1. x \in RunStates /\ x.st = "active" /\ x.sleeps = run[r].sleeps /\ x.tries = run[r].tries
    BY <1>1 DEF RunStates
  <2>2. run[r].st = "queued" /\ Becomes(r, x)
    BY <1>9 DEF Start
  <2> HIDE DEF x
  <2>3. Rank(x) < Rank(run[r])
    BY <2>1, <2>2 DEF Rank
  <2> QED BY <1>4, <2>1, <2>2, <2>3 DEF Burns, Lower, WithinBounds
<1>10. CASE AcquireIndexingLock(r)
  <2>1. Executing(r) /\ run[r].pc = "acquire-lock"
        /\ \E next \in {Goto(r, "create-index-job"), Ended} : Reply(r, "acquire-lock", next)
    BY <1>10 DEF AcquireIndexingLock, At
  <2>2. "create-index-job" \in Steps /\ Stage([pc |-> "create-index-job"]) < Stage(run[r])
    BY <2>1 DEF Steps, LockedSteps, Stage
  <2> QED BY <1>5, <1>6, <2>1, <2>2, EndedBurns DEF Executing
<1>11. CASE CreateIndexJob(r)
  <2> DEFINE n == Len(jobs')
             x == [Goto(r, "resolve-target") EXCEPT !.job = n]
  <2>1. Executing(r) /\ run[r].pc = "create-index-job" /\ Reply(r, "create-index-job", x)
        /\ jobs' = Append(jobs, [run |-> r, repo |-> run[r].repo, sha |-> None, status |-> "RUNNING"])
    BY <1>11 DEF CreateIndexJob, At
  <2>2. "resolve-target" \in Steps /\ Stage([pc |-> "resolve-target"]) < Stage(run[r])
    BY <2>1 DEF Steps, LockedSteps, Stage
  <2>3. n \in Nat
    BY <2>1 DEF TypeShape, TypeOK
  <2> HIDE DEF n
  <2>4. /\ x \in RunStates /\ x.st = Goto(r, "resolve-target").st /\ x.pc = "resolve-target"
        /\ x.tries = 0 /\ x.sleeps = run[r].sleeps
    BY <1>2, <2>2, <2>3 DEF RunStates
  <2> HIDE DEF x
  <2> QED BY <1>7, <2>1, <2>2, <2>4
<1>12. CASE CreateIndexJobRejected(r) \/ ThrowTransient(r) \/ StepThrows(r)
  <2>1. (Executing(r) \/ run[r].st = "failing") /\ Becomes(r, Retried(r))
    BY <1>12 DEF CreateIndexJobRejected, ThrowTransient, StepThrows, At
  <2> QED BY <1>4, <2>1, RetriedBurns
<1>13. CASE ResolveTarget(r)
  <2> DEFINE c == indexedCommitSha[run[r].repo]
             x == [Goto(r, "resolve-head-sha") EXCEPT !.indexed = c]
  <2>1. Executing(r) /\ run[r].pc = "resolve-target" /\ Reply(r, "resolve-target", x)
    BY <1>13 DEF ResolveTarget, At
  <2>2. "resolve-head-sha" \in Steps /\ Stage([pc |-> "resolve-head-sha"]) < Stage(run[r])
    BY <2>1 DEF Steps, LockedSteps, Stage
  <2>3. c \in Shas \cup {None}
    BY <2>1, RunTyped DEF Executing, TypeShape, TypeOK
  <2> HIDE DEF c
  <2>4. /\ x \in RunStates /\ x.st = Goto(r, "resolve-head-sha").st /\ x.pc = "resolve-head-sha"
        /\ x.tries = 0 /\ x.sleeps = run[r].sleeps
    BY <1>2, <2>2, <2>3 DEF RunStates
  <2> HIDE DEF x
  <2> QED BY <1>7, <2>1, <2>2, <2>4
<1>14. CASE ResolveHeadSha(r)
  <2>1. PICK sha \in Shas : \E step \in {"mark-noop-succeeded", "record-target-sha"} :
          Reply(r, "resolve-head-sha", [Goto(r, step) EXCEPT !.sha = sha])
    BY <1>14 DEF ResolveHeadSha
  <2>2. PICK step \in {"mark-noop-succeeded", "record-target-sha"} :
          Reply(r, "resolve-head-sha", [Goto(r, step) EXCEPT !.sha = sha])
    BY <2>1
  <2>3. Executing(r) /\ run[r].pc = "resolve-head-sha"
    BY <1>14 DEF ResolveHeadSha, At
  <2>4. step \in Steps /\ Stage([pc |-> step]) < Stage(run[r])
    BY <2>3 DEF Steps, LockedSteps, Stage
  <2> DEFINE x == [Goto(r, step) EXCEPT !.sha = sha]
  <2>5. x \in RunStates /\ x.st = Goto(r, step).st /\ x.pc = step /\ x.tries = 0 /\ x.sleeps = run[r].sleeps
    BY <1>2, <2>4 DEF RunStates
  <2>6. Reply(r, "resolve-head-sha", x)
    BY <2>2
  <2> HIDE DEF x
  <2> QED BY <1>7, <2>3, <2>4, <2>5, <2>6
<1>15. CASE HeadNotAccessible(r) \/ MarkSucceededNoOp(r) \/ EmitRepositoryIndexed(r) \/ MarkJobFailed(r)
  <2>1. /\ Executing(r) \/ run[r].st = "failing"
        /\ \E s : Reply(r, s, Ended) \/ (Reply(r, s, Failed(r)) /\ Executing(r))
    BY <1>15 DEF HeadNotAccessible, MarkSucceededNoOp, EmitRepositoryIndexed, MarkJobFailed, At, FailingAt
  <2> QED BY <1>5, <2>1, EndedBurns, FailedBurns DEF Executing
<1>16. CASE HeadUnavailable(r) \/ RecordTargetSha(r) \/ RecordPersistProgress(r) \/ MarkIndexed(r)
            \/ MarkJobSucceeded(r)
  <2>1. Executing(r)
    BY <1>16 DEF HeadUnavailable, RecordTargetSha, RecordPersistProgress, MarkIndexed, MarkJobSucceeded, At
  <2>2. \E s, step \in Steps : Reply(r, s, Goto(r, step)) /\ Stage([pc |-> step]) < Stage(run[r])
    BY <1>16 DEF HeadUnavailable, RecordTargetSha, RecordPersistProgress, MarkIndexed, MarkJobSucceeded,
                 At, Stage, Steps, LockedSteps, ReleasedSteps
  <2> QED BY <1>6, <2>1, <2>2
<1>17. CASE FetchRefused(r)
  <2>1. Executing(r) /\ (Becomes(r, Ended) \/ Becomes(r, Failed(r)))
    BY <1>17 DEF FetchRefused, At
  <2> QED BY <1>4, <2>1, EndedBurns, FailedBurns DEF Executing
<1>18. CASE RateLimited(r)
  <2> DEFINE n == run[r].sleeps + 1
             x == [Goto(r, "sleep") EXCEPT !.sleeps = n]
  <2>1. Executing(r)
    BY <1>18 DEF RateLimited, At
  <2>2. "sleep" \in Steps
    BY DEF Steps, LockedSteps
  <2>3. x \in RunStates /\ x.pc = "sleep" /\ x.st = run[r].st /\ x.tries = 0 /\ x.sleeps = n
    <3>1. n \in Nat
      BY <1>1 DEF RunStates
    <3> HIDE DEF n
    <3> QED BY <1>2, <2>2, <3>1 DEF RunStates
  <2>4. run[r].sleeps \in Nat
    BY <1>1 DEF RunStates
  <2>5. \/ run[r].sleeps < MAX_RATE_LIMIT_SLEEPS /\ Reply(r, "fetch-extract-persist", x)
        \/ Reply(r, "fetch-extract-persist", Failed(r))
    BY <1>2, <1>18, <2>2 DEF RateLimited
  <2> HIDE DEF x
  <2>6. run[r].sleeps < MAX_RATE_LIMIT_SLEEPS => Burns(x, run[r])
    BY <2>2, <2>3, <2>4, GotoBurns, ConstantsAssumption
  <2> QED BY <1>5, <2>1, <2>5, <2>6, FailedBurns
<1>19. CASE WakeUp(r)
  <2>1. Executing(r) /\ run[r].pc = "sleep" /\ (Becomes(r, Ended) \/ Becomes(r, Goto(r, "fetch-extract-persist")))
    BY <1>19 DEF WakeUp, At
  <2>2. "fetch-extract-persist" \in Steps /\ Stage([pc |-> "fetch-extract-persist"]) < Stage(run[r])
    BY <2>1 DEF Steps, LockedSteps, Stage
  <2> QED BY <1>3, <1>4, <2>1, <2>2, EndedBurns DEF Executing
<1>20. CASE PersistBegins(r)
  <2> DEFINE p == run[r].repo
             b == Persisting(p) = {}
             x == [run[r] EXCEPT !.pc = "persisting", !.alone = b]
  <2>1. run'[r] = x /\ \A q \in Runs \ {r} : run'[q] = run[q] \/ run'[q] = [run[q] EXCEPT !.alone = FALSE]
    <3>1. run' = [q \in Runs |-> CASE q = r -> x
                                   [] q \in Persisting(p) -> [run[q] EXCEPT !.alone = FALSE]
                                   [] OTHER -> run[q]]
      BY <1>20 DEF PersistBegins
    <3>2. ASSUME NEW q \in Runs \ {r}
          PROVE  run'[q] = run[q] \/ run'[q] = [run[q] EXCEPT !.alone = FALSE]
      <4> HIDE DEF x
      <4> QED BY <3>1, <3>2
    <3>3. run'[r] = x
      <4>1. r \notin Persisting(p)
        BY <1>20 DEF PersistBegins, Persisting, At
      <4> HIDE DEF x
      <4> QED BY <3>1, <4>1
    <3> QED BY <3>2, <3>3
  <2>2. /\ x \in RunStates /\ x.st = run[r].st /\ x.sleeps = run[r].sleeps /\ x.tries = run[r].tries
        /\ x.pc = "persisting"
    <3>1. b \in BOOLEAN
      OBVIOUS
    <3> HIDE DEF b
    <3> QED BY <1>1, <3>1 DEF RunStates, Steps, LockedSteps
  <2>3. run[r].pc = "fetch-extract-persist"
    BY <1>20 DEF PersistBegins, At
  <2> HIDE DEF x
  <2>4. Burns(run'[r], run[r])
    BY <2>1, <2>2, <2>3 DEF Burns, Lower, WithinBounds
  <2>5. \A q \in Runs : Same(run[q], run[q]) /\ Same([run[q] EXCEPT !.alone = FALSE], run[q])
                        /\ [run[q] EXCEPT !.alone = FALSE] \in RunStates
    BY <1>1 DEF Same, RunStates
  <2> QED BY <1>1, <2>1, <2>4, <2>5 DEF Done
<1>21. CASE PersistEnds(r)
  <2> DEFINE x == [Goto(r, "record-persist-progress") EXCEPT !.alone = TRUE]
  <2>1. Executing(r) /\ run[r].pc = "persisting" /\ Reply(r, "fetch-extract-persist", x)
    BY <1>21 DEF PersistEnds, At
  <2>2. "record-persist-progress" \in Steps /\ Stage([pc |-> "record-persist-progress"]) < Stage(run[r])
    BY <2>1 DEF Steps, LockedSteps, Stage
  <2>3. /\ x \in RunStates /\ x.st = Goto(r, "record-persist-progress").st /\ x.pc = "record-persist-progress"
        /\ x.tries = 0 /\ x.sleeps = run[r].sleeps
    <3> DEFINE g == Goto(r, "record-persist-progress")
    <3>1. g \in RunStates /\ g.pc = "record-persist-progress" /\ g.tries = 0 /\ g.sleeps = run[r].sleeps
      BY <1>2, <2>2
    <3>2. x = [g EXCEPT !.alone = TRUE]
      OBVIOUS
    <3> HIDE DEF g, x
    <3> QED BY <3>1, <3>2 DEF RunStates, g
  <2> HIDE DEF x
  <2> QED BY <1>7, <2>1, <2>2, <2>3
<1>22. CASE MarkFailed(r)
  <2>1. run[r].st = "failing" /\ run[r].pc = "mark-repository-failed"
        /\ Reply(r, "mark-repository-failed", Goto(r, "find-job-for-failure"))
    BY <1>22 DEF MarkFailed, FailingAt
  <2>2. "find-job-for-failure" \in Steps /\ Stage([pc |-> "find-job-for-failure"]) < Stage(run[r])
    BY <2>1 DEF Steps, FailureSteps, Stage
  <2> QED BY <1>6, <2>1, <2>2
<1>23. CASE FindJobForFailure(r)
  <2>1. run[r].st = "failing" /\ run[r].pc = "find-job-for-failure"
    BY <1>23 DEF FindJobForFailure, FailingAt
  <2>2. "mark-job-failed" \in Steps /\ Stage([pc |-> "mark-job-failed"]) < Stage(run[r])
    BY <2>1 DEF Steps, FailureSteps, Stage
  <2>3. ASSUME NEW j \in DOMAIN jobs, Reply(r, "find-job-for-failure", [Goto(r, "mark-job-failed") EXCEPT !.job = j])
        PROVE  Done
    <3> DEFINE x == [Goto(r, "mark-job-failed") EXCEPT !.job = j]
    <3>1. j \in Nat
      BY DEF TypeShape, TypeOK
    <3>2. /\ x \in RunStates /\ x.st = Goto(r, "mark-job-failed").st /\ x.pc = "mark-job-failed"
          /\ x.tries = 0 /\ x.sleeps = run[r].sleeps
      BY <1>2, <2>2, <3>1 DEF RunStates
    <3>3. Reply(r, "find-job-for-failure", x)
      BY <2>3
    <3> HIDE DEF x
    <3> QED BY <1>7, <2>1, <2>2, <3>2, <3>3
  <2>4. Reply(r, "find-job-for-failure", Ended) => Done
    BY <1>5, <2>1, EndedBurns
  <2> QED BY <1>23, <2>3, <2>4 DEF FindJobForFailure
<1> QED BY <1>9, <1>10, <1>11, <1>12, <1>13, <1>14, <1>15, <1>16, <1>17, <1>18, <1>19, <1>20, <1>21,
           <1>22, <1>23 DEF RunStep

(* However runs overlap, fail, are cancelled or time out, each of them     *)
(* takes at most Fuel(Unused) steps.                                       *)
THEOREM RunsAlwaysWindDown == Spec => RunsWindDown
<1> DEFINE Bounded == \A r \in Runs : WithinBounds(run[r])
<1>1. Init => Bounded
  BY FreshRecords, ConstantsAssumption DEF Init, WithinBounds, Unused
<1>2. ASSUME TypeShape, Bounded, [Next]_vars
      PROVE  \A r \in Runs : /\ WithinBounds(run'[r])
                             /\ Lower(run'[r], run[r]) \/ Same(run'[r], run[r])
                             /\ RunStep(r) => Lower(run'[r], run[r])
  <2>1. ASSUME NEW q \in Runs, NEW r \in Runs, RunStep(q)
        PROVE  WithinBounds(run'[r]) /\ (Lower(run'[r], run[r]) \/ Same(run'[r], run[r]))
    <3>1. CASE r = q
      BY <1>2, <2>1, <3>1, RunStepBurns DEF Burns
    <3>2. CASE r # q
      <4>1. Same(run'[r], run[r]) /\ run'[r] \in RunStates
        BY <1>2, <2>1, <3>2, RunStepBurns
      <4> QED BY <1>2, <4>1 DEF Same, WithinBounds
    <3> QED BY <3>1, <3>2
  <2>2. ASSUME NEW r \in Runs, UNCHANGED run
        PROVE  WithinBounds(run'[r]) /\ Same(run'[r], run[r])
    BY <1>2, <2>2 DEF Same
  <2>3. ASSUME NEW p \in Repos, NEW preset, Enqueue(p, preset), NEW r \in Runs, preset \in BOOLEAN
        PROVE  WithinBounds(run'[r]) /\ (Lower(run'[r], run[r]) \/ Same(run'[r], run[r]))
    <3> DEFINE x == [Unused EXCEPT !.st = "queued", !.repo = p, !.preset = preset]
    <3>1. PICK q \in Runs : run[q].st = "unused" /\ Becomes(q, x)
      BY <2>3 DEF Enqueue
    <3>2. x \in RunStates /\ x.st = "queued" /\ x.sleeps = 0 /\ x.tries = 0
      BY <2>3, FreshRecords DEF RunStates, Unused
    <3> HIDE DEF x
    <3>3. Rank(x) < Rank(run[q]) /\ WithinBounds(x)
      BY <3>1, <3>2, ConstantsAssumption DEF Rank, WithinBounds
    <3>4. run'[q] = x /\ \A o \in Runs \ {q} : run'[o] = run[o]
      BY <1>2, <3>1, BecomesOnly
    <3> QED BY <1>2, <3>3, <3>4 DEF Lower, Same
  <2>4. ASSUME NEW r \in Runs, NEW inFlight
        PROVE  /\ WithinBounds(Cancelled(r, inFlight))
               /\ Lower(Cancelled(r, inFlight), run[r]) \/ Same(Cancelled(r, inFlight), run[r])
    <3> DEFINE x == [run[r] EXCEPT !.st = "zombie"]
    <3>1. /\ x \in RunStates /\ x.st = "zombie" /\ x.pc = run[r].pc
          /\ x.sleeps = run[r].sleeps /\ x.tries = run[r].tries
      BY <1>2, RunTyped DEF RunStates
    <3> HIDE DEF x
    <3>2. run[r].st \in {"queued", "active"} => Rank(x) < Rank(run[r])
      BY <3>1 DEF Rank
    <3>3. Cancelled(r, inFlight) \in {run[r], x, Ended}
          /\ (Cancelled(r, inFlight) # run[r] => run[r].st \in {"queued", "active"})
      BY DEF Cancelled, x
    <3>4. run[r].st \in {"queued", "active"} => WithinBounds(Ended) /\ Lower(Ended, run[r])
      BY EndedBurns DEF Burns
    <3> QED BY <1>2, <3>1, <3>2, <3>3, <3>4 DEF Lower, Same, WithinBounds
  <2>5. ASSUME NEW j \in Projects, CancelRuns(j), NEW r \in Runs
        PROVE  WithinBounds(run'[r]) /\ (Lower(run'[r], run[r]) \/ Same(run'[r], run[r]))
    BY <1>2, <2>4, <2>5 DEF CancelRuns, Same
  <2>6. ASSUME NEW q \in Runs, TimeOut(q), NEW r \in Runs
        PROVE  WithinBounds(run'[r]) /\ (Lower(run'[r], run[r]) \/ Same(run'[r], run[r]))
    BY <1>2, <2>4, <2>6, BecomesOnly DEF TimeOut, Same
  <2>7. ASSUME NEW p \in Repos, ConnectRepository(p) \/ TriggerIndex(p) \/ SweepStale(p), NEW r \in Runs
        PROVE  WithinBounds(run'[r]) /\ (Lower(run'[r], run[r]) \/ Same(run'[r], run[r]))
    BY <2>2, <2>3, <2>7 DEF ConnectRepository, TriggerIndex, SweepStale
  <2>8. ASSUME (\E j \in Projects : DeleteProject(j)) \/ GithubChanges \/ UNCHANGED vars
        PROVE  UNCHANGED run
    BY <2>8 DEF DeleteProject, GithubChanges, vars
  <2>9. ASSUME NEW r \in Runs, RunStep(r)
        PROVE  Lower(run'[r], run[r])
    BY <1>2, <2>9, RunStepBurns DEF Burns
  <2>10. ASSUME NEW r \in Runs
         PROVE  WithinBounds(run'[r]) /\ (Lower(run'[r], run[r]) \/ Same(run'[r], run[r]))
    BY <1>2, <2>1, <2>2, <2>5, <2>6, <2>7, <2>8 DEF Next
  <2> QED BY <2>9, <2>10
<1>3. TypeShape /\ Bounded /\ [Next]_vars => Bounded'
  BY <1>2
<1>4. TypeShape /\ Bounded /\ [Next]_vars =>
        [\A r \in Runs : /\ Fuel(run[r]) \in Nat /\ Fuel(run'[r]) <= Fuel(run[r])
                         /\ RunStep(r) => Fuel(run'[r]) < Fuel(run[r])]_vars
  BY <1>2, FuelDrops
<1> QED BY <1>1, <1>3, <1>4, TypeShapeCorrect, PTL DEF Spec, RunsWindDown
-----------------------------------------------------------------------------
(***************************************************************************)
(* Whose job a row is.  Nothing is assumed of the steps or of the lock:    *)
(* two runs may index one repository at once, and a run may create several *)
(* rows, but each writes rows of its own only.                             *)
(***************************************************************************)

(* What the run of job row j may record in it, and at which step.          *)
Records(j) ==
  LET r == jobs[j].run IN
  /\ run[r].repo = jobs[j].repo
  /\ \/ At(r, "record-target-sha") /\ jobs'[j] = [jobs[j] EXCEPT !.sha = run[r].sha]
     \/ /\ At(r, "mark-noop-succeeded") \/ At(r, "mark-job-succeeded")
        /\ jobs'[j] = [jobs[j] EXCEPT !.status = "SUCCEEDED"]
     \/ FailingAt(r, "mark-job-failed") /\ jobs'[j] = [jobs[j] EXCEPT !.status = "FAILED"]

(* A new row is of the repository that its run indexes.                    *)
Creates(j) ==
  LET r == jobs'[j].run IN
  /\ At(r, "create-index-job")
  /\ jobs'[j] = [run |-> r, repo |-> run[r].repo, sha |-> None, status |-> "RUNNING"]

JobStep ==
  /\ \A j \in DOMAIN jobs : j \in DOMAIN jobs' /\ (jobs'[j] = jobs[j] \/ Records(j))
  /\ \A j \in DOMAIN jobs' : j \in DOMAIN jobs \/ Creates(j)

(* IndexJob rows stay; each says what its own run did to its own           *)
(* repository and nothing another run did, onFailure finding the job by    *)
(* the id of the run (findByInngestRunId) included.                        *)
JobsStayWithTheirRuns == [][JobStep]_vars

Live(x) == x.st \notin {"unused", "ended"}

TracedInv ==
  /\ \A r \in Runs : CreatedNone(run[r]) => \A j \in DOMAIN jobs : jobs[j].run # r
  /\ \A r \in Runs : KnowsJob(run[r]) => jobs[run[r].job].run = r
  /\ \A j \in DOMAIN jobs : Live(run[jobs[j].run]) => jobs[j].repo = run[jobs[j].run].repo

(* The run goes on for its repository, knowing no more jobs than before.   *)
Carries(x, y) ==
  /\ CreatedNone(y) => CreatedNone(x)
  /\ KnowsJob(y) => KnowsJob(x) /\ y.job = x.job
  /\ Live(y) => CreatedNone(x) \/ (Live(x) /\ y.repo = x.repo)

LEMMA RunsOfJobs ==
  ASSUME TypeShape
  PROVE  \A j \in DOMAIN jobs : jobs[j] \in JobRows /\ jobs[j].run \in Runs
<1>1. \A j \in DOMAIN jobs : jobs[j] \in JobRows
  BY DEF TypeShape, TypeOK
<1> QED BY <1>1 DEF JobRows

LEMMA EndedCarries == \A x : Carries(x, Ended) /\ Carries(x, x)
BY DEF Carries, Ended, Unused, CreatedNone, KnowsJob, Live

(* Rows that are not written, runs that go on.                             *)
LEMMA CarriedTraced ==
  ASSUME TypeShape, TracedInv, UNCHANGED jobs, \A q \in Runs : Carries(run[q], run'[q])
  PROVE  TracedInv' /\ JobStep
<1>1. ASSUME NEW j \in DOMAIN jobs, Live(run'[jobs[j].run])
      PROVE  jobs[j].repo = run'[jobs[j].run].repo
  BY <1>1, RunsOfJobs DEF TracedInv, Carries
<1>2. ASSUME NEW q \in Runs
      PROVE  /\ CreatedNone(run'[q]) => \A j \in DOMAIN jobs : jobs[j].run # q
             /\ KnowsJob(run'[q]) => jobs[run'[q].job].run = q
  BY DEF TracedInv, Carries
<1> QED BY <1>1, <1>2 DEF TracedInv, JobStep

LEMMA FailedCarries ==
  ASSUME NEW r \in Runs, Executing(r)
  PROVE  Carries(run[r], Failed(r))
<1>1. Failed(r).st = "failing" /\ Failed(r).pc = "mark-repository-failed" /\ Failed(r).repo = run[r].repo
  BY DEF Failed, Unused
<1> QED BY <1>1 DEF Carries, CreatedNone, KnowsJob, Live, Executing

LEMMA RetriedCarries ==
  ASSUME TypeShape, NEW r \in Runs, Executing(r) \/ run[r].st = "failing"
  PROVE  Carries(run[r], Retried(r))
<1>1. CASE Retried(r) = Ended
  BY <1>1, EndedCarries
<1>2. CASE Retried(r) = Failed(r) /\ run[r].st = "active"
  BY <1>2, FailedCarries DEF Executing
<1>3. CASE /\ run[r].st \in {"active", "failing"} /\ Retried(r).st = run[r].st
           /\ Retried(r).repo = run[r].repo /\ Retried(r).job = run[r].job
           /\ \/ Retried(r).pc = run[r].pc
              \/ run[r].pc = "persisting" /\ Retried(r).pc = "fetch-extract-persist"
  <2> DEFINE y == Retried(r)
  <2> HIDE DEF y
  <2> QED BY <1>3 DEF Carries, CreatedNone, KnowsJob, Live
<1> QED BY <1>1, <1>2, <1>3, RetriedGoesOn

LEMMA BecomesCarries ==
  ASSUME TypeShape, NEW r \in Runs, NEW x, Becomes(r, x), Carries(run[r], x)
  PROVE  \A q \in Runs : Carries(run[q], run'[q])
BY BecomesOnly, EndedCarries

LEMMA ReplyCarries ==
  ASSUME TypeShape, NEW r \in Runs, NEW step, NEW next, Reply(r, step, next),
         Executing(r) \/ run[r].st = "failing", Carries(run[r], next)
  PROVE  \A q \in Runs : Carries(run[q], run'[q])
<1>1. CASE Becomes(r, Ended)
  BY <1>1, BecomesCarries, EndedCarries
<1>2. CASE Becomes(r, next)
  BY <1>2, BecomesCarries
<1>3. CASE Becomes(r, Retried(r))
  BY <1>3, RetriedCarries, BecomesCarries
<1> QED BY <1>1, <1>2, <1>3 DEF Reply

(* A run that goes on at a step after create-index-job.                    *)
LEMMA OnwardsCarries ==
  ASSUME TypeShape, NEW r \in Runs, Executing(r), KnowsJob(run[r]), NEW next, NEW step,
         next.st = run[r].st, next.pc = step, next.job = run[r].job, next.repo = run[r].repo,
         step # "acquire-lock"
  PROVE  Carries(run[r], next)
BY DEF Carries, CreatedNone, KnowsJob, Live, Executing

(* A row is created, found, or recorded in by its run.                     *)
LEMMA CreatedTraced ==
  ASSUME TypeShape, TracedInv, NEW r \in Runs, NEW row,
         row = [run |-> r, repo |-> run[r].repo, sha |-> None, status |-> "RUNNING"],
         At(r, "create-index-job"), jobs' = Append(jobs, row),
         \A q \in Runs \ {r} : run'[q] = run[q], ~CreatedNone(run'[r]),
         KnowsJob(run'[r]) => run'[r].job = Len(jobs) + 1,
         Live(run'[r]) => run'[r].repo = run[r].repo
  PROVE  TracedInv' /\ JobStep
<1>1. PICK n \in Nat : /\ n = Len(jobs) + 1 /\ DOMAIN jobs = 1 .. n - 1 /\ DOMAIN jobs' = 1 .. n
                       /\ jobs'[n] = row /\ \A j \in DOMAIN jobs : jobs'[j] = jobs[j]
  BY DEF TypeShape, TypeOK
<1>2. \A j \in DOMAIN jobs' : j = n \/ j \in DOMAIN jobs
  BY <1>1
<1>3. row.run = r /\ row.repo = run[r].repo
  OBVIOUS
<1>4. \A q \in Runs : KnowsJob(run[q]) => run[q].job \in DOMAIN jobs
  BY RunTyped DEF KnowsJob, ShapeOf
<1>5. JobStep
  <2>1. Creates(n)
    BY <1>1, <1>3 DEF Creates
  <2> QED BY <1>1, <1>2, <2>1 DEF JobStep
<1> HIDE DEF Records
<1>6. ASSUME NEW q \in Runs, CreatedNone(run'[q]), NEW j \in DOMAIN jobs' PROVE jobs'[j].run # q
  BY <1>1, <1>2, <1>3, <1>6 DEF TracedInv
<1>7. ASSUME NEW q \in Runs, KnowsJob(run'[q]) PROVE jobs'[run'[q].job].run = q
  BY <1>1, <1>3, <1>4, <1>7 DEF TracedInv
<1>8. Live(run[r])
  BY DEF At, Executing, Live
<1>9. ASSUME NEW j \in DOMAIN jobs', Live(run'[jobs'[j].run])
      PROVE  jobs'[j].repo = run'[jobs'[j].run].repo
  <2>1. CASE j = n
    BY <1>1, <1>3, <1>9, <2>1
  <2>2. CASE j \in DOMAIN jobs /\ jobs[j].run = r
    BY <1>1, <1>8, <1>9, <2>2 DEF TracedInv
  <2>3. CASE j \in DOMAIN jobs /\ jobs[j].run # r
    BY <1>1, <1>9, <2>3, RunsOfJobs DEF TracedInv
  <2> QED BY <1>2, <2>1, <2>2, <2>3
<1> QED BY <1>5, <1>6, <1>7, <1>9 DEF TracedInv

LEMMA FoundTraced ==
  ASSUME TypeShape, TracedInv, NEW r \in Runs, UNCHANGED jobs, \A q \in Runs \ {r} : run'[q] = run[q],
         FailingAt(r, "find-job-for-failure"), ~CreatedNone(run'[r]),
         run'[r].repo = run[r].repo, jobs[run'[r].job].run = r
  PROVE  TracedInv' /\ JobStep
<1>1. Live(run[r])
  BY DEF FailingAt, Live
<1>2. ASSUME NEW j \in DOMAIN jobs, Live(run'[jobs[j].run])
      PROVE  jobs[j].repo = run'[jobs[j].run].repo
  BY <1>1, <1>2, RunsOfJobs DEF TracedInv
<1>3. ASSUME NEW q \in Runs
      PROVE  /\ CreatedNone(run'[q]) => \A j \in DOMAIN jobs : jobs[j].run # q
             /\ KnowsJob(run'[q]) => jobs[run'[q].job].run = q
  BY DEF TracedInv
<1> QED BY <1>2, <1>3 DEF TracedInv, JobStep

LEMMA RecordedTraced ==
  ASSUME TypeShape, TracedInv, NEW r \in Runs, KnowsJob(run[r]), NEW status, NEW sha,
         UpdateJob(run[r].job, status, sha), \A q \in Runs : Carries(run[q], run'[q]),
         \/ At(r, "record-target-sha") /\ sha = run[r].sha /\ status = jobs[run[r].job].status
         \/ /\ At(r, "mark-noop-succeeded") \/ At(r, "mark-job-succeeded")
            /\ status = "SUCCEEDED" /\ sha = jobs[run[r].job].sha
         \/ FailingAt(r, "mark-job-failed") /\ status = "FAILED" /\ sha = jobs[run[r].job].sha
  PROVE  TracedInv' /\ JobStep
<1>1. \A q \in Runs : KnowsJob(run[q]) => run[q].job \in DOMAIN jobs
  BY RunTyped DEF KnowsJob, ShapeOf
<1>2. PICK i \in DOMAIN jobs : i = run[r].job /\ jobs[i].run = r
  BY <1>1 DEF TracedInv
<1>3. /\ DOMAIN jobs' = DOMAIN jobs /\ \A k \in DOMAIN jobs \ {i} : jobs'[k] = jobs[k]
      /\ jobs'[i].run = r /\ jobs'[i].repo = jobs[i].repo
      /\ jobs'[i] = [jobs[i] EXCEPT !.status = status, !.sha = sha]
  BY <1>2, JobRowUpdated DEF UpdateJob, TypeShape, TypeOK
<1>4. run[r].repo = jobs[i].repo
  BY <1>2 DEF TracedInv, Live, KnowsJob
<1>5. Records(i)
  <2>1. jobs[i] \in JobRows
    BY RunsOfJobs
  <2>2. CASE status = jobs[i].status
    <3>1. jobs'[i] = [jobs[i] EXCEPT !.sha = sha]
      BY <1>3, <2>1, <2>2 DEF JobRows
    <3> QED BY <1>2, <1>4, <2>2, <3>1 DEF Records
  <2>3. CASE sha = jobs[i].sha
    <3>1. jobs'[i] = [jobs[i] EXCEPT !.status = status]
      BY <1>3, <2>1, <2>3 DEF JobRows
    <3> QED BY <1>2, <1>4, <2>3, <3>1 DEF Records
  <2> QED BY <1>2, <2>2, <2>3
<1>6. JobStep
  BY <1>3, <1>5 DEF JobStep
<1>7. \A j \in DOMAIN jobs : jobs'[j].run = jobs[j].run /\ jobs'[j].repo = jobs[j].repo
  BY <1>2, <1>3
<1>8. ASSUME NEW q \in Runs, CreatedNone(run'[q]), NEW j \in DOMAIN jobs' PROVE jobs'[j].run # q
  BY <1>3, <1>7, <1>8 DEF TracedInv, Carries
<1>9. ASSUME NEW q \in Runs, KnowsJob(run'[q]) PROVE jobs'[run'[q].job].run = q
  BY <1>1, <1>7, <1>9 DEF TracedInv, Carries
<1>10. ASSUME NEW j \in DOMAIN jobs', Live(run'[jobs'[j].run])
       PROVE  jobs'[j].repo = run'[jobs'[j].run].repo
  BY <1>3, <1>7, <1>10, RunsOfJobs DEF TracedInv, Carries
<1> QED BY <1>6, <1>8, <1>9, <1>10 DEF TracedInv

(* No step of a run records in a job that is not its own.                  *)
LEMMA RunStepTraces ==
  ASSUME TypeShape, TracedInv, NEW r \in Runs, RunStep(r)
  PROVE  TracedInv' /\ JobStep
<1> DEFINE Goes == \A q \in Runs : Carries(run[q], run'[q])
           Alive == Executing(r) \/ run[r].st = "failing"
           Done == TracedInv' /\ JobStep
<1>1. run[r] \in RunStates /\ ShapeOf(run[r], DOMAIN jobs)
  BY RunTyped
<1>2. UNCHANGED jobs /\ Goes => Done
  BY CarriedTraced
<1>3. ASSUME Alive, Becomes(r, Retried(r)) PROVE Goes
  BY <1>3, RetriedCarries, BecomesCarries
<1>4. ASSUME Alive, NEW s, Reply(r, s, Ended) PROVE Goes
  BY <1>4, EndedCarries, ReplyCarries
<1>5. ASSUME Executing(r), NEW s, Reply(r, s, Failed(r)) PROVE Goes
  BY <1>5, FailedCarries, ReplyCarries
<1>6. ASSUME Executing(r), KnowsJob(run[r]), NEW s, NEW step \in Steps \ {"acquire-lock"},
             NEW next, Reply(r, s, next),
             next.st = Goto(r, step).st, next.pc = Goto(r, step).pc,
             next.job = Goto(r, step).job, next.repo = Goto(r, step).repo
      PROVE  Goes
  <2>1. next.st = run[r].st /\ next.pc = step /\ next.job = run[r].job /\ next.repo = run[r].repo
    BY <1>1, <1>6, GotoRecord
  <2>2. Carries(run[r], next)
    BY <1>6, <2>1, OnwardsCarries
  <2> QED BY <1>6, <2>2, ReplyCarries
<1> HIDE DEF Goes, Done
<1> SUFFICES Done
  BY DEF Done
<1>7. CASE Start(r)
  <2> DEFINE x == [run[r] EXCEPT !.st = "active"]
  <2>1. /\ x.st = "active" /\ x.pc = "acquire-lock" /\ x.repo = run[r].repo
        /\ run[r].st = "queued" /\ Becomes(r, x)
    BY <1>1, <1>7 DEF Start, RunStates, ShapeOf
  <2>2. Carries(run[r], x)
    <3> HIDE DEF x
    <3> QED BY <2>1 DEF Carries, CreatedNone, KnowsJob, Live
  <2> QED BY <1>2, <1>7, <2>1, <2>2, BecomesCarries DEF Start, Goes
<1>8. CASE AcquireIndexingLock(r)
  <2> DEFINE x == Goto(r, "create-index-job")
  <2>1. /\ Executing(r) /\ run[r].pc = "acquire-lock" /\ UNCHANGED jobs
        /\ Reply(r, "acquire-lock", x) \/ Reply(r, "acquire-lock", Ended)
    BY <1>8 DEF AcquireIndexingLock, At
  <2>2. x.st = run[r].st /\ x.pc = "create-index-job" /\ x.repo = run[r].repo
    BY <1>1, GotoRecord DEF Steps, LockedSteps
  <2> HIDE DEF x
  <2>3. Carries(run[r], x)
    BY <2>1, <2>2 DEF Carries, CreatedNone, KnowsJob, Live, Executing
  <2> QED BY <1>2, <1>4, <2>1, <2>3, ReplyCarries DEF Goes
<1>9. CASE CreateIndexJob(r)
  <2> DEFINE row == [run |-> r, repo |-> run[r].repo, sha |-> None, status |-> "RUNNING"]
             n == Len(jobs) + 1
             x == [Goto(r, "resolve-target") EXCEPT !.job = n]
  <2>1. At(r, "create-index-job") /\ Executing(r) /\ jobs' = Append(jobs, row)
    BY <1>9 DEF CreateIndexJob, At
  <2>2. Len(jobs') = n
    BY <2>1 DEF TypeShape, TypeOK
  <2>3. Reply(r, "create-index-job", x)
    BY <1>9, <2>2 DEF CreateIndexJob
  <2>4. x.st = run[r].st /\ x.pc = "resolve-target" /\ x.job = n /\ x.repo = run[r].repo
    <3> HIDE DEF n
    <3> QED BY <1>1 DEF Goto, RunStates
  <2>5. \E row1 : row1 = row
    OBVIOUS
  <2> HIDE DEF x
  <2>6. ~CreatedNone(x) /\ (KnowsJob(x) => x.job = n) /\ x.repo = run[r].repo
    BY <2>1, <2>4 DEF CreatedNone, KnowsJob, Executing
  <2>7. ~CreatedNone(Ended) /\ ~KnowsJob(Ended) /\ ~Live(Ended)
    BY DEF Ended, Unused, CreatedNone, KnowsJob, Live
  <2>8. /\ ~CreatedNone(Retried(r)) /\ ~KnowsJob(Retried(r))
        /\ Live(Retried(r)) => Retried(r).repo = run[r].repo
    <3>1. /\ Failed(r).st = "failing" /\ Failed(r).pc = "mark-repository-failed"
          /\ Failed(r).repo = run[r].repo
      BY DEF Failed, Unused
    <3>2. CASE Retried(r) = Ended
      BY <2>7, <3>2
    <3>3. CASE Retried(r) = Failed(r)
      BY <3>1, <3>3 DEF CreatedNone, KnowsJob
    <3>4. CASE Retried(r).st \in {"active", "failing"} /\ Retried(r).pc = "create-index-job"
               /\ Retried(r).st = run[r].st /\ Retried(r).repo = run[r].repo
      BY <2>1, <3>4 DEF CreatedNone, KnowsJob, Executing
    <3> QED BY <2>1, <3>2, <3>3, <3>4, RetriedGoesOn DEF At
  <2>9. (\A q \in Runs \ {r} : run'[q] = run[q]) /\ run'[r] \in {x, Ended, Retried(r)}
    BY <2>3, BecomesOnly DEF Reply
  <2>10. /\ ~CreatedNone(run'[r]) /\ (KnowsJob(run'[r]) => run'[r].job = Len(jobs) + 1)
         /\ Live(run'[r]) => run'[r].repo = run[r].repo
    BY <2>6, <2>7, <2>8, <2>9
  <2> QED BY <2>1, <2>9, <2>10, CreatedTraced DEF Done
<1>10. CASE CreateIndexJobRejected(r) \/ ThrowTransient(r) \/ StepThrows(r)
  BY <1>2, <1>3, <1>10 DEF CreateIndexJobRejected, ThrowTransient, StepThrows, At
<1>11. CASE ResolveTarget(r)
  <2> DEFINE c == indexedCommitSha[run[r].repo]
             x == [Goto(r, "resolve-head-sha") EXCEPT !.indexed = c]
  <2>1. /\ Reply(r, "resolve-target", x) /\ Executing(r) /\ run[r].pc = "resolve-target"
        /\ UNCHANGED jobs
    BY <1>11 DEF ResolveTarget, At
  <2>2. /\ x.st = Goto(r, "resolve-head-sha").st /\ x.pc = Goto(r, "resolve-head-sha").pc
        /\ x.job = Goto(r, "resolve-head-sha").job /\ x.repo = Goto(r, "resolve-head-sha").repo
    BY <1>1 DEF Goto, RunStates
  <2>3. "resolve-head-sha" \in Steps \ {"acquire-lock"} /\ KnowsJob(run[r])
    BY <2>1 DEF Steps, LockedSteps, KnowsJob, Executing
  <2> HIDE DEF x
  <2> QED BY <1>2, <1>6, <2>1, <2>2, <2>3
<1>12. CASE ResolveHeadSha(r)
  <2>1. PICK sha \in Shas, step \in {"mark-noop-succeeded", "record-target-sha"} :
               Reply(r, "resolve-head-sha", [Goto(r, step) EXCEPT !.sha = sha])
    BY <1>12 DEF ResolveHeadSha
  <2> DEFINE x == [Goto(r, step) EXCEPT !.sha = sha]
  <2>2. /\ x.st = Goto(r, step).st /\ x.pc = Goto(r, step).pc /\ x.job = Goto(r, step).job
        /\ x.repo = Goto(r, step).repo
    BY <1>1 DEF Goto, RunStates
  <2>3. /\ step \in Steps \ {"acquire-lock"} /\ KnowsJob(run[r]) /\ Executing(r) /\ UNCHANGED jobs
    BY <1>12 DEF Steps, LockedSteps, KnowsJob, Executing, ResolveHeadSha, At
  <2>4. Reply(r, "resolve-head-sha", x)
    BY <2>1
  <2> HIDE DEF x
  <2> QED BY <1>2, <1>6, <2>2, <2>3, <2>4
<1>13. CASE HeadNotAccessible(r)
  BY <1>2, <1>5, <1>13 DEF HeadNotAccessible, At
<1>14. CASE HeadUnavailable(r) \/ RecordPersistProgress(r) \/ MarkIndexed(r)
  <2>1. PICK step \in {"transient-throw", "mark-repository-indexed", "mark-job-succeeded"} :
          \E s : Reply(r, s, Goto(r, step))
    BY <1>14 DEF HeadUnavailable, RecordPersistProgress, MarkIndexed
  <2>2. step \in Steps \ {"acquire-lock"} /\ KnowsJob(run[r]) /\ Executing(r) /\ UNCHANGED jobs
    BY <1>14 DEF Steps, LockedSteps, ReleasedSteps, KnowsJob, Executing, HeadUnavailable,
                 RecordPersistProgress, MarkIndexed, At
  <2> QED BY <1>2, <1>6, <2>1, <2>2
<1>15. CASE MarkSucceededNoOp(r)
  <2>1. /\ At(r, "mark-noop-succeeded") /\ Executing(r) /\ KnowsJob(run[r])
        /\ UpdateJob(run[r].job, "SUCCEEDED", jobs[run[r].job].sha)
        /\ Reply(r, "mark-noop-succeeded", Ended)
    BY <1>15 DEF MarkSucceededNoOp, At, Executing, KnowsJob
  <2>2. Goes
    BY <1>4, <2>1
  <2> QED BY <2>1, <2>2, RecordedTraced DEF Goes, Done
<1>16. CASE RecordTargetSha(r)
  <2>1. /\ At(r, "record-target-sha") /\ Executing(r) /\ KnowsJob(run[r])
        /\ UpdateJob(run[r].job, jobs[run[r].job].status, run[r].sha)
        /\ Reply(r, "record-target-sha", Goto(r, "fetch-extract-persist"))
    BY <1>16 DEF RecordTargetSha, At, Executing, KnowsJob
  <2>2. "fetch-extract-persist" \in Steps \ {"acquire-lock"}
    BY DEF Steps, LockedSteps
  <2>3. Goes
    BY <1>6, <2>1, <2>2
  <2> QED BY <2>1, <2>3, RecordedTraced DEF Goes, Done
<1>17. CASE FetchRefused(r)
  <2>1. Executing(r) /\ UNCHANGED jobs /\ (Becomes(r, Ended) \/ Becomes(r, Failed(r)))
    BY <1>17 DEF FetchRefused, At
  <2> QED BY <1>2, <2>1, EndedCarries, FailedCarries, BecomesCarries DEF Goes
<1>18. CASE RateLimited(r)
  <2> DEFINE x == [Goto(r, "sleep") EXCEPT !.sleeps = @ + 1]
  <2>1. /\ Executing(r) /\ run[r].pc = "fetch-extract-persist" /\ UNCHANGED jobs
        /\ Reply(r, "fetch-extract-persist", x) \/ Reply(r, "fetch-extract-persist", Failed(r))
    BY <1>18 DEF RateLimited, At
  <2>2. /\ x.st = Goto(r, "sleep").st /\ x.pc = Goto(r, "sleep").pc /\ x.job = Goto(r, "sleep").job
        /\ x.repo = Goto(r, "sleep").repo
    BY <1>1 DEF Goto, RunStates
  <2>3. "sleep" \in Steps \ {"acquire-lock"} /\ KnowsJob(run[r])
    BY <2>1 DEF Steps, LockedSteps, KnowsJob, Executing
  <2> HIDE DEF x
  <2>4. Goes
    BY <1>5, <1>6, <2>1, <2>2, <2>3
  <2> QED BY <1>2, <2>1, <2>4
<1>19. CASE WakeUp(r)
  <2> DEFINE x == Goto(r, "fetch-extract-persist")
  <2>1. /\ Executing(r) /\ run[r].pc = "sleep" /\ KnowsJob(run[r]) /\ UNCHANGED jobs
        /\ Becomes(r, Ended) \/ Becomes(r, x)
    BY <1>19 DEF WakeUp, At, KnowsJob, Executing
  <2>2. /\ x.st = run[r].st /\ x.pc = "fetch-extract-persist" /\ x.job = run[r].job
        /\ x.repo = run[r].repo
    BY <1>1, GotoRecord DEF Steps, LockedSteps
  <2> HIDE DEF x
  <2>3. Carries(run[r], x)
    BY <2>1, <2>2, OnwardsCarries
  <2> QED BY <1>2, <2>1, <2>3, EndedCarries, BecomesCarries DEF Goes
<1>20. CASE PersistBegins(r)
  <2>1. \A q \in Runs : /\ run'[q].st = run[q].st /\ run'[q].job = run[q].job
                        /\ run'[q].repo = run[q].repo
                        /\ \/ run'[q].pc = run[q].pc
                           \/ run'[q].pc = "persisting" /\ run[q].pc = "fetch-extract-persist"
    <3> SUFFICES ASSUME NEW q \in Runs
                 PROVE  /\ run'[q].st = run[q].st /\ run'[q].job = run[q].job
                        /\ run'[q].repo = run[q].repo
                        /\ \/ run'[q].pc = run[q].pc
                           \/ run'[q].pc = "persisting" /\ run[q].pc = "fetch-extract-persist"
      OBVIOUS
    <3>1. run[q] \in RunStates
      BY RunTyped
    <3>2. run[r].pc = "fetch-extract-persist"
      BY <1>20 DEF PersistBegins, At
    <3> DEFINE crowd == Persisting(run[r].repo)
    <3>3. run'[q] = CASE q = r -> [run[r] EXCEPT !.pc = "persisting", !.alone = (crowd = {})]
                      [] q \in crowd -> [run[q] EXCEPT !.alone = FALSE]
                      [] OTHER -> run[q]
      BY <1>20 DEF PersistBegins
    <3> HIDE DEF crowd
    <3>4. CASE q = r
      BY <3>1, <3>2, <3>3, <3>4 DEF RunStates
    <3>5. CASE q # r /\ q \in crowd
      BY <3>1, <3>3, <3>5 DEF RunStates
    <3>6. CASE q # r /\ q \notin crowd
      BY <3>3, <3>6
    <3> QED BY <3>4, <3>5, <3>6
  <2>2. Goes
    BY <2>1 DEF Goes, Carries, CreatedNone, KnowsJob, Live
  <2> QED BY <1>2, <1>20, <2>2 DEF PersistBegins
<1>21. CASE PersistEnds(r)
  <2> DEFINE x == [Goto(r, "record-persist-progress") EXCEPT !.alone = TRUE]
  <2>1. /\ Executing(r) /\ run[r].pc = "persisting" /\ UNCHANGED jobs
        /\ Reply(r, "fetch-extract-persist", x)
    BY <1>21 DEF PersistEnds, At
  <2>2. /\ x.st = Goto(r, "record-persist-progress").st /\ x.pc = Goto(r, "record-persist-progress").pc
        /\ x.job = Goto(r, "record-persist-progress").job
        /\ x.repo = Goto(r, "record-persist-progress").repo
    BY <1>1 DEF Goto, RunStates
  <2>3. "record-persist-progress" \in Steps \ {"acquire-lock"} /\ KnowsJob(run[r])
    BY <2>1 DEF Steps, LockedSteps, KnowsJob, Executing
  <2> HIDE DEF x
  <2> QED BY <1>2, <1>6, <2>1, <2>2, <2>3
<1>22. CASE MarkJobSucceeded(r)
  <2>1. /\ At(r, "mark-job-succeeded") /\ Executing(r) /\ KnowsJob(run[r])
        /\ UpdateJob(run[r].job, "SUCCEEDED", jobs[run[r].job].sha)
        /\ Reply(r, "mark-job-succeeded", Goto(r, "emit-repository-indexed"))
    BY <1>22 DEF MarkJobSucceeded, At, Executing, KnowsJob
  <2>2. "emit-repository-indexed" \in Steps \ {"acquire-lock"}
    BY DEF Steps, ReleasedSteps
  <2>3. Goes
    BY <1>6, <2>1, <2>2
  <2> QED BY <2>1, <2>3, RecordedTraced DEF Goes, Done
<1>23. CASE EmitRepositoryIndexed(r)
  BY <1>2, <1>4, <1>23 DEF EmitRepositoryIndexed, At
<1>24. CASE MarkFailed(r)
  <2> DEFINE x == Goto(r, "find-job-for-failure")
  <2>1. run[r].st = "failing" /\ UNCHANGED jobs /\ Reply(r, "mark-repository-failed", x)
    BY <1>24 DEF MarkFailed, FailingAt
  <2>2. x.st = "failing" /\ x.pc = "find-job-for-failure" /\ x.repo = run[r].repo
    BY <1>1, <2>1, GotoRecord DEF Steps, FailureSteps
  <2> HIDE DEF x
  <2>3. Carries(run[r], x)
    BY <2>1, <2>2 DEF Carries, CreatedNone, KnowsJob, Live
  <2> QED BY <1>2, <2>1, <2>3, ReplyCarries DEF Goes
<1>25. CASE FindJobForFailure(r)
  <2>1. FailingAt(r, "find-job-for-failure") /\ run[r].st = "failing" /\ UNCHANGED jobs
    BY <1>25 DEF FindJobForFailure, FailingAt
  <2>2. CASE Reply(r, "find-job-for-failure", Ended)
    BY <1>2, <1>4, <2>1, <2>2
  <2>3. ASSUME NEW j \in DOMAIN jobs, jobs[j].run = r,
               Reply(r, "find-job-for-failure", [Goto(r, "mark-job-failed") EXCEPT !.job = j])
        PROVE  Done
    <3> DEFINE x == [Goto(r, "mark-job-failed") EXCEPT !.job = j]
    <3>1. /\ x.st = "failing" /\ x.job = j /\ x.repo = run[r].repo
          /\ Reply(r, "find-job-for-failure", x)
      BY <1>1, <2>1, <2>3 DEF Goto, RunStates
    <3> HIDE DEF x
    <3>2. CASE Becomes(r, x)
      <4>1. ~CreatedNone(x)
        BY <3>1 DEF CreatedNone
      <4> QED BY <2>1, <2>3, <3>1, <3>2, <4>1, BecomesOnly, FoundTraced DEF Done
    <3>3. CASE Becomes(r, Retried(r))
      BY <1>2, <1>3, <2>1, <3>3
    <3> QED BY <2>1, <3>1, <3>2, <3>3 DEF Reply
  <2> QED BY <1>25, <2>2, <2>3 DEF FindJobForFailure
<1>26. CASE MarkJobFailed(r)
  <2>1. /\ FailingAt(r, "mark-job-failed") /\ run[r].st = "failing" /\ KnowsJob(run[r])
        /\ UpdateJob(run[r].job, "FAILED", jobs[run[r].job].sha)
        /\ Reply(r, "mark-job-failed", Ended)
    BY <1>26 DEF MarkJobFailed, FailingAt, KnowsJob
  <2>2. Goes
    BY <1>4, <2>1
  <2> QED BY <2>1, <2>2, RecordedTraced DEF Goes, Done
<1> QED BY <1>7, <1>8, <1>9, <1>10, <1>11, <1>12, <1>13, <1>14, <1>15, <1>16, <1>17, <1>18, <1>19,
           <1>20, <1>21, <1>22, <1>23, <1>24, <1>25, <1>26 DEF RunStep

(* Whatever fails, repeats, is cancelled or takes another run's lock, the  *)
(* row of a job is written by its own run alone, for its own repository.   *)
THEOREM JobsAlwaysStayWithTheirRuns == Spec => JobsStayWithTheirRuns
<1>1. Init => TracedInv
  BY DEF Init, TracedInv, KnowsJob, Unused
<1>2. TypeShape /\ TracedInv /\ [Next]_vars => TracedInv' /\ [JobStep]_vars
  <2> SUFFICES ASSUME TypeShape, TracedInv, [Next]_vars PROVE TracedInv' /\ JobStep
    OBVIOUS
  <2>1. ASSUME UNCHANGED jobs, \A q \in Runs : Carries(run[q], run'[q])
        PROVE  TracedInv' /\ JobStep
    BY <2>1, CarriedTraced
  <2>2. ASSUME NEW p, NEW preset, Enqueue(p, preset) PROVE \A q \in Runs : Carries(run[q], run'[q])
    <3> DEFINE x == [Unused EXCEPT !.st = "queued", !.repo = p, !.preset = preset]
    <3>1. PICK q \in Runs : run[q].st = "unused" /\ Becomes(q, x)
      BY <2>2 DEF Enqueue
    <3>2. x.st = "queued"
      BY DEF Unused
    <3> HIDE DEF x
    <3>3. Carries(run[q], x)
      BY <3>1, <3>2 DEF Carries, CreatedNone, KnowsJob, Live
    <3> QED BY <3>1, <3>3, BecomesCarries
  <2>3. ASSUME NEW p \in Repos, ConnectRepository(p) \/ TriggerIndex(p) \/ SweepStale(p)
        PROVE  TracedInv' /\ JobStep
    BY <2>1, <2>2, <2>3, EndedCarries DEF ConnectRepository, TriggerIndex, SweepStale
  <2>4. ASSUME NEW q \in Runs, NEW inFlight PROVE Carries(run[q], Cancelled(q, inFlight))
    <3> DEFINE x == [run[q] EXCEPT !.st = "zombie"]
    <3>1. x.st = "zombie" /\ x.pc = run[q].pc /\ x.job = run[q].job /\ x.repo = run[q].repo
      BY RunTyped DEF RunStates
    <3> HIDE DEF x
    <3>2. run[q].st = "active" => Carries(run[q], x)
      BY <3>1 DEF Carries, CreatedNone, KnowsJob, Live
    <3>3. run[q].st = "queued" => Carries(run[q], x)
      BY <3>1, RunTyped DEF Carries, CreatedNone, KnowsJob, Live, ShapeOf
    <3> QED BY <3>2, <3>3, EndedCarries DEF Cancelled, x
  <2>5. ASSUME NEW j \in Projects, CancelRuns(j) PROVE TracedInv' /\ JobStep
    BY <2>1, <2>4, <2>5, EndedCarries DEF CancelRuns
  <2>6. ASSUME NEW r \in Runs, TimeOut(r) PROVE TracedInv' /\ JobStep
    BY <2>1, <2>4, <2>6, BecomesCarries DEF TimeOut
  <2>7. CASE (\E j \in Projects : DeleteProject(j)) \/ GithubChanges \/ UNCHANGED vars
    BY <2>1, <2>7, EndedCarries DEF DeleteProject, GithubChanges, vars
  <2>8. ASSUME NEW r \in Runs, RunStep(r) PROVE TracedInv' /\ JobStep
    BY <2>8, RunStepTraces
  <2> QED BY <2>3, <2>5, <2>6, <2>7, <2>8 DEF Next
<1> QED BY <1>1, <1>2, TypeShapeCorrect, PTL DEF Spec, JobsStayWithTheirRuns
=============================================================================
