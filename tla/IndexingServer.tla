---------------------------- MODULE IndexingServer ----------------------------
(***************************************************************************)
(* What the API and its indexing runs make of one repository, as a reader  *)
(* of index-status sees it: its row, and the latest of its IndexJob rows.  *)
(* No runs, retries or other jobs: the job is written after the row, so a  *)
(* status can be served that the row has left behind, and the next run may *)
(* lock the row before the job of the last one says how it ended.          *)
(* IndexLifecycle implements this for each repository while its runs are   *)
(* not stopped; StatusPoller reads it.                                     *)
(***************************************************************************)

VARIABLES
  row,     \* Repository.indexStatus; "ABSENT" before the row exists
  job,     \* the status of its latest IndexJob, or "none"
  result   \* what the run of that job made of the repository so far

serverVars == <<row, job, result>>

(* getIndexStatus: the job's status, whose names are not the row's.        *)
served == IF job = "none" THEN row ELSE job

ServerInit == row = "ABSENT" /\ job = "none" /\ result = "none"

Connect ==
  /\ row = "ABSENT"
  /\ row' = "PENDING"
  /\ UNCHANGED <<job, result>>

AcquireLock ==
  /\ row \in {"PENDING", "FAILED", "INDEXED"}
  /\ row' = "INDEXING"
  /\ UNCHANGED <<job, result>>

(* The holder of the lock creates its job.                                 *)
CreateJob ==
  /\ row = "INDEXING" /\ result # "RUNNING"
  /\ job' = "RUNNING" /\ result' = "RUNNING"
  /\ UNCHANGED row

(* The holder, whose job exists, gives the lock back.                      *)
MarkRepository ==
  /\ row = "INDEXING" /\ result = "RUNNING"
  /\ \/ row' = "INDEXED" /\ result' = "SUCCEEDED"
     \/ row' = "FAILED" /\ result' = "FAILED"
  /\ UNCHANGED job

(* It settles its job, whatever became of the row meanwhile.               *)
MarkJob ==
  /\ job = "RUNNING" /\ result # "RUNNING"
  /\ job' = result
  /\ UNCHANGED <<row, result>>

ServerNext == Connect \/ AcquireLock \/ CreateJob \/ MarkRepository \/ MarkJob

ServerSpec == ServerInit /\ [][ServerNext]_serverVars
=============================================================================
