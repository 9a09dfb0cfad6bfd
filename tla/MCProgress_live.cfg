\* Fairness and job rows: the lock may change hands reliably, the steps under
\* it may fail, requests may be dropped, and GitHub may go down; and the rows
\* of webhook deliveries, under failing sweeps.
CONSTANTS
  p1 = p1  j1 = j1  r1 = r1  r2 = r2  r3 = r3  r4 = r4  s1 = s1  s2 = s2
  t1 = t1  g1 = g1  i1 = i1  q1 = q1
  Repos = {p1}
  Projects = {j1}
  ProjectOf <- MCOneProject
  Runs = {r1, r2}
  Shas = {s1, s2}
  None = None
  Mixed = Mixed
  MAX_RETRIES = 3
  MAX_RATE_LIMIT_SLEEPS = 5
  Faulty = {"resolve-target", "record-target-sha", "fetch-extract-persist", "record-persist-progress"}
  Throwing = {"mark-repository-indexed"}
  MayHappen = {"dropEvent", "outage"}
SPECIFICATION ProgressSpec
INVARIANTS ApiStatusAgrees LockHasAnOwner
PROPERTIES ImplementsIndexingServer TerminalJobsStay PendingIsHealed IndexingEnds EveryRowSettles
CHECK_DEADLOCK FALSE
