\* The event a finished run sends at the end may fail.
CONSTANTS
  p1 = p1  j1 = j1  r1 = r1  r2 = r2  r3 = r3  r4 = r4  s1 = s1  s2 = s2
  Repos = {p1}
  Projects = {j1}
  ProjectOf <- MCOneProject
  Runs = {r1, r2, r3, r4}
  Shas = {s1}
  None = None
  Mixed = Mixed
  MAX_RETRIES = 1
  MAX_RATE_LIMIT_SLEEPS = 1
  Faulty = {"emit-repository-indexed"}
  Throwing = {}
  MayHappen = {"unmovedHead"}
SPECIFICATION Spec
INVARIANTS OneIndexer
CHECK_DEADLOCK FALSE
