\* The persist step is interrupted, and the branch moves back.
CONSTANTS
  p1 = p1  j1 = j1  r1 = r1  r2 = r2  r3 = r3  r4 = r4  s1 = s1  s2 = s2
  Repos = {p1}
  Projects = {j1}
  ProjectOf <- MCOneProject
  Runs = {r1, r2, r3}
  Shas = {s1, s2}
  None = None
  Mixed = Mixed
  MAX_RETRIES = 1
  MAX_RATE_LIMIT_SLEEPS = 1
  Faulty = {"fetch-extract-persist"}
  Throwing = {}
  MayHappen = {"unmovedHead"}
SPECIFICATION Spec
INVARIANTS NoOpOnlyWhenComplete
CHECK_DEADLOCK FALSE
