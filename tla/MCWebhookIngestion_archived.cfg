SPECIFICATION Spec
CONSTANTS
  t1 = t1 t2 = t2 g1 = g1 i1 = i1 j1 = j1 j2 = j2 s1 = s1 s2 = s2 q1 = q1 q2 = q2
  Rows = {t1}
  GithubRepos = {g1}
  Installations = {i1}
  Projects = {j1}
  GithubRepoOf <- MCGithubRepoOf
  InstallationOf <- MCInstallationOf
  ProjectOf <- MCProjectOf
  Shas = {s1}
  None = None
  MAX_DELIVERIES = 3
  GithubMay = {"archived", "suspend", "unsuspend"}
  Requests = {q1}
  UsersMay = {}
  ReviewsDrafts = {}
  SWEEP_BATCH_LIMIT = 1
  SLOW_REQUESTS = FALSE
INVARIANTS ArchivedIsNotActive
CHECK_DEADLOCK FALSE
