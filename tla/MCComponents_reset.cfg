\* Tarball downloads that GitHub limits: does a run wait until the limit resets?
SPECIFICATION SumSpec
CONSTANTS
  ACTIVE = {"fetch"}
  Rebuilds = {r1, r2}
  Commits = {"c1", "c2"}
  Paths = {"p1", "p2"}
  Names = {"f", "g"}
  NoCommit = none
  NoRow = norow
  Null = null
  Tree <- GraphTree
  Source <- GraphSource
  IMPORTABLE = {"x1", "x2"}
  ROW_BATCH = 1
  BATCH_SIZES <- GraphBatchSizes
  ATTEMPTS = 1
  CONCURRENCY = 2
  Calls = {"q1", "q2"}
  Processes = {"api"}
  ProcessOf <- MCProcessOf
  LIFETIME = 7
  CACHE_TTL = 1
  MARGIN = 1
  SKEWS <- MCSkews
  LATENCY = 1
  MINT_ATTEMPTS = 2
  WAITS = {1, 4}
  MAX_WAIT = 1
  MAX_RETRIES = 1
  RETRY_WAIT = 0
  RETRIES = 1
  HORIZON = 6
  Absent = absent
  Reads = {"r1", "r2"}
  Bodies = {"b1", "b2"}
  READ_RETRIES = 1
  Nothing = nothing
  FETCH_RETRIES = 1
  Hits = {h1, h2}
  LIMIT = 1
  WINDOW = 2
  MAX_TIME = 4
  Requests = {q1, q2}
  ProjectNames = {"API", "API 3"}
  WORDS = {"api"}
  slugify <- MCSlugify
  PAGE = 1
  MAX_PROJECTS = 3
  SAFE = 4
  Parses = {c1, c2, c3}
  Languages = {"typescript", "tsx"}
  MAX_RATE_LIMIT_SLEEPS = 2
  FETCH_STEP_RETRIES = 1
  DEFAULT_WAIT = 3
  LIMITS = {1, 2}
  LAST_SECOND = 4
  Attempts = {a1, a2}
  ARCHIVES <- MCArchives
  INDEX_MAX_TOTAL_BYTES = 3
  INDEX_MAX_FILE_COUNT = 2
  SIZE_CAP_BYTES = 1
  READ_AHEAD = 1
  PACKAGES <- MCPackages
  TSCONFIGS <- MCTsconfigs
  BUILTINS <- MCBuiltins
  NoPath = nopath
  Files <- MCFiles
  MayHold <- MCMayHold
  Specifiers <- MCSpecifiers
  NoName = noname
  CALL_AMBIGUITY_MAX_CANDIDATES = 2
PROPERTY WaitsForReset
CHECK_DEADLOCK FALSE
