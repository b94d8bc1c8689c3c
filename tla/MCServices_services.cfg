\* The components, each by itself; at most one fault of any kind in a publication.
SPECIFICATION Spec
CONSTANTS
  Parts = {"publication", "alert", "user", "runner", "model", "sandbox", "problem",
    "budget", "browser", "page", "uploads", "inbox", "stage", "monitor", "books",
    "advice", "tree", "cache", "reports", "probes", "replies", "queries", "request",
    "incremental", "results", "keys", "creation", "detail",
    "fetch", "dataset"}
  w1 = w1
  w2 = w2
  c1 = c1
  Workers = {w1, w2}
  Clients = {c1}
  MaxRevs = 2
  MaxFiles = 3
  MaxTries = 1
  MaxAsks = 1
  FaultKinds = {"crash", "storage", "transport", "commit", "loss", "death", "repeat"}
  MaxFaults = 1
  Dispatchers = {w1, w2}
  Lease = 2
  Retries = 1
  MaxNow = 4
  MaxRenewals = 1
  p1 = p1
  p2 = p2
  Requests = {p1, p2}
  DayLimit = 2
  MonthLimit = 3
  RateLimit = 2
  LiveLimit = 1
  MaxTokens = 2
  MaxDay = 1
  Tasks = {1, 2}
  NUnits = 3
  FirstGroup = 2
  MaxWorkers = 2
  Kinds = {"experiment", "abtest", "suite"}
  MaxRuns = 3
  t1 = t1
  t2 = t2
  Threads = {t1, t2}
  MaxCalls = 2
  TokenBudget = 2
  PerCall = 2
  Attempts = 2
  MaxProblems = 1
  Cap = 2
  Chunk = 2
  MaxBytes = 3
  a = a
  b = b
  NoCode = NoCode
  Codes = {a, b}
  Strategies = {"single", "rounds", "reflexion", "votes", "tree"}
  MaxRounds = 3
  Dear = {1, 2, 3}
  CappedGroup = {1, 2}
  RunCap = 3
  GroupCap = 2
  Thresholds = {1, 3}
  MaxLogins = 2
  e1 = e1
  e2 = e2
  Evaluations = {e1, e2}
  MaxReconnects = 1
  MaxRecoveries = 2
  MaxMutations = 1
  f1 = f1
  s1 = s1
  s2 = s2
  Files = {f1}
  Sweepers = {s1, s2}
  Ttl = 1
  Timeout = 1
  MaxTime = 2
  FileFaults = {"audit", "unlink", "crash"}
  MaxFileFaults = 1
  Completions = {1, 3}
  Alerts = {2}
  Standing = {1}
  PageSize = 1
  Filters = {"all", "budget_alert"}
  MaxAsked = 2
  MaxRequests = 2
  NTests = 2
  Size = 3
  Sources = {p1, p2}
  Retention = 1
  MaxRows = 1
  Windows = {1}
  MaxSamples = 2
  MaxClock = 3
  MaxLosses = 1
  u1 = u1
  u2 = u2
  easy = easy
  hard = hard
  n1 = n1
  n2 = n2
  BookUnits = {u1, u2}
  Levels = {easy}
  Labels = {n1, n2}
  Amount = 2
  MaxRecords = 2
  Caps = {2}
  MaxWrites = 2
  Combos = {1, 2}
  Layers = {easy, hard}
  MaxHistory = 3
  Budgets = {1, 2}
  Bars = {50}
  Searches = {"bfs", "dfs"}
  Branching = 2
  MaxDepth = 2
  Top = 2
  Neutral = 1
  Threshold = 1
  k1 = k1
  k2 = k2
  Users = {1, 2}
  Keys = {k1, k2}
  CacheLimit = 1
  CacheTtl = 2
  MaxOps = 3
  MaxOverlaps = 1
  m1 = m1
  m2 = m2
  Models = {m1, m2}
  MaxEdits = 1
  MaxStops = 1
  Callers = {1, 2, 3}
  ProbeTtl = 1
  ProbeLimit = 1
  MaxTicks = 2
  h1 = h1
  h2 = h2
  q1 = q1
  q2 = q2
  b1 = b1
  b2 = b2
  Hosts = {h1, h2}
  MaxHeard = 2
  Queues = {q1, q2}
  Steps = 2
  Boxes = {b1, b2}
  MaxItems = 1
  MaxReplies = 3
  QueryCount = 3
  KeptRows = 1
  Lasting = 2
  Spans = {1, 2, 3}
  QueryClock = 3
  MaxFailures = 1
  ModelClients = {1, 2}
  Varied = {"endpoints", "price", "content"}
  RunProblems = {1, 2}
  RunProcs = {1, 2}
  RunModels = {"m1"}
  MaxVersion = 2
  MaxTogether = 2
  MaxEvents = 2
  ReportKinds = {"fixed", "selector", "plain"}
  RecommendLimit = 2
  Askers = {1, 2}
  MaxSecrets = 2
  Catalog = 4
  PageOf = 2
  MaxListed = 5
  Stores = {"evaluation", "experiment"}
  Drafts = {1, 2}
  MaxOperations = 4
  MaxSessions = 2
  Pages = {"detail", "result"}
  MaxTurns = 2
  MaxAttempts = 2
  MaxReads = 5
  MaxDenials = 2
  FetchCount = 2
  FetchRetries = 1
  FetchRounds = 2
  DatasetCommands = {1, 2}
  MaxKills = 1
INVARIANTS TypeOK RegistryIsTrue LeaseIsExclusive AccountHolds RunIsWhole CallsAreCharged
INVARIANTS RunIsClean ResultIsEarned BudgetIsRespected PageIsAlive NotesAreTrue CompleteIsComplete
PROPERTIES LateFailureIsHarmless SavedIsFinal SessionIsOwn
CHECK_DEADLOCK FALSE
