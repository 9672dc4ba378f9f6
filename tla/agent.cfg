\* An agent: buzz-agent, the developer tools, and buzz-acp around it.
SPECIFICATION Spec
CONSTANTS
  p1 = p1
  p2 = p2
  s1 = s1
  n1 = n1
  n2 = n2
  Prompts = {p1, p2}
  Steers = {s1}
  News = {n1, n2}
  Workloads <- MCWorkloads
  DefaultModel = "default"
  MaxSessions = 2
  MaxHandoffs = 1
  StopMaxRejections = 1
  MaxToolCalls = 2
  MaxParallel = 1
  Servers = 1
  ImageBytes = 60
  ImageTokens = 20
  MaxHistory = 70
  MaxContext = 80
  MaxOutput = 10
  HandoffOutput = 20
  Tools = {t1, t2}
  Hooks = {h1}
  MaxAttempts = 2
  MaxProcs = 3
  MaxCalls = 4
  Requests = {r1, r2}
  MaxRetries = 2
  EnableAfter = 2
  MaxObserved = 3
  MaxFaults = 2
  MaxExpiries = 1
  MaxIds = 5
  MaxTokens = 4
  Turns = {1, 2}
  BufferCap = 4
  MaxText = 3
  Interval = 1
  Limit = 2
  Window = 4
  MaxTime = 7
  MaxEvals = 2
  MaxTimeouts = 2
  MaxCached = 2
  Freshness = 2
  MaxName = 5
  Calls = {1, 2}
  CaptureCap = 4
  MaxBytes = 2
  MaxLines = 1
  TailBytes = 2
  RingSize = 2
  MaxFile = 5
  MaxItems = 2
  MaxSource = 8
  MaxFinal = 6
  MaxPixels = 25
  MinDim = 2
  MaxDim = 4
  Rooms = {"a", "b", "d"}
INVARIANTS
  RequestsWellFormed
  NothingLeftOver
  WireAccounted
  ObserverFaithful
  PersonasResolved
  ToolsTruthful
PROPERTIES
  PromptsAnswered
  ProviderUse
  GateDecides
CHECK_DEADLOCK FALSE
