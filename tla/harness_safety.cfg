SPECIFICATION Spec
CONSTANTS
  Channels = {a, b}
  MaxEvents = 2
  Created <- MCCreated
  MaxPending = 1
  MaxBatch = 2
  MaxRetries = 1
  DropMode = FALSE
  Agents = 2
  Handlings = {"steer"}
  CrashLimit = 2
  Timers = TRUE
  LateTasks = FALSE
  LazyPool = FALSE
  InitialMessage = FALSE
  MaxFaults = 2
  MaxCommands = 1
SYMMETRY ChannelSymmetry
INVARIANTS Accounted TurnsExclusive
