SPECIFICATION FairSpec
CONSTANTS
  Channels = {a, b}
  MaxEvents = 2
  Created <- MCCreated
  MaxPending = 2
  MaxBatch = 1
  MaxRetries = 1
  DropMode = FALSE
  Agents = 1
  Handlings = {"queue", "steer", "interrupt"}
  CrashLimit = 2
  Timers = TRUE
  LateTasks = TRUE
  LazyPool = TRUE
  InitialMessage = TRUE
  MaxFaults = 2
  MaxCommands = 0
PROPERTIES Settles
