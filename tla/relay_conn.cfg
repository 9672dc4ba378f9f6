SPECIFICATION FairSpec
CONSTANTS
  Channels = {a}
  Watermark = 1
  Skew = 0
  SeenLimit = 4
  ObserverCap = 1
  EventCap = 1
  MaxEvents = 2
  MaxTime = 2
  FlipsToPrivate = FALSE
  Workloads <- MCWorkloads
PROPERTIES
  NothingTwice
  ConnectionRecovers
