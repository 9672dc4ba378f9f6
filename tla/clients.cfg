\* The programs of one invocation: pairing, the pair relay, buzz-cli, the git helpers.
SPECIFICATION Spec
CONSTANTS
  Source = "s"
  Targets = {"t", "u"}
  NoDevice = "none"
  MaxFaults = 1
  MaxStray = 1
  MaxConns = 2
  ChannelCap = 2
  MaxPerP = 2
  DedupCap = 3
  MapCap = 1
  Ttl = 3
  Freshness = 1
  RateWindow = 2
  RateMsgMax = 3
  RateEventMax = 3
  Nodes = {"m", "n"}
  MaxEvents = 7
  MaxTargets = 2
  MaxAttempts = 3
  PageSize = 2
  Writers = {1, 2, 3}
  MaxDamage = 1
  RepoIds = {3, 4, 5, 6}
  MaxRules = 2
  MaxWildcards = 1
  MaxTtl = 8
  MaxReruns = 1
  Uris = {"u1", "u2", "u3"}
  MentionCap = 2
  MaxDiff = 6
  Notice = 1
  ThreadLimit = 2
  ThreadMax = 3
  SearchLimit = 2
  MaxMessages = 5
INVARIANTS
  PairedAgree
  PairRelayExact
  WritesTrue
PROPERTIES
  PairingCompletes
  HandoffsEvidenced
  ContextKept
  GitFaithful
  ChannelsTrue
CHECK_DEADLOCK FALSE
