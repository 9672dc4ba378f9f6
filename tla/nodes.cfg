\* The nodes: the laptop relay, requests to it, the processes that follow a
\* rendezvous, the rendezvous.
SPECIFICATION Spec
CONSTANTS
  k1 = k1
  r1 = r1
  Owner = "own"
  Window = 1
  Tolerance = 1
  Retention = 2
  MaxFaults = 2
  Submits = {"a", "b", "e"}
  Creates = {"b"}
  Ephemerals = {"e"}
  Sockets = {k1}
  Responses = {r1}
  Capacity = 2
  MaxSilent = 1
  Batch = 2
  Radix = 3
  Pulls = {p1, p2}
  NoBlob = "none"
  Conns = {"c1", "c2"}
  MaxSubs = 1
  MaxDrops = 1
INVARIANTS
  SubscribersServed
  SyncCovered
PROPERTIES
  Witnessed
  OnceAndWhole
  Follows
CHECK_DEADLOCK FALSE
