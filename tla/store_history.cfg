\* Whole records lost on power loss, crashes and failed appends; fair scheduling.
SPECIFICATION FairSpec
CONSTANTS
  alice = alice
  d0 = d0
  c1 = c1
  c2 = c2
  Authors <- MCAuthors
  Tags <- MCTags
  Events <- MCDurable
  Valid <- MCDurable
  Clients <- MCClients
  NoEvent = NoEvent
  Glued = Glued
  TornWrites = FALSE
  PowerLosses = TRUE
  MaxLog = 2
  MaxFaults = 2
PROPERTIES HeadsKept ImplementsHistory CallsReturn Recovers
