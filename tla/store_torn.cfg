SPECIFICATION Spec
CONSTANTS
  alice = alice
  d0 = d0
  c1 = c1
  c2 = c2
  Authors <- MCAuthors
  Tags <- MCTags
  Events <- MCEvents
  Valid <- MCValid
  Clients <- MCClients
  NoEvent = NoEvent
  Glued = Glued
  TornWrites = TRUE
  PowerLosses = FALSE
  MaxLog = 3
  MaxFaults = 3
SYMMETRY ClientSymmetry
INVARIANT AcknowledgedRecoverable
