\* A pusher that may stop in the middle of a cursor write, run again after each failure.
SPECIFICATION FairSpec
CONSTANTS
  alice = alice
  d0 = d0
  Authors <- MCAuthors
  Tags <- MCTags
  Events <- MCEvents
  Exported <- MCExported
  Size <- MCSize
  Others <- MCOthers
  Policies <- MCPolicies
  BatchSize = 2
  BatchBytes = 8
  Base = 2
  TornCursor = TRUE
  PowerLosses = FALSE
  MaxJournal = 3
  MaxFaults = 2
INVARIANTS TypeOK NoSilentGap RequestsProgress CheckpointAdvances
PROPERTY Converges
