SPECIFICATION Spec
CONSTANTS
  alice = alice
  d0 = d0
  Authors <- MCAuthors
  Tags <- MCTags
  Events <- MCEvents
  Exported <- MCExported
  Size <- MCSize
  Others <- MCOthers
  Policies <- MCPolicies
  BatchSize = 2
  BatchBytes = 8
  Base = 2
  TornCursor = FALSE
  PowerLosses = TRUE
  MaxJournal = 3
  MaxFaults = 2
INVARIANT NoSilentGap
