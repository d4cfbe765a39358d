SPECIFICATION Spec
CONSTANTS
  NumDialogs = 3
  Kind <- UserKind
  Histories <- MCHistories
  Scopes <- UserScopes
  Tables <- MCTables
  Ranges <- MCRanges
  DialogLimit = 2
  BatchSize = 2
  EnableWatching = FALSE
  Faults = {}
  MaxFaults = 0
  MaxRuns = 1
INVARIANTS
  AllExported
CHECK_DEADLOCK FALSE
