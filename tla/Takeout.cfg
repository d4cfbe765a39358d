SPECIFICATION FairSpec
CONSTANTS
  NumDialogs = 3
  Kind <- MCKind
  Histories <- MCHistories
  Scopes <- MCScopes
  Tables <- MCTables
  Ranges <- MCRanges
  DialogLimit = 2
  BatchSize = 2
  EnableWatching = FALSE
  Faults = {"ranges", "dialogs", "history", "classify", "engine", "save", "read", "kill"}
  MaxFaults = 1
  MaxRuns = 2
INVARIANTS
  TypeOK
  PrefixIndexed
  PlainExported
PROPERTIES
  ScopeKept
  Ends
CHECK_DEADLOCK FALSE
