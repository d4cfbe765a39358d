SPECIFICATION Spec
CONSTANTS
  Chats = {c1, c2}
  Ids <- MCIds
  Stores <- MCStores
  Busy = {c1}
  Batch = 1
  MaxLive = 2
  MaxRuns = 2
  MaxTasks = 2
  Gone = Gone
  NoChat = NoChat
CHECK_DEADLOCK FALSE
INVARIANTS
  TypeOK
  NothingLost
  Migrated
  Configured
