SPECIFICATION FairSpec
CONSTANTS
  Channels = {c1}
  Common = common
  SliceSize = 1
  PageSize = 1
  Faults = {"api", "engine", "save", "kill", "jump"}
  MaxEvents = 3
  MaxStops = 1
CHECK_DEADLOCK FALSE
INVARIANTS
  TypeOK
  CursorHonest
  CaughtUp
PROPERTIES
  LoopsEnd
