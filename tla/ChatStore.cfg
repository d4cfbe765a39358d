SPECIFICATION Spec
CONSTANTS
  Channels = {c1}
  Privates = {}
  Msgs = {m1}
  BotProcs = {b1, b2}
  LiveProcs = {l1, l2}
  Commands = {"watch", "unwatch", "unwatchdel", "apikey"}
  MaxInFlight = 2
  Faults = {"read", "commit", "insert", "delete", "engine", "crash"}
  NoMsg = NoMsg
  Idle = Idle
SYMMETRY Symmetry
INVARIANTS
  TypeOK
  WatchedAreIndexed
  IndexedMirrorRows
  WatchedAreBacked
  CommandsStick
  DocsHaveRows
PROPERTIES
  ProtectedDocuments
  UnwatchedGainNothing
