SPECIFICATION Spec
CONSTANTS
  Channels = {}
  Privates = {c1}
  Msgs = {m1}
  BotProcs = {b1}
  LiveProcs = {l1}
  Commands = {"unwatch", "apikey"}
  MaxInFlight = 1
  Faults = {}
  NoMsg = NoMsg
  Idle = Idle
PROPERTY
  UnwatchedStayOut
