SPECIFICATION Spec
CONSTANTS
  Chats = {c1, c2}
  Kinds = {text}
  NoChat = NoChat
  PerSearchLimit = 2
  MaxPages = 1
  Keys = {k1}
  Workers = {w1}
  Master = Master
  Nobody = Nobody
  ProtectedSettings = {TRUE}
  ForeignKeySettings = {TRUE}
  NoKey = NoKey
  Idle = Idle
INVARIANT
  EverythingInScope
