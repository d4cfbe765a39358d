SPECIFICATION Spec
CONSTANTS
  Chats = {c1, c2}
  Kinds = {text}
  NoChat = NoChat
  PerSearchLimit = 2
  MaxPages = 1
  Keys = {k1}
  Workers = {w1}
  Master = Master
  Nobody = Nobody
  ProtectedSettings = {TRUE, FALSE}
  ForeignKeySettings = {TRUE, FALSE}
  NoKey = NoKey
  Idle = Idle
INVARIANTS
  TypeOK
  ScopeHolds
  RevokedGetNothing
  SubKeysUndisturbed
PROPERTY
  ImplementsAccess
