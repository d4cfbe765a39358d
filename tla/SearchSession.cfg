SPECIFICATION Spec
CONSTANTS
  Chats = {c1, c2}
  Kinds = {text}
  NoChat = NoChat
  PerSearchLimit = 1
  MaxPages = 2
  Groups = {c2}
  Admins = {admin}
  Strangers = {user}
  Joined = {c1}
  SubChats = {c1}
  Volatile = {c1}
  Ids = {1, 2, 3, 4}
  Presses = {p1, p2}
  Nothing = Nothing
SYMMETRY Symmetry
CHECK_DEADLOCK FALSE
INVARIANTS
  TypeOK
  KeyboardHonest
  StaysEntitled
  PromptKept
