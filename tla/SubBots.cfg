SPECIFICATION Spec
CONSTANTS
  Chats = {c1, c2}
  Senders = {u1, c1, b1}
  Busy = {c1}
  Bots = {b1}
  Users = {u1, admin}
  Admins = {admin}
  Handlers = {h1, h2}
  Offers = {{c1}, {c2}}
  MaxRestarts = 1
  NoRow = NoRow
  Unsure = Unsure
  Idle = Idle
INVARIANTS
  TypeOK
  ConfirmedLasts
  ListMatches
  StrangersConfined
