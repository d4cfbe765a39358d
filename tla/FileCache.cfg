SPECIFICATION FairSpec
CONSTANTS
  Requests = {r1, r2}
  Size = 2
  SizeKnown = TRUE
  Settings = {TRUE, FALSE}
  MaxInFlight = 2
  MaxCrashes = 1
INVARIANTS
  TypeOK
PROPERTIES
  ImplementsBlob
  LeftoversGo
