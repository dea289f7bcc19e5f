SPECIFICATION Spec
CONSTANTS
  Net = {x1, x2}
  Ids = {i1, i2}
  CommunityIds = {c1, c2}
  n1 = n1
  n2 = n2
  ca = ca
  cb = cb
  Comm = {none, ca, cb}
  NoComm = none
  Rows <- SomeRows
  Path = {p}
  NoPath = NoPath
  Neighbor = {n1, n2}
  Keyed = {ca}
  NeighborsOf <- OwnNeighbors
  Primary = {n2}
  NoRule = NoRule
  NoCommunity = NoCommunity
  NoRoute = NoRoute
SYMMETRY Symmetry
CONSTRAINT SomeFirm
INVARIANTS
  TypeOK
  NeighborsKnowTheRules
  RulesHaveCommunity
PROPERTY
  DeletedIsWithdrawn
