SPECIFICATION Spec
CONSTANTS
  Net <- Halves
  RuleNets <- OnlyWhole
  WhitelistNets <- OnlyLeft
  Ids = {i1, i2}
  FlowIds = {}
  Community = {c}
  AllowedCommunities = {c}
  MaxTime = 1
  MaxNow = 0
  Retention = 0
  MaxRows = 2
  MaxCopies = 1
  NoRule = NoRule
  NoWhitelist = NoWhitelist
SYMMETRY IdSymmetry
INVARIANTS WhitelistedIsNotAnnounced
CHECK_DEADLOCK FALSE
