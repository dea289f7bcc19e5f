SPECIFICATION Spec
CONSTANTS
  Net <- OnlyLeft
  RuleNets <- OnlyLeft
  WhitelistNets <- OnlyLeft
  Ids = {i1}
  FlowIds = {}
  Community = {c}
  AllowedCommunities = {c}
  MaxTime = 2
  MaxNow = 1
  Retention = 0
  MaxRows = 2
  MaxCopies = 1
  NoRule = NoRule
  NoWhitelist = NoWhitelist
PROPERTIES CleaningSparesUnexpired
CHECK_DEADLOCK FALSE
