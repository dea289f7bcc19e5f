SPECIFICATION SplitSpec
CONSTANTS
  Net <- Quarters
  RuleNets <- BlockAndHalf
  WhitelistNets <- QuarterAndHalf
  Ids = {i1, i2, i3, i4}
  FlowIds = {}
  Community = {c}
  AllowedCommunities = {c}
  MaxTime = 1
  MaxNow = 0
  Retention = 0
  MaxRows = 5
  MaxCopies = 1
  NoRule = NoRule
  NoWhitelist = NoWhitelist
SYMMETRY IdSymmetry
INVARIANTS CacheSound PartsAreTracked
PROPERTIES OtherWhitelistStillHolds NewWhitelistSilencesRules SplitLeavesNoGap
CHECK_DEADLOCK FALSE
