SPECIFICATION Spec
CONSTANTS
  Net <- Halves
  RuleNets <- OnlyWhole
  WhitelistNets <- OnlyLeft
  Ids = {i1, i2}
  FlowIds = {i1, i2}
  Community = {c}
  AllowedCommunities = {c}
  MaxTime = 1
  MaxNow = 1
  Retention = 0
  MaxRows = 2
  MaxCopies = 1
  NoRule = NoRule
  NoWhitelist = NoWhitelist
SYMMETRY IdSymmetry
CONSTRAINT FewAtOnce
INVARIANTS TypeOK ActiveIsAnnounced CacheSound PartsAreTracked
PROPERTIES NewWhitelistSilencesRules SplitLeavesNoGap DeletedRuleIsWithdrawn
CHECK_DEADLOCK FALSE
