SPECIFICATION FairSpec
CONSTANTS
  Net <- WholeAndLeft
  RuleNets <- OnlyLeft
  WhitelistNets <- WholeAndLeft
  Ids = {i1}
  FlowIds = {}
  Community = {c, d}
  AllowedCommunities = {c}
  MaxTime = 1
  MaxNow = 1
  Retention = 0
  MaxRows = 3
  MaxCopies = 1
  NoRule = NoRule
  NoWhitelist = NoWhitelist
INVARIANTS ActiveIsAnnounced OnlyAllowedAreWhitelisted
PROPERTIES
  OtherWhitelistStillHolds
  ExpiredRuleIsWithdrawn
  ExpiredWhitelistIsDeleted
CHECK_DEADLOCK FALSE
