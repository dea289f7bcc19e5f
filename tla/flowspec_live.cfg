SPECIFICATION FairSpec
CONSTANTS
  Key = {k1}
  Fragment = {f1, f2}
  Ids = {i1}
  Worker = {w1, w2}
  MaxTime = 1
  MaxNow = 1
  Retention = 0
  MaxCrashes = 2
  NoRule = NoRule
PROPERTIES
  RestartIsRepaired
