SPECIFICATION Spec
CONSTANTS
  Org = {o1}
  Key = {k1, k2}
  Ids = {i1, i2}
  Worker = {w1}
  GlobalLimit = 1
  Limits = {0, 1}
  NoRule = NoRule
PROPERTY
  ReactivationObeysGlobalLimit
