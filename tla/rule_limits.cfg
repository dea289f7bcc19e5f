SPECIFICATION Spec
CONSTANTS
  Org = {o1, o2}
  Key = {k1, k2}
  Ids = {i1, i2, i3}
  Worker = {w1, w2}
  GlobalLimit = 2
  Limits = {0, 1}
  NoRule = NoRule
SYMMETRY Symmetry
INVARIANTS
  TypeOK
  OrgOverrunBounded
  TwinsBounded
