SPECIFICATION Spec
CONSTANTS
  UserIds = {u1, u2}
  OrgIds = {o1, o2}
  Ids = {i1, i2, i3}
  KeyIds = {k}
  Net <- Networks
  RangeNet <- OnlyNarrow
  Zero = 0
  Level = {2, 3}
  MaxEdits = 2
  NoUser = NoUser
  NoOrg = NoOrg
  NoRule = NoRule
  NoKey = NoKey
  NoSession = NoSession
  NoToken = NoToken
  Gone = Gone
SYMMETRY Symmetry
CONSTRAINTS RulesOrKeys OneClient FewRules RestIsPart
INVARIANTS
  TypeOK
  OwnersExist
  OwnersBelong
PROPERTY
  DeletedByRight
