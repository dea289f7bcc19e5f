SPECIFICATION Spec
CONSTANTS
  Key = {k1, k2}
  Fragment = {f1}
  Ids = {i1, i2}
  Worker = {w1, w2}
  MaxTime = 1
  MaxNow = 1
  Retention = 0
  MaxCrashes = 1
  NoRule = NoRule
SYMMETRY RouteSymmetry
CONSTRAINT SomeUndisturbed
INVARIANTS
  TypeOK
  ValidIsAnnounced
  AnnouncedIsActive
PROPERTY
  KeepsPromise
