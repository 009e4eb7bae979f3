SPECIFICATION Spec
CONSTANTS
  None = None
  Keys = {k1, k2, k3}
  Values = {a, b}
  MaxSize = 2
  Expiration = 1
  MaxClock = 3
INVARIANTS
  TypeOK
  MapMatchesList
  SizeBounded
  SlidingInOrder
PROPERTIES
  EvictsLeastRecent
