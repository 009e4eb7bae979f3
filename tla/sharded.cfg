SPECIFICATION Spec
CONSTANTS
  None = None
  Threads = {t}
  a = a
  b = b
  c = c
  Keys <- MCKeys
  Values = {v, w}
  NumShards = 2
  ShardOf <- MCShardOf
  ProbatorySize = 1
  ResidentSize = 1
  Expiration = 1
  MaxClock = 2
INVARIANTS
  TypeOK
  SecondAddAdmits
PROPERTIES
  LenIsPlausible
  ValueStays
