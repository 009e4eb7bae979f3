SPECIFICATION Spec
CONSTANTS
  None = None
  c1 = c1
  c2 = c2
  c3 = c3
  Calls <- ThreeCalls
  Requests <- ReadmeRequests
  ConditionIds <- MCConditionIds
  Condition <- MCCondition
  PathMatches <- MCPathMatches
  Chain <- ReadmeChain
  Caches = {"files"}
  HashedParts <- FilesByPath
  Ttl <- FilesTtl
  Statuses = {200, 403}
  OriginBodies = {"text"}
  MaxEpoch = 2
  EpochModulus = 8
SYMMETRY Symmetry
INVARIANTS
  TypeOK
  StoredIsOwn
  HeaderTellsStatus
PROPERTIES
  HitsAreFresh
  MissFillsCache
  FreshResponseKept
  KeepsPromise
