SPECIFICATION Spec
CONSTANTS
  None = None
  c1 = c1
  c2 = c2
  c3 = c3
  Calls <- TwoCalls
  Requests <- SplitRequests
  ConditionIds <- MCConditionIds
  Condition <- MCCondition
  PathMatches <- MCPathMatches
  Chain <- SplitChain
  Caches = {"metadata", "packages"}
  HashedParts <- SplitParts
  Ttl <- SplitTtl
  Statuses = {200, 403}
  OriginBodies = {"json"}
  MaxEpoch = 1
  EpochModulus = 8
PROPERTIES
  FreshResponseKept
