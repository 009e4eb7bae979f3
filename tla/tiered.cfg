SPECIFICATION FairSpec
CONSTANTS
  None = None
  c1 = c1
  c2 = c2
  c3 = c3
  Calls <- TwoCalls
  Requests <- TieredRequests
  ConditionIds <- MCConditionIds
  Condition <- MCCondition
  PathMatches <- MCPathMatches
  Chain <- TieredChain
  Caches = {"outer", "inner"}
  HashedParts <- TieredParts
  Ttl <- TieredTtl
  Statuses = {200, 403}
  OriginBodies = {"json", "garbled"}
  MaxEpoch = 1
  EpochModulus = 8
INVARIANTS
  Provenance
  Isolation
  LabelTellsSource
  OnlyStaleIsRestamped
PROPERTIES
  StoredIsLookedUp
  KeepsPromise
  CallCompletes
