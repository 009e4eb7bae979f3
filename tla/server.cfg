SPECIFICATION ServerSpec
CONSTANTS
  None = None
  c1 = c1
  c2 = c2
  k1 = k1
  k2 = k2
  Calls <- MCCalls
  Connections <- MCConnections
  Requests <- MCRequests
  ConditionIds <- MCConditionIds
  Condition <- MCCondition
  PathMatches = {}
  Chain <- MCChain
  Caches = {"files"}
  HashedParts <- MCParts
  Ttl <- MCTtl
  Hybrid = {"files"}
  Statuses = {200}
  OriginBodies = {"json"}
  MaxEpoch = 1
  EpochModulus = 8
  MaxStarts = 2
INVARIANTS
  ServerTypeOK
  MetricsTellCalls
  ConnectionCarriesOne
  DiskIsTrue
