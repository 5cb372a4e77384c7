CONSTANTS
  Services = {"consul", "redis"}
  n1 = n1  n2 = n2  a1 = a1  a2 = a2  b1 = b1  c1 = c1  d1 = d1  s1 = s1  s2 = s2  s3 = s3
  Node = {n1, n2}  NoNode = NoNode  Orphan = Orphan
  Loop = {a1, b1}  NoLoop = NoLoop  Caller = {c1, d1}  At <- MCAt
  Retries = 2  Ops <- OpsContend  FaultKinds <- RedisAll  MaxFaults = 2
  Session = {s1, s2, s3}  NoSession = NoNode  Slot = {a1}
  ConsulOps <- OpsContend  ConsulFaults <- ConsulAll  MaxConsulFaults = 1
SPECIFICATION SyncSpec
INVARIANTS TypesOK Backed MutualExclusion
PROPERTY ImplementsLease
SYMMETRY SessionSymmetry
CHECK_DEADLOCK FALSE
