CONSTANTS
  Services = {"consul", "redis"}
  n1 = n1  n2 = n2  a1 = a1  a2 = a2  b1 = b1  c1 = c1  d1 = d1  s1 = s1  s2 = s2  s3 = s3
  Node = {n1}  NoNode = NoNode  Orphan = Orphan
  Loop = {a1, a2}  NoLoop = NoLoop  Caller = {c1}  At <- MCAt
  Retries = 1  Ops <- OpsAll  FaultKinds <- RedisAll  MaxFaults = 1
  Session = {s1}  NoSession = NoNode  Slot = {a1, a2}
  ConsulOps <- OpsAllStop  ConsulFaults <- FaultsNone  MaxConsulFaults = 0
SPECIFICATION FairSyncSpec
INVARIANTS SingleLoop CallersTold
PROPERTIES GivenUpIsFreed FreeLockIsTaken
CHECK_DEADLOCK FALSE
