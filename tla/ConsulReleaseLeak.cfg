CONSTANTS
  n1 = n1  n2 = n2  a1 = a1  a2 = a2  b1 = b1  c1 = c1
  Node = {n1, n2}
  Session = {a1, a2, b1}
  Home <- MCHome
  NoSession = NoSession
  NoLoop = NoLoop
  Slot = {s1, s2}
  Caller = {c1}
  Ops <- OpsRelease
  FaultKinds <- FaultsNone
  MaxFaults = 0
SPECIFICATION FairSpec
PROPERTY ReleaseFreesLock
CHECK_DEADLOCK FALSE
