CONSTANTS
  p1 = p1  s1 = s1  topic = topic  subscription = subscription
  Issued = {p1, s1}  Early = {s1}  Closable = {p1}
  Key = {topic, subscription}
  KeyOf <- MCKeyOf  KindOf <- MCKindOf
  NoBinding = NoBinding  NoKey = NoKey  NoTask = NoTask
  LateCalls = FALSE
SPECIFICATION FairSpec
INVARIANTS TypeOK ClientsKept
PROPERTIES EventuallyStarted ShutdownCompletes
CHECK_DEADLOCK FALSE
