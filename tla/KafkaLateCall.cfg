CONSTANTS
  p1 = p1  s1 = s1  topic = topic  subscription = subscription
  Issued = {p1}  Early = {}  Closable = {}
  Key = {topic}
  KeyOf <- MCKeyOf  KindOf <- MCKindOf
  NoBinding = NoBinding  NoKey = NoKey  NoTask = NoTask
  LateCalls = TRUE
SPECIFICATION FairSpec
PROPERTIES ShutdownCompletes
CHECK_DEADLOCK FALSE
