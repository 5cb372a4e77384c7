CONSTANTS
  Key = {k1}  NoKey = NoKey  Caller = {c1, c2}  NoCaller = NoCaller  LoadRetry = 1  MaxCalls = 2
  NoTask = NoTask  NoTenant = NoTenant  Fallback = Fallback  NoService = NoService  NoCallback = NoCallback
SPECIFICATION StoresSpec
PROPERTIES CallsReturn ReadersReturn Converges
CHECK_DEADLOCK FALSE
