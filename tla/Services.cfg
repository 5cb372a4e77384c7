CONSTANTS
  Tenant = {"t1", "t2", "t3"}  NoTenant = NoTenant  TenantStores <- MCTenantStores  Loader = {"l1", "l2"}
  Client = {c1, c2}  MaxOps <- TenantOps  MaxFaults = 1
  NoCaller = NoCaller  NoKey = NoKey  NoTask = NoTask  NoExec = NoExec
  Fallback = Fallback  NoService = NoService  NoCallback = NoCallback  NoRefresher = NoRefresher
  NoMember = NoMember  Default = Default  Unset = Unset  Never = Never  Unread = Unread  Nobody = Nobody
  Viewer = {w1, w2}  Lifecycle = Lifecycle  Off = Off  Always = Always
SPECIFICATION ServicesSpec
INVARIANTS
  TypesOK WellScheduled Coherent Consistent ReadsAreComplete ChangesAreSeen OffsetsHold
  StepsInOrder ConfigurationSettles AttemptsAreSound NoSendOnClosed CertificateKept
  SortedStably AssembledAsRegistered
SYMMETRY ClientSymmetry
CHECK_DEADLOCK FALSE
