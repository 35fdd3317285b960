CONSTANTS
  Threads = {t1, t2}
  Addrs = {a1}
  Objs = {o1, o2}
  Fns = {f1}
  NULL = NULL
  ClientCbFields = {1}
  HostCbFields = {1}
  RelayInputs <- MCRelayInputs
  HostCap = 2
  AttachMayFail = FALSE
  AllocMayFail = FALSE
  GlobalRefMayFail = FALSE
  ManagedMayThrow = TRUE
  GuardedCallers = TRUE
  OnLoadMayFail = FALSE
  CallerOps <- MCLiveOps
  JavaThreads = {}
  JavaNullArgs <- MCNoOps
SPECIFICATION FairSpec
PROPERTIES StartReturnsOnceFreed RegistryRefined
