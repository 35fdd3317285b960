CONSTANTS
  Threads = {t1}
  Addrs = {a1}
  Objs = {o1, o2, o3}
  Fns = {f1}
  NULL = NULL
  ClientCbFields = {1, 2}
  HostCbFields = {1}
  RelayInputs <- MCRelayInputs
  HostCap = 2
  AttachMayFail = TRUE
  AllocMayFail = TRUE
  GlobalRefMayFail = FALSE
  ManagedMayThrow = TRUE
  GuardedCallers = TRUE
  OnLoadMayFail = TRUE
  CallerOps <- MCAllOps
  JavaThreads = {}
  JavaNullArgs <- MCNoOps
SYMMETRY Symmetry
SPECIFICATION Spec
INVARIANT NoFault
