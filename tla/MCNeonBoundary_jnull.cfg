CONSTANTS
  Threads = {t1}
  Addrs = {a1}
  Objs = {o1}
  Fns = {f1}
  NULL = NULL
  ClientCbFields = {1, 2}
  HostCbFields = {1}
  RelayInputs <- MCRelayInputs
  HostCap = 2
  AttachMayFail = TRUE
  AllocMayFail = TRUE
  GlobalRefMayFail = FALSE
  ManagedMayThrow = TRUE
  GuardedCallers = TRUE
  OnLoadMayFail = FALSE
  CallerOps <- MCAllOps
  JavaThreads = {t1}
  JavaNullArgs <- MCNullConnect
SYMMETRY MixedSymmetry
SPECIFICATION Spec
INVARIANT NoFault
