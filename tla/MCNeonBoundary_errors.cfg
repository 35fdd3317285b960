CONSTANTS
  Threads = {t1, t2}
  Addrs = {a1}
  Objs = {o1, o2}
  Fns = {f1}
  NULL = NULL
  ClientCbFields = {1, 2}
  HostCbFields = {1}
  RelayInputs <- MCRelayInputs
  HostCap = 2
  AttachMayFail = TRUE
  AllocMayFail = TRUE
  GlobalRefMayFail = FALSE
  ManagedMayThrow = TRUE
  GuardedCallers = TRUE
  OnLoadMayFail = FALSE
  CallerOps <- MCAllOps
  JavaThreads = {t2}
  JavaNullArgs <- MCNullNew
SYMMETRY MixedSymmetry
SPECIFICATION Spec
INVARIANT ErrorChannelPerThread
VIEW ErrorsView
