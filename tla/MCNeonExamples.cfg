CONSTANTS
  Threads = {t1}
  Main = t1
  Addrs = {a1}
  Objs = {o1}
  Fns = {f1}
  NULL = NULL
  ClientCbFields <- MCClientCbFields
  HostCbFields <- MCHostCbFields
  RelayInputs <- MCRelayInputs
  HostCap = 2
  AttachMayFail = TRUE
  AllocMayFail = TRUE
  GlobalRefMayFail = FALSE
  ManagedMayThrow = TRUE
  GuardedCallers = TRUE
  OnLoadMayFail = FALSE
  CallerOps <- MCAllOps
  JavaThreads = {}
  JavaNullArgs <- MCNoOps
  ClientIterations = 6
  HostIterations = 2
SPECIFICATION ExampleSpec
\* main returns and the process ends: no step follows.
CHECK_DEADLOCK FALSE
INVARIANT ExampleReleasesHandle
