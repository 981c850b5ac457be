SPECIFICATION RoundSpec
CONSTANTS
  Process = {p, q, r}
  kernel = kernel
  RealTime = {p}
  NULL = NULL
INVARIANTS KernelIsLast
PROPERTIES EveryoneServed
