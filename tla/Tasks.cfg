SPECIFICATION Spec
CONSTANTS
  Process = {init, p, q}
  init = init
  kernel = kernel
  MaxPid = 3
  MAX_TASKLETS = 4
SYMMETRY Structures
INVARIANTS ListsMatchStates DestroyedOnce NoStaleTasklet StackNotShared NoLostExit
