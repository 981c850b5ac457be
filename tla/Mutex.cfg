CONSTANTS
  Task = {t1, t2, t3}
  NULL = NULL
  listeners = 3
  Kernel = Kernel
  MaxSignals = 2
  MaxKills = 1
SPECIFICATION FairSpec
CHECK_DEADLOCK FALSE
INVARIANT MutualExclusion
INVARIANT NoLostWakeup
PROPERTY FirstComeFirstServed
PROPERTY EveryWaiterWoken
