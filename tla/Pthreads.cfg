SPECIFICATION Spec
CONSTANTS
  Thread = {t1, t2}
  Leader = leader
  NULL = NULL
  MaxTid = 4
  MAX_TASKLETS = 2
  Settings <- Separate
CHECK_DEADLOCK FALSE
SYMMETRY Structures
INVARIANTS FreedOnce TableNamesThreads NoLostJoin ActiveCoversAll 
