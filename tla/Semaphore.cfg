CONSTANTS
  Task = {t1, t2, t3}
  NULL = NULL
  listeners = 2
  InitValue = 1
  MaxPosts = 2
  MaxSignals = 1
  MaxKills = 1
SPECIFICATION SemFairSpec
CHECK_DEADLOCK FALSE
INVARIANT EveryWaiterListed
 
PROPERTY OnlyPostFromZeroWakes
 
