SPECIFICATION Spec
CONSTANTS
  Process = {p, q}
  Settings <- Separate
  Delays = {0, 1}
  MaxTime = 3
  MaxTimers = 3
CHECK_DEADLOCK FALSE
SYMMETRY Structures
INVARIANTS TimerIsOwn SleepersTimerGoes SleeperHasTimer
PROPERTIES SleepLasts
