SPECIFICATION TaskletsSpec
CONSTANTS
  MAX_TASKLETS = 3
  CountSize = 8
  MaxTime = 5
  Counts = {0, 1, 2, 3, 4}
  Settings <- Separate
CHECK_DEADLOCK FALSE
PROPERTIES ImplementsTimerQueue TaskletsGoOn
