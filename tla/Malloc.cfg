SPECIFICATION Spec
CONSTANTS
  Pids <- Processes
  Sizes <- UpTo7
  Header = 1
  PoolEnd = 13
CONSTRAINT Sound
CHECK_DEADLOCK FALSE
INVARIANTS Tiled NeverShared
