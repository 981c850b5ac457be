SPECIFICATION Spec
CONSTANTS
  SIGKILL = 9
  SIGSTOP = 17
  SIGCONT = 19
  SIGCHLD = 20
  SIGUSR1 = 30
  Handled = {19, 20, 30}
  Masks <- SomeMasks
  MaxHandlers = 2
  MaxFrames = 3
CHECK_DEADLOCK FALSE
INVARIANTS PendingIsBlocked ExitSeen
PROPERTIES StoppedStays HandlerReturns
