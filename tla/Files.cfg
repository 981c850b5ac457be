SPECIFICATION Spec
CONSTANTS
  Proc = {p1, p2}
  First = p1
  File = {f1, f2}
  Pipe = {q1}
  NULL = NULL
  PIPE_BUFSIZE = 2
  MaxFd = 4
  MaxLen = 3
  MaxByte = 5
  Settings <- Programs
SYMMETRY Alike
CONSTRAINT CountsBounded
CHECK_DEADLOCK FALSE
INVARIANTS CountsExact NoDangling NothingLeaks BytesInOrder
