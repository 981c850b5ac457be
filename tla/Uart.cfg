SPECIFICATION Spec
CONSTANTS
  Proc = {p1, p2}
  Writer = p1
  NULL = NULL
  Capacity = 2
  MaxLen = 4
  MaxByte = 6
  Settings <- Ports
CHECK_DEADLOCK FALSE
INVARIANTS WireInOrder NoReaderForgotten
PROPERTIES WriterWoken
