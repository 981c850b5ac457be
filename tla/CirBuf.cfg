CONSTANTS
  Byte = {x, y}
  bufsize = 4
  MaxRequest = 4
SPECIFICATION CirSpec
PROPERTY IsFifo
