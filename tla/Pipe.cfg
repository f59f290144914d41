SPECIFICATION Spec
CONSTANTS
  PIPE_BUFFER_SIZE = 4
  Readers = {r1, r2}
  Writers = {w1, w2}
  Bytes = {0, 1}
  MaxRead = 3
  WriteBufs <- MCWriteBufs
INVARIANTS
  TypeOK
  RingAgrees
PROPERTIES
  ImplementsFifo
CHECK_DEADLOCK FALSE
