SPECIFICATION Spec
CONSTANTS
  Pcb = {p1, p2, p3, p4}
  NULL = NULL
  MAX_PROCESSES = 3
  TimeSlice = 2
  TimeWrap = 3
  Frames = {64, 65, 95}
INVARIANTS
  TypeOK
  QueueHoldsReady
  WalksStayLive
PROPERTIES
  ImplementsRoundRobin
CHECK_DEADLOCK FALSE
