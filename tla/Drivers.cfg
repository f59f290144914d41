SPECIFICATION Spec
CONSTANTS
  NVME_MAX_DEVICES = 2
  NVME_QUEUE_DEPTH = 5
  SqEntrySize = 3
  CqEntrySize = 2
  NvmePages = 5
  MaxCommands = 5
  E1000_NUM_DESC = 3
  E1000Pages = 8
  MaxFrames = 5
  PageDescs = 2
  WifiPages = 20
  MaxPackets = 4
  MaxErrors = 1
INVARIANTS
  TypeOK
  FirstPageHonest
  FailStop
  E1000RxInOrder
  E1000TxInOrder
  HalfLapInOrder
PROPERTY
  CommandReturns
CHECK_DEADLOCK FALSE
