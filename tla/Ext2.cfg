SPECIFICATION Spec
CONSTANTS
  GroupsCount = 2
  InodesPerGroup = 2
  BlocksPerGroup = 5
  BlocksCount = 10
  MaxFaults = 1
  MaxSurplus = 0
  MaxTrouble = 2
  MaxOverrun = 1
  Meta <- MCMeta
  RootBlock = 3
  Names = {"a", "b", "long"}
  NameUnits <- MCNameUnits
  Units = 13
  Words <- MCWords
  NDirect = 1
  OldName = "long"
  OldInode = 3
  OldBlocks <- MCOldBlocks
  OldPtr = 5
  OldChild = 7
INVARIANTS
  TypeOK
  
  CountsExact
  FsckClean
CHECK_DEADLOCK FALSE
