SPECIFICATION FairSpec
CONSTANTS
  Frames = {2, 3, 4, 5, 6, 7}
  Root = 1
  VirtPages = 6
  Indices = {0, 1}
  index <- MCIndex
  MmapBase = 5
  Addrs = {2, 4}
  Lengths = {1, 2}
  Prots <- MCProts
  Programs <- MCPrograms
INVARIANTS
  TypeOK
  FramesExclusive
PROPERTIES
  OnlyNamedPages
  CallsReturn
CHECK_DEADLOCK FALSE
