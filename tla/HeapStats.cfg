SPECIFICATION Spec
CONSTANTS
  Hdr = 28
  PageSize = 64
  HeapStart = 1000
  Sizes = {5, 40}
  NewSizes = {1, 50}
  PhysPages = 3
  MaxTables = 1
INVARIANT HeapCheckSucceeds
