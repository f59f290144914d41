SPECIFICATION Spec
CONSTANTS
  MaxPages = 13
  EntryBits = 4
  BitmapPages = 2
  MaxCount = 3
  MemMaps <- MCMemMaps
INVARIANTS
  TypeOK
  FreeCountExact
  OnlyUsableMemory
  FailsOnlyWhenExhausted
PROPERTIES
  NoDoubleAllocation
