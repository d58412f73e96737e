CONSTANTS
  PageSize = 4096
  EntrySize = 16
  MemMaps <- MCMemMaps
  Foreign = {}
  Hdr = 16
  Mallocs = {}
  Aligned = {}
  MaxCalls = 40
  Fuel = 24
  Archives <- MCManyArchives
  NoModule = NoModule
  Target <- AOut
  FileNodeSize = 120
SPECIFICATION Spec
INVARIANT BootHeapSound
