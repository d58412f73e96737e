CONSTANTS
  PageSize = 4096
  EntrySize = 16
  MemMaps <- MCMemMaps
  Foreign = {}
  Hdr = 16
  Mallocs = {}
  Aligned = {}
  MaxCalls = 12
  Fuel = 24
  Archives <- MCArchives
  NoModule = NoModule
  Target <- AOut
  FileNodeSize = 120
SPECIFICATION Spec
INVARIANT TypeOK
INVARIANT SizesDecoded
INVARIANT LoadsLastEntry
PROPERTY BootTerminates
