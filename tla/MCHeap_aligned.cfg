CONSTANTS
  PageSize = 4096
  EntrySize = 16
  MemMaps <- MCMemMaps
  Foreign = {}
  Hdr = 16
  Mallocs <- CallerMallocs
  Aligned <- CallerAligned
  MaxCalls = 6
  Fuel = 24
SPECIFICATION Spec
INVARIANT BlockWithinNode
