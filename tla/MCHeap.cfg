CONSTANTS
  PageSize = 4096
  EntrySize = 16
  MemMaps <- MCMemMaps
  Foreign = {}
  Hdr = 16
  Mallocs <- CallerMallocs
  Aligned <- NoAligned
  MaxCalls = 7
  Fuel = 24
SPECIFICATION Spec
INVARIANT TypeOK
INVARIANT HeapDisjoint
