CONSTANTS
  PageSize = 4096
  EntrySize = 16
  MemMaps <- MCMemMaps
  Foreign = {}
  Hdr = 16
  Mallocs <- TwoSmall
  Aligned <- NoAligned
  MaxCalls = 3
  Fuel = 24
SPECIFICATION Spec
INVARIANT NoHeapFault
