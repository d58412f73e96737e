CONSTANTS
  PageSize = 4096
  EntrySize = 16
  MemMaps <- MCMemMaps
  Foreign = {}
  Hdr = 16
  Mallocs <- PageSized
  Aligned <- NoAligned
  MaxCalls = 3
  Fuel = 24
SPECIFICATION Spec
PROPERTY PanicOnlyWhenFull
