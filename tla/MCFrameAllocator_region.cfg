CONSTANTS
  PageSize = 4096
  EntrySize = 16
  MemMaps <- MCMemMaps
  Foreign <- MCForeign
SPECIFICATION Spec
INVARIANT FramesInRegion
