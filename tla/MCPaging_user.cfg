CONSTANTS
  PageSize = 4096
  EntrySize = 16
  MemMaps <- MCHighMemMaps
  Foreign = {}
  E = 4
  HhdmL4 = 2
  KernelL4 = 3
  KernelL3 = 3
  KernelPhys = 8192
  KernelPages = 2
  FbPhys = 196608
  FbPages = 2
  CodeRanges <- UserAndKernel
  MaxCalls = 5
SPECIFICATION Spec
INVARIANT UserPagesAccessible
