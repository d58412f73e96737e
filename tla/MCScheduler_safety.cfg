CONSTANTS
  Quantum = 10
  PidBits = 3
  MaxSpawn = 3
  Calls <- AllCalls
  NULL = NULL
  ProcHead = ProcHead
  Boot = Boot
  KernelRoot = KernelRoot
SPECIFICATION Spec
INVARIANT TypeOK
INVARIANT ContextIntegrity
INVARIANT SliceBound
