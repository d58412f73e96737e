CONSTANTS
  Quantum = 2
  PidBits = 2
  MaxSpawn = 5
  Calls <- KernelCalls
  NULL = NULL
  ProcHead = ProcHead
  Boot = Boot
  KernelRoot = KernelRoot
SPECIFICATION Spec
PROPERTY ReapOnlyInvalid
