CONSTANTS
  Quantum = 2
  PidBits = 3
  MaxSpawn = 1
  Calls <- SpawnOnly
  NULL = NULL
  ProcHead = ProcHead
  Boot = Boot
  KernelRoot = KernelRoot
SPECIFICATION Spec
PROPERTY TickInstallsAddressSpace
