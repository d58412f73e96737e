CONSTANTS
  Quantum = 2
  PidBits = 3
  MaxSpawn = 2
  Calls <- SpawnTerminate
  NULL = NULL
  ProcHead = ProcHead
  Boot = Boot
  KernelRoot = KernelRoot
SPECIFICATION Spec
INVARIANT NoKernelFailure
