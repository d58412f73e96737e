CONSTANTS
  Quantum = 3
  PidBits = 3
  MaxSpawn = 3
  Calls <- KernelCalls
  NULL = NULL
  ProcHead = ProcHead
  Boot = Boot
  KernelRoot = KernelRoot
SPECIFICATION FairSpec
PROPERTY EveryTaskRuns
PROPERTY InvalidReaped
