CONSTANTS
  Quantum = 2
  PidBits = 3
  MaxSpawn = 2
  Calls <- AllCalls
  NULL = NULL
  ProcHead = ProcHead
  Boot = Boot
  KernelRoot = KernelRoot
SPECIFICATION FairSpec
PROPERTY EveryTaskRuns
