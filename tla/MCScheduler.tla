---------------------------- MODULE MCScheduler ----------------------------
(* Model-checking instance of Scheduler: the call sets each run lets the  *)
(* running contexts make.                                                 *)
EXTENDS Scheduler

\* every exported call, TerminateTask included
AllCalls == CallKinds

\* the calls this kernel's code makes: TerminateTask is called only by
\* TaskSwitch
KernelCalls == CallKinds \ {"terminate"}

\* spawning only
SpawnOnly == {"spawn"}

\* spawning and direct TerminateTask calls
SpawnTerminate == {"spawn", "terminate"}

=============================================================================
