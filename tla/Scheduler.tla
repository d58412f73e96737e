------------------------------ MODULE Scheduler ------------------------------
(***************************************************************************)
(* The round-robin preemptive scheduler of src/src/multitasking/          *)
(* scheduler.c on one CPU.                                                 *)
(*                                                                         *)
(* State is the intrusive task list (prochead.next and each frame's next  *)
(* pointer), the `current' pointer, the per-frame fields the scheduler    *)
(* reads and writes (pid, quanta, invalid, saved registers), the active   *)
(* root table (CR3), the interrupt flag and the execution context the CPU *)
(* is running.  A task frame is identified by its spawn number: frames    *)
(* are never freed, so no two spawns share a frame.  A register snapshot  *)
(* is abstracted to the identity of the execution context it resumes,     *)
(* and a task's root table to the task itself (CreateProcessPML4 returns  *)
(* a fresh frame for every spawn).                                         *)
(*                                                                         *)
(* Everything a running context may call (IntAddTask, TerminateTask,      *)
(* ProcessExit, a CPU exception, MarkSchedulingActive) is an action of    *)
(* that context, enabled while the context is not parked in its wait      *)
(* loop; the timer and keyboard interrupts fire while IF is set.  Every   *)
(* handler runs with interrupts disabled, so each is one atomic step.     *)
(***************************************************************************)
EXTENDS Naturals, Sequences, FiniteSets

CONSTANTS
  Quantum,    \* value IntAddTask and TaskSwitch give `quanta' (10)
  PidBits,    \* width of ProcessFrame.pid and highest_pid (uint8_t: 8)
  MaxSpawn,   \* bound on the number of IntAddTask calls
  Calls,      \* the calls running contexts make, a subset of CallKinds
  NULL,       \* the null pointer
  ProcHead,   \* &prochead, the list sentinel
  Boot,       \* the kmain context the CPU runs before the first task
  KernelRoot  \* the kernel's own PML4 (pml4 in paging.c)

CallKinds == {"spawn", "terminate", "exit", "fault", "activate"}

ASSUME /\ Quantum \in 1..255
       /\ PidBits \in 1..8
       /\ MaxSpawn \in Nat \ {0}
       /\ Calls \subseteq CallKinds

TaskId   == 1..MaxSpawn            \* the frame malloc'd by the n-th spawn
PidSpace == 2^PidBits
Contexts == TaskId \cup {Boot}
Failures == {"none", "panic", "wedged"}

VARIABLES
  headNext,  \* prochead.next
  next,      \* ProcessFrame.next of every frame
  current,   \* the `current' pointer
  pid,       \* ProcessFrame.pid
  quanta,    \* ProcessFrame.quanta (uint8_t)
  invalid,   \* ProcessFrame.invalid
  regs,      \* ProcessFrame.registers: the context the snapshot resumes
  spawned,   \* number of IntAddTask calls so far
  highestPid,\* highest_pid (uint8_t)
  started,   \* schedulingStarted
  cpu,       \* the execution context the CPU is running
  parked,    \* contexts spinning in ProcessExit / CommonExceptionHandler
  intEnabled,\* RFLAGS.IF
  cr3,       \* the active root table
  failed,    \* "panic": panic() halted the CPU; "wedged": a fault inside
             \* the timer handler, which then never returns
  slice      \* history: consecutive ticks the current task kept the CPU
             \* while another valid task was linked (saturates)

vars == <<headNext, next, current, pid, quanta, invalid, regs, spawned,
          highestPid, started, cpu, parked, intEnabled, cr3, failed, slice>>

-----------------------------------------------------------------------------
(* The task list as the sequence of frames reachable from prochead.       *)
RECURSIVE ChainFrom(_, _, _)
ChainFrom(t, nx, fuel) ==
  IF t = NULL \/ fuel = 0 THEN <<>>
  ELSE <<t>> \o ChainFrom(nx[t], nx, fuel - 1)

TaskList(hn, nx) == ChainFrom(hn, nx, MaxSpawn)

LinkedIn(hn, nx) == LET l == TaskList(hn, nx) IN {l[i] : i \in 1..Len(l)}

Linked == LinkedIn(headNext, next)

Spawned == 1..spawned

IsTask(p) == p \in TaskId

(* TerminateTask's walk: the first linked frame with the given pid, and   *)
(* the list once it is unlinked (prev_frame->next = current_frame->next). *)
(* If no frame matches, the walk dereferences NULL (pid is compared       *)
(* before the NULL check).                                                 *)
FirstWithPid(p, hn, nx) ==
  LET l == TaskList(hn, nx)
      I == {i \in 1..Len(l) : pid[l[i]] = p}
  IN IF I = {} THEN NULL
     ELSE l[CHOOSE i \in I : \A j \in I : i <= j]

Unlink(t, hn, nx) ==
  IF hn = t
  THEN [hn |-> nx[t], nx |-> nx]
  ELSE LET prev == CHOOSE u \in LinkedIn(hn, nx) : nx[u] = t
       IN  [hn |-> hn, nx |-> [nx EXCEPT ![prev] = nx[t]]]

MarkInvalid(c) == IF IsTask(c) THEN [invalid EXCEPT ![c] = TRUE] ELSE invalid

-----------------------------------------------------------------------------
(* InitializeIDT: the handlers of Tick (IRQ 8, the RTC), KeyboardHandler  *)
(* (IRQ 1) and the exceptions are installed, the IO APIC routes both IRQs *)
(* and the routine ends with sti.                                          *)
InitializeIDT == intEnabled = TRUE

Init ==
  /\ headNext = NULL
  /\ next = [t \in TaskId |-> NULL]
  /\ current = NULL
  /\ pid = [t \in TaskId |-> 0]
  /\ quanta = [t \in TaskId |-> 0]
  /\ invalid = [t \in TaskId |-> FALSE]
  /\ regs = [t \in TaskId |-> t]
  /\ spawned = 0
  /\ highestPid = 1
  /\ started = FALSE
  /\ cpu = Boot
  /\ parked = {}
  /\ InitializeIDT
  /\ cr3 = KernelRoot         \* InitializePaging loaded the kernel PML4
  /\ failed = "none"
  /\ slice = 0

Running == failed = "none"
Caller  == Running /\ cpu \notin parked

(* panic(): cli; hlt forever.                                              *)
Panic ==
  /\ failed' = "panic"
  /\ intEnabled' = FALSE
  /\ UNCHANGED <<headNext, next, current, pid, quanta, invalid, regs,
                 spawned, highestPid, started, cpu, parked, cr3, slice>>

(* CommonExceptionHandler entered from a running context: before         *)
(* MarkSchedulingActive, or with no current task, it panics; otherwise it *)
(* marks the current task invalid, re-enables interrupts and parks the    *)
(* faulting context in `while (1) hlt'.                                    *)
ContextFault ==
  IF ~started \/ current = NULL
  THEN Panic
  ELSE /\ invalid' = MarkInvalid(current)
       /\ parked' = parked \cup {cpu}
       /\ intEnabled' = TRUE
       /\ UNCHANGED <<headNext, next, current, pid, quanta, regs, spawned,
                      highestPid, started, cpu, cr3, failed, slice>>

-----------------------------------------------------------------------------
(* A fault inside the timer handler (a NULL dereference in TerminateTask  *)
(* or in `current->quanta--').  The handler's earlier writes stay; then   *)
(* CommonExceptionHandler panics, or marks `current' invalid and halts in *)
(* the handler, which never returns: no tick completes again.             *)
IsrFault(cur, hn, nx, q, rg) ==
  /\ headNext' = hn
  /\ next' = nx
  /\ current' = cur
  /\ quanta' = q
  /\ regs' = rg
  /\ IF ~started \/ cur = NULL
     THEN /\ failed' = "panic"
          /\ intEnabled' = FALSE
          /\ UNCHANGED invalid
     ELSE /\ failed' = "wedged"
          /\ invalid' = MarkInvalid(cur)
          /\ UNCHANGED intEnabled
  /\ UNCHANGED <<pid, spawned, highestPid, started, cpu, parked, cr3, slice>>

(* Another valid task is linked besides c: c is holding the CPU from it.  *)
Competing(c, hn, nx) == \E u \in LinkedIn(hn, nx) \ {c} : ~invalid[u]

(* The end of TaskSwitch once it has picked c3: `current->quanta--', the   *)
(* register restore, then _TaskSwitch_Stage2, which reloads CR3 unless    *)
(* the quantum just reached zero.  current = NULL faults in the handler.  *)
SwitchTo(c3, hn, nx, rg, q1) ==
  IF c3 = NULL
  THEN IsrFault(NULL, hn, nx, q1, rg)
  ELSE LET q2 == [q1 EXCEPT ![c3] = (@ + 255) % 256]
       IN /\ headNext' = hn
          /\ next' = nx
          /\ current' = c3
          /\ quanta' = q2
          /\ regs' = rg
          /\ cpu' = rg[c3]
          /\ cr3' = IF q2[c3] # 0 THEN c3 ELSE cr3
          /\ slice' = IF c3 # current THEN 1
                      ELSE IF Competing(c3, hn, nx)
                           THEN IF slice > Quantum THEN slice ELSE slice + 1
                           ELSE 0
          /\ UNCHANGED <<invalid, pid, spawned, highestPid, started,
                         parked, intEnabled, failed>>

\* mutant: the expired task's quantum is not reset to 10
Rotate_NoReset(c2, hn, nx, rg) ==
  LET c3 == IF quanta[c2] # 0 THEN c2
            ELSE IF nx[c2] # NULL THEN nx[c2] ELSE hn
  IN SwitchTo(c3, hn, nx, rg, quanta)

\* mutant: the tail task does not wrap around to prochead.next
Rotate_NoWrap(c2, hn, nx, rg) ==
  LET c3 == IF quanta[c2] # 0 THEN c2
            ELSE IF nx[c2] # NULL THEN nx[c2] ELSE c2
  IN SwitchTo(c3, hn, nx, rg,
              IF quanta[c2] = 0 THEN [quanta EXCEPT ![c2] = Quantum] ELSE quanta)

\* mutant: an expired task is followed by prochead.next, not by its next
Rotate_FromHead(c2, hn, nx, rg) ==
  LET c3 == IF quanta[c2] # 0 THEN c2 ELSE hn
  IN SwitchTo(c3, hn, nx, rg,
              IF quanta[c2] = 0 THEN [quanta EXCEPT ![c2] = Quantum] ELSE quanta)

(* The quantum step of TaskSwitch from task c2 on list (hn, nx): an       *)
(* expired task gets a fresh quantum and the CPU passes to its next, or   *)
(* to prochead.next from the tail.                                        *)
Rotate(c2, hn, nx, rg) ==
  LET expired == quanta[c2] = 0
      c3 == IF ~expired THEN c2
            ELSE IF nx[c2] # NULL THEN nx[c2] ELSE hn
      q1 == IF expired THEN [quanta EXCEPT ![c2] = Quantum] ELSE quanta
  IN SwitchTo(c3, hn, nx, rg, q1)

\* mutant: an invalid task is skipped over but never passed to TerminateTask
Reap_NoUnlink(c1, rg) ==
  Rotate(IF next[c1] # NULL THEN next[c1] ELSE headNext, headNext, next, rg)

(* TaskSwitch on an invalid current task c1: TerminateTask(c1->pid), then *)
(* current = prochead.next, or &prochead and return if the list is empty. *)
Reap(c1, rg) ==
  LET victim == FirstWithPid(pid[c1], headNext, next)
      after  == Unlink(victim, headNext, next)
  IN CASE victim = NULL ->
            IsrFault(c1, headNext, next, quanta, rg)
       [] after.hn = NULL ->
            /\ headNext' = NULL
            /\ next' = after.nx
            /\ current' = ProcHead
            /\ regs' = rg
            /\ slice' = 0
            /\ UNCHANGED <<pid, quanta, invalid, spawned, highestPid,
                           started, cpu, parked, intEnabled, cr3, failed>>
       [] OTHER ->
            Rotate(after.hn, after.hn, after.nx, rg)

\* mutant: the adoption tick also saves the interrupted frame
Saved_Always(idle) ==
  [regs EXCEPT ![IF idle THEN headNext ELSE current] = cpu]

(* The register snapshot after TaskSwitch's first step: with no current   *)
(* task the list head is adopted without saving; otherwise the            *)
(* interrupted frame is copied into current->registers.                   *)
Saved(idle) == IF idle THEN regs ELSE [regs EXCEPT ![current] = cpu]

(* The timer interrupt: TaskSwitch on the interrupted register frame,     *)
(* then _TaskSwitch_Stage2 (RTC_Check only acknowledges the RTC).  With   *)
(* no task linked and none current it returns at once.                    *)
Tick ==
  /\ Running
  /\ intEnabled
  /\ LET idle == current \in {NULL, ProcHead}
         c1   == IF idle THEN headNext ELSE current
     IN IF idle /\ headNext = NULL
        THEN UNCHANGED vars
        ELSE IF invalid[c1]
             THEN Reap(c1, Saved(idle))
             ELSE Rotate(c1, headNext, next, Saved(idle))

(* LoadKernelPML4: cr3load of the global kernel PML4.                      *)
LoadKernelPML4 == cr3' = KernelRoot

(* KeyboardHandler: LoadKernelPML4(), then the key is handled.            *)
KeyboardHandler ==
  /\ Running
  /\ intEnabled
  /\ LoadKernelPML4
  /\ UNCHANGED <<headNext, next, current, pid, quanta, invalid, regs, spawned,
                 highestPid, started, cpu, parked, intEnabled, failed, slice>>

(* IntAddTask (AddTask / KeAddTask): cli; malloc a frame; pid =           *)
(* highest_pid++; quanta = 10; seed the registers with the entry point    *)
(* and a fresh stack; cr3 = CreateProcessPML4(...); link at the head;     *)
(* sti.  The `invalid' field is never written: malloc'd memory comes from *)
(* PageAlloc'd (zeroed) frames in this kernel, where free() has no caller.*)
(* highest_pid++ on a uint8_t.                                             *)
NextPid(h) == (h + 1) % PidSpace

IntAddTask ==
  /\ Caller
  /\ "spawn" \in Calls
  /\ spawned < MaxSpawn
  /\ LET t == spawned + 1
     IN /\ spawned' = t
        /\ pid' = [pid EXCEPT ![t] = highestPid]
        /\ highestPid' = NextPid(highestPid)
        /\ quanta' = [quanta EXCEPT ![t] = Quantum]
        /\ next' = [next EXCEPT ![t] = headNext]
        /\ headNext' = t
        /\ intEnabled' = TRUE
  /\ UNCHANGED <<current, invalid, regs, started, cpu, parked, cr3, failed,
                 slice>>

(* TerminateTask called directly: cli, unlink the first frame with that   *)
(* pid and return -- before the sti.  An unknown pid walks off the end of *)
(* the list and faults on NULL->pid.                                       *)
TerminateTaskCall ==
  /\ Caller
  /\ "terminate" \in Calls
  /\ \E p \in 0..(PidSpace - 1) :
       LET victim == FirstWithPid(p, headNext, next)
           after  == Unlink(victim, headNext, next)
       IN IF victim = NULL
          THEN ContextFault
          ELSE /\ headNext' = after.hn
               /\ next' = after.nx
               /\ intEnabled' = FALSE
               /\ UNCHANGED <<current, pid, quanta, invalid, regs, spawned,
                              highestPid, started, cpu, parked, cr3, failed,
                              slice>>

(* ProcessExit: cli; current->invalid = true; sti; while (1).  With no    *)
(* current task the write faults on NULL and the handler panics.          *)
ProcessExit ==
  /\ Caller
  /\ "exit" \in Calls
  /\ IF current = NULL
     THEN ContextFault
     ELSE /\ invalid' = MarkInvalid(current)
          /\ parked' = parked \cup {cpu}
          /\ intEnabled' = TRUE
          /\ UNCHANGED <<headNext, next, current, pid, quanta, regs, spawned,
                         highestPid, started, cpu, cr3, failed, slice>>

(* A CPU exception in the running context (the IDT's handlers all call    *)
(* CommonExceptionHandler).                                                *)
Fault ==
  /\ Caller
  /\ "fault" \in Calls
  /\ ContextFault

MarkSchedulingActive ==
  /\ Caller
  /\ "activate" \in Calls
  /\ started' = TRUE
  /\ UNCHANGED <<headNext, next, current, pid, quanta, invalid, regs, spawned,
                 highestPid, cpu, parked, intEnabled, cr3, failed, slice>>

(* After panic() or a fault inside the timer handler nothing changes.     *)
Halted ==
  /\ ~Running
  /\ UNCHANGED vars

Next ==
  \/ Tick
  \/ KeyboardHandler
  \/ IntAddTask
  \/ TerminateTaskCall
  \/ ProcessExit
  \/ Fault
  \/ MarkSchedulingActive
  \/ Halted

Spec == Init /\ [][Next]_vars

(* The RTC interrupt fires periodically whenever IF is set.               *)
FairSpec == Spec /\ WF_vars(Tick)

-----------------------------------------------------------------------------
TypeOK ==
  /\ headNext \in TaskId \cup {NULL}
  /\ next \in [TaskId -> TaskId \cup {NULL}]
  /\ current \in TaskId \cup {NULL, ProcHead}
  /\ pid \in [TaskId -> 0..(PidSpace - 1)]
  /\ quanta \in [TaskId -> 0..Quantum]   \* never underflows
  /\ invalid \in [TaskId -> BOOLEAN]
  /\ regs \in [TaskId -> Contexts]
  /\ spawned \in 0..MaxSpawn
  /\ highestPid \in 0..(PidSpace - 1)
  /\ started \in BOOLEAN
  /\ cpu \in Contexts
  /\ parked \subseteq Contexts
  /\ intEnabled \in BOOLEAN
  /\ cr3 \in TaskId \cup {KernelRoot}
  /\ failed \in Failures
  /\ slice \in 0..(Quantum + 1)

(* The CPU resumes only the current task's own context, and every frame's *)
(* saved register snapshot is the context of that frame's task: TaskSwitch*)
(* saves the interrupted frame into `current' only when the CPU was       *)
(* running it (not on the adoption tick, not after the idle return).      *)
ContextIntegrity ==
  Running =>
    /\ IsTask(current) => cpu = current
    /\ \A t \in Spawned : regs[t] = t

(* The tick handler unlinks only tasks that were marked invalid: the pid  *)
(* TaskSwitch passes to TerminateTask picks out the task being reaped.    *)
ReapOnlyInvalid ==
  [][Tick => \A t \in Linked \ LinkedIn(headNext', next') : invalid[t]]_vars

(* While another valid task is linked, no task keeps the CPU for more     *)
(* than Quantum consecutive ticks: TaskSwitch resets the quantum of the   *)
(* task it preempts and decrements the one it resumes.                    *)
SliceBound == slice <= Quantum

(* Every linked task is eventually resumed by the tick handler, unless it *)
(* is unlinked first or the kernel halts.                                 *)
EveryTaskRuns ==
  \A t \in TaskId : t \in Linked ~> (current = t \/ t \notin Linked \/ ~Running)

(* A task that exited or faulted is eventually unlinked by TaskSwitch.    *)
InvalidReaped ==
  \A t \in TaskId :
    (t \in Linked /\ invalid[t]) ~> (t \notin Linked \/ ~Running)

(* After each timer tick the CPU resumes the current task under that      *)
(* task's own root table (_TaskSwitch_Stage2 reloads CR3).                *)
TickInstallsAddressSpace ==
  [][Tick /\ IsTask(current') /\ failed' = "none" => cr3' = current']_vars

(* Spec 4.4 step 2 and 8: the tick that adopts the list head as current   *)
(* returns without touching the adopted task's quantum.                   *)
AdoptionKeepsQuantum ==
  [][Tick /\ current \in {NULL, ProcHead} /\ IsTask(current')
       => quanta'[current'] = quanta[current']]_vars

(* Spec 7: terminating an unknown pid is silently ignored, so spawning    *)
(* and terminating tasks never halts the kernel (checked with only those  *)
(* two calls enabled).                                                    *)
NoKernelFailure == failed = "none"
=============================================================================
