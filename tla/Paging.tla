------------------------------- MODULE Paging -------------------------------
(***************************************************************************)
(* The paging manager of src/src/mm/paging/paging.c and AllocatePage of   *)
(* src/src/mm/vmm/vmm.c, over the frame allocator of FrameAllocator.      *)
(*                                                                         *)
(* The four-level hierarchy is kept with tables of E entries instead of   *)
(* 512: a 4 KiB page, a "2 MiB" PD entry covering E pages, a "1 GiB" PDPT *)
(* entry covering E^2 pages.  The code's address constants are expressed  *)
(* in those units (TwoMiB, OneGiB, and 4 GiB = 4 * OneGiB), so each loop  *)
(* of CreateDefaultMappings and CreateProcessPML4 runs over the same      *)
(* kinds of entries as in the code.  tbl[f] is the table held in frame f: *)
(* frames come from PageAlloc, zeroed.  An entry is [p, rw, us, ps, addr] *)
(* with addr = PhysAddr << 12.                                             *)
(*                                                                         *)
(* The operations of one call are evaluated in order over a record st:   *)
(*   fl, held   the frame allocator   tbl   the tables   want   the ghost *)
(*   translation each call asked for   ret   a returned frame             *)
(*   status "ok", "panic" (PageAlloc exhausted) or "misuse" (a walk went  *)
(*   through a 2 MiB entry as if it pointed at a table).                  *)
(***************************************************************************)
EXTENDS Naturals, Sequences, FiniteSets

CONSTANTS
  PageSize, EntrySize, MemMaps, Foreign,  \* those of FrameAllocator
  E,            \* entries per table (512 in the code)
  HhdmL4,       \* the PML4 slot of hhdm_base
  KernelL4,     \* the PML4 and PDPT slots of kernelVirtBase
  KernelL3,
  KernelPhys,   \* kernelPhysBase
  KernelPages,  \* kernelSize / 4096
  FbPhys,       \* the framebuffer's physical base
  FbPages,      \* fbSize / 4096
  CodeRanges,   \* [start, end, kernel] passed to CreateProcessPML4
  MaxCalls

ASSUME /\ E \in Nat /\ E >= 4   \* 4 GiB fits one PML4 slot, as it does in the code
       /\ {HhdmL4, KernelL4, KernelL3} \subseteq 0..(E - 1)

VARIABLES
  frameList, segSize, region, panicked, held,  \* the frame allocator
  tbl,      \* tbl[f]: the page table in frame f
  pml4,     \* the kernel's PML4
  bootMap,  \* GlobalPagingInfo.mmap
  tasks,    \* the PML4s CreateProcessPML4 built
  want,     \* want[r][v]: the translation the map calls on r asked for
            \* virtual page v
  misuse,   \* a walk used a 2 MiB page as a page table
  calls

faVars == <<frameList, segSize, region, panicked, held>>
vars == <<faVars, tbl, pml4, bootMap, tasks, want, misuse, calls>>

FA == INSTANCE FrameAllocator
SE == INSTANCE SequencesExt

NULL == 0

TwoMiB == PageSize * E
OneGiB == TwoMiB * E
FourGiB == 4 * OneGiB
HhdmBase == HhdmL4 * E * OneGiB
KernelVirt == (KernelL4 * E + KernelL3) * OneGiB

VPages == 0..(E * E * E * E - 1)

(* The table indices MapMemory extracts from virt (lines 110-113).        *)
L4(v) == (v \div (E * OneGiB)) % E
L3(v) == (v \div OneGiB) % E
L2(v) == (v \div TwoMiB) % E
L1(v) == (v \div PageSize) % E

(* struct PTE, with the bits the code reads or sets; a struct PT is E of  *)
(* them, all 0 in a frame PageAlloc has just cleared.                     *)
Zero == [p |-> FALSE, rw |-> FALSE, us |-> FALSE, ps |-> FALSE, addr |-> 0]
NewTable == [i \in 0..(E - 1) |-> Zero]
NoMap == [phys |-> NULL, user |-> FALSE]

Store(f, a, r) == [x \in DOMAIN f \cup {a} |-> IF x = a THEN r ELSE f[x]]

(* Op applied to the value of x: x is evaluated once and bound, so a      *)
(* state threaded through the steps of one call is computed once.         *)
With(x, Op(_)) == CHOOSE y \in {Op(v) : v \in {x}} : TRUE

-----------------------------------------------------------------------------
\* mutant: off by one, the frame after the one marked allocated is returned
PageAllocIn_NextPtr(st) ==
  IF FA!FreeIdx(st.fl) = {} THEN [st EXCEPT !.status = "panic"]
  ELSE LET i == FA!FirstFree(st.fl)
           p == st.fl[i].ptr + PageSize
       IN  [st EXCEPT !.fl[i].free = FALSE, !.held = @ \cup {p}, !.ret = p]

(* One PageAlloc inside a paging call; the frame comes back zeroed.       *)
PageAllocIn(st) ==
  IF FA!FreeIdx(st.fl) = {} THEN [st EXCEPT !.status = "panic"]
  ELSE LET i == FA!FirstFree(st.fl)
           p == st.fl[i].ptr
       IN  [st EXCEPT !.fl[i].free = FALSE, !.held = @ \cup {p}, !.ret = p]

\* mutant: an existing next-level table is replaced by a fresh one
GetEntryNextLevel_Always(st, cur, e) ==
  IF st.status # "ok" \/ cur = NULL THEN [st EXCEPT !.ret = NULL]
  ELSE With(PageAllocIn(st), LAMBDA s1 :
         IF s1.status # "ok" THEN s1
         ELSE [s1 EXCEPT !.tbl = [Store(s1.tbl, s1.ret, NewTable) EXCEPT
                 ![cur][e] = [@ EXCEPT !.p = TRUE, !.rw = TRUE, !.addr = s1.ret]]])

(* GetEntryNextLevel(cur, e): a missing level is allocated and entered    *)
(* present and writable; a present entry's address is returned as the    *)
(* next table, without looking at its PageSize bit.                       *)
GetEntryNextLevel(st, cur, e) ==
  IF st.status # "ok" \/ cur = NULL THEN [st EXCEPT !.ret = NULL]
  ELSE IF ~st.tbl[cur][e].p
  THEN With(PageAllocIn(st), LAMBDA s1 :
         IF s1.status # "ok" THEN s1
         ELSE [s1 EXCEPT !.tbl = [Store(s1.tbl, s1.ret, NewTable) EXCEPT
                 ![cur][e] = [@ EXCEPT !.p = TRUE, !.rw = TRUE, !.addr = s1.ret]]])
  ELSE IF st.tbl[cur][e].ps THEN [st EXCEPT !.status = "misuse"]
  ELSE [st EXCEPT !.ret = st.tbl[cur][e].addr]

(* The translations a map call asks for: one page, or the E pages of a    *)
(* 2 MiB entry.                                                           *)
Wanted(w, root, virt, phys, size, user) ==
  IF root \notin DOMAIN w THEN w
  ELSE LET first == virt \div PageSize
           n == IF size = "2M" THEN E ELSE 1
       IN  [w EXCEPT ![root] =
              [v \in VPages |-> IF first <= v /\ v < first + n
                                THEN [phys |-> phys + (v - first) * PageSize,
                                      user |-> user]
                                ELSE @[v]]]

\* mutant: the final entry keeps the flags it had and loses a new user bit
Leaf_NoUser(old, phys, size, user) ==
  [old EXCEPT !.p = TRUE, !.rw = TRUE, !.addr = phys, !.ps = @ \/ size = "2M"]

(* The final entry: present, writable, the frame; PageSize and            *)
(* UserSupervisor are set when asked and never cleared.                   *)
Leaf(old, phys, size, user) ==
  [old EXCEPT !.p = TRUE, !.rw = TRUE, !.addr = phys,
              !.ps = @ \/ size = "2M", !.us = @ \/ user]

(* MapMemory(root, virt, phys, size, user).                               *)
MapMemory(st, root, virt, phys, size, user) ==
  With(GetEntryNextLevel(st, root, L4(virt)), LAMBDA pdpt :
  With(IF size = "2M" THEN GetEntryNextLevel(pdpt, pdpt.ret, L3(virt))
       ELSE With(GetEntryNextLevel(pdpt, pdpt.ret, L3(virt)), LAMBDA pd :
              GetEntryNextLevel(pd, pd.ret, L2(virt))), LAMBDA s2 :
    LET idx == IF size = "2M" THEN L2(virt) ELSE L1(virt)
        t == s2.ret
    IN  IF s2.status # "ok" \/ t = NULL THEN s2           \* KSTATUS_FAIL
        ELSE [s2 EXCEPT !.tbl[t][idx] = Leaf(@, phys, size, user),
                        !.want = Wanted(@, root, virt, phys, size, user)]))

(* What the MMU finds for virtual page v under root: the frame, and the  *)
(* UserSupervisor bit of the entry that maps it.                         *)
Walk(tb, root, v) ==
  LET virt == v * PageSize
      e4 == tb[root][L4(virt)]
      e3 == tb[e4.addr][L3(virt)]
      e2 == tb[e3.addr][L2(virt)]
      e1 == tb[e2.addr][L1(virt)]
  IN  IF ~e4.p \/ ~e3.p \/ ~e2.p THEN NoMap
      ELSE IF e2.ps THEN [phys |-> e2.addr + L1(virt) * PageSize, user |-> e2.us]
      ELSE IF ~e1.p THEN NoMap
      ELSE [phys |-> e1.addr, user |-> e1.us]

(* The MMU grants ring-3 access to v only if every entry on its walk has  *)
(* UserSupervisor set.                                                    *)
UserAccess(tb, root, v) ==
  LET virt == v * PageSize
      e4 == tb[root][L4(virt)]
      e3 == tb[e4.addr][L3(virt)]
      e2 == tb[e3.addr][L2(virt)]
      e1 == tb[e2.addr][L1(virt)]
  IN  /\ e4.p /\ e3.p /\ e2.p /\ e4.us /\ e3.us /\ e2.us
      /\ (e2.ps \/ (e1.p /\ e1.us))

-----------------------------------------------------------------------------
Req(v, p, size, user) == [virt |-> v, phys |-> p, size |-> size, user |-> user]

(* The map calls of a loop, in order; the sequence is folded in halves so *)
(* that the recursion stays logarithmic in its length.                   *)
RECURSIVE MapAll(_, _, _)
MapAll(st, root, reqs) ==
  IF reqs = <<>> \/ st.status # "ok" THEN st
  ELSE IF Len(reqs) = 1
  THEN MapMemory(st, root, reqs[1].virt, reqs[1].phys, reqs[1].size, reqs[1].user)
  ELSE LET h == Len(reqs) \div 2
       IN  With(MapAll(st, root, SubSeq(reqs, 1, h)), LAMBDA s :
             MapAll(s, root, SubSeq(reqs, h + 1, Len(reqs))))

(* The kernel image, 4 KiB pages from kernelVirtBase to kernelPhysBase.   *)
KernelImage ==
  [i \in 1..KernelPages |->
     Req(KernelVirt + (i - 1) * PageSize, KernelPhys + (i - 1) * PageSize, "4K", FALSE)]

(* 0-2 MiB: identity for every page but page 0, and the hhdm alias.       *)
LowMap ==
  SE!FlattenSeq([i \in 1..E |->
    LET a == (i - 1) * PageSize
    IN  (IF a # 0 THEN <<Req(a, a, "4K", FALSE)>> ELSE <<>>)
        \o <<Req(HhdmBase + a, a, "4K", FALSE)>>])

(* 2 MiB up to 0x40000000: identity and hhdm 2 MiB pages.                 *)
LargeMap ==
  SE!FlattenSeq([j \in 1..(E - 1) |->
    <<Req(j * TwoMiB, j * TwoMiB, "2M", FALSE),
      Req(HhdmBase + j * TwoMiB, j * TwoMiB, "2M", FALSE)>>])

(* 0x40000000 up to 0x100000000: identity and hhdm 4 KiB pages.           *)
HighMap ==
  SE!FlattenSeq([k \in 1..((FourGiB - OneGiB) \div PageSize) |->
    LET a == OneGiB + (k - 1) * PageSize
    IN  <<Req(a, a, "4K", FALSE), Req(HhdmBase + a, a, "4K", FALSE)>>])

(* Every page of every memory-map entry, identity, 4 KiB.                 *)
MemMapReqs(mm) ==
  SE!FlattenSeq([i \in 1..Len(mm) |->
    [k \in 1..((mm[i].length + PageSize - 1) \div PageSize) |->
       Req(mm[i].base + (k - 1) * PageSize, mm[i].base + (k - 1) * PageSize, "4K", FALSE)]])

(* The framebuffer: fbBase is an hhdm address, mapped to fbBase - hhdm.   *)
FbReqs ==
  [k \in 1..FbPages |->
     LET v == HhdmBase + FbPhys + (k - 1) * PageSize
     IN  Req(v, v - HhdmBase, "4K", FALSE)]

(* CreateDefaultMappings(root): its six loops in order.                   *)
CreateDefaultMappings(st, root, mm) ==
  MapAll(st, root, KernelImage \o LowMap \o LargeMap \o HighMap
                   \o MemMapReqs(mm) \o FbReqs)

(* A new PML4: a zeroed frame; its translations start empty.              *)
NewRoot(st) ==
  With(PageAllocIn(st), LAMBDA s1 :
    IF s1.status # "ok" THEN s1
    ELSE [s1 EXCEPT !.tbl = Store(@, s1.ret, NewTable),
                    !.want = Store(@, s1.ret, [v \in VPages |-> NoMap]),
                    !.root = s1.ret])

(* InitializePaging: pml4 = PageAlloc(), CreateDefaultMappings(pml4), and *)
(* LoadKernelPML4 (the CR3 load is modelled in Scheduler).                *)
InitializePaging(st, mm) ==
  With(NewRoot(st), LAMBDA s1 :
    IF s1.status # "ok" THEN s1 ELSE CreateDefaultMappings(s1, s1.root, mm))

Offset(inKernelCode) == IF inKernelCode THEN KernelVirt ELSE 0

(* CreateProcessPML4(start, end, inKernelCode): the 2 MiB kernel-range    *)
(* pages, the kernel image, and for a non-kernel task its code, user.     *)
ProcessReqs(start, end, inKernelCode) ==
  LargeMap \o KernelImage
  \o (IF ~inKernelCode
      THEN [k \in 1..((end - start + PageSize - 1) \div PageSize) |->
              Req(start + (k - 1) * PageSize + Offset(inKernelCode),
                  start + (k - 1) * PageSize, "4K", TRUE)]
      ELSE <<>>)

CreateProcessPML4(st, start, end, inKernelCode) ==
  With(NewRoot(st), LAMBDA s1 :
    IF s1.status # "ok" THEN s1
    ELSE MapAll(s1, s1.root, ProcessReqs(start, end, inKernelCode)))

Snapshot ==
  [fl |-> frameList, held |-> held, tbl |-> tbl, want |-> want,
   ret |-> NULL, root |-> NULL, status |-> "ok"]

Finish(st) ==
  /\ frameList' = st.fl
  /\ held' = st.held
  /\ tbl' = st.tbl
  /\ want' = st.want
  /\ panicked' = (st.status = "panic")
  /\ misuse' = (st.status = "misuse")
  /\ calls' = calls + 1
  /\ UNCHANGED <<segSize, region, bootMap>>

Callable == ~panicked /\ ~misuse /\ pml4 # NULL /\ calls < MaxCalls

(* IntAddTask's CreateProcessPML4 for a task's code range.                *)
CreateTask ==
  /\ Callable
  /\ \E r \in CodeRanges :
       \E st \in {CreateProcessPML4(Snapshot, r.start, r.end, r.kernel)} :
           /\ Finish(st)
           /\ UNCHANGED pml4
           /\ tasks' = IF st.status = "ok" THEN tasks \cup {st.root} ELSE tasks

(* AllocatePage: a frame mapped identity, user, into the running task's   *)
(* PML4; with current at &prochead that PML4 is NULL and MapMemory fails. *)
AllocatePage ==
  /\ Callable
  /\ \E root \in tasks \cup {NULL} :
       \E s1 \in {PageAllocIn(Snapshot)} :
         \E st \in {IF s1.status # "ok" THEN s1
                    ELSE MapMemory(s1, root, s1.ret, s1.ret, "4K", TRUE)} :
           Finish(st)
  /\ UNCHANGED <<pml4, tasks>>

(* InitializeAllocator has run at boot; paging is not yet set up.        *)
Init ==
  \E mm \in MemMaps :
    /\ FA!InitFrom(mm)
    /\ bootMap = mm
    /\ tbl = <<>>
    /\ want = <<>>
    /\ pml4 = NULL
    /\ tasks = {}
    /\ misuse = FALSE
    /\ calls = 0

(* kmain's InitializePaging, once, after the allocator.                   *)
Boot ==
  /\ ~panicked
  /\ pml4 = NULL
  /\ \E st \in {InitializePaging(Snapshot, bootMap)} :
       /\ Finish(st)
       /\ pml4' = st.root
  /\ UNCHANGED tasks

Done ==
  /\ pml4 # NULL \/ panicked
  /\ ~Callable
  /\ UNCHANGED vars

Next == Boot \/ CreateTask \/ AllocatePage \/ Done

Spec == Init /\ [][Next]_vars

-----------------------------------------------------------------------------
Idx == 0..(E - 1)
Roots == tasks \cup (IF pml4 = NULL THEN {} ELSE {pml4})

(* The tables one level below the tables T, and the entries leading there. *)
Links(T) == {<<t, i>> \in T \X Idx : tbl[t][i].p /\ ~tbl[t][i].ps}
Below(T) == {tbl[l[1]][l[2]].addr : l \in Links(T)}

TypeOK ==
  /\ FA!TypeOK
  /\ DOMAIN tbl \subseteq held
  /\ \A i \in DOMAIN frameList : frameList[i].ptr \in DOMAIN tbl => ~frameList[i].free
  /\ \A f \in DOMAIN tbl : tbl[f] \in [Idx -> [p : BOOLEAN, rw : BOOLEAN, us : BOOLEAN,
                                                ps : BOOLEAN, addr : Nat]]
  /\ pml4 \in DOMAIN tbl \cup {NULL}
  /\ tasks \subseteq DOMAIN tbl
  /\ Roots \subseteq DOMAIN want /\ DOMAIN want \subseteq DOMAIN tbl
  /\ misuse \in BOOLEAN
  /\ calls \in 0..MaxCalls

(* Every map call of CreateDefaultMappings, CreateProcessPML4 and         *)
(* AllocatePage takes effect: in every address space each virtual page    *)
(* translates, through the four levels as the MMU walks them, to the last *)
(* physical page and user bit a map call asked for it, and pages no call  *)
(* asked for are unmapped.  It fails if a walk reuses or replaces a table *)
(* another mapping goes through, or if a later map disturbs a sibling.    *)
Translations ==
  \A r \in DOMAIN want : \A v \in VPages : Walk(tbl, r, v) = want[r][v]

(* The tables form one tree per address space: every frame GetEntryNextLevel *)
(* allocated as a table is reached from exactly one present entry of the *)
(* level above, tables of different levels and spaces are never shared,  *)
(* and none is orphaned (table frames are never freed, so an orphan leaks *)
(* it).  The spaces are every PML4 made, a task's included when its       *)
(* CreateProcessPML4 was cut short by the PageAlloc panic.                *)
TableTree ==
  LET Spaces == DOMAIN want
      T3 == Below(Spaces)
      T2 == Below(T3)
      T1 == Below(T2)
      Inner == T3 \cup T2 \cup T1
  IN  /\ DOMAIN tbl = Spaces \cup Inner
      /\ Spaces \cap Inner = {} /\ T3 \cap T2 = {} /\ T3 \cap T1 = {} /\ T2 \cap T1 = {}
      /\ \A f \in Inner :
           Cardinality({l \in Links(Spaces \cup T3 \cup T2) : tbl[l[1]][l[2]].addr = f}) = 1

(* MapMemory never walks through a 2 MiB entry: GetEntryNextLevel returns *)
(* a present entry's address as the next table without testing PageSize, *)
(* so a 4 KiB map inside a 2 MiB page writes an entry into the data page. *)
NoLargePageDescent == ~misuse

(* Every task address space sees the kernel image where the kernel runs   *)
(* it: kernelVirtBase + i translates to kernelPhysBase + i, supervisor.   *)
KernelVisibleInTasks ==
  \A r \in tasks : \A k \in 0..(KernelPages - 1) :
    Walk(tbl, r, KernelVirt \div PageSize + k) = [phys |-> KernelPhys + k * PageSize, user |-> FALSE]

(* A page mapped with user = true (a task's code by CreateProcessPML4, a *)
(* page by AllocatePage) is accessible from ring 3 through the walk.      *)
UserPagesAccessible ==
  \A r \in DOMAIN want : \A v \in VPages :
    want[r][v].user => UserAccess(tbl, r, v)
=============================================================================
