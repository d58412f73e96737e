-------------------------------- MODULE Heap --------------------------------
(***************************************************************************)
(* The kernel heap of src/src/mm/heapalloc/heap.c over the frame          *)
(* allocator of FrameAllocator.                                            *)
(*                                                                         *)
(* The free list is intrusive: a struct HeapNode {size, next} is written  *)
(* at the start of each free block.  Memory is modelled only where the    *)
(* heap writes headers: node[a] is the header at byte address a (0 is     *)
(* NULL), and a header written over an existing one replaces it, as the   *)
(* store does.  Every heap call runs to completion without interruption:  *)
(* the callers are kmain's sequential boot code and IntAddTask, which     *)
(* runs under cli.  Inside a call the search loop, the pool growth and    *)
(* each PageAlloc it makes are evaluated in order by recursive operators  *)
(* over a record st of the state they change:                             *)
(*   fl   the frame table     hn   head.next      nd   the headers         *)
(*   held, hf  frames handed out / taken by the heap                      *)
(*   ret  the last pointer returned   status "ok", "panic" or "fault".    *)
(*                                                                         *)
(* Other kernel users of PageAlloc (page tables, task stacks) take frames *)
(* between heap calls; the heap never frees a frame in this build.        *)
(***************************************************************************)
EXTENDS Naturals, Sequences, FiniteSets

CONSTANTS
  PageSize, EntrySize, MemMaps, Foreign,  \* those of FrameAllocator
  Hdr,       \* sizeof(struct HeapNode), 16
  Mallocs,   \* sizes passed to malloc / calloc
  Aligned,   \* [size, align] pairs passed to aligned_alloc
  MaxCalls,  \* bound on the calls made (heap calls and other PageAllocs)
  Fuel       \* bound on search-loop iterations within one call

ASSUME /\ Hdr \in Nat \ {0}
       /\ Mallocs \subseteq Nat
       /\ \A r \in Aligned : r.size \in Nat /\ r.align \in Nat \ {0}
       /\ MaxCalls \in Nat /\ Fuel \in Nat

VARIABLES
  frameList, segSize, region, panicked, held,  \* the frame allocator
  headNext,    \* head.next, the first free node (0 when empty)
  node,        \* node[a]: the HeapNode header stored at address a
  live,        \* blocks handed out: [ptr, lo, hi, cap]: the pointer, the
               \* header to the last byte, and the end of the node found
  heapFrames,  \* frames PageAlloc gave the heap
  failure,     \* "none", "panic" (frames exhausted) or "fault" (a NULL
               \* dereference, a page fault that panics); "hang" would
               \* mean Fuel was too small
  calls,       \* calls made so far
  lastNeed     \* frames a heap call's request needs at least

faVars == <<frameList, segSize, region, panicked, held>>
heapVars == <<headNext, node, live, heapFrames, failure, lastNeed>>
vars == <<faVars, heapVars, calls>>

FA == INSTANCE FrameAllocator

NULL == 0

\* &head, the static sentinel: an address outside every frame
HeadNode == 1

ALIGN_UP(v, b) == FA!ALIGN_UP(v, b)

Store(f, a, r) == [x \in DOMAIN f \cup {a} |-> IF x = a THEN r ELSE f[x]]

(* Op applied to the value of x: x is evaluated once and bound, so a      *)
(* state threaded through the steps of one call is computed once.         *)
With(x, Op(_)) == CHOOSE y \in {Op(v) : v \in {x}} : TRUE

-----------------------------------------------------------------------------
(* One PageAlloc inside a heap call: the first free frame, or the panic.  *)
PageAllocIn(st) ==
  IF FA!FreeIdx(st.fl) = {} THEN [st EXCEPT !.status = "panic"]
  ELSE LET i == FA!FirstFree(st.fl)
           p == st.fl[i].ptr
       IN  [st EXCEPT !.fl[i].free = FALSE, !.held = @ \cup {p},
                      !.hf = @ \cup {p}, !.ret = p]

(* CreateNode: write {size, head.next} at a and make it the first node.   *)
CreateNode(st, a, size) ==
  [st EXCEPT !.nd = Store(st.nd, a, [size |-> size, next |-> st.hn]),
             !.hn = a]

(* The pages CombineBlocks' loop allocates: one per 4096 bytes of size.   *)
LoopPages(size) == (size + (PageSize - 1)) \div PageSize

RECURSIVE AllocPages(_, _)
AllocPages(st, k) ==
  IF k = 0 \/ st.status # "ok" THEN st
  ELSE With(PageAllocIn(st), LAMBDA s : AllocPages(s, k - 1))

(* CombineBlocks: an initial frame, then one more per 4096 bytes; the     *)
(* node at the initial frame is sized by the loop's frames only.  The     *)
(* rollback branch is unreachable: PageAlloc panics instead of failing.   *)
CombineBlocks(st, size) ==
  With(PageAllocIn(st), LAMBDA s1 :
    With(AllocPages(s1, LoopPages(size)), LAMBDA s2 :
      IF s2.status # "ok" THEN s2
      ELSE CreateNode(s2, s1.ret, LoopPages(size) * PageSize)))

NextOf(st, cur) == IF cur = HeadNode THEN st.hn ELSE st.nd[cur].next

SetNext(st, cur, v) ==
  IF cur = HeadNode THEN [st EXCEPT !.hn = v] ELSE [st EXCEPT !.nd[cur].next = v]

(* A node fits when it holds the header and the requested size.           *)
Fits(size, nsize) == Hdr + size <= nsize

(* FindAndRemoveNode's loop from cur.  At the end of the list a large     *)
(* request grows the pool and restarts from head; a small one pushes a    *)
(* fresh frame at the head of the list and goes on to test cur->next,     *)
(* which is the new node only when cur is head.                           *)
RECURSIVE FindLoop(_, _, _, _), FitStep_NoAdvance(_, _, _, _), FitStep(_, _, _, _)
FindLoop(st, cur, size, fuel) ==
  IF fuel = 0 THEN [st EXCEPT !.status = "hang"]
  ELSE IF NextOf(st, cur) # NULL THEN FitStep(st, cur, size, fuel)
  ELSE IF size + Hdr >= PageSize
       THEN With(CombineBlocks(st, size), LAMBDA s2 :
              IF s2.status # "ok" THEN s2
              ELSE FindLoop(s2, HeadNode, size, fuel - 1))
       ELSE With(PageAllocIn(st), LAMBDA s2 :
              IF s2.status # "ok" THEN s2
              ELSE With(CreateNode(s2, s2.ret, PageSize), LAMBDA s3 :
                     FitStep(s3, cur, size, fuel)))

\* mutant: the loop tests cur->next again without advancing current
FitStep_NoAdvance(st, cur, size, fuel) ==
  LET n == NextOf(st, cur)
  IN  IF n = NULL THEN [st EXCEPT !.status = "fault"]
      ELSE IF Fits(size, st.nd[n].size)
           THEN [SetNext(st, cur, st.nd[n].next) EXCEPT !.ret = n]
           ELSE FindLoop(st, cur, size, fuel - 1)

(* The test of cur->next: unlink and return it when it fits, else step.   *)
FitStep(st, cur, size, fuel) ==
  LET n == NextOf(st, cur)
  IN  IF n = NULL THEN [st EXCEPT !.status = "fault"]   \* NULL->size
      ELSE IF Fits(size, st.nd[n].size)
           THEN [SetNext(st, cur, st.nd[n].next) EXCEPT !.ret = n]
           ELSE FindLoop(st, n, size, fuel - 1)

FindAndRemoveNode(st, size) == FindLoop(st, HeadNode, size, Fuel)

\* mutant: the alignment slack is not requested
Request_NoSlack(size, align) == size

(* What _alloc asks FindAndRemoveNode for: size plus alignment - 1.       *)
Request(size, align) == size + (align - 1)

\* mutant: the remainder is placed at the aligned base, not after the data
RemainderAt_NoSize(baseAlign, size) == baseAlign

(* Where _alloc puts the remainder node: right after the caller's bytes.  *)
RemainderAt(baseAlign, size) == baseAlign + size

(* _alloc(size, alignment): find a node for size + alignment - 1 bytes,   *)
(* put the unused inner bytes back as a node at the end of the data and   *)
(* shrink the found node.  ret is the node, the block's header; cap the  *)
(* end of the node as it was found.                                       *)
Alloc(st, size, align) ==
  With(FindAndRemoveNode(st, Request(size, align)), LAMBDA s1 :
  LET n == s1.ret
      base == n + Hdr
      baseAlign == ALIGN_UP(base, align)
      innerSize == s1.nd[n].size - Hdr
      extraSize == innerSize - size
      s2 == CreateNode(s1, RemainderAt(baseAlign, size), extraSize)
      s3 == IF extraSize > 0 THEN [s2 EXCEPT !.nd[n].size = @ - extraSize]
            ELSE s1
  IN  IF s1.status # "ok" THEN s1 ELSE [s3 EXCEPT !.cap = n + s1.nd[n].size])

Snapshot ==
  [fl |-> frameList, hn |-> headNext, nd |-> node, held |-> held,
   hf |-> heapFrames, ret |-> NULL, cap |-> NULL, status |-> "ok"]

(* The frames a heap call needs at least: the request and its header.     *)
NeedPages(size) == (size + Hdr + (PageSize - 1)) \div PageSize

(* The state a finished heap call leaves.  ptr is what the caller gets;   *)
(* the block it owns runs from the header to the last requested byte.     *)
Finish(st, ptr, hi, need) ==
  /\ frameList' = st.fl
  /\ held' = st.held
  /\ headNext' = st.hn
  /\ node' = st.nd
  /\ heapFrames' = st.hf
  /\ panicked' = (st.status # "ok")
  /\ failure' = IF st.status = "ok" THEN "none" ELSE st.status
  /\ live' = IF st.status = "ok"
             THEN live \cup {[ptr |-> ptr, lo |-> st.ret, hi |-> hi, cap |-> st.cap]}
             ELSE live
  /\ lastNeed' = need
  /\ calls' = calls + 1
  /\ UNCHANGED <<segSize, region>>

Callable == ~panicked /\ calls < MaxCalls

(* malloc(size) = _alloc(size, 1); calloc also zeroes the bytes.          *)
Malloc ==
  /\ Callable
  /\ \E size \in Mallocs :
       \E st \in {Alloc(Snapshot, size, 1)} :
           Finish(st, st.ret + Hdr, st.ret + Hdr + size, NeedPages(size))

(* aligned_alloc(alignment, size): _alloc(size, alignment), then the      *)
(* pointer _alloc returned is rounded up to the alignment.                *)
AlignedAlloc ==
  /\ Callable
  /\ \E r \in Aligned :
       \E st \in {Alloc(Snapshot, r.size, r.align)} :
         LET p == ALIGN_UP(st.ret + Hdr, r.align)
         IN  Finish(st, p, p + r.size, NeedPages(r.size + r.align - 1))

(* free(addr): the header 16 bytes before addr goes back on the list      *)
(* with the size stored in it.  Only pointers malloc returned are freed,  *)
(* each once: those have their header at addr - 16.                       *)
Free ==
  /\ Callable
  /\ \E b \in live :
       /\ b.ptr - Hdr = b.lo
       /\ LET st == CreateNode(Snapshot, b.lo, node[b.lo].size)
          IN  /\ headNext' = st.hn
              /\ node' = st.nd
       /\ live' = live \ {b}
       /\ calls' = calls + 1
       /\ UNCHANGED <<faVars, heapFrames, failure, lastNeed>>

(* Another kernel caller (page tables, a task stack) takes a frame.       *)
OtherPageAlloc ==
  /\ Callable
  /\ FA!PageAlloc
  /\ lastNeed' = 1
  /\ calls' = calls + 1
  /\ UNCHANGED <<headNext, node, live, heapFrames>>
  /\ failure' = IF panicked' THEN "panic" ELSE "none"

Init ==
  /\ FA!Init
  /\ headNext = NULL
  /\ node = [a \in {} |-> [size |-> 0, next |-> NULL]]
  /\ live = {}
  /\ heapFrames = {}
  /\ failure = IF panicked THEN "panic" ELSE "none"
  /\ calls = 0
  /\ lastNeed = 0

(* Nothing more happens once the kernel has panicked or the calls are     *)
(* used up.                                                               *)
Done ==
  /\ ~Callable
  /\ UNCHANGED vars

Next == Malloc \/ AlignedAlloc \/ Free \/ OtherPageAlloc \/ Done

Spec == Init /\ [][Next]_vars

-----------------------------------------------------------------------------
RECURSIVE Chain(_, _, _)
Chain(a, nd, fuel) ==
  IF a = NULL \/ fuel = 0 THEN {} ELSE {a} \cup Chain(nd[a].next, nd, fuel - 1)

(* The nodes on the free list.                                            *)
FreeNodes == Chain(headNext, node, Cardinality(DOMAIN node) + 1)

(* The bytes each free node and each live block occupies: a node at       *)
(* least its header, a block from its header to its last byte.            *)
Extents ==
  {[id |-> <<"node", a>>, lo |-> a,
    hi |-> a + (IF node[a].size > Hdr THEN node[a].size ELSE Hdr)] : a \in FreeNodes}
  \cup {[id |-> <<"live", b.ptr>>, lo |-> b.lo, hi |-> b.hi] : b \in live}

TypeOK ==
  /\ FA!TypeOK
  /\ headNext \in DOMAIN node \cup {NULL}
  /\ \A a \in DOMAIN node : node[a].size \in Nat
                            /\ node[a].next \in DOMAIN node \cup {NULL}
  /\ heapFrames \subseteq held
  /\ failure \in {"none", "panic", "fault"}
  /\ calls \in 0..MaxCalls

(* No two free nodes or handed-out blocks share a byte, and every byte of *)
(* them lies in a frame the heap took from PageAlloc: the remainder node  *)
(* _alloc writes after the caller's bytes, and CombineBlocks' multi-frame *)
(* nodes, stay inside memory the heap owns.                               *)
HeapDisjoint ==
  /\ \A e1, e2 \in Extents : e1.id # e2.id => e1.hi <= e2.lo \/ e2.hi <= e1.lo
  /\ \A e \in Extents :
       \A k \in (e.lo \div PageSize)..((e.hi - 1) \div PageSize) :
         k * PageSize \in heapFrames

(* Every frame the heap took is part of some free node or live block:     *)
(* growing the pool leaks no frame.                                       *)
HeapFramesAccounted ==
  \A f \in heapFrames : \E e \in Extents : e.lo < f + PageSize /\ f < e.hi

(* A heap call panics for want of frames only when fewer frames were free *)
(* than its request and header need (spec 4.3: growth takes the frames   *)
(* needed, and fails only when the allocator runs out).                   *)
PanicOnlyWhenFull ==
  [][failure = "none" /\ failure' = "panic"
       => Cardinality(FA!FreeIdx(frameList)) < lastNeed']_vars

(* The heap never dereferences NULL: FindAndRemoveNode always has a node  *)
(* to test after it grows the pool.                                       *)
NoHeapFault == failure # "fault"

(* No two blocks handed out share a byte.                                 *)
LiveDisjoint ==
  \A b1, b2 \in live : b1 # b2 => b1.hi <= b2.lo \/ b2.hi <= b1.lo

(* The bytes a caller gets lie inside the node FindAndRemoveNode found:   *)
(* the fit test's header and the alignment - 1 bytes of slack _alloc adds *)
(* cover the header, the rounding of the pointer and the size.            *)
BlockWithinNode == \A b \in live : b.hi <= b.cap
=============================================================================
