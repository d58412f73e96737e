--------------------------- MODULE FrameAllocator ---------------------------
(***************************************************************************)
(* The physical frame allocator of src/src/mm/allocator/allocator.c.       *)
(*                                                                         *)
(* InitializeAllocator runs once at boot, so it is the initial condition: *)
(* of the boot memory map it keeps the largest usable entry, places the   *)
(* frame table (FrameList, one struct Page per frame) at its base and     *)
(* lays the frames out after the table.  PageAlloc hands out the first    *)
(* free frame (panicking when there is none); PageFree marks free every   *)
(* frame whose address matches.  Addresses are bytes; the contents of a   *)
(* frame (zeroed by PageAlloc) are not modelled.                           *)
(*                                                                         *)
(* `held' records, for the properties, the frames callers were given and  *)
(* have not freed.                                                         *)
(***************************************************************************)
EXTENDS Naturals, Sequences, FiniteSets

CONSTANTS
  PageSize,   \* 0x1000
  EntrySize,  \* sizeof(struct Page): a pointer and a one-bit field, 16
  MemMaps,    \* the boot memory maps considered: sequences of
              \* [base, length, type] entries
  Foreign     \* addresses a caller may pass to PageFree that are no frame

ASSUME /\ PageSize \in Nat \ {0}
       /\ EntrySize \in Nat \ {0}

VARIABLES
  frameList,  \* FrameList[0 .. n-1]: [ptr, free]
  segSize,    \* LargestMemSegSize
  region,     \* the memory-map entry the frames were carved from
  panicked,   \* panic() was called
  held        \* frames handed out by PageAlloc and not yet freed

vars == <<frameList, segSize, region, panicked, held>>

ALIGN_UP(v, b) == ((v + (b - 1)) \div b) * b

NumFrames == segSize \div PageSize

(* The entry InitializeAllocator keeps: the first usable entry longer     *)
(* than every usable entry before it, i.e. the first of the longest.      *)
LargestUsable(mm) ==
  LET U == {i \in DOMAIN mm : mm[i].type = "usable" /\ mm[i].length > 0}
  IN IF U = {} THEN [base |-> 0, length |-> 0, type |-> "none"]
     ELSE mm[CHOOSE i \in U : \A j \in U :
                \/ mm[j].length < mm[i].length
                \/ mm[j].length = mm[i].length /\ i <= j]

\* mutant: the table loop runs to i <= n, one entry past LargestMemSegSize
BuildFrameList_OffByOne(e) ==
  LET n     == e.length \div PageSize
      first == ALIGN_UP(e.base + EntrySize * n, PageSize)
  IN [i \in 1..(n + 1) |-> [ptr |-> first + (i - 1) * PageSize, free |-> TRUE]]

(* The frame table built in place: n = length / 0x1000 frames starting at *)
(* the first page boundary after the n table entries.                     *)
BuildFrameList(e) ==
  LET n     == e.length \div PageSize
      first == ALIGN_UP(e.base + EntrySize * n, PageSize)
  IN [i \in 1..n |-> [ptr |-> first + (i - 1) * PageSize, free |-> TRUE]]

(* InitializeAllocator(mm) as a value: the table, LargestMemSegSize, the  *)
(* entry kept, and whether it panicked ("Detected no free memory!").      *)
Initial(mm) ==
  LET e == LargestUsable(mm)
  IN  IF e.length = 0
      THEN [fl |-> <<>>, seg |-> 0, region |-> e, panicked |-> TRUE]
      ELSE [fl |-> BuildFrameList(e), seg |-> e.length, region |-> e,
            panicked |-> FALSE]

InitFrom(mm) ==
  LET a == Initial(mm)
  IN  /\ frameList = a.fl
      /\ segSize = a.seg
      /\ region = a.region
      /\ panicked = a.panicked
      /\ held = {}

Init == \E mm \in MemMaps : InitFrom(mm)

\* mutant: PageAlloc's scan stops one frame short (i < n - 1)
FreeIdx_ShortScan(fl) == {i \in 1..(NumFrames - 1) : fl[i].free}

(* The frames PageAlloc's scan finds free in table fl.                    *)
FreeIdx(fl) == {i \in 1..NumFrames : fl[i].free}

(* The index PageAlloc's scan stops at: the first free frame of fl.       *)
FirstFree(fl) == CHOOSE k \in FreeIdx(fl) : \A j \in 1..(k - 1) : ~fl[j].free

(* PageAlloc: the first free frame is marked allocated, zeroed and        *)
(* returned; with none free it panics ("No free mem left!").              *)
PageAlloc ==
  /\ ~panicked
  /\ IF FreeIdx(frameList) = {}
     THEN /\ panicked' = TRUE
          /\ UNCHANGED <<frameList, held>>
     ELSE LET i == FirstFree(frameList)
          IN  /\ frameList' = [frameList EXCEPT ![i].free = FALSE]
              /\ held' = held \cup {frameList[i].ptr}
              /\ UNCHANGED panicked
  /\ UNCHANGED <<segSize, region>>

\* mutant: PageFree flips the flag instead of setting it
FreeMatching_Toggle(a) ==
  [i \in DOMAIN frameList |->
     IF frameList[i].ptr = a
     THEN [frameList[i] EXCEPT !.free = ~@] ELSE frameList[i]]

(* PageFree's scan: every frame whose address equals a becomes free.      *)
FreeMatching(a) ==
  [i \in DOMAIN frameList |->
     IF frameList[i].ptr = a THEN [frameList[i] EXCEPT !.free = TRUE]
     ELSE frameList[i]]

(* PageFree(a) for an address a caller holds, an address freed before     *)
(* (a double free) or an address that is no frame (ignored).              *)
PageFree ==
  /\ ~panicked
  /\ \E a \in {f.ptr : f \in {frameList[i] : i \in DOMAIN frameList}} \cup Foreign :
       /\ frameList' = FreeMatching(a)
       /\ held' = held \ {a}
  /\ UNCHANGED <<segSize, region, panicked>>

Halted ==
  /\ panicked
  /\ UNCHANGED vars

Next == PageAlloc \/ PageFree \/ Halted

Spec == Init /\ [][Next]_vars

-----------------------------------------------------------------------------
TypeOK ==
  /\ frameList \in Seq([ptr : Nat, free : BOOLEAN])
  /\ Len(frameList) = NumFrames
  /\ segSize \in Nat
  /\ panicked \in BOOLEAN
  /\ held \subseteq Nat

(* Spec 8: the frames the table marks allocated are exactly those callers *)
(* were given and have not freed; freeing an unknown address, or freeing  *)
(* twice, changes nothing.                                                *)
AllocatedMatchesHeld ==
  {frameList[i].ptr : i \in {j \in DOMAIN frameList : ~frameList[j].free}}
    = held

(* Every frame PageAlloc hands out lies inside the usable memory-map      *)
(* entry InitializeAllocator carved the frames from.                      *)
FramesInRegion ==
  \A a \in held : region.base <= a /\ a + PageSize <= region.base + region.length

(* PageAlloc and PageFree implement the abstract allocator.               *)
Abstract == INSTANCE FrameAbstract WITH
  pool      <- {frameList[i].ptr : i \in DOMAIN frameList},
  allocated <- {frameList[i].ptr : i \in {j \in DOMAIN frameList : ~frameList[j].free}},
  halted    <- panicked

AbstractSpec == Abstract!Spec
=============================================================================
