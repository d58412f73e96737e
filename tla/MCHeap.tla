------------------------------- MODULE MCHeap -------------------------------
(* Model-checking instance of Heap: one usable region of 8 frames and the *)
(* request sizes of the heap's callers.                                   *)
EXTENDS Heap

Page == 4096

MCMemMaps ==
  {<< [base |-> 16 * Page, length |-> 8 * Page, type |-> "usable"] >>}

\* sizeof(struct ProcessFrame) = 224 (IntAddTask), sizeof(struct FileNode)
\* = 120 (tar.c), and a file buffer larger than a frame (kmain)
CallerMallocs == {120, 224, 5000}

\* kmain's aligned_alloc(0x1000, p_memsz) of a small segment
CallerAligned == {[size |-> 64, align |-> Page]}

\* a file buffer whose remainder in its frame is smaller than a header
SmallRemainder == {4070}

\* two small requests, the second larger than what the first leaves
TwoSmall == {120, 4000}

\* a one-frame file buffer, as malloc(4096)
PageSized == {4096}

NoAligned == {}
=============================================================================
