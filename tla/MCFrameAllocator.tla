------------------------- MODULE MCFrameAllocator -------------------------
(* Model-checking instance of FrameAllocator: boot memory maps with one,  *)
(* two or no usable entries, lengths of a few pages.                      *)
EXTENDS FrameAllocator

Page == 4096

\* a reserved entry, then usable entries of 3 and 7 pages; the longer wins
MapTwoUsable ==
  << [base |-> 0,         length |-> Page,     type |-> "reserved"],
     [base |-> 16 * Page, length |-> 3 * Page, type |-> "usable"],
     [base |-> 32 * Page, length |-> 7 * Page, type |-> "usable"] >>

\* two usable entries of equal length: the first is kept
MapTie ==
  << [base |-> 8 * Page,  length |-> 2 * Page, type |-> "usable"],
     [base |-> 24 * Page, length |-> 2 * Page, type |-> "usable"] >>

\* nothing usable: InitializeAllocator panics
MapNone ==
  << [base |-> 0, length |-> 4 * Page, type |-> "reserved"] >>

MCMemMaps == {MapTwoUsable, MapTie, MapNone}

\* an address inside the reserved entry, which no frame has
MCForeign == {Page}
=============================================================================
