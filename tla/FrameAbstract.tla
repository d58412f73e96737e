---------------------------- MODULE FrameAbstract ----------------------------
(***************************************************************************)
(* What the physical frame allocator promises its callers (spec 4.1): a   *)
(* fixed pool of page-aligned frames fixed at boot; an allocation hands   *)
(* out a frame no caller holds, or halts the system when none is left; a  *)
(* free returns a frame to the pool; freeing an address it does not know, *)
(* or a frame already free, is a stuttering step.                         *)
(***************************************************************************)
EXTENDS Naturals

CONSTANT PageSize

VARIABLES
  pool,       \* the frames the allocator manages
  allocated,  \* the frames handed out and not freed
  halted      \* the allocator panicked

Init ==
  /\ pool \subseteq Nat
  /\ \A a \in pool : a % PageSize = 0
  /\ allocated = {}
  /\ halted \in BOOLEAN
  /\ halted => pool = {}

Alloc ==
  /\ ~halted
  /\ \/ \E a \in pool \ allocated : allocated' = allocated \cup {a}
                                    /\ UNCHANGED halted
     \/ /\ allocated = pool
        /\ halted' = TRUE
        /\ UNCHANGED allocated
  /\ UNCHANGED pool

Free ==
  /\ ~halted
  /\ \E a \in allocated : allocated' = allocated \ {a}
  /\ UNCHANGED <<pool, halted>>

Next == Alloc \/ Free

Spec == Init /\ [][Next]_<<pool, allocated, halted>>
=============================================================================
