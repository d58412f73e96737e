------------------------------ MODULE CStrings ------------------------------
(***************************************************************************)
(* The string routines of src/src/util/string.c that the modelled code     *)
(* calls.  A C string is the sequence of its byte codes before the NUL;    *)
(* a read at or past the NUL yields 0.                                     *)
(***************************************************************************)
EXTENDS Integers, Sequences

(* *str1, *str2 after i steps of the loop.                                 *)
CharAt(s, i) == IF i <= Len(s) THEN s[i] ELSE 0

(* strncmp's loop: i characters compared so far; it goes on while i # n,  *)
(* *str1 is not NUL and the two characters agree, then returns 0 when     *)
(* i = n and the difference of the characters where it stopped otherwise. *)
RECURSIVE StrNCmpFrom(_, _, _, _)
StrNCmpFrom(s1, s2, n, i) ==
  IF i # n /\ CharAt(s1, i + 1) # 0 /\ CharAt(s1, i + 1) = CharAt(s2, i + 1)
  THEN StrNCmpFrom(s1, s2, n, i + 1)
  ELSE IF i = n THEN 0 ELSE CharAt(s1, i + 1) - CharAt(s2, i + 1)

\* mutant: the loop returns 0 once str1 ends, as if str1 were a prefix test
StrNCmp_PrefixOnly(s1, s2, n) ==
  StrNCmpFrom(s1, s2, IF Len(s1) < n THEN Len(s1) ELSE n, 0)

StrNCmp(s1, s2, n) == StrNCmpFrom(s1, s2, n, 0)
=============================================================================
