------------------------------ MODULE Console ------------------------------
(***************************************************************************)
(* The kernel console: printf, print and putchar of src/src/util/print.c, *)
(* itoa and hexToString of src/src/util/string.c and write_serial of      *)
(* src/src/util/serial.c.                                                  *)
(*                                                                         *)
(* Characters are their codes and a string is a sequence of codes, its    *)
(* NUL implicit at Len + 1.  Each context makes one printf call, chosen   *)
(* from Calls: a format and its arguments (an integer for %d, %x and %c,  *)
(* a string for %s).  itoa and hexToString write static buffers (ret[64], *)
(* hexString[128]) and return a pointer into them, which print then reads *)
(* one character per step.  Without Preemptive, contexts are successive   *)
(* printf calls: kmain prints with interrupts enabled, but no ISR it can  *)
(* take prints (the syscall and exception handlers that do are interrupt  *)
(* gates, taken from tasks), so no two calls overlap.  With Preemptive,   *)
(* contexts are tasks the timer switches between at any step, as          *)
(* TerminateTask's printf runs before its cli (scheduler.c:142-144).      *)
(* Either way they share the static buffers.  One putchar is one step: its two  *)
(* write_serial calls for a newline are kept together.  The framebuffer   *)
(* terminal (flanterm, not in the source tree) is not modelled; out is    *)
(* what reaches COM1, each byte tagged with the context that wrote it.    *)
(***************************************************************************)
EXTENDS Integers, Sequences, SequencesExt

CONSTANTS
  Ctx,      \* the printing contexts
  Calls,    \* the printf calls a context may make: [fmt, args]
  Preemptive \* TRUE when the contexts are tasks under the timer

(* No format ends in a lone '%': printf would step past its NUL.          *)
ASSUME \A x \in Calls : x.fmt[Len(x.fmt)] # 37

VARIABLES
  out,      \* the bytes written to COM1: <<context, code>>
  ret,      \* itoa's static char ret[64]; a 32-bit int writes ret[0..11] at most
  hexString,\* hexToString's static buffer, positions HexLo..127
  call,     \* call[c]: the call context c makes
  pc,       \* "idle", "fmt" (scanning the format), "str" (inside print) or "done"
  fi,       \* fi[c]: the format character printf reads next
  ai,       \* ai[c]: the next va_arg
  src,      \* src[c]: the buffer print reads: "ret", "hex" or "arg"
  k         \* k[c]: the index print reads next in it

vars == <<out, ret, hexString, call, pc, fi, ai, src, k>>

HexLo == 111             \* 16 hex digits below the NUL at 127
NUL == 0
Pct == 37                \* '%'
LF == 10
CR == 13

-----------------------------------------------------------------------------
(* C's int division and remainder truncate toward zero.                   *)
CDiv(a, b) == IF a >= 0 \/ a % b = 0 THEN a \div b ELSE a \div b + 1
CMod(a, b) == a - b * CDiv(a, b)

(* itoa's first loop: size counts the divisions by 10 until the quotient  *)
(* is 0, then size++.                                                      *)
RECURSIVE ItoaSize(_)
ItoaSize(t) == IF CDiv(t, 10) = 0 THEN 1 ELSE 1 + ItoaSize(CDiv(t, 10))

\* mutant: the final size++ is missing
ItoaWrite_NoIncrement(buf, n) ==
  LET size == ItoaSize(n) - 1
  IN  [j \in DOMAIN buf |->
         IF j < size THEN CMod(CDiv(n, 10^(size - 1 - j)), 10) + 48
         ELSE IF j = size THEN NUL ELSE buf[j]]

(* itoa(res): ret[size] = '\0', then from i = size - 1 down to 0          *)
(* ret[i] = (t % 10) + '0' and t = t / 10.  No sign is written.            *)
ItoaWrite(buf, n) ==
  LET size == ItoaSize(n)
  IN  [j \in DOMAIN buf |->
         IF j < size THEN CMod(CDiv(n, 10^(size - 1 - j)), 10) + 48
         ELSE IF j = size THEN NUL ELSE buf[j]]

(* hexToString: the digits are written backwards from hexString[126],     *)
(* "0" for 0; the returned pointer is the first digit.                    *)
RECURSIVE HexLen(_)
HexLen(v) == IF v < 16 THEN 1 ELSE 1 + HexLen(v \div 16)

HexChar(d) == IF d < 10 THEN 48 + d ELSE 55 + d   \* "0123456789ABCDEF"[d]

HexPtr(v) == 127 - HexLen(v)

HexWrite(buf, v) ==
  [j \in DOMAIN buf |->
     IF j = 127 THEN NUL
     ELSE IF j >= HexPtr(v) THEN HexChar((v \div 16^(126 - j)) % 16)
     ELSE buf[j]]

-----------------------------------------------------------------------------
(* putchar: write_serial('\r') before a '\n', then write_serial(c); each  *)
(* write_serial spins until COM1's transmit register is empty.            *)
WriteSerial(c, ch) == << <<c, ch>> >>

Putchar(c, ch) == out' = out \o (IF ch = LF THEN WriteSerial(c, CR) \o WriteSerial(c, LF)
                                            ELSE WriteSerial(c, ch))

(* The character at index i of a string, NUL past its end.                *)
At(s, i) == IF i \in 1..Len(s) THEN s[i] ELSE NUL

(* printf hands print the pointer a conversion returned; format has      *)
(* moved past the conversion.                                             *)
\* mutant: the conversion takes two va_args
Enter_SkipArg(c, buf, at) ==
  /\ pc' = [pc EXCEPT ![c] = "str"]
  /\ src' = [src EXCEPT ![c] = buf]
  /\ k' = [k EXCEPT ![c] = at]
  /\ fi' = [fi EXCEPT ![c] = @ + 2]
  /\ ai' = [ai EXCEPT ![c] = @ + 2]

Enter(c, buf, at) ==
  /\ pc' = [pc EXCEPT ![c] = "str"]
  /\ src' = [src EXCEPT ![c] = buf]
  /\ k' = [k EXCEPT ![c] = at]
  /\ fi' = [fi EXCEPT ![c] = @ + 2]
  /\ ai' = [ai EXCEPT ![c] = @ + 1]

(* A context may take a step: it is preempted at any step, or no other    *)
(* context is inside a call.                                               *)
MayRun(c) == Preemptive \/ \A d \in Ctx \ {c} : pc[d] \in {"idle", "done"}

Start(c) ==
  /\ pc[c] = "idle" /\ MayRun(c)
  /\ \E x \in Calls : call' = [call EXCEPT ![c] = x]
  /\ pc' = [pc EXCEPT ![c] = "fmt"]
  /\ UNCHANGED <<out, ret, hexString, fi, ai, src, k>>

(* One iteration of printf's loop: a conversion, or an ordinary character *)
(* printed as printf("%c", *format).  An unknown conversion is skipped    *)
(* with no argument taken.                                                *)
ScanFormat(c) ==
  /\ pc[c] = "fmt" /\ MayRun(c)
  /\ LET f == call[c].fmt
         ch == At(f, fi[c])
         conv == At(f, fi[c] + 1)
         v == call[c].args[ai[c]]
     IN  \/ /\ ch = NUL
            /\ pc' = [pc EXCEPT ![c] = "done"]
            /\ UNCHANGED <<out, ret, hexString, fi, ai, src, k>>
         \/ /\ ch = Pct /\ conv = 100                       \* %d
            /\ ret' = ItoaWrite(ret, v)
            /\ Enter(c, "ret", 0)
            /\ UNCHANGED <<out, hexString>>
         \/ /\ ch = Pct /\ conv = 115                       \* %s
            /\ Enter(c, "arg", 1)
            /\ UNCHANGED <<out, ret, hexString>>
         \/ /\ ch = Pct /\ conv = 120                       \* %x
            /\ hexString' = HexWrite(hexString, v)
            /\ Enter(c, "hex", HexPtr(v))
            /\ UNCHANGED <<out, ret>>
         \/ /\ ch = Pct /\ conv = 99                        \* %c
            /\ Putchar(c, v % 256)
            /\ fi' = [fi EXCEPT ![c] = @ + 2]
            /\ ai' = [ai EXCEPT ![c] = @ + 1]
            /\ UNCHANGED <<ret, hexString, pc, src, k>>
         \/ /\ ch = Pct /\ conv \notin {NUL, 99, 100, 115, 120}
            /\ fi' = [fi EXCEPT ![c] = @ + 2]
            /\ UNCHANGED <<out, ret, hexString, pc, ai, src, k>>
         \/ /\ ch \notin {NUL, Pct}
            /\ Putchar(c, ch)
            /\ fi' = [fi EXCEPT ![c] = @ + 1]
            /\ UNCHANGED <<ret, hexString, pc, ai, src, k>>
  /\ UNCHANGED call

(* The character print reads at k[c] of the buffer it was given.          *)
Reading(c) ==
  CASE src[c] = "ret" -> ret[k[c]]
    [] src[c] = "hex" -> hexString[k[c]]
    [] src[c] = "arg" -> At(call[c].args[ai[c] - 1], k[c])

(* One iteration of print's loop over the returned pointer.               *)
PrintChar(c) ==
  /\ pc[c] = "str" /\ MayRun(c)
  /\ IF Reading(c) = NUL
     THEN /\ pc' = [pc EXCEPT ![c] = "fmt"]
          /\ UNCHANGED <<out, k>>
     ELSE /\ Putchar(c, Reading(c))
          /\ k' = [k EXCEPT ![c] = @ + 1]
          /\ UNCHANGED pc
  /\ UNCHANGED <<ret, hexString, call, fi, ai, src>>

Init ==
  /\ out = <<>>
  /\ ret = [j \in 0..11 |-> NUL]
  /\ hexString = [j \in HexLo..127 |-> NUL]
  /\ call = [c \in Ctx |-> CHOOSE x \in Calls : TRUE]
  /\ pc = [c \in Ctx |-> "idle"]
  /\ fi = [c \in Ctx |-> 1]
  /\ ai = [c \in Ctx |-> 1]
  /\ src = [c \in Ctx |-> "ret"]
  /\ k = [c \in Ctx |-> 0]

(* Every call has returned; the kernel goes on with other work.           *)
Done ==
  /\ \A c \in Ctx : pc[c] = "done"
  /\ UNCHANGED vars

Next == \E c \in Ctx : Start(c) \/ ScanFormat(c) \/ PrintChar(c)
        \/ Done

Spec == Init /\ [][Next]_vars /\ \A c \in Ctx : WF_vars(ScanFormat(c) \/ PrintChar(c) \/ Start(c))

-----------------------------------------------------------------------------
TypeOK ==
  /\ pc \in [Ctx -> {"idle", "fmt", "str", "done"}]
  /\ \A c \in Ctx : /\ call[c] \in Calls
                    /\ ai[c] \in 1..(Len(call[c].args) + 1)
                    /\ fi[c] \in 1..(Len(call[c].fmt) + 1)
  /\ \A e \in ToSet(out) : e[1] \in Ctx /\ e[2] \in 0..255

(* What C's printf would print for the call: %d in signed decimal, %x in  *)
(* upper-case hexadecimal, %s the string, %c the character.               *)
RECURSIVE Unsigned(_)
Unsigned(m) == IF m < 10 THEN <<48 + m>> ELSE Unsigned(m \div 10) \o <<48 + (m % 10)>>

HexDigits == <<48, 49, 50, 51, 52, 53, 54, 55, 56, 57, 65, 66, 67, 68, 69, 70>>

RECURSIVE HexRef(_)
HexRef(m) == IF m < 16 THEN <<HexDigits[m + 1]>>
             ELSE HexRef(m \div 16) \o <<HexDigits[(m % 16) + 1]>>

Decimal(n) == IF n < 0 THEN <<45>> \o Unsigned(-n) ELSE Unsigned(n)

RECURSIVE Formatted(_, _, _, _)
Formatted(f, a, i, j) ==
  IF i > Len(f) THEN <<>>
  ELSE IF f[i] # Pct THEN <<f[i]>> \o Formatted(f, a, i + 1, j)
  ELSE CASE f[i + 1] = 100 -> Decimal(a[j]) \o Formatted(f, a, i + 2, j + 1)
         [] f[i + 1] = 120 -> HexRef(a[j]) \o Formatted(f, a, i + 2, j + 1)
         [] f[i + 1] = 115 -> a[j] \o Formatted(f, a, i + 2, j + 1)
         [] f[i + 1] = 99  -> <<a[j] % 256>> \o Formatted(f, a, i + 2, j + 1)
         [] OTHER          -> Formatted(f, a, i + 2, j)

(* On the serial line every '\n' is preceded by '\r'.                     *)
Serial(s) == FoldLeft(LAMBDA acc, ch : acc \o (IF ch = LF THEN <<CR, LF>> ELSE <<ch>>),
                      <<>>, s)

(* The bytes context c wrote, in order.                                   *)
Written(c) == LET mine == SelectSeq(out, LAMBDA e : e[1] = c)
              IN  [i \in 1..Len(mine) |-> mine[i][2]]

(* Whatever else prints meanwhile, the bytes each printf call writes to   *)
(* COM1 spell its format with its arguments converted as C's printf      *)
(* does: a prefix of that text while the call runs, all of it once it has *)
(* returned.  This is about itoa and hexToString (digits, order, sign)    *)
(* and about their static buffers, which print reads after the           *)
(* conversion returned.                                                   *)
OutputFaithful ==
  \A c \in Ctx :
    LET want == Serial(Formatted(call[c].fmt, call[c].args, 1, 1))
    IN  IF pc[c] = "done" THEN Written(c) = want
        ELSE IsPrefix(Written(c), want)
=============================================================================
