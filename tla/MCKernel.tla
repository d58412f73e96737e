------------------------------ MODULE MCKernel ------------------------------
(* Model-checking instance of Kernel: a usable region of 24 frames and     *)
(* boot modules shaped like the ramdisks the kernel is built with.         *)
EXTENDS Kernel

Page == 4096

MCMemMaps ==
  {<< [base |-> 16 * Page, length |-> 24 * Page, type |-> "usable"] >>}

\* the size field tar writes: 11 octal digits, most significant first
Octal11(n) == [j \in 1..11 |-> 48 + ((n \div (8 ^ (11 - j))) % 8)]

File(path, n, elf) == [path |-> path, field |-> Octal11(n), elf |-> elf]

\* a linked x86_64 executable: PT_PHDR, two PT_LOAD segments, PT_GNU_STACK
Exe == [magic |-> TRUE, machine |-> TRUE,
        phdrs |-> << [type |-> 6, memsz |-> 224], [type |-> 1, memsz |-> 400],
                     [type |-> 1, memsz |-> 64], [type |-> 1685382481, memsz |-> 0] >>]

\* a second build: PT_LOAD, PT_DYNAMIC, PT_LOAD
Exe3 == [magic |-> TRUE, machine |-> TRUE,
         phdrs |-> << [type |-> 1, memsz |-> 1200], [type |-> 2, memsz |-> 16],
                      [type |-> 1, memsz |-> 48] >>]

\* an a.out built for another machine
Foreign32 == [magic |-> TRUE, machine |-> FALSE, phdrs |-> Exe.phdrs]

NotElf == [magic |-> FALSE, machine |-> FALSE, phdrs |-> <<>>]

\* file names as byte codes
AOut == <<97, 46, 111, 117, 116>>                       \* "a.out"
AOutOld == <<97, 46, 111, 117, 116, 46, 111, 108, 100>> \* "a.out.old"
Hello == <<104, 101, 108, 108, 111, 46, 116, 120, 116>> \* "hello.txt"
F == <<102>>                                            \* "f"

Entries ==
  { File(AOut, 9000, Exe), File(AOut, 2000, Exe3), File(AOut, 300, Foreign32),
    File(AOutOld, 700, Exe3), File(Hello, 100, NotElf) }

\* every archive of at most three of these entries, and no module at all
MCArchives ==
  UNION { [1..n -> Entries] : n \in 0..3 } \cup {NoModule}

\* archives of n small files followed by a.out: 30 files and 31 files
Many(n) == [i \in 1..n |-> File(F, 10, NotElf)] \o << File(AOut, 9000, Exe) >>

MCManyArchives == { Many(29), Many(30) }
=============================================================================
