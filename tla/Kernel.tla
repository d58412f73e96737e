------------------------------- MODULE Kernel -------------------------------
(***************************************************************************)
(* kmain's boot sequence after paging (src/src/bootstrap/kmain.c) with the *)
(* ramdisk of src/src/ramdisk/tar.c, over the heap of Heap.                *)
(*                                                                         *)
(* InitializeRamdisk walks the tar archive of the boot module and, for     *)
(* each header, mallocs a struct FileNode and pushes it on the front of    *)
(* the file list.  kmain then asks the ramdisk for "a.out", mallocs a      *)
(* buffer of its size, copies the file, checks the ELF header and calls    *)
(* aligned_alloc(0x1000, p_memsz) for each loadable program header; then  *)
(* it halts.  Everything runs on one CPU before any task exists, so each   *)
(* step is one action.  The archive is a sequence of entries [path, field, *)
(* elf]: the 12-byte octal size field of its header and, for an ELF file,  *)
(* the header fields kmain tests.  File contents are not modelled.         *)
(***************************************************************************)
EXTENDS Naturals, Sequences, FiniteSets, CStrings

CONSTANTS
  PageSize, EntrySize, MemMaps, Foreign,  \* those of FrameAllocator
  Hdr, Mallocs, Aligned, MaxCalls, Fuel,  \* those of Heap
  Archives,      \* the boot modules: tar archives, or NoModule
  NoModule,      \* bootloader.mod is NULL
  Target,        \* "a.out", as its byte codes
  FileNodeSize   \* sizeof(struct FileNode), 120

VARIABLES
  frameList, segSize, region, panicked, held,          \* FrameAllocator
  headNext, node, live, heapFrames, failure, calls, lastNeed,  \* Heap
  archive,     \* the boot module
  pc,          \* "ramdisk", "load", "segments" or "halt"
  pos,         \* index of the next tar header InitializeRamdisk reads
  files,       \* the FileNode list from filehead.next: [path, size, elf]
  rdInit,      \* ramdiskInitialized
  image,       \* the ELF header fields of the file kmain loaded
  seg          \* the next program header kmain reads

heapVars == <<frameList, segSize, region, panicked, held,
              headNext, node, live, heapFrames, failure, calls, lastNeed>>
bootVars == <<archive, pc, pos, files, rdInit, image, seg>>
vars == <<heapVars, bootVars>>

H == INSTANCE Heap

NoFile == [path |-> Target, size |-> 0, elf |-> NoModule]

-----------------------------------------------------------------------------
(* DecodeValue: the 11 octal digits of a size field, most significant     *)
(* first, each taken as its character code minus '0'.  ret and count are  *)
(* uint32_t; the sizes of the model stay far below 2^32, so the wrap a     *)
(* field above 37777777777 would cause is not modelled.                   *)
RECURSIVE DecodeFrom(_, _, _)

DecodeFrom(value, j, count) ==
  IF j = 0 THEN 0
  ELSE (value[j] - 48) * count + DecodeFrom(value, j - 1, count * 8)

\* mutant: the loop starts one digit early (value[j - 2])
DecodeValue_Short(value) == DecodeFrom(value, 10, 1)

DecodeValue(value) == DecodeFrom(value, 11, 1)

(* RdFileGetFrame's test strncmp(path, FilePath, 100) == 0.  A path is   *)
(* the byte codes of the header's name; InsertEntry's strcpy copies it    *)
(* whole into FilePath, the names being shorter than the 100-byte field.  *)
SamePath(a, b) == StrNCmp(a, b, 100) = 0

(* RdFileGetFrame: the first node of the list whose path matches.         *)
RdFileGetFrame(fs, path) ==
  IF \E i \in 1..Len(fs) : SamePath(path, fs[i].path)
  THEN fs[CHOOSE i \in 1..Len(fs) : SamePath(path, fs[i].path)
                                    /\ \A j \in 1..(i - 1) : ~SamePath(path, fs[j].path)]
  ELSE NoFile

(* RdFileGetSz: 0 before InitializeRamdisk or for a missing file.         *)
RdFileGetSz(path) == IF rdInit THEN RdFileGetFrame(files, path).size ELSE 0

(* RdFileGetStream: what kmain's buffer holds after the copy, of which    *)
(* the model keeps the ELF header fields.                                 *)
RdFileGetStream(path) == IF rdInit THEN RdFileGetFrame(files, path).elf ELSE NoModule

\* mutant: InsertEntry appends the node at the end of the list
InsertEntry_Append(fs, e) == Append(fs, e)

(* InsertEntry: the new node becomes filehead.next.                       *)
InsertEntry(fs, e) == <<e>> \o fs

(* The heap call of one boot step, its result bound once.                 *)
HeapCall(st, ptr, hi, need) == H!Finish(st, ptr, hi, need)

(* One iteration of InitializeRamdisk's loop: the header at rdstart is    *)
(* not a zero block; its node is malloc'd and inserted, and rdstart moves *)
(* past the header and the data rounded up to 512.                        *)
RegisterFile ==
  /\ pc = "ramdisk" /\ ~panicked
  /\ pos <= Len(archive)
  /\ \E st \in {H!Alloc(H!Snapshot, FileNodeSize, 1)} :
       /\ HeapCall(st, st.ret + Hdr, st.ret + Hdr + FileNodeSize, H!NeedPages(FileNodeSize))
       /\ files' = InsertEntry(files, [path |-> archive[pos].path,
                                       size |-> DecodeValue(archive[pos].field),
                                       elf  |-> archive[pos].elf])
  /\ pos' = pos + 1
  /\ UNCHANGED <<archive, pc, rdInit, image, seg>>

(* The zero block after the last file ends the loop.                      *)
RamdiskDone ==
  /\ pc = "ramdisk" /\ ~panicked
  /\ pos > Len(archive)
  /\ rdInit' = TRUE
  /\ pc' = "load"
  /\ UNCHANGED <<heapVars, archive, pos, files, image, seg>>

(* The ELF header tests kmain makes: the four magic bytes, then EM_X86_64. *)
ElfAccepted(elf) == elf # NoModule /\ elf.magic /\ elf.machine

(* RdFileGetSz("a.out"); for a non-empty file malloc(sz), RdFileGetStream *)
(* and the header tests; a failed test prints and falls to the halt loop. *)
LoadElf ==
  /\ pc = "load" /\ ~panicked
  /\ LET sz == RdFileGetSz(Target)
         elf == RdFileGetStream(Target)
     IN  IF sz = 0
         THEN /\ pc' = "halt"
              /\ UNCHANGED <<heapVars, image, seg>>
         ELSE \E st \in {H!Alloc(H!Snapshot, sz, 1)} :
                /\ HeapCall(st, st.ret + Hdr, st.ret + Hdr + sz, H!NeedPages(sz))
                /\ image' = elf
                /\ seg' = 1
                /\ pc' = IF ElfAccepted(elf) THEN "segments" ELSE "halt"
  /\ UNCHANGED <<archive, pos, files, rdInit>>

\* mutant: the loop index is not incremented
NextSeg_Stuck(i) == i

\* mutant: the loop index is incremented twice
NextSeg_Skip(i) == i + 2

(* The loop's i++.                                                        *)
NextSeg(i) == i + 1

(* One iteration of the program-header loop: a PT_LOAD header gets        *)
(* aligned_alloc(0x1000, p_memsz); other types are only printed.          *)
LoadSegment ==
  /\ pc = "segments" /\ ~panicked
  /\ seg <= Len(image.phdrs)
  /\ LET ph == image.phdrs[seg]
     IN  IF ph.type = 1
         THEN \E st \in {H!Alloc(H!Snapshot, ph.memsz, PageSize)} :
                LET p == H!ALIGN_UP(st.ret + Hdr, PageSize)
                IN  HeapCall(st, p, p + ph.memsz, H!NeedPages(ph.memsz + PageSize - 1))
         ELSE UNCHANGED heapVars
  /\ seg' = NextSeg(seg)
  /\ UNCHANGED <<archive, pc, pos, files, rdInit, image>>

SegmentsDone ==
  /\ pc = "segments" /\ ~panicked
  /\ seg > Len(image.phdrs)
  /\ pc' = "halt"
  /\ UNCHANGED <<heapVars, archive, pos, files, rdInit, image, seg>>

(* while (1) hlt; or the panic's halt.                                    *)
Halted ==
  /\ pc = "halt" \/ panicked
  /\ UNCHANGED vars

(* if (bootloader.mod) InitializeRamdisk(...): the first step of kmain    *)
(* the model takes.                                                       *)
FirstStep(mod) == IF mod = NoModule THEN "load" ELSE "ramdisk"

(* The allocator is initialised, filehead is empty and                    *)
(* ramdiskInitialized is false.                                           *)
Init ==
  /\ H!Init
  /\ archive \in Archives
  /\ pc = FirstStep(archive)
  /\ pos = 1
  /\ files = <<>>
  /\ rdInit = FALSE
  /\ image = NoModule
  /\ seg = 1

Next == RegisterFile \/ RamdiskDone \/ LoadElf \/ LoadSegment \/ SegmentsDone \/ Halted

Spec == Init /\ [][Next]_vars /\ WF_vars(Next)

-----------------------------------------------------------------------------
TypeOK ==
  /\ H!TypeOK
  /\ pc \in {"ramdisk", "load", "segments", "halt"}
  /\ pos \in 1..(IF archive = NoModule THEN 1 ELSE Len(archive) + 1)
  /\ rdInit \in BOOLEAN
  /\ seg \in 1..(IF image = NoModule THEN 1 ELSE Len(image.phdrs) + 1)

(* No heap call of the boot faults or panics, and the FileNodes, the ELF  *)
(* buffer and the segments kmain allocates never share a byte.            *)
BootHeapSound ==
  /\ failure = "none"
  /\ H!LiveDisjoint

(* kmain loads the file of the last archive entry named exactly a.out,   *)
(* the one a tar reader takes when a name repeats, and no other file     *)
(* whose name only begins with it: RdFileGetFrame's strncmp against name  *)
(* equality.                                                               *)
LoadsLastEntry ==
  pc = "segments" =>
    LET named == {i \in 1..Len(archive) : archive[i].path = Target}
    IN  \E i \in named : (\A j \in named : j <= i) /\ image = archive[i].elf

(* The size InitializeRamdisk records for each file is the number its     *)
(* header's size field spells in octal: DecodeValue against the digits of *)
(* a base-8 numeral.  files[i] is the node of header pos - i, the list     *)
(* being built by pushing on its front.                                   *)
SizesDecoded ==
  \A i \in 1..Len(files) :
    \A j \in 1..11 :
      archive[pos - i].field[j] - 48 = (files[i].size \div 8^(11 - j)) % 8

(* The boot reaches kmain's halt loop (or a panic).                       *)
BootTerminates == <>(pc = "halt" \/ panicked)
=============================================================================
