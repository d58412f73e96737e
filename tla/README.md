# TLA+ models of the system14 kernel core

This directory holds TLA+ models of the resource core of the system14 kernel
(`src/src/`), the TLC configurations that check them, and `PROJECT.json`, which
records for every definition the source lines it models, every run, the
mutants that show each property can fail, the findings and the hazards.

## 1. Inventory

The kernel runs on one CPU. It has no threads. The only concurrency is
interrupts: the RTC timer IRQ, the keyboard IRQ and CPU exceptions. The spec
(§5) says every mutation of shared state happens either during the sequential
boot or inside a handler that runs with interrupts disabled. The models
therefore treat each handler, and each kernel call made with `cli`, as one
atomic step. Tasks interleave only at those steps.

| Component | Source | State | Operations | Interacts with |
|---|---|---|---|---|
| Frame allocator | `mm/allocator/allocator.c` | `FrameList` (an in-place table of `{ptr, free}`), `LargestMemSegSize` | `InitializeAllocator`, `PageAlloc`, `PageFree` | Used by the heap (pool growth), paging (tables) and the scheduler (stacks). Panics when exhausted. |
| Paging | `mm/paging/paging.c` | The kernel `pml4`, `GlobalPagingInfo`, and the page tables themselves | `GetEntryNextLevel`, `MapMemory`, `CreateDefaultMappings`, `CreateProcessPML4`, `LoadKernelPML4`, `InitializePaging` | Takes every table from `PageAlloc`. `cr3load` is called by the scheduler's Stage2 and by the keyboard ISR. |
| Heap | `mm/heapalloc/heap.c` | `head` (a free list of `{size, next}` headers written into the frames) | `CreateNode`, `CombineBlocks`, `FindAndRemoveNode`, `_alloc`, `malloc`, `aligned_alloc`, `calloc`, `free` | Grows from `PageAlloc`. Called by `IntAddTask`, the tar reader and the ELF loader in `kmain`. |
| Scheduler | `multitasking/scheduler.c` | `prochead` (the task list), `current`, `highest_pid` (uint8), `schedulingStarted`, and per task `pid`, `quanta`, `invalid`, `registers`, `cr3`, `next` | `TaskSwitch` (timer ISR), `_TaskSwitch_Stage2`, `IntAddTask`/`AddTask`/`KeAddTask`, `TerminateTask`, `ProcessExit`, `CommonExceptionHandler`, `MarkSchedulingActive`, `GetCurrentProcess` | Calls malloc, `CreateProcessPML4` and `PageAlloc` on spawn. Is driven by the RTC IRQ. Exceptions come through `idt.c`. |
| Interrupt glue | `interrupts/idt.c`, `system/panic.c` | IDT, and IF (interrupts enabled) | The exception handlers, which all call `CommonExceptionHandler`; `KeyboardHandler`, which calls `LoadKernelPML4`; `panic` (`cli; hlt`) | Feeds the scheduler. |
| vmm | `mm/vmm/vmm.c` | none | `AllocatePage` (`PageAlloc`, then `MapMemory` into the current task's PML4) | Has no caller in this build. |
| Ramdisk | `ramdisk/tar.c` | `filehead` (a list of `FileNode {FilePath, FileSize, FileBegin, next}`), `ramdiskInitialized` | `InitializeRamdisk`, `InsertEntry`, `DecodeValue`, `RdFileGetFrame`, `RdFileGetSz`, `RdFileGetStream` | Mallocs one 120-byte `FileNode` per tar header during boot. |
| Boot sequence | `bootstrap/kmain.c` | locals of `_kmain` | `InitializeAllocator`, `InitializePaging`, `InitializeIDT`, `InitializeRamdisk`, then the `a.out` loader: `malloc(sz)`, the ELF header tests, `aligned_alloc(0x1000, p_memsz)` per `PT_LOAD` header, then `hlt` forever | Drives every other component once, in order. `AddTask` and `MarkSchedulingActive` are never called. |
| Spinlock | `multitasking/spinlock.c` | one lock word | `acquire` (an xchg loop with `hlt`) and `release` | Has no caller. |
| Console | `util/print.c`, `util/string.c`, `util/serial.c` | itoa's `static char ret[64]`, `hexString[128]`, the bytes sent to COM1 | `printf`, `print`, `putchar`, `write_serial`, `itoa`, `hexToString` | Called by every component that reports; Only `kmain` and the code it calls print with interrupts enabled. |
| Interrupt setup | `drivers/acpi/acpi.c`, `interrupts/idt.c`, `interrupts/idt.h`, `drivers/apic/apic.c`, `drivers/rtc/rtc.c` | `madtPtr`, `mcfgPtr`, `ioAPIC`, the IDT gates, the IOAPIC redirection entries, IF | `InitializeACPI`, `EnumerateACPITables`, `InitializeIDT` (`AddIDTEntry`, `lidt`, `InitializeAPIC`, `IOAPICRegisterIRQ`, `InitializeRTC`, `sti`) | Decides which handler each RTC and keyboard edge and each exception reaches. |
| Not modelled | PCIe, the PIC and PIT programming, GDT, the other utilities, the syscall stub, the bootloader glue | | | These are I/O or one-shot boot configuration. Their only effects on the core are the calls listed above. |

### Hard behaviours

These are listed in `PROJECT.json` "hazards", each at the line where it bites.

- **Interleaving of ISRs and kernel calls.** A timer tick can fall between any
  two task-level calls: spawn, exit, fault or terminate. The keyboard IRQ can
  change CR3 between a tick and the task it resumes.
- **Lookup by a uint8 pid.** Reaping and termination find a task by its pid.
  `highest_pid` wraps after 255 spawns.
- **Stale `current`.** A direct `TerminateTask` of the running task unlinks
  the frame `current` still points at; the next tick saves into it.
- **Shared static buffers.** `itoa` and `hexToString` return pointers into
  static buffers; a printf suspended between the conversion and `print`
  prints whatever the next conversion left there.
- **Lost `sti`.** `TerminateTask` returns from inside its loop before it
  re-enables interrupts.
- **Resource exhaustion.** `PageAlloc` panics instead of failing. This makes
  every rollback path above it dead code.
- **Off-by-one and overruns in layouts.**
  - The frame table is carved out of the same region as the frames.
  - The heap writes remainder headers after a block's end.
  - Heap nodes that are sized without the initial page never fit their request.
- **Page-table walks.**
  - A 4K map inside a 2 MiB page reuses a data frame as a table.
  - Flags are never cleared on a remap.
  - Intermediate entries never get the user bit.
- **Boot-time sizes.** The boot module decides how many `FileNode`s and how
  large a buffer the heap must serve before any task exists: a ramdisk of 31
  files is enough to reach the heap's fault path.
- **Vectors and routing.** The vector numbers in `idt.h`, the gates
  `AddIDTEntry` installs, the IOAPIC pins `IOAPICRegisterIRQ` programs and the
  MADT the firmware supplies must all agree, or an interrupt reaches the
  wrong handler, a missing gate (then #GP, and #DF after a fault), or a masked pin.
- **Interrupts enabled mid-boot.** `InitializeRTC` ends with `sti` inside
  `InitializeIDT`, before the keyboard is routed; an edge that reaches a
  masked pin is lost for good.

### Properties per component

- **Frame allocator.**
  - The frames marked allocated are exactly the frames callers hold (spec §8).
  - Freeing an unknown address, or freeing twice, changes nothing.
  - Every frame lies inside the usable region.
  - The allocator refines an abstract pool: an allocation hands out a frame no
    caller holds, or halts only when none is free.
- **Scheduler.**
  - A task resumes with its own saved context.
  - A slice never exceeds the quantum.
  - Only tasks that exited or faulted are unlinked.
  - Every task is eventually scheduled, and every invalid task is eventually
    reaped.
  - A resumed task runs on its own PML4.
  - An unknown pid is a no-op.
  - Adoption does not consume the quantum.
- **Heap.**
  - Free nodes, live blocks and headers are pairwise disjoint and lie in frames
    the heap owns (`HeapDisjoint`, `LiveDisjoint`).
  - The bytes a caller gets lie inside the node the search unlinked
    (`BlockWithinNode`).
  - Every frame the heap takes is part of some node (`HeapFramesAccounted`).
  - A request never faults, and panics only when the frames run out
    (`NoHeapFault`, `PanicOnlyWhenFull`).
- **Paging.**
  - Map, then walk, yields the mapping every call asked for (`Translations`,
    spec §8).
  - The tables of every address space form a tree of distinct, allocated
    frames, and no table frame is also a data frame (`TableTree`).
  - No walk descends through a 2 MiB entry (`NoLargePageDescent`).
  - Every task sees the kernel image at its virtual base, and its user pages
    are reachable from ring 3 (`KernelVisibleInTasks`, `UserPagesAccessible`).
- **Ramdisk and boot.**
  - Each recorded size is the octal number its header spells (`SizesDecoded`).
  - kmain loads the last archive entry named `a.out` (`LoadsLastEntry`).
  - The program-header loop stays inside the table and the boot reaches the
    halt loop (`TypeOK`, `BootTerminates`).
  - No heap call of the boot faults, and no two boot allocations overlap
    (`BootHeapSound`).
- **Interrupt setup.**
  - Every RTC and keyboard IRQ the CPU takes runs that device's handler
    (`IrqsReachTheirHandlers`).
  - Every exception runs the handler named for it (`ExceptionsReachTheirHandlers`).
  - The timer ticks forever unless the boot panics (`TimerTicks`), the
    assumption the scheduler's fairness rests on.
  - Every key pressed is eventually read (`KeysServed`).

## 2. Plan

The most important behaviour comes first:

1. **`Scheduler`** (done). This is the timer ISR against every task-level call,
   the part of the kernel that is concurrent.
2. **`FrameAllocator`** (done), with **`FrameAbstract`** as its abstract
   specification and a refinement checked as a property. Every other component
   sits on it.
3. **`Heap`** (done). It instantiates `FrameAllocator` for the frames it grows
   from and adds the free list, with malloc and aligned_alloc calls of a few
   sizes. Other kernel `PageAlloc` users are interleaved as an action, because
   they break frame contiguity.
4. **`Paging`** (done). It also instantiates `FrameAllocator`. It uses a page-table
   walk over a handful of index values per level, `MapMemory` with 4K and 2M
   sizes, and `CreateProcessPML4` scaled down to a few entries.
5. **`Kernel`** (boot part done). It instantiates `Heap` and models what
   `kmain` does after the allocator: the ramdisk, the `a.out` lookup and the
   ELF loader's allocations. Still to do: compose `Scheduler` and `Paging`
   into it, so that a spawn becomes malloc, then `CreateProcessPML4`, then
   `PageAlloc`, and running out of memory during a spawn is visible; and tie
   `AllocatePage`'s frame to the current task.
6. **`RoundRobin`**. This is an abstract scheduler, a queue of runnable tasks
   with a rotation every Quantum ticks. `Scheduler` is shown to implement it
   when no pid wraps and no direct terminate happens.
7. **`Interrupts`** (done). ACPI table discovery and `InitializeIDT` over a
   handful of firmware descriptions, then the RTC, keyboard and exception
   deliveries they lead to.
8. **`CStrings`** (done). `strncmp` as the code writes it, replacing name
   equality in `Kernel` and `Interrupts`.
9. **`Spinlock`** (not modelled). The xchg-based lock has no caller and the
   kernel runs on one CPU, so any model of it would check contexts the code
   never creates. See section 5.

## 3. Modules

### `Scheduler.tla`

The `ProcessFrame` list is modelled with explicit pointers: `headNext` is
`prochead.next` and `next[t]` is a frame's `next`. An unlinked frame therefore
keeps the stale pointer the code follows at `scheduler.c:64`. Frames are task
ids `1..MaxSpawn`, allocated in spawn order because the heap never reuses
memory here. `current` is `NULL`, `ProcHead` or a task. `pid` and `highest_pid`
are `PidBits`-bit integers. In the code they are `uint8_t`, and the narrower
width lets a wrap happen within the bound. `quanta` is modelled mod 256, as a
`uint8_t`.

The register snapshot is abstracted to a context identity:

- `regs[t]` is the context saved in frame `t`;
- `cpu` is the context on the CPU;
- `Boot` is the kernel's own boot context.

`cr3` is a task id or `KernelRoot`. `intEnabled` is IF. `failed` records a
`panic` (`cli; hlt`), or an ISR that faulted with IF clear (`"wedged"`).

Actions:

| Action | Code | Notes |
|---|---|---|
| `Tick` | `TaskSwitch` followed by `_TaskSwitch_Stage2` | Includes the save (`Saved`), the reap (`Reap`, which calls `TerminateTask` by pid), the rotation (`Rotate`), the decrement, the restore and the CR3 reload (`SwitchTo`). A NULL dereference inside the ISR is a page fault taken with IF clear (`IsrFault`). |
| `KeyboardHandler` | `LoadKernelPML4` | The scancode is data. |
| `IntAddTask` | `IntAddTask` | The memory it takes is abstracted to a fresh frame. |
| `TerminateTaskCall` | `TerminateTask` called by the running task, any pid | Includes the NULL dereference on an unknown pid and the missing `sti`. |
| `ProcessExit` | `ProcessExit` | |
| `Fault` | An exception in the running task, through `CommonExceptionHandler` | |
| `MarkSchedulingActive` | `MarkSchedulingActive` | `kmain` has it commented out. It is kept as an action because the spec describes the started behaviour. |
| `Halted` | The `hlt` loop after a panic | |

Task-level calls are made by whatever context is on the CPU when it is not
parked in an exit or fault loop (`Caller`). The `Calls` constant selects which
calls a run allows.

### `FrameAllocator.tla` and `FrameAbstract.tla`

`InitializeAllocator` is the initial condition. It chooses over the boot
memory maps in `MemMaps`, keeps the first usable entry longer than all earlier
ones, builds `FrameList` at the entry's base, and starts the frames at the
first page boundary after the table. It panics when there is no usable entry.
`PageAlloc` takes the first free frame, or panics. `PageFree(a)` frees every
frame whose address is `a`. `a` is chosen from the frames and from `Foreign`,
addresses that are no frame. The ghost `held` records what callers hold.

`FrameAbstract` is the promise of spec §4.1:

- a fixed pool;
- `Alloc` hands out a frame outside `allocated`, or halts only when all are
  allocated;
- `Free` removes one frame from `allocated`.

`FrameAllocator` maps to it through the pool of frame addresses, the addresses
marked allocated, and `panicked`.

### `Heap.tla`

`Heap` instantiates `FrameAllocator` (`FA`) and keeps the free list the way
the code stores it: `headNext` is `head.next` and `node[a]` is the
`HeapNode {size, next}` header at byte address `a`. A header written over
another replaces it, as the store does. `live` is a ghost set of the blocks
handed out (`[ptr, lo, hi, cap]`: pointer, header, last byte, end of the node
it came from), `heapFrames` the frames the heap took, `failure` a `"panic"`
or a `"fault"` (a NULL dereference).

A heap call runs to completion: its callers are `kmain`'s sequential boot
and `IntAddTask` under `cli`. Inside a call, `FindAndRemoveNode`'s loop,
`CombineBlocks`' pool growth and every `PageAlloc` are recursive operators
over a record `st` of the state they change (`FindLoop`, `FitStep`,
`CombineBlocks`, `AllocPages`), in the code's order. `Alloc` is `_alloc`:
the search, the remainder node placed at `base_align + size` and sized
`innerSize - size`. The actions are `Malloc`, `AlignedAlloc`, `Free` (of a
malloc'd pointer), `OtherPageAlloc` (page tables and stacks taking frames
between heap calls) and `Done`.

Each step of a call is bound once with `With(x, Op(_))`, and each action
takes its state as `\E st \in {Alloc(...)}`. TLC does not cache `LET`
definitions or operator arguments when it collects coverage, so a state
threaded through a recursion would otherwise be recomputed at every use.

### `Paging.tla`

`Paging` also instantiates `FrameAllocator`. Tables have `E` entries instead
of 512, so a "2 MiB" PD entry covers `E` pages and a "1 GiB" PDPT entry
`E^2`. The code's address constants are expressed in those units, and each
loop of `CreateDefaultMappings` and `CreateProcessPML4` runs over the same
kinds of entries as in the code. `tbl[f]` is the table in frame `f`. An entry
is `[p, rw, us, ps, addr]`. The ghost `want[r][v]` is the translation every
map call on root `r` asked for, and `misuse` records a walk that used a
2 MiB entry as a table pointer.

`GetEntryNextLevel`, `MapMemory` (4K and 2M), `CreateDefaultMappings` (as
the list of requests its loops make, mapped by `MapAll`),
`CreateProcessPML4` and `InitializePaging` are operators over `st`. The
actions are `Boot` (`InitializePaging` after `InitializeAllocator`),
`CreateTask` (`CreateProcessPML4` from `IntAddTask`, over `CodeRanges`),
`AllocatePage` (`vmm.c`, into a task's PML4 or into NULL, which is what
`current` gives before any task exists) and `Done`. `Boot` is an action
rather than part of `Init`, because TLC evaluates `Init` without caching.

### `Kernel.tla`

`Kernel` instantiates `Heap` and models `kmain` from `InitializeRamdisk` to
the halt loop. The boot module is a sequence of tar headers `[path, field,
elf]`: the 11 octal digits of the size field, and for an ELF file the header
fields `kmain` tests. File bytes are not modelled. `pc` is the phase
(`"ramdisk"`, `"load"`, `"segments"`, `"halt"`), `pos` the next header,
`files` the `FileNode` list from `filehead.next`, `image` the loaded ELF
header and `seg` the program-header index. A path is the byte codes of the
header's name, and `RdFileGetFrame` compares it with `strncmp(path,
FilePath, 100)` from `CStrings`.

| Action | Code |
|---|---|
| `RegisterFile` | One iteration of `InitializeRamdisk`'s loop: `DecodeValue`, `malloc(sizeof(struct FileNode))`, `InsertEntry` (push on the front). |
| `RamdiskDone` | The zero header; `ramdiskInitialized = true`. |
| `LoadElf` | `RdFileGetSz("a.out")`; for a non-empty file `malloc(sz)`, `RdFileGetStream` and the magic and machine tests. |
| `LoadSegment` | One iteration of the program-header loop: `aligned_alloc(0x1000, p_memsz)` for `PT_LOAD`. |
| `SegmentsDone`, `Halted` | The end of the loop; `while (1) hlt` or a panic. |

### `CStrings.tla`

`CStrings` holds `strncmp` from `util/string.c` as a recursive operator over
byte-code sequences, a read at or past the end yielding NUL, so the loop's
three exits (`n` characters compared, NUL in `str1`, a difference) are the
code's. `Kernel` uses it for file names (`n = 100`), `Interrupts` for the
four-byte ACPI signatures. `LoadsLastEntry` compares what `strncmp` finds
with name equality, over names of which one (`a.out.old`) begins with the
other: it is the check of `strncmp` against its reference.

### `Console.tla`

`Console` models `printf` over its static conversion buffers. A character
is its code and a string a sequence of codes. Each context (`Ctx`) makes one
call from `Calls`, a format and its arguments. With `Preemptive` FALSE the
calls run one after another: no ISR that `kmain` can take prints, and the
handlers that do print (syscall, exceptions) are interrupt gates entered
from tasks, so no two of this build's calls overlap. With `Preemptive` TRUE
the contexts are tasks the timer switches between at any step: a task's
printf, `TerminateTask`'s included (it prints before its `cli`,
`scheduler.c:142-144`), can be suspended halfway. A reaping tick's own
printf never nests inside another: the tick reaps only the interrupted
task, which is then invalid and spinning, not printing. Either way the
contexts share `ret` and `hexString`. `out` is the byte stream
on COM1, each byte tagged with its context. `pc` is `"fmt"` while printf
scans the format (`fi`, with `ai` the next `va_arg`) and `"str"` while
`print` walks the pointer a conversion returned (`src`, `k`).

| Action | Code |
|---|---|
| `Start` | `va_start`; the call is chosen from `Calls`. |
| `ScanFormat` | One iteration of printf's loop: the end of the format, `%d` (`itoa` writes `ret`), `%s`, `%x` (`hexToString` writes `hexString`), `%c` (`putchar`), an unknown conversion (skipped, no argument taken), or an ordinary character (`printf("%c", ch)`). |
| `PrintChar` | One iteration of `print`: stop at NUL, or `putchar` (CR before LF, each byte one `write_serial`). |
| `Done` | Every call has returned. |

`ItoaWrite` and `HexWrite` are the buffer contents the two conversions leave,
computed with C's truncating `/` and `%` (`CDiv`, `CMod`); `OutputFaithful`
compares what reaches COM1 with a reference printf (`Formatted`, `Serial`).

### `Interrupts.tla`

`Interrupts` models the boot from `InitializeACPI` to the end of
`InitializeIDT`, then the interrupts a booted kernel takes. The firmware
(`Firmwares`, chosen in `Init`) is a record: whether the bootloader found an
RSDP, the RSDT's signature, and the tables the RSDT lists, each a signature
and, for the MADT, a sequence of interrupt controller structures (type 0
LAPIC, 1 I/O APIC with its MMIO base and GSI base, 2 interrupt source
override). `pc` is the boot step. `idt` maps each vector to the handler its
gate names, `redir[a][p]` is redirection entry `p` of the IOAPIC at `a` (a
vector or `Masked`). `rtc` and `kbd` track each device's IRQ: an edge is
`"pending"` when it reached an unmasked pin and `"raised"` when it was lost
at a masked one; neither device raises another until the kernel reads it
(register C in `RTC_Check`, port 0x60 in `KeyboardHandler`). The IOAPIC's
`IOAPICWrite` and `IOAPICWriteRedirectionEntry` write an entry's low
register (vector, unmasked) and its high register (the destination, left
out); the ACPI signature tests are `strncmp(..., 4)` (`SigIs`). The IOAPIC's
routing (`Gsi`, `Receiver`, `Route`: overrides, then the IOAPIC whose GSI
range holds the line) and the CPU's delivery (`Dispatch`: a zeroed entry is no
gate type, so delivery raises #GP; after #DE, #TS-#GP or #PF that is a double
fault, after an IRQ or a benign exception the #GP handler runs) are hardware, written from the x86 and ACPI manuals.

| Action | Code |
|---|---|
| `InitializeACPI` | The RSDP and RSDT tests and their panics. |
| `EnumerateEntry`, `EnumerateDone` | One iteration, and the end, of `EnumerateACPITables`' loop: the last MCFG and the last APIC table win. |
| `LoadIDT` | `memset`, the 13 `AddIDTEntry` calls, `lidt`; `RemapPIC` and `DisablePIC` leave the 8259s masked. |
| `InitializeAPIC`, `MadtEntry`, `MadtDone` | `GetMADT` and the read of `LAPICBase` (a page fault when there is no MADT), one entry of the walk (the last I/O APIC wins), the end of the walk. |
| `RegisterRtc`, `RegisterKbd` | `IOAPICRegisterIRQ(0x28, 8)` and `IOAPICRegisterIRQ(0x21, 1)`: entry `pin` written at register offset `pin * 2`, through `ioAPIC` (a page fault when it is NULL). |
| `InitializeRTC` | Periodic interrupt at rate 15, bracketed by `cli` and `sti`. |
| `Sti` | The final `sti`. |
| `RtcRaise`, `KeyPress` | The device raises its IRQ line. |
| `RtcIrq`, `KbdIrq`, `Exception` | Delivery through the IOAPIC and the IDT (`Deliver`): `TimerStub`, `KeyboardHandler`, `BreakpointHandler` and `SyscallStub` return; every other handler calls `CommonExceptionHandler`, which panics because scheduling is never marked active. |
| `Halted` | `panic`'s `hlt` loop. |

## 4. Runs

| Run | Config | Expect | What it shows |
|---|---|---|---|
| `sched_safety` | `MCScheduler_safety.cfg` | pass | Checks `TypeOK`, `ContextIntegrity` and `SliceBound` over every interleaving of 3 spawns, exits, faults, terminations of any pid, keyboard IRQs and ticks, with Quantum 10 (the code's value). The pid width is 3 bits, so no wrap occurs with 3 spawns. |
| `sched_liveness` | `MCScheduler_liveness.cfg` | pass | Checks `EveryTaskRuns` and `InvalidReaped` under `WF(Tick)`. Direct `TerminateTask` is excluded, because it disables the timer for good (see `sched_terminate_irq`). Quantum is 3 rather than 10: the rotation logic is the same for any quantum ≥ 1, and 10 does not finish within the time budget. |
| `sched_pidwrap` (extra) | `MCScheduler_pidwrap.cfg` | violation | With 2-bit pids, the 5th spawn reuses pid 1. Reaping the exited task 1 unlinks task 5 instead (`ReapOnlyInvalid`). |
| `sched_terminate_irq` (extra) | `MCScheduler_terminate_irq.cfg` | violation | After a `TerminateTask`, IF stays clear and no task is ever scheduled again (`EveryTaskRuns`). |
| `sched_terminate_unknown` (extra) | `MCScheduler_terminate_unknown.cfg` | violation | `TerminateTask` of an unknown pid dereferences NULL and panics (`NoKernelFailure`). |
| `sched_stage2_cr3` | `MCScheduler_stage2_cr3.cfg` | violation | A keyboard IRQ loads the kernel PML4. The next tick leaves the task's quantum at 0, so Stage2 skips the reload and the task resumes on the kernel's address space (`TickInstallsAddressSpace`). |
| `sched_adoption` (extra) | `MCScheduler_adoption.cfg` | violation | The adoption tick decrements the adopted task's quantum, which spec §8 says it must not do (`AdoptionKeepsQuantum`). Because spawn links at the head, the task adopted is the last one spawned, not "A". |
| `frame_alloc` | `MCFrameAllocator.cfg` | pass | Checks `TypeOK`, `AllocatedMatchesHeld` and `AbstractSpec` (the refinement) over three boot maps: a 3-page and a 7-page usable entry behind a reserved one, two equal 2-page entries, and no usable entry. Frees of held frames, of free frames and of a reserved address are included. |
| `frame_region` (extra) | `MCFrameAllocator_region.cfg` | violation | The second frame of the 2-page entry lies past the entry's end (`FramesInRegion`). |
| `heap_layout` | `MCHeap.cfg` | pass | Checks `TypeOK` and `HeapDisjoint` over any order of up to 7 calls: mallocs of 120, 224 and 5000 bytes (the callers' sizes), frees and other `PageAlloc`s, on 8 frames. |
| `heap_aligned` | `MCHeap_aligned.cfg` | pass | Adds `aligned_alloc(0x1000, 64)`; checks `BlockWithinNode` (the type invariant is `heap_layout`'s): the alignment slack covers the rounding. |
| `heap_aligned_overlap` (extra) | `MCHeap_aligned_overlap.cfg` | violation | Two aligned allocations then mallocs hand the same bytes to two callers (`LiveDisjoint`): the remainder after an aligned block is sized without the rounding. |
| `heap_fault` (extra) | `MCHeap_fault.cfg` | violation | `malloc(120)` then `malloc(4000)`: the growth path reads the tail's NULL next pointer (`NoHeapFault`). |
| `heap_small_remainder` (extra) | `MCHeap_small_remainder.cfg` | violation | `malloc(4070)` leaves a 10-byte remainder whose header runs past the frame (`HeapDisjoint`). |
| `heap_leak` (extra) | `MCHeap_leak.cfg` | violation | Every multi-frame growth leaks a frame (`HeapFramesAccounted`). |
| `heap_pagesized` (extra) | `MCHeap_pagesized.cfg` | violation | `malloc(4096)` grows a node that never fits until `PageAlloc` panics (`PanicOnlyWhenFull`). |
| `kernel_boot` | `MCKernel.cfg` | pass | Checks `TypeOK`, `SizesDecoded`, `LoadsLastEntry` and `BootTerminates` for every boot module of up to three entries drawn from two `a.out` builds, an `a.out` for another machine, an `a.out.old` and a text file, and for no module. |
| `kernel_ramdisk_fault` (extra) | `MCKernel_ramdisk_fault.cfg` | violation | A ramdisk of 30 small files and `a.out` (31 files): the 31st `FileNode` malloc page-faults in `FindAndRemoveNode` (`BootHeapSound`). With 30 files the boot is sound. |
| `paging_translations` | `MCPaging.cfg` | pass | Checks `TypeOK`, `Translations` and `TableTree` over `InitializePaging` on a memory map whose regions lie below the first 2 MiB (a reserved one at page 1) or above 1 GiB (the usable one at page 20), then up to 5 `CreateProcessPML4` and `AllocatePage` calls. |
| `paging_lowmem` | `MCPaging_lowmem.cfg` | violation | A reserved region at page 6 (inside the 2 MiB to 1 GiB range that is first mapped with 2 MiB pages) makes `CreateDefaultMappings` walk through a 2 MiB entry (`NoLargePageDescent`). Every PC has such a region. |
| `paging_kernel_code` (extra) | `MCPaging_kernel_code.cfg` | violation | A task whose code lies in the kernel image loses the kernel's mapping of that page (`KernelVisibleInTasks`). |
| `paging_user` (extra) | `MCPaging_user.cfg` | violation | A user page is not reachable from ring 3, because no intermediate entry has the user bit (`UserPagesAccessible`). |
| `console_print` | `MCConsole.cfg` | pass | Checks `TypeOK` and `OutputFaithful` for two successive calls of four formats taken from `kmain` and the scheduler: `%d` of 9000, 0 and 2147483647, `%x` of 0x401000 and 0, `%s`, `%c` of `'\n'`, an unknown `%q`, and newlines. Each writes what C's printf writes, although a later `%d` leaves an earlier number's digits in `ret` past its NUL. |
| `interrupts_boot` | `MCInterrupts.cfg` | pass | Checks `TypeOK`, `IrqsReachTheirHandlers` and `TimerTicks` over five firmwares (a QEMU-like MADT with one IOAPIC and an override of IRQ 0, no MADT, a MADT without an IOAPIC, no RSDP, an RSDT with another signature), with key presses from power-on and exceptions 0, 3, 14 and 0x80 once booted. |
| `interrupts_divide` | `MCInterrupts_divide.cfg` | violation | A divide error (vector 0) finds no gate, because `idt.h` puts `DivZeroHandler` at vector 1; it becomes #GP, which after a #DE is a double fault, and the kernel panics with "Double fault" (`ExceptionsReachTheirHandlers`). |
| `interrupts_two_ioapics` (extra) | `MCInterrupts_two_ioapics.cfg` | violation | With two IOAPICs (GSIs 0-23, then 24-47) the walk keeps the second; the RTC's pin 8 is programmed on it, the first IOAPIC masks the RTC's edge, and the timer never ticks (`TimerTicks`). |
| `interrupts_early_key` (extra) | `MCInterrupts_early_key.cfg` | violation | A key pressed before `IOAPICRegisterIRQ(0x21, 1)` raises an edge at a masked pin; the controller waits for a read of port 0x60 that never comes (`KeysServed`). |
| `console_tasks` (extra) | `MCConsole_tasks.cfg` | violation | With `Preemptive`, two tasks print TerminateTask's `"PID %d\n"` for pids 1 and 12; the first is switched out after `itoa` and before `print`, the second's `itoa` rewrites `ret`, and the first prints "PID 12" (`OutputFaithful`). This build spawns no task, so it is latent. |
| `console_negative` (extra) | `MCConsole_negative.cfg` | violation | `printf("%d\n", -1)`, which is what a size of 2^32 - 1 passed to `%d` gives `va_arg(args, int)`, prints `/` (`OutputFaithful`): `itoa` writes no sign and adds `'0'` to a negative remainder. |

The runs marked "extra" are kept as configurations and reported in the
hazards of `PROJECT.json`, but are not among its registered runs, which are
limited to twelve; each shows a bug that one line of the code explains.

### Bounds

- **Scheduler.** Three tasks is the least number at which a reap, a rotation
  past the reaped task and a wrap to the head all happen in one behaviour.
  Quantum 10 is the code's constant.
- **Frame allocator.** Seven frames give 128 allocation patterns. Frees are
  chosen from all frames, so double frees occur. The region bug needs only
  n ≥ 1, because the table takes at least one page.
- **Heap.** Eight frames and 7 calls let a 5000-byte buffer grow the pool
  twice, next to small blocks and `PageAlloc`s of other users, so growth
  happens on empty and non-empty lists and between foreign frames. `Fuel`
  bounds the search loop and is never reached in the passing runs.
- **Paging.** `E = 4` is the least width at which the 4 GiB of the high-half
  map fits in one PML4 slot, as in the code, and 2 MiB, 1 GiB and 4 KiB
  mappings all occur. The kernel image (2 pages), the framebuffer (2 pages)
  and the memory map keep their relative places.
- **Kernel.** Up to three entries cover a repeated `a.out`, an `a.out` before
  and after another file, each ELF outcome and an empty archive. The fault
  run needs 31 files: 30 `FileNode`s of 136 bytes leave 16 bytes of the first
  frame.

- **Console.** Two contexts over four calls give every order of a long and a
  short number through the same `ret`, and each conversion, INT_MAX (the
  longest int, 10 digits) and 0 (the one-digit cases of both conversions).
- **Interrupts.** Five firmwares reach every outcome of `InitializeACPI`
  and `InitializeAPIC`: each panic, each page fault and the complete boot. A
  MADT of four entries has every structure type and an override that does not
  touch the two lines the kernel routes. Exceptions 0, 3, 14 and 0x80 include
  a returning handler, a panicking one, the software interrupt and the
  misplaced divide error. Pin 8 and pin 1 are the code's constants.

### Fairness

`FairSpec` adds `WF_vars(Tick)`. The RTC is programmed for a periodic
interrupt (`rtc.c`), and `TaskSwitch` reads register C on every tick, so the
IRQ keeps firing whenever IF is set. Weak fairness on `Tick` says exactly
that. No fairness is assumed for task-level calls: a task may never call
anything.

`Interrupts.Spec` has weak fairness on the boot steps (one sequential
thread), on `RtcRaise` (the RTC's periodic interrupt comes due while it is
armed) and on `RtcIrq` and `KbdIrq` (the local APIC delivers a pending
vector while IF is set). `TimerTicks` checks, from the code, the assumption
`WF_vars(Tick)` makes in `Scheduler`: it holds on machines whose MADT lists
the IOAPIC that receives the RTC line last. Key presses and exceptions get
no fairness.

`Kernel.Spec` has `WF_vars(Next)`: the boot is one sequential thread with no
interrupt taken before it halts, so a step that is enabled is taken.

## 5. Not modelled, and why

- Register contents, names, the scancode, and the frame contents that
  `PageAlloc` zeroes are data no property distinguishes.
- The memory taken by `IntAddTask` is not modelled inside `Scheduler`. The
  planned composition in `Kernel` adds it.
- `InitializePCIE` only reads configuration space and prints; nothing it
  finds is used (its bus loop stops before `endPCIBus`, so the last bus is
  never listed). The MCFG pointer it reads is modelled (`mcfgPtr`).
- `InitializePIT` writes its command to port 0x48 instead of 0x43 and
  truncates the divisor 11931 to a `uint8_t`; IRQ 0 is never routed at the
  IOAPIC and the 8259s are masked, so the PIT raises nothing the kernel sees.
- The LAPIC base is read but the LAPIC is never enabled or programmed by the
  code; the model takes the firmware's enabled LAPIC as given.
  `IOAPICWriteRedirectionEntry` writes the low half of an entry (vector,
  unmasked) before the high half; the high half is the destination, which
  both before and after is APIC 0, so the two writes are one step.
- `spinlock_acquire` and `spinlock_release` have no caller (spec §5 keeps
  them for future use). Were the lock used, its wait loop is `hlt`, which
  only an interrupt ends: acquiring a held lock with IF clear (in an ISR, or
  in the `cli` sections where the kernel mutates shared state) would halt
  the CPU for good.
- The other device drivers, the GDT, `lprint` (no caller), `cpuid`
  and `KernelSoftError` are I/O with no concurrent state. `write_serial`'s
  wait for the transmit register is taken to end; the framebuffer terminal
  (flanterm) is not in the source tree. `InsertEntry`'s `strcpy` copies the
  header's name whole: the model's names are shorter than the 100-byte field
  (a 100-byte name has no NUL, and `strcpy` would run into the `mode` field).
- `IntAddTask`'s name test `strlen(taskName) > 32` lets a 32-character name
  through to `strcpy` into `processName[32]`; its NUL lands in the padding
  before `registers` (offset 33 of 40), so no field is hit. `AddTask` has no
  caller, and names are not modelled.
- `InitializeBootloader` only copies Limine's responses into a struct: the
  boot memory map, the RSDP (`Firmwares.rsdp` of `Interrupts`), the module
  (`Archives` of `Kernel`) and the kernel addresses are constants of the
  models.
- File contents, and whether `e_phoff` and `e_phnum` fit in the buffer
  `kmain` copied: the loader never checks them, and a truncated `a.out` makes
  it read past the buffer (listed as a hazard).
- `KeyboardHandler` calls `KeyboardDriver(sc)`, which is not in the source
  tree; the model takes it to return, so the handler reaches its EOI.
- The models take page 0 to be unmapped, so the NULL reads of
  `InitializeAPIC` (no MADT) and `IOAPICRegisterIRQ` (no IOAPIC) page-fault.
  `kmain` loads the kernel's own tables (`InitializePaging`) before
  `InitializeIDT`, and `CreateDefaultMappings` maps no page 0; the memory map
  the firmware reports decides only whether that stays so, and a firmware
  whose map put page 0 in a mapped region would turn the faults into reads
  of low memory.
- `TimerStub` is assembly that is not in the source tree. The models assume
  it calls `TaskSwitch` and ends the interrupt; `TaskSwitch` itself signals
  no local APIC end of interrupt.
