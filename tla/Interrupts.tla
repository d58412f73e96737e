----------------------------- MODULE Interrupts -----------------------------
(***************************************************************************)
(* Interrupt setup and delivery on one CPU: InitializeACPI and            *)
(* EnumerateACPITables (src/src/drivers/acpi/acpi.c), InitializeIDT and   *)
(* AddIDTEntry (src/src/interrupts/idt.c), InitializeAPIC and             *)
(* IOAPICRegisterIRQ (src/src/drivers/apic/apic.c), InitializeRTC and      *)
(* RTC_Check (src/src/drivers/rtc/rtc.c), then the delivery of the two    *)
(* device IRQs the kernel routes and of CPU exceptions through the IDT.   *)
(*                                                                         *)
(* The firmware is a constant: the RSDP, the RSDT's signature and the     *)
(* tables the RSDT lists, a MADT being a sequence of interrupt controller *)
(* structures.  The boot steps between InitializeACPI and InitializeIDT   *)
(* (allocator, paging) are not modelled here.  The RTC and the keyboard   *)
(* raise edge-triggered IRQs: an edge reaching a masked IOAPIC pin is     *)
(* lost, and neither device raises another until the kernel reads it      *)
(* (register C of the RTC, port 0x60 of the keyboard controller).         *)
(***************************************************************************)
EXTENDS Integers, Sequences, SequencesExt, CStrings

CONSTANTS
  Firmwares,  \* the firmware the machine may boot with
  Raised,     \* vectors kernel code may raise once booted (faults, int3, int 0x80)
  NULL        \* the null pointer

VARIABLES
  pc,         \* the boot step, "run" once InitializeIDT has returned, or "panic"
  fw,         \* the firmware of this boot
  ti,         \* EnumerateACPITables' index i into the RSDT
  madtPtr,    \* madtPtr: index of the MADT in fw.tables, or NULL
  mcfgPtr,    \* mcfgPtr: index of the MCFG, or NULL
  mi,         \* InitializeAPIC's walk: the next interrupt controller structure
  ioAPIC,     \* ioAPIC: the MMIO base of the IOAPIC the walk found last, or NULL
  idt,        \* idt[256]: the handler of each vector, or None
  redir,      \* redir[a][p]: IOAPIC a's redirection entry p, a vector or Masked
  intEnabled, \* RFLAGS.IF
  rtc,        \* "off", "armed" (periodic interrupt enabled), "pending" (edge
              \* on its way to the CPU), "raised" (IRQ line high, not serviced)
  kbd,        \* "idle", "pending" (scancode waiting, IRQ on its way), "raised"
  handled     \* the last dispatch: [src, vec, h], src "exc" or a device

vars == <<pc, fw, ti, madtPtr, mcfgPtr, mi, ioAPIC, idt, redir, intEnabled,
          rtc, kbd, handled>>

None   == "none"
Masked == -1                   \* a masked entry delivers no vector
Pins   == 0..23                \* redirection entries of an IOAPIC

(* The MADT entries of every APIC table of every firmware: the IOAPICs    *)
(* the hardware may have, identified by their MMIO base.                  *)
AllTables == UNION {ToSet(f.tables) : f \in Firmwares}
IoApicAddrs == {e.addr : e \in UNION {ToSet(t.madt) : t \in AllTables}} \ {NULL}

-----------------------------------------------------------------------------
(* idt.h: the vector constants and IRQ(n).                                 *)
INTERRUPT_DIV_BY_ZERO == 1
INTERRUPT_BREAKPOINT == 3
INTERRUPT_OVERFLOW == 4
INTERRUPT_BOUND_RAGE_EXCEEDED == 5
INTERRUPT_INVALID_OPCODE == 6
INTERRUPT_DEVICE_NOT_AVAILABLE == 7
INTERRUPT_DOUBLE_FAULT == 8
INTERRUPT_INVALID_TSS == 10
INTERRUPT_GP_FAULT == 13
INTERRUPT_PAGE_FAULT == 14
IRQ_KEYBOARD == 1
IRQ_RTC == 8

\* mutant: IRQ(n) is 31 + n
IRQ_Off(n) == 31 + n

IRQ(n) == 32 + n

(* The signatures the code compares with strncmp(..., 4), as byte codes. *)
RSDT == <<82, 83, 68, 84>>
APIC == <<65, 80, 73, 67>>
MCFG == <<77, 67, 70, 71>>
SigIs(sig, lit) == StrNCmp(sig, lit, 4) = 0

(* The AddIDTEntry calls of InitializeIDT, in order.                       *)
Gates ==
  << <<INTERRUPT_DIV_BY_ZERO, "DivZero">>, <<INTERRUPT_OVERFLOW, "Overflow">>,
     <<INTERRUPT_BOUND_RAGE_EXCEEDED, "BoundRange">>,
     <<INTERRUPT_INVALID_OPCODE, "InvalidOpcode">>,
     <<INTERRUPT_DEVICE_NOT_AVAILABLE, "DeviceNotAvailable">>,
     <<INTERRUPT_DOUBLE_FAULT, "DoubleFault">>,
     <<INTERRUPT_INVALID_TSS, "InvalidTSS">>, <<INTERRUPT_GP_FAULT, "GPFault">>,
     <<INTERRUPT_PAGE_FAULT, "PageFault">>, <<IRQ(IRQ_KEYBOARD), "Keyboard">>,
     <<INTERRUPT_BREAKPOINT, "Breakpoint">>, <<128, "Syscall">>,
     <<IRQ(IRQ_RTC), "Timer">> >>

(* AddIDTEntry: the gate of vector index runs the handler.                 *)
AddIDTEntry(tbl, h, index) == [tbl EXCEPT ![index] = h]

(* Delivery through the IDT.  A zeroed idt[] entry has type 0, not a     *)
(* gate type, so using it raises #GP (13) during delivery.  After a       *)
(* contributory exception or a #PF that #GP makes a double fault (8);     *)
(* after anything else (a device IRQ, int 0x80, a benign exception) the   *)
(* #GP is delivered on its own, and fails in turn into #DF if its gate is *)
(* missing too.  A missing #DF gate shuts the CPU down.                   *)
GP == 13
DF == 8
Contributory == {0, 10, 11, 12, 13}
DoubleFaultClass(v) == v \in Contributory \cup {14}
Dispatch(tbl, v) ==
  CASE tbl[v] # None                          -> tbl[v]
    [] ~DoubleFaultClass(v) /\ tbl[GP] # None -> tbl[GP]
    [] tbl[DF] # None                         -> tbl[DF]
    [] OTHER                                  -> "Shutdown"

(* Handlers that return: the breakpoint and syscall handlers print, the   *)
(* keyboard handler reads the scancode and sends the LAPIC EOI, TimerStub *)
(* runs TaskSwitch, whose RTC_Check reads register C.  Every other        *)
(* handler calls CommonExceptionHandler, which panics while               *)
(* schedulingStarted is false (MarkSchedulingActive is never called).     *)
Returning == {"Breakpoint", "Syscall", "Keyboard", "Timer"}

-----------------------------------------------------------------------------
(* The IOAPIC pin a device line reaches: the MADT's interrupt source      *)
(* overrides give the line's global system interrupt, and the IOAPIC      *)
(* whose range holds it receives it on pin gsi - base.                    *)
Gsi(line) ==
  LET isos == {e \in UNION {ToSet(t.madt) : t \in ToSet(fw.tables)} :
                 e.type = 2 /\ e.irq = line}
  IN  IF isos = {} THEN line ELSE (CHOOSE e \in isos : TRUE).gsi

Receiver(g) ==
  {e \in UNION {ToSet(t.madt) : t \in ToSet(fw.tables)} :
     e.type = 1 /\ e.gsi <= g /\ g < e.gsi + 24}

(* The vector a device line is delivered on, or Masked.                   *)
Route(line) ==
  LET g == Gsi(line)
  IN  IF Receiver(g) = {} THEN Masked
      ELSE LET e == CHOOSE x \in Receiver(g) : TRUE
           IN  redir[e.addr][g - e.gsi]

(* The handler the code names for each architectural exception vector.    *)
ExceptionHandler ==
  (0 :> "DivZero") @@ (3 :> "Breakpoint") @@ (4 :> "Overflow") @@
  (5 :> "BoundRange") @@ (6 :> "InvalidOpcode") @@
  (7 :> "DeviceNotAvailable") @@ (8 :> "DoubleFault") @@
  (10 :> "InvalidTSS") @@ (13 :> "GPFault") @@ (14 :> "PageFault") @@
  (128 :> "Syscall")

DeviceHandler == ("rtc" :> "Timer") @@ ("kbd" :> "Keyboard")

-----------------------------------------------------------------------------
Init ==
  /\ pc = "acpi"
  /\ fw \in Firmwares
  /\ ti = 1
  /\ madtPtr = NULL
  /\ mcfgPtr = NULL
  /\ mi = 1
  /\ ioAPIC = NULL
  /\ idt = [v \in 0..255 |-> None]
  /\ redir = [a \in IoApicAddrs |-> [p \in Pins |-> Masked]]
  /\ intEnabled = FALSE
  /\ rtc = "off"
  /\ kbd = "idle"
  /\ handled = [src |-> None, vec |-> 0, h |-> None]

(* A vector is delivered: the handler its gate names runs.  A returning   *)
(* handler services its own device; any other ends in panic (cli; hlt).   *)
(* The device whose edge was delivered raises no other until serviced.    *)
Deliver(src, v) ==
  LET h    == Dispatch(idt, v)
      rtc1 == IF src = "rtc" THEN "raised" ELSE rtc
      kbd1 == IF src = "kbd" THEN "raised" ELSE kbd
  IN  /\ handled' = [src |-> src, vec |-> v, h |-> h]
      /\ IF h \in Returning
         THEN /\ rtc' = IF h = "Timer" THEN "armed" ELSE rtc1
              /\ kbd' = IF h = "Keyboard" THEN "idle" ELSE kbd1
              /\ UNCHANGED <<pc, intEnabled>>
         ELSE /\ pc' = "panic"
              /\ intEnabled' = FALSE
              /\ rtc' = rtc1
              /\ kbd' = kbd1
      /\ UNCHANGED <<fw, ti, madtPtr, mcfgPtr, mi, ioAPIC, idt, redir>>

(* panic() from kernel code: cli; hlt.                                     *)
Panic ==
  /\ pc' = "panic"
  /\ intEnabled' = FALSE
  /\ UNCHANGED <<fw, ti, madtPtr, mcfgPtr, mi, ioAPIC, idt, redir, rtc, kbd,
                 handled>>

(* InitializeACPI: panic without an RSDP or an RSDT, or when the RSDT's   *)
(* signature is not "RSDT"; otherwise EnumerateACPITables(rsdt).          *)
InitializeACPI ==
  /\ pc = "acpi"
  /\ IF ~fw.rsdp \/ ~SigIs(fw.rsdt, RSDT)
     THEN Panic
     ELSE /\ pc' = "enum"
          /\ UNCHANGED <<fw, ti, madtPtr, mcfgPtr, mi, ioAPIC, idt, redir,
                         intEnabled, rtc, kbd, handled>>

\* mutant: the two signatures swapped
EnumerateEntry_Swapped ==
  /\ pc = "enum"
  /\ ti <= Len(fw.tables)
  /\ mcfgPtr' = IF SigIs(fw.tables[ti].sig, APIC) THEN ti ELSE mcfgPtr
  /\ madtPtr' = IF SigIs(fw.tables[ti].sig, MCFG) THEN ti ELSE madtPtr
  /\ ti' = ti + 1
  /\ UNCHANGED <<pc, fw, mi, ioAPIC, idt, redir, intEnabled, rtc, kbd, handled>>

(* One iteration of EnumerateACPITables: a table signed "MCFG" or "APIC"  *)
(* is remembered, a later one replacing an earlier.                       *)
EnumerateEntry ==
  /\ pc = "enum"
  /\ ti <= Len(fw.tables)
  /\ mcfgPtr' = IF SigIs(fw.tables[ti].sig, MCFG) THEN ti ELSE mcfgPtr
  /\ madtPtr' = IF SigIs(fw.tables[ti].sig, APIC) THEN ti ELSE madtPtr
  /\ ti' = ti + 1
  /\ UNCHANGED <<pc, fw, mi, ioAPIC, idt, redir, intEnabled, rtc, kbd, handled>>

EnumerateDone ==
  /\ pc = "enum"
  /\ ti > Len(fw.tables)
  /\ pc' = "idt"
  /\ UNCHANGED <<fw, ti, madtPtr, mcfgPtr, mi, ioAPIC, idt, redir, intEnabled,
                 rtc, kbd, handled>>

(* InitializeIDT up to InitializeAPIC: memset, the AddIDTEntry calls and  *)
(* lidt; RemapPIC and DisablePIC leave the 8259s masked, as the           *)
(* bootloader left them, so they deliver nothing.                          *)
LoadIDT ==
  /\ pc = "idt"
  /\ idt' = FoldLeft(LAMBDA tbl, g : AddIDTEntry(tbl, g[2], g[1]),
                     [v \in 0..255 |-> None], Gates)
  /\ pc' = "apic"
  /\ UNCHANGED <<fw, ti, madtPtr, mcfgPtr, mi, ioAPIC, redir, intEnabled, rtc,
                 kbd, handled>>

(* InitializeAPIC reads madt->LAPICBase: with no MADT, madt is NULL and   *)
(* page 0 is not mapped, so the read page-faults.                          *)
InitializeAPIC ==
  /\ pc = "apic"
  /\ IF madtPtr = NULL
     THEN Deliver("exc", INTERRUPT_PAGE_FAULT)
     ELSE /\ pc' = "madt"
          /\ UNCHANGED <<fw, ti, madtPtr, mcfgPtr, mi, ioAPIC, idt, redir,
                         intEnabled, rtc, kbd, handled>>

(* One iteration of InitializeAPIC's walk: an I/O APIC entry sets ioAPIC, *)
(* a later one replacing an earlier; other entries are only printed.      *)
MadtEntry ==
  /\ pc = "madt"
  /\ mi <= Len(fw.tables[madtPtr].madt)
  /\ LET e == fw.tables[madtPtr].madt[mi]
     IN  ioAPIC' = IF e.type = 1 THEN e.addr ELSE ioAPIC
  /\ mi' = mi + 1
  /\ UNCHANGED <<pc, fw, ti, madtPtr, mcfgPtr, idt, redir, intEnabled, rtc,
                 kbd, handled>>

(* The walk ends; with no I/O APIC InitializeAPIC prints and returns.     *)
MadtDone ==
  /\ pc = "madt"
  /\ mi > Len(fw.tables[madtPtr].madt)
  /\ pc' = "route_rtc"
  /\ UNCHANGED <<fw, ti, madtPtr, mcfgPtr, mi, ioAPIC, idt, redir, intEnabled,
                 rtc, kbd, handled>>

\* mutant: the entry index is used as the register offset
RedirOffset_Single(pin) == pin

(* IOAPICRegisterIRQ writes redirection entry pin at register offset     *)
(* pin * 2 (an entry is two 32-bit registers).                             *)
RedirOffset(pin) == pin * 2

(* IOAPICWrite: the register index goes to IOREGSEL, the value to IOWIN. *)
(* Register 0x10 + 2p holds the vector and mask of entry p, 0x10 + 2p + 1 *)
(* its destination, which the model leaves out (always APIC 0).           *)
IOAPICRedirEntriesBase == 16
IOAPICWrite(r, base, reg, value) ==
  LET off == reg - IOAPICRedirEntriesBase
  IN  IF off >= 0 /\ off % 2 = 0 /\ off \div 2 \in Pins
      THEN [r EXCEPT ![base][off \div 2] = value]
      ELSE r

(* IOAPICWriteRedirectionEntry: nothing for an odd offset, else the low   *)
(* then the high register of the entry.                                    *)
IOAPICWriteRedirectionEntry(r, base, offset, vector) ==
  IF offset % 2 # 0 THEN r
  ELSE IOAPICWrite(IOAPICWrite(r, base, IOAPICRedirEntriesBase + offset, vector),
                   base, IOAPICRedirEntriesBase + offset + 1, 0)

(* IOAPICRegisterIRQ(vector, pin): an unmasked, fixed, edge-triggered     *)
(* entry at register offset pin * 2, written through the MMIO window at   *)
(* ioAPIC, which page-faults when ioAPIC is NULL (the odd-offset test     *)
(* comes first).  Then the boot goes on at step nxt.                      *)
RegisterIRQ(vector, pin, nxt) ==
  LET offset == RedirOffset(pin)
  IN  IF offset % 2 = 0 /\ ioAPIC = NULL
      THEN Deliver("exc", INTERRUPT_PAGE_FAULT)
      ELSE /\ redir' = IOAPICWriteRedirectionEntry(redir, ioAPIC, offset, vector)
           /\ pc' = nxt
           /\ UNCHANGED <<fw, ti, madtPtr, mcfgPtr, mi, ioAPIC, idt,
                          intEnabled, rtc, kbd, handled>>

(* IOAPICRegisterIRQ(0x28, 8): the RTC.                                    *)
RegisterRtc == pc = "route_rtc" /\ RegisterIRQ(40, 8, "rtc")

(* InitializeRTC: cli; set the periodic-interrupt bit of register B and   *)
(* rate 15; sti -- interrupts are enabled from here on, inside            *)
(* InitializeIDT.                                                          *)
InitializeRTC ==
  /\ pc = "rtc"
  /\ rtc' = "armed"
  /\ intEnabled' = TRUE
  /\ pc' = "route_kbd"
  /\ UNCHANGED <<fw, ti, madtPtr, mcfgPtr, mi, ioAPIC, idt, redir, kbd, handled>>

(* IOAPICRegisterIRQ(0x21, 1): the keyboard.                               *)
RegisterKbd == pc = "route_kbd" /\ RegisterIRQ(33, 1, "sti")

(* The final sti of InitializeIDT; kmain goes on.                          *)
Sti ==
  /\ pc = "sti"
  /\ intEnabled' = TRUE
  /\ pc' = "run"
  /\ UNCHANGED <<fw, ti, madtPtr, mcfgPtr, mi, ioAPIC, idt, redir, rtc, kbd,
                 handled>>

Alive == pc # "panic"

(* The RTC raises IRQ 8 once its periodic interrupt is due; the edge is   *)
(* lost at a masked pin.                                                   *)
RtcRaise ==
  /\ Alive /\ rtc = "armed"
  /\ rtc' = IF Route(IRQ_RTC) = Masked THEN "raised" ELSE "pending"
  /\ UNCHANGED <<pc, fw, ti, madtPtr, mcfgPtr, mi, ioAPIC, idt, redir,
                 intEnabled, kbd, handled>>

(* The local APIC hands the pending RTC vector to the CPU when IF is set. *)
RtcIrq ==
  /\ Alive /\ rtc = "pending" /\ intEnabled
  /\ Deliver("rtc", Route(IRQ_RTC))

(* A key is pressed, at any time from power-on: the controller raises     *)
(* IRQ 1, lost at a masked pin.                                            *)
KeyPress ==
  /\ Alive /\ kbd = "idle"
  /\ kbd' = IF Route(IRQ_KEYBOARD) = Masked THEN "raised" ELSE "pending"
  /\ UNCHANGED <<pc, fw, ti, madtPtr, mcfgPtr, mi, ioAPIC, idt, redir,
                 intEnabled, rtc, handled>>

KbdIrq ==
  /\ Alive /\ kbd = "pending" /\ intEnabled
  /\ Deliver("kbd", Route(IRQ_KEYBOARD))

(* Kernel code, once booted, raises exception or software vector v.       *)
Exception(v) ==
  /\ pc = "run"
  /\ Deliver("exc", v)

Halted == ~Alive /\ UNCHANGED vars

Boot ==
  \/ InitializeACPI \/ EnumerateEntry \/ EnumerateDone \/ LoadIDT
  \/ InitializeAPIC \/ MadtEntry \/ MadtDone \/ RegisterRtc
  \/ InitializeRTC \/ RegisterKbd \/ Sti

Next ==
  \/ Boot
  \/ RtcRaise \/ RtcIrq \/ KeyPress \/ KbdIrq
  \/ \E v \in Raised : Exception(v)
  \/ Halted

(* The boot code runs to its end; the RTC fires while it is armed and the *)
(* local APIC delivers a pending vector while IF is set.  Key presses and *)
(* exceptions may never happen; a pending key is delivered like the RTC.  *)
Spec == Init /\ [][Next]_vars /\ WF_vars(Boot) /\ WF_vars(RtcRaise) /\ WF_vars(RtcIrq)
          /\ WF_vars(KbdIrq)

-----------------------------------------------------------------------------
TypeOK ==
  /\ pc \in {"acpi", "enum", "idt", "apic", "madt", "route_rtc", "rtc",
             "route_kbd", "sti", "run", "panic"}
  /\ madtPtr \in {NULL} \cup DOMAIN fw.tables
  /\ mcfgPtr \in {NULL} \cup DOMAIN fw.tables
  /\ ioAPIC \in {NULL} \cup IoApicAddrs
  /\ redir \in [IoApicAddrs -> [Pins -> {Masked} \cup 0..255]]
  /\ rtc \in {"off", "armed", "pending", "raised"}
  /\ kbd \in {"idle", "pending", "raised"}
  /\ (madtPtr # NULL => fw.tables[madtPtr].sig = APIC)

(* Every device interrupt the CPU takes runs that device's handler: the   *)
(* vector IOAPICRegisterIRQ programs for the RTC and the keyboard is the  *)
(* vector whose IDT gate AddIDTEntry gave their handler, on the pin the   *)
(* device is wired to.                                                     *)
IrqsReachTheirHandlers ==
  handled.src \in DOMAIN DeviceHandler => handled.h = DeviceHandler[handled.src]

(* Every CPU exception kernel code raises runs the handler named for it   *)
(* (a divide error runs DivZeroHandler, a page fault PageFaultHandler).   *)
ExceptionsReachTheirHandlers ==
  handled.src = "exc" => handled.h = ExceptionHandler[handled.vec]

(* Once booted, the timer interrupt reaches TaskSwitch again and again,   *)
(* unless the kernel panicked: the scheduler's fairness assumption.       *)
TimerTicks ==
  <>(pc = "panic") \/ []<><<RtcIrq /\ handled'.h = "Timer">>_vars

(* Every key pressed is eventually read by KeyboardHandler from port 0x60 *)
(* (or the kernel panics): the keyboard is never left with an unread      *)
(* scancode and its IRQ line high, which no later edge can follow.        *)
KeysServed ==
  (kbd # "idle") ~> (kbd = "idle" \/ pc = "panic")
=============================================================================
