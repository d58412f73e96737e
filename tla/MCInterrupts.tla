---------------------------- MODULE MCInterrupts ----------------------------
(* Interrupts instantiated with the firmware a PC or QEMU boots with and  *)
(* the ways InitializeACPI and InitializeAPIC can find it lacking.        *)
EXTENDS Interrupts

\* MADT entries: Processor Local APIC (0), I/O APIC (1), Interrupt Source
\* Override (2); every entry carries every field
LapicE == [type |-> 0, addr |-> NULL, gsi |-> 0, irq |-> 0]
IoApicE(a, base) == [type |-> 1, addr |-> a, gsi |-> base, irq |-> 0]
IsoE(line, g) == [type |-> 2, addr |-> NULL, gsi |-> g, irq |-> line]

Table(sig, madt) == [sig |-> sig, madt |-> madt]
Facp == Table(<<70, 65, 67, 80>>, <<>>)   \* "FACP"
Mcfg == Table(MCFG, <<>>)
Hpet == Table(<<72, 80, 69, 84>>, <<>>)   \* "HPET"

\* QEMU q35: one IOAPIC at GSI 0, the timer line overridden to GSI 2
Pc == [rsdp |-> TRUE, rsdt |-> RSDT,
       tables |-> << Facp, Table(APIC, <<LapicE, IoApicE(1, 0), IsoE(0, 2), IsoE(9, 9)>>),
                     Hpet, Mcfg >>]
\* no MADT in the RSDT
NoMadt == [rsdp |-> TRUE, rsdt |-> RSDT, tables |-> <<Facp, Mcfg>>]
\* a MADT without an I/O APIC
NoIoApic == [rsdp |-> TRUE, rsdt |-> RSDT, tables |-> <<Table(APIC, <<LapicE>>)>>]
\* no RSDP from the bootloader; an RSDT pointer to another table
NoRsdp == [rsdp |-> FALSE, rsdt |-> RSDT, tables |-> <<>>]
BadRsdt == [rsdp |-> TRUE, rsdt |-> <<88, 83, 68, 84>>, tables |-> <<>>]
\* two I/O APICs, GSIs 0-23 and 24-47, listed in that order
TwoIoApics == [rsdp |-> TRUE, rsdt |-> RSDT,
               tables |-> << Table(APIC, <<LapicE, IoApicE(1, 0), IoApicE(2, 24)>>) >>]

MCFirmwares == {Pc, NoMadt, NoIoApic, NoRsdp, BadRsdt}
MCTwoIoApics == {TwoIoApics}
=============================================================================
