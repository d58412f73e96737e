------------------------------ MODULE MCPaging ------------------------------
(* Model-checking instance of Paging with tables of E = 4 entries: a      *)
(* "2 MiB" page is 4 frames, "1 GiB" 16 frames, "4 GiB" 64 frames, the    *)
(* hhdm is PML4 slot 2 and the kernel image sits at PML4 3, PDPT 3 (as    *)
(* 0xffffffff80000000 sits at 511, 510).                                  *)
EXTENDS Paging

Page == 4096

\* a reserved entry in the first "2 MiB" and the largest usable region
\* from "1 GiB" past "4 GiB", so the memory-map loop adds tables
HighMemMap ==
  << [base |-> 1 * Page, length |-> 2 * Page, type |-> "reserved"],
     [base |-> 20 * Page, length |-> 80 * Page, type |-> "usable"] >>

\* a usable entry between "2 MiB" and "1 GiB", as every PC memory map has
LowMemMap ==
  << [base |-> 6 * Page, length |-> 2 * Page, type |-> "reserved"],
     [base |-> 20 * Page, length |-> 80 * Page, type |-> "usable"] >>

MCHighMemMaps == {HighMemMap}
MCLowMemMaps == {LowMemMap}

\* a user task with its code in low memory, and a kernel task
UserAndKernel ==
  {[start |-> 24 * Page, end |-> 26 * Page, kernel |-> FALSE],
   [start |-> KernelVirt, end |-> KernelVirt + Page, kernel |-> TRUE]}

\* AddTask of a kernel function: its code lies in the kernel image
UserInKernelImage ==
  {[start |-> KernelVirt, end |-> KernelVirt + Page, kernel |-> FALSE]}
=============================================================================
