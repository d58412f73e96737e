----------------------------- MODULE MCConsole -----------------------------
(* Console instantiated with printf calls the kernel makes (kmain.c,      *)
(* scheduler.c), their strings as character codes.                        *)
EXTENDS Console

\* "File size = %d\n" shortened to "sz %d\n", with a ramdisk file size
SizeCall == [fmt |-> <<115, 122, 32, 37, 100, 10>>, args |-> <<9000>>]
\* "0x%x\n", a segment's virtual address
AddrCall == [fmt |-> <<48, 120, 37, 120, 10>>, args |-> <<4198400>>]
\* "%d %s%c%q" : a PID of 0, a task name, a character and an unknown conversion
TaskCall == [fmt |-> <<37, 100, 32, 37, 115, 37, 99, 37, 113>>,
             args |-> << 0, <<105, 110, 105, 116>>, 10 >>]
\* "%x%d", the largest int and 0
EdgeCall == [fmt |-> <<37, 120, 37, 100>>, args |-> <<0, 2147483647>>]
\* "%d\n" with a size above 2^31 - 1, read back by va_arg(args, int)
NegCall == [fmt |-> <<37, 100, 10>>, args |-> <<-1>>]

\* TerminateTask's "[DEBUG] Task termination requested for PID %d.\n",
\* shortened to "PID %d\n", for a one-digit and a two-digit pid
TermCall(pid) == [fmt |-> <<80, 73, 68, 32, 37, 100, 10>>, args |-> <<pid>>]

MCCalls == {SizeCall, AddrCall, TaskCall, EdgeCall}
MCNegCalls == {NegCall}
MCTermCalls == {TermCall(1), TermCall(12)}
====
