---------------------------- MODULE MCElcoreMemory ----------------------------
(* An instance of ElcoreMemory for TLC: a core in two parts. *)
EXTENDS ElcoreMemory

TwoParts == [c \in Cores |-> 2]
CancelRequests == {"CREATE", "ENQUEUE", "RELEASE", "CANCEL"}

\* With banks of 8 bytes and a stack of 3 a part holds 4 bytes of code and 14 of
\* data: programs that fill it and that do not fit.
SmallPrograms == {[code |-> 4, data |-> 14], [code |-> 5, data |-> 14]}
===============================================================================
