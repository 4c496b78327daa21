------------------------------- MODULE DspMemory -------------------------------
(* Where elcore_set_prog and elcore_set_data put a job (mcom_dsp.c): a core    *)
(* has one bank of program memory and four banks of data memory, each divided *)
(* into as many equal parts as the core takes jobs, and the stack at the end  *)
(* of the data memory.  Addresses are byte offsets from the start of the      *)
(* program memory, which the data memory follows, as elcore_dmasend takes     *)
(* them.                                                                      *)
EXTENDS Integers

CONSTANTS
    BankSize,       \* DLCR30M_BANK_SIZE
    StackSize,      \* DLCR30M_STACK_SIZE
    Programs        \* what jobs bring: bytes of code, bytes of all data blocks

ASSUME MemoryAssumption ==
    /\ BankSize \in Nat /\ StackSize \in Nat /\ StackSize <= 4 * BankSize
    /\ Programs \subseteq [code : Nat, data : Nat]

\* The divisions elcore_parce_opts accepts.
Divisions == {1, 2, 4, 8}

\* Size of one of n parts of the two memories.  The mutant forgets the stack.
PramPart(n) == BankSize \div n
XyramWithStack(n) == (4 * BankSize) \div n
XyramPart(n) == (4 * BankSize - StackSize) \div n

\* Anything bigger is ENOMEM.
Fits(n, g) == g.code <= PramPart(n) /\ g.data <= XyramPart(n)

\* Where part p of n begins.
CodeFrom(n, p) == (p - 1) * PramPart(n)
DataFrom(n, p) == BankSize + (p - 1) * XyramPart(n)

\* Program g in part p; inputs and outputs follow each other from DataFrom on.
Code(n, p, g) == CodeFrom(n, p) .. CodeFrom(n, p) + g.code - 1
Data(n, p, g) == DataFrom(n, p) .. DataFrom(n, p) + g.data - 1

Pram == 0 .. BankSize - 1
Stack == 5 * BankSize - StackSize .. 5 * BankSize - 1
================================================================================
