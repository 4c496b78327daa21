------------------------------ MODULE SdmaProgram ------------------------------
(* What sdma_program (dma/sdma/sdma.c) writes for one descriptor, and what the *)
(* SDMA controller does with it.  A descriptor is copied in packs of sixteen   *)
(* units: a loop of 256 packs is written as often as it is needed, a loop for  *)
(* the packs that are left follows, then one short pack for the units that     *)
(* are left.  A pack is some DMALD and some DMAST instructions; which, depends *)
(* on the sides of the transfer.  All lengths are in bytes.                    *)
EXTENDS Integers

ProgMax == 1000                 \* SDMA_PROG_MAXSIZE
BrstLen == 16
LoopShort == 16                 \* mutant of LoopMax: the length of a pack
LoopMax == 256                  \* the most a loop counter of one byte can do

Directions == {"EXTR_TO_EXTR", "INTR_TO_EXTR", "EXTR_TO_INTR", "INTR_TO_INTR"}

\* Bytes of one beat on either side.
SrcSize(d) == IF d \in {"INTR_TO_EXTR", "INTR_TO_INTR"} THEN 4 ELSE 1
DstSize(d) == IF d \in {"EXTR_TO_INTR", "INTR_TO_INTR"} THEN 4 ELSE 1

\* trans_count.  With internal memory on a side it is rounded down to words.
Units(d, n) == IF d = "EXTR_TO_EXTR" THEN n ELSE n \div 4

Packs(d, n) == Units(d, n) \div BrstLen
ShortPack(d, n) == Units(d, n) % BrstLen

\* How often the loops make the controller go through a pack.  DMALP takes the
\* number of turns less one; the mutant does not know.
TurnsOffByOne(d, n) ==
    (LoopMax - 1) * (Packs(d, n) \div LoopMax) + (Packs(d, n) % LoopMax)
Turns(d, n) == LoopMax * (Packs(d, n) \div LoopMax) + (Packs(d, n) % LoopMax)

\* A pack is one DMALD for every byte of a beat of the destination, one DMAST
\* for every byte of a beat of the source.  The DMALDs bring as many bytes as
\* the DMASTs take away.
PackBytes(d, beats) == DstSize(d) * SrcSize(d) * beats

\* Bytes the program reads and writes.
Moved(d, n) ==
    PackBytes(d, BrstLen) * Turns(d, n) + PackBytes(d, ShortPack(d, n))

\* Length of the instructions: DMALP, the pack, DMALPEND.
PackLength(d) == DstSize(d) + SrcSize(d)
LoopLength(d) == 4 + PackLength(d)

\* loop_length: what the outer loop of the descriptor runs over.  It ends with
\* DMASEV and begins, in a program for the DSP, with DMAWFE.
Body(d, n, kind) ==
    (IF kind = "SDMA_DSP_" THEN 2 ELSE 0)
    + (IF Packs(d, n) > 0 THEN 6 ELSE 0)
    + LoopLength(d) * (Packs(d, n) \div LoopMax)
    + (IF Packs(d, n) % LoopMax > 0 THEN LoopLength(d) ELSE 0)
    + (IF ShortPack(d, n) > 0 THEN 6 + PackLength(d) ELSE 0)
    + 2

\* The program of one descriptor: the two addresses, the outer loop, DMAWMB and
\* DMAEND.
Length(d, n, kind) == 12 + 2 + Body(d, n, kind) + 2 + 2
=================================================================================
