--------------------------------- MODULE MCSdma ---------------------------------
(* An instance of Sdma for TLC. *)
EXTENDS Sdma

\* Sizes that take the short pack alone, every kind of loop, both, and a split in
\* two programs with broken words.
MCTransfers ==
    {[dir |-> "EXTR_TO_INTR", offset |-> 0, size |-> 7],
     [dir |-> "INTR_TO_EXTR", offset |-> 32701, size |-> 200],
     [dir |-> "EXTR_TO_INTR", offset |-> 32768, size |-> 126976],
     [dir |-> "INTR_TO_EXTR", offset |-> 32768, size |-> 16500]}
=================================================================================
