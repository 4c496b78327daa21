------------------------------ MODULE MCGemacRx ------------------------------
(* Instances of GemacRx for TLC. *)
EXTENDS GemacRx, TLC

\* Clusters are interchangeable; no property of the run names one.
Symmetry == Permutations(Mbufs)
=============================================================================
