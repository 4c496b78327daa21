------------------------------ MODULE MCGemacTx ------------------------------
(* Instances of GemacTx for TLC. *)
EXTENDS GemacTx

CONSTANTS small, holes, huge

MCPackets == {small, holes, huge}
\* One mbuf; two mbufs and an empty one between them; three mbufs of a packet
\* that does not fit a cluster.
MCFrags == [p \in MCPackets |->
              CASE p = small -> <<1>>
                [] p = holes -> <<1, 0, 1>>
                [] p = huge -> <<1, 1, 1>>]
=============================================================================
