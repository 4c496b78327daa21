----------------------------- MODULE GemacTxFifo -----------------------------
(* What the stack may rely on when it gives packets to the Ethernet driver:   *)
(* they are handed to the hardware in the order they were given and leave in  *)
(* the order they were handed over, each at most once.  Only the packet next  *)
(* in line is ever dropped, and only a stop of the interface takes back       *)
(* packets that were handed over, all of them at once.                        *)
EXTENDS Sequences

CONSTANT Packets

VARIABLES queue,    \* packets given and not yet handed over, oldest first
          flight    \* packets handed over and not yet sent, oldest first

TxInit == queue = <<>> /\ flight = <<>>

Give(p) == queue' = Append(queue, p) /\ UNCHANGED flight

HandOver ==
    /\ queue # <<>>
    /\ queue' = Tail(queue)
    /\ flight' = Append(flight, Head(queue))

Drop == queue # <<>> /\ queue' = Tail(queue) /\ UNCHANGED flight

Transmit == flight # <<>> /\ flight' = Tail(flight) /\ UNCHANGED queue

TakeBack == flight' = <<>> /\ UNCHANGED queue

TxNext == (\E p \in Packets : Give(p)) \/ HandOver \/ Drop \/ Transmit \/ TakeBack

TxFifo == TxInit /\ [][TxNext]_<<queue, flight>>
=============================================================================
