----------------------------- MODULE GemacRxFifo -----------------------------
(* What the stack may rely on from the receive side of the Ethernet driver:   *)
(* frames go up in the order they came, each once, with their own contents;   *)
(* the oldest may be dropped; a stop of the interface forgets all of them.    *)
EXTENDS Sequences

CONSTANTS NULL, Frames

VARIABLES flight,   \* frames received and not given up yet, oldest first
          up        \* the last frame given up, NULL if it was dropped

RxInit == flight = <<>> /\ up = NULL

Arrive(f) == flight' = Append(flight, f) /\ UNCHANGED up

GiveUp ==
    /\ flight # <<>>
    /\ flight' = Tail(flight)
    /\ up' \in {Head(flight), NULL}

Forget == flight' = <<>> /\ up' = NULL

RxFifo == RxInit /\ [][(\E f \in Frames : Arrive(f)) \/ GiveUp \/ Forget]_<<flight, up>>
=============================================================================
