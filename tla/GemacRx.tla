------------------------------- MODULE GemacRx -------------------------------
(* The receive side and the interrupt of the Gigabit Ethernet driver          *)
(* (devnp/1892vm14-gemac): the descriptor ring that the DMA engine fills and  *)
(* vm14_gemac_rx empties, the handler that masks, acknowledges and queues,    *)
(* the thread of io-pkt that processes, and stop and init, which touch the    *)
(* same ring and the same interrupt mask without a lock.                      *)
(*                                                                            *)
(* The transmit half of the interrupt is here only as a status bit: what is   *)
(* done for it is GemacTx's.                                                  *)
EXTENDS Integers, Sequences, FiniteSets, InOrder

CONSTANTS NULL,
          Mbufs,    \* the pool of clusters m_getcl allocates from
          Frames,   \* frames on the wire; one may be seen again
          Long,     \* frames that take two descriptors
          NumRx,    \* num_receive, descriptors in the ring
          MaxInits  \* bound: how often init runs

ASSUME RxAssumption ==
    /\ NumRx \in Nat /\ NumRx > 1
    /\ Long \subseteq Frames /\ MaxInits \in Nat
    /\ NULL \notin Mbufs /\ NULL \notin Frames

VARIABLES
    rdesc,      \* rdesc[i]: [own, ld: flags, buf: the cluster of buffer1,
                \*            next: the descriptor buffer2 chains to]
    rx_mbuf,    \* rx_mbuf[i]
    data,       \* data[m]: the frame whose end is in cluster m of the ring
    pool, stack,\* clusters nobody uses; clusters the stack was given
    cur_rx_rptr,
    rp,         \* vm14_gemac_rx's own copy of cur_rx_rptr
    pc,         \* where process_interrupt is
    queued,     \* the interrupt entry is on io-pkt's list
    irq_status,
    status,     \* bits of DMA_STATUS_AND_IRQ
    ien,        \* bits of DMA_INTERRUPT_ENABLE
    ctl, entry, \* where stop and init are; the ring entry init looks at
    rxdma, hwptr, hwmid, suspended,     \* the receive DMA
    last, clean,\* history: last frame given up; the last init found the ring idle
    inits       \* how often init ran

ring == <<rdesc, rx_mbuf, data, pool, stack>>
procVars == <<rp, pc>>
irqVars == <<queued, irq_status, status, ien>>
ctlVars == <<ctl, entry>>
hwVars == <<rxdma, hwptr, hwmid, suspended>>
history == <<last, clean, inits>>
vars == <<ring, cur_rx_rptr, procVars, irqVars, ctlVars, hwVars, history>>

Slots == 0 .. NumRx - 1
Bits == {"RX", "TX"}
NextUnwrapped(i) == i + 1        \* mutant
Next1(i) == (i + 1) % NumRx

Init ==
    /\ rdesc = [i \in Slots |-> [own |-> FALSE, ld |-> FALSE, buf |-> NULL, next |-> NULL]]
    /\ rx_mbuf = [i \in Slots |-> NULL]
    /\ data = [m \in Mbufs |-> NULL]
    /\ pool = Mbufs /\ stack = {}
    /\ cur_rx_rptr = 0 /\ rp = 0 /\ pc = "idle"
    /\ queued = FALSE /\ irq_status = {} /\ status = {} /\ ien = {}
    /\ ctl = "down" /\ entry = 0
    /\ rxdma = FALSE /\ hwptr = 0 /\ hwmid = NULL /\ suspended = FALSE
    /\ last = NULL /\ clean = FALSE /\ inits = 0

-----------------------------------------------------------------------------
(* The receive DMA *)

\* One buffer of frame f.  With no descriptor to put it in the DMA drops the
\* frame and waits for a poll demand.  Where the chain ends it reads address 0:
\* what it would find there is left out, it does nothing more.
HwReceive(f) ==
    /\ rxdma /\ ~suspended /\ hwptr # NULL
    /\ hwmid # NULL => f = hwmid
    /\ LET ends == f \notin Long \/ hwmid = f
           d == rdesc[hwptr]
       IN  IF d.own
           THEN /\ rdesc' = [rdesc EXCEPT ![hwptr].own = FALSE, ![hwptr].ld = ends]
                /\ data' = [data EXCEPT ![d.buf] = IF ends THEN f ELSE NULL]
                /\ hwptr' = d.next
                /\ hwmid' = IF ends THEN NULL ELSE f
                /\ status' = IF ends THEN status \cup {"RX"} ELSE status
                /\ UNCHANGED suspended
           ELSE /\ suspended' = TRUE
                /\ hwmid' = NULL
                /\ UNCHANGED <<rdesc, data, hwptr, status>>
    /\ UNCHANGED <<rx_mbuf, pool, stack, cur_rx_rptr, procVars, queued>>
    /\ UNCHANGED <<irq_status, ien, ctlVars, rxdma, history>>

\* A transmission is done.
HwTxDone ==
    /\ ctl = "run" /\ "TX" \notin status
    /\ status' = status \cup {"TX"}
    /\ UNCHANGED <<ring, cur_rx_rptr, procVars, queued, irq_status, ien>>
    /\ UNCHANGED <<ctlVars, hwVars, history>>

-----------------------------------------------------------------------------
(* The interrupt *)

\* vm14_gemac_isr: mask everything, acknowledge what is seen, queue.
Isr ==
    /\ status \cap ien # {}
    /\ ien' = {}
    /\ irq_status' = status
    /\ status' = {}
    /\ queued' = TRUE
    /\ UNCHANGED <<ring, cur_rx_rptr, procVars, ctlVars, hwVars, history>>

\* Where process_interrupt goes with the bits it has.  Of a local and of
\* irq_status the model forgets what is not read again.
Serve(bits) ==
    /\ pc' = IF "RX" \in bits THEN "look" ELSE "check"
    /\ rp' = IF "RX" \in bits THEN cur_rx_rptr ELSE 0

\* A thread of io-pkt takes the entry off the list.
ProcessInterrupt ==
    /\ queued /\ pc = "idle"
    /\ queued' = FALSE /\ irq_status' = {}
    /\ Serve(irq_status)
    /\ UNCHANGED <<ring, cur_rx_rptr, status, ien>>
    /\ UNCHANGED <<ctlVars, hwVars, history>>

\* Mutant of CheckStatus: what is acknowledged is not served.
CheckStatusOnce ==
    /\ pc = "check"
    /\ status' = {}
    /\ pc' = "enable"
    /\ UNCHANGED <<ring, cur_rx_rptr, rp, queued, irq_status, ien>>
    /\ UNCHANGED <<ctlVars, hwVars, history>>

\* The status is read and acknowledged again until nothing is set.
CheckStatus ==
    /\ pc = "check"
    /\ status' = {}
    /\ IF status = {} THEN pc' = "enable" /\ UNCHANGED rp
                      ELSE Serve(status)
    /\ UNCHANGED <<ring, cur_rx_rptr, queued, irq_status, ien>>
    /\ UNCHANGED <<ctlVars, hwVars, history>>

\* vm14_gemac_enable_interrupt, called by io-pkt when processing is over.
EnableInterrupt ==
    /\ pc = "enable"
    /\ pc' = "idle"
    /\ ien' = Bits
    /\ UNCHANGED <<ring, cur_rx_rptr, rp, queued, irq_status, status>>
    /\ UNCHANGED <<ctlVars, hwVars, history>>

-----------------------------------------------------------------------------
(* vm14_gemac_rx *)

\* The hardware owns the descriptor: kick the DMA and leave.
RxDone ==
    /\ pc = "look" /\ rdesc[rp].own
    /\ suspended' = FALSE
    /\ pc' = "check" /\ rp' = 0
    /\ UNCHANGED <<ring, cur_rx_rptr, irqVars, ctlVars>>
    /\ UNCHANGED <<rxdma, hwptr, hwmid, history>>

\* Mutant of RxDeliver: the ring entry keeps the cluster that goes up.
RxDeliverKept ==
    /\ pc = "look" /\ ~rdesc[rp].own /\ rdesc[rp].ld
    /\ \E m \in pool : pool' = pool \ {m} /\ rdesc' = [rdesc EXCEPT ![rp].buf = m]
    /\ stack' = stack \cup {rx_mbuf[rp]}
    /\ last' = data[rx_mbuf[rp]]
    /\ data' = [data EXCEPT ![rx_mbuf[rp]] = NULL]
    /\ pc' = "give"
    /\ UNCHANGED <<rx_mbuf, cur_rx_rptr, rp, irqVars, ctlVars, hwVars, clean, inits>>

\* The end of a frame goes up and a new cluster takes its place.
RxDeliver ==
    /\ pc = "look" /\ ~rdesc[rp].own /\ rdesc[rp].ld
    /\ \E m \in pool :
          /\ pool' = pool \ {m}
          /\ rx_mbuf' = [rx_mbuf EXCEPT ![rp] = m]
          /\ rdesc' = [rdesc EXCEPT ![rp].buf = m]
    /\ stack' = stack \cup {rx_mbuf[rp]}
    /\ last' = data[rx_mbuf[rp]]
    /\ data' = [data EXCEPT ![rx_mbuf[rp]] = NULL]
    /\ pc' = "give"
    /\ UNCHANGED <<cur_rx_rptr, rp, irqVars, ctlVars, hwVars, clean, inits>>

\* A buffer that does not end a frame is dropped, and so is a frame for which
\* there is no new cluster.
RxDrop ==
    /\ pc = "look" /\ ~rdesc[rp].own
    /\ rdesc[rp].ld => pool = {}
    /\ pc' = "give"
    /\ last' = IF rdesc[rp].ld THEN NULL ELSE last
    /\ UNCHANGED <<ring, cur_rx_rptr, rp, irqVars, ctlVars, hwVars, clean, inits>>

\* Mutant of RxGive: only the local pointer goes on.
RxGiveLocal ==
    /\ pc = "give"
    /\ rdesc' = [rdesc EXCEPT ![rp].own = TRUE, ![rp].ld = FALSE]
    /\ rp' = Next1(rp)
    /\ pc' = "look"
    /\ data' = [m \in Mbufs |-> IF m = rdesc[rp].buf THEN NULL ELSE data[m]]
    /\ UNCHANGED <<cur_rx_rptr, rx_mbuf, pool, stack, irqVars, ctlVars, hwVars>>
    /\ UNCHANGED history

\* Give the descriptor back to the hardware and go on to the next one.
RxGive ==
    /\ pc = "give"
    /\ rdesc' = [rdesc EXCEPT ![rp].own = TRUE, ![rp].ld = FALSE]
    /\ rp' = Next1(rp)
    /\ cur_rx_rptr' = Next1(rp)
    /\ pc' = "look"
    /\ data' = [m \in Mbufs |-> IF m = rdesc[rp].buf THEN NULL ELSE data[m]]
    /\ UNCHANGED <<rx_mbuf, pool, stack, irqVars, ctlVars, hwVars, history>>

\* The rest of io-pkt takes a cluster, and gives back a packet it is done with.
StackAlloc(m) ==
    /\ m \in pool
    /\ pool' = pool \ {m}
    /\ stack' = stack \cup {m}
    /\ UNCHANGED <<rdesc, rx_mbuf, data, cur_rx_rptr, procVars, irqVars, ctlVars>>
    /\ UNCHANGED <<hwVars, history>>

StackFree(m) ==
    /\ m \in stack
    /\ stack' = stack \ {m}
    /\ pool' = pool \cup {m}
    /\ UNCHANGED <<rdesc, rx_mbuf, data, cur_rx_rptr, procVars, irqVars, ctlVars>>
    /\ UNCHANGED <<hwVars, history>>

-----------------------------------------------------------------------------
(* vm14_gemac_stop and vm14_gemac_init *)

\* Interrupts off, the receive DMA told to stop; it may still end a buffer.
StopMask ==
    /\ ctl = "run"
    /\ ctl' = "stopping"
    /\ ien' = ien \ Bits
    /\ UNCHANGED <<ring, cur_rx_rptr, procVars, queued, irq_status, status>>
    /\ UNCHANGED <<entry, hwVars, history>>

\* Stopped and reset.  The status register may or may not survive the reset.
SoftReset ==
    /\ ctl = "stopping"
    /\ ctl' = "down"
    /\ rxdma' = FALSE /\ suspended' = FALSE /\ hwmid' = NULL
    /\ status' \in {status, {}}
    /\ UNCHANGED <<ring, cur_rx_rptr, procVars, queued, irq_status, ien, entry>>
    /\ UNCHANGED <<hwptr, history>>

InitBegin ==
    /\ ctl = "down" /\ inits < MaxInits
    /\ inits' = inits + 1
    /\ ctl' = "ring" /\ entry' = 0
    /\ cur_rx_rptr' = 0
    /\ clean' = FALSE
    /\ UNCHANGED <<ring, procVars, irqVars, hwVars, last>>

\* The entry before this one is chained to it, the last one to the first.
Chained(d) ==
    [i \in Slots |-> [d[i] EXCEPT !.next =
        IF i = entry - 1 THEN entry
        ELSE IF i = entry /\ entry = NumRx - 1 THEN 0 ELSE @]]

\* One turn of init_ring's loop: an entry that has a cluster is left as it is,
\* its descriptor included; without a cluster to be had the loop is left.
InitEntry ==
    /\ ctl = "ring" /\ entry < NumRx
    /\ IF rx_mbuf[entry] # NULL
       THEN UNCHANGED <<rdesc, rx_mbuf, pool>> /\ entry' = entry + 1
       ELSE \/ \E m \in pool :
                 /\ pool' = pool \ {m}
                 /\ rx_mbuf' = [rx_mbuf EXCEPT ![entry] = m]
                 /\ rdesc' = Chained([rdesc EXCEPT ![entry] =
                        [own |-> TRUE, ld |-> FALSE, buf |-> m, next |-> @.next]])
                 /\ entry' = entry + 1
            \/ /\ pool = {}
               /\ entry' = NumRx
               /\ UNCHANGED <<rdesc, rx_mbuf, pool>>
    /\ UNCHANGED <<data, stack, cur_rx_rptr, procVars, irqVars, ctl, hwVars>>
    /\ UNCHANGED history

\* The rest of init: the DMA gets the address of the first descriptor, and when
\* a PHY is found the interrupts are enabled and the DMA is started.
HwStart ==
    /\ ctl = "ring" /\ entry = NumRx
    /\ entry' = 0
    /\ hwptr' = 0
    /\ \/ /\ ctl' = "run" /\ rxdma' = TRUE /\ ien' = Bits
          /\ clean' = (/\ cur_rx_rptr = 0 /\ pc = "idle" /\ ~queued
                       /\ \A i \in Slots : rdesc[i].own /\ rx_mbuf[i] # NULL)
       \/ ctl' = "down" /\ UNCHANGED <<rxdma, ien, clean>>
    /\ last' = NULL /\ inits' = inits
    /\ UNCHANGED <<ring, cur_rx_rptr, procVars, queued, irq_status, status>>
    /\ UNCHANGED <<hwmid, suspended>>

-----------------------------------------------------------------------------
Receive == RxDone \/ RxDeliver \/ RxDrop \/ RxGive
Interrupt == ProcessInterrupt \/ CheckStatus \/ EnableInterrupt
Control == StopMask \/ SoftReset \/ InitBegin \/ InitEntry \/ HwStart

Next ==
    \/ \E f \in Frames : HwReceive(f)
    \/ HwTxDone
    \/ Isr \/ Interrupt \/ Receive
    \/ \E m \in Mbufs : StackAlloc(m) \/ StackFree(m)
    \/ Control

Spec == Init /\ [][Next]_vars

(* The handler and the processing thread run, and the DMA looks at its next   *)
(* descriptor while frames arrive.                                            *)
Fairness ==
    /\ WF_vars(Isr) /\ WF_vars(Interrupt) /\ WF_vars(Receive)
    /\ WF_vars(\E f \in Frames : HwReceive(f))

FairSpec == Spec /\ Fairness

-----------------------------------------------------------------------------
RxTypeOK ==
    /\ rdesc \in [Slots -> [own : BOOLEAN, ld : BOOLEAN, buf : Mbufs \cup {NULL},
                         next : Slots \cup {NULL}]]
    /\ rx_mbuf \in [Slots -> Mbufs \cup {NULL}]
    /\ data \in [Mbufs -> Frames \cup {NULL}]
    /\ pool \subseteq Mbufs /\ stack \subseteq Mbufs
    /\ cur_rx_rptr \in Slots /\ rp \in Slots /\ hwptr \in Slots \cup {NULL}
    /\ pc \in {"idle", "look", "give", "check", "enable"}
    /\ queued \in BOOLEAN /\ rxdma \in BOOLEAN
    /\ suspended \in BOOLEAN /\ clean \in BOOLEAN
    /\ inits \in 0 .. MaxInits /\ irq_status \subseteq Bits
    /\ status \subseteq Bits /\ ien \subseteq Bits
    /\ ctl \in {"down", "ring", "run", "stopping"} /\ entry \in 0 .. NumRx
    /\ hwmid \in Frames \cup {NULL} /\ last \in Frames \cup {NULL}

(* Every cluster has exactly one user: the pool, the stack or one ring entry; *)
(* and the hardware writes where the ring entry says.  So no packet of the    *)
(* stack is overwritten by a later frame and none is lost, whatever stop,     *)
(* init and failed allocations do in between.                                 *)
ClustersExclusive ==
    /\ pool \cap stack = {}
    /\ \A i \in Slots : rx_mbuf[i] \notin pool \cup stack
    /\ \A i, k \in Slots : i # k => rx_mbuf[i] # rx_mbuf[k] \/ rx_mbuf[i] = NULL
    /\ \A m \in Mbufs : m \in pool \cup stack \/ \E i \in Slots : rx_mbuf[i] = m
    /\ \A i \in Slots : rdesc[i].buf = rx_mbuf[i]

(* A received frame is never left without somebody who will look at it: the   *)
(* processing thread, the queued entry, or an interrupt that can still come.  *)
(* It needs the status to be read again before the mask is lifted, and an     *)
(* init that found the ring idle.                                             *)
SomebodyLooks ==
    (clean /\ ctl = "run" /\ rdesc[cur_rx_rptr].ld) =>
        \/ pc \in {"look", "give"}
        \/ queued /\ "RX" \in irq_status
        \/ "RX" \in status /\ ("RX" \in ien \/ pc # "idle" \/ queued)

\* Frames whose end is in the ring and that were not given up yet.  While a
\* descriptor is given back its frame is already up.
Received ==
    LET skip == IF pc = "give" THEN 1 ELSE 0
        at(k) == (cur_rx_rptr + skip + k - 1) % NumRx
        ends == {k \in 1 .. NumRx - skip : /\ rdesc[at(k)].ld
                                           /\ \A j \in 1 .. k : ~rdesc[at(j)].own}
    IN  Selected([k \in ends |-> data[rx_mbuf[at(k)]]], ends)

Fifo == INSTANCE GemacRxFifo WITH
          flight <- IF clean THEN Received ELSE <<>>,
          up <- IF clean THEN last ELSE NULL

(* After an init that found the ring idle, frames go up in the order they     *)
(* came and with their own contents, except those dropped.                    *)
RxFifoSpec == Fifo!RxFifo

(* "Initialize the Rx and Tx rings" (1892vm14_gemac.c:558): an interface that *)
(* was started again receives.  The DMA does not stay for ever on a           *)
(* descriptor that it does not own.                                           *)
ReceptionResumes ==
    LET ready == hwptr # NULL /\ rdesc[hwptr].own
    IN  (ctl = "run" /\ ~ready) ~> (ctl # "run" \/ ready)
=============================================================================
