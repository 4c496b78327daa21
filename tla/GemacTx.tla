------------------------------- MODULE GemacTx -------------------------------
(* The transmit side of the Gigabit Ethernet driver (devnp/1892vm14-gemac):   *)
(* the descriptor ring that vm14_gemac_start fills and vm14_gemac_reap        *)
(* empties, against the DMA engine that reads it.                             *)
(*                                                                            *)
(* Four actors share the ring.  The stack queues packets and calls            *)
(* vm14_gemac_start with if_snd_ex locked; the interrupt and the housekeeping *)
(* callout reap when start does not run; a control thread stops and           *)
(* re-initialises the interface; the DMA engine takes no lock: only the OWN   *)
(* bit of a descriptor tells it what it may read.                             *)
(*                                                                            *)
(* IFF_OACTIVE is left out: every path that sets it clears it before the lock *)
(* is given back, so nobody ever sees it set.                                 *)
EXTENDS Integers, Sequences, FiniteSets, FiniteSetsExt, SequencesExt, InOrder

CONSTANTS NULL,
          Packets,   \* packets of the stack; a freed one may be sent again
          Frags,     \* Frags[p]: lengths of p's mbufs, 0 or 1, in chain order
          Huge,      \* packets longer than a cluster (MCLBYTES)
          NumTx,     \* num_transmit, descriptors in the ring
          TxReap,    \* tx_reap, descriptors freed by one call of reap
          MinNumTx   \* MIN_NUM_TX, below it a completion interrupt is asked for

\* parse_options rounds num_transmit up to a multiple of 4 and keeps tx_reap
\* above 1; a frame has at least one byte.
ASSUME TxAssumption ==
    /\ NumTx \in Nat /\ NumTx > 0 /\ NumTx % 4 = 0
    /\ TxReap \in Nat /\ TxReap > 1
    /\ MinNumTx \in Nat
    /\ Huge \subseteq Packets
    /\ NULL \notin Packets
    /\ Frags \in [Packets -> Seq({0, 1})]
    /\ \A p \in Packets : \E k \in DOMAIN Frags[p] : Frags[p][k] = 1

VARIABLES
    sendq,      \* ifp->if_snd
    held,       \* packets whose mbufs the driver has and has not freed
    desc,       \* tdesc: [own, ls, ioc: flags, buf: the piece in buffer1]
    tx_mbuf,    \* tx_mbuf[i]: packet to free with descriptor i
    tx_free, cur_tx_rptr, cur_tx_wptr,
    pc,         \* where vm14_gemac_start is
    ld,         \* its locals: packet and its mbufs, next mbuf, descriptor, num_frag
    irqwait,    \* process_interrupt found start_running 0 and wants the lock
    hk,         \* hk_callout is armed
    up,         \* [running, link]: IFF_RUNNING and not NIC_FLAG_LINK_DOWN
    ctl,        \* where stop and init are
    dma,        \* transmit DMA: off, run, stopping, late (stop gave up on it)
    hwptr,      \* the descriptor it reads next
    frame,      \* pieces of the frame it has fetched so far
    txirq       \* TRANSFER_DONE pending

ring == <<desc, tx_mbuf, tx_free, cur_tx_rptr, cur_tx_wptr>>
startVars == <<pc, ld>>
hwVars == <<dma, hwptr, frame, txirq>>
ctlVars == <<hk, up, ctl>>
vars == <<sendq, held, ring, startVars, irqwait, ctlVars, hwVars>>

Slots == 0 .. NumTx - 1
Behind(i, k) == (i + k) % NumTx          \* k descriptors behind i
NextUnwrapped(i) == i + 1                \* mutant
Next1(i) == Behind(i, 1)
NoDesc == [own |-> FALSE, ls |-> FALSE, ioc |-> FALSE, buf |-> NULL]
NoLoad == [pkt |-> NULL, mbufs |-> <<>>, m |-> 1, at |-> 0, nmbuf |-> 0,
           num_frag |-> 0]
Pieces(mbufs) == Cardinality({k \in DOMAIN mbufs : mbufs[k] = 1})

Init ==
    /\ sendq = <<>>
    /\ held = {}
    /\ desc = [i \in Slots |-> NoDesc]
    /\ tx_mbuf = [i \in Slots |-> NULL]
    /\ tx_free = NumTx
    /\ cur_tx_rptr = 0 /\ cur_tx_wptr = 0
    /\ pc = "idle" /\ ld = NoLoad
    /\ irqwait = FALSE
    /\ hk = FALSE
    /\ up = [running |-> FALSE, link |-> FALSE]
    /\ ctl = "idle"
    /\ dma = "off" /\ hwptr = 0 /\ frame = <<>>
    /\ txirq = FALSE

\* if_snd_ex is free: start is not under way and stop does not wait for the DMA.
Unlocked == pc = "idle" /\ ctl # "stopping"

-----------------------------------------------------------------------------
(* vm14_gemac_reap *)

\* Mutant of Scanned: OWN is not looked at.
ScannedOwned ==
    IF cur_tx_rptr = cur_tx_wptr THEN NumTx
    ELSE (cur_tx_wptr - cur_tx_rptr) % NumTx

\* Descriptors from cur_tx_rptr on that the scan passes: it ends at OWN or at
\* cur_tx_wptr, having looked at the whole ring when the two are equal.
Scanned ==
    LET inUse == IF cur_tx_rptr = cur_tx_wptr THEN NumTx
                 ELSE (cur_tx_wptr - cur_tx_rptr) % NumTx
    IN  Max({n \in 0 .. inUse :
               \A k \in 0 .. n - 1 : ~desc[Behind(cur_tx_rptr, k)].own})

\* Descriptors it frees: up to the last one that ends a packet, tx_reap at most.
ReapCount ==
    IF tx_free = NumTx THEN 0
    ELSE Min({TxReap,
              Max({0} \cup {n \in 1 .. Scanned :
                              desc[Behind(cur_tx_rptr, n - 1)].ls})})

Reap ==
    LET reaped == {Behind(cur_tx_rptr, k) : k \in 0 .. ReapCount - 1}
    IN  /\ held' = held \ {tx_mbuf[i] : i \in reaped}
        /\ tx_mbuf' = [i \in Slots |-> IF i \in reaped THEN NULL ELSE tx_mbuf[i]]
        /\ desc' = [i \in Slots |-> IF i \in reaped
                                    THEN [desc[i] EXCEPT !.ls = FALSE]
                                    ELSE desc[i]]
        /\ tx_free' = tx_free + ReapCount
        /\ cur_tx_rptr' = Behind(cur_tx_rptr, ReapCount)
        /\ UNCHANGED cur_tx_wptr

\* TRANSFER_DONE is taken by the interrupt; the reap is skipped when start runs.
IrqCheck ==
    /\ txirq /\ up.running
    /\ txirq' = FALSE
    /\ irqwait' = (irqwait \/ pc = "idle")
    /\ UNCHANGED <<sendq, held, ring, startVars, ctlVars>>
    /\ UNCHANGED <<dma, hwptr, frame>>

\* It reaps when it gets the lock, whatever has happened since it looked.
IrqReap ==
    /\ irqwait /\ Unlocked
    /\ irqwait' = FALSE
    /\ Reap
    /\ UNCHANGED <<sendq, startVars, ctlVars, hwVars>>

\* vm14_gemac_hk_callout: every ten seconds, if start does not run.
HkReap ==
    /\ hk /\ Unlocked /\ ctl = "idle"
    /\ Reap
    /\ UNCHANGED <<sendq, startVars, irqwait, ctlVars, hwVars>>

-----------------------------------------------------------------------------
(* vm14_gemac_start *)

\* The stack puts a packet on if_snd and calls start, which returns at once
\* when the interface is not running or the link is down.
Send(p) ==
    /\ Unlocked
    /\ p \notin held
    /\ sendq' = Append(sendq, p)
    /\ held' = held \cup {p}
    /\ pc' = IF up.running /\ up.link
             THEN IF tx_free < NumTx \div 4 THEN "reap" ELSE "poll"
             ELSE "idle"
    /\ UNCHANGED <<ring, ld, irqwait, ctlVars, hwVars>>

\* Too few descriptors: reap, and leave the queue alone if that did not help.
StartReap ==
    /\ pc = "reap"
    /\ Reap
    /\ pc' = IF tx_free' < NumTx \div 4 THEN "idle" ELSE "poll"
    /\ UNCHANGED <<sendq, ld, irqwait, ctlVars, hwVars>>

StartDone ==
    /\ pc = "poll"
    /\ sendq = <<>> \/ tx_free = 0
    /\ pc' = "idle"
    /\ UNCHANGED <<sendq, held, ring, ld, irqwait, ctlVars, hwVars>>

\* The locals with packet p, about to be written from cur_tx_wptr on.
Load(p, mbufs) ==
    [pkt |-> p, mbufs |-> mbufs, m |-> 1, at |-> cur_tx_wptr, nmbuf |-> 0,
     num_frag |-> Len(mbufs)]

\* Dequeue; a packet in more mbufs than free descriptors needs more work.
Dequeue ==
    /\ pc = "poll"
    /\ sendq # <<>> /\ tx_free > 0
    /\ LET p == Head(sendq)
           num_frag == Len(Frags[p])
       IN  /\ ld' = Load(p, Frags[p])
           /\ pc' = IF num_frag <= tx_free THEN "fill"
                    ELSE IF p \in Huge THEN "huge" ELSE "defrag"
    /\ sendq' = Tail(sendq)
    /\ UNCHANGED <<held, ring, irqwait, ctlVars, hwVars>>

\* Mutant of Drop: the packet is not freed.
DropUnfreed == held' = held /\ ld' = NoLoad /\ pc' = "idle"

\* The packet is freed and start gives up for now.
Drop ==
    /\ held' = held \ {ld.pkt}
    /\ ld' = NoLoad
    /\ pc' = "idle"

\* A huge packet may still fit after a reap.
HugeReap ==
    /\ pc = "huge"
    /\ Reap
    /\ pc' = "fits"
    /\ UNCHANGED <<sendq, ld, irqwait, ctlVars, hwVars>>

HugeFits ==
    /\ pc = "fits"
    /\ \/ /\ tx_free > ld.num_frag
          /\ pc' = "fill"
          /\ UNCHANGED <<held, ld>>
       \/ /\ tx_free <= ld.num_frag
          /\ Drop
    /\ UNCHANGED <<sendq, ring, irqwait, ctlVars, hwVars>>

\* vm14_gemac_defrag copies the packet into one cluster, unless there is none.
Defrag ==
    /\ pc = "defrag"
    /\ \/ /\ ld' = Load(ld.pkt, <<1>>)
          /\ pc' = "fill"
          /\ UNCHANGED held
       \/ Drop
    /\ UNCHANGED <<sendq, ring, irqwait, ctlVars, hwVars>>

\* Mutants of FillDesc: OWN at once on every descriptor; an empty mbuf counted.
FillDescOwned ==
    /\ pc = "fill"
    /\ ld.m <= Len(ld.mbufs)
    /\ IF ld.mbufs[ld.m] = 0
       THEN /\ ld' = [ld EXCEPT !.m = @ + 1, !.num_frag = @ - 1]
            /\ UNCHANGED desc
       ELSE /\ desc' = [desc EXCEPT ![ld.at] =
                          [own |-> TRUE, ls |-> FALSE, ioc |-> FALSE,
                           buf |-> <<ld.pkt, ld.nmbuf + 1, Pieces(ld.mbufs)>>]]
            /\ ld' = [ld EXCEPT !.m = @ + 1, !.nmbuf = @ + 1,
                                !.at = Next1(ld.at)]
    /\ UNCHANGED <<sendq, held, tx_mbuf, tx_free, cur_tx_rptr, cur_tx_wptr>>
    /\ UNCHANGED <<pc, irqwait, ctlVars, hwVars>>

FillDescCounted ==
    /\ pc = "fill"
    /\ ld.m <= Len(ld.mbufs)
    /\ IF ld.mbufs[ld.m] = 0
       THEN /\ ld' = [ld EXCEPT !.m = @ + 1]
            /\ UNCHANGED desc
       ELSE /\ desc' = [desc EXCEPT ![ld.at] =
                          [own |-> desc[ld.at].own \/ ld.nmbuf > 0,
                           ls |-> FALSE, ioc |-> FALSE,
                           buf |-> <<ld.pkt, ld.nmbuf + 1, Pieces(ld.mbufs)>>]]
            /\ ld' = [ld EXCEPT !.m = @ + 1, !.nmbuf = @ + 1,
                                !.at = Next1(ld.at)]
    /\ UNCHANGED <<sendq, held, tx_mbuf, tx_free, cur_tx_rptr, cur_tx_wptr>>
    /\ UNCHANGED <<pc, irqwait, ctlVars, hwVars>>

\* One turn of the fill loop.  The first descriptor of the packet gets its OWN
\* bit last of all, the others at once.
FillDesc ==
    /\ pc = "fill"
    /\ ld.m <= Len(ld.mbufs)
    /\ IF ld.mbufs[ld.m] = 0
       THEN /\ ld' = [ld EXCEPT !.m = @ + 1, !.num_frag = @ - 1]
            /\ UNCHANGED desc
       ELSE /\ desc' = [desc EXCEPT ![ld.at] =
                          [own |-> desc[ld.at].own \/ ld.nmbuf > 0,
                           ls |-> FALSE, ioc |-> FALSE,
                           buf |-> <<ld.pkt, ld.nmbuf + 1, Pieces(ld.mbufs)>>]]
            /\ ld' = [ld EXCEPT !.m = @ + 1, !.nmbuf = @ + 1,
                                !.at = Next1(ld.at)]
    /\ UNCHANGED <<sendq, held, tx_mbuf, tx_free, cur_tx_rptr, cur_tx_wptr>>
    /\ UNCHANGED <<pc, irqwait, ctlVars, hwVars>>

\* The last descriptor is marked and remembers the packet.
MarkLast ==
    /\ pc = "fill"
    /\ ld.m > Len(ld.mbufs)
    /\ tx_free' = tx_free - ld.num_frag
    /\ LET last == (ld.at - 1) % NumTx
       IN  /\ tx_mbuf' = [tx_mbuf EXCEPT ![last] = ld.pkt]
           /\ desc' = [desc EXCEPT ![last].ls = TRUE,
                                   ![last].ioc = tx_free' < MinNumTx]
    /\ pc' = "hand"
    /\ UNCHANGED <<sendq, held, cur_tx_rptr, cur_tx_wptr, ld, irqwait>>
    /\ UNCHANGED <<ctlVars, hwVars>>

\* OWN of the first descriptor, then the poll demand that makes an idle DMA look
\* at the ring again; on to the next packet.
HandOver ==
    /\ pc = "hand"
    /\ desc' = [desc EXCEPT ![cur_tx_wptr].own = TRUE]
    /\ cur_tx_wptr' = ld.at
    /\ ld' = NoLoad
    /\ pc' = "poll"
    /\ UNCHANGED <<sendq, held, tx_mbuf, tx_free, cur_tx_rptr, irqwait>>
    /\ UNCHANGED <<ctlVars, hwVars>>

-----------------------------------------------------------------------------
(* The DMA engine *)

\* Fetch the buffer of a descriptor it owns and give the descriptor back.  A
\* frame goes out with its last piece.  What nobody reads again is forgotten.
HwFetch ==
    /\ dma \in {"run", "stopping", "late"}
    /\ dma # "run" => frame # <<>>
    /\ desc[hwptr].own
    /\ LET d == desc[hwptr]
       IN  /\ frame' = IF d.ls THEN <<>> ELSE Append(frame, d.buf)
           /\ txirq' = (txirq \/ (d.ls /\ d.ioc))
           /\ desc' = [desc EXCEPT ![hwptr] = [NoDesc EXCEPT !.ls = d.ls]]
    /\ hwptr' = Next1(hwptr)
    /\ UNCHANGED <<sendq, held, tx_mbuf, tx_free, cur_tx_rptr, cur_tx_wptr>>
    /\ UNCHANGED <<startVars, irqwait, ctlVars, dma>>

\* Told to stop, it stops between two frames.
HwStop ==
    /\ dma \in {"stopping", "late"} /\ frame = <<>>
    /\ dma' = "off"
    /\ UNCHANGED <<sendq, held, ring, startVars, irqwait, ctlVars>>
    /\ UNCHANGED <<hwptr, frame, txirq>>

-----------------------------------------------------------------------------
(* vm14_gemac_stop and vm14_gemac_init; the link *)

\* Callouts off, the transmit side locked, the DMA told to stop.
StopBegin ==
    /\ ctl = "idle" /\ up.running /\ Unlocked
    /\ ctl' = "stopping"
    /\ hk' = FALSE
    /\ dma' = IF dma = "run" THEN "stopping" ELSE dma
    /\ UNCHANGED <<sendq, held, ring, startVars, irqwait, up>>
    /\ UNCHANGED <<hwptr, frame, txirq>>

\* The DMA has stopped, or twenty milliseconds are over: the packets of the
\* ring are freed either way.
StopFree ==
    /\ ctl = "stopping"
    /\ dma' = IF dma = "off" THEN "off" ELSE "late"
    /\ held' = held \ {tx_mbuf[i] : i \in Slots}
    /\ tx_mbuf' = [i \in Slots |-> NULL]
    /\ up' = [up EXCEPT !.running = FALSE]
    /\ ctl' = "reset"
    /\ UNCHANGED <<sendq, desc, tx_free, cur_tx_rptr, cur_tx_wptr>>
    /\ UNCHANGED <<startVars, irqwait, hk, hwptr, frame, txirq>>

\* The soft reset comes after the lock is given back.
SoftReset ==
    /\ ctl = "reset"
    /\ ctl' = "down"
    /\ dma' = "off" /\ frame' = <<>> /\ txirq' = FALSE
    /\ UNCHANGED <<sendq, held, ring, startVars, irqwait, hk, up, hwptr>>

\* Mutants of InitRing: the descriptors are not cleared; the callout is not armed.
InitRingKept ==
    /\ ctl \in {"idle", "down"} /\ ~up.running /\ Unlocked
    /\ tx_free' = NumTx
    /\ cur_tx_rptr' = 0 /\ cur_tx_wptr' = 0 /\ hwptr' = 0
    /\ ctl' = "idle"
    /\ \/ /\ \E link \in {FALSE, up.link} : up' = [running |-> TRUE, link |-> link]
          /\ dma' = "run" /\ hk' = TRUE
       \/ UNCHANGED <<up, dma, hk>>
    /\ UNCHANGED <<sendq, held, desc, tx_mbuf, startVars, irqwait>>
    /\ UNCHANGED <<frame, txirq>>

InitRingUnarmed ==
    /\ ctl \in {"idle", "down"} /\ ~up.running /\ Unlocked
    /\ desc' = [i \in Slots |-> NoDesc]
    /\ tx_free' = NumTx
    /\ cur_tx_rptr' = 0 /\ cur_tx_wptr' = 0 /\ hwptr' = 0
    /\ ctl' = "idle"
    /\ \/ /\ \E link \in {FALSE, up.link} : up' = [running |-> TRUE, link |-> link]
          /\ dma' = "run"
       \/ UNCHANGED <<up, dma>>
    /\ UNCHANGED <<sendq, held, tx_mbuf, startVars, irqwait, hk>>
    /\ UNCHANGED <<frame, txirq>>

\* init after its call of stop: the ring is cleared, and the interface runs if
\* a PHY answers.  findphy marks the link down when the PHY is to negotiate.
InitRing ==
    /\ ctl \in {"idle", "down"} /\ ~up.running /\ Unlocked
    /\ desc' = [i \in Slots |-> NoDesc]
    /\ tx_free' = NumTx
    /\ cur_tx_rptr' = 0 /\ cur_tx_wptr' = 0 /\ hwptr' = 0
    /\ ctl' = "idle"
    /\ \/ /\ \E link \in {FALSE, up.link} : up' = [running |-> TRUE, link |-> link]
          /\ dma' = "run" /\ hk' = TRUE
       \/ UNCHANGED <<up, dma, hk>>
    /\ UNCHANGED <<sendq, held, tx_mbuf, startVars, irqwait>>
    /\ UNCHANGED <<frame, txirq>>

\* vm14_gemac_mdi_callback
LinkChange ==
    /\ up.running /\ ctl = "idle"
    /\ up' = [up EXCEPT !.link = ~@]
    /\ UNCHANGED <<sendq, held, ring, startVars, irqwait, hk, ctl, hwVars>>

-----------------------------------------------------------------------------
Start == StartReap \/ StartDone \/ Dequeue \/ HugeReap \/ HugeFits \/ Defrag
            \/ FillDesc \/ MarkLast \/ HandOver
Hardware == HwFetch \/ HwStop
Control == StopBegin \/ StopFree \/ SoftReset \/ InitRing \/ LinkChange

Next ==
    \/ \E p \in Packets : Send(p)
    \/ Start
    \/ IrqCheck \/ IrqReap \/ HkReap
    \/ Hardware
    \/ Control

Spec == Init /\ [][Next]_vars

(* The DMA engine runs, a start or a stop that was begun goes on, and the      *)
(* callout fires every ten seconds: a firing that meets start reaps nothing,  *)
(* but start holds the lock for microseconds and cannot meet them all.        *)
(* Nobody has to send, to take the interrupt, to bring the interface up or to *)
(* change the link.                                                           *)
Fairness ==
    /\ WF_vars(Start) /\ WF_vars(Hardware) /\ WF_vars(StopFree)
    /\ SF_vars(HkReap)

FairSpec == Spec /\ Fairness

-----------------------------------------------------------------------------
InRing(p) == \E i \in Slots : tx_mbuf[i] = p
Loading == pc \in {"fill", "hand", "huge", "fits", "defrag"}
Used == NumTx - tx_free

TxTypeOK ==
    /\ sendq \in Seq(Packets)
    /\ held \subseteq Packets
    /\ desc \in [Slots -> [own : BOOLEAN, ls : BOOLEAN, ioc : BOOLEAN,
                           buf : {NULL} \cup (Packets \X Nat \X Nat)]]
    /\ tx_mbuf \in [Slots -> Packets \cup {NULL}]
    /\ tx_free \in 0 .. NumTx
    /\ cur_tx_rptr \in Slots /\ cur_tx_wptr \in Slots /\ hwptr \in Slots
    /\ pc \in {"idle", "reap", "poll", "fill", "hand", "huge", "fits", "defrag"}
    /\ ld \in [pkt : Packets \cup {NULL}, mbufs : Seq({0, 1}), m : Nat \ {0}, at : Slots,
               nmbuf : Nat, num_frag : Nat]
    /\ irqwait \in BOOLEAN /\ hk \in BOOLEAN
    /\ txirq \in BOOLEAN
    /\ up \in [running : BOOLEAN, link : BOOLEAN]
    /\ ctl \in {"idle", "stopping", "reset", "down"}
    /\ dma \in {"off", "run", "stopping", "late"}
    /\ frame \in Seq(Packets \X Nat \X Nat)

(* tx_free is the distance between the pointers, whatever mix of reaps, short *)
(* reaps that stop inside a packet and zero-length mbufs led there; and the   *)
(* DMA owns no descriptor outside it but those start is writing.              *)
RingAccounting ==
    LET end == IF pc = "hand" THEN ld.at ELSE cur_tx_wptr
        writing == IF pc = "fill" THEN ld.nmbuf ELSE 0
    IN  /\ end = Behind(cur_tx_rptr, Used)
        /\ \A k \in Used + writing .. NumTx - 1 :
              ~desc[Behind(cur_tx_rptr, k)].own

(* While the transmit DMA runs, it reads no packet that the driver has freed: *)
(* not by reap, not by a drop, not by stop.  (stop gives up on a DMA that     *)
(* does not end its frame in twenty milliseconds and then frees what it may   *)
(* still read: dma is "late" from there to the reset.)                        *)
OwnedIsHeld ==
    dma \in {"run", "stopping"} =>
        /\ \A i \in Slots : desc[i].own => desc[i].buf[1] \in held
        /\ \A k \in DOMAIN frame : frame[k][1] \in held

(* Every packet the driver has is in exactly one place from which it will be  *)
(* freed: none leaks when start gives one up, when a stop races a reap, or    *)
(* when a ring entry is written again.                                        *)
NoMbufLost ==
    /\ held = {sendq[k] : k \in DOMAIN sendq}
                \cup {p \in Packets : InRing(p)}
                \cup (IF Loading THEN {ld.pkt} ELSE {})
    /\ \A p \in Packets :
          Cardinality({i \in Slots : tx_mbuf[i] = p})
            + Cardinality({k \in DOMAIN sendq : sendq[k] = p})
            + (IF pc \in {"fill", "huge", "fits", "defrag"} /\ ld.pkt = p
               THEN 1 ELSE 0) <= 1

\* Descriptors the DMA can reach without another write of the driver.
Reachable ==
    LET run == Max({n \in 0 .. NumTx :
                      \A k \in 0 .. n - 1 : desc[Behind(hwptr, k)].own})
    IN  [k \in 1 .. run |-> desc[Behind(hwptr, k - 1)]]

(* What the DMA has fetched and what it can reach always splits into whole    *)
(* packets, each piece once and in order, with the last-segment flag on the   *)
(* last piece and nowhere else: it never overtakes the fill loop into half a  *)
(* packet.                                                                    *)
FramesWhole ==
    LET bufs == [k \in DOMAIN Reachable |-> Reachable[k].buf]
        all == frame \o bufs
        first(k) == k = 1 \/ all[k - 1][2] = all[k - 1][3]
    IN  dma # "off" =>
          /\ \A k \in DOMAIN all :
                IF first(k) THEN all[k][2] = 1
                ELSE all[k] = <<all[k - 1][1], all[k - 1][2] + 1, all[k - 1][3]>>
          /\ \A k \in DOMAIN bufs : Reachable[k].ls <=> bufs[k][2] = bufs[k][3]
          /\ all # <<>> => all[Len(all)][2] = all[Len(all)][3]

\* Packets handed over whose last piece is still to be read, and packets before
\* that, the one in start's hands included.
Flight ==
    LET ahead(k) == desc[Behind(hwptr, k - 1)]
        lasts == {k \in 1 .. NumTx : /\ ahead(k).ls
                                     /\ \A j \in 1 .. k : ahead(j).own}
    IN  Selected([k \in lasts |-> ahead(k).buf[1]], lasts)

Waiting == (IF Loading THEN <<ld.pkt>> ELSE <<>>) \o sendq

Fifo == INSTANCE GemacTxFifo WITH queue <- Waiting, flight <- Flight

(* The ring gives the stack what GemacTxFifo promises, however start, the     *)
(* reaps and the DMA interleave.                                              *)
TxFifoSpec == Fifo!TxFifo

(* A packet in the ring is freed in the end, even though most packets ask for *)
(* no interrupt and a reap is skipped while start runs.                       *)
RingDrains == \A p \in Packets : InRing(p) ~> ~InRing(p)

(* "not enough tx descriptors, try later" (transmit.c:171): a packet that      *)
(* start leaves on the queue for want of descriptors is taken off later, as   *)
(* long as the interface stays up.                                            *)
TriedLater ==
    LET first(p) == sendq # <<>> /\ Head(sendq) = p
    IN  \A p \in Packets :
          (pc = "reap" /\ first(p)) ~> (~first(p) \/ ~up.running \/ ~up.link)
=============================================================================
