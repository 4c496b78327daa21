----------------------------- MODULE GemacRxProofs -----------------------------
(* The clusters and the frames of the receive ring for every ring size, every *)
(* pool and any number of stops and inits.                                    *)
EXTENDS GemacRx, InOrderProofs

(* init_ring leaves the loop when there is no cluster, so the ring may have   *)
(* entries without one; and neither rx nor the DMA looks at rx_mbuf or at the *)
(* address before using it.  What keeps both away from such entries: the DMA  *)
(* follows the chain, which leads to filled entries only, and nothing is      *)
(* received before the first entry is filled.                                 *)
ChainFilled ==
    /\ \A i \in Slots : rdesc[i].next # NULL => rx_mbuf[rdesc[i].next] # NULL
    /\ \A i \in Slots : rdesc[i].ld => rx_mbuf[i] # NULL
    /\ ctl = "ring" /\ entry < NumRx =>
          \A i \in Slots : i < entry => rx_mbuf[i] # NULL
    /\ hwptr # NULL /\ hwptr # 0 => rx_mbuf[hwptr] # NULL
    /\ rx_mbuf[0] = NULL =>
          /\ \A i \in Slots : rx_mbuf[i] = NULL
          /\ ~rdesc[0].own
          /\ "RX" \notin status \cup irq_status
          /\ pc \notin {"look", "give"}

RxInv == RxTypeOK /\ ClustersExclusive /\ ChainFilled

-----------------------------------------------------------------------------
\* Pointers that start at 0 and go on modulo the ring stay in it.
LEMMA ZeroIsSlot == 0 \in Slots /\ \A i \in Slots : Next1(i) \in Slots
BY RxAssumption DEF Slots, Next1

Descs == [own : BOOLEAN, ld : BOOLEAN, buf : Mbufs \cup {NULL}, next : Slots \cup {NULL}]

\* A descriptor with new flags.
LEMMA NewFlags ==
    ASSUME NEW d \in Descs, NEW o \in BOOLEAN, NEW l \in BOOLEAN
    PROVE  /\ [d EXCEPT !.own = o, !.ld = l]
                = [own |-> o, ld |-> l, buf |-> d.buf, next |-> d.next]
           /\ [d EXCEPT !.own = o, !.ld = l] \in Descs
<1> DEFINE r == [d EXCEPT !.own = o]
<1>1. r = [own |-> o, ld |-> d.ld, buf |-> d.buf, next |-> d.next] /\ r \in Descs
  BY DEF Descs
<1>2. [d EXCEPT !.own = o, !.ld = l] = [r EXCEPT !.ld = l]
  OBVIOUS
<1>3. r.own = o /\ r.buf = d.buf /\ r.next = d.next
  BY <1>1
<1> HIDE DEF r
<1>4. /\ [r EXCEPT !.ld = l] = [own |-> r.own, ld |-> l, buf |-> r.buf, next |-> r.next]
      /\ [r EXCEPT !.ld = l] \in Descs
  BY <1>1 DEF Descs
<1>5. QED
  BY <1>2, <1>3, <1>4

\* After attach the ring is empty and every cluster is in the pool.
LEMMA InitRxInv == Init => RxInv
<1> SUFFICES ASSUME Init PROVE RxInv
  OBVIOUS
<1>1. RxTypeOK
  <2>1. rdesc \in [Slots -> Descs]
    BY DEF Init, Descs
  <2>2. /\ rx_mbuf \in [Slots -> Mbufs \cup {NULL}]
        /\ data \in [Mbufs -> Frames \cup {NULL}]
        /\ pool \subseteq Mbufs /\ stack \subseteq Mbufs
    BY DEF Init
  <2>3. inits \in 0 .. MaxInits /\ entry \in 0 .. NumRx
    BY RxAssumption DEF Init
  <2>4. QED
    BY <2>1, <2>2, <2>3, ZeroIsSlot DEF Init, RxTypeOK, Bits, Descs
<1>2. ClustersExclusive
  BY RxAssumption DEF Init, ClustersExclusive
<1>3. ChainFilled
  BY ZeroIsSlot DEF Init, ChainFilled
<1>4. QED
  BY <1>1, <1>2, <1>3 DEF RxInv

\* Steps that leave the clusters and the descriptors alone.
LEMMA ClustersKept ==
    ASSUME ClustersExclusive, UNCHANGED <<rdesc, rx_mbuf, pool, stack>>
    PROVE  ClustersExclusive'
BY DEF ClustersExclusive

\* Steps that leave the ring and its entries alone.
LEMMA ChainKept ==
    ASSUME ChainFilled, UNCHANGED <<rdesc, rx_mbuf, hwptr>>,
           ctl' = "ring" => \/ ctl = "ring" /\ entry' = entry
                            \/ entry' \in {0, NumRx},
           \/ rx_mbuf[0] # NULL
           \/ "RX" \notin status' \cup irq_status' /\ pc' \notin {"look", "give"}
    PROVE  ChainFilled'
BY RxAssumption DEF ChainFilled, Slots

-----------------------------------------------------------------------------
(* The receive DMA. *)

\* The descriptor it fills has a cluster.
LEMMA OwnedHasCluster ==
    ASSUME RxInv, hwptr # NULL, rdesc[hwptr].own
    PROVE  /\ hwptr \in Slots /\ rx_mbuf[hwptr] # NULL /\ rx_mbuf[0] # NULL
           /\ rdesc[hwptr] \in Descs /\ rdesc[hwptr].buf \in Mbufs
<1>1. /\ hwptr \in Slots /\ rx_mbuf \in [Slots -> Mbufs \cup {NULL}]
      /\ rdesc \in [Slots -> Descs] /\ rdesc[hwptr].buf = rx_mbuf[hwptr]
  BY DEF RxInv, RxTypeOK, ClustersExclusive, Descs
<1>2. rx_mbuf[0] # NULL /\ rx_mbuf[hwptr] # NULL
  BY <1>1 DEF RxInv, ChainFilled
<1>3. QED
  BY <1>1, <1>2

\* The DMA writes into the cluster of the entry it owns.
LEMMA HwReceiveStep ==
    ASSUME RxInv, NEW f \in Frames, HwReceive(f)
    PROVE  RxInv'
<1> DEFINE ends == f \notin Long \/ hwmid = f
           d == rdesc[hwptr]
<1>1. CASE d.own
  <2>1. /\ hwptr \in Slots /\ rx_mbuf[hwptr] # NULL /\ rx_mbuf[0] # NULL
        /\ d \in Descs /\ d.buf \in Mbufs
    BY <1>1, OwnedHasCluster DEF HwReceive
  <2>2. /\ rdesc' = [rdesc EXCEPT ![hwptr] = [@ EXCEPT !.own = FALSE, !.ld = ends]]
        /\ data' = [data EXCEPT ![d.buf] = IF ends THEN f ELSE NULL]
        /\ hwptr' = d.next
        /\ hwmid' = IF ends THEN NULL ELSE f
        /\ status' = IF ends THEN status \cup {"RX"} ELSE status
        /\ UNCHANGED <<suspended, rx_mbuf, pool, stack, cur_rx_rptr, rp, pc, queued,
                       irq_status, ien, ctl, entry, rxdma, last, clean, inits>>
    BY <1>1 DEF HwReceive, procVars, ctlVars, history
  <2>3. rdesc \in [Slots -> Descs]
    BY DEF RxInv, RxTypeOK, Descs
  <2> DEFINE new == [own |-> FALSE, ld |-> ends, buf |-> d.buf, next |-> d.next]
  <2>4. rdesc' = [rdesc EXCEPT ![hwptr] = new] /\ new \in Descs
    <3>1. ends \in BOOLEAN
      OBVIOUS
    <3>2. rdesc' = [rdesc EXCEPT ![hwptr] = [d EXCEPT !.own = FALSE, !.ld = ends]]
      BY <2>2
    <3> HIDE DEF ends
    <3>3. [d EXCEPT !.own = FALSE, !.ld = ends] = new
          /\ [d EXCEPT !.own = FALSE, !.ld = ends] \in Descs
      BY <2>1, <3>1, NewFlags
    <3>4. QED
      BY <3>2, <3>3
  <2> HIDE DEF new
  <2>5. rdesc' \in [Slots -> Descs]
    BY <2>1, <2>3, <2>4
  <2>6. /\ \A i \in Slots : rdesc'[i].buf = rdesc[i].buf
        /\ \A i \in Slots : rdesc'[i].next = rdesc[i].next
        /\ \A i \in Slots : i # hwptr => rdesc'[i] = rdesc[i]
    BY <2>1, <2>3, <2>4 DEF new
  <2>7. RxTypeOK'
    <3>1. data' \in [Mbufs -> Frames \cup {NULL}] /\ hwptr' \in Slots \cup {NULL}
      BY <2>1, <2>2 DEF RxInv, RxTypeOK, Descs
    <3>2. QED
      BY <2>2, <2>5, <3>1 DEF RxInv, RxTypeOK, Descs, Bits
  <2>8. ClustersExclusive'
    BY <2>2, <2>6 DEF RxInv, ClustersExclusive
  <2>9. ChainFilled'
    <3>1. \A i \in Slots : rdesc'[i].ld => rx_mbuf'[i] # NULL
      BY <2>1, <2>2, <2>6 DEF RxInv, ChainFilled
    <3>2. hwptr' # NULL => rx_mbuf'[hwptr'] # NULL
      BY <2>1, <2>2 DEF RxInv, ChainFilled
    <3>3. QED
      BY <2>1, <2>2, <2>6, <3>1, <3>2 DEF RxInv, ChainFilled
  <2>10. QED
    BY <2>7, <2>8, <2>9 DEF RxInv
<1>2. CASE ~d.own
  <2>1. /\ suspended' = TRUE /\ hwmid' = NULL
        /\ UNCHANGED <<rdesc, data, hwptr, status, rx_mbuf, pool, stack, cur_rx_rptr,
                       rp, pc, queued, irq_status, ien, ctl, entry, rxdma, last,
                       clean, inits>>
    BY <1>2 DEF HwReceive, procVars, ctlVars, history
  <2>2. RxTypeOK'
    BY <2>1 DEF RxInv, RxTypeOK
  <2>3. ClustersExclusive'
    BY <2>1, ClustersKept DEF RxInv
  <2>4. ChainFilled'
    BY <2>1 DEF RxInv, ChainFilled
  <2>5. QED
    BY <2>2, <2>3, <2>4 DEF RxInv
<1>3. QED
  BY <1>1, <1>2

-----------------------------------------------------------------------------
(* The interrupt. *)

\* The handler and the processing thread touch no cluster.
LEMMA InterruptStep ==
    ASSUME RxInv, HwTxDone \/ Isr \/ Interrupt \/ RxDone
    PROVE  RxInv'
<1>1. UNCHANGED <<rdesc, rx_mbuf, data, pool, stack, cur_rx_rptr, ctl, entry, rxdma,
                  hwptr, hwmid, last, clean, inits>>
  BY DEF HwTxDone, Isr, Interrupt, ProcessInterrupt, CheckStatus, EnableInterrupt,
     RxDone, ring, ctlVars, hwVars, history
<1>2. /\ rp' \in {rp, cur_rx_rptr, 0}
      /\ pc' \in {"idle", "look", "check", "enable", pc}
      /\ queued' \in BOOLEAN /\ suspended' \in BOOLEAN
      /\ irq_status' \subseteq Bits /\ status' \subseteq Bits /\ ien' \subseteq Bits
  BY DEF HwTxDone, Isr, Interrupt, ProcessInterrupt, CheckStatus, EnableInterrupt,
     RxDone, Serve, procVars, irqVars, hwVars, RxInv, RxTypeOK, Bits
<1>3. RxTypeOK'
  BY <1>1, <1>2, ZeroIsSlot DEF RxInv, RxTypeOK
<1>4. ClustersExclusive'
  BY <1>1, ClustersKept DEF RxInv
<1>5. \/ rx_mbuf[0] # NULL
      \/ "RX" \notin status' \cup irq_status' /\ pc' \notin {"look", "give"}
  <2> SUFFICES ASSUME rx_mbuf[0] = NULL
               PROVE  "RX" \notin status' \cup irq_status' /\ pc' \notin {"look", "give"}
    OBVIOUS
  <2>1. "RX" \notin status \cup irq_status /\ pc \notin {"look", "give"}
    BY DEF RxInv, ChainFilled
  <2>2. QED
    BY <2>1 DEF HwTxDone, Isr, Interrupt, ProcessInterrupt, CheckStatus,
       EnableInterrupt, RxDone, Serve, procVars, irqVars
<1>6. ChainFilled'
  BY <1>1, <1>5, ChainKept DEF RxInv
<1>7. QED
  BY <1>3, <1>4, <1>6 DEF RxInv

-----------------------------------------------------------------------------
(* The receive loop and the rest of io-pkt. *)

\* What the steps of the ring use has its type.
LEMMA RxTypes ==
    ASSUME RxInv
    PROVE  /\ rdesc \in [Slots -> Descs] /\ rx_mbuf \in [Slots -> Mbufs \cup {NULL}]
           /\ rp \in Slots /\ 0 \in Slots /\ entry \in 0 .. NumRx
           /\ pool \subseteq Mbufs /\ stack \subseteq Mbufs /\ NULL \notin Mbufs
BY ZeroIsSlot, RxAssumption DEF RxInv, RxTypeOK, Descs

\* A cluster goes up and another one takes its place.
LEMMA RxDeliverStep ==
    ASSUME RxInv, RxDeliver
    PROVE  RxInv'
<1>1. PICK m \in pool :
        /\ pool' = pool \ {m}
        /\ rx_mbuf' = [rx_mbuf EXCEPT ![rp] = m]
        /\ rdesc' = [rdesc EXCEPT ![rp] = [@ EXCEPT !.buf = m]]
  BY DEF RxDeliver
<1>2. /\ pc = "look" /\ rdesc[rp].ld
      /\ stack' = stack \cup {rx_mbuf[rp]}
      /\ last' = data[rx_mbuf[rp]]
      /\ data' = [data EXCEPT ![rx_mbuf[rp]] = NULL]
      /\ pc' = "give"
      /\ UNCHANGED <<cur_rx_rptr, rp, queued, irq_status, status, ien, ctl, entry,
                     rxdma, hwptr, hwmid, suspended, clean, inits>>
  BY DEF RxDeliver, irqVars, ctlVars, hwVars
<1>3. rx_mbuf[rp] \in Mbufs /\ rx_mbuf[0] # NULL /\ m \in Mbufs /\ m # NULL
  BY <1>2, RxTypes DEF RxInv, ChainFilled
<1>4. /\ rdesc' \in [Slots -> Descs]
      /\ rdesc'[rp].buf = m
      /\ \A i \in Slots : i # rp => rdesc'[i] = rdesc[i]
      /\ \A i \in Slots : /\ rdesc'[i].ld = rdesc[i].ld /\ rdesc'[i].own = rdesc[i].own
                          /\ rdesc'[i].next = rdesc[i].next
  <2> DEFINE r == [rdesc[rp] EXCEPT !.buf = m]
  <2>1. /\ r \in Descs /\ r.buf = m /\ r.own = rdesc[rp].own
        /\ r.ld = rdesc[rp].ld /\ r.next = rdesc[rp].next
    <3>1. rdesc[rp] \in Descs
      BY RxTypes
    <3>2. QED
      BY <3>1, <1>3 DEF Descs
  <2>2. rdesc' = [rdesc EXCEPT ![rp] = r]
    BY <1>1
  <2> HIDE DEF r
  <2>3. QED
    BY <2>1, <2>2, RxTypes
<1>5. RxTypeOK'
  <2>1. /\ data' \in [Mbufs -> Frames \cup {NULL}] /\ last' \in Frames \cup {NULL}
    BY <1>2, <1>3 DEF RxInv, RxTypeOK
  <2>2. /\ pool' \subseteq Mbufs /\ stack' \subseteq Mbufs
        /\ rx_mbuf' \in [Slots -> Mbufs \cup {NULL}]
    BY <1>1, <1>2, <1>3, RxTypes
  <2>3. QED
    BY <1>2, <1>4, <2>1, <2>2 DEF RxInv, RxTypeOK, Descs
<1>6. ClustersExclusive'
  <2>1. m \notin stack /\ \A i \in Slots : rx_mbuf[i] # m
    BY <1>1 DEF RxInv, ClustersExclusive
  <2>2. rx_mbuf[rp] \notin pool /\ \A i \in Slots : i # rp => rx_mbuf[i] # rx_mbuf[rp]
    BY <1>3, RxTypes DEF RxInv, ClustersExclusive
  <2>3. /\ rx_mbuf'[rp] = m
        /\ \A i \in Slots : i # rp => rx_mbuf'[i] = rx_mbuf[i]
    BY <1>1, RxTypes
  <2>4. pool' \cap stack' = {}
    BY <1>1, <1>2, <2>1, <2>2 DEF RxInv, ClustersExclusive
  <2>5. \A i \in Slots : rx_mbuf'[i] \notin pool' \cup stack'
    BY <1>1, <1>2, <2>1, <2>2, <2>3 DEF RxInv, ClustersExclusive
  <2>6. \A i, k \in Slots : i # k => rx_mbuf'[i] # rx_mbuf'[k] \/ rx_mbuf'[i] = NULL
    BY <2>1, <2>3 DEF RxInv, ClustersExclusive
  <2>7. ASSUME NEW c \in Mbufs
        PROVE  c \in pool' \cup stack' \/ \E i \in Slots : rx_mbuf'[i] = c
    <3>1. CASE c = m
      BY <2>3, <3>1, RxTypes
    <3>2. CASE c = rx_mbuf[rp]
      BY <1>2, <3>2
    <3>3. CASE c # m /\ c # rx_mbuf[rp]
      <4>1. c \in pool \cup stack \/ \E i \in Slots : rx_mbuf[i] = c
        BY DEF RxInv, ClustersExclusive
      <4>2. CASE c \in pool \cup stack
        BY <1>1, <1>2, <3>3, <4>2
      <4>3. CASE \E i \in Slots : rx_mbuf[i] = c
        BY <2>3, <3>3, <4>3
      <4>4. QED
        BY <4>1, <4>2, <4>3
    <3>4. QED
      BY <3>1, <3>2, <3>3
  <2>8. \A i \in Slots : rdesc'[i].buf = rx_mbuf'[i]
    BY <1>4, <2>3 DEF RxInv, ClustersExclusive
  <2>9. QED
    BY <2>4, <2>5, <2>6, <2>7, <2>8 DEF ClustersExclusive
<1>7. ChainFilled'
  <2>1. \A i \in Slots : rx_mbuf[i] # NULL => rx_mbuf'[i] # NULL
    BY <1>1, <1>3, RxTypes
  <2>2. rx_mbuf'[0] # NULL
    BY <1>3, <2>1, RxTypes
  <2>3. \A i \in Slots : rdesc'[i].next # NULL => rx_mbuf'[rdesc'[i].next] # NULL
    BY <1>4, <2>1, RxTypes DEF RxInv, ChainFilled, Descs
  <2>4. hwptr' # NULL /\ hwptr' # 0 => rx_mbuf'[hwptr'] # NULL
    BY <1>2, <2>1 DEF RxInv, RxTypeOK, ChainFilled
  <2>5. QED
    BY <1>2, <1>4, <2>1, <2>2, <2>3, <2>4 DEF RxInv, ChainFilled
<1>8. QED
  BY <1>5, <1>6, <1>7 DEF RxInv

\* A dropped frame leaves its cluster in the ring.
LEMMA RxDropStep ==
    ASSUME RxInv, RxDrop
    PROVE  RxInv'
<1>1. /\ pc = "look" /\ pc' = "give" /\ last' \in {last, NULL}
      /\ UNCHANGED <<rdesc, rx_mbuf, data, pool, stack, cur_rx_rptr, rp, queued,
                     irq_status, status, ien, ctl, entry, rxdma, hwptr, hwmid,
                     suspended, clean, inits>>
  BY DEF RxDrop, ring, irqVars, ctlVars, hwVars
<1>2. RxTypeOK'
  BY <1>1 DEF RxInv, RxTypeOK
<1>3. ClustersExclusive'
  BY <1>1, ClustersKept DEF RxInv
<1>4. rx_mbuf[0] # NULL
  BY <1>1 DEF RxInv, ChainFilled
<1>5. ChainFilled'
  BY <1>1, <1>4, ChainKept DEF RxInv
<1>6. QED
  BY <1>2, <1>3, <1>5 DEF RxInv

\* A descriptor given back still has its cluster.
LEMMA RxGiveStep ==
    ASSUME RxInv, RxGive
    PROVE  RxInv'
<1>1. /\ pc = "give" /\ pc' = "look"
      /\ rdesc' = [rdesc EXCEPT ![rp] = [@ EXCEPT !.own = TRUE, !.ld = FALSE]]
      /\ rp' = Next1(rp) /\ cur_rx_rptr' = Next1(rp)
      /\ data' = [m \in Mbufs |-> IF m = rdesc[rp].buf THEN NULL ELSE data[m]]
      /\ UNCHANGED <<rx_mbuf, pool, stack, queued, irq_status, status, ien, ctl, entry,
                     rxdma, hwptr, hwmid, suspended, last, clean, inits>>
  BY DEF RxGive, irqVars, ctlVars, hwVars, history
<1>2. rx_mbuf[0] # NULL
  BY <1>1 DEF RxInv, ChainFilled
<1>3. /\ rdesc' \in [Slots -> Descs]
      /\ \A i \in Slots : rdesc'[i].buf = rdesc[i].buf /\ rdesc'[i].next = rdesc[i].next
      /\ \A i \in Slots : rdesc'[i].ld => rdesc[i].ld
  <2> DEFINE r == [rdesc[rp] EXCEPT !.own = TRUE, !.ld = FALSE]
  <2>1. /\ r \in Descs /\ r.ld = FALSE
        /\ r.buf = rdesc[rp].buf /\ r.next = rdesc[rp].next
    <3>1. rdesc[rp] \in Descs
      BY RxTypes
    <3>2. /\ r = [own |-> TRUE, ld |-> FALSE,
                  buf |-> rdesc[rp].buf, next |-> rdesc[rp].next]
          /\ r \in Descs
      BY <3>1, NewFlags
    <3> HIDE DEF r
    <3>3. QED
      BY <3>2
  <2>2. rdesc' = [rdesc EXCEPT ![rp] = r]
    BY <1>1
  <2> HIDE DEF r
  <2>3. QED
    BY <2>1, <2>2, RxTypes
<1>4. RxTypeOK'
  <2>1. data' \in [Mbufs -> Frames \cup {NULL}]
    BY <1>1 DEF RxInv, RxTypeOK
  <2>2. rp' \in Slots /\ cur_rx_rptr' \in Slots
    BY <1>1, ZeroIsSlot, RxTypes
  <2>3. QED
    BY <1>1, <1>3, <2>1, <2>2 DEF RxInv, RxTypeOK, Descs
<1>5. ClustersExclusive'
  BY <1>1, <1>3 DEF RxInv, ClustersExclusive
<1>6. ChainFilled'
  BY <1>1, <1>2, <1>3 DEF RxInv, ChainFilled
<1>7. QED
  BY <1>4, <1>5, <1>6 DEF RxInv

\* The stack takes clusters of the pool and gives back its own.
LEMMA StackStep ==
    ASSUME RxInv, NEW m \in Mbufs, StackAlloc(m) \/ StackFree(m)
    PROVE  RxInv'
<1>1. UNCHANGED <<rdesc, rx_mbuf, data, cur_rx_rptr, rp, pc, queued, irq_status,
                  status, ien, ctl, entry, rxdma, hwptr, hwmid, suspended, last,
                  clean, inits>>
  BY DEF StackAlloc, StackFree, procVars, irqVars, ctlVars, hwVars, history
<1>2. /\ pool' \cup stack' = pool \cup stack
      /\ pool \cap stack = {} => pool' \cap stack' = {}
  BY DEF StackAlloc, StackFree
<1>3. RxTypeOK'
  <2>1. pool' \subseteq Mbufs /\ stack' \subseteq Mbufs
    BY <1>2, RxTypes
  <2>2. QED
    BY <1>1, <2>1 DEF RxInv, RxTypeOK
<1>4. ClustersExclusive'
  BY <1>1, <1>2 DEF RxInv, ClustersExclusive
<1>5. ChainFilled'
  BY <1>1 DEF RxInv, ChainFilled
<1>6. QED
  BY <1>3, <1>4, <1>5 DEF RxInv

-----------------------------------------------------------------------------
(* vm14_gemac_stop and vm14_gemac_init. *)

\* stop and the begin of init move no cluster.
LEMMA StopStep ==
    ASSUME RxInv, StopMask \/ SoftReset \/ InitBegin
    PROVE  RxInv'
<1>1. UNCHANGED <<rdesc, rx_mbuf, data, pool, stack, rp, pc, queued, irq_status,
                  hwptr, last>>
  BY DEF StopMask, SoftReset, InitBegin, ring, procVars, irqVars, hwVars, history
<1>2. /\ cur_rx_rptr' \in {cur_rx_rptr, 0} /\ entry' \in {entry, 0}
      /\ status' \subseteq status /\ ien' \subseteq ien
      /\ ctl' \in {"stopping", "down", "ring"} /\ (ctl' = "ring" => entry' = 0)
      /\ rxdma' \in {rxdma, FALSE} /\ suspended' \in {suspended, FALSE}
      /\ hwmid' \in {hwmid, NULL} /\ clean' \in {clean, FALSE}
      /\ \/ inits' = inits
         \/ inits < MaxInits /\ inits' = inits + 1
  BY DEF StopMask, SoftReset, InitBegin, procVars, irqVars, hwVars, history
<1>3. RxTypeOK'
  <2>1. inits' \in 0 .. MaxInits /\ cur_rx_rptr' \in Slots /\ entry' \in 0 .. NumRx
    BY <1>2, ZeroIsSlot, RxAssumption DEF RxInv, RxTypeOK
  <2>2. /\ rxdma' \in BOOLEAN /\ suspended' \in BOOLEAN /\ clean' \in BOOLEAN
        /\ hwmid' \in Frames \cup {NULL}
    BY <1>2 DEF RxInv, RxTypeOK
  <2>3. status' \subseteq Bits /\ ien' \subseteq Bits
    BY <1>2 DEF RxInv, RxTypeOK
  <2>4. ctl' \in {"down", "ring", "run", "stopping"}
    BY <1>2
  <2>5. QED
    BY <1>1, <2>1, <2>2, <2>3, <2>4 DEF RxInv, RxTypeOK
<1>4. ClustersExclusive'
  BY <1>1, ClustersKept DEF RxInv
<1>5. \/ rx_mbuf[0] # NULL
      \/ "RX" \notin status' \cup irq_status' /\ pc' \notin {"look", "give"}
  BY <1>1, <1>2 DEF RxInv, ChainFilled
<1>6. ChainFilled'
  BY <1>1, <1>2, <1>5, ChainKept DEF RxInv
<1>7. QED
  BY <1>3, <1>4, <1>6 DEF RxInv

\* The DMA starts at the first entry.
LEMMA HwStartStep ==
    ASSUME RxInv, HwStart
    PROVE  RxInv'
<1>1. /\ UNCHANGED <<rdesc, rx_mbuf, data, pool, stack, cur_rx_rptr, rp, pc, queued,
                     irq_status, status, hwmid, suspended, inits>>
      /\ hwptr' = 0 /\ entry' = 0 /\ last' = NULL
      /\ ctl' \in {"run", "down"} /\ rxdma' \in {rxdma, TRUE}
      /\ ien' \in {ien, Bits} /\ clean' \in {clean, TRUE, FALSE}
  BY DEF HwStart, ring, procVars
<1>2. RxTypeOK'
  <2>1. ien' \subseteq Bits
    BY <1>1 DEF RxInv, RxTypeOK
  <2>2. rxdma' \in BOOLEAN /\ clean' \in BOOLEAN
    BY <1>1 DEF RxInv, RxTypeOK
  <2>3. /\ hwptr' \in Slots \cup {NULL} /\ last' \in Frames \cup {NULL}
        /\ ctl' \in {"down", "ring", "run", "stopping"}
    BY <1>1, ZeroIsSlot
  <2>4. entry' \in 0 .. NumRx
    BY <1>1, RxAssumption
  <2>5. QED
    BY <1>1, <2>1, <2>2, <2>3, <2>4 DEF RxInv, RxTypeOK
<1>3. ClustersExclusive'
  BY <1>1, ClustersKept DEF RxInv
<1>4. ChainFilled'
  BY <1>1 DEF RxInv, ChainFilled
<1>5. QED
  BY <1>2, <1>3, <1>4 DEF RxInv

\* What chaining does to a descriptor: next of the one before entry is entry,
\* of the last one it may become the first, and nothing else changes.
LEMMA ChainedDescs ==
    ASSUME entry \in Slots, NEW d \in [Slots -> Descs]
    PROVE  /\ Chained(d) \in [Slots -> Descs]
           /\ \A i \in Slots : /\ Chained(d)[i].own = d[i].own
                               /\ Chained(d)[i].ld = d[i].ld
                               /\ Chained(d)[i].buf = d[i].buf
                               /\ Chained(d)[i].next \in {d[i].next, entry, 0}
<1>1. ASSUME NEW i \in Slots
      PROVE  /\ Chained(d)[i] \in Descs
             /\ Chained(d)[i].own = d[i].own
             /\ Chained(d)[i].ld = d[i].ld
             /\ Chained(d)[i].buf = d[i].buf
             /\ Chained(d)[i].next \in {d[i].next, entry, 0}
  <2> DEFINE n == IF i = entry - 1 THEN entry
                  ELSE IF i = entry /\ entry = NumRx - 1 THEN 0 ELSE d[i].next
  <2>1. Chained(d)[i] = [d[i] EXCEPT !.next = n]
    BY DEF Chained
  <2>2. n \in {d[i].next, entry, 0} /\ n \in Slots \cup {NULL}
    BY ZeroIsSlot DEF Descs
  <2> HIDE DEF n
  <2>3. /\ [d[i] EXCEPT !.next = n]
              = [own |-> d[i].own, ld |-> d[i].ld, buf |-> d[i].buf, next |-> n]
        /\ [d[i] EXCEPT !.next = n] \in Descs
    BY <2>2 DEF Descs
  <2>4. QED
    BY <2>1, <2>2, <2>3
<1>2. \E g : Chained(d) = [i \in Slots |-> g[i]]
  <2> DEFINE g == Chained(d)
  <2>1. Chained(d) = [i \in Slots |-> g[i]]
    BY DEF Chained
  <2>2. QED
    BY <2>1
<1>3. QED
  BY <1>1, <1>2

\* An entry is filled from the pool and chained to the one before.
LEMMA InitEntryStep ==
    ASSUME RxInv, InitEntry
    PROVE  RxInv'
<1>1. /\ ctl = "ring" /\ entry \in Slots
      /\ UNCHANGED <<data, stack, cur_rx_rptr, rp, pc, queued, irq_status, status,
                     ien, ctl, rxdma, hwptr, hwmid, suspended, last, clean, inits>>
  BY RxTypes, RxAssumption DEF InitEntry, procVars, irqVars, hwVars, history, Slots
<1>2. CASE /\ UNCHANGED <<rdesc, rx_mbuf, pool>>
           /\ \/ entry' = NumRx
              \/ rx_mbuf[entry] # NULL /\ entry' = entry + 1
  <2>1. RxTypeOK'
    <3>1. entry' \in 0 .. NumRx
      BY <1>1, <1>2, RxAssumption DEF Slots
    <3>2. QED
      BY <1>1, <1>2, <3>1 DEF RxInv, RxTypeOK
  <2>2. ClustersExclusive'
    BY <1>1, <1>2, ClustersKept DEF RxInv
  <2>3. ChainFilled'
    <3>1. entry' < NumRx => \A i \in Slots : i < entry' => rx_mbuf[i] # NULL
      BY <1>1, <1>2, RxAssumption DEF RxInv, ChainFilled, Slots
    <3>2. QED
      BY <1>1, <1>2, <3>1 DEF RxInv, ChainFilled
  <2>4. QED
    BY <2>1, <2>2, <2>3 DEF RxInv
<1>3. ASSUME NEW m \in pool,
             rx_mbuf[entry] = NULL,
             pool' = pool \ {m},
             rx_mbuf' = [rx_mbuf EXCEPT ![entry] = m],
             rdesc' = Chained([rdesc EXCEPT ![entry] =
                          [own |-> TRUE, ld |-> FALSE, buf |-> m, next |-> @.next]]),
             entry' = entry + 1
      PROVE  RxInv'
  <2> DEFINE new == [own |-> TRUE, ld |-> FALSE, buf |-> m, next |-> rdesc[entry].next]
             d == [rdesc EXCEPT ![entry] = new]
  <2>1. m \in Mbufs /\ m # NULL
    BY RxTypes
  <2>2. rdesc' = Chained(d)
    BY <1>3
  <2>3. new \in Descs
    BY <1>1, <2>1, RxTypes DEF Descs
  <2>4. /\ new.buf = m /\ new.ld = FALSE /\ new.next = rdesc[entry].next
    OBVIOUS
  <2> HIDE DEF new
  <2>5. /\ d \in [Slots -> Descs] /\ d[entry] = new
        /\ \A i \in Slots : i # entry => d[i] = rdesc[i]
    BY <1>1, <2>3, RxTypes
  <2> HIDE DEF d
  <2>6. /\ rdesc' \in [Slots -> Descs]
        /\ rdesc'[entry].buf = m /\ rdesc'[entry].ld = FALSE
        /\ \A i \in Slots : i # entry => /\ rdesc'[i].buf = rdesc[i].buf
                                         /\ rdesc'[i].ld = rdesc[i].ld
        /\ \A i \in Slots : rdesc'[i].next \in {rdesc[i].next, entry, 0}
    BY <1>1, <2>2, <2>4, <2>5, ChainedDescs
  <2>7. /\ rx_mbuf'[entry] = m
        /\ \A i \in Slots : i # entry => rx_mbuf'[i] = rx_mbuf[i]
        /\ rx_mbuf' \in [Slots -> Mbufs \cup {NULL}]
    BY <1>1, <1>3, <2>1, RxTypes
  <2>8. RxTypeOK'
    <3>1. entry' \in 0 .. NumRx
      BY <1>1, <1>3, RxAssumption DEF Slots
    <3>2. pool' \subseteq Mbufs
      BY <1>3, RxTypes
    <3>3. QED
      BY <1>1, <2>6, <2>7, <3>1, <3>2 DEF RxInv, RxTypeOK, Descs
  <2>9. ClustersExclusive'
    <3>1. m \notin stack /\ \A i \in Slots : rx_mbuf[i] # m
      BY DEF RxInv, ClustersExclusive
    <3>2. pool' \cap stack' = {} /\ \A i \in Slots : rx_mbuf'[i] \notin pool' \cup stack'
      BY <1>1, <1>3, <2>7, <3>1 DEF RxInv, ClustersExclusive
    <3>3. \A i, k \in Slots : i # k => rx_mbuf'[i] # rx_mbuf'[k] \/ rx_mbuf'[i] = NULL
      BY <2>7, <3>1 DEF RxInv, ClustersExclusive
    <3>4. ASSUME NEW c \in Mbufs
          PROVE  c \in pool' \cup stack' \/ \E i \in Slots : rx_mbuf'[i] = c
      <4>1. CASE c = m
        BY <1>1, <2>7, <4>1
      <4>2. CASE c # m /\ c \in pool \cup stack
        BY <1>1, <1>3, <4>2
      <4>3. CASE \E i \in Slots : rx_mbuf[i] = c
        <5>1. PICK i \in Slots : rx_mbuf[i] = c
          BY <4>3
        <5>2. i # entry
          BY <1>3, <5>1, RxTypes
        <5>3. QED
          BY <2>7, <5>1, <5>2
      <4>4. QED
        BY <4>1, <4>2, <4>3 DEF RxInv, ClustersExclusive
    <3>5. \A i \in Slots : rdesc'[i].buf = rx_mbuf'[i]
      BY <2>6, <2>7 DEF RxInv, ClustersExclusive
    <3>6. QED
      BY <3>2, <3>3, <3>4, <3>5 DEF ClustersExclusive
  <2>10. ChainFilled'
    <3>1. \A i \in Slots : rx_mbuf[i] # NULL => rx_mbuf'[i] # NULL
      BY <2>1, <2>7
    <3>2. \A i \in Slots : i < entry => rx_mbuf[i] # NULL
      BY <1>1, RxAssumption DEF RxInv, ChainFilled, Slots
    <3>3. rx_mbuf'[0] # NULL /\ rx_mbuf'[entry] # NULL
      BY <1>1, <2>1, <2>7, <3>1, <3>2, ZeroIsSlot DEF Slots
    <3>4. \A i \in Slots : rdesc'[i].next # NULL => rx_mbuf'[rdesc'[i].next] # NULL
      <4> SUFFICES ASSUME NEW i \in Slots, rdesc'[i].next # NULL
                   PROVE  rx_mbuf'[rdesc'[i].next] # NULL
        OBVIOUS
      <4>1. CASE rdesc'[i].next \in {entry, 0}
        BY <3>3, <4>1
      <4>2. CASE rdesc'[i].next = rdesc[i].next
        <5>1. rdesc[i].next \in Slots /\ rx_mbuf[rdesc[i].next] # NULL
          BY <4>2, RxTypes DEF RxInv, ChainFilled, Descs
        <5>2. QED
          BY <3>1, <4>2, <5>1
      <4>3. QED
        BY <2>6, <4>1, <4>2
    <3>5. \A i \in Slots : rdesc'[i].ld => rx_mbuf'[i] # NULL
      BY <2>6, <3>1, <3>3 DEF RxInv, ChainFilled
    <3>6. \A i \in Slots : i < entry' => rx_mbuf'[i] # NULL
      <4>1. \A i \in Slots : i < entry' => i < entry \/ i = entry
        BY <1>1, <1>3, RxAssumption DEF Slots
      <4>2. QED
        BY <3>1, <3>2, <3>3, <4>1
    <3>7. hwptr' # NULL /\ hwptr' # 0 => rx_mbuf'[hwptr'] # NULL
      BY <1>1, <3>1 DEF RxInv, RxTypeOK, ChainFilled
    <3>8. QED
      BY <3>3, <3>4, <3>5, <3>6, <3>7 DEF ChainFilled
  <2>11. QED
    BY <2>8, <2>9, <2>10 DEF RxInv
<1>4. QED
  BY <1>2, <1>3 DEF InitEntry

-----------------------------------------------------------------------------
(* A step that changes nothing keeps the invariant. *)
LEMMA RxStutter == RxInv /\ UNCHANGED vars => RxInv'
<1> SUFFICES ASSUME RxInv, UNCHANGED vars PROVE RxInv'
  OBVIOUS
<1>1. UNCHANGED <<rdesc, rx_mbuf, data, pool, stack, cur_rx_rptr, rp, pc, queued,
                  irq_status, status, ien, ctl, entry, rxdma, hwptr, hwmid,
                  suspended, last, clean, inits>>
  BY DEF vars, ring, procVars, irqVars, ctlVars, hwVars, history
<1>2. RxTypeOK'
  BY <1>1 DEF RxInv, RxTypeOK
<1>3. ClustersExclusive'
  BY <1>1, ClustersKept DEF RxInv
<1>4. ChainFilled'
  BY <1>1 DEF RxInv, ChainFilled
<1>5. QED
  BY <1>2, <1>3, <1>4 DEF RxInv

(* Every step of the DMA, the handler, the processing thread, the stack, stop *)
(* and init keeps the clusters exclusive, and keeps the DMA and vm14_gemac_rx *)
(* away from ring entries that init_ring left without a cluster.              *)
THEOREM RxInvariant == Spec => []RxInv
<1>1. RxInv /\ [Next]_vars => RxInv'
  <2> SUFFICES ASSUME RxInv, [Next]_vars PROVE RxInv'
    OBVIOUS
  <2>1. CASE \E f \in Frames : HwReceive(f)
    BY <2>1, HwReceiveStep
  <2>2. CASE HwTxDone \/ Isr \/ Interrupt \/ RxDone
    BY <2>2, InterruptStep
  <2>3. CASE RxDeliver \/ RxDrop \/ RxGive
    BY <2>3, RxDeliverStep, RxDropStep, RxGiveStep
  <2>4. CASE \E m \in Mbufs : StackAlloc(m) \/ StackFree(m)
    BY <2>4, StackStep
  <2>5. CASE Control
    BY <2>5, StopStep, InitEntryStep, HwStartStep DEF Control
  <2>6. CASE UNCHANGED vars
    BY <2>6, RxStutter
  <2>7. QED
    BY <2>1, <2>2, <2>3, <2>4, <2>5, <2>6 DEF Next, Receive
<1>2. QED
  BY <1>1, InitRxInv, PTL DEF Spec

(* The variables keep their types: the DMA follows descriptors of the ring,   *)
(* and what it fills and vm14_gemac_rx gives up is a cluster.                 *)
THEOREM RxTypeCorrect == Spec => []RxTypeOK
BY RxInvariant, PTL DEF RxInv

(* No cluster is ever in two places: in the pool, with the stack or in one    *)
(* entry of the ring, and the DMA writes where the ring entry says.           *)
THEOREM ClustersAreExclusive == Spec => []ClustersExclusive
BY RxInvariant, PTL DEF RxInv

-----------------------------------------------------------------------------
(* A received frame and who will look at it. *)

\* A descriptor the DMA owns carries no flag of an older frame.
EndsGivenBack == \A i \in Slots : rdesc[i].own => ~rdesc[i].ld

\* After an init that found the ring idle the interrupt is in one place: it can
\* come, it is queued or it is served; and the receive loop works at the
\* driver's pointer.
Watched ==
    clean /\ ctl = "run" =>
        /\ \/ pc = "idle" /\ ~queued /\ ien = Bits
           \/ pc = "idle" /\ queued /\ ien = {}
           \/ pc # "idle" /\ ~queued /\ ien = {}
        /\ pc \in {"look", "give"} => rp = cur_rx_rptr

LookInv == EndsGivenBack /\ (clean => ctl # "ring") /\ Watched /\ SomebodyLooks

\* The flags of the descriptors after each kind of step.
LEMMA FlagsGiven ==
    ASSUME RxInv, NEW i \in Slots, NEW o \in BOOLEAN, NEW l \in BOOLEAN,
           rdesc' = [rdesc EXCEPT ![i] = [@ EXCEPT !.own = o, !.ld = l]]
    PROVE  /\ rdesc'[i].own = o /\ rdesc'[i].ld = l
           /\ \A k \in Slots : k # i => rdesc'[k] = rdesc[k]
<1> DEFINE r == [rdesc[i] EXCEPT !.own = o, !.ld = l]
<1>1. rdesc[i] \in Descs
  BY RxTypes
<1>2. r = [own |-> o, ld |-> l, buf |-> rdesc[i].buf, next |-> rdesc[i].next]
  BY <1>1, NewFlags
<1>3. r.own = o /\ r.ld = l
  BY <1>2
<1>4. rdesc' = [rdesc EXCEPT ![i] = r]
  OBVIOUS
<1> HIDE DEF r
<1>5. QED
  BY <1>3, <1>4, RxTypes

\* Steps that change no flag and neither the interrupt nor the pointers.
LEMMA LookKept ==
    ASSUME LookInv, RxInv,
           \A i \in Slots : rdesc'[i].own = rdesc[i].own /\ rdesc'[i].ld = rdesc[i].ld,
           UNCHANGED <<cur_rx_rptr, rp, queued, irq_status, status, ien, ctl, clean>>,
           \/ pc' = pc
           \/ pc \in {"look", "give"} /\ pc' \in {"look", "give"}
    PROVE  LookInv'
<1>1. cur_rx_rptr \in Slots
  BY DEF RxInv, RxTypeOK
<1>2. EndsGivenBack'
  BY DEF LookInv, EndsGivenBack
<1>3. Watched' /\ SomebodyLooks'
  BY <1>1 DEF LookInv, Watched, SomebodyLooks
<1>4. QED
  BY <1>2, <1>3 DEF LookInv

\* The end of a frame is announced by the status bit, and somebody reads it.
LEMMA HwReceiveLooks ==
    ASSUME RxInv, LookInv, NEW f \in Frames, HwReceive(f)
    PROVE  LookInv'
<1> DEFINE ends == f \notin Long \/ hwmid = f
<1>1. UNCHANGED <<cur_rx_rptr, rp, pc, queued, irq_status, ien, ctl, clean>>
  BY DEF HwReceive, procVars, ctlVars, history
<1>2. CASE rdesc[hwptr].own
  <2>1. /\ rdesc' = [rdesc EXCEPT ![hwptr].own = FALSE, ![hwptr].ld = ends]
        /\ status' = IF ends THEN status \cup {"RX"} ELSE status
    BY <1>2 DEF HwReceive
  <2>2. hwptr \in Slots
    BY <1>2, OwnedHasCluster DEF HwReceive
  <2>3. rdesc' = [rdesc EXCEPT ![hwptr] = [@ EXCEPT !.own = FALSE, !.ld = ends]]
    BY <2>1
  <2>4. ends \in BOOLEAN
    OBVIOUS
  <2> HIDE DEF ends
  <2>5. PICK l \in BOOLEAN : l = ends
    BY <2>4
  <2>6. rdesc' = [rdesc EXCEPT ![hwptr] = [@ EXCEPT !.own = FALSE, !.ld = l]]
    BY <2>3, <2>5
  <2>7. /\ rdesc'[hwptr].own = FALSE /\ rdesc'[hwptr].ld = l
        /\ \A k \in Slots : k # hwptr => rdesc'[k] = rdesc[k]
    BY <2>2, <2>6, FlagsGiven
  <2>8. EndsGivenBack'
    BY <2>7 DEF LookInv, EndsGivenBack
  <2>9. Watched'
    BY <1>1 DEF LookInv, Watched
  <2>10. SomebodyLooks'
    <3>1. l => "RX" \in status'
      BY <2>1, <2>5
    <3>2. "RX" \in status => "RX" \in status'
      BY <2>1
    <3>3. cur_rx_rptr \in Slots
      BY DEF RxInv, RxTypeOK
    <3>4. "RX" \in Bits
      BY DEF Bits
    <3>5. CASE cur_rx_rptr = hwptr
      BY <1>1, <2>7, <3>1, <3>4, <3>5 DEF LookInv, Watched, SomebodyLooks
    <3>6. CASE cur_rx_rptr # hwptr
      BY <1>1, <2>7, <3>2, <3>3, <3>6 DEF LookInv, SomebodyLooks
    <3>7. QED
      BY <3>5, <3>6
  <2>11. QED
    BY <1>1, <2>8, <2>9, <2>10 DEF LookInv
<1>3. CASE ~rdesc[hwptr].own
  <2>1. UNCHANGED <<rdesc, status>>
    BY <1>3 DEF HwReceive
  <2>2. QED
    BY <1>1, <2>1, LookKept
<1>4. QED
  BY <1>2, <1>3

\* The handler passes the bits on, and the thread serves what it is given and
\* reads the status once more before it lifts the mask.
LEMMA InterruptLooks ==
    ASSUME RxInv, LookInv, HwTxDone \/ Isr \/ Interrupt \/ RxDone
    PROVE  LookInv'
<1>1. UNCHANGED <<rdesc, cur_rx_rptr, ctl, clean>>
  BY DEF HwTxDone, Isr, Interrupt, ProcessInterrupt, CheckStatus, EnableInterrupt,
     RxDone, ring, ctlVars, history
<1>2. EndsGivenBack'
  BY <1>1 DEF LookInv, EndsGivenBack
<1>3. cur_rx_rptr \in Slots /\ status \subseteq Bits /\ irq_status \subseteq Bits
      /\ ien \subseteq Bits
  BY DEF RxInv, RxTypeOK
<1>4. CASE HwTxDone
  BY <1>1, <1>2, <1>4 DEF HwTxDone, procVars, LookInv, Watched, SomebodyLooks
<1>5. CASE Isr
  BY <1>1, <1>2, <1>5 DEF Isr, procVars, LookInv, Watched, SomebodyLooks
<1>6. CASE ProcessInterrupt
  BY <1>1, <1>2, <1>6 DEF ProcessInterrupt, Serve, LookInv, Watched, SomebodyLooks
<1>7. CASE CheckStatus
  BY <1>1, <1>2, <1>3, <1>7 DEF CheckStatus, Serve, LookInv, Watched, SomebodyLooks
<1>8. CASE EnableInterrupt
  BY <1>1, <1>2, <1>8
     DEF EnableInterrupt, LookInv, Watched, SomebodyLooks, Bits
<1>9. CASE RxDone
  BY <1>1, <1>2, <1>3, <1>9
     DEF RxDone, irqVars, LookInv, EndsGivenBack, Watched, SomebodyLooks
<1>10. QED
  BY <1>4, <1>5, <1>6, <1>7, <1>8, <1>9 DEF Interrupt

\* The receive loop leaves a frame only to look at the next one.
LEMMA ReceiveLooks ==
    ASSUME RxInv, LookInv, RxDeliver \/ RxDrop \/ RxGive
    PROVE  LookInv'
<1>1. rp \in Slots /\ rdesc[rp] \in Descs
  BY RxTypes
<1>2. CASE RxDeliver
  <2>1. PICK m \in pool : rdesc' = [rdesc EXCEPT ![rp].buf = m]
    BY <1>2 DEF RxDeliver
  <2>2. \A i \in Slots : rdesc'[i].own = rdesc[i].own /\ rdesc'[i].ld = rdesc[i].ld
    BY <1>1, <2>1, RxTypes DEF Descs
  <2>3. QED
    BY <1>2, <2>2, LookKept DEF RxDeliver, irqVars, ctlVars
<1>3. CASE RxDrop
  BY <1>3, LookKept DEF RxDrop, ring, irqVars, ctlVars
<1>4. CASE RxGive
  <2>1. rdesc' = [rdesc EXCEPT ![rp] = [@ EXCEPT !.own = TRUE, !.ld = FALSE]]
    BY <1>4 DEF RxGive
  <2>2. /\ rdesc'[rp].own = TRUE /\ rdesc'[rp].ld = FALSE
        /\ \A k \in Slots : k # rp => rdesc'[k] = rdesc[k]
    BY <1>1, <2>1, FlagsGiven
  <2>3. EndsGivenBack'
    BY <2>2 DEF LookInv, EndsGivenBack
  <2>4. QED
    BY <1>4, <2>3
       DEF RxGive, irqVars, ctlVars, history, LookInv, Watched, SomebodyLooks
<1>5. QED
  BY <1>2, <1>3, <1>4

\* stop and init: the interface runs again only with every descriptor given to
\* the DMA, or not as a clean one.
LEMMA ControlLooks ==
    ASSUME RxInv, LookInv, Control
    PROVE  LookInv'
<1>1. CASE StopMask \/ SoftReset \/ InitBegin
  BY <1>1 DEF StopMask, SoftReset, InitBegin, ring, LookInv, EndsGivenBack, Watched,
     SomebodyLooks, history
<1>2. CASE InitEntry
  <2>1. ctl = "ring" /\ ctl' = "ring" /\ ~clean /\ ~clean'
    BY <1>2 DEF InitEntry, history, LookInv
  <2>2. EndsGivenBack'
    <3>1. CASE rdesc' = rdesc
      BY <3>1 DEF LookInv, EndsGivenBack
    <3>2. ASSUME NEW m \in pool,
                 rdesc' = Chained([rdesc EXCEPT ![entry] =
                            [own |-> TRUE, ld |-> FALSE, buf |-> m, next |-> @.next]]),
                 entry < NumRx
          PROVE  EndsGivenBack'
      <4> DEFINE d == [rdesc EXCEPT ![entry] =
                         [own |-> TRUE, ld |-> FALSE, buf |-> m, next |-> @.next]]
      <4>1. entry \in Slots /\ m \in Mbufs
        BY <3>2, RxTypes, RxAssumption DEF Slots
      <4>2. d \in [Slots -> Descs] /\ d[entry].ld = FALSE
            /\ \A i \in Slots : i # entry => d[i] = rdesc[i]
        BY <4>1, RxTypes DEF Descs
      <4>3. \A i \in Slots : d[i].own => ~d[i].ld
        BY <4>2 DEF LookInv, EndsGivenBack
      <4>4. rdesc' = Chained(d)
        BY <3>2
      <4> HIDE DEF d
      <4>5. \A i \in Slots : rdesc'[i].own = d[i].own /\ rdesc'[i].ld = d[i].ld
        BY <4>2, <4>4 DEF Chained, Descs
      <4>6. QED
        BY <4>3, <4>5 DEF EndsGivenBack
    <3>3. QED
      BY <1>2, <3>1, <3>2 DEF InitEntry
  <2>3. QED
    BY <2>1, <2>2 DEF LookInv, Watched, SomebodyLooks
<1>3. CASE HwStart
  <2>1. rdesc' = rdesc /\ ctl = "ring" /\ ~clean
    BY <1>3 DEF HwStart, ring, LookInv
  <2>2. EndsGivenBack'
    BY <2>1 DEF LookInv, EndsGivenBack
  <2>3. CASE clean' /\ ctl' = "run"
    <3>1. /\ ien' = Bits /\ pc = "idle" /\ ~queued
          /\ \A i \in Slots : rdesc[i].own
          /\ UNCHANGED <<cur_rx_rptr, pc, rp, queued, status, irq_status>>
      BY <1>3, <2>1, <2>3 DEF HwStart, procVars
    <3>2. ~rdesc[cur_rx_rptr].ld
      BY <3>1 DEF LookInv, EndsGivenBack, RxInv, RxTypeOK
    <3>3. QED
      BY <2>1, <2>2, <2>3, <3>1, <3>2 DEF LookInv, Watched, SomebodyLooks
  <2>4. CASE ~(clean' /\ ctl' = "run")
    <3>1. clean' => ctl' # "ring"
      BY <1>3 DEF HwStart
    <3>2. QED
      BY <2>2, <2>4, <3>1 DEF LookInv, Watched, SomebodyLooks
  <2>5. QED
    BY <2>3, <2>4
<1>4. QED
  BY <1>1, <1>2, <1>3 DEF Control

(* A received frame is never left without somebody who will look at it, for   *)
(* every ring size: the status is acknowledged by the handler and by the      *)
(* thread, and the mask lifted, in an order that loses no frame.              *)
THEOREM FramesAreLookedAt == Spec => []SomebodyLooks
<1>1. Init => LookInv
  BY DEF Init, LookInv, EndsGivenBack, Watched, SomebodyLooks
<1>2. RxInv /\ LookInv /\ [Next]_vars => LookInv'
  <2> SUFFICES ASSUME RxInv, LookInv, [Next]_vars PROVE LookInv'
    OBVIOUS
  <2>1. CASE \E f \in Frames : HwReceive(f)
    BY <2>1, HwReceiveLooks
  <2>2. CASE HwTxDone \/ Isr \/ Interrupt \/ RxDone
    BY <2>2, InterruptLooks
  <2>3. CASE RxDeliver \/ RxDrop \/ RxGive
    BY <2>3, ReceiveLooks
  <2>4. CASE \E m \in Mbufs : StackAlloc(m) \/ StackFree(m)
    BY <2>4, LookKept DEF StackAlloc, StackFree, procVars, irqVars, ctlVars, history
  <2>5. CASE Control
    BY <2>5, ControlLooks
  <2>6. CASE UNCHANGED vars
    BY <2>6, LookKept DEF vars, ring, procVars, irqVars, ctlVars, history
  <2>7. QED
    BY <2>1, <2>2, <2>3, <2>4, <2>5, <2>6 DEF Next, Receive
<1>3. LookInv => SomebodyLooks
  BY DEF LookInv
<1>4. QED
  BY <1>1, <1>2, <1>3, RxInvariant, PTL DEF Spec

-----------------------------------------------------------------------------
(* Frames go up in the order they came. *)

\* The descriptor k behind c.
Place(c, k) == (c + k) % NumRx

LEMMA RingSize == NumRx \in Nat /\ NumRx > 1
BY RxAssumption

LEMMA PlaceIs ==
    ASSUME NEW c \in Slots, NEW k \in 0 .. NumRx
    PROVE  /\ Place(c, k) = IF c + k < NumRx THEN c + k ELSE c + k - NumRx
           /\ Place(c, k) \in Slots
BY RingSize DEF Place, Slots

LEMMA PlaceRound ==
    ASSUME NEW c \in Slots
    PROVE  Place(c, 0) = c /\ Place(c, NumRx) = c
BY PlaceIs, RingSize DEF Slots

LEMMA PlaceNext ==
    ASSUME NEW c \in Slots, NEW k \in 0 .. NumRx - 1
    PROVE  /\ Next1(Place(c, k)) = Place(c, k + 1)
           /\ Place(Next1(c), k) = Place(c, k + 1)
<1>1. Place(c, k) = (IF c + k < NumRx THEN c + k ELSE c + k - NumRx) /\ Place(c, k) \in Slots
  BY PlaceIs, RingSize
<1>2. Place(c, k + 1) = IF c + k + 1 < NumRx THEN c + k + 1 ELSE c + k + 1 - NumRx
  <2>1. k + 1 \in 0 .. NumRx /\ c + (k + 1) = c + k + 1 /\ c + (k + 1) - NumRx = c + k + 1 - NumRx
    BY RingSize DEF Slots
  <2>2. Place(c, k + 1) = IF c + (k + 1) < NumRx THEN c + (k + 1) ELSE c + (k + 1) - NumRx
    BY <2>1, PlaceIs
  <2>3. QED
    BY ONLY <2>1, <2>2
<1>3. \A i \in Slots : Next1(i) = (IF i + 1 < NumRx THEN i + 1 ELSE 0) /\ Next1(i) \in Slots
  BY RingSize DEF Next1, Slots
<1>4. Next1(Place(c, k)) = Place(c, k + 1)
  BY <1>1, <1>2, <1>3, RingSize DEF Slots
<1>5. Place(Next1(c), k) = Place(c, k + 1)
  <2>1. Place(Next1(c), k) = IF Next1(c) + k < NumRx THEN Next1(c) + k
                             ELSE Next1(c) + k - NumRx
    BY <1>3, PlaceIs, RingSize
  <2>2. QED
    BY <2>1, <1>2, <1>3, RingSize DEF Slots
<1>6. QED
  BY <1>4, <1>5

LEMMA PlaceOneToOne ==
    ASSUME NEW c \in Slots, NEW j \in 0 .. NumRx - 1, NEW k \in 0 .. NumRx - 1,
           Place(c, j) = Place(c, k)
    PROVE  j = k
<1>1. Place(c, j) = IF c + j < NumRx THEN c + j ELSE c + j - NumRx
  BY RingSize, PlaceIs
<1>2. Place(c, k) = IF c + k < NumRx THEN c + k ELSE c + k - NumRx
  BY RingSize, PlaceIs
<1>3. (IF c + j < NumRx THEN c + j ELSE c + j - NumRx)
        = (IF c + k < NumRx THEN c + k ELSE c + k - NumRx)
  BY <1>1, <1>2
<1>4. c \in 0 .. NumRx - 1
  BY DEF Slots
<1>5. QED
  BY <1>3, <1>4, RingSize

\* From c on, n descriptors have been filled; the DMA owns the rest.
Filled(d, c, n) == \A k \in 0 .. NumRx - 1 : d[Place(c, k)].own <=> n <= k

\* init_ring chains an entry when it fills the one behind it, whatever it left
\* empty before.
ChainOrder ==
    \A i \in Slots :
        /\ i < NumRx - 1 /\ rx_mbuf[i + 1] # NULL => rdesc[i].next = i + 1
        /\ i = NumRx - 1 /\ rx_mbuf[i] # NULL => rdesc[i].next = 0

\* After an init that found the ring idle, the DMA follows the receive loop round
\* the whole ring: it reads the first of the descriptors it owns.
CleanRing ==
    clean =>
        /\ ctl # "ring"
        /\ \A i \in Slots : rx_mbuf[i] # NULL
        /\ pc \in {"look", "give"} => rp = cur_rx_rptr
        /\ pc = "give" => ~rdesc[cur_rx_rptr].own
        /\ \E n \in 0 .. NumRx :
              hwptr = Place(cur_rx_rptr, n) /\ Filled(rdesc, cur_rx_rptr, n)

RingInv == ChainOrder /\ CleanRing

LEMMA NextOf ==
    ASSUME ChainOrder, NEW i \in Slots, \A k \in Slots : rx_mbuf[k] # NULL
    PROVE  rdesc[i].next = Next1(i)
<1>1. CASE i < NumRx - 1
  <2>1. i + 1 \in Slots /\ Next1(i) = i + 1
    BY <1>1, RingSize DEF Slots, Next1
  <2>2. QED
    BY <1>1, <2>1 DEF ChainOrder
<1>2. CASE ~(i < NumRx - 1)
  <2>1. i = NumRx - 1 /\ Next1(i) = 0
    BY <1>2, RingSize DEF Slots, Next1
  <2>2. QED
    BY <2>1 DEF ChainOrder
<1>3. QED
  BY <1>1, <1>2

LEMMA FlagsKeepNext ==
    ASSUME NEW d \in Descs, NEW o \in BOOLEAN, NEW l \in BOOLEAN
    PROVE  [d EXCEPT !.own = o, !.ld = l].next = d.next
<1> DEFINE r == [d EXCEPT !.own = o, !.ld = l]
<1>1. r = [own |-> o, ld |-> l, buf |-> d.buf, next |-> d.next]
  BY NewFlags
<1> HIDE DEF r
<1>2. r.next = d.next
  BY <1>1
<1>3. QED
  BY <1>2 DEF r

\* Steps that give no descriptor to the DMA or take it back.
LEMMA RingKept ==
    ASSUME RxInv, RingInv,
           \A i \in Slots : /\ rdesc'[i].own = rdesc[i].own
                            /\ rdesc'[i].next = rdesc[i].next
                            /\ rx_mbuf'[i] = NULL <=> rx_mbuf[i] = NULL,
           clean' => /\ clean /\ ctl' # "ring"
                     /\ cur_rx_rptr' = cur_rx_rptr /\ hwptr' = hwptr
                     /\ pc' \in {"look", "give"} => rp' = cur_rx_rptr
                     /\ pc' = "give" => ~rdesc[cur_rx_rptr].own
    PROVE  RingInv'
<1>1. ChainOrder'
  <2>1. \A i \in Slots : i < NumRx - 1 => i + 1 \in Slots
    BY RingSize DEF Slots
  <2>2. QED
    BY <2>1 DEF RingInv, ChainOrder
<1>2. CleanRing'
  <2> SUFFICES ASSUME clean' PROVE CleanRing'
    BY DEF CleanRing
  <2>1. cur_rx_rptr \in Slots
    BY DEF RxInv, RxTypeOK
  <2>2. PICK n \in 0 .. NumRx :
          hwptr = Place(cur_rx_rptr, n) /\ Filled(rdesc, cur_rx_rptr, n)
    BY DEF RingInv, CleanRing
  <2>3. Filled(rdesc', cur_rx_rptr', n)
    <3>1. \A k \in 0 .. NumRx - 1 : Place(cur_rx_rptr, k) \in Slots
      BY <2>1, PlaceIs, RingSize
    <3>2. QED
      BY <3>1, <2>2 DEF Filled
  <2>4. hwptr' = Place(cur_rx_rptr', n)
    BY <2>2
  <2>5. QED
    BY <2>1, <2>3, <2>4 DEF RingInv, CleanRing
<1>3. QED
  BY <1>1, <1>2 DEF RingInv

\* The DMA takes the first descriptor it owns and goes on along the chain.
LEMMA HwReceiveRing ==
    ASSUME RxInv, RingInv, NEW f \in Frames, HwReceive(f)
    PROVE  RingInv'
<1> DEFINE ends == f \notin Long \/ hwmid = f
<1>1. UNCHANGED <<cur_rx_rptr, rp, pc, ctl, clean, rx_mbuf>>
  BY DEF HwReceive, procVars, ctlVars, history
<1>2. CASE ~rdesc[hwptr].own
  <2>1. rdesc' = rdesc /\ hwptr' = hwptr
    BY <1>2 DEF HwReceive
  <2>2. clean' => /\ clean /\ ctl' # "ring"
                  /\ pc' \in {"look", "give"} => rp' = cur_rx_rptr
                  /\ pc' = "give" => ~rdesc[cur_rx_rptr].own
    BY <1>1 DEF RingInv, CleanRing
  <2>3. QED
    BY <1>1, <2>1, <2>2, RingKept
<1>3. CASE rdesc[hwptr].own
  <2>1. hwptr \in Slots /\ rdesc[hwptr] \in Descs
    BY <1>3, OwnedHasCluster DEF HwReceive
  <2>2. /\ \A k \in Slots : k # hwptr => rdesc'[k] = rdesc[k]
        /\ ~rdesc'[hwptr].own /\ rdesc'[hwptr].next = rdesc[hwptr].next
        /\ hwptr' = rdesc[hwptr].next
    <3>1. PICK l \in BOOLEAN : l = ends
      OBVIOUS
    <3>2. /\ rdesc' = [rdesc EXCEPT ![hwptr] = [@ EXCEPT !.own = FALSE, !.ld = l]]
          /\ hwptr' = rdesc[hwptr].next
      BY <1>3, <3>1 DEF HwReceive
    <3> DEFINE r == [rdesc[hwptr] EXCEPT !.own = FALSE, !.ld = l]
    <3>3. r.next = rdesc[hwptr].next
      BY <2>1, FlagsKeepNext
    <3>4. rdesc' = [rdesc EXCEPT ![hwptr] = r]
      BY <3>2
    <3>5. (\A k \in Slots : k # hwptr => rdesc'[k] = rdesc[k]) /\ ~rdesc'[hwptr].own
      BY <2>1, <3>2, FlagsGiven
    <3> HIDE DEF r
    <3>6. rdesc'[hwptr].next = rdesc[hwptr].next
      BY <2>1, <3>3, <3>4, RxTypes
    <3>7. QED
      BY <3>2, <3>5, <3>6
  <2>3. ChainOrder'
    BY <1>1, <2>2 DEF RingInv, ChainOrder
  <2>4. CleanRing'
    <3> SUFFICES ASSUME clean' PROVE CleanRing'
      BY DEF CleanRing
    <3>1. cur_rx_rptr \in Slots /\ clean
      BY <1>1 DEF RxInv, RxTypeOK
    <3>2. PICK n \in 0 .. NumRx :
            hwptr = Place(cur_rx_rptr, n) /\ Filled(rdesc, cur_rx_rptr, n)
      BY <3>1 DEF RingInv, CleanRing
    <3>3. n \in 0 .. NumRx - 1 /\ n + 1 \in 0 .. NumRx
      <4>1. CASE n = NumRx
        <5>1. hwptr = Place(cur_rx_rptr, 0) /\ 0 \in 0 .. NumRx - 1 /\ ~(n <= 0)
          BY <4>1, <3>1, <3>2, PlaceRound, RingSize
        <5>2. QED
          BY <5>1, <1>3, <3>2 DEF Filled
      <4>2. QED
        BY <4>1, RingSize
    <3>4. hwptr' = Place(cur_rx_rptr', n + 1)
      <4>1. rdesc[hwptr].next = Next1(hwptr)
        BY <2>1, <3>1, NextOf DEF RingInv, CleanRing
      <4>2. QED
        BY <1>1, <2>2, <3>1, <3>2, <3>3, <4>1, PlaceNext
    <3>5. Filled(rdesc', cur_rx_rptr', n + 1)
      <4> SUFFICES ASSUME NEW k \in 0 .. NumRx - 1
                   PROVE  rdesc'[Place(cur_rx_rptr, k)].own <=> n + 1 <= k
        BY <1>1 DEF Filled
      <4>1. Place(cur_rx_rptr, k) \in Slots
        BY <3>1, PlaceIs, RingSize
      <4>2. CASE k = n
        BY <2>2, <3>2, <4>2
      <4>3. CASE k # n
        <5>1. Place(cur_rx_rptr, k) # hwptr
          BY <3>1, <3>2, <3>3, <4>3, PlaceOneToOne
        <5>2. rdesc'[Place(cur_rx_rptr, k)].own <=> n <= k
          BY <2>2, <3>2, <4>1, <5>1 DEF Filled
        <5>3. QED
          BY <5>2, <4>3, <3>3
      <4>4. QED
        BY <4>2, <4>3
    <3>6. pc' = "give" => ~rdesc'[cur_rx_rptr'].own
      BY <1>1, <2>2, <3>1 DEF RingInv, CleanRing
    <3>7. QED
      BY <1>1, <3>1, <3>3, <3>4, <3>5, <3>6 DEF RingInv, CleanRing
  <2>5. QED
    BY <2>3, <2>4 DEF RingInv
<1>4. QED
  BY <1>2, <1>3

\* The descriptor given back is the last one behind the next.
LEMMA FilledMoved ==
    ASSUME NEW d, NEW e, NEW c \in Slots, NEW n \in 1 .. NumRx, Filled(d, c, n),
           e[c].own, \A k \in Slots : k # c => e[k] = d[k]
    PROVE  Filled(e, Next1(c), n - 1)
<1> SUFFICES ASSUME NEW k \in 0 .. NumRx - 1
             PROVE  e[Place(Next1(c), k)].own <=> n - 1 <= k
  BY DEF Filled
<1>1. Place(Next1(c), k) = Place(c, k + 1)
  BY PlaceNext
<1>2. CASE k = NumRx - 1
  <2>1. Place(c, k + 1) = c
    BY <1>2, PlaceRound, RingSize
  <2>2. QED
    BY <2>1, <1>1, <1>2, RingSize
<1>3. CASE k # NumRx - 1
  <2>1. k + 1 \in 0 .. NumRx - 1 /\ 0 \in 0 .. NumRx - 1 /\ k + 1 # 0 /\ k + 1 \in 0 .. NumRx
    BY <1>3, RingSize
  <2>2. Place(c, k + 1) # c /\ Place(c, k + 1) \in Slots
    BY <2>1, PlaceOneToOne, PlaceRound, PlaceIs
  <2>3. e[Place(c, k + 1)].own <=> n <= k + 1
    BY <2>1, <2>2 DEF Filled
  <2>4. n <= k + 1 <=> n - 1 <= k
    OBVIOUS
  <2>5. QED
    BY <2>3, <2>4, <1>1
<1>4. QED
  BY <1>2, <1>3

\* The receive loop gives its descriptor back as the last one the DMA owns.
LEMMA RxGiveRing ==
    ASSUME RxInv, RingInv, RxGive
    PROVE  RingInv'
<1>1. /\ pc = "give" /\ pc' = "look"
      /\ rdesc' = [rdesc EXCEPT ![rp] = [@ EXCEPT !.own = TRUE, !.ld = FALSE]]
      /\ rp' = Next1(rp) /\ cur_rx_rptr' = Next1(rp)
      /\ UNCHANGED <<rx_mbuf, ctl, hwptr, clean>>
  BY DEF RxGive, ctlVars, hwVars, history
<1>2. rp \in Slots /\ rdesc[rp] \in Descs
  BY RxTypes
<1>3. /\ \A k \in Slots : k # rp => rdesc'[k] = rdesc[k]
      /\ rdesc'[rp].own /\ rdesc'[rp].next = rdesc[rp].next
  <2> DEFINE r == [rdesc[rp] EXCEPT !.own = TRUE, !.ld = FALSE]
  <2>1. r.next = rdesc[rp].next
    BY <1>2, FlagsKeepNext
  <2>2. rdesc' = [rdesc EXCEPT ![rp] = r]
    BY <1>1
  <2>3. (\A k \in Slots : k # rp => rdesc'[k] = rdesc[k]) /\ rdesc'[rp].own
    BY <1>1, <1>2, FlagsGiven
  <2> HIDE DEF r
  <2>4. rdesc'[rp].next = rdesc[rp].next
    BY <1>2, <2>1, <2>2, RxTypes
  <2>5. QED
    BY <2>3, <2>4
<1>4. ChainOrder'
  BY <1>1, <1>3 DEF RingInv, ChainOrder
<1>5. CleanRing'
  <2> SUFFICES ASSUME clean' PROVE CleanRing'
    BY DEF CleanRing
  <2>1. clean /\ rp = cur_rx_rptr /\ ~rdesc[rp].own
    BY <1>1 DEF RingInv, CleanRing
  <2>2. PICK n \in 0 .. NumRx : hwptr = Place(rp, n) /\ Filled(rdesc, rp, n)
    BY <2>1 DEF RingInv, CleanRing
  <2>3. n - 1 \in 0 .. NumRx - 1 /\ n - 1 \in 0 .. NumRx
    <3>1. Place(rp, 0) = rp /\ 0 \in 0 .. NumRx - 1
      BY <1>2, PlaceRound, RingSize
    <3>2. ~(n <= 0)
      BY <2>1, <2>2, <3>1 DEF Filled
    <3>3. QED
      BY <3>2, RingSize
  <2>4. hwptr' = Place(cur_rx_rptr', n - 1)
    <3>1. Place(Next1(rp), n - 1) = Place(rp, (n - 1) + 1) /\ (n - 1) + 1 = n
      BY <1>2, <2>3, PlaceNext
    <3>2. QED
      BY <1>1, <2>2, <3>1
  <2>5. Filled(rdesc', cur_rx_rptr', n - 1)
    <3>1. n \in 1 .. NumRx
      BY <2>3
    <3>2. QED
      BY <1>1, <1>2, <1>3, <2>2, <3>1, FilledMoved
  <2>6. QED
    BY <1>1, <2>1, <2>3, <2>4, <2>5 DEF RingInv, CleanRing
<1>6. QED
  BY <1>4, <1>5 DEF RingInv

\* init_ring keeps the order of the chain.
LEMMA InitEntryRing ==
    ASSUME RxInv, RingInv, InitEntry
    PROVE  RingInv'
<1>1. ctl = "ring" /\ entry \in Slots /\ clean' = clean
  BY RxTypes, RxAssumption DEF InitEntry, history, Slots
<1>2. ~clean /\ CleanRing'
  BY <1>1 DEF RingInv, CleanRing
<1>3. CASE UNCHANGED <<rdesc, rx_mbuf>>
  BY <1>2, <1>3 DEF RingInv, ChainOrder
<1>4. ASSUME NEW m \in pool,
             rx_mbuf' = [rx_mbuf EXCEPT ![entry] = m],
             rdesc' = Chained([rdesc EXCEPT ![entry] =
                          [own |-> TRUE, ld |-> FALSE, buf |-> m, next |-> @.next]])
      PROVE  RingInv'
  <2> DEFINE new == [own |-> TRUE, ld |-> FALSE, buf |-> m, next |-> rdesc[entry].next]
             d == [rdesc EXCEPT ![entry] = new]
  <2>1. rdesc' = Chained(d)
    BY <1>4
  <2>2. \A i \in Slots : d[i] \in Descs /\ d[i].next = rdesc[i].next
    <3>1. m \in Mbufs
      BY RxTypes
    <3>2. new \in Descs /\ new.next = rdesc[entry].next
      BY <1>1, <3>1, RxTypes DEF Descs
    <3> HIDE DEF new
    <3>3. QED
      BY <1>1, <3>2, RxTypes
  <2> HIDE DEF d
  <2>3. ASSUME NEW i \in Slots
        PROVE  rdesc'[i].next = IF i = entry - 1 THEN entry
                                ELSE IF i = entry /\ entry = NumRx - 1 THEN 0
                                ELSE rdesc[i].next
    <3> DEFINE n == IF i = entry - 1 THEN entry
                    ELSE IF i = entry /\ entry = NumRx - 1 THEN 0 ELSE d[i].next
    <3>1. rdesc'[i] = [d[i] EXCEPT !.next = n]
      BY <2>1 DEF Chained
    <3> HIDE DEF n
    <3>2. rdesc'[i].next = n
      BY <2>2, <3>1 DEF Descs
    <3>3. QED
      BY <2>2, <3>2 DEF n
  <2>4. \A i \in Slots : i # entry => rx_mbuf'[i] = rx_mbuf[i]
    BY <1>1, <1>4, RxTypes
  <2>5. ASSUME NEW i \in Slots
        PROVE  /\ i < NumRx - 1 /\ rx_mbuf'[i + 1] # NULL => rdesc'[i].next = i + 1
               /\ i = NumRx - 1 /\ rx_mbuf'[i] # NULL => rdesc'[i].next = 0
    <3>1. i \in 0 .. NumRx - 1 /\ entry \in 0 .. NumRx - 1
      BY <1>1 DEF Slots
    <3>2. ASSUME i < NumRx - 1, rx_mbuf'[i + 1] # NULL PROVE rdesc'[i].next = i + 1
      <4>1. i + 1 \in Slots
        BY <3>1, <3>2, RingSize DEF Slots
      <4>2. CASE i + 1 = entry
        <5>1. i = entry - 1
          BY <3>1, <4>2
        <5>2. QED
          BY <5>1, <4>2, <2>3
      <4>3. CASE i + 1 # entry
        <5>1. i # entry - 1 /\ ~(i = entry /\ entry = NumRx - 1)
          BY <3>1, <3>2, <4>3
        <5>2. rdesc[i].next = i + 1
          BY <2>4, <3>2, <4>1, <4>3 DEF RingInv, ChainOrder
        <5>3. QED
          BY <5>1, <5>2, <2>3
      <4>4. QED
        BY <4>2, <4>3
    <3>3. ASSUME i = NumRx - 1, rx_mbuf'[i] # NULL PROVE rdesc'[i].next = 0
      <4>1. i # entry - 1
        BY <3>1, <3>3, RingSize
      <4>2. CASE i = entry
        BY <4>1, <4>2, <3>3, <2>3
      <4>3. CASE i # entry
        <5>1. rdesc[i].next = 0
          BY <2>4, <3>3, <4>3 DEF RingInv, ChainOrder
        <5>2. QED
          BY <5>1, <4>1, <4>3, <2>3
      <4>4. QED
        BY <4>2, <4>3
    <3>4. QED
      BY <3>2, <3>3
  <2>6. QED
    BY <1>2, <2>5 DEF RingInv, ChainOrder
<1>5. QED
  BY <1>3, <1>4 DEF InitEntry

\* An init that found the ring idle starts the DMA at the driver's pointer.
LEMMA HwStartRing ==
    ASSUME RxInv, RingInv, HwStart
    PROVE  RingInv'
<1>0. /\ UNCHANGED <<rdesc, rx_mbuf, cur_rx_rptr, rp, pc>> /\ hwptr' = 0
      /\ ctl = "ring"
  BY DEF HwStart, ring, procVars
<1>1. /\ ctl' # "ring"
      /\ clean' => clean \/ (/\ cur_rx_rptr = 0 /\ pc = "idle"
                             /\ \A i \in Slots : rdesc[i].own /\ rx_mbuf[i] # NULL)
  <2>1. CASE /\ ctl' = "run"
             /\ clean' = (/\ cur_rx_rptr = 0 /\ pc = "idle" /\ ~queued
                          /\ \A i \in Slots : rdesc[i].own /\ rx_mbuf[i] # NULL)
    BY <2>1
  <2>2. CASE ctl' = "down" /\ clean' = clean
    BY <2>2
  <2>3. QED
    BY <2>1, <2>2 DEF HwStart
<1>2. ChainOrder'
  BY <1>0 DEF RingInv, ChainOrder
<1>3. CleanRing'
  <2> SUFFICES ASSUME clean' PROVE CleanRing'
    BY DEF CleanRing
  <2>1. /\ cur_rx_rptr = 0 /\ pc = "idle"
        /\ \A i \in Slots : rdesc[i].own /\ rx_mbuf[i] # NULL
    BY <1>0, <1>1 DEF RingInv, CleanRing
  <2>2. 0 \in 0 .. NumRx /\ hwptr' = Place(cur_rx_rptr', 0)
    BY <1>0, <2>1, ZeroIsSlot, PlaceRound, RingSize
  <2>3. Filled(rdesc', cur_rx_rptr', 0)
    <3>1. \A k \in 0 .. NumRx - 1 : Place(0, k) \in Slots /\ 0 <= k
      BY ZeroIsSlot, PlaceIs, RingSize
    <3>2. QED
      BY <3>1, <1>0, <2>1 DEF Filled
  <2>4. QED
    BY <1>0, <1>1, <2>1, <2>2, <2>3 DEF CleanRing
<1>4. QED
  BY <1>2, <1>3 DEF RingInv

LEMMA RingInvariant == Spec => []RingInv
<1>1. Init => RingInv
  <2>1. \A i \in Slots : i < NumRx - 1 => i + 1 \in Slots
    BY RingSize DEF Slots
  <2>2. Init => \A i \in Slots : rx_mbuf[i] = NULL
    BY DEF Init
  <2>3. Init => ChainOrder
    BY <2>1, <2>2 DEF ChainOrder
  <2>4. Init => CleanRing
    BY DEF Init, CleanRing
  <2>5. QED
    BY <2>3, <2>4 DEF RingInv
<1>2. RxInv /\ RingInv /\ [Next]_vars => RingInv'
  <2> SUFFICES ASSUME RxInv, RingInv, [Next]_vars PROVE RingInv'
    OBVIOUS
  <2>1. CASE \E f \in Frames : HwReceive(f)
    BY <2>1, HwReceiveRing
  <2>2. CASE HwTxDone \/ Isr \/ Interrupt \/ RxDone
    <3>1. UNCHANGED <<rdesc, rx_mbuf, cur_rx_rptr, ctl, clean, hwptr>>
      BY <2>2 DEF HwTxDone, Isr, Interrupt, ProcessInterrupt, CheckStatus,
         EnableInterrupt, RxDone, ring, ctlVars, hwVars, history
    <3>2. /\ pc' # "give" \/ (pc' = pc /\ rp' = rp)
          /\ pc' = "look" => rp' = cur_rx_rptr \/ (pc = "look" /\ rp' = rp)
      BY <2>2 DEF HwTxDone, Isr, Interrupt, ProcessInterrupt, CheckStatus,
         EnableInterrupt, RxDone, Serve, procVars
    <3>3. clean' => /\ clean /\ ctl' # "ring"
                    /\ pc' \in {"look", "give"} => rp' = cur_rx_rptr
                    /\ pc' = "give" => ~rdesc[cur_rx_rptr].own
      BY <3>1, <3>2 DEF RingInv, CleanRing
    <3>4. QED
      BY <3>1, <3>3, RingKept
  <2>3. CASE RxDeliver
    <3>1. PICK m \in pool : /\ rdesc' = [rdesc EXCEPT ![rp].buf = m]
                            /\ rx_mbuf' = [rx_mbuf EXCEPT ![rp] = m]
      BY <2>3 DEF RxDeliver
    <3>2. /\ pc = "look" /\ pc' = "give" /\ ~rdesc[rp].own
          /\ UNCHANGED <<cur_rx_rptr, rp, ctl, hwptr, clean>>
      BY <2>3 DEF RxDeliver, ctlVars, hwVars
    <3>3. rp \in Slots /\ rx_mbuf[rp] # NULL /\ m # NULL
      BY <2>3, RxTypes DEF RxDeliver, RxInv, ChainFilled
    <3>4. \A i \in Slots : /\ rdesc'[i].own = rdesc[i].own
                           /\ rdesc'[i].next = rdesc[i].next
                           /\ rx_mbuf'[i] = NULL <=> rx_mbuf[i] = NULL
      BY <3>1, <3>3, RxTypes DEF Descs
    <3>5. QED
      BY <3>2, <3>4, RingKept DEF RingInv, CleanRing
  <2>4. CASE RxDrop
    <3>1. /\ pc = "look" /\ pc' = "give" /\ ~rdesc[rp].own
          /\ UNCHANGED <<rdesc, rx_mbuf, cur_rx_rptr, rp, ctl, hwptr, clean>>
      BY <2>4 DEF RxDrop, ring, ctlVars, hwVars
    <3>2. QED
      BY <3>1, RingKept DEF RingInv, CleanRing
  <2>5. CASE RxGive
    BY <2>5, RxGiveRing
  <2>6. CASE \E m \in Mbufs : StackAlloc(m) \/ StackFree(m)
    <3>1. UNCHANGED <<rdesc, rx_mbuf, cur_rx_rptr, rp, pc, ctl, hwptr, clean>>
      BY <2>6 DEF StackAlloc, StackFree, procVars, ctlVars, hwVars, history
    <3>2. QED
      BY <3>1, RingKept DEF RingInv, CleanRing
  <2>7. CASE StopMask \/ SoftReset \/ InitBegin
    <3>1. /\ UNCHANGED <<rdesc, rx_mbuf, rp, pc, hwptr>>
          /\ clean' => clean /\ ctl' # "ring" /\ cur_rx_rptr' = cur_rx_rptr
      BY <2>7 DEF StopMask, SoftReset, InitBegin, ring, procVars, hwVars, history
    <3>2. QED
      BY <3>1, RingKept DEF RingInv, CleanRing
  <2>8. CASE InitEntry
    BY <2>8, InitEntryRing
  <2>9. CASE HwStart
    BY <2>9, HwStartRing
  <2>10. CASE UNCHANGED vars
    <3>1. UNCHANGED <<rdesc, rx_mbuf, cur_rx_rptr, rp, pc, ctl, hwptr, clean>>
      BY <2>10 DEF vars, ring, procVars, ctlVars, hwVars, history
    <3>2. QED
      BY <3>1, RingKept DEF RingInv, CleanRing
  <2>11. QED
    BY <2>1, <2>2, <2>3, <2>4, <2>5, <2>6, <2>7, <2>8, <2>9, <2>10
       DEF Next, Receive, Control
<1>3. QED
  BY <1>1, <1>2, RxInvariant, PTL DEF Spec

-----------------------------------------------------------------------------
(* The received frames as a function of the ring. *)

\* The frames in the clusters from the entry s behind c on, and the descriptors
\* there that end one and that the DMA has filled.
FramesFrom(mb, t, c, s) == [k \in 1 .. NumRx |-> t[mb[Place(c, s + k - 1)]]]
Ends(d, c, s) == {k \in 1 .. NumRx - s : /\ d[Place(c, s + k - 1)].ld
                                         /\ \A j \in 1 .. k : ~d[Place(c, s + j - 1)].own}

ReceivedOf(d, mb, t, c, s) == Selected(FramesFrom(mb, t, c, s), Ends(d, c, s))

\* The receive loop is between giving a frame up and giving its descriptor back.
Skip == IF pc = "give" THEN 1 ELSE 0

LEMMA SkipIs == Skip \in {0, 1} /\ Skip' \in {0, 1} /\ Skip \in Nat /\ Skip' \in Nat
BY DEF Skip

LEMMA ReceivedIs ==
    ASSUME RxInv, RxInv'
    PROVE  /\ Received = ReceivedOf(rdesc, rx_mbuf, data, cur_rx_rptr, Skip)
           /\ Received' = ReceivedOf(rdesc', rx_mbuf', data', cur_rx_rptr', Skip')
<1>1. ASSUME NEW d, NEW mb, NEW t, NEW c, NEW s \in {0, 1}
      PROVE  Selected([k \in Ends(d, c, s) |-> t[mb[Place(c, s + k - 1)]]], Ends(d, c, s))
                = ReceivedOf(d, mb, t, c, s)
  <2> DEFINE v == [k \in Ends(d, c, s) |-> t[mb[Place(c, s + k - 1)]]]
             w == FramesFrom(mb, t, c, s)
  <2>1. Ends(d, c, s) \in SUBSET (1 .. NumRx)
    BY RingSize DEF Ends
  <2>2. \A k \in Ends(d, c, s) : w[k] = v[k]
    BY <2>1 DEF FramesFrom
  <2> HIDE DEF v, w
  <2>3. Selected(w, Ends(d, c, s)) = Selected(v, Ends(d, c, s))
    BY <2>1, <2>2, RingSize, SelectedSame
  <2>4. QED
    BY <2>3 DEF v, w, ReceivedOf
<1> DEFINE EndsAt(d, c, s) ==
             {k \in 1 .. NumRx - s :
                /\ d[(c + s + k - 1) % NumRx].ld
                /\ \A j \in 1 .. k : ~d[(c + s + j - 1) % NumRx].own}
           At(d, mb, t, c, s) ==
             Selected([k \in EndsAt(d, c, s) |-> t[mb[(c + s + k - 1) % NumRx]]],
                      EndsAt(d, c, s))
<1>2. ASSUME NEW d, NEW mb, NEW t, NEW c \in Slots, NEW s \in {0, 1}
      PROVE  At(d, mb, t, c, s) = ReceivedOf(d, mb, t, c, s)
  <2>1. \A k \in Nat : Place(c, s + k - 1) = (c + s + k - 1) % NumRx
    <3>1. \A k \in Nat : c + (s + k - 1) = c + s + k - 1
      BY DEF Slots
    <3>2. QED
      BY <3>1 DEF Place
  <2>2. EndsAt(d, c, s) = Ends(d, c, s)
    <3>1. ASSUME NEW k \in 1 .. NumRx - s
          PROVE  /\ d[Place(c, s + k - 1)] = d[(c + s + k - 1) % NumRx]
                 /\ \A j \in 1 .. k : d[Place(c, s + j - 1)] = d[(c + s + j - 1) % NumRx]
      BY <2>1
    <3>2. QED
      BY <3>1 DEF Ends
  <2>3. Ends(d, c, s) \in SUBSET Nat
    BY DEF Ends
  <2>4. [k \in EndsAt(d, c, s) |-> t[mb[(c + s + k - 1) % NumRx]]]
          = [k \in Ends(d, c, s) |-> t[mb[Place(c, s + k - 1)]]]
    BY <2>1, <2>2, <2>3
  <2> HIDE DEF EndsAt
  <2>5. At(d, mb, t, c, s)
          = Selected([k \in Ends(d, c, s) |-> t[mb[Place(c, s + k - 1)]]], Ends(d, c, s))
    BY ONLY <2>2, <2>4
  <2>6. QED
    BY <1>1, <2>5
<1>3. Received = ReceivedOf(rdesc, rx_mbuf, data, cur_rx_rptr, Skip)
  <2>1. Received = At(rdesc, rx_mbuf, data, cur_rx_rptr, Skip)
    BY DEF Received, Skip
  <2>2. cur_rx_rptr \in Slots
    BY DEF RxInv, RxTypeOK
  <2> HIDE DEF At
  <2>3. QED
    BY <1>2, <2>1, <2>2, SkipIs
<1>4. Received' = ReceivedOf(rdesc', rx_mbuf', data', cur_rx_rptr', Skip')
  <2>1. Received' = At(rdesc', rx_mbuf', data', cur_rx_rptr', Skip')
    BY DEF Received, Skip
  <2>2. cur_rx_rptr' \in Slots
    BY DEF RxInv, RxTypeOK
  <2> HIDE DEF At
  <2>3. QED
    BY <1>2, <2>1, <2>2, SkipIs
<1>5. QED
  BY <1>3, <1>4

\* The DMA has filled the n descriptors from c on: their frame ends are received.
LEMMA EndsIs ==
    ASSUME NEW d, NEW c \in Slots, NEW s \in {0, 1}, NEW n \in s .. NumRx, Filled(d, c, n)
    PROVE  Ends(d, c, s) = {k \in 1 .. n - s : d[Place(c, s + k - 1)].ld}
<1>1. \A k \in 1 .. NumRx - s : d[Place(c, s + k - 1)].own <=> n - s < k
  <2> TAKE k \in 1 .. NumRx - s
  <2>1. s + k - 1 \in 0 .. NumRx - 1 /\ (n <= s + k - 1 <=> n - s < k)
    BY RingSize
  <2>2. QED
    BY <2>1 DEF Filled
<1>2. \A k \in 1 .. NumRx - s :
        (\A j \in 1 .. k : ~d[Place(c, s + j - 1)].own) <=> k \in 1 .. n - s
  <2> TAKE k \in 1 .. NumRx - s
  <2>1. \A j \in 1 .. k : j \in 1 .. NumRx - s
    BY RingSize
  <2>2. ASSUME k \in 1 .. n - s PROVE \A j \in 1 .. k : ~d[Place(c, s + j - 1)].own
    <3> TAKE j \in 1 .. k
    <3>1. j \in 1 .. NumRx - s /\ ~(n - s < j)
      BY <2>1, <2>2, RingSize
    <3>2. QED
      BY <3>1, <1>1
  <2>3. ASSUME k \notin 1 .. n - s PROVE d[Place(c, s + k - 1)].own
    <3>1. n - s < k
      BY <2>3, RingSize
    <3>2. QED
      BY <3>1, <1>1
  <2>4. k \in 1 .. k
    BY RingSize
  <2>5. QED
    BY <2>2, <2>3, <2>4
<1>3. \A k \in 1 .. n - s : k \in 1 .. NumRx - s
  BY RingSize
<1>4. QED
  BY <1>2, <1>3 DEF Ends

-----------------------------------------------------------------------------
\* The frame of the descriptor that is given back does not count.
LEMMA FramesSame ==
    ASSUME NEW d, NEW e, NEW mb, NEW nb, NEW t, NEW u, NEW c \in Slots, NEW s \in {0, 1},
           \A i \in Slots : /\ e[i].own = d[i].own /\ e[i].ld = d[i].ld
                            /\ nb[i] = mb[i] /\ u[mb[i]] = t[mb[i]]
    PROVE  ReceivedOf(e, nb, u, c, s) = ReceivedOf(d, mb, t, c, s)
<1>1. \A k \in 1 .. NumRx - s : Place(c, s + k - 1) \in Slots
  <2> TAKE k \in 1 .. NumRx - s
  <2>1. s + k - 1 \in 0 .. NumRx
    BY RingSize
  <2>2. QED
    BY <2>1, PlaceIs
<1>2. Ends(e, c, s) = Ends(d, c, s)
  <2>1. \A k \in 1 .. NumRx - s : \A j \in 1 .. k : j \in 1 .. NumRx - s
    BY RingSize
  <2>2. QED
    BY <1>1, <2>1 DEF Ends
<1> DEFINE S == Ends(d, c, s)
           v == FramesFrom(mb, t, c, s)
           w == FramesFrom(nb, u, c, s)
<1>3. NumRx \in Nat /\ S \in SUBSET (1 .. NumRx) /\ \A k \in S : k \in 1 .. NumRx - s
  BY RingSize DEF Ends
<1>4. \A k \in S : w[k] = v[k]
  <2> HIDE DEF S
  <2> TAKE k \in S
  <2>1. k \in 1 .. NumRx /\ Place(c, s + k - 1) \in Slots
    BY <1>1, <1>3
  <2>2. QED
    BY <2>1 DEF FramesFrom
<1> HIDE DEF S, v, w
<1>5. Selected(w, S) = Selected(v, S)
  BY <1>3, <1>4, SelectedSame
<1>6. QED
  BY <1>2, <1>5 DEF ReceivedOf, S, v, w

\* The DMA fills the descriptor n behind c.
OneMore(e, u, d, t, mb, c, s, n) ==
    /\ e[Place(c, n)].ld => ReceivedOf(e, mb, u, c, s)
                              = Append(ReceivedOf(d, mb, t, c, s), u[mb[Place(c, n)]])
    /\ ~e[Place(c, n)].ld => ReceivedOf(e, mb, u, c, s) = ReceivedOf(d, mb, t, c, s)

LEMMA FramesMore ==
    ASSUME NEW d, NEW e, NEW mb, NEW t, NEW u, NEW c \in Slots, NEW s \in {0, 1},
           NEW n \in s .. NumRx - 1, Filled(d, c, n), Filled(e, c, n + 1),
           \A i \in Slots : i # Place(c, n) => e[i].ld = d[i].ld /\ u[mb[i]] = t[mb[i]]
    PROVE  OneMore(e, u, d, t, mb, c, s, n)
<1> DEFINE m == n - s
           S == {k \in 1 .. m : d[Place(c, s + k - 1)].ld}
           T == {k \in 1 .. m + 1 : e[Place(c, s + k - 1)].ld}
           v == FramesFrom(mb, t, c, s)
           w == FramesFrom(mb, u, c, s)
<1>1. /\ m \in Nat /\ m + 1 \in Nat /\ n \in s .. NumRx /\ n + 1 \in s .. NumRx
      /\ n + 1 - s = m + 1 /\ s + (m + 1) - 1 = n /\ m + 1 \in 1 .. NumRx /\ n \in 0 .. NumRx - 1
  BY RingSize
<1>2. Ends(d, c, s) = S /\ Ends(e, c, s) = T
  BY <1>1, EndsIs
<1>3. ASSUME NEW k \in 1 .. m
      PROVE  e[Place(c, s + k - 1)].ld = d[Place(c, s + k - 1)].ld /\ w[k] = v[k]
  <2>1. s + k - 1 \in 0 .. NumRx - 1 /\ s + k - 1 \in 0 .. NumRx /\ s + k - 1 # n /\ k \in 1 .. NumRx
    BY RingSize
  <2>2. Place(c, s + k - 1) \in Slots /\ Place(c, s + k - 1) # Place(c, n)
    BY <1>1, <2>1, PlaceIs, PlaceOneToOne
  <2>3. QED
    BY <2>1, <2>2 DEF FramesFrom
<1>4. ASSUME NEW k \in 1 .. m + 1
      PROVE  k \in T <=> k \in S \/ (k = m + 1 /\ e[Place(c, n)].ld)
  <2>1. k \in 1 .. m \/ (k = m + 1 /\ k \notin 1 .. m)
    BY <1>1
  <2>2. QED
    BY <2>1, <1>1, <1>3
<1>5. /\ S \in SUBSET (1 .. m) /\ T \in SUBSET (1 .. m + 1) /\ m + 1 \in 1 .. m + 1
      /\ S \in SUBSET (1 .. m + 1) /\ \A k \in S : k < m + 1
  BY <1>1
<1>6. w[m + 1] = u[mb[Place(c, n)]]
  BY <1>1 DEF FramesFrom
<1> HIDE DEF S, T, v, w, m
<1>7. \A k \in S : w[k] = v[k]
  BY <1>3, <1>5
<1>8. CASE e[Place(c, n)].ld
  <2>1. T = S \cup {m + 1}
    BY <1>4, <1>5, <1>8
  <2>2. WithLast(w, S \cup {m + 1}, v, S, w[m + 1])
    BY <1>1, <1>5, <1>7, SelectedMore
  <2>3. QED
    BY <1>2, <1>6, <1>8, <2>1, <2>2 DEF WithLast, ReceivedOf, OneMore, v, w
<1>9. CASE ~e[Place(c, n)].ld
  <2>1. T = S
    BY <1>4, <1>5, <1>9
  <2>2. Selected(w, S) = Selected(v, S)
    BY <1>1, <1>5, <1>7, SelectedSame
  <2>3. QED
    BY <1>2, <1>9, <2>1, <2>2 DEF ReceivedOf, OneMore, v, w
<1>10. QED
  BY <1>8, <1>9

\* The receive loop gives the frame of its descriptor up.
OneLess(e, nb, u, d, mb, t, c) ==
    /\ d[c].ld => /\ ReceivedOf(d, mb, t, c, 0) # <<>>
                  /\ Head(ReceivedOf(d, mb, t, c, 0)) = t[mb[c]]
                  /\ ReceivedOf(e, nb, u, c, 1) = Tail(ReceivedOf(d, mb, t, c, 0))
    /\ ~d[c].ld => ReceivedOf(e, nb, u, c, 1) = ReceivedOf(d, mb, t, c, 0)

LEMMA FramesLess ==
    ASSUME NEW d, NEW e, NEW mb, NEW nb, NEW t, NEW u, NEW c \in Slots,
           NEW n \in 1 .. NumRx, Filled(d, c, n), Filled(e, c, n),
           \A i \in Slots : i # c => e[i].ld = d[i].ld /\ u[nb[i]] = t[mb[i]]
    PROVE  OneLess(e, nb, u, d, mb, t, c)
<1> DEFINE S == {k \in 1 .. n : d[Place(c, k - 1)].ld}
           T == {k \in 1 .. n - 1 : e[Place(c, k)].ld}
           v == FramesFrom(mb, t, c, 0)
           w == FramesFrom(nb, u, c, 1)
<1>1. /\ n \in Nat /\ n \in 0 .. NumRx /\ 0 \in {0, 1} /\ 1 \in {0, 1}
      /\ 1 \in 1 .. n /\ 1 \in 1 .. NumRx /\ 0 \in 0 .. NumRx - 1 /\ Place(c, 0) = c
  BY RingSize, PlaceRound
<1>2. Ends(d, c, 0) = S
  <2>1. Ends(d, c, 0) = {k \in 1 .. n - 0 : d[Place(c, 0 + k - 1)].ld}
    BY <1>1, EndsIs
  <2>2. n - 0 = n /\ \A k \in 1 .. n : 0 + k - 1 = k - 1
    BY <1>1
  <2>3. QED
    BY <2>1, <2>2
<1>3. Ends(e, c, 1) = T
  <2>1. Ends(e, c, 1) = {k \in 1 .. n - 1 : e[Place(c, 1 + k - 1)].ld}
    BY <1>1, EndsIs
  <2>2. \A k \in 1 .. n - 1 : 1 + k - 1 = k
    BY <1>1
  <2>3. QED
    BY <2>1, <2>2
<1>4. ASSUME NEW k \in 1 .. n - 1
      PROVE  /\ e[Place(c, k)].ld = d[Place(c, (k + 1) - 1)].ld /\ w[k] = v[k + 1]
             /\ k + 1 \in 1 .. n
  <2>1. /\ k \in 0 .. NumRx - 1 /\ k \in 0 .. NumRx /\ k # 0 /\ k \in 1 .. NumRx
        /\ k + 1 \in 1 .. NumRx /\ (k + 1) - 1 = k /\ 1 + k - 1 = k
        /\ 0 + (k + 1) - 1 = k /\ k + 1 \in 1 .. n
    BY RingSize
  <2>2. Place(c, k) \in Slots /\ Place(c, k) # c
    BY <1>1, <2>1, PlaceIs, PlaceOneToOne
  <2>3. w[k] = u[nb[Place(c, k)]] /\ v[k + 1] = t[mb[Place(c, k)]]
    BY <2>1 DEF FramesFrom
  <2>4. QED
    BY <2>1, <2>2, <2>3
<1>5. \A k \in Nat : k \in T <=> k > 0 /\ k + 1 \in S
  <2> TAKE k \in Nat
  <2>1. CASE k \in 1 .. n - 1
    BY <2>1, <1>4
  <2>2. CASE k \notin 1 .. n - 1
    <3>1. k > 0 => k + 1 \notin 1 .. n
      BY <2>2, <1>1
    <3>2. QED
      BY <2>2, <3>1
  <2>3. QED
    BY <2>1, <2>2
<1>6. S \in SUBSET (1 .. n) /\ T \in SUBSET (1 .. n) /\ (1 \in S <=> d[c].ld)
  <2>1. 1 - 1 = 0
    OBVIOUS
  <2>2. QED
    BY <1>1, <2>1
<1>7. \A k \in T : w[k] = v[k + 1]
  BY <1>4
<1>8. v[1] = t[mb[c]]
  <2>1. 0 + 1 - 1 = 0
    OBVIOUS
  <2>2. QED
    BY <1>1, <2>1 DEF FramesFrom
<1> HIDE DEF S, T, v, w
<1>9. CASE d[c].ld
  <2>1. WithoutFirst(w, T, v, S)
    BY <1>1, <1>5, <1>6, <1>7, <1>9, SelectedRest
  <2>2. QED
    BY <1>2, <1>3, <1>8, <1>9, <2>1 DEF WithoutFirst, ReceivedOf, OneLess, v, w
<1>10. CASE ~d[c].ld
  <2>1. n \in Nat /\ S \in SUBSET (1 .. n) /\ T \in SUBSET (1 .. n) /\ 1 \notin S
    BY <1>1, <1>6, <1>10
  <2>2. Selected(w, T) = Selected(v, S)
    BY ONLY <2>1, <1>5, <1>7, SelectedShifted, Zenon
  <2>3. QED
    BY <1>2, <1>3, <1>10, <2>2 DEF ReceivedOf, OneLess, v, w
<1>11. QED
  BY <1>9, <1>10

\* The receive loop gives its descriptor back and goes on to the next one.
LEMMA FramesMoved ==
    ASSUME NEW d, NEW e, NEW mb, NEW t, NEW u, NEW c \in Slots,
           NEW n \in 1 .. NumRx, Filled(d, c, n), Filled(e, Next1(c), n - 1),
           \A i \in Slots : i # c => e[i].ld = d[i].ld /\ u[mb[i]] = t[mb[i]]
    PROVE  ReceivedOf(e, mb, u, Next1(c), 0) = ReceivedOf(d, mb, t, c, 1)
<1> DEFINE S == {k \in 1 .. n - 1 : d[Place(c, k)].ld}
           v == FramesFrom(mb, t, c, 1)
           w == FramesFrom(mb, u, Next1(c), 0)
<1>1. /\ n \in 0 .. NumRx /\ n - 1 \in 0 .. NumRx /\ n - 1 \in Nat
      /\ 0 \in {0, 1} /\ 1 \in {0, 1} /\ Next1(c) \in Slots
      /\ 0 \in 0 .. NumRx - 1 /\ Place(c, 0) = c
  BY RingSize, PlaceRound, ZeroIsSlot
<1>2. Ends(d, c, 1) = S
  <2>1. Ends(d, c, 1) = {k \in 1 .. n - 1 : d[Place(c, 1 + k - 1)].ld}
    BY <1>1, EndsIs
  <2>2. \A k \in 1 .. n - 1 : 1 + k - 1 = k
    BY <1>1
  <2>3. QED
    BY <2>1, <2>2
<1>3. ASSUME NEW k \in 1 .. n - 1
      PROVE  /\ e[Place(Next1(c), k - 1)].ld = d[Place(c, k)].ld /\ w[k] = v[k]
  <2>1. /\ k \in 0 .. NumRx - 1 /\ k \in 0 .. NumRx /\ k # 0 /\ k \in 1 .. NumRx
        /\ k - 1 \in 0 .. NumRx - 1 /\ (k - 1) + 1 = k /\ 1 + k - 1 = k /\ 0 + k - 1 = k - 1
    BY RingSize
  <2>2. Place(c, k) \in Slots /\ Place(c, k) # c
    BY <1>1, <2>1, PlaceIs, PlaceOneToOne
  <2>3. Place(Next1(c), k - 1) = Place(c, k)
    BY <2>1, PlaceNext
  <2>4. w[k] = u[mb[Place(c, k)]] /\ v[k] = t[mb[Place(c, k)]]
    BY <2>1, <2>3 DEF FramesFrom
  <2>5. QED
    BY <2>2, <2>3, <2>4
<1>4. Ends(e, Next1(c), 0) = S
  <2>1. Ends(e, Next1(c), 0) = {k \in 1 .. (n - 1) - 0 : e[Place(Next1(c), 0 + k - 1)].ld}
    BY <1>1, EndsIs
  <2>2. (n - 1) - 0 = n - 1 /\ \A k \in 1 .. n - 1 : 0 + k - 1 = k - 1
    BY <1>1
  <2>3. Ends(e, Next1(c), 0) = {k \in 1 .. n - 1 : e[Place(Next1(c), k - 1)].ld}
    BY <2>1, <2>2
  <2>4. QED
    BY <2>3, <1>3
<1>5. S \in SUBSET (1 .. n - 1) /\ \A k \in S : w[k] = v[k]
  BY <1>3
<1> HIDE DEF S, v, w
<1>6. Selected(w, S) = Selected(v, S)
  BY <1>1, <1>5, SelectedSame
<1>7. QED
  BY <1>2, <1>4, <1>6 DEF ReceivedOf, v, w

-----------------------------------------------------------------------------
(* The ring gives the stack the queue of GemacRxFifo. *)

\* What the steps below use of a clean ring.
LEMMA CleanFacts ==
    ASSUME RxInv, RingInv, clean
    PROVE  /\ cur_rx_rptr \in Slots
           /\ \A i \in Slots : rx_mbuf[i] \in Mbufs /\ rdesc[i].buf = rx_mbuf[i]
           /\ \A i, k \in Slots : i # k => rx_mbuf[i] # rx_mbuf[k]
           /\ pc \in {"look", "give"} => rp = cur_rx_rptr
           /\ \E n \in Skip .. NumRx :
                 hwptr = Place(cur_rx_rptr, n) /\ Filled(rdesc, cur_rx_rptr, n)
<1>1. cur_rx_rptr \in Slots
  BY DEF RxInv, RxTypeOK
<1>2. /\ \A i \in Slots : rx_mbuf[i] \in Mbufs /\ rdesc[i].buf = rx_mbuf[i]
      /\ \A i, k \in Slots : i # k => rx_mbuf[i] # rx_mbuf[k]
  BY RxTypes DEF RxInv, ClustersExclusive, RingInv, CleanRing
<1>3. PICK n \in 0 .. NumRx : hwptr = Place(cur_rx_rptr, n) /\ Filled(rdesc, cur_rx_rptr, n)
  BY DEF RingInv, CleanRing
<1>4. n \in Skip .. NumRx
  <2>1. CASE pc # "give"
    BY <2>1 DEF Skip
  <2>2. CASE pc = "give"
    <3>1. ~rdesc[Place(cur_rx_rptr, 0)].own /\ 0 \in 0 .. NumRx - 1
      BY <2>2, <1>1, PlaceRound, RingSize DEF RingInv, CleanRing
    <3>2. ~(n <= 0)
      BY <3>1, <1>3 DEF Filled
    <3>3. QED
      BY <3>2, <2>2 DEF Skip
  <2>3. QED
    BY <2>1, <2>2
<1>5. QED
  BY <1>1, <1>2, <1>3, <1>4 DEF RingInv, CleanRing

\* A descriptor the receive loop has looked at.
LEMMA FilledPlace ==
    ASSUME NEW d, NEW c \in Slots, NEW n \in 0 .. NumRx, Filled(d, c, n), ~d[c].own
    PROVE  n \in 1 .. NumRx
<1>1. Place(c, 0) = c /\ 0 \in 0 .. NumRx - 1
  BY PlaceRound, RingSize
<1>2. ~(n <= 0)
  BY <1>1 DEF Filled
<1>3. QED
  BY <1>2, RingSize

\* The DMA fills a descriptor: the frame it ends, if it does, is behind the others.
LEMMA HwReceiveFrames ==
    ASSUME RxInv, RxInv', RingInv, clean, NEW f \in Frames, HwReceive(f)
    PROVE  Received' = Received \/ Received' = Append(Received, f)
<1> DEFINE c == cur_rx_rptr
           ends == f \notin Long \/ hwmid = f
<1>1. UNCHANGED <<cur_rx_rptr, pc, rx_mbuf>> /\ Skip' = Skip
  BY DEF HwReceive, procVars, Skip
<1>2. Received' = ReceivedOf(rdesc', rx_mbuf, data', c, Skip)
  BY <1>1, ReceivedIs
<1>3. Received = ReceivedOf(rdesc, rx_mbuf, data, c, Skip)
  BY ReceivedIs
<1>4. CASE ~rdesc[hwptr].own
  <2>1. rdesc' = rdesc /\ data' = data
    BY <1>4 DEF HwReceive
  <2>2. QED
    BY <2>1, <1>2, <1>3
<1>5. CASE rdesc[hwptr].own
  <2>0. /\ c \in Slots
        /\ \A i \in Slots : rx_mbuf[i] \in Mbufs /\ rdesc[i].buf = rx_mbuf[i]
        /\ \A i, k \in Slots : i # k => rx_mbuf[i] # rx_mbuf[k]
    BY CleanFacts
  <2>1. PICK n \in Skip .. NumRx : hwptr = Place(c, n) /\ Filled(rdesc, c, n)
    BY CleanFacts
  <2>2. n \in Skip .. NumRx - 1 /\ n \in 0 .. NumRx - 1
    <3>1. n # NumRx
      <4>1. Place(c, NumRx) = Place(c, 0) /\ 0 \in 0 .. NumRx - 1
        BY <2>0, PlaceRound, RingSize
      <4>2. rdesc[Place(c, 0)].own <=> n <= 0
        BY <4>1, <2>1 DEF Filled
      <4>3. QED
        BY <4>1, <4>2, <2>1, <1>5, RingSize
    <3>2. QED
      BY <3>1, RingSize, SkipIs
  <2>3. hwptr \in Slots
    BY <2>0, <2>1, <2>2, PlaceIs, RingSize
  <2>4. PICK l \in BOOLEAN : l = ends
    OBVIOUS
  <2>5. /\ rdesc' = [rdesc EXCEPT ![hwptr] = [@ EXCEPT !.own = FALSE, !.ld = l]]
        /\ data' = [data EXCEPT ![rdesc[hwptr].buf] = IF l THEN f ELSE NULL]
    BY <1>5, <2>4 DEF HwReceive
  <2>6. /\ ~rdesc'[hwptr].own /\ rdesc'[hwptr].ld = l
        /\ \A k \in Slots : k # hwptr => rdesc'[k] = rdesc[k]
    BY <2>3, <2>5, FlagsGiven
  <2>7. Filled(rdesc', c, n + 1)
    <3> SUFFICES ASSUME NEW k \in 0 .. NumRx - 1
                 PROVE  rdesc'[Place(c, k)].own <=> n + 1 <= k
      BY DEF Filled
    <3>1. Place(c, k) \in Slots /\ (Place(c, k) = hwptr => k = n) /\ (k = n => Place(c, k) = hwptr)
      BY <2>0, <2>1, <2>2, PlaceIs, PlaceOneToOne, RingSize
    <3>2. CASE k = n
      BY <3>1, <3>2, <2>2, <2>6
    <3>3. CASE k # n
      <4>1. rdesc'[Place(c, k)].own <=> n <= k
        BY <3>1, <3>3, <2>1, <2>6 DEF Filled
      <4>2. QED
        BY <4>1, <3>3, <2>2
    <3>4. QED
      BY <3>2, <3>3
  <2>8. /\ data \in [Mbufs -> Frames \cup {NULL}]
        /\ rdesc[hwptr].buf = rx_mbuf[hwptr] /\ rx_mbuf[hwptr] \in Mbufs
    BY <2>0, <2>3 DEF RxInv, RxTypeOK
  <2>9. \A i \in Slots : i # Place(c, n) =>
            /\ rdesc'[i].ld = rdesc[i].ld
            /\ data'[rx_mbuf[i]] = data[rx_mbuf[i]]
    BY <2>0, <2>1, <2>3, <2>5, <2>6, <2>8
  <2>10. l => data'[rx_mbuf[Place(c, n)]] = f
    BY <2>1, <2>5, <2>8
  <2>11. Filled(rdesc, c, n) /\ Skip \in {0, 1}
    BY <2>1, SkipIs
  <2> HIDE DEF c
  <2>12. OneMore(rdesc', data', rdesc, data, rx_mbuf, c, Skip, n)
    <3>1. ASSUME NEW d, NEW e, NEW t, NEW u, NEW mb, NEW s,
                 d = rdesc, e = rdesc', t = data, u = data', mb = rx_mbuf, s = Skip
          PROVE  OneMore(e, u, d, t, mb, c, s, n)
      <4>1. c \in Slots /\ s \in {0, 1} /\ n \in s .. NumRx - 1
        BY <2>0, <2>2, <2>11, <3>1
      <4>2. Filled(d, c, n) /\ Filled(e, c, n + 1)
        BY <2>7, <2>11, <3>1
      <4>3. \A i \in Slots : i # Place(c, n) => e[i].ld = d[i].ld /\ u[mb[i]] = t[mb[i]]
        BY <2>9, <3>1
      <4>4. QED
        BY ONLY <4>1, <4>2, <4>3, FramesMore, Zenon
    <3>2. QED
      BY ONLY <3>1
  <2>13. QED
    BY <2>1, <2>6, <2>10, <2>12, <1>2, <1>3 DEF OneMore
<1>6. QED
  BY <1>4, <1>5

\* The receive loop gives the oldest frame up or drops it; the buffers of a frame
\* that do not end it go without notice.
LEMMA GiveUpFrames ==
    ASSUME RxInv, RxInv', RingInv, clean, RxDeliver \/ RxDrop
    PROVE  \/ /\ Received # <<>> /\ Received' = Tail(Received)
              /\ last' \in {Head(Received), NULL}
           \/ Received' = Received /\ last' = last
<1> DEFINE c == cur_rx_rptr
<1>0. /\ c \in Slots
      /\ \A i \in Slots : rx_mbuf[i] \in Mbufs /\ rdesc[i].buf = rx_mbuf[i]
      /\ \A i, k \in Slots : i # k => rx_mbuf[i] # rx_mbuf[k]
  BY CleanFacts
<1>1. /\ pc = "look" /\ pc' = "give" /\ ~rdesc[rp].own /\ rp = c
      /\ cur_rx_rptr' = c
  BY CleanFacts DEF RxDeliver, RxDrop
<1>2. Skip = 0 /\ Skip' = 1
  BY <1>1 DEF Skip
<1>3. Received = ReceivedOf(rdesc, rx_mbuf, data, c, 0)
  BY <1>2, ReceivedIs
<1>4. Received' = ReceivedOf(rdesc', rx_mbuf', data', c, 1)
  BY <1>1, <1>2, ReceivedIs
<1>5. PICK n \in 0 .. NumRx : Filled(rdesc, c, n)
  BY DEF RingInv, CleanRing
<1>6. n \in 1 .. NumRx
  BY <1>0, <1>1, <1>5, FilledPlace
<1>7. /\ \A i \in Slots : rdesc'[i].own = rdesc[i].own
      /\ \A i \in Slots : i # c => /\ rdesc'[i].ld = rdesc[i].ld
                                   /\ data'[rx_mbuf'[i]] = data[rx_mbuf[i]]
      /\ rdesc[c].ld => last' \in {data[rx_mbuf[c]], NULL}
      /\ ~rdesc[c].ld => last' = last
  <2>1. CASE RxDrop
    BY <1>1, <2>1 DEF RxDrop, ring
  <2>2. CASE RxDeliver
    <3>1. PICK m \in pool : /\ rdesc' = [rdesc EXCEPT ![rp].buf = m]
                            /\ rx_mbuf' = [rx_mbuf EXCEPT ![rp] = m]
      BY <2>2 DEF RxDeliver
    <3>2. /\ rdesc[c].ld /\ last' = data[rx_mbuf[c]]
          /\ data' = [data EXCEPT ![rx_mbuf[c]] = NULL]
      BY <2>2, <1>1 DEF RxDeliver
    <3>3. \A i \in Slots : rdesc'[i].own = rdesc[i].own /\ rdesc'[i].ld = rdesc[i].ld
      BY <3>1, <1>1, <1>0, RxTypes DEF Descs
    <3>4. \A i \in Slots : i # c => rx_mbuf'[i] = rx_mbuf[i]
      BY <3>1, <1>1, <1>0, RxTypes
    <3>5. data \in [Mbufs -> Frames \cup {NULL}]
      BY DEF RxInv, RxTypeOK
    <3>6. \A i \in Slots : i # c => data'[rx_mbuf'[i]] = data[rx_mbuf[i]]
      BY <3>2, <3>4, <3>5, <1>0
    <3>7. QED
      BY <3>2, <3>3, <3>6
  <2>3. QED
    BY <2>1, <2>2
<1>8. Filled(rdesc', c, n)
  <2>1. \A k \in 0 .. NumRx - 1 : Place(c, k) \in Slots
    BY <1>0, PlaceIs, RingSize
  <2>2. QED
    BY <2>1, <1>5, <1>7 DEF Filled
<1> HIDE DEF c
<1>9. OneLess(rdesc', rx_mbuf', data', rdesc, rx_mbuf, data, c)
  BY <1>0, <1>5, <1>6, <1>7, <1>8, FramesLess
<1>10. QED
  BY <1>3, <1>4, <1>7, <1>9 DEF OneLess

\* What the DMA gets back carries no frame.
LEMMA GiveFrames ==
    ASSUME RxInv, RxInv', RingInv, RingInv', clean, RxGive
    PROVE  Received' = Received
<1> DEFINE c == cur_rx_rptr
<1>0. /\ c \in Slots
      /\ \A i \in Slots : rx_mbuf[i] \in Mbufs /\ rdesc[i].buf = rx_mbuf[i]
      /\ \A i, k \in Slots : i # k => rx_mbuf[i] # rx_mbuf[k]
  BY CleanFacts
<1>1. /\ pc = "give" /\ pc' = "look" /\ rp = c
      /\ rdesc' = [rdesc EXCEPT ![c] = [@ EXCEPT !.own = TRUE, !.ld = FALSE]]
      /\ cur_rx_rptr' = Next1(c)
      /\ data' = [m \in Mbufs |-> IF m = rdesc[c].buf THEN NULL ELSE data[m]]
      /\ rx_mbuf' = rx_mbuf /\ clean' /\ hwptr' = hwptr
  BY CleanFacts DEF RxGive, history, hwVars
<1>2. Received = ReceivedOf(rdesc, rx_mbuf, data, c, 1)
  BY <1>1, ReceivedIs DEF Skip
<1>3. Received' = ReceivedOf(rdesc', rx_mbuf, data', Next1(c), 0)
  BY <1>1, ReceivedIs DEF Skip
<1>4. PICK n \in 0 .. NumRx : Filled(rdesc, c, n)
  BY DEF RingInv, CleanRing
<1>5. n \in 1 .. NumRx
  <2>1. ~rdesc[c].own
    BY <1>1 DEF RingInv, CleanRing
  <2>2. QED
    BY <2>1, <1>0, <1>4, FilledPlace
<1>6. rdesc'[c].own /\ \A i \in Slots : i # c => rdesc'[i] = rdesc[i]
  BY <1>0, <1>1, FlagsGiven
<1>7. Filled(rdesc', Next1(c), n - 1)
  BY <1>0, <1>1, <1>4, <1>5, <1>6, FilledMoved
<1>8. \A i \in Slots : i # c => /\ rdesc'[i].ld = rdesc[i].ld
                                /\ data'[rx_mbuf[i]] = data[rx_mbuf[i]]
  BY <1>0, <1>1, <1>6
<1> HIDE DEF c
<1>9. ReceivedOf(rdesc', rx_mbuf, data', Next1(c), 0) = ReceivedOf(rdesc, rx_mbuf, data, c, 1)
  BY <1>0, <1>4, <1>5, <1>7, <1>8, FramesMoved
<1>10. QED
  BY <1>2, <1>3, <1>9

-----------------------------------------------------------------------------
\* Steps that leave the frames of a ring where they are.
LEMMA OtherFrames ==
    ASSUME RxInv, RxInv', [Next]_vars, clean, clean',
           ~(\E f \in Frames : HwReceive(f)), ~RxDeliver, ~RxDrop, ~RxGive, ~HwStart,
           ~InitBegin, ~InitEntry
    PROVE  Received' = Received /\ last' = last
<1>1. /\ UNCHANGED <<rdesc, rx_mbuf, data, cur_rx_rptr, last>>
      /\ pc = "give" <=> pc' = "give"
  <2>1. CASE HwTxDone \/ Isr \/ Interrupt \/ RxDone
    <3>1. UNCHANGED <<rdesc, rx_mbuf, data, cur_rx_rptr, last>>
      BY <2>1 DEF HwTxDone, Isr, Interrupt, ProcessInterrupt, CheckStatus, EnableInterrupt,
         RxDone, ring, history
    <3>2. pc = "give" <=> pc' = "give"
      BY <2>1 DEF HwTxDone, Isr, Interrupt, ProcessInterrupt, CheckStatus, EnableInterrupt,
         RxDone, Serve, procVars
    <3>3. QED
      BY <3>1, <3>2
  <2>2. CASE \E m \in Mbufs : StackAlloc(m) \/ StackFree(m)
    BY <2>2 DEF StackAlloc, StackFree, procVars, history
  <2>3. CASE StopMask \/ SoftReset
    BY <2>3 DEF StopMask, SoftReset, ring, procVars, history
  <2>4. CASE UNCHANGED vars
    BY <2>4 DEF vars, ring, procVars, history
  <2>5. QED
    BY <2>1, <2>2, <2>3, <2>4 DEF Next, Receive, Control
<1>2. Skip' = Skip
  BY <1>1 DEF Skip
<1>3. QED
  BY <1>1, <1>2, ReceivedIs

\* A ring in which every descriptor is the DMA's holds no frame.
LEMMA NothingReceived ==
    ASSUME RxInv, RxInv', \A i \in Slots : rdesc'[i].own, pc' # "give"
    PROVE  Received' = <<>>
<1>1. Skip' = 0 /\ 0 \in {0, 1}
  BY DEF Skip
<1>2. cur_rx_rptr' \in Slots /\ 0 \in 0 .. NumRx
  BY RingSize DEF RxInv, RxTypeOK
<1>3. Filled(rdesc', cur_rx_rptr', 0)
  <2>1. \A k \in 0 .. NumRx - 1 : Place(cur_rx_rptr', k) \in Slots /\ 0 <= k
    BY <1>2, PlaceIs, RingSize
  <2>2. QED
    BY <2>1 DEF Filled
<1>4. Ends(rdesc', cur_rx_rptr', 0)
        = {k \in 1 .. 0 - 0 : rdesc'[Place(cur_rx_rptr', 0 + k - 1)].ld}
  BY <1>1, <1>2, <1>3, EndsIs
<1>5. Ends(rdesc', cur_rx_rptr', 0) = {}
  BY <1>4
<1>6. QED
  BY <1>1, <1>5, ReceivedIs, SelectedNone DEF ReceivedOf

\* The stack sees a frame arrive, the oldest one go up or dropped, all of them
\* forgotten, or nothing.
LEMMA RxFifoSteps ==
    ASSUME RxInv, RxInv', RingInv, RingInv', [Next]_vars
    PROVE  [(\E f \in Frames : Fifo!Arrive(f)) \/ Fifo!GiveUp \/ Fifo!Forget]_
             <<IF clean THEN Received ELSE <<>>, IF clean THEN last ELSE NULL>>
<1>1. CASE ~clean /\ ~clean'
  BY <1>1
<1>2. CASE clean /\ ~clean'
  BY <1>2 DEF Fifo!Forget
<1>3. CASE ~clean /\ clean'
  <2>1. HwStart
    <3>1. CASE \E f \in Frames : HwReceive(f)
      BY <1>3, <3>1 DEF HwReceive, history
    <3>2. CASE HwTxDone \/ Isr \/ Interrupt \/ RxDone \/ RxGive
      BY <1>3, <3>2 DEF HwTxDone, Isr, Interrupt, ProcessInterrupt, CheckStatus,
         EnableInterrupt, RxDone, RxGive, history
    <3>3. CASE RxDeliver \/ RxDrop
      BY <1>3, <3>3 DEF RxDeliver, RxDrop
    <3>4. CASE \E m \in Mbufs : StackAlloc(m) \/ StackFree(m)
      BY <1>3, <3>4 DEF StackAlloc, StackFree, history
    <3>5. CASE StopMask \/ SoftReset \/ InitBegin \/ InitEntry \/ UNCHANGED vars
      BY <1>3, <3>5 DEF StopMask, SoftReset, InitBegin, InitEntry, vars, history
    <3>6. QED
      BY <3>1, <3>2, <3>3, <3>4, <3>5 DEF Next, Receive, Control
  <2>2. /\ pc' = pc /\ rdesc' = rdesc /\ last' = NULL
        /\ pc = "idle" /\ \A i \in Slots : rdesc[i].own
    BY <2>1, <1>3 DEF HwStart, ring, procVars
  <2>3. Received' = <<>>
    BY <2>2, NothingReceived
  <2>4. QED
    BY <1>3, <2>2, <2>3
<1>4. CASE clean /\ clean'
  <2>1. CASE \E f \in Frames : HwReceive(f)
    <3>1. PICK f \in Frames : HwReceive(f)
      BY <2>1
    <3>2. Received' = Received \/ Received' = Append(Received, f)
      BY <3>1, <1>4, HwReceiveFrames
    <3>3. last' = last
      BY <3>1 DEF HwReceive, history
    <3>4. QED
      BY <1>4, <3>2, <3>3 DEF Fifo!Arrive
  <2>2. CASE RxDeliver \/ RxDrop
    <3>1. \/ /\ Received # <<>> /\ Received' = Tail(Received)
             /\ last' \in {Head(Received), NULL}
          \/ Received' = Received /\ last' = last
      BY <2>2, <1>4, GiveUpFrames
    <3>2. QED
      BY <1>4, <3>1 DEF Fifo!GiveUp
  <2>3. CASE RxGive
    <3>1. Received' = Received /\ last' = last
      BY <2>3, <1>4, GiveFrames DEF RxGive, history
    <3>2. QED
      BY <1>4, <3>1
  <2>4. CASE HwStart \/ InitBegin \/ InitEntry
    BY <2>4, <1>4 DEF RingInv, CleanRing, HwStart, InitBegin, InitEntry
  <2>5. CASE ~(\/ \E f \in Frames : HwReceive(f)
               \/ RxDeliver \/ RxDrop \/ RxGive \/ HwStart \/ InitBegin \/ InitEntry)
    <3>1. Received' = Received /\ last' = last
      BY <2>5, <1>4, OtherFrames
    <3>2. QED
      BY <1>4, <3>1
  <2>6. QED
    BY <2>1, <2>2, <2>3, <2>4, <2>5
<1>5. QED
  BY <1>1, <1>2, <1>3, <1>4

\* For every ring size, the receive side gives the stack the queue of GemacRxFifo:
\* after an init that found the ring idle, frames go up in the order they came,
\* each once and whole, except those dropped for want of a cluster.
THEOREM RxRingIsFifo == Spec => RxFifoSpec
<1>1. Init => Fifo!RxInit
  BY DEF Init, Fifo!RxInit
<1>2. RxInv /\ RxInv' /\ RingInv /\ RingInv' /\ [Next]_vars =>
        [(\E f \in Frames : Fifo!Arrive(f)) \/ Fifo!GiveUp \/ Fifo!Forget]_
          <<IF clean THEN Received ELSE <<>>, IF clean THEN last ELSE NULL>>
  BY RxFifoSteps
<1>3. QED
  BY <1>1, <1>2, RxInvariant, RingInvariant, PTL DEF Spec, RxFifoSpec, Fifo!RxFifo
=============================================================================
