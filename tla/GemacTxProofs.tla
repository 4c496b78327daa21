---------------------------- MODULE GemacTxProofs ----------------------------
(* The transmit ring for every ring size, every set of packets and every       *)
(* fragmentation of them: its accounting, its buffers and what the DMA reads.  *)
EXTENDS GemacTx, InOrderProofs

\* The k-th descriptor from cur_tx_rptr on, whether the DMA owns it, its piece.
At(k) == Behind(cur_tx_rptr, k)
Own(k) == desc[At(k)].own
Piece(k) == desc[At(k)].buf

\* Descriptors the fill loop has written and not yet handed over, and those of
\* the ring's Used descriptors that were handed over.
Writing == IF pc \in {"fill", "hand"} THEN ld.nmbuf ELSE 0
Given == IF pc = "hand" THEN Used - ld.nmbuf ELSE Used

Pointers ==
    /\ cur_tx_wptr = At(Given)
    /\ Given \in 0 .. NumTx /\ Given + Writing <= NumTx

\* What start's locals say of the packet it works on.
Locals ==
    /\ pc # "idle" => up.running /\ ctl = "idle"
    /\ ~Loading => ld = NoLoad
    /\ Loading =>
         /\ ld.pkt \in Packets
         /\ ld.at = Behind(cur_tx_wptr, ld.nmbuf)
         /\ ld.m <= Len(ld.mbufs) + 1
         /\ ld.nmbuf = Cardinality({k \in 1 .. ld.m - 1 : ld.mbufs[k] = 1})
         /\ ld.num_frag = Len(ld.mbufs) - (ld.m - 1) + ld.nmbuf
         /\ \E k \in DOMAIN ld.mbufs : ld.mbufs[k] = 1
    /\ pc \in {"huge", "fits", "defrag"} => ld.m = 1
    /\ pc = "defrag" => tx_free > 0
    /\ pc = "fill" => ld.num_frag <= tx_free
    /\ pc = "hand" =>
         /\ ld.m = Len(ld.mbufs) + 1
         /\ tx_mbuf[At(Used - 1)] = ld.pkt

\* The DMA in the phases of stop and init.
Phases ==
    /\ ctl = "idle" => dma = (IF up.running THEN "run" ELSE "off")
    /\ ctl = "stopping" => up.running /\ dma \in {"stopping", "off"}
    /\ ctl \in {"reset", "down"} => ~up.running
    /\ ctl = "reset" => dma \in {"late", "off"}
    /\ ctl = "down" => dma = "off"
    /\ dma = "off" => frame = <<>>
    /\ hk => up.running /\ ctl = "idle"

\* The DMA has read h of the descriptors handed over.  It owns the rest of them
\* and, of the packet being written, all but the first.
OwnShape(h) ==
    \A k \in 0 .. NumTx - 1 :
       Own(k) <=> (h <= k /\ k < Given) \/ (Given < k /\ k < Given + Writing)

\* What it owns is whole packets but for pieces it has read: each goes on to its
\* last piece, and the next one begins behind that.
GivenShape(h) ==
    \A k \in h .. Given - 1 :
        LET b == Piece(k)
        IN  /\ b \in Packets \X Nat \X Nat
            /\ 1 <= b[2] /\ b[2] <= b[3]
            /\ desc[At(k)].ls <=> b[2] = b[3]
            /\ k + b[3] - b[2] < Given
            /\ \A i \in k .. k + b[3] - b[2] :
                  Piece(i) = <<b[1], b[2] + i - k, b[3]>>
            /\ b[2] = b[3] /\ k + 1 < Given => Piece(k + 1)[2] = 1

WrittenShape ==
    \A k \in Given .. Given + Writing - 1 :
        /\ Piece(k) = <<ld.pkt, k - Given + 1, Pieces(ld.mbufs)>>
        /\ desc[At(k)].ls <=> pc = "hand" /\ k = Used - 1

\* The frame the DMA has begun goes on with the next descriptor.
FrameShape(h) ==
    dma # "off" =>
       IF frame = <<>> THEN h < Given => Piece(h)[2] = 1
       ELSE /\ h < Given
            /\ Piece(h)[2] = Len(frame) + 1
            /\ \A k \in 1 .. Len(frame) :
                  frame[k] = <<Piece(h)[1], k, Piece(h)[3]>>

RingShape ==
    \E h \in 0 .. Given :
        /\ hwptr = At(h)
        /\ OwnShape(h) /\ GivenShape(h) /\ WrittenShape /\ FrameShape(h)

\* The last piece of what the DMA owns remembers the packet.
RingMbufs ==
    /\ \A k \in Used .. NumTx - 1 : tx_mbuf[At(k)] = NULL
    /\ up.running =>
         \A k \in 0 .. Given - 1 :
            Own(k) /\ Piece(k)[2] = Piece(k)[3] => tx_mbuf[At(k)] = Piece(k)[1]
    /\ ~up.running => \A i \in Slots : tx_mbuf[i] = NULL

\* Every packet the driver has is in one place.
OnePlace ==
    /\ \A j, k \in DOMAIN sendq : sendq[j] = sendq[k] => j = k
    /\ \A i, j \in Slots : tx_mbuf[i] = tx_mbuf[j] /\ tx_mbuf[i] # NULL => i = j
    /\ \A i \in Slots, j \in DOMAIN sendq : tx_mbuf[i] # sendq[j]
    /\ Loading => \A j \in DOMAIN sendq : ld.pkt # sendq[j]
    /\ Loading /\ pc # "hand" => \A i \in Slots : tx_mbuf[i] # ld.pkt
    /\ held = {sendq[k] : k \in DOMAIN sendq}
                \cup {p \in Packets : InRing(p)}
                \cup (IF Loading THEN {ld.pkt} ELSE {})

TxInv ==
    /\ TxTypeOK /\ Pointers /\ Locals /\ Phases
    /\ RingShape /\ RingMbufs /\ OnePlace

-----------------------------------------------------------------------------
\* Going round the ring.
LEMMA RingSize == NumTx \in Nat /\ NumTx > 0
BY TxAssumption

LEMMA BehindIf ==
    ASSUME NEW i \in Slots, NEW k \in 0 .. NumTx
    PROVE  /\ Behind(i, k) = IF i + k < NumTx THEN i + k ELSE i + k - NumTx
           /\ Behind(i, k) \in Slots
BY RingSize DEF Behind, Slots

LEMMA BehindTwice ==
    ASSUME NEW i \in Slots, NEW a \in 0 .. NumTx, NEW b \in 0 .. NumTx
    PROVE  Behind(Behind(i, a), b) = IF a + b <= NumTx THEN Behind(i, a + b)
                                     ELSE Behind(i, a + b - NumTx)
<1> DEFINE j == Behind(i, a)
<1>1. j = (IF i + a < NumTx THEN i + a ELSE i + a - NumTx) /\ j \in Slots
  BY BehindIf
<1> HIDE DEF j
<1>2. Behind(j, b) = IF j + b < NumTx THEN j + b ELSE j + b - NumTx
  BY <1>1, BehindIf
<1>3. CASE a + b <= NumTx
  <2>1. Behind(i, a + b) = IF i + (a + b) < NumTx THEN i + (a + b)
                           ELSE i + (a + b) - NumTx
    BY <1>3, RingSize, BehindIf
  <2>2. QED
    BY <1>1, <1>2, <1>3, <2>1, RingSize DEF Slots, j
<1>4. CASE ~(a + b <= NumTx)
  <2>1. Behind(i, a + b - NumTx)
          = IF i + (a + b - NumTx) < NumTx THEN i + (a + b - NumTx)
            ELSE i + (a + b - NumTx) - NumTx
    BY <1>4, RingSize, BehindIf
  <2>2. QED
    BY <1>1, <1>2, <1>4, <2>1, RingSize DEF Slots, j
<1>5. QED
  BY <1>3, <1>4

LEMMA BehindOnto ==
    ASSUME NEW i \in Slots, NEW s \in Slots
    PROVE  \E k \in 0 .. NumTx - 1 : s = Behind(i, k)
<1> DEFINE k == IF s >= i THEN s - i ELSE s - i + NumTx
<1>1. k \in 0 .. NumTx - 1 /\ k \in 0 .. NumTx
  BY RingSize DEF Slots
<1>2. s = IF i + k < NumTx THEN i + k ELSE i + k - NumTx
  BY RingSize DEF Slots
<1> HIDE DEF k
<1>3. s = Behind(i, k)
  BY <1>1, <1>2, BehindIf
<1>4. QED
  BY <1>1, <1>3

LEMMA BehindOneToOne ==
    ASSUME NEW i \in Slots, NEW j \in 0 .. NumTx - 1, NEW k \in 0 .. NumTx - 1,
           Behind(i, j) = Behind(i, k)
    PROVE  j = k
<1>1. Behind(i, j) = IF i + j < NumTx THEN i + j ELSE i + j - NumTx
  BY RingSize, BehindIf
<1>2. Behind(i, k) = IF i + k < NumTx THEN i + k ELSE i + k - NumTx
  BY RingSize, BehindIf
<1>3. (IF i + j < NumTx THEN i + j ELSE i + j - NumTx)
        = (IF i + k < NumTx THEN i + k ELSE i + k - NumTx)
  BY <1>1, <1>2
<1>4. i \in 0 .. NumTx - 1
  BY DEF Slots
<1>5. QED
  BY <1>3, <1>4, RingSize

LEMMA BehindRound ==
    ASSUME NEW i \in Slots
    PROVE  Behind(i, 0) = i /\ Behind(i, NumTx) = i
BY BehindIf, RingSize DEF Slots

LEMMA BehindNext ==
    ASSUME NEW i \in Slots, NEW k \in 0 .. NumTx - 1
    PROVE  Next1(Behind(i, k)) = Behind(i, k + 1)
BY BehindTwice, RingSize DEF Next1

LEMMA BehindPrevious ==
    ASSUME NEW i \in Slots, NEW k \in 1 .. NumTx
    PROVE  (Behind(i, k) - 1) % NumTx = Behind(i, k - 1)
<1>1. Behind(i, k) = IF i + k < NumTx THEN i + k ELSE i + k - NumTx
  BY BehindIf
<1>2. Behind(i, k - 1) = IF i + (k - 1) < NumTx THEN i + (k - 1)
                         ELSE i + (k - 1) - NumTx
  BY RingSize, BehindIf
<1>3. QED
  BY <1>1, <1>2, RingSize DEF Slots

-----------------------------------------------------------------------------
Descs == [own : BOOLEAN, ls : BOOLEAN, ioc : BOOLEAN,
          buf : {NULL} \cup (Packets \X Nat \X Nat)]
Loads == [pkt : Packets \cup {NULL}, mbufs : Seq({0, 1}), m : Nat \ {0},
          at : Slots, nmbuf : Nat, num_frag : Nat]

\* What the reap looks at and may free was read by the DMA.
LEMMA ReapBound ==
    ASSUME TxTypeOK, Pointers, pc \notin {"fill", "hand"},
           NEW h \in 0 .. Given, OwnShape(h)
    PROVE  /\ ReapCount \in Nat /\ ReapCount <= h
           /\ Given = Used /\ Used \in 0 .. NumTx /\ Writing = 0
<1>1. Given = Used /\ Used \in 0 .. NumTx /\ Writing = 0
  BY RingSize DEF Given, Writing, TxTypeOK, Used
<1>2. CASE tx_free = NumTx
  BY <1>1, <1>2 DEF ReapCount
<1>3. CASE tx_free # NumTx
  <2> DEFINE inUse == IF cur_tx_rptr = cur_tx_wptr THEN NumTx
                      ELSE (cur_tx_wptr - cur_tx_rptr) % NumTx
             S == {n \in 0 .. inUse : \A k \in 0 .. n - 1 : ~Own(k)}
  <2>1. Used \in 1 .. NumTx
    BY <1>1, <1>3, RingSize DEF TxTypeOK, Used
  <2>2. inUse = Used
    <3>1. cur_tx_wptr = IF cur_tx_rptr + Used < NumTx THEN cur_tx_rptr + Used
                        ELSE cur_tx_rptr + Used - NumTx
      BY <1>1, BehindIf DEF TxTypeOK, Pointers, At
    <3>2. cur_tx_rptr \in 0 .. NumTx - 1 /\ cur_tx_wptr \in 0 .. NumTx - 1
      BY DEF TxTypeOK, Slots
    <3>3. CASE Used = NumTx
      BY <3>1, <3>2, <3>3, RingSize
    <3>4. CASE Used < NumTx /\ cur_tx_rptr + Used < NumTx
      <4>1. cur_tx_wptr - cur_tx_rptr = Used
        BY <3>1, <3>2, <3>4, <2>1, RingSize
      <4>2. Used % NumTx = Used
        BY <3>4, <2>1, RingSize
      <4>3. QED
        BY <4>1, <4>2, <3>2, <2>1
    <3>5. CASE Used < NumTx /\ ~(cur_tx_rptr + Used < NumTx)
      <4>1. cur_tx_wptr - cur_tx_rptr = Used - NumTx
        BY <3>1, <3>2, <3>5, <2>1, RingSize
      <4>2. (Used - NumTx) % NumTx = Used
        BY <3>5, <2>1, RingSize
      <4>3. QED
        BY <4>1, <4>2, <3>2, <3>5, <2>1, RingSize
    <3>6. QED
      BY <3>3, <3>4, <3>5, <2>1, RingSize
  <2>3. Scanned = Max(S)
    BY DEF Scanned, Own, At
  <2> HIDE DEF inUse
  <2>4. S \in SUBSET Nat /\ 0 \in S /\ \A n \in S : n <= Used
    BY <2>1, <2>2
  <2>5. Scanned \in S
    <3> HIDE DEF S
    <3>1. S # {} /\ Used \in Nat
      BY <2>1, <2>4
    <3>2. Max(S) \in S
      BY <2>4, <3>1, MaxOf
    <3>3. QED
      BY <2>3, <3>2
  <2>6. Scanned \in 0 .. h
    <3>1. ASSUME Scanned > h PROVE FALSE
      <4>1. h \in 0 .. Scanned - 1 /\ h < Given /\ h \in 0 .. NumTx - 1
        BY <3>1, <1>1, <2>1, <2>2, <2>5, RingSize
      <4>2. ~Own(h)
        BY <4>1, <2>5
      <4>3. Own(h)
        BY <4>1 DEF OwnShape
      <4>4. QED
        BY <4>2, <4>3
    <3>2. QED
      BY <3>1, <1>1, <2>5, <2>1, <2>2
  <2> DEFINE T == {0} \cup {n \in 1 .. Scanned : desc[Behind(cur_tx_rptr, n - 1)].ls}
  <2>7. T \in SUBSET (0 .. Scanned) /\ T # {}
    BY <2>6
  <2>8. ReapCount = Min({TxReap, Max(T)})
    BY <1>3 DEF ReapCount
  <2> HIDE DEF T
  <2>9. T \in SUBSET Nat /\ Scanned \in Nat /\ \A n \in T : n <= Scanned
    BY <2>6, <2>7
  <2>10. Max(T) \in Nat /\ Max(T) <= h
    <3>1. Max(T) \in T
      BY <2>7, <2>9, MaxOf
    <3>2. Max(T) \in 0 .. Scanned
      BY <3>1, <2>7
    <3>3. QED
      BY <3>2, <2>6, <1>1, RingSize
  <2>11. TxReap \in Nat
    BY TxAssumption
  <2>12. QED
    BY <2>8, <2>10, <2>11, MinOfTwo, <1>1
<1>4. QED
  BY <1>2, <1>3

\* n descriptors are reaped, all of them among the h that the DMA has read.
ReapBy(h, n) ==
    /\ Given = Used /\ Writing = 0
    /\ hwptr = At(h)
    /\ OwnShape(h) /\ GivenShape(h) /\ FrameShape(h)
    /\ tx_free' = tx_free + n /\ cur_tx_wptr' = cur_tx_wptr
    /\ \A k \in 0 .. NumTx :
          At(k)' = IF k + n <= NumTx THEN At(k + n) ELSE At(k + n - NumTx)
    /\ \A k \in n .. NumTx - 1 :
          desc'[At(k)] = desc[At(k)] /\ tx_mbuf'[At(k)] = tx_mbuf[At(k)]
    /\ \A k \in 0 .. n - 1 :
          tx_mbuf'[At(k)] = NULL /\ desc'[At(k)].own = desc[At(k)].own
    /\ held' = held \ {tx_mbuf[At(k)] : k \in 0 .. n - 1}

LEMMA ReapEffect ==
    ASSUME TxTypeOK, Pointers, RingShape, pc \notin {"fill", "hand"}, Reap
    PROVE  /\ \E h \in 0 .. Used : \E n \in 0 .. h : ReapBy(h, n)
           /\ desc' \in [Slots -> Descs]
           /\ tx_mbuf' \in [Slots -> Packets \cup {NULL}]
           /\ tx_free' \in 0 .. NumTx /\ cur_tx_rptr' \in Slots
           /\ held' \subseteq held
<1>1. PICK h \in 0 .. Given :
        hwptr = At(h) /\ OwnShape(h) /\ GivenShape(h) /\ FrameShape(h)
  BY DEF RingShape
<1> DEFINE n == ReapCount
           reaped == {Behind(cur_tx_rptr, k) : k \in 0 .. n - 1}
<1>2. /\ n \in Nat /\ n <= h
      /\ Given = Used /\ Used \in 0 .. NumTx /\ Writing = 0
  BY <1>1, ReapBound
<1>3. n \in 0 .. NumTx /\ h \in 0 .. Used /\ n \in 0 .. h
  BY <1>1, <1>2, RingSize
<1>4. cur_tx_rptr \in Slots
  BY DEF TxTypeOK
<1>5. /\ held' = held \ {tx_mbuf[i] : i \in reaped}
      /\ tx_mbuf' = [i \in Slots |-> IF i \in reaped THEN NULL ELSE tx_mbuf[i]]
      /\ desc' = [i \in Slots |-> IF i \in reaped
                                  THEN [desc[i] EXCEPT !.ls = FALSE]
                                  ELSE desc[i]]
      /\ tx_free' = tx_free + n
      /\ cur_tx_rptr' = At(n)
      /\ cur_tx_wptr' = cur_tx_wptr
  BY DEF Reap, At
<1> HIDE DEF n
<1>6. ASSUME NEW k \in 0 .. NumTx
      PROVE  At(k)' = IF k + n <= NumTx THEN At(k + n) ELSE At(k + n - NumTx)
  <2>1. Behind(Behind(cur_tx_rptr, n), k)
          = IF n + k <= NumTx THEN Behind(cur_tx_rptr, n + k)
            ELSE Behind(cur_tx_rptr, n + k - NumTx)
    BY <1>3, <1>4, BehindTwice
  <2>2. n + k = k + n
    BY <1>3
  <2>3. At(k)' = Behind(Behind(cur_tx_rptr, n), k)
    BY <1>5 DEF At
  <2>4. QED
    BY <2>1, <2>2, <2>3, <1>3, RingSize DEF At
<1>7. ASSUME NEW k \in n .. NumTx - 1
      PROVE  desc'[At(k)] = desc[At(k)] /\ tx_mbuf'[At(k)] = tx_mbuf[At(k)]
  <2>1. k \in 0 .. NumTx - 1 /\ k \in 0 .. NumTx
    BY <1>3, RingSize
  <2>2. At(k) \notin reaped
    <3>1. ASSUME NEW j \in 0 .. n - 1, At(k) = Behind(cur_tx_rptr, j) PROVE FALSE
      <4>1. j \in 0 .. NumTx - 1
        BY <1>3, RingSize
      <4>2. j = k
        BY <3>1, <4>1, <2>1, <1>4, BehindOneToOne DEF At
      <4>3. QED
        BY <4>2, <1>3
    <3>2. QED
      BY <3>1
  <2>3. At(k) \in Slots
    BY <2>1, <1>4, BehindIf DEF At
  <2>4. QED
    BY <2>2, <2>3, <1>5
<1>8. ASSUME NEW k \in 0 .. n - 1
      PROVE  tx_mbuf'[At(k)] = NULL /\ desc'[At(k)].own = desc[At(k)].own
  <2>1. At(k) \in reaped
    BY DEF At
  <2>2. At(k) \in Slots
    <3>1. k \in 0 .. NumTx
      BY <1>3, RingSize
    <3>2. QED
      BY <3>1, <1>4, BehindIf DEF At
  <2>3. desc[At(k)] \in Descs
    BY <2>2 DEF TxTypeOK, Descs
  <2>4. [desc[At(k)] EXCEPT !.ls = FALSE].own = desc[At(k)].own
    BY <2>3 DEF Descs
  <2>5. QED
    BY <2>1, <2>2, <2>4, <1>5
<1>9. held' = held \ {tx_mbuf[At(k)] : k \in 0 .. n - 1}
  BY <1>5 DEF At
<1>10. ReapBy(h, n)
  BY <1>1, <1>2, <1>5, <1>6, <1>7, <1>8, <1>9 DEF ReapBy
<1>11. desc' \in [Slots -> Descs]
  <2>1. ASSUME NEW i \in Slots PROVE [desc[i] EXCEPT !.ls = FALSE] \in Descs
    <3>1. desc[i] \in Descs
      BY DEF TxTypeOK, Descs
    <3>2. QED
      BY <3>1 DEF Descs
  <2>2. \A i \in Slots : desc[i] \in Descs
    BY DEF TxTypeOK, Descs
  <2>3. QED
    BY <1>5, <2>1, <2>2
<1>12. tx_mbuf' \in [Slots -> Packets \cup {NULL}]
  BY <1>5 DEF TxTypeOK
<1>13. tx_free' \in 0 .. NumTx
  BY <1>2, <1>3, <1>5, RingSize DEF TxTypeOK, Used
<1>14. cur_tx_rptr' \in Slots
  BY <1>3, <1>4, <1>5, BehindIf DEF At
<1>15. QED
  BY <1>3, <1>9, <1>10, <1>11, <1>12, <1>13, <1>14

\* A reap keeps the shape of the ring.
LEMMA ReapRing ==
    ASSUME TxTypeOK, Pointers, RingShape, RingMbufs, Reap,
           pc \notin {"fill", "hand"}, pc' \notin {"fill", "hand"},
           UNCHANGED <<up, dma, hwptr, frame, ld>>
    PROVE  Pointers' /\ RingShape' /\ RingMbufs'
<1>0. PICK h \in 0 .. Used : \E n \in 0 .. h : ReapBy(h, n)
  BY ReapEffect
<1>1. PICK n \in 0 .. h : ReapBy(h, n)
  BY <1>0
<1>2. /\ Used \in 0 .. NumTx /\ h \in 0 .. NumTx /\ n \in 0 .. NumTx /\ n <= h
      /\ Given = Used /\ Writing = 0
  BY SMTT(40), <1>1, RingSize DEF ReapBy, TxTypeOK, Used
<1>3. Used' = Used - n /\ Given' = Used - n /\ Writing' = 0
  BY <1>1, <1>2, RingSize DEF ReapBy, TxTypeOK, Used, Given, Writing
<1>4. ASSUME NEW k \in 0 .. NumTx, k + n <= NumTx
      PROVE  At(k)' = At(k + n)
  BY <1>1, <1>4 DEF ReapBy
<1>5. ASSUME NEW k \in 0 .. NumTx, k + n > NumTx
      PROVE  At(k)' = At(k + n - NumTx)
  BY <1>1, <1>2, <1>5, RingSize DEF ReapBy
<1>6. Pointers'
  <2>1. PICK u \in 0 .. NumTx : u = Used
    BY <1>2
  <2>2. u - n \in 0 .. NumTx /\ u - n + n = u
    BY <2>1, <1>2, RingSize
  <2>3. At(u - n)' = At(u)
    BY <2>2, <1>4
  <2>4. cur_tx_wptr' = At(u)
    BY <2>1, <1>1, <1>2 DEF ReapBy, Pointers
  <2>5. Given' = u - n
    BY <2>1, <1>3
  <2>6. cur_tx_wptr' = At(Given)'
    BY <2>3, <2>4, <2>5 DEF At
  <2>7. QED
    BY <1>3, <2>2, <2>5, <2>6, RingSize DEF Pointers
<1>7. ASSUME NEW k \in 0 .. NumTx - 1, k + n < NumTx
      PROVE  /\ k + n \in 0 .. NumTx - 1
             /\ desc'[At(k)'] = desc[At(k + n)]
             /\ tx_mbuf'[At(k)'] = tx_mbuf[At(k + n)]
  <2>1. k + n \in n .. NumTx - 1 /\ k \in 0 .. NumTx /\ k + n <= NumTx
    BY <1>2, <1>7, RingSize
  <2>2. At(k)' = At(k + n)
    BY <2>1, <1>4
  <2>3. QED
    BY <2>1, <2>2, <1>1, <1>2, RingSize DEF ReapBy
<1>8. ASSUME NEW k \in 0 .. NumTx - 1, k + n >= NumTx
      PROVE  /\ desc'[At(k)'].own = FALSE
             /\ tx_mbuf'[At(k)'] = NULL
  <2>1. k + n - NumTx \in 0 .. n - 1 /\ k \in 0 .. NumTx
    BY <1>2, <1>8, RingSize
  <2>2. At(k)' = At(k + n - NumTx)
    <3>1. CASE k + n > NumTx
      BY <3>1, <2>1, <1>5
    <3>2. CASE k + n = NumTx
      <4>1. At(k)' = At(NumTx)
        BY <3>2, <2>1, <1>4, RingSize
      <4>2. At(NumTx) = At(0)
        BY BehindRound DEF At, TxTypeOK
      <4>3. QED
        BY <3>2, <4>1, <4>2, RingSize
    <3>3. QED
      BY <3>1, <3>2, <1>2, <1>8, RingSize
  <2>3. /\ tx_mbuf'[At(k + n - NumTx)] = NULL
        /\ desc'[At(k + n - NumTx)].own = Own(k + n - NumTx)
    BY <2>1, <1>1 DEF ReapBy, Own
  <2>4. Own(k + n - NumTx) = FALSE
    <3>1. OwnShape(h)
      BY <1>1 DEF ReapBy
    <3>2. k + n - NumTx \in 0 .. NumTx - 1 /\ k + n - NumTx < h
      BY <2>1, <1>2, RingSize
    <3>3. Own(k + n - NumTx) \in BOOLEAN
      <4>1. At(k + n - NumTx) \in Slots
        <5>1. k + n - NumTx \in 0 .. NumTx
          BY <3>2, RingSize
        <5>2. QED
          BY <5>1, BehindIf DEF At, TxTypeOK
      <4>2. QED
        BY <4>1 DEF TxTypeOK, Own
    <3>4. QED
      BY <3>1, <3>2, <3>3, <1>2, RingSize DEF OwnShape
  <2>5. QED
    BY <2>2, <2>3, <2>4
<1>9. RingShape'
  <2>1. h - n \in 0 .. Given'
    BY <1>1, <1>2, <1>3, RingSize
  <2>2. hwptr' = At(h - n)'
    <3>1. h - n \in 0 .. NumTx /\ h - n + n = h /\ h <= NumTx
      BY <1>2, RingSize
    <3>2. At(h - n)' = At(h)
      BY <3>1, <1>4
    <3>3. QED
      BY <3>2, <1>1 DEF ReapBy
  <2>3. OwnShape(h - n)'
    <3> SUFFICES ASSUME NEW k \in 0 .. NumTx - 1
                 PROVE  Own(k)' <=> (h - n <= k /\ k < Used - n)
      BY <1>3, RingSize, <1>2 DEF OwnShape
    <3>1. CASE k + n < NumTx
      <4>1. k + n \in 0 .. NumTx - 1 /\ Own(k)' = Own(k + n)
        BY <3>1, <1>7 DEF Own
      <4>2. Own(k + n) <=> h <= k + n /\ k + n < Used
        BY <4>1, <1>1, <1>2, RingSize DEF ReapBy, OwnShape
      <4>3. QED
        BY <4>1, <4>2, <1>2, RingSize
    <3>2. CASE k + n >= NumTx
      <4>1. Own(k)' = FALSE
        BY <3>2, <1>8 DEF Own
      <4>2. QED
        BY <4>1, <3>2, <1>2, RingSize
    <3>3. QED
      BY <3>1, <3>2, <1>2, RingSize
  <2>4. ASSUME NEW k \in h - n .. Used - n - 1
        PROVE  /\ k + n \in h .. Used - 1
               /\ k \in 0 .. NumTx - 1
               /\ Piece(k)' = Piece(k + n)
               /\ desc'[At(k)'] = desc[At(k + n)]
    <3>1. k + n \in h .. Used - 1 /\ k \in 0 .. NumTx - 1 /\ k + n < NumTx
      BY <1>2, RingSize
    <3>2. QED
      BY <3>1, <1>7 DEF Piece
  <2>5. GivenShape(h - n)'
    <3> SUFFICES ASSUME NEW k \in h - n .. Used - n - 1
                 PROVE  LET b == Piece(k + n)
                        IN  /\ b \in Packets \X Nat \X Nat
                            /\ 1 <= b[2] /\ b[2] <= b[3]
                            /\ desc[At(k + n)].ls <=> b[2] = b[3]
                            /\ k + b[3] - b[2] < Used - n
                            /\ \A i \in k .. k + b[3] - b[2] :
                                  Piece(i)' = <<b[1], b[2] + i - k, b[3]>>
                            /\ b[2] = b[3] /\ k + 1 < Used - n =>
                                  (Piece(k + 1)[2])' = 1
      BY <2>4, <1>3 DEF GivenShape
    <3>1. k + n \in h .. Used - 1 /\ k \in Nat
      BY <2>4
    <3> DEFINE b == Piece(k + n)
    <3>2. /\ b \in Packets \X Nat \X Nat
          /\ 1 <= b[2] /\ b[2] <= b[3]
          /\ desc[At(k + n)].ls <=> b[2] = b[3]
          /\ (k + n) + b[3] - b[2] < Used
          /\ \A i \in k + n .. (k + n) + b[3] - b[2] :
                Piece(i) = <<b[1], b[2] + i - (k + n), b[3]>>
          /\ b[2] = b[3] /\ (k + n) + 1 < Used => Piece((k + n) + 1)[2] = 1
      BY <3>1, <1>1, <1>2 DEF ReapBy, GivenShape
    <3>3. b[2] \in Nat /\ b[3] \in Nat
      BY <3>2
    <3> HIDE DEF b
    <3>4. k + b[3] - b[2] < Used - n
      BY <3>1, <3>2, <3>3, <1>2
    <3>5. ASSUME NEW i \in k .. k + b[3] - b[2]
          PROVE  Piece(i)' = <<b[1], b[2] + i - k, b[3]>>
      <4>1. /\ i \in h - n .. Used - n - 1
            /\ i + n \in k + n .. (k + n) + b[3] - b[2]
            /\ b[2] + (i + n) - (k + n) = b[2] + i - k
        BY <3>1, <3>2, <3>3, <1>2
      <4>2. QED
        BY <4>1, <3>2, <2>4
    <3>6. b[2] = b[3] /\ k + 1 < Used - n => (Piece(k + 1)[2])' = 1
      <4> SUFFICES ASSUME b[2] = b[3], k + 1 < Used - n
                   PROVE  (Piece(k + 1)[2])' = 1
        OBVIOUS
      <4>1. k + 1 \in h - n .. Used - n - 1 /\ (k + 1) + n = (k + n) + 1
            /\ (k + n) + 1 < Used
        BY <3>1, <1>2
      <4>2. Piece(k + 1)' = Piece((k + n) + 1)
        BY <4>1, <2>4
      <4>3. QED
        BY <4>1, <4>2, <3>2
    <3>7. QED
      BY <3>2, <3>4, <3>5, <3>6 DEF b
  <2>6. WrittenShape'
    BY <1>2, <1>3, RingSize DEF WrittenShape
  <2>7. FrameShape(h - n)'
    <3>1. FrameShape(h)
      BY <1>1 DEF ReapBy
    <3>2. h < Used => h - n \in h - n .. Used - n - 1 /\ (h - n) + n = h
      BY <1>2, RingSize
    <3>3. h < Used => Piece(h - n)' = Piece(h)
      BY <3>2, <2>4
    <3>4. h - n < Used - n <=> h < Used
      BY <1>2, RingSize
    <3>5. QED
      BY <3>1, <3>3, <3>4, <1>2, <1>3 DEF FrameShape
  <2>8. QED
    BY <2>1, <2>2, <2>3, <2>5, <2>6, <2>7 DEF RingShape
<1>10. RingMbufs'
  <2>1. ASSUME NEW k \in Used' .. NumTx - 1 PROVE tx_mbuf'[At(k)'] = NULL
    <3>1. k \in 0 .. NumTx - 1
      BY <1>2, <1>3, RingSize
    <3>2. CASE k + n < NumTx
      <4>1. k + n \in Used .. NumTx - 1
        BY <3>1, <3>2, <1>2, <1>3, RingSize
      <4>2. QED
        BY <4>1, <3>1, <3>2, <1>7 DEF RingMbufs
    <3>3. CASE k + n >= NumTx
      BY <3>1, <3>3, <1>8
    <3>4. QED
      BY <3>1, <3>2, <3>3, <1>2, RingSize
  <2>2. ASSUME up.running, NEW k \in 0 .. Used - n - 1,
               Own(k)', (Piece(k)[2] = Piece(k)[3])'
        PROVE  tx_mbuf'[At(k)'] = Piece(k)'[1]
    <3>1. k \in 0 .. NumTx - 1 /\ k + n < NumTx /\ k + n \in 0 .. Given - 1
      BY <1>2, RingSize
    <3>2. Own(k)' = Own(k + n) /\ Piece(k)' = Piece(k + n)
      BY <3>1, <1>7 DEF Own, Piece
    <3>3. tx_mbuf'[At(k)'] = tx_mbuf[At(k + n)]
      BY <3>1, <1>7
    <3>4. QED
      BY <2>2, <3>1, <3>2, <3>3 DEF RingMbufs
  <2>3. ~up.running => \A i \in Slots : tx_mbuf'[i] = NULL
    <3> SUFFICES ASSUME ~up.running, NEW i \in Slots PROVE tx_mbuf'[i] = NULL
      OBVIOUS
    <3>1. tx_mbuf[i] = NULL
      BY DEF RingMbufs
    <3>2. QED
      BY <3>1 DEF Reap
  <2>4. QED
    BY <2>1, <2>2, <2>3, <1>3 DEF RingMbufs
<1>11. QED
  BY <1>6, <1>9, <1>10

\* A reap frees the packets it takes out of the ring, and no other.
LEMMA ReapOnePlace ==
    ASSUME TxTypeOK, Pointers, Locals, RingShape, OnePlace, Reap,
           pc \notin {"fill", "hand"}, pc' \notin {"fill", "hand"},
           UNCHANGED <<sendq, ld>>, Loading' = Loading
    PROVE  OnePlace'
<1> DEFINE reaped == {Behind(cur_tx_rptr, k) : k \in 0 .. ReapCount - 1}
           freed == {tx_mbuf[i] : i \in reaped}
<1>1. /\ held' = held \ freed
      /\ tx_mbuf' = [i \in Slots |-> IF i \in reaped THEN NULL ELSE tx_mbuf[i]]
  BY DEF Reap
<1>2. reaped \subseteq Slots
  <2>1. ReapCount \in Nat
    BY ReapBound DEF RingShape
  <2>2. cur_tx_rptr \in Nat
    BY DEF TxTypeOK, Slots
  <2>3. ASSUME NEW k \in 0 .. ReapCount - 1 PROVE (cur_tx_rptr + k) % NumTx \in Slots
    BY <2>1, <2>2, RingSize DEF Slots
  <2>4. QED
    BY <2>3 DEF Behind
<1> HIDE DEF reaped
<1>3. \A i \in Slots :
         /\ tx_mbuf'[i] # NULL => tx_mbuf'[i] = tx_mbuf[i] /\ i \notin reaped
         /\ i \notin reaped => tx_mbuf'[i] = tx_mbuf[i]
         /\ i \in reaped => tx_mbuf'[i] = NULL
  BY <1>1
<1>4. NULL \notin Packets
  BY TxAssumption
<1>5. \A k \in DOMAIN sendq : sendq[k] \in Packets
  BY DEF TxTypeOK
<1>6. /\ \A i, j \in Slots : tx_mbuf'[i] = tx_mbuf'[j] /\ tx_mbuf'[i] # NULL => i = j
      /\ \A i \in Slots, j \in DOMAIN sendq : tx_mbuf'[i] # sendq[j]
      /\ Loading => \A i \in Slots : tx_mbuf'[i] # ld.pkt
  <2>1. Loading => pc # "hand" /\ ld.pkt \in Packets
    BY DEF Locals
  <2>2. QED
    BY <2>1, <1>3, <1>4, <1>5 DEF OnePlace
<1>7. held' = {sendq[k] : k \in DOMAIN sendq}
                \cup {p \in Packets : InRing(p)'}
                \cup (IF Loading THEN {ld.pkt} ELSE {})
  <2>1. \A p \in Packets : InRing(p)' <=> InRing(p) /\ p \notin freed
    BY <1>2, <1>3, <1>4 DEF InRing, OnePlace
  <2>2. \A k \in DOMAIN sendq : sendq[k] \notin freed
    BY <1>2 DEF OnePlace
  <2>3. Loading => ld.pkt \notin freed
    BY <1>2 DEF OnePlace
  <2> HIDE DEF freed
  <2>4. QED
    BY <1>1, <2>1, <2>2, <2>3 DEF OnePlace
<1>8. QED
  BY <1>6, <1>7 DEF OnePlace

-----------------------------------------------------------------------------
\* What start writes stays the same: it goes on with nothing written, or does
\* not write a descriptor.
SameWriting ==
    \/ /\ pc' = pc
       /\ ld'.pkt = ld.pkt /\ ld'.mbufs = ld.mbufs /\ ld'.nmbuf = ld.nmbuf
    \/ /\ pc \notin {"fill", "hand"}
       /\ pc' # "hand"
       /\ pc' = "fill" => ld'.nmbuf = 0

LEMMA SameGiven ==
    ASSUME SameWriting, UNCHANGED tx_free
    PROVE  /\ Given' = Given /\ Writing' = Writing /\ Used' = Used
           /\ \/ /\ pc' = pc
                 /\ ld'.pkt = ld.pkt /\ ld'.mbufs = ld.mbufs
              \/ Writing = 0
BY DEF SameWriting, Given, Writing, Used

\* Steps that leave the ring alone.
LEMMA RingKept ==
    ASSUME Pointers, RingShape, Used \in 0 .. NumTx, SameWriting,
           UNCHANGED <<desc, tx_free, cur_tx_rptr, cur_tx_wptr, hwptr>>,
           dma' # "off" => dma # "off" /\ frame' = frame
    PROVE  Pointers' /\ RingShape'
<1>1. /\ Given' = Given /\ Writing' = Writing /\ Used' = Used
      /\ \/ /\ pc' = pc
            /\ ld'.pkt = ld.pkt /\ ld'.mbufs = ld.mbufs
         \/ Writing = 0
  BY SameGiven
<1>2. \A k : At(k)' = At(k) /\ Own(k)' = Own(k) /\ Piece(k)' = Piece(k)
             /\ desc'[At(k)'] = desc[At(k)]
  BY DEF At, Own, Piece
<1>3. Pointers'
  BY <1>1, <1>2 DEF Pointers, At
<1>4. PICK h \in 0 .. Given :
        hwptr = At(h) /\ OwnShape(h) /\ GivenShape(h) /\ WrittenShape /\ FrameShape(h)
  BY DEF RingShape
<1>5. OwnShape(h)'
  BY <1>1, <1>2, <1>4 DEF OwnShape
<1>6. GivenShape(h)'
  BY <1>1, <1>2, <1>4 DEF GivenShape
<1>7. WrittenShape'
  <2>1. CASE Writing = 0
    BY <2>1, <1>1, RingSize DEF WrittenShape, Pointers
  <2>2. CASE pc' = pc /\ ld'.pkt = ld.pkt /\ ld'.mbufs = ld.mbufs
    BY <2>2, <1>1, <1>2, <1>4 DEF WrittenShape
  <2>3. QED
    BY <2>1, <2>2, <1>1
<1>8. FrameShape(h)'
  BY <1>1, <1>2, <1>4 DEF FrameShape
<1>9. QED
  BY <1>1, <1>2, <1>3, <1>4, <1>5, <1>6, <1>7, <1>8 DEF RingShape

LEMMA MbufsKept ==
    ASSUME RingMbufs, SameWriting,
           UNCHANGED <<desc, tx_mbuf, tx_free, cur_tx_rptr>>,
           up'.running = up.running
    PROVE  RingMbufs'
BY SameGiven DEF RingMbufs, Own, Piece, At

-----------------------------------------------------------------------------
\* The steps that touch neither the ring nor a packet.
LEMMA CalmStep ==
    ASSUME TxInv,
           IrqCheck \/ StartDone \/ HwStop \/ StopBegin \/ SoftReset \/ LinkChange
    PROVE  TxInv'
<1>1. /\ UNCHANGED <<sendq, held, desc, tx_mbuf, tx_free, cur_tx_rptr, cur_tx_wptr,
                     hwptr, ld>>
      /\ (pc' = pc \/ (pc = "poll" /\ pc' = "idle"))
      /\ dma' # "off" => dma # "off" /\ frame' = frame
      /\ up'.running = up.running
  <2>1. up \in [running : BOOLEAN, link : BOOLEAN]
    BY DEF TxInv, TxTypeOK
  <2>2. [up EXCEPT !.link = ~@].running = up.running
    BY <2>1
  <2>3. ASSUME StopBegin PROVE dma' # "off" => dma # "off"
    BY <2>3 DEF StopBegin
  <2>4. QED
    BY <2>2, <2>3
       DEF IrqCheck, StartDone, HwStop, StopBegin, SoftReset, LinkChange,
           ring, startVars, ctlVars, hwVars
<1>2. TxTypeOK'
  <2>1. <<>> \in Seq(Packets \X Nat \X Nat)
    BY EmptySeq
  <2>2. up' \in [running : BOOLEAN, link : BOOLEAN]
    BY DEF TxInv, TxTypeOK, IrqCheck, StartDone, HwStop, StopBegin, SoftReset,
           LinkChange, ring, startVars, ctlVars, hwVars
  <2>3. /\ ctl' \in {"idle", "stopping", "reset", "down"}
        /\ dma' \in {"off", "run", "stopping", "late"}
        /\ irqwait' \in BOOLEAN /\ hk' \in BOOLEAN /\ txirq' \in BOOLEAN
        /\ frame' \in Seq(Packets \X Nat \X Nat)
    BY <2>1 DEF TxInv, TxTypeOK, IrqCheck, StartDone, HwStop, StopBegin, SoftReset,
           LinkChange, ring, startVars, ctlVars, hwVars
  <2>4. QED
    BY <1>1, <2>2, <2>3 DEF TxInv, TxTypeOK
<1>3. SameWriting /\ Used \in 0 .. NumTx
  BY <1>1, RingSize DEF SameWriting, TxInv, TxTypeOK, Used
<1>4. Pointers' /\ RingShape' /\ RingMbufs'
  BY <1>1, <1>3, RingKept, MbufsKept DEF TxInv
<1>5. Loading' = Loading /\ (pc' = "hand" <=> pc = "hand")
  BY <1>1 DEF Loading
<1>6. OnePlace'
  BY <1>1, <1>5 DEF TxInv, OnePlace, InRing
<1>7. Locals'
  <2>1. pc' # "idle" => up'.running /\ ctl' = "idle"
    BY <1>1 DEF TxInv, Locals, IrqCheck, StartDone, HwStop, StopBegin, SoftReset,
           LinkChange, Unlocked, Phases, ctlVars, startVars
  <2>2. QED
    BY <1>1, <1>5, <2>1 DEF TxInv, Locals, Used, At
<1>8. Phases'
  BY <1>1 DEF TxInv, Phases, TxTypeOK, IrqCheck, StartDone, HwStop, StopBegin, SoftReset,
           LinkChange, Unlocked, ctlVars, startVars, hwVars
<1>9. QED
  BY <1>2, <1>4, <1>6, <1>7, <1>8 DEF TxInv

\* The reaps.
LEMMA ReapStep ==
    ASSUME TxInv, IrqReap \/ HkReap \/ StartReap \/ HugeReap
    PROVE  TxInv'
<1>1. /\ Reap
      /\ UNCHANGED <<sendq, ld, up, ctl, hk, dma, hwptr, frame, txirq>>
      /\ pc \notin {"fill", "hand"} /\ pc' \notin {"fill", "hand"}
      /\ \/ pc' = pc /\ pc = "idle"
         \/ pc = "reap" /\ pc' \in {"idle", "poll"}
         \/ pc = "huge" /\ pc' = "fits"
      /\ irqwait' \in BOOLEAN
  BY DEF TxInv, TxTypeOK, Locals, IrqReap, HkReap, StartReap, HugeReap, Unlocked,
         startVars, ctlVars, hwVars
<1>2. Loading' = Loading
  BY <1>1 DEF Loading
<1>3. Pointers' /\ RingShape' /\ RingMbufs'
  BY <1>1, ReapRing DEF TxInv
<1>4. OnePlace'
  BY <1>1, <1>2, ReapOnePlace DEF TxInv
<1>5. TxTypeOK'
  <2>1. /\ desc' \in [Slots -> Descs]
        /\ tx_mbuf' \in [Slots -> Packets \cup {NULL}]
        /\ tx_free' \in 0 .. NumTx /\ cur_tx_rptr' \in Slots
        /\ held' \subseteq held
    BY <1>1, ReapEffect DEF TxInv
  <2>2. cur_tx_wptr' = cur_tx_wptr
    BY <1>1 DEF Reap
  <2>3. pc' \in {"idle", "reap", "poll", "fill", "hand", "huge", "fits", "defrag"}
    BY <1>1 DEF TxInv, TxTypeOK
  <2>4. QED
    BY <1>1, <2>1, <2>2, <2>3 DEF TxInv, TxTypeOK, Descs
<1>6. Locals'
  <2>1. cur_tx_wptr' = cur_tx_wptr
    BY <1>1 DEF Reap
  <2>2. QED
    BY <1>1, <1>2, <2>1 DEF TxInv, Locals, Loading
<1>7. Phases'
  BY <1>1 DEF TxInv, Phases
<1>8. QED
  BY <1>3, <1>4, <1>5, <1>6, <1>7 DEF TxInv

\* A packet is queued: the driver did not have it.
LEMMA SendStep ==
    ASSUME TxInv, NEW p \in Packets, Send(p)
    PROVE  TxInv'
<1>1. /\ UNCHANGED <<desc, tx_mbuf, tx_free, cur_tx_rptr, cur_tx_wptr, ld, irqwait,
                     hk, up, ctl, dma, hwptr, frame, txirq>>
      /\ pc = "idle" /\ p \notin held
      /\ sendq' = Append(sendq, p) /\ held' = held \cup {p}
      /\ pc' \in {"idle", "reap", "poll"}
      /\ pc' # "idle" => up.running /\ up.link
      /\ ctl # "stopping"
  BY DEF Send, Unlocked, ring, ctlVars, hwVars
<1>2. /\ sendq \in Seq(Packets) /\ sendq' \in Seq(Packets)
      /\ Len(sendq) \in Nat
      /\ DOMAIN sendq = 1 .. Len(sendq) /\ DOMAIN sendq' = 1 .. Len(sendq) + 1
      /\ \A k \in 1 .. Len(sendq) : sendq'[k] = sendq[k]
      /\ sendq'[Len(sendq) + 1] = p
  BY <1>1, AppendProperties, LenProperties DEF TxInv, TxTypeOK
<1>3. TxTypeOK'
  BY <1>1, <1>2 DEF TxInv, TxTypeOK
<1>4. SameWriting /\ Used \in 0 .. NumTx
  BY <1>1, RingSize DEF SameWriting, TxInv, TxTypeOK, Used
<1>5. Pointers' /\ RingShape' /\ RingMbufs'
  BY <1>1, <1>4, RingKept, MbufsKept DEF TxInv
<1>6. ~Loading /\ ~Loading'
  BY <1>1 DEF Loading
<1>7. OnePlace'
  <2>1. held = {sendq[k] : k \in DOMAIN sendq} \cup {q \in Packets : InRing(q)}
    BY <1>6 DEF TxInv, OnePlace
  <2>2. \A k \in 1 .. Len(sendq) : sendq[k] # p
    BY <1>1, <1>2, <2>1
  <2>3. \A i \in Slots : tx_mbuf[i] # p
    BY <1>1, <2>1 DEF InRing
  <2>4. \A k \in DOMAIN sendq' : \/ k \in DOMAIN sendq /\ sendq'[k] = sendq[k]
                                 \/ k = Len(sendq) + 1 /\ sendq'[k] = p
    BY <1>2
  <2>5. \A j, k \in DOMAIN sendq' : sendq'[j] = sendq'[k] => j = k
    BY <1>2, <2>2, <2>4 DEF TxInv, OnePlace
  <2>6. \A i \in Slots, j \in DOMAIN sendq' : tx_mbuf[i] # sendq'[j]
    BY <1>2, <2>3, <2>4 DEF TxInv, OnePlace
  <2>7. {sendq'[k] : k \in DOMAIN sendq'} = {sendq[k] : k \in DOMAIN sendq} \cup {p}
    BY <1>2, <2>4
  <2>8. \A q : InRing(q)' = InRing(q)
    BY <1>1 DEF InRing
  <2>9. held' = {sendq'[k] : k \in DOMAIN sendq'} \cup {q \in Packets : InRing(q)'}
    BY <1>1, <2>1, <2>7, <2>8
  <2>10. QED
    BY <1>1, <1>6, <2>5, <2>6, <2>9 DEF TxInv, OnePlace
<1>8. Locals'
  BY <1>1, <1>6 DEF TxInv, Locals, Phases, TxTypeOK, Loading
<1>9. Phases'
  BY <1>1 DEF TxInv, Phases
<1>10. QED
  BY <1>3, <1>5, <1>7, <1>8, <1>9 DEF TxInv

\* What stop frees is what the ring held.
LEMMA StopFreeStep ==
    ASSUME TxInv, StopFree
    PROVE  TxInv'
<1>1. /\ UNCHANGED <<sendq, desc, tx_free, cur_tx_rptr, cur_tx_wptr, pc, ld,
                     irqwait, hk, hwptr, frame, txirq>>
      /\ ctl = "stopping" /\ ctl' = "reset"
      /\ dma' = IF dma = "off" THEN "off" ELSE "late"
      /\ held' = held \ {tx_mbuf[i] : i \in Slots}
      /\ tx_mbuf' = [i \in Slots |-> NULL]
      /\ up' = [up EXCEPT !.running = FALSE]
  BY DEF StopFree, startVars
<1>2. up' \in [running : BOOLEAN, link : BOOLEAN] /\ ~up'.running
  BY <1>1 DEF TxInv, TxTypeOK
<1>3. TxTypeOK'
  BY <1>1, <1>2 DEF TxInv, TxTypeOK
<1>4. pc = "idle" /\ ~Loading /\ ~Loading' /\ hk = FALSE
  BY <1>1 DEF TxInv, Locals, Phases, Loading, TxTypeOK
<1>5. SameWriting /\ Used \in 0 .. NumTx
  BY <1>1, RingSize DEF SameWriting, TxInv, TxTypeOK, Used
<1>6. Pointers' /\ RingShape'
  BY <1>1, <1>5, RingKept DEF TxInv
<1>7. RingMbufs'
  <2>1. cur_tx_rptr' \in Slots /\ Used' = Used
    BY <1>1 DEF TxInv, TxTypeOK, Used
  <2>2. \A k \in Used' .. NumTx - 1 : tx_mbuf'[At(k)'] = NULL
    <3> TAKE k \in Used' .. NumTx - 1
    <3>1. k \in 0 .. NumTx
      BY <1>5, <2>1, RingSize
    <3>2. At(k)' \in Slots
      BY <3>1, <2>1, BehindIf DEF At
    <3>3. QED
      BY <3>2, <1>1
  <2>3. QED
    BY <1>1, <1>2, <2>2 DEF RingMbufs
<1>8. OnePlace'
  <2>1. NULL \notin Packets /\ \A p : InRing(p)' => p = NULL
    BY <1>1, TxAssumption DEF InRing
  <2>2. \A k \in DOMAIN sendq : sendq[k] \in Packets /\ sendq[k] # NULL
    BY TxAssumption DEF TxInv, TxTypeOK
  <2>3. held = {sendq[k] : k \in DOMAIN sendq} \cup {p \in Packets : InRing(p)}
    BY <1>4 DEF TxInv, OnePlace
  <2>4. held' = {sendq[k] : k \in DOMAIN sendq}
    <3>1. \A p \in Packets : InRing(p) <=> p \in {tx_mbuf[i] : i \in Slots}
      BY DEF InRing
    <3>2. \A k \in DOMAIN sendq : sendq[k] \notin {tx_mbuf[i] : i \in Slots}
      BY DEF TxInv, OnePlace
    <3>3. QED
      BY <1>1, <2>3, <3>1, <3>2
  <2>5. {p \in Packets : InRing(p)'} = {}
    BY <2>1
  <2>6. \A i \in Slots : tx_mbuf'[i] = NULL
    BY <1>1
  <2>7. QED
    BY <1>1, <1>4, <2>2, <2>4, <2>5, <2>6 DEF TxInv, OnePlace
<1>9. Locals'
  BY <1>1, <1>4 DEF TxInv, Locals, Loading
<1>10. Phases'
  BY <1>1, <1>2, <1>4 DEF TxInv, Phases, TxTypeOK
<1>11. QED
  BY <1>3, <1>6, <1>7, <1>8, <1>9, <1>10 DEF TxInv

\* init clears the ring; stop has emptied it of packets.
LEMMA InitRingStep ==
    ASSUME TxInv, InitRing
    PROVE  TxInv'
<1>1. /\ UNCHANGED <<sendq, held, tx_mbuf, pc, ld, irqwait, frame, txirq>>
      /\ ctl \in {"idle", "down"} /\ ~up.running /\ pc = "idle"
      /\ desc' = [i \in Slots |-> NoDesc]
      /\ tx_free' = NumTx
      /\ cur_tx_rptr' = 0 /\ cur_tx_wptr' = 0 /\ hwptr' = 0
      /\ ctl' = "idle"
      /\ \/ /\ \E link \in {FALSE, up.link} : up' = [running |-> TRUE, link |-> link]
            /\ dma' = "run" /\ hk' = TRUE
         \/ UNCHANGED <<up, dma, hk>>
  BY DEF InitRing, Unlocked, startVars
<1>2. NoDesc \in Descs
  BY DEF NoDesc, Descs
<1>3. up' \in [running : BOOLEAN, link : BOOLEAN] /\ up'.running \in BOOLEAN
  <2>1. up \in [running : BOOLEAN, link : BOOLEAN]
    BY DEF TxInv, TxTypeOK
  <2>2. \A link \in {FALSE, up.link} :
          [running |-> TRUE, link |-> link] \in [running : BOOLEAN, link : BOOLEAN]
    BY <2>1
  <2>3. up' \in [running : BOOLEAN, link : BOOLEAN]
    BY <1>1, <2>1, <2>2
  <2>4. QED
    BY <2>3
<1>4. 0 \in Slots /\ NumTx \in 0 .. NumTx
  BY RingSize DEF Slots
<1>5. TxTypeOK'
  BY ZenonT(60), <1>1, <1>2, <1>3, <1>4 DEF TxInv, TxTypeOK, Descs
<1>6. Given' = 0 /\ Used' = 0 /\ Writing' = 0 /\ ~Loading /\ ~Loading'
  BY <1>1, RingSize DEF Given, Used, Writing, Loading
<1>7. \A k \in 0 .. NumTx : At(k)' \in Slots
  BY <1>1, <1>4, BehindIf DEF At
<1>8. At(0)' = 0
  BY <1>1, <1>4, BehindRound DEF At
<1>9. Pointers'
  BY <1>1, <1>6, <1>8, RingSize DEF Pointers, At
<1>10. RingShape'
  <2>1. OwnShape(0)'
    <3>1. \A k \in 0 .. NumTx - 1 : Own(k)' = FALSE
      <4> TAKE k \in 0 .. NumTx - 1
      <4>1. At(k)' \in Slots
        BY <1>7, RingSize
      <4>2. QED
        BY <4>1, <1>1 DEF Own, NoDesc
    <3>2. QED
      BY <3>1, <1>6, RingSize DEF OwnShape
  <2>2. GivenShape(0)' /\ WrittenShape'
    BY <1>6 DEF GivenShape, WrittenShape
  <2>3. frame' = <<>>
    BY <1>1 DEF TxInv, Phases
  <2>4. FrameShape(0)'
    BY <1>6, <2>3 DEF FrameShape
  <2>5. hwptr' = At(0)' /\ 0 \in 0 .. Given'
    BY <1>1, <1>6, <1>8
  <2>6. QED
    BY <2>1, <2>2, <2>4, <2>5 DEF RingShape
<1>11. RingMbufs'
  <2>1. \A i \in Slots : tx_mbuf'[i] = NULL
    BY <1>1 DEF TxInv, RingMbufs
  <2>2. QED
    BY <1>6, <1>7, <2>1, RingSize DEF RingMbufs
<1>12. OnePlace'
  BY <1>1, <1>6 DEF TxInv, OnePlace, InRing
<1>13. Locals'
  BY <1>1, <1>6 DEF TxInv, Locals, Loading
<1>14. Phases'
  BY <1>1 DEF TxInv, Phases, TxTypeOK
<1>15. QED
  BY <1>5, <1>9, <1>10, <1>11, <1>12, <1>13, <1>14 DEF TxInv

-----------------------------------------------------------------------------
\* The locals for a packet about to be written.
LEMMA LoadFacts ==
    ASSUME TxTypeOK, NEW p \in Packets, NEW mbufs \in Seq({0, 1})
    PROVE  /\ Load(p, mbufs) \in Loads
           /\ Load(p, mbufs).pkt = p
           /\ Load(p, mbufs).mbufs = mbufs
           /\ Load(p, mbufs).m = 1
           /\ Load(p, mbufs).at = cur_tx_wptr
           /\ Load(p, mbufs).nmbuf = 0
           /\ Load(p, mbufs).num_frag = Len(mbufs)
<1>1. Len(mbufs) \in Nat
  BY LenProperties
<1>2. QED
  BY <1>1 DEF Load, Loads, TxTypeOK

LEMMA NoLoadType == NoLoad \in Loads
<1>1. <<>> \in Seq({0, 1}) /\ 0 \in Slots
  BY EmptySeq, RingSize DEF Slots
<1>2. QED
  BY <1>1 DEF NoLoad, Loads

\* Nothing is before the first mbuf.
LEMMA NothingBefore ==
    ASSUME NEW mbufs
    PROVE  Cardinality({k \in 1 .. 1 - 1 : mbufs[k] = 1}) = 0
<1>1. {k \in 1 .. 1 - 1 : mbufs[k] = 1} = {}
  OBVIOUS
<1>2. QED
  BY <1>1, FS_EmptySet

\* The packet taken off the queue is in start's hands.
LEMMA DequeueStep ==
    ASSUME TxInv, Dequeue
    PROVE  TxInv'
<1> DEFINE p == Head(sendq)
<1>1. /\ UNCHANGED <<held, desc, tx_mbuf, tx_free, cur_tx_rptr, cur_tx_wptr, irqwait,
                     hk, up, ctl, dma, hwptr, frame, txirq>>
      /\ pc = "poll" /\ sendq # <<>> /\ tx_free > 0
      /\ ld' = Load(p, Frags[p])
      /\ pc' = IF Len(Frags[p]) <= tx_free THEN "fill"
               ELSE IF p \in Huge THEN "huge" ELSE "defrag"
      /\ sendq' = Tail(sendq)
  BY DEF Dequeue, ring, ctlVars, hwVars
<1>2. /\ sendq \in Seq(Packets) /\ sendq' \in Seq(Packets) /\ p \in Packets
      /\ Len(sendq) \in Nat \ {0}
      /\ DOMAIN sendq = 1 .. Len(sendq) /\ DOMAIN sendq' = 1 .. Len(sendq) - 1
      /\ \A k \in 1 .. Len(sendq) - 1 : sendq'[k] = sendq[k + 1]
      /\ sendq[1] = p
  <2>1. sendq \in Seq(Packets)
    BY DEF TxInv, TxTypeOK
  <2>2. Len(sendq) \in Nat \ {0}
    BY <1>1, <2>1, EmptySeq
  <2>3. /\ sendq' \in Seq(Packets) /\ p \in Packets
        /\ Len(sendq') = Len(sendq) - 1
        /\ \A k \in 1 .. Len(sendq') : sendq'[k] = sendq[k + 1]
    BY <1>1, <2>1, HeadTailProperties
  <2>4. sendq[1] = p
    BY <2>1, <1>1
  <2>5. QED
    BY <2>1, <2>2, <2>3, <2>4, LenProperties
<1>3. Frags[p] \in Seq({0, 1}) /\ \E k \in DOMAIN Frags[p] : Frags[p][k] = 1
  BY <1>2, TxAssumption
<1> HIDE DEF p
<1>4. /\ ld' \in Loads /\ ld'.pkt = p /\ ld'.mbufs = Frags[p] /\ ld'.m = 1
      /\ ld'.at = cur_tx_wptr /\ ld'.nmbuf = 0 /\ ld'.num_frag = Len(Frags[p])
      /\ Len(Frags[p]) \in Nat
  BY <1>1, <1>2, <1>3, LoadFacts, LenProperties DEF TxInv
<1>5. TxTypeOK'
  BY <1>1, <1>2, <1>4 DEF TxInv, TxTypeOK, Loads
<1>6. SameWriting /\ Used \in 0 .. NumTx
  BY <1>1, <1>4, RingSize DEF SameWriting, TxInv, TxTypeOK, Used
<1>7. Pointers' /\ RingShape' /\ RingMbufs'
  BY <1>1, <1>6, RingKept, MbufsKept DEF TxInv
<1>8. ~Loading /\ Loading' /\ pc' # "hand"
  BY <1>1 DEF Loading
<1>9. OnePlace'
  <2>1. \A k \in DOMAIN sendq' : k + 1 \in DOMAIN sendq /\ sendq'[k] = sendq[k + 1]
    BY <1>2
  <2>2. \A j, k \in DOMAIN sendq' : sendq'[j] = sendq'[k] => j = k
    <3> TAKE j, k \in DOMAIN sendq'
    <3>1. j \in Nat /\ k \in Nat
      BY <1>2
    <3>2. sendq'[j] = sendq'[k] => j + 1 = k + 1
      BY <2>1 DEF TxInv, OnePlace
    <3>3. QED
      BY <3>1, <3>2
  <2>3. \A i \in Slots, j \in DOMAIN sendq' : tx_mbuf[i] # sendq'[j]
    BY <2>1 DEF TxInv, OnePlace
  <2>4. \A j \in DOMAIN sendq' : p # sendq'[j]
    <3> TAKE j \in DOMAIN sendq'
    <3>1. 1 \in DOMAIN sendq /\ j + 1 # 1 /\ j + 1 \in DOMAIN sendq
      BY <1>2
    <3>2. QED
      BY <3>1, <2>1, <1>2 DEF TxInv, OnePlace
  <2>5. \A i \in Slots : tx_mbuf[i] # p
    BY <1>2 DEF TxInv, OnePlace
  <2>6. {sendq[k] : k \in DOMAIN sendq} = {sendq'[k] : k \in DOMAIN sendq'} \cup {p}
    <3>1. \A k \in DOMAIN sendq : \/ k = 1
                                  \/ k - 1 \in DOMAIN sendq' /\ sendq'[k - 1] = sendq[k]
      BY <1>2
    <3>2. QED
      BY <3>1, <2>1, <1>2
  <2>7. \A q : InRing(q)' = InRing(q)
    BY <1>1 DEF InRing
  <2>8. held = {sendq[k] : k \in DOMAIN sendq} \cup {q \in Packets : InRing(q)}
    BY <1>8 DEF TxInv, OnePlace
  <2>9. held' = {sendq'[k] : k \in DOMAIN sendq'}
                  \cup {q \in Packets : InRing(q)'} \cup {ld'.pkt}
    BY <1>1, <1>4, <2>6, <2>7, <2>8
  <2>10. QED
    BY <1>1, <1>4, <1>8, <2>2, <2>3, <2>4, <2>5, <2>9 DEF TxInv, OnePlace
<1>10. Locals'
  <2>1. ld'.at = Behind(cur_tx_wptr', ld'.nmbuf)
    BY <1>1, <1>4, BehindRound DEF TxInv, TxTypeOK
  <2>2. ld'.nmbuf = Cardinality({k \in 1 .. ld'.m - 1 : ld'.mbufs[k] = 1})
    BY <1>4, NothingBefore
  <2>3. tx_free' > 0 /\ (pc' = "fill" => ld'.num_frag <= tx_free')
    BY <1>1, <1>4
  <2>4. up'.running /\ ctl' = "idle"
    BY <1>1 DEF TxInv, Locals
  <2>5. QED
    BY <1>2, <1>3, <1>4, <1>8, <2>1, <2>2, <2>3, <2>4 DEF Locals
<1>11. Phases'
  BY <1>1 DEF TxInv, Phases
<1>12. QED
  BY <1>5, <1>7, <1>9, <1>10, <1>11 DEF TxInv

\* start gives a packet up and frees it.
LEMMA DropStep ==
    ASSUME TxInv, pc \in {"fits", "defrag"}, Drop,
           UNCHANGED <<sendq, ring, irqwait, ctlVars, hwVars>>
    PROVE  TxInv'
<1>1. /\ UNCHANGED <<sendq, desc, tx_mbuf, tx_free, cur_tx_rptr, cur_tx_wptr,
                     irqwait, hk, up, ctl, dma, hwptr, frame, txirq>>
      /\ held' = held \ {ld.pkt} /\ ld' = NoLoad /\ pc' = "idle"
  BY DEF Drop, ring, ctlVars, hwVars
<1>2. TxTypeOK'
  BY <1>1, NoLoadType DEF TxInv, TxTypeOK, Loads
<1>3. SameWriting /\ Used \in 0 .. NumTx
  BY <1>1, RingSize DEF SameWriting, TxInv, TxTypeOK, Used
<1>4. Pointers' /\ RingShape' /\ RingMbufs'
  BY <1>1, <1>3, RingKept, MbufsKept DEF TxInv
<1>5. Loading /\ ~Loading' /\ pc # "hand"
  BY <1>1 DEF Loading
<1>6. OnePlace'
  <2>1. \A q : InRing(q)' = InRing(q)
    BY <1>1 DEF InRing
  <2>2. ~InRing(ld.pkt) /\ ld.pkt \notin {sendq[k] : k \in DOMAIN sendq}
    BY <1>5 DEF TxInv, OnePlace, InRing
  <2>3. held = {sendq[k] : k \in DOMAIN sendq}
                 \cup {q \in Packets : InRing(q)} \cup {ld.pkt}
    BY <1>5 DEF TxInv, OnePlace
  <2>4. held' = {sendq[k] : k \in DOMAIN sendq} \cup {q \in Packets : InRing(q)'}
    BY <1>1, <2>1, <2>2, <2>3
  <2>5. QED
    BY <1>1, <1>5, <2>4 DEF TxInv, OnePlace
<1>7. Locals'
  BY <1>1, <1>5 DEF TxInv, Locals, Loading
<1>8. Phases'
  BY <1>1 DEF TxInv, Phases
<1>9. QED
  BY <1>2, <1>4, <1>6, <1>7, <1>8 DEF TxInv

\* A packet that fits, in its own mbufs or in one cluster, is about to be written.
LEMMA FitStep ==
    ASSUME TxInv, pc \in {"fits", "defrag"}, pc' = "fill",
           \/ ld' = ld /\ tx_free > ld.num_frag
           \/ ld' = Load(ld.pkt, << 1 >>) /\ pc = "defrag",
           UNCHANGED <<sendq, held, ring, irqwait, ctlVars, hwVars>>
    PROVE  TxInv'
<1>1. UNCHANGED <<sendq, held, desc, tx_mbuf, tx_free, cur_tx_rptr, cur_tx_wptr,
                  irqwait, hk, up, ctl, dma, hwptr, frame, txirq>>
  BY DEF ring, ctlVars, hwVars
<1>2. /\ Loading /\ Loading' /\ pc # "hand" /\ pc' # "hand"
      /\ ld.pkt \in Packets /\ ld.m = 1 /\ ld.at = Behind(cur_tx_wptr, ld.nmbuf)
      /\ ld.nmbuf = Cardinality({k \in 1 .. ld.m - 1 : ld.mbufs[k] = 1})
      /\ ld.num_frag = Len(ld.mbufs) - (ld.m - 1) + ld.nmbuf
      /\ \E k \in DOMAIN ld.mbufs : ld.mbufs[k] = 1
      /\ ld \in Loads /\ ld.mbufs \in Seq({0, 1})
      /\ tx_free \in Nat
  BY RingSize DEF TxInv, Locals, Loading, TxTypeOK, Loads
<1>3. ld.nmbuf = 0
  BY <1>2, NothingBefore
<1>4. Len(ld.mbufs) \in Nat
  BY <1>2, LenProperties
<1>5. /\ ld' \in Loads /\ ld'.pkt = ld.pkt /\ ld'.m = 1
      /\ ld'.at = cur_tx_wptr /\ ld'.nmbuf = 0 /\ ld'.num_frag = Len(ld'.mbufs)
      /\ Len(ld'.mbufs) \in Nat /\ ld'.num_frag <= tx_free
      /\ \E k \in DOMAIN ld'.mbufs : ld'.mbufs[k] = 1
  <2>1. CASE ld' = ld /\ tx_free > ld.num_frag
    <3>1. ld.num_frag = Len(ld.mbufs)
      BY <1>2, <1>3, <1>4
    <3>2. Behind(cur_tx_wptr, 0) = cur_tx_wptr
      BY BehindRound DEF TxInv, TxTypeOK
    <3>3. QED
      BY <2>1, <3>1, <3>2, <1>2, <1>3, <1>4
  <2>2. CASE ld' = Load(ld.pkt, <<1>>) /\ pc = "defrag"
    <3>1. <<1>> \in Seq({0, 1}) /\ Len(<<1>>) = 1 /\ DOMAIN <<1>> = {1} /\ <<1>>[1] = 1
      OBVIOUS
    <3>2. tx_free > 0
      BY <2>2 DEF TxInv, Locals
    <3>3. /\ ld' \in Loads /\ ld'.pkt = ld.pkt /\ ld'.mbufs = <<1>> /\ ld'.m = 1
          /\ ld'.at = cur_tx_wptr /\ ld'.nmbuf = 0 /\ ld'.num_frag = Len(<<1>>)
      BY <2>2, <3>1, <1>2, LoadFacts DEF TxInv
    <3>4. \E k \in DOMAIN ld'.mbufs : ld'.mbufs[k] = 1
      BY <3>1, <3>3
    <3>5. Len(ld'.mbufs) \in Nat /\ ld'.num_frag <= tx_free
      BY <3>1, <3>2, <3>3, <1>2
    <3>6. QED
      BY <3>3, <3>4, <3>5
  <2>3. QED
    BY <2>1, <2>2
<1>6. TxTypeOK'
  BY <1>1, <1>5 DEF TxInv, TxTypeOK, Loads
<1>7. SameWriting /\ Used \in 0 .. NumTx
  BY <1>5, RingSize DEF SameWriting, TxInv, TxTypeOK, Used
<1>8. Pointers' /\ RingShape' /\ RingMbufs'
  BY <1>1, <1>7, RingKept, MbufsKept DEF TxInv
<1>9. OnePlace'
  BY <1>1, <1>2, <1>5 DEF TxInv, OnePlace, InRing
<1>10. Locals'
  <2>1. ld'.at = Behind(cur_tx_wptr', ld'.nmbuf)
    BY <1>1, <1>5, BehindRound DEF TxInv, TxTypeOK
  <2>2. ld'.nmbuf = Cardinality({k \in 1 .. ld'.m - 1 : ld'.mbufs[k] = 1})
    BY <1>5, NothingBefore
  <2>3. up'.running /\ ctl' = "idle"
    BY <1>1, <1>2 DEF TxInv, Locals, Loading
  <2>4. QED
    BY <1>1, <1>2, <1>5, <2>1, <2>2, <2>3 DEF Locals
<1>11. Phases'
  BY <1>1 DEF TxInv, Phases
<1>12. QED
  BY <1>6, <1>8, <1>9, <1>10, <1>11 DEF TxInv

LEMMA FitsStep ==
    ASSUME TxInv, HugeFits \/ Defrag
    PROVE  TxInv'
<1>1. CASE Drop
  BY <1>1, DropStep DEF HugeFits, Defrag
<1>2. CASE ~Drop
  BY <1>2, FitStep DEF HugeFits, Defrag
<1>3. QED
  BY <1>1, <1>2

-----------------------------------------------------------------------------
LEMMA PiecesType ==
    ASSUME NEW mbufs \in Seq({0, 1})
    PROVE  Pieces(mbufs) \in Nat
<1>1. DOMAIN mbufs = 1 .. Len(mbufs) /\ Len(mbufs) \in Nat
  BY LenProperties
<1>2. {k \in DOMAIN mbufs : mbufs[k] = 1} \in SUBSET (1 .. Len(mbufs))
  BY <1>1
<1>3. IsFiniteSet({k \in DOMAIN mbufs : mbufs[k] = 1})
  <2>1. IsFiniteSet(1 .. Len(mbufs))
    BY <1>1, FS_Interval
  <2>2. QED
    BY <2>1, <1>2, FS_Subset
<1>4. QED
  BY <1>3, FS_CardinalityType DEF Pieces

\* The m-th mbuf counts if it is not empty.
LEMMA OneMorePiece ==
    ASSUME NEW mbufs, NEW m \in Nat \ {0}
    PROVE  Cardinality({k \in 1 .. m : mbufs[k] = 1})
             = IF mbufs[m] = 1 THEN Cardinality({k \in 1 .. m - 1 : mbufs[k] = 1}) + 1
               ELSE Cardinality({k \in 1 .. m - 1 : mbufs[k] = 1})
<1> DEFINE S == {k \in 1 .. m - 1 : mbufs[k] = 1}
           T == {k \in 1 .. m : mbufs[k] = 1}
<1>1. m - 1 \in Int /\ m \notin 1 .. m - 1 /\ 1 .. m = (1 .. m - 1) \cup {m}
  OBVIOUS
<1>2. IsFiniteSet(S)
  <2>1. S \in SUBSET (1 .. m - 1)
    OBVIOUS
  <2>2. IsFiniteSet(1 .. m - 1)
    BY <1>1, FS_Interval
  <2>3. QED
    BY <2>1, <2>2, FS_Subset
<1>3. CASE mbufs[m] = 1
  <2>1. T = S \cup {m} /\ m \notin S
    BY <1>1, <1>3
  <2> HIDE DEF S, T
  <2>2. Cardinality(T) = Cardinality(S) + 1
    BY <1>2, <2>1, FS_AddElement
  <2>3. QED
    BY <2>2, <1>3 DEF S, T
<1>4. CASE mbufs[m] # 1
  <2>1. T = S
    BY <1>1, <1>4
  <2>2. QED
    BY <2>1, <1>4
<1>5. QED
  BY <1>3, <1>4

\* Where the fill loop is.
LEMMA Filling ==
    ASSUME TxInv, pc = "fill"
    PROVE  /\ Loading /\ ld.pkt \in Packets /\ ld \in Loads /\ ld.mbufs \in Seq({0, 1})
           /\ Len(ld.mbufs) \in Nat /\ DOMAIN ld.mbufs = 1 .. Len(ld.mbufs)
           /\ ld.m \in Nat \ {0} /\ ld.nmbuf \in Nat /\ ld.num_frag \in Nat
           /\ ld.m <= Len(ld.mbufs) + 1
           /\ ld.num_frag = Len(ld.mbufs) - (ld.m - 1) + ld.nmbuf
           /\ ld.num_frag <= tx_free /\ tx_free \in 0 .. NumTx
           /\ Used = NumTx - tx_free /\ Given = Used /\ Writing = ld.nmbuf
           /\ Used \in 0 .. NumTx
           /\ Used + ld.nmbuf \in 0 .. NumTx
           /\ ld.at = At(Used + ld.nmbuf) /\ ld.at = Behind(cur_tx_wptr, ld.nmbuf)
           /\ cur_tx_rptr \in Slots /\ cur_tx_wptr \in Slots
<1>1. /\ Loading /\ ld.pkt \in Packets /\ ld \in Loads
      /\ ld.mbufs \in Seq({0, 1})
      /\ ld.m \in Nat \ {0} /\ ld.nmbuf \in Nat /\ ld.num_frag \in Nat
      /\ ld.m <= Len(ld.mbufs) + 1
      /\ ld.num_frag = Len(ld.mbufs) - (ld.m - 1) + ld.nmbuf
      /\ ld.num_frag <= tx_free /\ tx_free \in 0 .. NumTx
      /\ ld.at = Behind(cur_tx_wptr, ld.nmbuf)
      /\ cur_tx_rptr \in Slots /\ cur_tx_wptr \in Slots
  BY DEF TxInv, Locals, Loading, TxTypeOK, Loads
<1>2. Len(ld.mbufs) \in Nat /\ DOMAIN ld.mbufs = 1 .. Len(ld.mbufs)
  BY <1>1, LenProperties
<1>3. Used = NumTx - tx_free /\ Given = Used /\ Writing = ld.nmbuf /\ Used \in 0 .. NumTx
  BY <1>1, RingSize DEF Used, Given, Writing
<1>4. Used + ld.nmbuf \in 0 .. NumTx /\ ld.nmbuf \in 0 .. NumTx
  <2>1. ld.nmbuf <= ld.num_frag
    BY SMTT(40), <1>1, <1>2
  <2>2. ld.nmbuf <= tx_free
    BY <1>1, <2>1, RingSize
  <2>3. QED
    BY SMTT(40), <1>1, <1>3, <2>2, RingSize
<1>5. ld.at = At(Used + ld.nmbuf)
  <2>1. cur_tx_wptr = Behind(cur_tx_rptr, Used)
    BY <1>3 DEF TxInv, Pointers, At
  <2>2. Used + ld.nmbuf <= NumTx
    BY <1>4, RingSize
  <2>3. QED
    BY <1>1, <1>3, <1>4, <2>1, <2>2, BehindTwice DEF At
<1>6. QED
  BY <1>1, <1>2, <1>3, <1>4, <1>5

\* What the loop's counters are after one more turn.
LEMMA FillCounts ==
    ASSUME TxInv, pc = "fill", ld.m <= Len(ld.mbufs)
    PROVE  /\ ld.m + 1 \in Nat \ {0} /\ ld.m + 1 <= Len(ld.mbufs) + 1
           /\ ld.m + 1 - 1 = ld.m
           /\ ld.num_frag - 1 \in Nat /\ ld.num_frag - 1 <= tx_free
           /\ ld.num_frag - 1 = Len(ld.mbufs) - (ld.m + 1 - 1) + ld.nmbuf
           /\ ld.num_frag = Len(ld.mbufs) - (ld.m + 1 - 1) + (ld.nmbuf + 1)
           /\ ld.nmbuf + 1 \in Nat /\ ld.nmbuf + 1 <= tx_free
<1>1. /\ Len(ld.mbufs) \in Nat /\ ld.m \in Nat \ {0} /\ ld.nmbuf \in Nat
      /\ ld.num_frag \in Nat
      /\ ld.num_frag = Len(ld.mbufs) - (ld.m - 1) + ld.nmbuf
      /\ ld.num_frag <= tx_free
  BY Filling
<1>2. tx_free \in Nat
  BY RingSize DEF TxInv, TxTypeOK
<1>3. PICK len \in Nat, m \in Nat \ {0}, nmbuf \in Nat, num_frag \in Nat, free \in Nat :
        /\ len = Len(ld.mbufs) /\ m = ld.m /\ nmbuf = ld.nmbuf
        /\ num_frag = ld.num_frag /\ free = tx_free
  BY <1>1, <1>2
<1>4. m <= len /\ num_frag = len - (m - 1) + nmbuf /\ num_frag <= free
  BY <1>1, <1>3
<1>5. /\ m + 1 \in Nat \ {0} /\ m + 1 <= len + 1 /\ m + 1 - 1 = m
      /\ num_frag - 1 \in Nat /\ num_frag - 1 <= free
      /\ num_frag - 1 = len - (m + 1 - 1) + nmbuf
      /\ num_frag = len - (m + 1 - 1) + (nmbuf + 1)
      /\ nmbuf + 1 \in Nat /\ nmbuf + 1 <= free
  BY <1>4
<1>6. QED
  BY <1>3, <1>5

\* An empty mbuf takes no descriptor.
LEMMA FillEmptyStep ==
    ASSUME TxInv, FillDesc, ld.mbufs[ld.m] = 0
    PROVE  TxInv'
<1>1. /\ pc = "fill" /\ pc' = "fill" /\ ld.m <= Len(ld.mbufs)
      /\ ld' = [ld EXCEPT !.m = @ + 1, !.num_frag = @ - 1]
      /\ UNCHANGED <<sendq, held, desc, tx_mbuf, tx_free, cur_tx_rptr, cur_tx_wptr,
                     irqwait, hk, up, ctl, dma, hwptr, frame, txirq>>
  BY DEF FillDesc, ctlVars, hwVars
<1>2. /\ ld.m + 1 \in Nat \ {0} /\ ld.m + 1 <= Len(ld.mbufs) + 1
      /\ ld.m + 1 - 1 = ld.m
      /\ ld.num_frag - 1 \in Nat /\ ld.num_frag - 1 <= tx_free
      /\ ld.num_frag - 1 = Len(ld.mbufs) - (ld.m + 1 - 1) + ld.nmbuf
  BY <1>1, FillCounts
<1>3. ld' = [pkt |-> ld.pkt, mbufs |-> ld.mbufs, m |-> ld.m + 1, at |-> ld.at,
             nmbuf |-> ld.nmbuf, num_frag |-> ld.num_frag - 1]
  BY <1>1, Filling DEF Loads
<1>4. /\ ld' \in Loads /\ ld'.pkt = ld.pkt /\ ld'.mbufs = ld.mbufs /\ ld'.m = ld.m + 1
      /\ ld'.at = ld.at /\ ld'.nmbuf = ld.nmbuf /\ ld'.num_frag = ld.num_frag - 1
  <2>2. /\ ld.pkt \in Packets \cup {NULL} /\ ld.mbufs \in Seq({0, 1})
        /\ ld.at \in Slots /\ ld.nmbuf \in Nat
    BY <1>1, Filling DEF Loads
  <2>3. QED
    BY <1>2, <1>3, <2>2 DEF Loads
<1>5. TxTypeOK'
  BY <1>1, <1>4 DEF TxInv, TxTypeOK, Loads
<1>6. SameWriting /\ Used \in 0 .. NumTx
  BY <1>1, <1>4, Filling DEF SameWriting
<1>7. Pointers' /\ RingShape' /\ RingMbufs'
  BY <1>1, <1>6, RingKept, MbufsKept DEF TxInv
<1>8. OnePlace'
  BY <1>1, <1>4 DEF TxInv, OnePlace, InRing, Loading
<1>9. Locals'
  <2>1. ld.nmbuf = Cardinality({k \in 1 .. ld.m : ld.mbufs[k] = 1})
    <3>1. ld.m \in Nat \ {0} /\ ld.mbufs[ld.m] # 1
      BY <1>1, Filling
    <3>2. ASSUME NEW mbufs, NEW m \in Nat \ {0}, mbufs[m] # 1
          PROVE  Cardinality({k \in 1 .. m : mbufs[k] = 1})
                   = Cardinality({k \in 1 .. m - 1 : mbufs[k] = 1})
      BY <3>2, OneMorePiece
    <3>3. Cardinality({k \in 1 .. ld.m : ld.mbufs[k] = 1})
            = Cardinality({k \in 1 .. ld.m - 1 : ld.mbufs[k] = 1})
      BY <3>1, <3>2
    <3>4. QED
      BY <3>3, <1>1, Filling DEF TxInv, Locals
  <2>2. ld'.nmbuf = Cardinality({k \in 1 .. ld'.m - 1 : ld'.mbufs[k] = 1})
    <3>1. ld'.m - 1 = ld.m
      BY <1>1, <1>4, Filling
    <3>2. QED
      BY <2>1, <3>1, <1>4
  <2>3. /\ ld'.m <= Len(ld'.mbufs) + 1
        /\ ld'.num_frag = Len(ld'.mbufs) - (ld'.m - 1) + ld'.nmbuf
        /\ ld'.num_frag <= tx_free'
    <3>1. ld'.m <= Len(ld'.mbufs) + 1
      BY <1>2, <1>4
    <3>2. ld'.num_frag = Len(ld'.mbufs) - (ld'.m - 1) + ld'.nmbuf
      <4>1. ld'.m - 1 = ld.m
        <5>1. ld.m \in Nat
          BY <1>1, Filling
        <5>2. QED
          BY <5>1, <1>4
      <4>2. Len(ld'.mbufs) = Len(ld.mbufs)
        BY <1>4
      <4>3. ld.num_frag - 1 = Len(ld.mbufs) - ld.m + ld.nmbuf
        BY <1>2
      <4>4. ld'.nmbuf = ld.nmbuf /\ ld'.num_frag = ld.num_frag - 1
        BY <1>4
      <4>5. QED
        BY <4>1, <4>2, <4>3, <4>4
    <3>3. ld'.num_frag <= tx_free'
      BY <1>1, <1>2, <1>4
    <3>4. QED
      BY <3>1, <3>2, <3>3
  <2>4. ld'.at = Behind(cur_tx_wptr', ld'.nmbuf)
    BY <1>1, <1>4, Filling
  <2>5. /\ up'.running /\ ctl' = "idle" /\ ld'.pkt \in Packets
        /\ \E k \in DOMAIN ld'.mbufs : ld'.mbufs[k] = 1
    BY <1>1, <1>4 DEF TxInv, Locals, Loading
  <2>6. Loading'
    BY <1>1 DEF Loading
  <2>7. QED
    BY <1>1, <2>2, <2>3, <2>4, <2>5, <2>6 DEF Locals
<1>10. Phases'
  BY <1>1 DEF TxInv, Phases
<1>11. QED
  BY <1>5, <1>7, <1>8, <1>9, <1>10 DEF TxInv

\* A piece is written behind those before it, in a descriptor that is free.
LEMMA FillPieceStep ==
    ASSUME TxInv, FillDesc, ld.mbufs[ld.m] # 0
    PROVE  TxInv'
<1> DEFINE rec == [own |-> desc[ld.at].own \/ ld.nmbuf > 0, ls |-> FALSE, ioc |-> FALSE,
                   buf |-> <<ld.pkt, ld.nmbuf + 1, Pieces(ld.mbufs)>>]
<1>1. /\ pc = "fill" /\ pc' = "fill" /\ ld.m <= Len(ld.mbufs)
      /\ desc' = [desc EXCEPT ![ld.at] = rec]
      /\ ld' = [ld EXCEPT !.m = @ + 1, !.nmbuf = @ + 1, !.at = Next1(ld.at)]
      /\ UNCHANGED <<sendq, held, tx_mbuf, tx_free, cur_tx_rptr, cur_tx_wptr,
                     irqwait, hk, up, ctl, dma, hwptr, frame, txirq>>
  BY DEF FillDesc, ctlVars, hwVars
<1>2. /\ ld.m + 1 \in Nat \ {0} /\ ld.m + 1 <= Len(ld.mbufs) + 1
      /\ ld.num_frag = Len(ld.mbufs) - (ld.m + 1 - 1) + (ld.nmbuf + 1)
      /\ ld.nmbuf + 1 \in Nat /\ ld.nmbuf + 1 <= tx_free
  BY <1>1, FillCounts
<1>3. /\ ld.m \in Nat \ {0} /\ ld.nmbuf \in Nat /\ Used \in 0 .. NumTx
      /\ Given = Used /\ Writing = ld.nmbuf
      /\ ld.at = At(Used + ld.nmbuf) /\ ld.at = Behind(cur_tx_wptr, ld.nmbuf)
      /\ cur_tx_rptr \in Slots /\ cur_tx_wptr \in Slots
      /\ ld.pkt \in Packets /\ Pieces(ld.mbufs) \in Nat
  BY <1>1, Filling, PiecesType
<1>4. /\ ld.nmbuf \in 0 .. NumTx - 1
      /\ Used + ld.nmbuf \in 0 .. NumTx - 1
      /\ Used + (ld.nmbuf + 1) \in 0 .. NumTx
  <2>1. PICK free \in 0 .. NumTx, nmbuf \in Nat : free = tx_free /\ nmbuf = ld.nmbuf
    BY <1>1, <1>3, Filling
  <2>2. Used = NumTx - free /\ nmbuf + 1 <= free
    BY <2>1, <1>1, <1>2, Filling
  <2>3. /\ nmbuf \in 0 .. NumTx - 1
        /\ (NumTx - free) + nmbuf \in 0 .. NumTx - 1
        /\ (NumTx - free) + (nmbuf + 1) \in 0 .. NumTx
    BY <2>2, RingSize
  <2>4. QED
    BY <2>1, <2>2, <2>3
<1>5. ld' = [pkt |-> ld.pkt, mbufs |-> ld.mbufs, m |-> ld.m + 1, at |-> Next1(ld.at),
             nmbuf |-> ld.nmbuf + 1, num_frag |-> ld.num_frag]
  BY <1>1, Filling DEF Loads
<1>6. Next1(ld.at) = Behind(cur_tx_wptr, ld.nmbuf + 1) /\ Next1(ld.at) \in Slots
  <2>1. Next1(ld.at) = Behind(cur_tx_wptr, ld.nmbuf + 1)
    BY <1>3, <1>4, BehindNext
  <2>2. ld.nmbuf + 1 \in 0 .. NumTx
    BY <1>4, RingSize
  <2>3. QED
    BY <2>1, <2>2, <1>3, BehindIf
<1>7. /\ ld' \in Loads /\ ld'.pkt = ld.pkt /\ ld'.mbufs = ld.mbufs /\ ld'.m = ld.m + 1
      /\ ld'.at = Behind(cur_tx_wptr, ld.nmbuf + 1)
      /\ ld'.nmbuf = ld.nmbuf + 1 /\ ld'.num_frag = ld.num_frag
  <2>1. /\ ld.pkt \in Packets \cup {NULL} /\ ld.mbufs \in Seq({0, 1})
        /\ ld.num_frag \in Nat
    BY <1>1, Filling DEF Loads
  <2>2. QED
    BY <1>2, <1>5, <1>6, <2>1 DEF Loads
<1>8. ld.at \in Slots
  BY DEF TxInv, TxTypeOK
<1>9. desc[ld.at].own = FALSE
  <2>1. ~Own(Used + ld.nmbuf)
    BY <1>3, <1>4, RingSize DEF TxInv, RingShape, OwnShape
  <2>2. desc[ld.at].own \in BOOLEAN
    BY <1>8 DEF TxInv, TxTypeOK
  <2>3. QED
    BY <2>1, <2>2, <1>3 DEF Own
<1>10. rec \in Descs
  BY <1>2, <1>3, <1>9 DEF Descs
<1>11. /\ rec.own = (ld.nmbuf > 0) /\ rec.ls = FALSE
       /\ rec.buf = <<ld.pkt, ld.nmbuf + 1, Pieces(ld.mbufs)>>
  BY <1>3, <1>9
<1> HIDE DEF rec
<1>12. TxTypeOK'
  <2>1. desc' \in [Slots -> Descs]
    BY <1>1, <1>8, <1>10 DEF TxInv, TxTypeOK, Descs
  <2>2. QED
    BY <1>1, <1>7, <2>1 DEF TxInv, TxTypeOK, Loads, Descs
<1>13. ASSUME NEW k \in 0 .. NumTx - 1
       PROVE  /\ At(k)' = At(k)
              /\ k # Used + ld.nmbuf => desc'[At(k)] = desc[At(k)]
              /\ k = Used + ld.nmbuf => desc'[At(k)] = rec
  <2>1. At(k)' = At(k)
    BY <1>1 DEF At
  <2>2. k = Used + ld.nmbuf => desc'[At(k)] = rec
    BY <1>1, <1>3, <1>8 DEF TxInv, TxTypeOK
  <2>3. k # Used + ld.nmbuf => At(k) # ld.at
    BY <1>3, <1>4, BehindOneToOne DEF At
  <2>4. k # Used + ld.nmbuf => desc'[At(k)] = desc[At(k)]
    BY <2>3, <1>1
  <2>5. QED
    BY <2>1, <2>2, <2>4
<1>14. Used' = Used /\ Given' = Used /\ Writing' = ld.nmbuf + 1
  BY <1>1, <1>3, <1>7 DEF Used, Given, Writing
<1>15. Pointers'
  <2>1. At(Given)' = At(Given) /\ cur_tx_wptr = At(Given)
    BY <1>1, <1>3, <1>14 DEF TxInv, Pointers, At
  <2>2. QED
    BY <1>1, <1>3, <1>4, <1>14, <2>1, RingSize DEF Pointers
<1>16. PICK u \in 0 .. NumTx, w \in 0 .. NumTx - 1 :
         u = Used /\ w = ld.nmbuf /\ u + w \in 0 .. NumTx - 1
  BY <1>3, <1>4
<1>17. PICK h \in 0 .. Given :
         hwptr = At(h) /\ OwnShape(h) /\ GivenShape(h) /\ WrittenShape /\ FrameShape(h)
  BY DEF TxInv, RingShape
<1>18. ASSUME NEW k \in 0 .. NumTx - 1
       PROVE  /\ k # u + w => /\ Own(k)' = Own(k) /\ Piece(k)' = Piece(k)
                              /\ desc'[At(k)'] = desc[At(k)]
              /\ k = u + w => /\ Own(k)' = (w > 0)
                              /\ Piece(k)' = <<ld.pkt, w + 1, Pieces(ld.mbufs)>>
                              /\ desc'[At(k)'].ls = FALSE
  BY <1>11, <1>13, <1>16 DEF Own, Piece
<1>19. OwnShape(h)'
  <2> SUFFICES ASSUME NEW k \in 0 .. NumTx - 1
               PROVE  Own(k)' <=> (h <= k /\ k < u) \/ (u < k /\ k < u + (w + 1))
    BY <1>14, <1>16 DEF OwnShape
  <2>1. Own(k) <=> (h <= k /\ k < u) \/ (u < k /\ k < u + w)
    BY <1>3, <1>16, <1>17 DEF OwnShape
  <2>2. h \in Nat /\ h <= u
    BY <1>3, <1>16, <1>17
  <2>3. CASE k = u + w
    <3>1. Own(k)' = (w > 0)
      BY <2>3, <1>18
    <3>2. w > 0 <=> (h <= k /\ k < u) \/ (u < k /\ k < u + (w + 1))
      BY <2>2, <2>3, <1>16
    <3>3. QED
      BY <3>1, <3>2
  <2>4. CASE k # u + w
    <3>1. Own(k)' = Own(k)
      BY <2>4, <1>18
    <3>2. QED
      BY <3>1, <2>1, <2>2, <2>4, <1>16
  <2>5. QED
    BY <2>3, <2>4
<1>20. GivenShape(h)'
  <2>1. ASSUME NEW k \in h .. u - 1
        PROVE  k \in 0 .. NumTx - 1 /\ Piece(k)' = Piece(k) /\ desc'[At(k)'] = desc[At(k)]
    <3>1. k \in 0 .. NumTx - 1 /\ k # u + w
      BY <1>3, <1>16, <1>17, RingSize
    <3>2. QED
      BY <3>1, <1>18
  <2>2. ASSUME NEW k \in h .. u - 1
        PROVE  LET b == Piece(k)
               IN  /\ b \in Packets \X Nat \X Nat
                   /\ 1 <= b[2] /\ b[2] <= b[3]
                   /\ desc'[At(k)'].ls <=> b[2] = b[3]
                   /\ k + b[3] - b[2] < u
                   /\ \A i \in k .. k + b[3] - b[2] :
                         Piece(i)' = <<b[1], b[2] + i - k, b[3]>>
                   /\ b[2] = b[3] /\ k + 1 < u => (Piece(k + 1)[2])' = 1
    <3> DEFINE b == Piece(k)
    <3>1. /\ b \in Packets \X Nat \X Nat
          /\ 1 <= b[2] /\ b[2] <= b[3]
          /\ desc[At(k)].ls <=> b[2] = b[3]
          /\ k + b[3] - b[2] < u
          /\ \A i \in k .. k + b[3] - b[2] : Piece(i) = <<b[1], b[2] + i - k, b[3]>>
          /\ b[2] = b[3] /\ k + 1 < u => Piece(k + 1)[2] = 1
      BY <1>3, <1>16, <1>17 DEF GivenShape
    <3>2. b[2] \in Nat /\ b[3] \in Nat /\ h \in Nat
      BY <3>1, <1>3, <1>16, <1>17
    <3> HIDE DEF b
    <3>3. \A i \in k .. k + b[3] - b[2] : i \in h .. u - 1
      BY <3>1, <3>2, <1>16
    <3>4. k + 1 < u => k + 1 \in h .. u - 1
      BY <3>2, <1>16
    <3>5. \A i \in k .. k + b[3] - b[2] : Piece(i)' = <<b[1], b[2] + i - k, b[3]>>
      BY <3>1, <3>3, <2>1
    <3>6. b[2] = b[3] /\ k + 1 < u => (Piece(k + 1)[2])' = 1
      BY <3>1, <3>4, <2>1
    <3>7. desc'[At(k)'].ls <=> b[2] = b[3]
      BY <3>1, <2>1
    <3>8. QED
      BY <3>1, <3>5, <3>6, <3>7 DEF b
  <2>3. QED
    BY <2>1, <2>2, <1>14, <1>16 DEF GivenShape
<1>21. WrittenShape'
  <2> SUFFICES ASSUME NEW k \in u .. u + (w + 1) - 1
               PROVE  /\ Piece(k)' = <<ld.pkt, k - u + 1, Pieces(ld.mbufs)>>
                      /\ desc'[At(k)'].ls = FALSE
    BY <1>1, <1>7, <1>14, <1>16 DEF WrittenShape
  <2>1. k \in 0 .. NumTx - 1
    BY <1>16, RingSize
  <2>2. CASE k = u + w
    <3>1. k - u + 1 = w + 1
      BY <2>2, <1>16
    <3>2. QED
      BY <2>1, <2>2, <3>1, <1>18
  <2>3. CASE k # u + w
    <3>1. k \in Given .. Given + Writing - 1
      BY <2>3, <1>3, <1>16
    <3>2. Piece(k) = <<ld.pkt, k - u + 1, Pieces(ld.mbufs)>> /\ ~desc[At(k)].ls
      BY <3>1, <1>1, <1>3, <1>16, <1>17 DEF WrittenShape
    <3>3. desc[At(k)].ls \in BOOLEAN
      <4>1. At(k) \in Slots
        BY <2>1, <1>3, BehindIf, RingSize DEF At
      <4>2. QED
        BY <4>1 DEF TxInv, TxTypeOK
    <3>4. QED
      BY <2>1, <2>3, <3>2, <3>3, <1>18
  <2>4. QED
    BY <2>2, <2>3
<1>22. FrameShape(h)'
  <2>1. h < u => h \in 0 .. NumTx - 1 /\ h # u + w
    BY <1>3, <1>16, <1>17, RingSize
  <2>2. h < u => Piece(h)' = Piece(h)
    BY <2>1, <1>18
  <2>3. QED
    BY <2>2, <1>1, <1>3, <1>14, <1>16, <1>17 DEF FrameShape
<1>23. RingShape'
  <2>1. hwptr' = At(h)' /\ h \in 0 .. Given'
    BY <1>1, <1>3, <1>14, <1>17 DEF At
  <2>2. QED
    BY <2>1, <1>19, <1>20, <1>21, <1>22 DEF RingShape
<1>24. RingMbufs'
  <2>1. \A k \in Used .. NumTx - 1 : tx_mbuf'[At(k)'] = NULL
    BY <1>1 DEF TxInv, RingMbufs, At
  <2>2. up.running => \A k \in 0 .. u - 1 :
           (Own(k) /\ Piece(k)[2] = Piece(k)[3])' => tx_mbuf'[At(k)'] = Piece(k)'[1]
    <3> SUFFICES ASSUME up.running, NEW k \in 0 .. u - 1
                 PROVE  (Own(k) /\ Piece(k)[2] = Piece(k)[3])'
                           => tx_mbuf'[At(k)'] = Piece(k)'[1]
      OBVIOUS
    <3>1. k \in 0 .. NumTx - 1 /\ k # u + w
      BY <1>16, RingSize
    <3>2. Own(k)' = Own(k) /\ Piece(k)' = Piece(k) /\ tx_mbuf'[At(k)'] = tx_mbuf[At(k)]
      BY <3>1, <1>1, <1>13, <1>18
    <3>3. QED
      BY <3>2, <1>3, <1>16 DEF TxInv, RingMbufs
  <2>3. QED
    BY <2>1, <2>2, <1>1, <1>14, <1>16 DEF TxInv, RingMbufs
<1>25. OnePlace'
  BY <1>1, <1>7 DEF TxInv, OnePlace, InRing, Loading
<1>26. Locals'
  <2>1. ld.mbufs[ld.m] = 1
    <3>1. ld.m \in 1 .. Len(ld.mbufs) /\ ld.mbufs \in Seq({0, 1})
      BY <1>1, <1>3, Filling
    <3>2. ld.mbufs[ld.m] \in {0, 1}
      BY <3>1, ElementOfSeq
    <3>3. QED
      BY <3>2
  <2>2. ld'.nmbuf = Cardinality({k \in 1 .. ld'.m - 1 : ld'.mbufs[k] = 1})
    <3>1. ASSUME NEW mbufs, NEW m \in Nat \ {0}, mbufs[m] = 1
          PROVE  Cardinality({k \in 1 .. m : mbufs[k] = 1})
                   = Cardinality({k \in 1 .. m - 1 : mbufs[k] = 1}) + 1
      BY <3>1, OneMorePiece
    <3>2. Cardinality({k \in 1 .. ld.m : ld.mbufs[k] = 1})
            = Cardinality({k \in 1 .. ld.m - 1 : ld.mbufs[k] = 1}) + 1
      BY <2>1, <3>1, <1>3
    <3>3. ld.nmbuf = Cardinality({k \in 1 .. ld.m - 1 : ld.mbufs[k] = 1})
      BY <1>1, Filling DEF TxInv, Locals
    <3>4. ld'.m - 1 = ld.m
      BY <1>3, <1>7
    <3>5. QED
      BY <3>2, <3>3, <3>4, <1>7
  <2>3. ld'.m <= Len(ld'.mbufs) + 1
    BY <1>2, <1>7
  <2>4. ld'.num_frag = Len(ld'.mbufs) - (ld'.m - 1) + ld'.nmbuf
    <3>1. ld'.m - 1 = ld.m
      BY <1>3, <1>7
    <3>2. ld.num_frag = Len(ld.mbufs) - ld.m + (ld.nmbuf + 1)
      BY <1>2, <1>3
    <3>3. QED
      BY <3>1, <3>2, <1>7
  <2>5. ld'.at = Behind(cur_tx_wptr', ld'.nmbuf) /\ ld'.num_frag <= tx_free'
    BY <1>1, <1>7, Filling
  <2>6. /\ up'.running /\ ctl' = "idle" /\ ld'.pkt \in Packets
        /\ \E k \in DOMAIN ld'.mbufs : ld'.mbufs[k] = 1
    BY <1>1, <1>7 DEF TxInv, Locals, Loading
  <2>7. Loading'
    BY <1>1 DEF Loading
  <2>8. QED
    BY <1>1, <2>2, <2>3, <2>4, <2>5, <2>6, <2>7 DEF Locals
<1>27. Phases'
  BY <1>1 DEF TxInv, Phases
<1>28. QED
  BY <1>12, <1>15, <1>23, <1>24, <1>25, <1>26, <1>27 DEF TxInv

\* The loop is over: as many pieces as non-empty mbufs were written, at least one.
LEMMA AllWritten ==
    ASSUME TxInv, Loading, ld.m = Len(ld.mbufs) + 1
    PROVE  /\ ld.nmbuf = Pieces(ld.mbufs) /\ ld.num_frag = ld.nmbuf
           /\ ld.nmbuf \in Nat \ {0}
<1>1. /\ ld.mbufs \in Seq({0, 1}) /\ Len(ld.mbufs) \in Nat
      /\ DOMAIN ld.mbufs = 1 .. Len(ld.mbufs)
      /\ ld.nmbuf = Cardinality({k \in 1 .. ld.m - 1 : ld.mbufs[k] = 1})
      /\ ld.num_frag = Len(ld.mbufs) - (ld.m - 1) + ld.nmbuf
      /\ \E k \in DOMAIN ld.mbufs : ld.mbufs[k] = 1
      /\ ld.nmbuf \in Nat
  BY LenProperties DEF TxInv, Locals, TxTypeOK
<1>2. ld.m - 1 = Len(ld.mbufs)
  BY <1>1
<1> DEFINE S == {k \in DOMAIN ld.mbufs : ld.mbufs[k] = 1}
<1>3. {k \in 1 .. ld.m - 1 : ld.mbufs[k] = 1} = S
  BY <1>1, <1>2
<1>4. ld.nmbuf = Cardinality(S) /\ Pieces(ld.mbufs) = Cardinality(S)
  BY <1>1, <1>3 DEF Pieces
<1>5. S # {} /\ IsFiniteSet(S)
  <2>1. S # {}
    BY <1>1
  <2> PICK len \in Nat : len = Len(ld.mbufs)
    BY <1>1
  <2>2. IsFiniteSet(1 .. len)
    BY FS_Interval
  <2>3. S \in SUBSET (1 .. len)
    BY <1>1
  <2>4. QED
    BY <2>1, <2>2, <2>3, FS_Subset
<1> HIDE DEF S
<1>6. Cardinality(S) # 0
  BY <1>5, FS_EmptySet
<1>7. ld.num_frag = ld.nmbuf
  <2>1. ld.num_frag = Len(ld.mbufs) - Len(ld.mbufs) + ld.nmbuf
    BY <1>1, <1>2
  <2>2. QED
    BY <2>1, <1>1
<1>8. QED
  BY <1>1, <1>4, <1>6, <1>7

\* The last piece is marked and remembers the packet.
LEMMA MarkLastStep ==
    ASSUME TxInv, MarkLast
    PROVE  TxInv'
<1> DEFINE last == (ld.at - 1) % NumTx
<1>1. /\ pc = "fill" /\ pc' = "hand" /\ ld.m > Len(ld.mbufs)
      /\ tx_free' = tx_free - ld.num_frag
      /\ tx_mbuf' = [tx_mbuf EXCEPT ![last] = ld.pkt]
      /\ desc' = [desc EXCEPT ![last].ls = TRUE, ![last].ioc = tx_free' < MinNumTx]
      /\ UNCHANGED <<sendq, held, cur_tx_rptr, cur_tx_wptr, ld, irqwait, hk, up, ctl,
                     dma, hwptr, frame, txirq>>
  BY DEF MarkLast, ctlVars, hwVars
<1>2. ld.m = Len(ld.mbufs) + 1 /\ Loading /\ Loading'
  <2>1. /\ ld.m \in Nat /\ Len(ld.mbufs) \in Nat /\ ld.m <= Len(ld.mbufs) + 1
    BY <1>1, Filling
  <2>2. QED
    BY <1>1, <2>1 DEF Loading
<1>3. /\ ld.nmbuf = Pieces(ld.mbufs) /\ ld.num_frag = ld.nmbuf
      /\ ld.nmbuf \in Nat \ {0}
  BY <1>2, AllWritten
<1>4. PICK u \in 0 .. NumTx, n \in 1 .. NumTx, free \in 0 .. NumTx :
        /\ u = Used /\ n = ld.nmbuf /\ free = tx_free
        /\ u = NumTx - free /\ n <= free
  <2>1. /\ Used \in 0 .. NumTx /\ tx_free \in 0 .. NumTx /\ Used = NumTx - tx_free
        /\ ld.nmbuf <= tx_free
    BY <1>1, <1>3, Filling
  <2>2. ld.nmbuf \in 1 .. NumTx
    BY <1>3, <2>1, RingSize
  <2>3. QED
    BY <2>1, <2>2
<1>5. /\ Given = u /\ Writing = n /\ cur_tx_rptr \in Slots /\ ld.pkt \in Packets
      /\ ld.at = At(u + n)
  BY <1>1, <1>4, Filling
<1>6. u + n - 1 \in 0 .. NumTx - 1 /\ u + n \in 1 .. NumTx
  BY <1>4, RingSize
<1>7. last = At(u + n - 1) /\ last \in Slots
  <2>1. last = At(u + n - 1)
    BY <1>5, <1>6, BehindPrevious DEF At
  <2>2. u + n - 1 \in 0 .. NumTx
    BY <1>6, RingSize
  <2>3. QED
    BY <2>1, <2>2, <1>5, BehindIf DEF At
<1> HIDE DEF last
<1>8. /\ tx_free' = free - n /\ tx_free' \in 0 .. NumTx
      /\ Used' = u + n /\ Given' = u /\ Writing' = n
  <2>1. tx_free' = free - n
    BY <1>1, <1>3, <1>4
  <2>2. Used' = NumTx - (free - n)
    BY <2>1 DEF Used
  <2>3. Used' = u + n
    BY <2>2, <1>4, RingSize
  <2>4. Given' = u + n - n
    BY <1>1, <1>4, <2>3 DEF Given
  <2>5. Writing' = n
    BY <1>1, <1>4 DEF Writing
  <2>6. QED
    BY <2>1, <2>3, <2>4, <2>5, <1>4, RingSize
<1>9. /\ desc' \in [Slots -> Descs]
      /\ \A i \in Slots : i # last => desc'[i] = desc[i]
      /\ desc'[last].own = desc[last].own /\ desc'[last].buf = desc[last].buf
      /\ desc'[last].ls = TRUE
  <2>1. desc \in [Slots -> Descs]
    BY DEF TxInv, TxTypeOK, Descs
  <2> DEFINE few == tx_free' < MinNumTx
  <2>2. few \in BOOLEAN
    OBVIOUS
  <2>3. desc' = [desc EXCEPT ![last].ls = TRUE, ![last].ioc = few]
    BY <1>1
  <2> HIDE DEF few
  <2>4. PICK d \in [Slots -> Descs], s \in Slots, ioc \in BOOLEAN :
          d = desc /\ s = last /\ ioc = few
    BY <2>1, <2>2, <1>7
  <2> DEFINE marked == [d EXCEPT ![s].ls = TRUE]
  <2>5. desc' = [marked EXCEPT ![s].ioc = ioc]
    BY <2>3, <2>4
  <2>6. d[s] \in Descs
    BY <2>4
  <2>7. /\ marked \in [Slots -> Descs]
        /\ \A i \in Slots : i # s => marked[i] = d[i]
        /\ marked[s] = [own |-> d[s].own, ls |-> TRUE, ioc |-> d[s].ioc,
                        buf |-> d[s].buf]
    BY <2>6 DEF Descs
  <2>8. /\ marked[s] \in Descs /\ marked[s].own = d[s].own
        /\ marked[s].buf = d[s].buf /\ marked[s].ls = TRUE
    BY <2>7
  <2> HIDE DEF marked
  <2>9. [marked EXCEPT ![s].ioc = ioc][s]
          = [own |-> marked[s].own, ls |-> marked[s].ls, ioc |-> ioc,
             buf |-> marked[s].buf]
    BY <2>7, <2>8 DEF Descs
  <2>10. /\ [marked EXCEPT ![s].ioc = ioc] \in [Slots -> Descs]
         /\ \A i \in Slots : i # s => [marked EXCEPT ![s].ioc = ioc][i] = d[i]
    BY <2>7, <2>8 DEF Descs
  <2>11. QED
    BY <2>4, <2>5, <2>8, <2>9, <2>10
<1>10. ASSUME NEW k \in 0 .. NumTx - 1
       PROVE  /\ At(k)' = At(k) /\ At(k) \in Slots
              /\ Own(k)' = Own(k) /\ Piece(k)' = Piece(k)
              /\ k # u + n - 1 => /\ desc'[At(k)'] = desc[At(k)]
                                  /\ tx_mbuf'[At(k)'] = tx_mbuf[At(k)]
              /\ k = u + n - 1 => /\ desc'[At(k)'].ls = TRUE
                                  /\ tx_mbuf'[At(k)'] = ld.pkt
  <2>1. At(k)' = At(k)
    BY <1>1 DEF At
  <2>2. At(k) \in Slots
    <3>1. k \in 0 .. NumTx
      BY RingSize
    <3>2. QED
      BY <3>1, <1>5, BehindIf DEF At
  <2>3. k # u + n - 1 => At(k) # last
    BY <1>5, <1>6, <1>7, BehindOneToOne DEF At
  <2>4. k = u + n - 1 => At(k) = last
    BY <1>7
  <2>5. Own(k)' = Own(k) /\ Piece(k)' = Piece(k)
    BY <2>1, <2>2, <1>9 DEF Own, Piece
  <2>6. tx_mbuf'[last] = ld.pkt /\ \A i \in Slots : i # last => tx_mbuf'[i] = tx_mbuf[i]
    BY <1>1, <1>7 DEF TxInv, TxTypeOK
  <2>7. QED
    BY <2>1, <2>2, <2>3, <2>4, <2>5, <2>6, <1>9
<1>11. TxTypeOK'
  <2>1. tx_mbuf' \in [Slots -> Packets \cup {NULL}]
    BY <1>1, <1>5, <1>7 DEF TxInv, TxTypeOK
  <2>2. QED
    BY <1>1, <1>8, <1>9, <2>1 DEF TxInv, TxTypeOK, Descs
<1>12. Pointers'
  <2>1. At(Given)' = At(Given) /\ cur_tx_wptr = At(Given)
    BY <1>1, <1>5, <1>8 DEF TxInv, Pointers, At
  <2>2. QED
    BY <1>1, <1>4, <1>6, <1>8, <2>1, RingSize DEF Pointers
<1>13. PICK h \in 0 .. Given :
         hwptr = At(h) /\ OwnShape(h) /\ GivenShape(h) /\ WrittenShape /\ FrameShape(h)
  BY DEF TxInv, RingShape
<1>14. OwnShape(h)'
  BY <1>5, <1>8, <1>10, <1>13 DEF OwnShape
<1>15. ASSUME NEW k \in h .. u - 1
       PROVE  /\ k \in 0 .. NumTx - 1 /\ k # u + n - 1
              /\ Piece(k)' = Piece(k) /\ desc'[At(k)'] = desc[At(k)]
  <2>1. k \in 0 .. NumTx - 1 /\ k # u + n - 1
    BY <1>4, <1>5, <1>13, RingSize
  <2>2. QED
    BY <2>1, <1>10
<1>16. GivenShape(h)'
  <2>1. ASSUME NEW k \in h .. u - 1
        PROVE  LET b == Piece(k)
               IN  /\ b \in Packets \X Nat \X Nat
                   /\ 1 <= b[2] /\ b[2] <= b[3]
                   /\ desc'[At(k)'].ls <=> b[2] = b[3]
                   /\ k + b[3] - b[2] < u
                   /\ \A i \in k .. k + b[3] - b[2] :
                         Piece(i)' = <<b[1], b[2] + i - k, b[3]>>
                   /\ b[2] = b[3] /\ k + 1 < u => (Piece(k + 1)[2])' = 1
    <3> DEFINE b == Piece(k)
    <3>1. /\ b \in Packets \X Nat \X Nat
          /\ 1 <= b[2] /\ b[2] <= b[3]
          /\ desc[At(k)].ls <=> b[2] = b[3]
          /\ k + b[3] - b[2] < u
          /\ \A i \in k .. k + b[3] - b[2] : Piece(i) = <<b[1], b[2] + i - k, b[3]>>
          /\ b[2] = b[3] /\ k + 1 < u => Piece(k + 1)[2] = 1
      BY <1>5, <1>13 DEF GivenShape
    <3>2. b[2] \in Nat /\ b[3] \in Nat /\ h \in Nat
      BY <3>1, <1>4, <1>5, <1>13
    <3> HIDE DEF b
    <3>3. \A i \in k .. k + b[3] - b[2] : i \in h .. u - 1
      BY <3>1, <3>2, <1>4
    <3>4. k + 1 < u => k + 1 \in h .. u - 1
      BY <3>2, <1>4
    <3>5. \A i \in k .. k + b[3] - b[2] : Piece(i)' = <<b[1], b[2] + i - k, b[3]>>
      BY <3>1, <3>3, <1>15
    <3>6. b[2] = b[3] /\ k + 1 < u => (Piece(k + 1)[2])' = 1
      BY <3>1, <3>4, <1>15
    <3>7. desc'[At(k)'].ls <=> b[2] = b[3]
      BY <3>1, <1>15
    <3>8. QED
      BY <3>1, <3>5, <3>6, <3>7 DEF b
  <2>2. QED
    BY <2>1, <1>8, <1>15 DEF GivenShape
<1>17. WrittenShape'
  <2>1. ASSUME NEW k \in u .. u + n - 1
        PROVE  /\ Piece(k)' = <<ld.pkt, k - u + 1, Pieces(ld.mbufs)>>
               /\ desc'[At(k)'].ls <=> k = u + n - 1
    <3>1. k \in 0 .. NumTx - 1
      BY <1>4, RingSize
    <3>2. Piece(k) = <<ld.pkt, k - u + 1, Pieces(ld.mbufs)>> /\ ~desc[At(k)].ls
      BY <1>1, <1>5, <1>13 DEF WrittenShape
    <3>3. Piece(k)' = <<ld.pkt, k - u + 1, Pieces(ld.mbufs)>>
      BY <3>1, <3>2, <1>10
    <3>4. CASE k = u + n - 1
      BY <3>1, <3>3, <3>4, <1>10
    <3>5. CASE k # u + n - 1
      <4>1. desc'[At(k)'] = desc[At(k)]
        BY <3>1, <3>5, <1>10
      <4>2. QED
        BY <3>2, <3>3, <3>5, <4>1
    <3>6. QED
      BY <3>4, <3>5
  <2>2. /\ Given' = u /\ Writing' = n /\ Used' - 1 = u + n - 1 /\ pc' = "hand"
        /\ ld' = ld
    BY <1>1, <1>8
  <2>3. QED
    BY <2>1, <2>2 DEF WrittenShape
<1>18. FrameShape(h)'
  <2>1. h < u => h \in h .. u - 1
    BY <1>4, <1>5, <1>13
  <2>2. h < u => Piece(h)' = Piece(h)
    BY <2>1, <1>15
  <2>3. QED
    BY <2>2, <1>1, <1>5, <1>8, <1>13 DEF FrameShape
<1>19. RingShape'
  <2>1. hwptr' = At(h)' /\ h \in 0 .. Given'
    BY <1>1, <1>5, <1>8, <1>13 DEF At
  <2>2. QED
    BY <2>1, <1>14, <1>16, <1>17, <1>18 DEF RingShape
<1>20. RingMbufs'
  <2>1. \A k \in u + n .. NumTx - 1 : tx_mbuf'[At(k)'] = NULL
    <3> TAKE k \in u + n .. NumTx - 1
    <3>1. k \in 0 .. NumTx - 1 /\ k \in Used .. NumTx - 1 /\ k # u + n - 1
      BY <1>4, RingSize
    <3>2. QED
      BY <3>1, <1>10 DEF TxInv, RingMbufs
  <2>2. up.running => \A k \in 0 .. u - 1 :
           (Own(k) /\ Piece(k)[2] = Piece(k)[3])' => tx_mbuf'[At(k)'] = Piece(k)'[1]
    <3> SUFFICES ASSUME up.running, NEW k \in 0 .. u - 1
                 PROVE  (Own(k) /\ Piece(k)[2] = Piece(k)[3])'
                           => tx_mbuf'[At(k)'] = Piece(k)'[1]
      OBVIOUS
    <3>1. k \in 0 .. NumTx - 1 /\ k # u + n - 1
      BY <1>4, RingSize
    <3>2. Own(k)' = Own(k) /\ Piece(k)' = Piece(k) /\ tx_mbuf'[At(k)'] = tx_mbuf[At(k)]
      BY <3>1, <1>10
    <3>3. QED
      BY <3>2, <1>5 DEF TxInv, RingMbufs
  <2>3. up'.running
    BY <1>1 DEF TxInv, Locals
  <2>4. QED
    BY <2>1, <2>2, <2>3, <1>1, <1>8 DEF RingMbufs
<1>21. OnePlace'
  <2>1. tx_mbuf'[last] = ld.pkt /\ \A i \in Slots : i # last => tx_mbuf'[i] = tx_mbuf[i]
    BY <1>1, <1>7 DEF TxInv, TxTypeOK
  <2>2. tx_mbuf[last] = NULL
    <3>1. u + n - 1 \in Used .. NumTx - 1
      BY <1>4, RingSize
    <3>2. QED
      BY <3>1, <1>7 DEF TxInv, RingMbufs
  <2>3. \A i \in Slots : tx_mbuf[i] # ld.pkt
    BY <1>1, <1>2 DEF TxInv, OnePlace
  <2>4. \A p \in Packets : InRing(p)' <=> InRing(p) \/ p = ld.pkt
    BY <2>1, <2>2, <1>7, TxAssumption DEF InRing
  <2>5. held' = {sendq'[k] : k \in DOMAIN sendq'}
                  \cup {p \in Packets : InRing(p)'} \cup {ld.pkt}
    BY <1>1, <1>2, <1>5, <2>4 DEF TxInv, OnePlace
  <2>6. \A i, j \in Slots : tx_mbuf'[i] = tx_mbuf'[j] /\ tx_mbuf'[i] # NULL => i = j
    BY <2>1, <2>3 DEF TxInv, OnePlace
  <2>7. \A i \in Slots, j \in DOMAIN sendq' : tx_mbuf'[i] # sendq'[j]
    BY <1>1, <1>2, <2>1 DEF TxInv, OnePlace
  <2>8. QED
    BY <1>1, <1>2, <2>5, <2>6, <2>7 DEF TxInv, OnePlace
<1>22. Locals'
  <2>1. (tx_mbuf[At(Used - 1)])' = ld.pkt
    <3>1. Used' - 1 = u + n - 1
      BY <1>8
    <3>2. (tx_mbuf[At(Used - 1)])' = tx_mbuf'[Behind(cur_tx_rptr', u + n - 1)]
      BY <3>1 DEF At
    <3>3. QED
      BY <3>2, <1>6, <1>10 DEF At
  <2>2. QED
    BY <1>1, <1>2, <2>1 DEF TxInv, Locals
<1>23. Phases'
  BY <1>1 DEF TxInv, Phases
<1>24. QED
  BY <1>11, <1>12, <1>19, <1>20, <1>21, <1>22, <1>23 DEF TxInv

\* The first descriptor of the packet is handed over, and with it the packet.
LEMMA HandOverStep ==
    ASSUME TxInv, HandOver
    PROVE  TxInv'
<1>1. /\ pc = "hand" /\ pc' = "poll" /\ ld' = NoLoad /\ cur_tx_wptr' = ld.at
      /\ desc' = [desc EXCEPT ![cur_tx_wptr].own = TRUE]
      /\ UNCHANGED <<sendq, held, tx_mbuf, tx_free, cur_tx_rptr, irqwait, hk, up, ctl,
                     dma, hwptr, frame, txirq>>
  BY DEF HandOver, ctlVars, hwVars
<1>2. Loading /\ ~Loading' /\ ld.m = Len(ld.mbufs) + 1
  BY <1>1 DEF Loading, TxInv, Locals
<1>3. ld.nmbuf = Pieces(ld.mbufs) /\ ld.nmbuf \in Nat \ {0}
  BY <1>2, AllWritten
<1>4. PICK u \in 0 .. NumTx, g \in 0 .. NumTx, n \in 1 .. NumTx :
        u = Used /\ g = Given /\ n = ld.nmbuf /\ u = g + n
  <2>1. PICK n \in Nat \ {0} : n = ld.nmbuf
    BY <1>3
  <2>2. Given = Used - n /\ Writing = n
    BY <1>1, <2>1 DEF Given, Writing
  <2>3. PICK u \in 0 .. NumTx : u = Used
    BY RingSize DEF Used, TxInv, TxTypeOK
  <2>4. PICK g \in 0 .. NumTx : g = Given
    BY DEF TxInv, Pointers
  <2>5. g = u - n /\ g + n <= NumTx
    BY <2>2, <2>3, <2>4 DEF TxInv, Pointers
  <2>6. n \in 1 .. NumTx /\ u = g + n
    BY <2>5, RingSize
  <2>7. QED
    BY <2>1, <2>3, <2>4, <2>6
<1>5. /\ Used' = u /\ Given' = u /\ Writing' = 0 /\ Writing = n
      /\ cur_tx_rptr \in Slots /\ ld.pkt \in Packets
  BY <1>1, <1>2, <1>4 DEF Used, Given, Writing, TxInv, TxTypeOK, Locals
<1>6. cur_tx_wptr = At(g) /\ ld.at = At(u) /\ cur_tx_wptr \in Slots /\ ld.at \in Slots
  <2>1. cur_tx_wptr = At(g) /\ ld.at = Behind(cur_tx_wptr, n)
    BY <1>2, <1>4 DEF TxInv, Pointers, Locals
  <2>2. Behind(Behind(cur_tx_rptr, g), n) = Behind(cur_tx_rptr, g + n)
    BY <1>4, <1>5, BehindTwice, RingSize
  <2>3. QED
    BY <2>1, <2>2, <1>4 DEF At, TxInv, TxTypeOK
<1>7. g \in 0 .. NumTx - 1 /\ u - 1 \in 0 .. NumTx - 1
  BY <1>4, RingSize
<1>8. /\ desc' \in [Slots -> Descs]
      /\ \A i \in Slots : i # cur_tx_wptr => desc'[i] = desc[i]
      /\ desc'[cur_tx_wptr].own = TRUE
      /\ desc'[cur_tx_wptr].ls = desc[cur_tx_wptr].ls
      /\ desc'[cur_tx_wptr].buf = desc[cur_tx_wptr].buf
  <2>1. desc \in [Slots -> Descs] /\ desc[cur_tx_wptr] \in Descs
    BY <1>6 DEF TxInv, TxTypeOK, Descs
  <2>2. desc'[cur_tx_wptr]
          = [own |-> TRUE, ls |-> desc[cur_tx_wptr].ls, ioc |-> desc[cur_tx_wptr].ioc,
             buf |-> desc[cur_tx_wptr].buf]
    BY <2>1, <1>1, <1>6 DEF Descs
  <2>3. desc' \in [Slots -> Descs] /\ \A i \in Slots : i # cur_tx_wptr => desc'[i] = desc[i]
    BY <2>1, <1>1, <1>6 DEF Descs
  <2>4. QED
    BY <2>2, <2>3
<1>9. ASSUME NEW k \in 0 .. NumTx - 1
      PROVE  /\ At(k)' = At(k) /\ At(k) \in Slots
             /\ Piece(k)' = Piece(k)
             /\ k # g => Own(k)' = Own(k)
             /\ k = g => Own(k)'
             /\ desc'[At(k)'].ls = desc[At(k)].ls
             /\ tx_mbuf'[At(k)'] = tx_mbuf[At(k)]
  <2>1. At(k)' = At(k)
    BY <1>1 DEF At
  <2>2. At(k) \in Slots
    <3>1. k \in 0 .. NumTx
      BY RingSize
    <3>2. QED
      BY <3>1, <1>5, BehindIf DEF At
  <2>3. k # g => At(k) # cur_tx_wptr
    BY <1>5, <1>6, <1>7, BehindOneToOne DEF At
  <2>4. desc'[At(k)].buf = desc[At(k)].buf /\ desc'[At(k)].ls = desc[At(k)].ls
    BY <2>2, <1>8
  <2>5. k # g => Own(k)' = Own(k)
    BY <2>1, <2>2, <2>3, <1>8 DEF Own
  <2>6. k = g => Own(k)'
    BY <2>1, <1>6, <1>8 DEF Own
  <2>7. QED
    BY <2>1, <2>2, <2>4, <2>5, <2>6, <1>1 DEF Piece
<1>10. TxTypeOK'
  BY <1>1, <1>6, <1>8, NoLoadType DEF TxInv, TxTypeOK, Descs, Loads
<1>11. Pointers'
  <2>1. At(Given)' = At(u)
    BY <1>1, <1>5 DEF At
  <2>2. QED
    BY <1>1, <1>4, <1>5, <1>6, <2>1, RingSize DEF Pointers
<1>12. PICK h \in 0 .. g :
         hwptr = At(h) /\ OwnShape(h) /\ GivenShape(h) /\ WrittenShape /\ FrameShape(h)
  BY <1>4 DEF TxInv, RingShape
<1>13. OwnShape(h)'
  <2>1. ASSUME NEW k \in 0 .. NumTx - 1
        PROVE  Own(k)' <=> h <= k /\ k < u
    <3>1. CASE k = g
      BY <1>4, <1>9, <1>12, <3>1
    <3>2. CASE k # g
      <4>1. Own(k) <=> (h <= k /\ k < g) \/ (g < k /\ k < g + n)
        BY <1>4, <1>5, <1>12 DEF OwnShape
      <4>2. Own(k)' <=> Own(k)
        BY <1>9, <3>2
      <4>3. QED
        BY <4>1, <4>2, <3>2, <1>4, <1>12
    <3>3. QED
      BY <3>1, <3>2
  <2>2. QED
    BY <2>1, <1>5 DEF OwnShape
\* The pieces of the packet, and that it begins behind the packets before it.
<1>14. ASSUME NEW k \in g .. u - 1
       PROVE  /\ k \in 0 .. NumTx - 1
              /\ Piece(k) = <<ld.pkt, k - g + 1, n>>
              /\ desc[At(k)].ls <=> k = u - 1
  BY <1>1, <1>3, <1>4, <1>5, <1>12, RingSize DEF WrittenShape
<1>15. GivenShape(h)'
  <2>1. ASSUME NEW k \in h .. u - 1
        PROVE  LET b == Piece(k)
               IN  /\ b \in Packets \X Nat \X Nat
                   /\ 1 <= b[2] /\ b[2] <= b[3]
                   /\ desc'[At(k)'].ls <=> b[2] = b[3]
                   /\ k + b[3] - b[2] < u
                   /\ \A i \in k .. k + b[3] - b[2] :
                         Piece(i)' = <<b[1], b[2] + i - k, b[3]>>
                   /\ b[2] = b[3] /\ k + 1 < u => (Piece(k + 1)[2])' = 1
    <3>1. k \in 0 .. NumTx - 1
      BY <1>4, <1>12, RingSize
    <3>2. CASE k < g
      <4> DEFINE b == Piece(k)
      <4>1. /\ b \in Packets \X Nat \X Nat
            /\ 1 <= b[2] /\ b[2] <= b[3]
            /\ desc[At(k)].ls <=> b[2] = b[3]
            /\ k + b[3] - b[2] < g
            /\ \A i \in k .. k + b[3] - b[2] : Piece(i) = <<b[1], b[2] + i - k, b[3]>>
            /\ b[2] = b[3] /\ k + 1 < g => Piece(k + 1)[2] = 1
        <5>1. k \in h .. g - 1
          BY <3>2, <1>12
        <5>2. QED
          BY <5>1, <1>4, <1>12 DEF GivenShape
      <4>2. b[2] \in Nat /\ b[3] \in Nat
        BY <4>1
      <4> HIDE DEF b
      <4>3. \A i \in k .. k + b[3] - b[2] : i \in 0 .. NumTx - 1
        BY <4>1, <4>2, <3>1, <1>7, RingSize
      <4>4. \A i \in k .. k + b[3] - b[2] : Piece(i)' = <<b[1], b[2] + i - k, b[3]>>
        BY <4>1, <4>3, <1>9
      <4>5. k + b[3] - b[2] < u
        BY <4>1, <4>2, <3>1, <1>4
      <4>6. b[2] = b[3] /\ k + 1 < u => (Piece(k + 1)[2])' = 1
        <5>1. CASE k + 1 < g
          <6>1. k + 1 \in 0 .. NumTx - 1
            BY <5>1, <3>1, <1>7, RingSize
          <6>2. QED
            BY <6>1, <5>1, <4>1, <1>9
        <5>2. CASE k + 1 = g
          <6>1. Piece(g) = <<ld.pkt, g - g + 1, n>>
            BY <1>4, <1>14
          <6>2. Piece(g)' = Piece(g)
            BY <1>7, <1>9
          <6>3. g - g + 1 = 1
            BY <1>4
          <6>4. QED
            BY <5>2, <6>1, <6>2, <6>3
        <5>3. QED
          BY <5>1, <5>2, <3>1, <3>2, <1>7
      <4>7. desc'[At(k)'].ls <=> b[2] = b[3]
        BY <4>1, <3>1, <1>9
      <4>8. QED
        BY <4>1, <4>4, <4>5, <4>6, <4>7 DEF b
    <3>3. CASE k >= g
      <4>1. k \in g .. u - 1
        BY <3>3, <1>4
      <4>2. Piece(k) = <<ld.pkt, k - g + 1, n>> /\ (desc[At(k)].ls <=> k = u - 1)
        BY <4>1, <1>14
      <4>3. k - g + 1 \in Nat /\ 1 <= k - g + 1 /\ k - g + 1 <= n /\ n \in Nat
        BY <4>1, <1>4
      <4>4. k + n - (k - g + 1) = u - 1
        BY <4>1, <1>4
      <4>5. \A i \in k .. u - 1 : Piece(i)' = <<ld.pkt, (k - g + 1) + i - k, n>>
        <5> TAKE i \in k .. u - 1
        <5>1. i \in g .. u - 1
          BY <4>1, <1>4
        <5>2. Piece(i) = <<ld.pkt, i - g + 1, n>> /\ i \in 0 .. NumTx - 1
          BY <5>1, <1>14
        <5>3. (k - g + 1) + i - k = i - g + 1
          BY <5>1, <4>1, <1>4
        <5>4. QED
          BY <5>2, <5>3, <1>9
      <4>6. k = u - 1 <=> k - g + 1 = n
        <5>1. k \in Int /\ g \in Int /\ n \in Int /\ u = g + n
          BY <4>1, <1>4, RingSize
        <5>2. QED
          BY <5>1
      <4>7. desc'[At(k)'].ls <=> k - g + 1 = n
        BY <4>2, <4>6, <3>1, <1>9
      <4>8. k - g + 1 = n => ~(k + 1 < u)
        BY <4>1, <1>4
      <4> DEFINE b == <<ld.pkt, k - g + 1, n>>
      <4>9. b[1] = ld.pkt /\ b[2] = k - g + 1 /\ b[3] = n /\ b \in Packets \X Nat \X Nat
        BY <4>3, <1>5
      <4> HIDE DEF b
      <4>10. /\ 1 <= b[2] /\ b[2] <= b[3]
             /\ desc'[At(k)'].ls <=> b[2] = b[3]
             /\ k + b[3] - b[2] = u - 1 /\ u - 1 < u
             /\ b[2] = b[3] => ~(k + 1 < u)
        BY <4>3, <4>4, <4>7, <4>8, <4>9, <1>4
      <4>11. \A i \in k .. k + b[3] - b[2] : Piece(i)' = <<b[1], b[2] + i - k, b[3]>>
        BY <4>5, <4>9, <4>10
      <4>12. Piece(k) = b
        BY <4>2 DEF b
      <4>13. QED
        BY <4>9, <4>10, <4>11, <4>12
    <3>4. QED
      BY <3>2, <3>3, <3>1, <1>4
  <2>2. ASSUME NEW k \in h .. u - 1 PROVE Piece(k)' = Piece(k)
    BY <1>4, <1>9, <1>12, RingSize
  <2>3. QED
    BY <2>1, <2>2, <1>5 DEF GivenShape
<1>16. WrittenShape'
  <2>1. Given' .. Given' + Writing' - 1 = {}
    BY <1>4, <1>5
  <2>2. QED
    BY <2>1 DEF WrittenShape
<1>17. FrameShape(h)'
  <2>1. Piece(h)' = Piece(h)
    <3>1. h \in 0 .. NumTx - 1
      BY <1>7, <1>12, RingSize
    <3>2. QED
      BY <3>1, <1>9
  <2>2. h = g => Piece(h)[2] = 1
    <3>1. Piece(g) = <<ld.pkt, g - g + 1, n>> /\ g - g + 1 = 1
      BY <1>4, <1>14
    <3>2. QED
      BY <3>1
  <2>3. h < u /\ (h < g \/ h = g)
    BY <1>4, <1>12
  <2>4. QED
    BY <2>1, <2>2, <2>3, <1>1, <1>4, <1>5, <1>12 DEF FrameShape
<1>18. RingShape'
  <2>1. hwptr' = At(h)' /\ h \in 0 .. Given'
    BY <1>1, <1>4, <1>5, <1>12 DEF At
  <2>2. QED
    BY <2>1, <1>13, <1>15, <1>16, <1>17 DEF RingShape
<1>19. tx_mbuf[At(u - 1)] = ld.pkt
  BY <1>1, <1>4 DEF TxInv, Locals
<1>20. RingMbufs'
  <2>1. \A k \in u .. NumTx - 1 : tx_mbuf'[At(k)'] = NULL
    <3> TAKE k \in u .. NumTx - 1
    <3>1. k \in 0 .. NumTx - 1
      BY <1>4
    <3>2. QED
      BY <3>1, <1>4, <1>9 DEF TxInv, RingMbufs
  <2>2. up.running => \A k \in 0 .. u - 1 :
           (Own(k) /\ Piece(k)[2] = Piece(k)[3])' => tx_mbuf'[At(k)'] = Piece(k)'[1]
    <3> SUFFICES ASSUME up.running, NEW k \in 0 .. u - 1
                 PROVE  (Own(k) /\ Piece(k)[2] = Piece(k)[3])'
                           => tx_mbuf'[At(k)'] = Piece(k)'[1]
      OBVIOUS
    <3>1. k \in 0 .. NumTx - 1
      BY <1>4, RingSize
    <3>2. Piece(k)' = Piece(k) /\ tx_mbuf'[At(k)'] = tx_mbuf[At(k)]
      BY <3>1, <1>9
    <3>3. CASE k < g
      <4>1. k \in 0 .. Given - 1 /\ k # g
        BY <3>3, <1>4
      <4>2. Own(k)' = Own(k)
        BY <4>1, <3>1, <1>9
      <4>3. QED
        BY <4>1, <4>2, <3>2 DEF TxInv, RingMbufs
    <3>4. CASE k >= g
      <4>1. k \in g .. u - 1
        BY <3>4, <1>4
      <4>2. Piece(k) = <<ld.pkt, k - g + 1, n>>
        BY <4>1, <1>14
      <4>3. k - g + 1 = n => k = u - 1
        BY <4>1, <1>4
      <4>4. QED
        BY <3>2, <4>2, <4>3, <1>19
    <3>5. QED
      BY <3>3, <3>4, <3>1, <1>4
  <2>3. up'.running
    BY <1>1 DEF TxInv, Locals
  <2>4. QED
    BY <2>1, <2>2, <2>3, <1>1, <1>5 DEF RingMbufs
<1>21. OnePlace'
  <2>1. InRing(ld.pkt)
    BY <1>7, <1>9, <1>19 DEF InRing
  <2>2. \A p : InRing(p)' = InRing(p)
    BY <1>1 DEF InRing
  <2>3. held' = {sendq'[k] : k \in DOMAIN sendq'} \cup {p \in Packets : InRing(p)'}
    BY <1>1, <1>2, <1>5, <2>1, <2>2 DEF TxInv, OnePlace
  <2>4. QED
    BY <1>1, <1>2, <2>3 DEF TxInv, OnePlace
<1>22. Locals'
  BY <1>1, <1>2 DEF TxInv, Locals
<1>23. Phases'
  BY <1>1 DEF TxInv, Phases
<1>24. QED
  BY <1>10, <1>11, <1>18, <1>20, <1>21, <1>22, <1>23 DEF TxInv

\* The DMA reads the next piece of a packet and gives its descriptor back.
LEMMA HwFetchStep ==
    ASSUME TxInv, HwFetch
    PROVE  TxInv'
<1> DEFINE d == desc[hwptr]
<1>1. /\ dma # "off" /\ d.own
      /\ frame' = IF d.ls THEN <<>> ELSE Append(frame, d.buf)
      /\ txirq' = (txirq \/ (d.ls /\ d.ioc))
      /\ desc' = [desc EXCEPT ![hwptr] = [NoDesc EXCEPT !.ls = d.ls]]
      /\ hwptr' = Next1(hwptr)
      /\ UNCHANGED <<sendq, held, tx_mbuf, tx_free, cur_tx_rptr, cur_tx_wptr, pc, ld,
                     irqwait, hk, up, ctl, dma>>
  BY DEF HwFetch, startVars, ctlVars
<1>2. /\ hwptr \in Slots /\ cur_tx_rptr \in Slots /\ frame \in Seq(Packets \X Nat \X Nat)
      /\ desc \in [Slots -> Descs] /\ d \in Descs
  BY DEF TxInv, TxTypeOK, Descs
<1>3. PICK g \in 0 .. NumTx : g = Given
  BY DEF TxInv, Pointers
<1>4. PICK h \in 0 .. g :
        hwptr = At(h) /\ OwnShape(h) /\ GivenShape(h) /\ WrittenShape /\ FrameShape(h)
  BY <1>3 DEF TxInv, RingShape
<1> HIDE DEF d
<1>5. /\ SameWriting /\ Given' = g /\ Writing' = Writing /\ Used' = Used
      /\ Writing \in Nat
  BY <1>1, <1>3 DEF SameWriting, Given, Writing, Used, TxInv, TxTypeOK
\* The DMA has not read all of the ring, and what it reads was handed over.
<1>6. h < g /\ h \in 0 .. NumTx - 1 /\ h + 1 \in 0 .. g
  <2>1. CASE h = NumTx
    <3>1. At(h) = At(0) /\ 0 \in 0 .. NumTx - 1
      BY <2>1, <1>2, BehindRound, RingSize DEF At
    <3>2. Own(0)
      BY <3>1, <1>1, <1>4 DEF Own, d
    <3>3. ~(h <= 0) /\ ~(g < 0)
      BY <2>1, <1>3, RingSize
    <3>4. QED
      BY <3>1, <3>2, <3>3, <1>3, <1>4 DEF OwnShape
  <2>2. CASE h # NumTx
    <3>1. h \in 0 .. NumTx - 1
      BY <2>2, <1>3, <1>4, RingSize
    <3>2. Own(h)
      BY <1>1, <1>4 DEF Own, d
    <3>3. h < g \/ g < h
      BY <3>1, <3>2, <1>3, <1>4 DEF OwnShape
    <3>4. QED
      BY <3>1, <3>3, <1>3, <1>4
  <2>3. QED
    BY <2>1, <2>2
<1>7. d = desc[At(h)] /\ d.buf = Piece(h)
  BY <1>4 DEF d, Piece
<1>8. PICK b \in Packets \X Nat \X Nat :
        /\ b = Piece(h) /\ b = d.buf
        /\ 1 <= b[2] /\ b[2] <= b[3]
        /\ d.ls <=> b[2] = b[3]
        /\ h + b[3] - b[2] < g
        /\ \A i \in h .. h + b[3] - b[2] : Piece(i) = <<b[1], b[2] + i - h, b[3]>>
        /\ b[2] = b[3] /\ h + 1 < g => Piece(h + 1)[2] = 1
  <2>1. h \in h .. Given - 1
    BY <1>3, <1>4, <1>6
  <2>2. QED
    BY <2>1, <1>3, <1>4, <1>7 DEF GivenShape
<1>9. b[1] \in Packets /\ b[2] \in Nat /\ b[3] \in Nat /\ b = <<b[1], b[2], b[3]>>
  BY <1>8
<1>10. /\ Len(frame) \in Nat /\ b[2] = Len(frame) + 1
       /\ \A k \in 1 .. Len(frame) : frame[k] = <<b[1], k, b[3]>>
  <2>1. CASE frame = <<>>
    <3>1. Len(frame) = 0 /\ b[2] = 1
      BY <2>1, <1>1, <1>3, <1>4, <1>6, <1>8 DEF FrameShape
    <3>2. QED
      BY <3>1
  <2>2. CASE frame # <<>>
    BY <2>2, <1>1, <1>2, <1>4, <1>8, LenProperties DEF FrameShape
  <2>3. QED
    BY <2>1, <2>2
\* The descriptor is clean but for the flag the reap looks at.
<1>11. /\ desc' \in [Slots -> Descs] /\ ~desc'[hwptr].own
       /\ \A i \in Slots : i # hwptr => desc'[i] = desc[i]
  <2>1. d.ls \in BOOLEAN
    BY <1>2 DEF Descs
  <2> DEFINE e == [NoDesc EXCEPT !.ls = d.ls]
  <2>2. e \in Descs /\ ~e.own
    BY <2>1 DEF Descs, NoDesc
  <2>3. desc' = [desc EXCEPT ![hwptr] = e]
    BY <1>1
  <2> HIDE DEF e
  <2>4. QED
    BY <2>2, <2>3, <1>2
<1>12. ASSUME NEW k \in 0 .. NumTx - 1
       PROVE  /\ At(k)' = At(k)
              /\ k = h => ~Own(k)'
              /\ k # h => Own(k)' = Own(k) /\ Piece(k)' = Piece(k)
                           /\ desc'[At(k)'] = desc[At(k)]
  <2>1. At(k)' = At(k)
    BY <1>1 DEF At
  <2>2. At(k) \in Slots
    <3>1. k \in 0 .. NumTx
      BY RingSize
    <3>2. QED
      BY <3>1, <1>2, BehindIf DEF At
  <2>3. k # h => At(k) # hwptr
    BY <1>2, <1>4, <1>6, BehindOneToOne DEF At
  <2>4. k # h => desc'[At(k)] = desc[At(k)]
    BY <2>2, <2>3, <1>11
  <2>5. k = h => ~Own(k)'
    BY <2>1, <1>4, <1>11 DEF Own
  <2>6. QED
    BY <2>1, <2>4, <2>5 DEF Own, Piece
<1>13. hwptr' = At(h + 1)' /\ hwptr' \in Slots
  <2>1. hwptr' = At(h + 1)
    BY <1>1, <1>2, <1>4, <1>6, BehindNext DEF At
  <2>2. At(h + 1)' = At(h + 1)
    BY <1>1 DEF At
  <2>3. h + 1 \in 0 .. NumTx
    BY <1>6, RingSize
  <2>4. QED
    BY <2>1, <2>2, <2>3, <1>2, BehindIf DEF At
<1>14. frame' \in Seq(Packets \X Nat \X Nat)
  BY <1>1, <1>2, <1>8, AppendProperties
<1>15. TxTypeOK'
  <2>1. txirq' \in BOOLEAN
    BY <1>1, <1>2 DEF TxInv, TxTypeOK
  <2>2. QED
    BY <2>1, <1>1, <1>11, <1>13, <1>14 DEF TxInv, TxTypeOK, Descs
<1>16. Pointers'
  BY <1>1, <1>3, <1>5 DEF TxInv, Pointers, At
<1>17. OwnShape(h + 1)'
  <2>1. ASSUME NEW k \in 0 .. NumTx - 1
        PROVE  Own(k)' <=> (h + 1 <= k /\ k < g) \/ (g < k /\ k < g + Writing)
    <3>1. CASE k = h
      BY <1>6, <1>12, <3>1
    <3>2. CASE k # h
      <4>1. Own(k) <=> (h <= k /\ k < g) \/ (g < k /\ k < g + Writing)
        BY <1>3, <1>4 DEF OwnShape
      <4>2. Own(k)' <=> Own(k)
        BY <1>12, <3>2
      <4>3. h <= k <=> h + 1 <= k
        BY <3>2, <1>6
      <4>4. QED
        BY <4>1, <4>2, <4>3
    <3>3. QED
      BY <3>1, <3>2
  <2>2. QED
    BY <2>1, <1>5 DEF OwnShape
<1>18. GivenShape(h + 1)'
  <2>1. ASSUME NEW k \in h + 1 .. g - 1
        PROVE  LET c == Piece(k)
               IN  /\ c \in Packets \X Nat \X Nat
                   /\ 1 <= c[2] /\ c[2] <= c[3]
                   /\ desc'[At(k)'].ls <=> c[2] = c[3]
                   /\ k + c[3] - c[2] < g
                   /\ \A i \in k .. k + c[3] - c[2] :
                         Piece(i)' = <<c[1], c[2] + i - k, c[3]>>
                   /\ c[2] = c[3] /\ k + 1 < g => (Piece(k + 1)[2])' = 1
    <3> DEFINE c == Piece(k)
    <3>1. /\ c \in Packets \X Nat \X Nat
          /\ 1 <= c[2] /\ c[2] <= c[3]
          /\ desc[At(k)].ls <=> c[2] = c[3]
          /\ k + c[3] - c[2] < g
          /\ \A i \in k .. k + c[3] - c[2] : Piece(i) = <<c[1], c[2] + i - k, c[3]>>
          /\ c[2] = c[3] /\ k + 1 < g => Piece(k + 1)[2] = 1
      <4>1. k \in h .. g - 1
        BY <1>6
      <4>2. QED
        BY <4>1, <1>3, <1>4 DEF GivenShape
    <3>2. c[2] \in Nat /\ c[3] \in Nat
      BY <3>1
    <3> HIDE DEF c
    <3>3. k \in 0 .. NumTx - 1 /\ k # h
      BY <1>3, <1>6, RingSize
    <3>4. \A i \in k .. k + c[3] - c[2] : i \in 0 .. NumTx - 1 /\ i # h
      BY <3>1, <3>2, <3>3, <1>3, <1>6, RingSize
    <3>5. \A i \in k .. k + c[3] - c[2] : Piece(i)' = <<c[1], c[2] + i - k, c[3]>>
      BY <3>1, <3>4, <1>12
    <3>6. k + 1 < g => k + 1 \in 0 .. NumTx - 1 /\ k + 1 # h
      BY <3>3, <1>3, <1>6, RingSize
    <3>7. c[2] = c[3] /\ k + 1 < g => (Piece(k + 1)[2])' = 1
      BY <3>1, <3>6, <1>12
    <3>8. desc'[At(k)'].ls <=> c[2] = c[3]
      BY <3>1, <3>3, <1>12
    <3>9. QED
      BY <3>1, <3>5, <3>7, <3>8 DEF c
  <2>2. ASSUME NEW k \in h + 1 .. g - 1 PROVE Piece(k)' = Piece(k)
    <3>1. k \in 0 .. NumTx - 1 /\ k # h
      BY <1>3, <1>6, RingSize
    <3>2. QED
      BY <3>1, <1>12
  <2>3. QED
    BY <2>1, <2>2, <1>5 DEF GivenShape
<1>19. WrittenShape'
  <2>1. ASSUME NEW k \in g .. g + Writing - 1
        PROVE  Piece(k)' = Piece(k) /\ desc'[At(k)'] = desc[At(k)]
    <3>1. k \in 0 .. NumTx - 1 /\ k # h
      <4>1. g + Writing <= NumTx
        BY <1>3 DEF TxInv, Pointers
      <4>2. PICK w \in Nat : w = Writing
        BY <1>5
      <4>3. QED
        BY <4>1, <4>2, <1>3, <1>6, RingSize
    <3>2. QED
      BY <3>1, <1>12
  <2>2. ASSUME NEW k \in g .. g + Writing - 1
        PROVE  /\ Piece(k) = <<ld.pkt, k - g + 1, Pieces(ld.mbufs)>>
               /\ desc[At(k)].ls <=> pc = "hand" /\ k = Used - 1
    BY <1>3, <1>4 DEF WrittenShape
  <2>3. pc' = pc /\ ld' = ld
    BY <1>1
  <2>4. QED
    BY <2>1, <2>2, <2>3, <1>5 DEF WrittenShape
<1>20. FrameShape(h + 1)'
  <2>1. h + 1 < g => /\ h + 1 \in 0 .. NumTx - 1 /\ h + 1 # h
                     /\ Piece(h + 1)' = Piece(h + 1)
    <3>1. h + 1 < g => h + 1 \in 0 .. NumTx - 1 /\ h + 1 # h
      BY <1>3, <1>6, RingSize
    <3>2. QED
      BY <3>1, <1>12
  <2>2. CASE d.ls
    <3>1. frame' = <<>> /\ b[2] = b[3]
      BY <1>1, <1>8, <2>2
    <3>2. h + 1 < g => (Piece(h + 1)[2])' = 1
      BY <3>1, <2>1, <1>8
    <3>3. QED
      BY <3>1, <3>2, <1>5 DEF FrameShape
  <2>3. CASE ~d.ls
    <3>1. frame' = Append(frame, b) /\ b[2] < b[3]
      BY <1>1, <1>8, <1>9, <2>3
    <3>2. /\ Len(frame') = Len(frame) + 1 /\ frame'[Len(frame) + 1] = b
          /\ \A k \in 1 .. Len(frame) : frame'[k] = frame[k]
          /\ frame' # <<>>
      BY <3>1, <1>2, AppendProperties
    <3>3. h + 1 < g /\ h + 1 \in h .. h + b[3] - b[2]
      BY <3>1, <1>6, <1>8, <1>9, <1>3
    <3>4. Piece(h + 1) = <<b[1], b[2] + (h + 1) - h, b[3]>>
      BY <3>3, <1>8
    <3>5. b[2] + (h + 1) - h = b[2] + 1
      BY <1>6, <1>9
    <3>6. Piece(h + 1)' = <<b[1], b[2] + 1, b[3]>>
      BY <2>1, <3>3, <3>4, <3>5
    <3>7. (Piece(h + 1)[2])' = Len(frame') + 1
      BY <3>2, <3>6, <1>10
    <3>8. \A k \in 1 .. Len(frame) + 1 : frame'[k] = <<b[1], k, b[3]>>
      <4> TAKE k \in 1 .. Len(frame) + 1
      <4>1. CASE k = Len(frame) + 1
        BY <4>1, <3>2, <1>9, <1>10
      <4>2. CASE k # Len(frame) + 1
        <5>1. k \in 1 .. Len(frame)
          BY <4>2, <1>10
        <5>2. QED
          BY <5>1, <3>2, <1>10
      <4>3. QED
        BY <4>1, <4>2
    <3>9. QED
      BY <3>2, <3>3, <3>6, <3>7, <3>8, <1>5 DEF FrameShape
  <2>4. QED
    BY <2>2, <2>3
<1>21. RingShape'
  BY <1>5, <1>6, <1>13, <1>17, <1>18, <1>19, <1>20 DEF RingShape
<1>22. RingMbufs'
  <2>1. \A k \in Used .. NumTx - 1 : tx_mbuf'[At(k)'] = NULL
    BY <1>1 DEF TxInv, RingMbufs, At
  <2>2. up.running => \A k \in 0 .. g - 1 :
           (Own(k) /\ Piece(k)[2] = Piece(k)[3])' => tx_mbuf'[At(k)'] = Piece(k)'[1]
    <3> SUFFICES ASSUME up.running, NEW k \in 0 .. g - 1, Own(k)', k # h
                 PROVE  (Piece(k)[2] = Piece(k)[3])' => tx_mbuf'[At(k)'] = Piece(k)'[1]
      BY <1>6, <1>12
    <3>1. k \in 0 .. NumTx - 1
      BY <1>3, RingSize
    <3>2. Own(k) /\ Piece(k)' = Piece(k) /\ tx_mbuf'[At(k)'] = tx_mbuf[At(k)]
      BY <3>1, <1>1, <1>12
    <3>3. QED
      BY <3>2, <1>3 DEF TxInv, RingMbufs
  <2>3. QED
    BY <2>1, <2>2, <1>1, <1>5 DEF TxInv, RingMbufs
<1>23. OnePlace'
  <2>1. \A p : InRing(p)' = InRing(p)
    BY <1>1 DEF InRing
  <2>2. Loading' = Loading
    BY <1>1 DEF Loading
  <2>3. held' = {sendq'[k] : k \in DOMAIN sendq'} \cup {p \in Packets : InRing(p)'}
                  \cup (IF Loading' THEN {ld'.pkt} ELSE {})
    BY <1>1, <2>1, <2>2 DEF TxInv, OnePlace
  <2>4. QED
    BY <1>1, <2>2, <2>3 DEF TxInv, OnePlace
<1>24. Locals'
  BY <1>1, <1>5 DEF TxInv, Locals, Loading, At
<1>25. Phases'
  BY <1>1 DEF TxInv, Phases
<1>26. QED
  BY <1>15, <1>16, <1>21, <1>22, <1>23, <1>24, <1>25 DEF TxInv

\* The ring at start: the DMA is off and owns nothing.
LEMMA InitTxInv == Init => TxInv
<1> SUFFICES ASSUME Init PROVE TxInv
  OBVIOUS
<1>1. 0 \in Slots /\ Behind(0, 0) = 0
  BY RingSize, BehindRound DEF Slots
<1>2. /\ sendq = <<>> /\ held = {} /\ tx_free = NumTx /\ cur_tx_rptr = 0 /\ cur_tx_wptr = 0
      /\ desc = [i \in Slots |-> NoDesc] /\ tx_mbuf = [i \in Slots |-> NULL]
      /\ pc = "idle" /\ ld = NoLoad /\ irqwait = FALSE /\ hk = FALSE /\ txirq = FALSE
      /\ up = [running |-> FALSE, link |-> FALSE]
      /\ ctl = "idle" /\ dma = "off" /\ hwptr = 0 /\ frame = <<>>
  BY DEF Init
<1>3. Used = 0 /\ Given = 0 /\ Writing = 0
  BY <1>2, RingSize DEF Used, Given, Writing
<1>4. TxTypeOK
  <2>1. NoDesc \in Descs
    BY DEF NoDesc, Descs
  <2>2. desc \in [Slots -> Descs] /\ tx_mbuf \in [Slots -> Packets \cup {NULL}]
    BY <1>2, <2>1
  <2>3. tx_free \in 0 .. NumTx
    BY <1>2, RingSize
  <2>4. sendq \in Seq(Packets) /\ frame \in Seq(Packets \X Nat \X Nat)
    BY <1>2
  <2>5. QED
    BY <1>1, <1>2, <2>2, <2>3, <2>4, NoLoadType DEF TxTypeOK, Descs, Loads
<1>5. Pointers
  BY <1>1, <1>2, <1>3, RingSize DEF Pointers, At
<1>6. Locals /\ Phases /\ ~Loading
  BY <1>2 DEF Locals, Phases, Loading
<1>7. RingShape
  <2>1. hwptr = At(0)
    BY <1>1, <1>2 DEF At
  <2>2. OwnShape(0)
    <3>1. \A k \in 0 .. NumTx - 1 : ~Own(k)
      <4> TAKE k \in 0 .. NumTx - 1
      <4>1. At(k) \in Slots
        BY <1>1, <1>2, BehindIf, RingSize DEF At
      <4>2. QED
        BY <4>1, <1>2 DEF Own, NoDesc
    <3>2. QED
      BY <3>1, <1>3 DEF OwnShape
  <2>3. GivenShape(0) /\ WrittenShape
    BY <1>3 DEF GivenShape, WrittenShape
  <2>4. FrameShape(0)
    BY <1>2 DEF FrameShape
  <2>5. QED
    BY <1>3, <2>1, <2>2, <2>3, <2>4 DEF RingShape
<1>8. RingMbufs
  <2>1. \A k \in 0 .. NumTx - 1 : At(k) \in Slots
    BY <1>1, <1>2, BehindIf, RingSize DEF At
  <2>2. QED
    BY <1>2, <1>3, <2>1 DEF RingMbufs
<1>9. OnePlace
  <2>1. \A p \in Packets : ~InRing(p)
    BY <1>2, TxAssumption DEF InRing
  <2>2. QED
    BY <1>2, <1>6, <2>1 DEF OnePlace
<1>10. QED
  BY <1>4, <1>5, <1>6, <1>7, <1>8, <1>9 DEF TxInv

\* What the seven parts of TxInv say holds in every state of the driver, for
\* every ring size, every set of packets and every fragmentation of them.
THEOREM TxInvariant == Spec => []TxInv
<1>1. Init => TxInv
  BY InitTxInv
<1>2. TxInv /\ [Next]_vars => TxInv'
  <2> SUFFICES ASSUME TxInv, [Next]_vars PROVE TxInv'
    OBVIOUS
  <2>1. ASSUME NEW p \in Packets, Send(p) PROVE TxInv'
    BY <2>1, SendStep
  <2>2. CASE Start
    <3>1. CASE StartReap \/ HugeReap
      BY <3>1, ReapStep
    <3>2. CASE StartDone
      BY <3>2, CalmStep
    <3>3. CASE Dequeue
      BY <3>3, DequeueStep
    <3>4. CASE HugeFits \/ Defrag
      BY <3>4, FitsStep
    <3>5. CASE FillDesc
      BY <3>5, FillEmptyStep, FillPieceStep
    <3>6. CASE MarkLast
      BY <3>6, MarkLastStep
    <3>7. CASE HandOver
      BY <3>7, HandOverStep
    <3>8. QED
      BY <2>2, <3>1, <3>2, <3>3, <3>4, <3>5, <3>6, <3>7 DEF Start
  <2>3. CASE IrqCheck \/ StopBegin \/ SoftReset \/ LinkChange \/ HwStop
    BY <2>3, CalmStep
  <2>4. CASE IrqReap \/ HkReap
    BY <2>4, ReapStep
  <2>5. CASE HwFetch
    BY <2>5, HwFetchStep
  <2>6. CASE StopFree
    BY <2>6, StopFreeStep
  <2>7. CASE InitRing
    BY <2>7, InitRingStep
  <2>8. CASE UNCHANGED vars
    <3>1. UNCHANGED <<sendq, held, desc, tx_mbuf, tx_free, cur_tx_rptr, cur_tx_wptr, pc,
                      ld, irqwait, hk, up, ctl, dma, hwptr, frame, txirq>>
      BY <2>8 DEF vars, ring, startVars, ctlVars, hwVars
    <3>2. SameWriting /\ Used \in 0 .. NumTx
      BY <3>1, RingSize DEF SameWriting, TxInv, TxTypeOK, Used
    <3>3. Pointers' /\ RingShape' /\ RingMbufs'
      BY <3>1, <3>2, RingKept, MbufsKept DEF TxInv
    <3>4. TxTypeOK'
      BY <3>1 DEF TxInv, TxTypeOK
    <3>5. Locals'
      BY <3>1 DEF TxInv, Locals, Loading, Used, At
    <3>6. Phases'
      BY <3>1 DEF TxInv, Phases
    <3>7. OnePlace'
      BY <3>1 DEF TxInv, OnePlace, Loading, InRing
    <3>8. QED
      BY <3>3, <3>4, <3>5, <3>6, <3>7 DEF TxInv
  <2>9. QED
    BY <2>1, <2>2, <2>3, <2>4, <2>5, <2>6, <2>7, <2>8 DEF Next, Hardware, Control
<1>3. QED
  BY <1>1, <1>2, PTL DEF Spec

\* The types of the driver's state.
THEOREM TxTypes == Spec => []TxTypeOK
<1>1. TxInv => TxTypeOK
  BY DEF TxInv
<1>2. QED
  BY <1>1, TxInvariant, PTL

\* What tx_free counts is the distance of the two pointers, however the reaps
\* and start interleave, and outside it the DMA owns nothing but what start is
\* writing.
THEOREM TxRingAccounting == Spec => []RingAccounting
<1>1. TxInv => RingAccounting
  <2> SUFFICES ASSUME TxInv PROVE RingAccounting
    OBVIOUS
  <2>a. Used \in 0 .. NumTx
    BY RingSize DEF TxInv, TxTypeOK, Used
  <2>b. Given \in 0 .. NumTx
    BY DEF TxInv, Pointers
  <2>1. PICK u \in 0 .. NumTx, g \in 0 .. NumTx : u = Used /\ g = Given
    BY <2>a, <2>b
  <2>2. PICK h \in 0 .. g : OwnShape(h)
    BY <2>1 DEF TxInv, RingShape
  <2>3. cur_tx_rptr \in Slots /\ cur_tx_wptr = Behind(cur_tx_rptr, g)
    BY <2>1 DEF TxInv, TxTypeOK, Pointers, At
  <2>4. CASE pc = "hand"
    <3>1. ld.nmbuf \in Nat /\ ld.at = Behind(cur_tx_wptr, ld.nmbuf)
      BY <2>4 DEF TxInv, TxTypeOK, Locals, Loading
    <3>2. PICK n \in 0 .. NumTx : n = ld.nmbuf /\ g + n = u /\ Writing = n
      <4>1. PICK n \in Nat : n = ld.nmbuf
        BY <3>1
      <4>2. g = u - n /\ Writing = n /\ g + n <= NumTx
        BY <2>1, <2>4, <4>1 DEF Given, Writing, TxInv, Pointers
      <4>3. n \in 0 .. NumTx /\ g + n = u
        BY <4>2, <2>1, RingSize
      <4>4. QED
        BY <4>1, <4>2, <4>3
    <3>3. Behind(Behind(cur_tx_rptr, g), n) = Behind(cur_tx_rptr, u)
      BY <2>1, <2>3, <3>2, BehindTwice, RingSize
    <3>4. \A k \in u .. NumTx - 1 : ~Own(k)
      BY <2>1, <2>2, <3>2, RingSize DEF OwnShape
    <3>5. \A k \in Used + 0 .. NumTx - 1 : ~desc[Behind(cur_tx_rptr, k)].own
      BY <3>4, <2>1 DEF Own, At
    <3>6. QED
      BY <2>1, <2>3, <2>4, <3>1, <3>2, <3>3, <3>5 DEF RingAccounting
  <2>5. CASE pc # "hand"
    <3>1. g = u /\ Writing = (IF pc = "fill" THEN ld.nmbuf ELSE 0) /\ Writing \in Nat
      BY <2>1, <2>5 DEF Given, Writing, TxInv, TxTypeOK
    <3>2. \A k \in u + Writing .. NumTx - 1 : ~Own(k)
      BY <2>1, <2>2, <3>1, RingSize DEF OwnShape
    <3>3. \A k \in Used + Writing .. NumTx - 1 : ~desc[Behind(cur_tx_rptr, k)].own
      BY <3>2, <2>1 DEF Own, At
    <3>4. QED
      BY <2>1, <2>3, <2>5, <3>1, <3>3 DEF RingAccounting
  <2>6. QED
    BY <2>4, <2>5
<1>2. QED
  BY <1>1, TxInvariant, PTL

\* Whatever of a handed-over packet the DMA may still read belongs to a packet
\* the ring holds.
LEMMA GivenIsHeld ==
    ASSUME TxInv, up.running,
           NEW g \in 0 .. NumTx, g = Given, NEW h \in 0 .. g, OwnShape(h), GivenShape(h),
           NEW k \in h .. g - 1
    PROVE  Piece(k)[1] \in held
<1> DEFINE b == Piece(k)
<1>1. /\ b \in Packets \X Nat \X Nat
      /\ 1 <= b[2] /\ b[2] <= b[3] /\ k + b[3] - b[2] < g
      /\ \A i \in k .. k + b[3] - b[2] : Piece(i) = <<b[1], b[2] + i - k, b[3]>>
  BY DEF GivenShape
<1> HIDE DEF b
<1>2. b[1] \in Packets /\ b[2] \in Nat /\ b[3] \in Nat
  BY <1>1
<1>3. PICK l \in h .. g - 1 : l = k + b[3] - b[2] /\ k <= l
  <2>1. k + b[3] - b[2] \in h .. g - 1 /\ k <= k + b[3] - b[2]
    BY <1>1, <1>2
  <2>2. QED
    BY <2>1
<1>4. b[2] + l - k = b[3] /\ l \in k .. k + b[3] - b[2]
  BY <1>2, <1>3
<1>5. Piece(l) = <<b[1], b[3], b[3]>>
  BY <1>1, <1>4
<1>6. l \in 0 .. NumTx - 1 /\ l \in 0 .. Given - 1
  BY RingSize
<1>7. Own(l)
  BY <1>6 DEF OwnShape
<1>8. tx_mbuf[At(l)] = b[1]
  BY <1>5, <1>6, <1>7 DEF TxInv, RingMbufs
<1>9. At(l) \in Slots
  BY <1>6, BehindIf, RingSize DEF At, TxInv, TxTypeOK
<1>10. InRing(b[1])
  BY <1>8, <1>9 DEF InRing
<1>11. QED
  BY <1>2, <1>10 DEF TxInv, OnePlace, b

\* While the DMA runs or is stopping it reads no packet the driver has freed,
\* neither from the descriptors it owns nor for the frame it has begun.
THEOREM TxOwnedIsHeld == Spec => []OwnedIsHeld
<1>1. TxInv => OwnedIsHeld
  <2> SUFFICES ASSUME TxInv, dma \in {"run", "stopping"}
               PROVE  /\ \A i \in Slots : desc[i].own => desc[i].buf[1] \in held
                      /\ \A k \in DOMAIN frame : frame[k][1] \in held
    BY DEF OwnedIsHeld
  <2>1. up.running /\ dma # "off"
    BY DEF TxInv, Phases, TxTypeOK
  <2>2. PICK g \in 0 .. NumTx : g = Given
    BY DEF TxInv, Pointers
  <2>3. PICK h \in 0 .. g : OwnShape(h) /\ GivenShape(h) /\ WrittenShape /\ FrameShape(h)
    BY <2>2 DEF TxInv, RingShape
  <2>4. ASSUME NEW i \in Slots, desc[i].own PROVE desc[i].buf[1] \in held
    <3>1. PICK k \in 0 .. NumTx - 1 : i = At(k)
      BY BehindOnto DEF At, TxInv, TxTypeOK
    <3>2. Own(k) /\ Piece(k) = desc[i].buf
      BY <2>4, <3>1 DEF Own, Piece
    <3>3. (h <= k /\ k < g) \/ (g < k /\ k < g + Writing)
      BY <2>2, <2>3, <3>2 DEF OwnShape
    <3>4. CASE h <= k /\ k < g
      <4>1. k \in h .. g - 1
        BY <3>4, <2>2
      <4>2. QED
        BY <4>1, <2>1, <2>2, <2>3, <3>2, GivenIsHeld
    <3>5. CASE g < k /\ k < g + Writing
      <4>1. Writing \in Nat /\ Writing # 0
        BY <3>5, <2>2 DEF Writing, TxInv, TxTypeOK
      <4>2. Loading
        BY <4>1 DEF Writing, Loading
      <4>3. k \in g .. g + Writing - 1
        BY <3>5, <4>1, <2>2
      <4>4. Piece(k)[1] = ld.pkt
        BY <4>3, <2>2, <2>3 DEF WrittenShape
      <4>5. QED
        BY <4>2, <4>4, <3>2 DEF TxInv, OnePlace
    <3>6. QED
      BY <3>3, <3>4, <3>5
  <2>5. ASSUME NEW k \in DOMAIN frame PROVE frame[k][1] \in held
    <3>1. frame # <<>> /\ k \in 1 .. Len(frame)
      BY SMTT(40), <2>5, LenProperties DEF TxInv, TxTypeOK
    <3>2. h < g /\ frame[k][1] = Piece(h)[1]
      BY <3>1, <2>1, <2>2, <2>3 DEF FrameShape
    <3>3. h \in h .. g - 1
      BY <3>2, <2>2
    <3>4. QED
      BY <3>2, <3>3, <2>1, <2>2, <2>3, GivenIsHeld
  <2>6. QED
    BY <2>4, <2>5
<1>2. QED
  BY <1>1, TxInvariant, PTL

LEMMA AtMostOne ==
    ASSUME NEW S, \A x, y \in S : x = y
    PROVE  /\ Cardinality(S) \in {0, 1}
           /\ S = {} => Cardinality(S) = 0
<1>1. CASE S = {}
  BY <1>1, FS_EmptySet
<1>2. CASE S # {}
  <2>1. PICK x \in S : TRUE
    BY <1>2
  <2>2. S = {x}
    BY <2>1
  <2>3. Cardinality({x}) = 1
    BY FS_Singleton
  <2>4. QED
    BY <2>2, <2>3, <1>2
<1>3. QED
  BY <1>1, <1>2

\* No packet the driver has is lost or kept twice: it is queued, in start's
\* hands or in one slot of the ring.
THEOREM TxNoMbufLost == Spec => []NoMbufLost
<1>1. TxInv => NoMbufLost
  <2> SUFFICES ASSUME TxInv, NEW p \in Packets
               PROVE  Cardinality({i \in Slots : tx_mbuf[i] = p})
                        + Cardinality({k \in DOMAIN sendq : sendq[k] = p})
                        + (IF pc \in {"fill", "huge", "fits", "defrag"} /\ ld.pkt = p
                           THEN 1 ELSE 0) <= 1
    BY DEF NoMbufLost, TxInv, OnePlace
  <2> DEFINE R == {i \in Slots : tx_mbuf[i] = p}
             Q == {k \in DOMAIN sendq : sendq[k] = p}
             inHand == pc \in {"fill", "huge", "fits", "defrag"} /\ ld.pkt = p
  <2>1. /\ \A i, j \in R : i = j
        /\ \A i, j \in Q : i = j
        /\ R = {} \/ Q = {}
    BY TxAssumption DEF TxInv, OnePlace
  <2>2. inHand => R = {} /\ Q = {}
    BY DEF TxInv, OnePlace, Loading
  <2> HIDE DEF R, Q, inHand
  <2>3. Cardinality(R) \in {0, 1} /\ (R = {} => Cardinality(R) = 0)
    BY <2>1, AtMostOne
  <2>4. Cardinality(Q) \in {0, 1} /\ (Q = {} => Cardinality(Q) = 0)
    BY <2>1, AtMostOne
  <2>5. Cardinality(R) + Cardinality(Q) + (IF inHand THEN 1 ELSE 0) <= 1
    BY <2>1, <2>2, <2>3, <2>4
  <2>6. QED
    BY <2>5 DEF R, Q, inHand
<1>2. QED
  BY <1>1, TxInvariant, PTL

-----------------------------------------------------------------------------
\* What the DMA can reach is exactly what was handed over and not yet read: it
\* meets a descriptor it does not own right behind that.
LEMMA ReachableIs ==
    ASSUME NEW g \in 0 .. NumTx, NEW h \in 0 .. g, cur_tx_rptr \in Slots,
           g = Given, hwptr = At(h), OwnShape(h)
    PROVE  Reachable = [k \in 1 .. g - h |-> desc[At(h + k - 1)]]
<1> DEFINE S == {n \in 0 .. NumTx :
                   \A k \in 0 .. n - 1 : desc[Behind(hwptr, k)].own}
<1>1. ASSUME NEW k \in 0 .. NumTx, h + k <= NumTx PROVE Behind(hwptr, k) = At(h + k)
  <2>1. h \in 0 .. NumTx
    BY RingSize
  <2>2. Behind(Behind(cur_tx_rptr, h), k) = Behind(cur_tx_rptr, h + k)
    BY <1>1, <2>1, BehindTwice
  <2>3. QED
    BY <2>2 DEF At
<1>2. g - h \in S
  <2>1. g - h \in 0 .. NumTx
    BY RingSize
  <2>2. \A k \in 0 .. g - h - 1 : desc[Behind(hwptr, k)].own
    <3> TAKE k \in 0 .. g - h - 1
    <3>1. k \in 0 .. NumTx /\ h + k <= NumTx /\ h + k \in 0 .. NumTx - 1
          /\ h <= h + k /\ h + k < g
      BY RingSize
    <3>2. Own(h + k)
      BY <3>1 DEF OwnShape
    <3>3. QED
      BY <3>1, <3>2, <1>1 DEF Own
  <2>3. QED
    BY <2>1, <2>2
<1>3. \A n \in S : n <= g - h
  <2> SUFFICES ASSUME NEW n \in S, ~(n <= g - h) PROVE FALSE
    OBVIOUS
  <2>1. n \in 0 .. NumTx /\ g - h \in 0 .. n - 1 /\ g - h \in 0 .. NumTx /\ h + (g - h) = g
    BY RingSize
  <2>2. desc[At(g)].own
    BY <2>1, <1>1, RingSize
  <2>3. CASE g < NumTx
    <3>1. g \in 0 .. NumTx - 1 /\ ~(g < g)
      BY <2>3, RingSize
    <3>2. QED
      BY <2>2, <3>1 DEF OwnShape, Own
  <2>4. CASE g = NumTx
    <3>1. h > 0 /\ 0 \in 0 .. NumTx - 1 /\ ~(h <= 0) /\ ~(g < 0)
      BY <2>1, <2>4, RingSize
    <3>2. At(g) = At(0)
      BY <2>4, BehindRound DEF At
    <3>3. QED
      BY <2>2, <3>1, <3>2 DEF OwnShape, Own
  <2>5. QED
    BY <2>3, <2>4, RingSize
<1>4. S \in SUBSET Nat /\ S # {} /\ g - h \in Nat
  BY <1>2, RingSize
<1>5. PICK run \in Nat : run = Max(S) /\ run = g - h
  <2> HIDE DEF S
  <2>1. Max(S) \in S /\ \A n \in S : n <= Max(S)
    <3> PICK b \in Nat : b = g - h
      BY <1>4
    <3>1. QED
      BY <1>3, <1>4, MaxOf
  <2>2. Max(S) \in Nat /\ Max(S) <= g - h /\ g - h <= Max(S)
    BY <2>1, <1>2, <1>3, <1>4
  <2>3. QED
    BY <2>2, <1>4
<1>6. Reachable = [k \in 1 .. run |-> desc[Behind(hwptr, k - 1)]]
  BY <1>5 DEF Reachable
<1>7. \A k \in 1 .. run : desc[Behind(hwptr, k - 1)] = desc[At(h + k - 1)]
  <2> TAKE k \in 1 .. run
  <2>1. k - 1 \in 0 .. NumTx /\ h + (k - 1) <= NumTx /\ h + (k - 1) = h + k - 1
    BY <1>5, RingSize
  <2>2. QED
    BY <2>1, <1>1
<1>8. QED
  BY <1>5, <1>6, <1>7

\* A sequence followed by the values of a function.
LEMMA Joined ==
    ASSUME NEW T, NEW s \in Seq(T), NEW n \in Nat, NEW f \in [1 .. n -> T]
    PROVE  /\ Len(s) \in Nat
           /\ Len(s \o f) = Len(s) + n /\ DOMAIN (s \o f) = 1 .. Len(s) + n
           /\ \A k \in 1 .. Len(s) : (s \o f)[k] = s[k]
           /\ \A k \in 1 .. n : (s \o f)[Len(s) + k] = f[k]
           /\ s \o f = <<>> <=> Len(s) + n = 0
<1>1. f \in Seq(T)
  BY SeqDef
<1>2. Len(f) = n
  BY <1>1, LenProperties
<1>3. /\ s \o f \in Seq(T) /\ Len(s \o f) = Len(s) + n
      /\ \A k \in 1 .. Len(s) + n :
            (s \o f)[k] = IF k <= Len(s) THEN s[k] ELSE f[k - Len(s)]
  BY <1>1, <1>2, ConcatProperties
<1>4. Len(s) \in Nat
  BY LenProperties
<1>5. DOMAIN (s \o f) = 1 .. Len(s) + n
  BY <1>3, LenProperties
<1>6. \A k \in 1 .. Len(s) : (s \o f)[k] = s[k]
  BY <1>3, <1>4
<1>7. ASSUME NEW k \in 1 .. n PROVE (s \o f)[Len(s) + k] = f[k]
  <2>1. PICK l \in Nat : l = Len(s)
    BY <1>4
  <2>2. l + k \in 1 .. l + n /\ ~(l + k <= l) /\ l + k - l = k
    BY <2>1
  <2>3. QED
    BY <2>1, <2>2, <1>3
<1>8. s \o f = <<>> <=> Len(s) + n = 0
  BY <1>3, EmptySeq
<1>9. QED
  BY <1>3, <1>4, <1>5, <1>6, <1>7, <1>8

\* What the DMA has fetched of a frame and what it can reach is whole packets.
THEOREM TxFramesWhole == Spec => []FramesWhole
<1>1. TxInv => FramesWhole
  <2> SUFFICES ASSUME TxInv, dma # "off" PROVE FramesWhole
    BY DEF FramesWhole
  <2> DEFINE R == Reachable
             bufs == [k \in DOMAIN R |-> R[k].buf]
             all == frame \o bufs
             first(k) == k = 1 \/ all[k - 1][2] = all[k - 1][3]
             T == Packets \X Nat \X Nat
  <2>1. PICK g \in 0 .. NumTx : g = Given
    BY DEF TxInv, Pointers
  <2>2. PICK h \in 0 .. g : hwptr = At(h) /\ OwnShape(h) /\ GivenShape(h) /\ FrameShape(h)
    BY <2>1 DEF TxInv, RingShape
  <2>3. PICK n \in Nat : n = g - h
    BY RingSize
  <2>4. R = [k \in 1 .. n |-> desc[At(h + k - 1)]]
    BY <2>1, <2>2, <2>3, ReachableIs DEF TxInv, TxTypeOK
  <2> HIDE DEF R
\* P[k]: the k-th piece that the DMA can reach.
  <2> DEFINE P == [k \in 1 .. n |-> Piece(h + k - 1)]
  <2>5. bufs = P
    BY <2>4 DEF Piece
  <2>6. ASSUME NEW k \in 1 .. n
        PROVE  /\ P[k] \in T /\ P[k] = <<P[k][1], P[k][2], P[k][3]>>
               /\ P[k][2] \in Nat /\ P[k][3] \in Nat /\ P[k][2] <= P[k][3]
               /\ R[k].ls <=> P[k][2] = P[k][3]
               /\ k + P[k][3] - P[k][2] <= n
               /\ P[k][2] < P[k][3] =>
                    k + 1 <= n /\ P[k + 1] = <<P[k][1], P[k][2] + 1, P[k][3]>>
               /\ P[k][2] = P[k][3] /\ k + 1 <= n => P[k + 1][2] = 1
    <3> DEFINE j == h + k - 1
               b == Piece(j)
    <3>1. j \in h .. g - 1
      BY <2>3
    <3>2. /\ b \in Packets \X Nat \X Nat
          /\ 1 <= b[2] /\ b[2] <= b[3]
          /\ desc[At(j)].ls <=> b[2] = b[3]
          /\ j + b[3] - b[2] < g
          /\ \A i \in j .. j + b[3] - b[2] : Piece(i) = <<b[1], b[2] + i - j, b[3]>>
          /\ b[2] = b[3] /\ j + 1 < g => Piece(j + 1)[2] = 1
      BY <3>1, <2>1, <2>2 DEF GivenShape
    <3>3. P[k] = b /\ R[k] = desc[At(j)]
      BY <2>4
    <3>4. k + 1 <= n => P[k + 1] = Piece(j + 1) /\ j + 1 < g
      <4> SUFFICES ASSUME k + 1 <= n PROVE P[k + 1] = Piece(j + 1) /\ j + 1 < g
        OBVIOUS
      <4>1. k + 1 \in 1 .. n /\ h + (k + 1) - 1 = j + 1 /\ j + 1 < g
        BY <2>3
      <4>2. QED
        BY <4>1
    <3> HIDE DEF b, P
    <3>5. b[2] \in Nat /\ b[3] \in Nat /\ b = <<b[1], b[2], b[3]>>
      BY <3>2
    <3>6. k + b[3] - b[2] <= n
      BY <3>2, <3>5, <2>3
    <3>7. b[2] < b[3] => k + 1 <= n /\ P[k + 1] = <<b[1], b[2] + 1, b[3]>>
      <4> SUFFICES ASSUME b[2] < b[3]
                   PROVE  k + 1 <= n /\ P[k + 1] = <<b[1], b[2] + 1, b[3]>>
        OBVIOUS
      <4>1. k + 1 <= n
        BY <3>5, <3>6
      <4>2. j + 1 \in j .. j + b[3] - b[2] /\ b[2] + (j + 1) - j = b[2] + 1
        BY <3>1, <3>5
      <4>3. Piece(j + 1) = <<b[1], b[2] + (j + 1) - j, b[3]>>
        BY <4>2, <3>2
      <4>4. QED
        BY <4>1, <4>2, <4>3, <3>4
    <3>8. QED
      BY <3>2, <3>3, <3>4, <3>5, <3>6, <3>7
  <2>7. frame \in Seq(T) /\ P \in [1 .. n -> T]
    BY <2>6 DEF TxInv, TxTypeOK
  <2> HIDE DEF P
  <2>8. PICK f \in Nat :
          /\ f = Len(frame)
          /\ Len(all) = f + n /\ DOMAIN all = 1 .. f + n
          /\ \A k \in 1 .. f : all[k] = frame[k]
          /\ \A k \in 1 .. n : all[f + k] = P[k]
          /\ all = <<>> <=> f + n = 0
          /\ DOMAIN bufs = 1 .. n /\ \A k \in 1 .. n : bufs[k] = P[k]
    <3>1. /\ Len(frame) \in Nat
          /\ Len(frame \o P) = Len(frame) + n
          /\ DOMAIN (frame \o P) = 1 .. Len(frame) + n
          /\ \A k \in 1 .. Len(frame) : (frame \o P)[k] = frame[k]
          /\ \A k \in 1 .. n : (frame \o P)[Len(frame) + k] = P[k]
          /\ frame \o P = <<>> <=> Len(frame) + n = 0
      <4> HIDE DEF T
      <4>1. PICK s \in Seq(T), p \in [1 .. n -> T] : s = frame /\ p = P
        BY <2>7
      <4>2. /\ Len(s) \in Nat
            /\ Len(s \o p) = Len(s) + n /\ DOMAIN (s \o p) = 1 .. Len(s) + n
            /\ \A k \in 1 .. Len(s) : (s \o p)[k] = s[k]
            /\ \A k \in 1 .. n : (s \o p)[Len(s) + k] = p[k]
            /\ s \o p = <<>> <=> Len(s) + n = 0
        BY Joined
      <4>3. QED
        BY <4>1, <4>2
    <3>2. DOMAIN P = 1 .. n
      BY <2>7
    <3>3. all = frame \o P
      BY <2>5
    <3> HIDE DEF all, bufs
    <3>4. QED
      BY <3>1, <3>2, <3>3, <2>5
  <2> HIDE DEF bufs
\* The frame the DMA has begun goes on with the first piece it can reach.
  <2>9. f = 0 => n = 0 \/ P[1][2] = 1
    <3> SUFFICES ASSUME f = 0, n # 0 PROVE P[1][2] = 1
      OBVIOUS
    <3>1. frame = <<>> /\ h < g
      BY <2>3, <2>7, <2>8, EmptySeq
    <3>2. P[1] = Piece(h)
      <4>1. 1 \in 1 .. n /\ h + 1 - 1 = h
        BY <2>3
      <4>2. QED
        BY <4>1 DEF P
    <3>3. QED
      BY <3>1, <3>2, <2>1, <2>2 DEF FrameShape
  <2>10. f # 0 => /\ 1 \in 1 .. n /\ P[1][2] = f + 1
                  /\ \A k \in 1 .. f : frame[k] = <<P[1][1], k, P[1][3]>>
    <3> SUFFICES ASSUME f # 0
                 PROVE  /\ 1 \in 1 .. n /\ P[1][2] = f + 1
                        /\ \A k \in 1 .. f : frame[k] = <<P[1][1], k, P[1][3]>>
      OBVIOUS
    <3>1. frame # <<>>
      BY <2>8, EmptySeq
    <3>2. /\ h < g /\ Piece(h)[2] = f + 1
          /\ \A k \in 1 .. f : frame[k] = <<Piece(h)[1], k, Piece(h)[3]>>
      BY <3>1, <2>1, <2>2, <2>8 DEF FrameShape
    <3>3. 1 \in 1 .. n /\ h + 1 - 1 = h
      BY <3>2, <2>3
    <3>4. P[1] = Piece(h)
      BY <3>3 DEF P
    <3>5. QED
      BY <3>2, <3>3, <3>4
  <2> HIDE DEF all
  <2>11. ASSUME NEW k \in DOMAIN all
         PROVE  IF first(k) THEN all[k][2] = 1
                ELSE all[k] = <<all[k - 1][1], all[k - 1][2] + 1, all[k - 1][3]>>
    <3>1. k \in 1 .. f + n
      BY <2>8
    <3>2. CASE k <= f
      <4>1. /\ f # 0 /\ k \in 1 .. f /\ 1 \in 1 .. n
            /\ all[k] = <<P[1][1], k, P[1][3]>> /\ P[1][2] = f + 1
        BY <3>1, <3>2, <2>8, <2>10
      <4>2. P[1][3] \in Nat /\ f + 1 <= P[1][3]
        BY <4>1, <2>6
      <4>3. CASE k = 1
        BY <4>1, <4>3
      <4>4. CASE k # 1
        <5>1. k - 1 \in 1 .. f
          BY <4>1, <4>4
        <5>2. all[k - 1] = <<P[1][1], k - 1, P[1][3]>>
          BY <5>1, <4>1, <2>8, <2>10
        <5>3. PICK q \in Nat : q = P[1][3] /\ f + 1 <= q
          BY <4>2
        <5>4. k - 1 # q /\ k - 1 + 1 = k
          <6>1. k \in 1 .. f /\ k - 1 < f
            BY <4>1
          <6>2. QED
            BY <6>1, <5>3
        <5>5. ~first(k)
          BY <4>4, <5>2, <5>3, <5>4
        <5>6. QED
          BY <4>1, <5>2, <5>4, <5>5
      <4>5. QED
        BY <4>3, <4>4
    <3>3. CASE k = f + 1
      <4>1. 1 \in 1 .. n /\ all[k] = P[1]
        BY <3>1, <3>3, <2>8
      <4>2. CASE f = 0
        <5>1. k = 1 /\ all[k][2] = 1
          BY <3>3, <4>1, <4>2, <2>9
        <5>2. QED
          BY <5>1
      <4>3. CASE f # 0
        <5>1. k - 1 = f /\ f \in 1 .. f /\ k # 1
          BY <3>3, <4>3
        <5>2. all[k - 1] = <<P[1][1], f, P[1][3]>> /\ P[1][2] = f + 1
          BY <5>1, <4>3, <2>8, <2>10
        <5>3. P[1] = <<P[1][1], P[1][2], P[1][3]>> /\ P[1][3] \in Nat /\ P[1][2] <= P[1][3]
          BY <4>1, <2>6
        <5>4. f # P[1][3]
          BY <5>2, <5>3
        <5>5. QED
          BY <4>1, <5>1, <5>2, <5>3, <5>4
      <4>4. QED
        BY <4>2, <4>3
    <3>4. CASE k > f + 1
      <4>1. PICK i \in 1 .. n : i + 1 \in 1 .. n /\ k = f + (i + 1) /\ k - 1 = f + i /\ k # 1
        <5>1. k - f - 1 \in 1 .. n /\ (k - f - 1) + 1 \in 1 .. n
              /\ k = f + ((k - f - 1) + 1) /\ k - 1 = f + (k - f - 1) /\ k # 1
          BY <3>1, <3>4
        <5>2. QED
          BY <5>1
      <4>2. all[k - 1] = P[i] /\ all[k] = P[i + 1]
        BY <4>1, <2>8
      <4>3. CASE P[i][2] = P[i][3]
        <5>1. P[i + 1][2] = 1
          BY <4>1, <4>3, <2>6
        <5>2. QED
          BY <4>2, <4>3, <5>1
      <4>4. CASE P[i][2] # P[i][3]
        <5>1. P[i][2] < P[i][3]
          <6>1. P[i][2] \in Nat /\ P[i][3] \in Nat /\ P[i][2] <= P[i][3]
            BY <4>1, <2>6
          <6>2. QED
            BY <6>1, <4>4
        <5>2. P[i + 1] = <<P[i][1], P[i][2] + 1, P[i][3]>>
          BY <5>1, <2>6
        <5>3. QED
          BY <4>1, <4>2, <4>4, <5>2
      <4>5. QED
        BY <4>3, <4>4
    <3>5. QED
      BY <3>1, <3>2, <3>3, <3>4
  <2>12. \A k \in DOMAIN bufs : R[k].ls <=> bufs[k][2] = bufs[k][3]
    <3> TAKE k \in DOMAIN bufs
    <3>1. k \in 1 .. n /\ bufs[k] = P[k]
      BY <2>8
    <3>2. R[k].ls <=> P[k][2] = P[k][3]
      BY <3>1, <2>6
    <3>3. QED
      BY <3>1, <3>2
  <2>13. all # <<>> => all[Len(all)][2] = all[Len(all)][3]
    <3> SUFFICES ASSUME all # <<>> PROVE all[Len(all)][2] = all[Len(all)][3]
      OBVIOUS
    <3>1. n \in 1 .. n
      BY <2>8, <2>10
    <3>2. all[Len(all)] = P[n]
      BY <3>1, <2>8
    <3>3. /\ P[n][2] \in Nat /\ P[n][3] \in Nat /\ P[n][2] <= P[n][3]
          /\ n + P[n][3] - P[n][2] <= n
      BY <3>1, <2>6
    <3>4. QED
      BY <3>2, <3>3
  <2>14. QED
    BY <2>11, <2>12, <2>13 DEF FramesWhole, R, bufs, all
<1>2. QED
  BY <1>1, TxInvariant, PTL

-----------------------------------------------------------------------------
(* The ring gives the stack the queue of GemacTxFifo. *)

\* Flight as a function of the descriptors and of the place the DMA reads: the
\* packets at the descriptors from there on, and the descriptors that end one and
\* that the DMA gets to.
PacketsFrom(d, p) == [k \in 1 .. NumTx |-> d[Behind(p, k - 1)].buf[1]]
Ends(d, p) == {k \in 1 .. NumTx : /\ d[Behind(p, k - 1)].ls
                                  /\ \A j \in 1 .. k : d[Behind(p, j - 1)].own}

FlightOf(d, p) == Selected(PacketsFrom(d, p), Ends(d, p))

LEMMA FlightIs == Flight = FlightOf(desc, hwptr) /\ Flight' = FlightOf(desc', hwptr')
<1>1. ASSUME NEW d, NEW p
      PROVE  Selected([k \in Ends(d, p) |-> d[Behind(p, k - 1)].buf[1]], Ends(d, p))
                = FlightOf(d, p)
  <2> DEFINE v == [k \in Ends(d, p) |-> d[Behind(p, k - 1)].buf[1]]
             w == PacketsFrom(d, p)
  <2>1. Ends(d, p) \in SUBSET (1 .. NumTx)
    BY DEF Ends
  <2>2. \A k \in Ends(d, p) : w[k] = v[k]
    BY <2>1 DEF PacketsFrom
  <2> HIDE DEF v, w
  <2>3. Selected(w, Ends(d, p)) = Selected(v, Ends(d, p))
    BY <2>1, <2>2, RingSize, SelectedSame
  <2>4. QED
    BY <2>3 DEF v, w, FlightOf
<1>2. Flight = FlightOf(desc, hwptr)
  BY <1>1 DEF Flight, Ends
<1>3. Flight' = FlightOf(desc', hwptr')
  BY <1>1 DEF Flight, Ends
<1>4. QED
  BY <1>2, <1>3

\* From p on the DMA owns m descriptors and no more.
Run(d, p, m) ==
    /\ \A k \in 0 .. m - 1 : d[Behind(p, k)].own
    /\ m < NumTx => ~d[Behind(p, m)].own

LEMMA EndsOfRun ==
    ASSUME NEW d, NEW p, NEW m \in 0 .. NumTx, Run(d, p, m)
    PROVE  Ends(d, p) = {k \in 1 .. m : d[Behind(p, k - 1)].ls}
<1>1. \A j \in 1 .. m : d[Behind(p, j - 1)].own
  <2> TAKE j \in 1 .. m
  <2>1. j - 1 \in 0 .. m - 1
    BY RingSize
  <2>2. QED
    BY <2>1 DEF Run
<1>2. ASSUME NEW k \in 1 .. NumTx, \A j \in 1 .. k : d[Behind(p, j - 1)].own
      PROVE  k \in 1 .. m
  <2>1. CASE m < k
    <3>1. m + 1 \in 1 .. k /\ m + 1 - 1 = m /\ m < NumTx
      BY <2>1, RingSize
    <3>2. d[Behind(p, m)].own
      BY <3>1, <1>2
    <3>3. QED
      BY <3>1, <3>2 DEF Run
  <2>2. QED
    BY <2>1, RingSize
<1>3. ASSUME NEW k \in 1 .. m
      PROVE  k \in 1 .. NumTx /\ \A j \in 1 .. k : d[Behind(p, j - 1)].own
  <2>1. k \in 1 .. NumTx /\ \A j \in 1 .. k : j \in 1 .. m
    BY RingSize
  <2>2. QED
    BY <1>1, <2>1
<1>4. QED
  BY <1>2, <1>3 DEF Ends

\* What changes behind the run, or in descriptors the DMA does not own, does not
\* change what is in flight.
LEMMA SameRun ==
    ASSUME NEW d, NEW e, NEW p, NEW m \in 0 .. NumTx, Run(d, p, m), Run(e, p, m),
           \A k \in 0 .. m - 1 : /\ e[Behind(p, k)].ls = d[Behind(p, k)].ls
                                 /\ e[Behind(p, k)].buf = d[Behind(p, k)].buf
    PROVE  FlightOf(e, p) = FlightOf(d, p)
<1>1. /\ Ends(d, p) = {k \in 1 .. m : d[Behind(p, k - 1)].ls}
      /\ Ends(e, p) = {k \in 1 .. m : e[Behind(p, k - 1)].ls}
  BY EndsOfRun
<1>2. \A k \in 1 .. m : /\ e[Behind(p, k - 1)].ls = d[Behind(p, k - 1)].ls
                        /\ PacketsFrom(e, p)[k] = PacketsFrom(d, p)[k]
  <2> TAKE k \in 1 .. m
  <2>1. k - 1 \in 0 .. m - 1 /\ k \in 1 .. NumTx
    BY RingSize
  <2>2. QED
    BY <2>1 DEF PacketsFrom
<1>3. Ends(e, p) = Ends(d, p) /\ Ends(d, p) \in SUBSET (1 .. m) /\ m \in Nat
  BY <1>1, <1>2, RingSize
<1>4. \A k \in Ends(d, p) : PacketsFrom(e, p)[k] = PacketsFrom(d, p)[k]
  BY <1>2, <1>3
<1> DEFINE S == Ends(d, p)
           v == PacketsFrom(d, p)
           w == PacketsFrom(e, p)
<1>5. m \in Nat /\ S \in SUBSET (1 .. m) /\ \A k \in S : w[k] = v[k]
  BY <1>3, <1>4
<1>6. FlightOf(d, p) = Selected(v, S) /\ FlightOf(e, p) = Selected(w, S)
  BY <1>3 DEF FlightOf
<1> HIDE DEF S, v, w
<1>7. Selected(w, S) = Selected(v, S)
  BY ONLY <1>5, SelectedSame
<1>8. QED
  BY <1>6, <1>7

\* The run of what was handed over and not read.
LEMMA RunIs ==
    ASSUME TxInv
    PROVE  \E g \in 0 .. NumTx : \E h \in 0 .. g :
              /\ g = Given /\ hwptr = At(h) /\ OwnShape(h) /\ WrittenShape
              /\ g - h \in 0 .. NumTx
              /\ \A k \in 0 .. NumTx : h + k <= NumTx => Behind(hwptr, k) = At(h + k)
              /\ Run(desc, hwptr, g - h)
<1>1. PICK g \in 0 .. NumTx : g = Given
  BY DEF TxInv, Pointers
<1>2. PICK h \in 0 .. g : hwptr = At(h) /\ OwnShape(h) /\ WrittenShape
  BY <1>1 DEF TxInv, RingShape
<1>3. cur_tx_rptr \in Slots /\ Writing \in Nat
  BY DEF TxInv, TxTypeOK, Writing
<1>4. ASSUME NEW k \in 0 .. NumTx, h + k <= NumTx PROVE Behind(hwptr, k) = At(h + k)
  <2>1. h \in 0 .. NumTx
    BY RingSize
  <2>2. Behind(Behind(cur_tx_rptr, h), k) = Behind(cur_tx_rptr, h + k)
    BY <1>3, <1>4, <2>1, BehindTwice
  <2>3. QED
    BY <1>2, <2>2 DEF At
<1>5. ASSUME NEW k \in 0 .. g - h - 1 PROVE desc[Behind(hwptr, k)].own
  <2>1. k \in 0 .. NumTx /\ h + k <= NumTx /\ h + k \in 0 .. NumTx - 1
        /\ h <= h + k /\ h + k < g
    BY RingSize
  <2>2. Own(h + k)
    BY <1>1, <1>2, <2>1 DEF OwnShape
  <2>3. QED
    BY <1>4, <2>1, <2>2 DEF Own
<1>6. ASSUME g - h < NumTx PROVE ~desc[Behind(hwptr, g - h)].own
  <2>1. g - h \in 0 .. NumTx /\ h + (g - h) = g
    BY RingSize
  <2>2. Behind(hwptr, g - h) = At(g)
    BY <1>4, <2>1, RingSize
  <2>3. CASE g < NumTx
    <3>1. g \in 0 .. NumTx - 1 /\ ~(g < g)
      BY <2>3, RingSize
    <3>2. ~Own(g)
      BY <1>1, <1>2, <3>1 DEF OwnShape
    <3>3. QED
      BY <2>2, <3>2 DEF Own
  <2>4. CASE g = NumTx
    <3>1. h > 0 /\ 0 \in 0 .. NumTx - 1 /\ ~(h <= 0) /\ ~(g < 0)
      BY <1>6, <2>4, RingSize
    <3>2. At(g) = At(0)
      BY <1>3, <2>4, BehindRound DEF At
    <3>3. ~Own(0)
      BY <1>1, <1>2, <3>1 DEF OwnShape
    <3>4. QED
      BY <2>2, <3>2, <3>3 DEF Own
  <2>5. QED
    BY <2>3, <2>4, RingSize
<1>7. g - h \in 0 .. NumTx
  BY RingSize
<1>8. Run(desc, hwptr, g - h)
  BY <1>5, <1>6 DEF Run
<1>9. QED
  BY <1>1, <1>2, <1>4, <1>7, <1>8

\* Steps that leave the descriptors the DMA owns as they are.
LEMMA OwnedKept ==
    ASSUME TxInv, hwptr' = hwptr,
           \A i \in Slots : /\ desc'[i].own = desc[i].own
                            /\ desc[i].own => desc'[i].ls = desc[i].ls /\ desc'[i].buf = desc[i].buf
    PROVE  Flight' = Flight
<1>1. hwptr \in Slots
  BY DEF TxInv, TxTypeOK
<1>2. PICK m \in 0 .. NumTx : Run(desc, hwptr, m)
  BY RunIs
<1>3. \A k \in 0 .. NumTx : Behind(hwptr, k) \in Slots
  BY <1>1, BehindIf
<1>4. \A k \in 0 .. m - 1 : k \in 0 .. NumTx
  BY RingSize
<1>5. Run(desc', hwptr, m)
  BY <1>2, <1>3, <1>4 DEF Run
<1>6. \A k \in 0 .. m - 1 : /\ desc'[Behind(hwptr, k)].ls = desc[Behind(hwptr, k)].ls
                            /\ desc'[Behind(hwptr, k)].buf = desc[Behind(hwptr, k)].buf
  BY <1>2, <1>3, <1>4 DEF Run
<1>7. FlightOf(desc', hwptr) = FlightOf(desc, hwptr)
  BY <1>2, <1>5, <1>6, SameRun
<1>8. QED
  BY <1>7, FlightIs

\* A reap touches only descriptors that the DMA has read.
LEMMA ReapFlight ==
    ASSUME TxInv, Reap, pc \notin {"fill", "hand"}, hwptr' = hwptr
    PROVE  Flight' = Flight
<1>1. PICK h \in 0 .. Used : \E n \in 0 .. h : ReapBy(h, n)
  BY ReapEffect DEF TxInv
<1>2. PICK n \in 0 .. h : ReapBy(h, n)
  BY <1>1
<1>3. cur_tx_rptr \in Slots /\ Used \in 0 .. NumTx
  BY RingSize DEF TxInv, TxTypeOK, Used
<1>4. ASSUME NEW i \in Slots
      PROVE  /\ desc'[i].own = desc[i].own
             /\ desc[i].own => desc'[i].ls = desc[i].ls /\ desc'[i].buf = desc[i].buf
  <2>1. PICK k \in 0 .. NumTx - 1 : i = At(k)
    BY <1>3, BehindOnto DEF At
  <2>2. CASE k \in n .. NumTx - 1
    BY <2>1, <2>2, <1>2 DEF ReapBy
  <2>3. CASE k \in 0 .. n - 1
    <3>1. h \in 0 .. NumTx /\ ~(h <= k)
      <4>1. /\ Used \in Nat /\ Used <= NumTx /\ h \in Nat /\ h <= Used
            /\ n \in Nat /\ n <= h /\ k \in Nat /\ k < n
        BY <1>3, <2>3
      <4>2. QED
        BY <4>1, RingSize
    <3>2. Given \in 0 .. NumTx /\ ~ (Given < k)
      BY <1>1, <1>2, <1>3, <2>3 DEF ReapBy
    <3>3. ~Own(k)
      BY <1>2, <3>1, <3>2 DEF ReapBy, OwnShape
    <3>4. QED
      BY <2>1, <2>3, <3>3, <1>2 DEF ReapBy, Own
  <2>4. QED
    BY <2>1, <2>2, <2>3, <1>3
<1>5. QED
  BY <1>4, OwnedKept

\* Filling writes behind the descriptor that holds the DMA back.
LEMMA FillFlight ==
    ASSUME TxInv, FillDesc
    PROVE  Flight' = Flight
<1>1. CASE ld.mbufs[ld.m] = 0
  BY <1>1 DEF FillDesc, hwVars, Flight
<1>2. CASE ld.mbufs[ld.m] # 0
  <2>1. PICK g \in 0 .. NumTx : \E h \in 0 .. g :
              /\ g = Given /\ hwptr = At(h) /\ OwnShape(h)
              /\ g - h \in 0 .. NumTx
              /\ \A k \in 0 .. NumTx : h + k <= NumTx => Behind(hwptr, k) = At(h + k)
              /\ Run(desc, hwptr, g - h)
    BY RunIs
  <2>2. PICK h \in 0 .. g :
              /\ g = Given /\ hwptr = At(h) /\ OwnShape(h)
              /\ g - h \in 0 .. NumTx
              /\ \A k \in 0 .. NumTx : h + k <= NumTx => Behind(hwptr, k) = At(h + k)
              /\ Run(desc, hwptr, g - h)
    BY <2>1
  <2>3. /\ pc = "fill" /\ ld.m <= Len(ld.mbufs) /\ hwptr' = hwptr
        /\ desc' = [desc EXCEPT ![ld.at] =
              [own |-> desc[ld.at].own \/ ld.nmbuf > 0, ls |-> FALSE, ioc |-> FALSE,
               buf |-> <<ld.pkt, ld.nmbuf + 1, Pieces(ld.mbufs)>>]]
    BY <1>2 DEF FillDesc, hwVars
  <2>4. /\ ld.nmbuf + 1 \in Nat /\ ld.nmbuf + 1 <= tx_free
        /\ Given = Used /\ Used = NumTx - tx_free /\ tx_free \in 0 .. NumTx
        /\ ld.nmbuf \in Nat
        /\ ld.at = At(Used + ld.nmbuf) /\ cur_tx_rptr \in Slots
    BY <2>3, <1>2, FillCounts, Filling
  <2>5. PICK n \in Nat : n = ld.nmbuf
    BY <2>4
  <2>6. g + n \in 0 .. NumTx - 1 /\ ld.at = At(g + n) /\ g < NumTx
    <3>1. PICK free \in 0 .. NumTx : free = tx_free
      BY <2>4
    <3>2. n + 1 <= free /\ g = NumTx - free
      BY <2>2, <2>4, <2>5, <3>1
    <3>3. QED
      BY <2>2, <2>4, <2>5, <3>2, RingSize
  <2> DEFINE m == g - h
  <2>7. ASSUME NEW k \in 0 .. m
        PROVE  /\ k \in 0 .. NumTx /\ h + k <= NumTx /\ h + k \in 0 .. NumTx - 1
               /\ Behind(hwptr, k) = At(h + k) /\ At(h + k) \in Slots
               /\ k < m \/ n > 0 => desc'[Behind(hwptr, k)] = desc[Behind(hwptr, k)]
    <3>1. k \in 0 .. NumTx /\ h + k <= NumTx /\ h + k \in 0 .. NumTx - 1
      BY <2>6, RingSize
    <3>2. Behind(hwptr, k) = At(h + k)
      BY <2>2, <3>1
    <3>3. At(h + k) \in Slots
      <4>1. h + k \in 0 .. NumTx
        BY <3>1, RingSize
      <4>2. QED
        BY <4>1, <2>4, BehindIf DEF At
    <3>4. ASSUME k < m \/ n > 0 PROVE At(h + k) # ld.at
      <4>1. h + k # g + n
        BY <3>4
      <4>2. QED
        BY <4>1, <3>1, <2>4, <2>6, BehindOneToOne DEF At
    <3>5. QED
      BY <3>1, <3>2, <3>3, <3>4, <2>3 DEF TxInv, TxTypeOK
  <2>8. m \in 0 .. NumTx /\ m < NumTx /\ m \in 0 .. m /\ \A k \in 0 .. m - 1 : k \in 0 .. m /\ k < m
    BY <2>2, <2>6, RingSize
  <2>9. ~desc'[Behind(hwptr, m)].own
    <3>1. ~desc[Behind(hwptr, m)].own
      BY <2>2, <2>8 DEF Run
    <3>2. CASE n > 0
      BY <3>1, <3>2, <2>7, <2>8
    <3>3. CASE n = 0
      <4>1. Behind(hwptr, m) = ld.at /\ ld.at \in Slots
        <5>1. h + m = g + n
          BY <3>3
        <5>2. QED
          BY <5>1, <2>6, <2>7, <2>8
      <4>2. ~(ld.nmbuf > 0)
        BY <3>3, <2>5
      <4>3. QED
        BY <4>1, <4>2, <3>1, <2>3 DEF TxInv, TxTypeOK
    <3>4. QED
      BY <3>2, <3>3, <2>5
  <2> HIDE DEF m
  <2>10. Run(desc, hwptr, m)
    BY <2>2 DEF m
  <2>11. Run(desc', hwptr, m)
    BY <2>7, <2>8, <2>9, <2>10 DEF Run
  <2>12. FlightOf(desc', hwptr) = FlightOf(desc, hwptr)
    BY <2>7, <2>8, <2>10, <2>11, SameRun
  <2>13. QED
    BY <2>3, <2>12, FlightIs
<1>3. QED
  BY <1>1, <1>2

OneMore(e, d, p, x) == FlightOf(e, p) = Append(FlightOf(d, p), x)

\* A packet that is added to the run goes to the end of what is in flight.
LEMMA FlightMore ==
    ASSUME NEW d, NEW e, NEW p, NEW m \in Nat, NEW n \in Nat \ {0}, m + n <= NumTx,
           Run(d, p, m), Run(e, p, m + n),
           \A k \in 0 .. m - 1 : /\ e[Behind(p, k)].ls = d[Behind(p, k)].ls
                                 /\ e[Behind(p, k)].buf = d[Behind(p, k)].buf,
           \A k \in m .. m + n - 1 : e[Behind(p, k)].ls <=> k = m + n - 1
    PROVE  OneMore(e, d, p, e[Behind(p, m + n - 1)].buf[1])
<1> DEFINE S == {k \in 1 .. m : d[Behind(p, k - 1)].ls}
           c == m + n
           v == PacketsFrom(d, p)
           w == PacketsFrom(e, p)
<1>1. m \in 0 .. NumTx /\ c \in 0 .. NumTx /\ c \in 1 .. NumTx /\ c \in Nat
  BY RingSize
<1>2. Ends(d, p) = S /\ Ends(e, p) = {k \in 1 .. c : e[Behind(p, k - 1)].ls}
  BY <1>1, EndsOfRun
<1>3. ASSUME NEW k \in 1 .. m
      PROVE  e[Behind(p, k - 1)].ls = d[Behind(p, k - 1)].ls /\ w[k] = v[k]
  <2>1. k - 1 \in 0 .. m - 1 /\ k \in 1 .. NumTx
    BY RingSize
  <2>2. QED
    BY <2>1 DEF PacketsFrom
<1>4. ASSUME NEW k \in 1 .. c
      PROVE  k \in S \cup {c} <=> e[Behind(p, k - 1)].ls
  <2>1. CASE k <= m
    <3>1. k \in 1 .. m /\ k # c
      BY <2>1
    <3>2. QED
      BY <3>1, <1>3
  <2>2. CASE ~(k <= m)
    <3>1. k - 1 \in m .. m + n - 1 /\ (k - 1 = m + n - 1 <=> k = c)
      BY <2>2
    <3>2. k \notin S
      BY <2>2
    <3>3. QED
      BY <3>1, <3>2
  <2>3. QED
    BY <2>1, <2>2
<1>5. S \in SUBSET (1 .. m) /\ S \cup {c} \in SUBSET (1 .. c) /\ \A k \in S : k < c
  OBVIOUS
<1>6. Ends(e, p) = S \cup {c}
  <2> HIDE DEF S, c
  <2>1. QED
    BY <1>2, <1>4, <1>5
<1>7. w[c] = e[Behind(p, m + n - 1)].buf[1]
  BY <1>1 DEF PacketsFrom
<1> HIDE DEF S, c, v, w
<1>8. \A k \in S : w[k] = v[k]
  BY <1>3, <1>5
<1>9. Selected(w, S \cup {c}) = Append(Selected(v, S), w[c])
  <2>1. WithLast(w, S \cup {c}, v, S, w[c])
    BY <1>1, <1>5, <1>8, SelectedMore
  <2>2. QED
    BY <2>1 DEF WithLast
<1>10. QED
  BY <1>2, <1>6, <1>7, <1>9 DEF FlightOf, v, w, OneMore

\* The DMA goes on by one descriptor: a packet it ends leaves at the front.
LEMMA FlightLess ==
    ASSUME NEW d, NEW e, NEW p, NEW q, NEW m \in 1 .. NumTx,
           Run(d, p, m), Run(e, q, m - 1),
           \A k \in 1 .. m - 1 :
              /\ e[Behind(q, k - 1)].ls = d[Behind(p, k)].ls
              /\ e[Behind(q, k - 1)].buf = d[Behind(p, k)].buf
    PROVE  /\ d[Behind(p, 0)].ls => /\ FlightOf(d, p) # <<>>
                                    /\ FlightOf(e, q) = Tail(FlightOf(d, p))
           /\ ~d[Behind(p, 0)].ls => FlightOf(e, q) = FlightOf(d, p)
<1> DEFINE S == {k \in 1 .. m : d[Behind(p, k - 1)].ls}
           T == {k \in 1 .. m - 1 : e[Behind(q, k - 1)].ls}
           v == PacketsFrom(d, p)
           w == PacketsFrom(e, q)
<1>1. m \in Nat /\ m \in 0 .. NumTx /\ m - 1 \in 0 .. NumTx /\ 1 \in 1 .. m /\ 1 - 1 = 0
  BY RingSize
<1>2. Ends(d, p) = S /\ Ends(e, q) = T
  BY <1>1, EndsOfRun
<1>3. ASSUME NEW k \in 1 .. m - 1
      PROVE  /\ e[Behind(q, k - 1)].ls = d[Behind(p, (k + 1) - 1)].ls /\ w[k] = v[k + 1]
             /\ k + 1 \in 1 .. m
  <2>1. k \in 1 .. NumTx /\ k + 1 \in 1 .. NumTx /\ (k + 1) - 1 = k /\ k + 1 \in 1 .. m
    BY RingSize
  <2>2. QED
    BY <2>1 DEF PacketsFrom
<1>4. \A k \in Nat : k \in T <=> k > 0 /\ k + 1 \in S
  <2> TAKE k \in Nat
  <2>1. CASE k \in 1 .. m - 1
    BY <2>1, <1>3
  <2>2. CASE k \notin 1 .. m - 1
    <3>1. k > 0 => k + 1 \notin 1 .. m
      BY <2>2, <1>1
    <3>2. QED
      BY <2>2, <3>1
  <2>3. QED
    BY <2>1, <2>2
<1>5. S \in SUBSET (1 .. m) /\ T \in SUBSET (1 .. m) /\ (1 \in S <=> d[Behind(p, 0)].ls)
  BY <1>1
<1>6. \A k \in T : w[k] = v[k + 1]
  BY <1>3
<1> HIDE DEF S, T, v, w
<1>7. CASE d[Behind(p, 0)].ls
  <2>1. WithoutFirst(w, T, v, S)
    BY <1>1, <1>4, <1>5, <1>6, <1>7, SelectedRest
  <2>2. QED
    BY <1>2, <1>7, <2>1 DEF FlightOf, v, w, WithoutFirst
<1>8. CASE ~d[Behind(p, 0)].ls
  <2>1. m \in Nat /\ S \in SUBSET (1 .. m) /\ T \in SUBSET (1 .. m) /\ 1 \notin S
    BY <1>1, <1>5, <1>8
  <2>2. Selected(w, T) = Selected(v, S)
    BY ONLY <2>1, <1>4, <1>6, SelectedShifted, Zenon
  <2>3. QED
    BY <1>2, <1>8, <2>2 DEF FlightOf, v, w
<1>9. QED
  BY <1>7, <1>8

\* A descriptor that ends the run.
LEMMA NotOwnedRound ==
    ASSUME NEW h \in 0 .. NumTx, NEW g \in h .. NumTx, cur_tx_rptr \in Slots,
           g < NumTx \/ h > 0
    PROVE  \E k \in 0 .. NumTx - 1 :
              /\ At(g) = At(k) /\ ~(h <= k /\ k < g)
              /\ k = IF g < NumTx THEN g ELSE 0
<1>1. CASE g < NumTx
  <2>1. g \in 0 .. NumTx - 1 /\ ~(g < g)
    BY <1>1, RingSize
  <2>2. QED
    BY <1>1, <2>1
<1>2. CASE ~(g < NumTx)
  <2>1. g = NumTx /\ h > 0 /\ 0 \in 0 .. NumTx - 1 /\ ~(h <= 0)
    BY <1>2, RingSize
  <2>2. At(g) = At(0)
    BY <2>1, BehindRound DEF At
  <2>3. QED
    BY <1>2, <2>1, <2>2
<1>3. QED
  BY <1>1, <1>2

-----------------------------------------------------------------------------
\* The last piece is marked before the packet is handed over.
LEMMA MarkFlight ==
    ASSUME TxInv, MarkLast
    PROVE  Flight' = Flight
<1> DEFINE last == (ld.at - 1) % NumTx
<1>1. /\ pc = "fill" /\ ld.m > Len(ld.mbufs) /\ hwptr' = hwptr
      /\ desc' = [desc EXCEPT ![last].ls = TRUE, ![last].ioc = tx_free' < MinNumTx]
  BY DEF MarkLast, hwVars
<1>2. ld.m = Len(ld.mbufs) + 1 /\ Loading
  <2>1. /\ ld.m \in Nat /\ Len(ld.mbufs) \in Nat /\ ld.m <= Len(ld.mbufs) + 1 /\ Loading
    BY <1>1, Filling
  <2>2. QED
    BY <1>1, <2>1
<1>3. ld.num_frag = ld.nmbuf /\ ld.nmbuf \in Nat \ {0}
  BY <1>2, AllWritten
<1>4. PICK g \in 0 .. NumTx, n \in Nat \ {0} :
        g = Given /\ n = ld.nmbuf /\ Given = Used /\ Writing = n /\ g + n <= NumTx
        /\ ld.at = At(g + n)
  <2>1. Given = Used /\ Writing = ld.nmbuf /\ Used \in 0 .. NumTx
        /\ Used + ld.nmbuf \in 0 .. NumTx /\ ld.at = At(Used + ld.nmbuf)
    BY <1>1, Filling
  <2>2. QED
    BY <2>1, <1>3, RingSize
<1>5. cur_tx_rptr \in Slots /\ desc \in [Slots -> Descs]
  BY DEF TxInv, TxTypeOK, Descs
<1>6. g + n \in 1 .. NumTx /\ g + n - 1 \in 0 .. NumTx - 1 /\ g + n - 1 >= g /\ g < NumTx
  BY <1>4, RingSize
<1>7. last = At(g + n - 1)
  BY <1>4, <1>5, <1>6, BehindPrevious DEF At
<1> HIDE DEF last
<1>8. \A i \in Slots : desc'[i].own = desc[i].own /\ (i # last => desc'[i] = desc[i])
  <2> TAKE i \in Slots
  <2> DEFINE few == tx_free' < MinNumTx
  <2>1. desc' = [desc EXCEPT ![last].ls = TRUE, ![last].ioc = few]
    BY <1>1
  <2> HIDE DEF few
  <2>2. CASE i # last
    BY <1>5, <2>1, <2>2
  <2>3. CASE i = last
    <3>1. desc[i] \in Descs
      BY <1>5
    <3>2. QED
      BY <1>5, <2>1, <2>3, <3>1 DEF Descs
  <2>4. QED
    BY <2>2, <2>3
<1>9. PICK g2 \in 0 .. NumTx : \E h \in 0 .. g2 :
        /\ g2 = Given /\ hwptr = At(h) /\ OwnShape(h)
        /\ g2 - h \in 0 .. NumTx
        /\ \A k \in 0 .. NumTx : h + k <= NumTx => Behind(hwptr, k) = At(h + k)
        /\ Run(desc, hwptr, g2 - h)
  BY RunIs
<1>10. PICK h \in 0 .. g :
        /\ g - h \in 0 .. NumTx
        /\ \A k \in 0 .. NumTx : h + k <= NumTx => Behind(hwptr, k) = At(h + k)
        /\ Run(desc, hwptr, g - h)
  BY <1>4, <1>9
<1>11. hwptr \in Slots
  BY DEF TxInv, TxTypeOK
<1> DEFINE m == g - h
<1>12. ASSUME NEW k \in 0 .. m - 1
       PROVE  Behind(hwptr, k) \in Slots /\ Behind(hwptr, k) # last
  <2>1. k \in 0 .. NumTx /\ h + k <= NumTx /\ h + k \in 0 .. NumTx - 1
        /\ h + k # g + n - 1
    BY <1>6, RingSize
  <2>2. Behind(hwptr, k) = At(h + k)
    BY <2>1, <1>10
  <2>3. At(h + k) # At(g + n - 1)
    BY <2>1, <1>5, <1>6, BehindOneToOne DEF At
  <2>4. QED
    BY <2>1, <2>2, <2>3, <1>7, <1>11, BehindIf
<1>13. \A k \in 0 .. NumTx : Behind(hwptr, k) \in Slots
  BY <1>11, BehindIf
<1> HIDE DEF m
<1>14. m \in 0 .. NumTx /\ \A k \in 0 .. m - 1 : k \in 0 .. NumTx
  BY <1>10, RingSize DEF m
<1>15. Run(desc, hwptr, m)
  BY <1>10 DEF m
<1>16. Run(desc', hwptr, m)
  BY <1>8, <1>13, <1>14, <1>15 DEF Run
<1>17. FlightOf(desc', hwptr) = FlightOf(desc, hwptr)
  BY <1>8, <1>12, <1>14, <1>15, <1>16, SameRun
<1>18. QED
  BY <1>1, <1>17, FlightIs

\* Its OWN bit makes the packet in start's hands the last one in flight.
LEMMA HandOverFlight ==
    ASSUME TxInv, HandOver
    PROVE  Flight' = Append(Flight, ld.pkt)
<1>1. /\ pc = "hand" /\ hwptr' = hwptr
      /\ desc' = [desc EXCEPT ![cur_tx_wptr].own = TRUE]
  BY DEF HandOver, hwVars
<1>2. Loading /\ ld.m = Len(ld.mbufs) + 1
  BY <1>1 DEF Loading, TxInv, Locals
<1>3. ld.nmbuf = Pieces(ld.mbufs) /\ ld.nmbuf \in Nat \ {0}
  BY <1>2, AllWritten
<1>4. PICK g \in 0 .. NumTx : \E h \in 0 .. g :
         /\ g = Given /\ hwptr = At(h) /\ OwnShape(h) /\ WrittenShape
         /\ g - h \in 0 .. NumTx
         /\ \A k \in 0 .. NumTx : h + k <= NumTx => Behind(hwptr, k) = At(h + k)
         /\ Run(desc, hwptr, g - h)
  BY RunIs
<1>5. PICK h \in 0 .. g :
         /\ g = Given /\ hwptr = At(h) /\ OwnShape(h) /\ WrittenShape
         /\ g - h \in 0 .. NumTx
         /\ \A k \in 0 .. NumTx : h + k <= NumTx => Behind(hwptr, k) = At(h + k)
         /\ Run(desc, hwptr, g - h)
  BY <1>4
<1>6. PICK m \in Nat : m = g - h
  BY <1>5
<1>7. PICK n \in Nat \ {0} : n = ld.nmbuf
  BY <1>3
<1>8. Writing = n /\ g + n <= NumTx /\ Used = g + n /\ g = h + m /\ h \in Nat
      /\ cur_tx_rptr \in Slots /\ desc \in [Slots -> Descs] /\ cur_tx_wptr = At(g)
      /\ cur_tx_wptr \in Slots
  <2>1. Writing = n /\ Given = Used - n /\ Given + Writing <= NumTx
    BY <1>1, <1>7 DEF Given, Writing, TxInv, Pointers
  <2>2. Used \in 0 .. NumTx
    BY RingSize DEF Used, TxInv, TxTypeOK
  <2>3. QED
    BY <2>1, <2>2, <1>5, <1>6, RingSize DEF TxInv, TxTypeOK, Descs, Pointers
<1>9. g \in 0 .. NumTx - 1 /\ m + n \in 0 .. NumTx /\ m + n <= NumTx /\ m \in 0 .. NumTx
  BY <1>5, <1>6, <1>8, RingSize
<1>10. \A i \in Slots : /\ desc'[i].ls = desc[i].ls /\ desc'[i].buf = desc[i].buf
                        /\ desc'[i].own <=> desc[i].own \/ i = cur_tx_wptr
  <2> TAKE i \in Slots
  <2>1. desc[i] \in Descs
    BY <1>8
  <2>2. QED
    BY <1>1, <1>8, <2>1 DEF Descs
\* The k-th descriptor the DMA comes to.
<1>11. ASSUME NEW k \in 0 .. m + n - 1
       PROVE  /\ Behind(hwptr, k) = At(h + k) /\ At(h + k) \in Slots
              /\ h + k \in 0 .. NumTx - 1 /\ desc'[At(h + k)].own
  <2>1. k \in 0 .. NumTx /\ h + k <= NumTx /\ h + k \in 0 .. NumTx - 1 /\ h + k \in 0 .. NumTx
    BY <1>8, <1>9, RingSize
  <2>2. Behind(hwptr, k) = At(h + k) /\ At(h + k) \in Slots
    <3>1. Behind(hwptr, k) = At(h + k)
      BY <2>1, <1>5
    <3>2. At(h + k) \in Slots
      BY <2>1, <1>8, BehindIf DEF At
    <3>3. QED
      BY <3>1, <3>2
  <2>3. CASE h + k = g
    <3>1. At(h + k) = cur_tx_wptr
      BY <2>3, <1>8
    <3>2. QED
      BY <3>1, <2>1, <2>2, <1>8, <1>10
  <2>4. CASE h + k # g
    <3>1. (h <= h + k /\ h + k < g) \/ (g < h + k /\ h + k < g + n)
      BY <2>4, <1>8
    <3>2. Own(h + k)
      BY <3>1, <2>1, <1>5, <1>8 DEF OwnShape
    <3>3. QED
      BY <3>2, <2>1, <2>2, <1>10 DEF Own
  <2>5. QED
    BY <2>3, <2>4
<1>12. ASSUME m + n < NumTx PROVE ~desc'[Behind(hwptr, m + n)].own
  <2>1. Behind(hwptr, m + n) = At(g + n) /\ g + n \in 0 .. NumTx
    BY <1>5, <1>8, <1>9, RingSize
  <2>2. PICK k \in 0 .. NumTx - 1 :
          At(g + n) = At(k) /\ k = IF g + n < NumTx THEN g + n ELSE 0
    <3>1. h \in 0 .. NumTx /\ g + n \in h .. NumTx /\ (g + n < NumTx \/ h > 0)
      BY <1>8, <1>9, <1>12, RingSize
    <3>2. QED
      BY <3>1, <1>8, NotOwnedRound
  <2>3. ~(h <= k /\ k < g) /\ ~(g < k /\ k < g + n) /\ k # g
    BY <2>2, <1>8, <1>9, <1>12, RingSize
  <2>4. ~Own(k)
    BY <2>3, <1>5, <1>8 DEF OwnShape
  <2>5. At(k) # cur_tx_wptr /\ At(k) \in Slots
    <3>1. k \in 0 .. NumTx
      BY RingSize
    <3>2. QED
      BY <3>1, <2>3, <1>8, <1>9, BehindOneToOne, BehindIf DEF At
  <2>6. QED
    BY <2>1, <2>2, <2>4, <2>5, <1>10 DEF Own
<1>13. Run(desc, hwptr, m)
  BY <1>5, <1>6
<1>14. Run(desc', hwptr, m + n)
  BY <1>11, <1>12 DEF Run
<1>15. \A k \in 0 .. m - 1 : /\ desc'[Behind(hwptr, k)].ls = desc[Behind(hwptr, k)].ls
                             /\ desc'[Behind(hwptr, k)].buf = desc[Behind(hwptr, k)].buf
  <2> TAKE k \in 0 .. m - 1
  <2>1. k \in 0 .. m + n - 1
    OBVIOUS
  <2>2. QED
    BY <2>1, <1>10, <1>11
<1>16. ASSUME NEW k \in m .. m + n - 1
       PROVE  /\ desc'[Behind(hwptr, k)].ls <=> k = m + n - 1
              /\ desc'[Behind(hwptr, k)].buf[1] = ld.pkt
  <2>1. k \in 0 .. m + n - 1 /\ h + k \in Given .. Given + Writing - 1
        /\ (h + k = Used - 1 <=> k = m + n - 1)
    BY <1>5, <1>8
  <2>2. /\ Piece(h + k) = <<ld.pkt, h + k - Given + 1, Pieces(ld.mbufs)>>
        /\ desc[At(h + k)].ls <=> h + k = Used - 1
    BY <2>1, <1>1, <1>5 DEF WrittenShape
  <2>3. desc[At(h + k)].buf[1] = ld.pkt
    BY <2>2 DEF Piece
  <2>4. QED
    BY <2>1, <2>2, <2>3, <1>10, <1>11
<1>17. OneMore(desc', desc, hwptr, desc'[Behind(hwptr, m + n - 1)].buf[1])
  BY <1>9, <1>13, <1>14, <1>15, <1>16, FlightMore
<1>18. desc'[Behind(hwptr, m + n - 1)].buf[1] = ld.pkt
  <2>1. m + n - 1 \in m .. m + n - 1
    OBVIOUS
  <2>2. QED
    BY <2>1, <1>16
<1>19. QED
  BY <1>1, <1>17, <1>18, FlightIs DEF OneMore

\* The DMA takes the oldest packet out of flight with its last piece.
LEMMA FetchFlight ==
    ASSUME TxInv, HwFetch
    PROVE  Flight' = Flight \/ (Flight # <<>> /\ Flight' = Tail(Flight))
<1> DEFINE d == desc[hwptr]
<1>1. /\ d.own /\ hwptr' = Next1(hwptr)
      /\ desc' = [desc EXCEPT ![hwptr] = [NoDesc EXCEPT !.ls = d.ls]]
  BY DEF HwFetch
<1>2. hwptr \in Slots /\ cur_tx_rptr \in Slots /\ desc \in [Slots -> Descs]
  BY DEF TxInv, TxTypeOK, Descs
<1>3. PICK g \in 0 .. NumTx : \E h \in 0 .. g :
         /\ g = Given /\ hwptr = At(h) /\ OwnShape(h)
         /\ g - h \in 0 .. NumTx
         /\ \A k \in 0 .. NumTx : h + k <= NumTx => Behind(hwptr, k) = At(h + k)
         /\ Run(desc, hwptr, g - h)
  BY RunIs
<1>4. PICK h \in 0 .. g :
         /\ g = Given /\ hwptr = At(h) /\ OwnShape(h)
         /\ g - h \in 0 .. NumTx
         /\ \A k \in 0 .. NumTx : h + k <= NumTx => Behind(hwptr, k) = At(h + k)
         /\ Run(desc, hwptr, g - h)
  BY <1>3
<1>5. PICK m \in 0 .. NumTx : m = g - h
  BY <1>4
<1>6. /\ m \in 1 .. NumTx /\ g = h + m /\ h \in Nat /\ h \in 0 .. NumTx - 1
      /\ Behind(hwptr, 0) = hwptr
  <2>1. Behind(hwptr, 0) = hwptr
    BY <1>2, BehindRound
  <2>2. m # 0
    BY <1>1, <1>4, <1>5, <2>1, RingSize DEF Run
  <2>3. QED
    BY <2>1, <2>2, <1>4, <1>5, RingSize
<1>7. \A i \in Slots : /\ i # hwptr => desc'[i] = desc[i]
                       /\ i = hwptr => ~desc'[i].own
  BY <1>1, <1>2 DEF NoDesc
<1>8. ASSUME NEW k \in 1 .. m
      PROVE  /\ Behind(hwptr', k - 1) = Behind(hwptr, k) /\ Behind(hwptr, k) = At(h + k)
             /\ Behind(hwptr, k) \in Slots
             /\ k < m => Behind(hwptr, k) # hwptr
  <2>1. k \in 0 .. NumTx /\ h + k <= NumTx /\ k - 1 \in 0 .. NumTx /\ 1 \in 0 .. NumTx
        /\ 1 + (k - 1) = k /\ k <= NumTx
    BY <1>4, <1>6, RingSize
  <2>2. Behind(Behind(hwptr, 1), k - 1) = Behind(hwptr, k)
    BY <2>1, <1>2, BehindTwice
  <2>3. Behind(hwptr, k) = At(h + k) /\ Behind(hwptr, k) \in Slots
    BY <2>1, <1>2, <1>4, BehindIf
  <2>4. ASSUME k < m PROVE Behind(hwptr, k) # Behind(hwptr, 0)
    <3>1. k \in 0 .. NumTx - 1 /\ 0 \in 0 .. NumTx - 1 /\ k # 0
      BY <2>4, RingSize
    <3>2. QED
      BY <3>1, <1>2, BehindOneToOne
  <2>5. QED
    BY <2>2, <2>3, <2>4, <1>1, <1>6 DEF Next1
<1>9. \A k \in 1 .. m - 1 : desc'[Behind(hwptr', k - 1)] = desc[Behind(hwptr, k)]
  <2> TAKE k \in 1 .. m - 1
  <2>1. k \in 1 .. m /\ k < m
    BY <1>6
  <2>2. QED
    BY <2>1, <1>7, <1>8
<1>10. Run(desc, hwptr, m)
  BY <1>4, <1>5
<1>11. ~desc'[Behind(hwptr', m - 1)].own
  <2>1. m \in 1 .. m /\ Behind(hwptr', m - 1) = At(g)
    BY <1>6, <1>8
  <2>2. PICK k \in 0 .. NumTx - 1 :
          At(g) = At(k) /\ (~(h <= k /\ k < g) \/ k = h)
    <3>1. CASE g < NumTx \/ h > 0
      <4>1. h \in 0 .. NumTx /\ g \in h .. NumTx
        BY <1>4, RingSize
      <4>2. QED
        BY <3>1, <4>1, <1>2, NotOwnedRound
    <3>2. CASE ~(g < NumTx \/ h > 0)
      <4>1. g = NumTx /\ h = 0 /\ 0 \in 0 .. NumTx - 1
        BY <3>2, <1>6, RingSize
      <4>2. At(g) = At(0)
        BY <4>1, <1>2, BehindRound DEF At
      <4>3. QED
        BY <4>1, <4>2
    <3>3. QED
      BY <3>1, <3>2
  <2>3. At(k) \in Slots
    <3>1. k \in 0 .. NumTx
      BY RingSize
    <3>2. QED
      BY <3>1, <1>2, BehindIf DEF At
  <2>4. CASE At(k) = hwptr
    BY <2>1, <2>2, <2>3, <2>4, <1>7
  <2>5. CASE At(k) # hwptr
    <3>1. ~(h <= k /\ k < g)
      BY <2>2, <2>5, <1>4
    <3>2. CASE ~(g < k /\ k < g + Writing)
      <4>1. ~Own(k)
        BY <3>1, <3>2, <1>4 DEF OwnShape
      <4>2. QED
        BY <4>1, <2>1, <2>2, <2>3, <2>5, <1>7 DEF Own
    <3>3. CASE g < k /\ k < g + Writing
      <4>1. g \in 0 .. NumTx - 1
        BY <3>3, RingSize
      <4>2. k = g
        BY <4>1, <2>2, <2>5, <1>2, <1>4, BehindOneToOne DEF At
      <4>3. QED
        BY <3>3, <4>2
    <3>4. QED
      BY <3>2, <3>3
  <2>6. QED
    BY <2>4, <2>5
<1>12. Run(desc', hwptr', m - 1)
  <2>1. ASSUME NEW k \in 0 .. m - 1 - 1 PROVE desc'[Behind(hwptr', k)].own
    <3>1. k + 1 \in 1 .. m - 1 /\ k + 1 - 1 = k /\ k + 1 \in 0 .. m - 1
      BY <1>6
    <3>2. desc[Behind(hwptr, k + 1)].own
      BY <3>1, <1>10 DEF Run
    <3>3. desc'[Behind(hwptr', k + 1 - 1)] = desc[Behind(hwptr, k + 1)]
      BY <3>1, <1>9
    <3>4. QED
      BY <3>1, <3>2, <3>3
  <2>2. QED
    BY <2>1, <1>11 DEF Run
<1>13. \/ FlightOf(desc', hwptr') = FlightOf(desc, hwptr)
       \/ /\ FlightOf(desc, hwptr) # <<>>
          /\ FlightOf(desc', hwptr') = Tail(FlightOf(desc, hwptr))
  <2>1. PICK e, q : e = desc' /\ q = hwptr'
    OBVIOUS
  <2>2. Run(e, q, m - 1) /\ \A k \in 1 .. m - 1 : e[Behind(q, k - 1)] = desc[Behind(hwptr, k)]
    BY <2>1, <1>9, <1>12
  <2>3. /\ desc[Behind(hwptr, 0)].ls => /\ FlightOf(desc, hwptr) # <<>>
                                        /\ FlightOf(e, q) = Tail(FlightOf(desc, hwptr))
        /\ ~desc[Behind(hwptr, 0)].ls => FlightOf(e, q) = FlightOf(desc, hwptr)
    BY <2>2, <1>6, <1>10, FlightLess
  <2>4. QED
    BY <2>1, <2>3
<1>14. QED
  BY <1>13, FlightIs

\* init clears the ring.
LEMMA InitFlight ==
    ASSUME TxInv, InitRing
    PROVE  Flight' = <<>>
<1>1. desc' = [i \in Slots |-> NoDesc] /\ hwptr' = 0
  BY DEF InitRing
<1>2. 0 \in Slots /\ Behind(0, 0) = 0
  BY RingSize, BehindRound DEF Slots
<1>3. Run(desc', hwptr', 0)
  BY <1>1, <1>2 DEF Run, NoDesc
<1>4. 0 \in 0 .. NumTx
  BY RingSize
<1>5. Ends(desc', hwptr') = {}
  <2>1. PICK d, p : d = desc' /\ p = hwptr'
    OBVIOUS
  <2>2. Ends(d, p) = {k \in 1 .. 0 : d[Behind(p, k - 1)].ls}
    BY <2>1, <1>3, <1>4, EndsOfRun
  <2>3. QED
    BY <2>1, <2>2
<1>6. QED
  BY <1>5, SelectedNone, FlightIs DEF FlightOf

\* What is in flight changes when start hands a packet over, when the DMA reads
\* the end of one and when init clears the ring.
LEMMA FlightSteps ==
    ASSUME TxInv, [Next]_vars
    PROVE  \/ HandOver \/ HwFetch \/ InitRing \/ Flight' = Flight
<1>1. ASSUME desc' = desc, hwptr' = hwptr PROVE Flight' = Flight
  BY <1>1, FlightIs
<1>2. CASE UNCHANGED vars
  BY <1>1, <1>2 DEF vars, ring, hwVars
<1>3. CASE IrqReap \/ HkReap \/ StartReap \/ HugeReap
  <2>1. Reap /\ hwptr' = hwptr
    BY <1>3 DEF IrqReap, HkReap, StartReap, HugeReap, hwVars
  <2>2. pc \notin {"fill", "hand"}
    BY <1>3 DEF IrqReap, HkReap, StartReap, HugeReap, Unlocked
  <2>3. QED
    BY <2>1, <2>2, ReapFlight
<1>4. CASE (\E p \in Packets : Send(p)) \/ StartDone \/ Dequeue \/ HugeFits \/ Defrag
  BY <1>1, <1>4 DEF Send, StartDone, Dequeue, HugeFits, Defrag, ring, hwVars
<1>5. CASE IrqCheck \/ HwStop \/ StopBegin \/ StopFree \/ SoftReset \/ LinkChange
  BY <1>1, <1>5 DEF IrqCheck, HwStop, StopBegin, StopFree, SoftReset, LinkChange,
                    ring, hwVars
<1>6. CASE FillDesc
  BY <1>6, FillFlight
<1>7. CASE MarkLast
  BY <1>7, MarkFlight
<1>8. QED
  BY <1>2, <1>3, <1>4, <1>5, <1>6, <1>7 DEF Next, Start, Hardware, Control

-----------------------------------------------------------------------------
\* The stack sees a packet given, the next packet handed over, dropped or read by
\* the DMA, all packets in flight taken back, or nothing.
LEMMA TxFifoSteps ==
    ASSUME TxInv, [Next]_vars
    PROVE  [Fifo!TxNext]_<<Waiting, Flight>>
<1>1. sendq \in Seq(Packets) /\ (Loading => ld.pkt \in Packets)
  BY DEF TxInv, TxTypeOK, Locals
<1>2. ~Loading => Waiting = sendq
  BY <1>1 DEF Waiting
<1>3. ~Loading' => Waiting' = <<>> \o sendq'
  BY DEF Waiting
<1>4. Loading => /\ Waiting # <<>> /\ Head(Waiting) = ld.pkt /\ Tail(Waiting) = sendq
  BY <1>1 DEF Waiting
<1>5. CASE \E p \in Packets : Send(p)
  <2>1. PICK p \in Packets : Send(p)
    BY <1>5
  <2>2. /\ ~Loading /\ ~Loading' /\ sendq' = Append(sendq, p)
        /\ Flight' = Flight
    <3>1. ~HandOver /\ ~HwFetch /\ ~InitRing
      BY <2>1 DEF Send, HandOver, HwFetch, InitRing, Unlocked
    <3>2. QED
      BY <3>1, <2>1, FlightSteps DEF Send, Unlocked, Loading
  <2>3. Waiting' = Append(Waiting, p)
    BY <2>2, <1>1, <1>2, <1>3
  <2>4. QED
    BY <2>2, <2>3 DEF Fifo!TxNext, Fifo!Give
<1>6. CASE Dequeue
  <2>1. /\ ~Loading /\ Loading' /\ sendq # <<>> /\ sendq' = Tail(sendq)
        /\ ld'.pkt = Head(sendq)
    BY <1>6 DEF Dequeue, Loading, Load
  <2>2. Waiting' = << Head(sendq) >> \o Tail(sendq)
    BY <2>1 DEF Waiting
  <2>3. Waiting' = Waiting
    BY <2>1, <2>2, <1>1, <1>2
  <2>4. QED
    BY <2>3, <1>6, FlightIs DEF Dequeue, ring, hwVars
<1>7. CASE HandOver
  <2>1. Loading /\ ~Loading' /\ sendq' = sendq
    BY <1>7 DEF HandOver, Loading
  <2>2. Waiting # <<>> /\ Waiting' = Tail(Waiting) /\ Flight' = Append(Flight, Head(Waiting))
    BY <2>1, <1>1, <1>3, <1>4, <1>7, HandOverFlight
  <2>3. QED
    BY <2>2 DEF Fifo!TxNext, Fifo!HandOver
<1>8. CASE HugeFits \/ Defrag
  <2>1. Loading /\ sendq' = sendq /\ Flight' = Flight
    BY <1>8, FlightIs DEF HugeFits, Defrag, Loading, ring, hwVars
  <2>2. CASE Drop
    <3>1. ~Loading'
      BY <2>2 DEF Drop, Loading
    <3>2. Waiting # <<>> /\ Waiting' = Tail(Waiting)
      BY <3>1, <2>1, <1>1, <1>3, <1>4
    <3>3. QED
      BY <2>1, <3>2 DEF Fifo!TxNext, Fifo!Drop
  <2>3. CASE ~Drop
    <3>1. pc' = "fill" /\ ld'.pkt = ld.pkt
      BY <1>8, <2>3 DEF HugeFits, Defrag, Load
    <3>2. Waiting' = Waiting
      BY <3>1, <2>1 DEF Waiting, Loading
    <3>3. QED
      BY <2>1, <3>2
  <2>4. QED
    BY <2>2, <2>3
<1>9. CASE HwFetch
  <2>1. Waiting' = Waiting
    BY <1>9 DEF HwFetch, Waiting, Loading, startVars
  <2>2. QED
    BY <2>1, <1>9, FetchFlight DEF Fifo!TxNext, Fifo!Transmit
<1>10. CASE InitRing
  <2>1. Waiting' = Waiting
    BY <1>10 DEF InitRing, Waiting, Loading, startVars
  <2>2. QED
    BY <2>1, <1>10, InitFlight DEF Fifo!TxNext, Fifo!TakeBack
<1>11. CASE ~(\/ \E p \in Packets : Send(p)
              \/ Dequeue \/ HandOver \/ HugeFits \/ Defrag \/ HwFetch \/ InitRing)
  <2>1. Flight' = Flight
    BY <1>11, FlightSteps
  <2>2. sendq' = sendq /\ Loading' = Loading /\ (Loading => ld'.pkt = ld.pkt)
    <3>1. CASE UNCHANGED vars \/ IrqCheck \/ IrqReap \/ HkReap \/ HwStop \/ Control
      BY <1>11, <3>1 DEF vars, startVars, Loading, IrqCheck, IrqReap, HkReap, HwStop,
         Control, StopBegin, StopFree, SoftReset, LinkChange
    <3>2. CASE StartReap \/ StartDone \/ HugeReap \/ MarkLast
      BY <3>2 DEF StartReap, StartDone, HugeReap, MarkLast, Loading
    <3>3. CASE FillDesc
      <4>1. ld \in Loads
        BY DEF TxInv, TxTypeOK, Loads
      <4>2. ld'.pkt = ld.pkt
        <5>1. CASE ld.mbufs[ld.m] = 0
          <6>1. ld' = [ld EXCEPT !.m = @ + 1, !.num_frag = @ - 1]
            BY <3>3, <5>1 DEF FillDesc
          <6>2. QED
            BY <4>1, <6>1 DEF Loads
        <5>2. CASE ld.mbufs[ld.m] # 0
          <6>1. ld' = [ld EXCEPT !.m = @ + 1, !.nmbuf = @ + 1, !.at = Next1(ld.at)]
            BY <3>3, <5>2 DEF FillDesc
          <6>2. QED
            BY <4>1, <6>1 DEF Loads
        <5>3. QED
          BY <5>1, <5>2
      <4>3. QED
        BY <3>3, <4>2 DEF FillDesc, Loading
    <3>4. QED
      BY <1>11, <3>1, <3>2, <3>3 DEF Next, Start, Hardware
  <2>3. Waiting' = Waiting
    BY <2>2 DEF Waiting
  <2>4. QED
    BY <2>1, <2>3
<1>12. QED
  BY <1>5, <1>6, <1>7, <1>8, <1>9, <1>10, <1>11

\* For every ring size and every fragmentation, the ring gives the stack the queue
\* of GemacTxFifo: whatever the reaps, the fill loop and the DMA do in between,
\* packets are handed over and leave in order, each once.
THEOREM TxRingIsFifo == Spec => TxFifoSpec
<1>1. Init => Fifo!TxInit
  <2> SUFFICES ASSUME Init PROVE Fifo!TxInit
    OBVIOUS
  <2>1. Waiting = <<>>
    BY DEF Init, Waiting, Loading
  <2>2. desc = [i \in Slots |-> NoDesc] /\ hwptr = 0
    BY DEF Init
  <2>3. 0 \in Slots /\ Behind(0, 0) = 0 /\ 0 \in 0 .. NumTx
    BY RingSize, BehindRound DEF Slots
  <2>4. Run(desc, hwptr, 0)
    BY <2>2, <2>3 DEF Run, NoDesc
  <2>5. Ends(desc, hwptr) = {k \in 1 .. 0 : desc[Behind(hwptr, k - 1)].ls}
    BY <2>3, <2>4, EndsOfRun
  <2>6. Flight = <<>>
    BY <2>5, SelectedNone, FlightIs DEF FlightOf
  <2>7. QED
    BY <2>1, <2>6 DEF Fifo!TxInit
<1>2. TxInv /\ [Next]_vars => [Fifo!TxNext]_<<Waiting, Flight>>
  BY TxFifoSteps
<1>3. QED
  BY <1>1, <1>2, TxInvariant, PTL DEF Spec, TxFifoSpec, Fifo!TxFifo
=============================================================================
