------------------------------- MODULE SdmaProofs -------------------------------
(* Proofs about Sdma: what the programs move, that the driver's fit, and that  *)
(* a copy reported done is done.                                               *)
EXTENDS Sdma, TLAPS

-----------------------------------------------------------------------------
(* The programs. *)

\* The loops go through every pack once, however they are nested.
LEMMA TurnsArePacks ==
    ASSUME NEW d \in Directions, NEW n \in Nat
    PROVE  /\ Units(d, n) \in Nat
           /\ Packs(d, n) \in Nat
           /\ ShortPack(d, n) \in 0 .. 15
           /\ Turns(d, n) = Packs(d, n)
           /\ 16 * Packs(d, n) + ShortPack(d, n) = Units(d, n)
<1>1. Units(d, n) \in Nat
  BY DEF Units
<1>2. Packs(d, n) \in Nat /\ ShortPack(d, n) \in 0 .. 15
      /\ 16 * Packs(d, n) + ShortPack(d, n) = Units(d, n)
  BY <1>1 DEF Packs, ShortPack, BrstLen
<1>3. Turns(d, n) = Packs(d, n)
  BY <1>2 DEF Turns, LoopMax
<1> QED
  BY <1>1, <1>2, <1>3

\* A copy between memory and a core moves the whole words of its data, no more
\* and no less (sdma_program's trans_count /= 4).
THEOREM CopyMovesWords ==
    ASSUME NEW d \in CopyDirs, NEW n \in Nat
    PROVE  Moved(d, n) = Whole(n)
<1>1. d \in Directions /\ SrcSize(d) * DstSize(d) = 4 /\ DstSize(d) * SrcSize(d) = 4
  BY DEF CopyDirs, Directions, SrcSize, DstSize
<1>2. Units(d, n) = n \div 4
  BY DEF CopyDirs, Units
<1>3. Moved(d, n) = 64 * Packs(d, n) + 4 * ShortPack(d, n)
  BY <1>1, TurnsArePacks DEF Moved, PackBytes, BrstLen, CopyDirs, SrcSize, DstSize
<1>4. 16 * Packs(d, n) + ShortPack(d, n) = n \div 4
      /\ Packs(d, n) \in Nat /\ ShortPack(d, n) \in Nat
  BY <1>1, <1>2, TurnsArePacks
<1>5. Moved(d, n) = 4 * (n \div 4)
  BY <1>3, <1>4
<1> QED
  BY <1>5 DEF Whole

\* Between two external memories every byte is moved.
THEOREM ExternalMovesAll ==
    ASSUME NEW n \in Nat
    PROVE  Moved("EXTR_TO_EXTR", n) = n
<1> DEFINE d == "EXTR_TO_EXTR"
<1>1. d \in Directions /\ SrcSize(d) = 1 /\ DstSize(d) = 1 /\ Units(d, n) = n
  BY DEF Directions, SrcSize, DstSize, Units
<1>2. Moved(d, n) = 16 * Packs(d, n) + ShortPack(d, n)
  BY <1>1, TurnsArePacks DEF Moved, PackBytes, BrstLen
<1> QED
  BY <1>1, <1>2, TurnsArePacks

\* Between two internal memories, bursts of four on both sides, the program moves
\* four times the data it was asked to move (sdma.c:439, which says that bursts
\* of 1 and 4 work).
THEOREM InternalMovesFourfold ==
    ASSUME NEW n \in Nat
    PROVE  Moved("INTR_TO_INTR", n) = 4 * Whole(n)
<1> DEFINE d == "INTR_TO_INTR"
<1>1. d \in Directions /\ SrcSize(d) = 4 /\ DstSize(d) = 4
      /\ Units(d, n) = n \div 4
  BY DEF Directions, SrcSize, DstSize, Units
<1>2. Moved(d, n) = 256 * Packs(d, n) + 16 * ShortPack(d, n)
  BY <1>1, TurnsArePacks DEF Moved, PackBytes, BrstLen
<1>3. 16 * Packs(d, n) + ShortPack(d, n) = n \div 4
      /\ Packs(d, n) \in Nat /\ ShortPack(d, n) \in Nat
  BY <1>1, TurnsArePacks
<1>4. Moved(d, n) = 16 * (n \div 4)
  BY <1>2, <1>3
<1> QED
  BY <1>4 DEF Whole

\* No transfer the driver accepts makes a program that is cut off or a loop too
\* long to jump back over.
LEMMA ShortEnough ==
    ASSUME NEW d \in CopyDirs, NEW n \in Nat, n < 5 * BankSize
    PROVE  /\ Length(d, n, "SDMA_CPU_") <= ProgMax
           /\ Body(d, n, "SDMA_CPU_") <= 255
<1>1. d \in Directions /\ PackLength(d) = 5 /\ LoopLength(d) = 9
  BY DEF CopyDirs, Directions, PackLength, LoopLength, SrcSize, DstSize
<1>2. Packs(d, n) \in 0 .. 2560
  BY DEF CopyDirs, Packs, Units, BrstLen, BankSize
<1>3. Packs(d, n) \div LoopMax \in 0 .. 10
  BY <1>2 DEF LoopMax
<1>4. Body(d, n, "SDMA_CPU_") \in Nat /\ Body(d, n, "SDMA_CPU_") <= 6 + 9 * 10 + 9 + 11 + 2
  <2> DEFINE b1 == IF Packs(d, n) > 0 THEN 6 ELSE 0
             b2 == LoopLength(d) * (Packs(d, n) \div LoopMax)
             b3 == IF Packs(d, n) % LoopMax > 0 THEN LoopLength(d) ELSE 0
             b4 == IF ShortPack(d, n) > 0 THEN 6 + PackLength(d) ELSE 0
  <2>1. b1 \in 0 .. 6 /\ b3 \in 0 .. 9 /\ b4 \in 0 .. 11
    BY <1>1
  <2>2. b2 \in 0 .. 90
    BY <1>1, <1>3
  <2>3. Body(d, n, "SDMA_CPU_") = 0 + b1 + b2 + b3 + b4 + 2
    BY DEF Body
  <2> HIDE DEF b1, b2, b3, b4
  <2> QED
    BY <2>1, <2>2, <2>3
<1> QED
  BY <1>4 DEF Length, ProgMax

-----------------------------------------------------------------------------
(* The invariant. *)

\* A transfer in hand has a channel, and sizes the driver accepts.
InHand ==
    /\ xfer.pc # "idle" => xfer.chan \in Channels
    /\ xfer.size < 5 * BankSize
    /\ xfer.after < 5 * BankSize

\* A clean channel nobody waits for is at rest and has no interrupt pending.
\* While a copy runs on it, the interrupt comes after the data.
CleanChannels ==
    \A c \in Channels \ dirty :
        /\ ~ WaitsFor(c) => thread[c] \in {"stopped", "end"} /\ c \notin intstatus
        /\ WaitsFor(c) => \/ thread[c] \in {"copy", "sev"} /\ c \notin intstatus
                          \/ thread[c] \in {"stopped", "end"}

\* What is moved, and what the pieces that are left will move, is what was
\* wanted.
NotYet == \/ xfer.pc \in {"check", "go"} /\ xfer.kind = "SDMA_CPU_"
          \/ xfer.pc \in {"unmask", "wait", "look"} /\ thread[xfer.chan] = "copy"
Moving == xfer.pc \in {"unmask", "wait", "look"} /\ thread[xfer.chan] # "copy"

Accounts ==
    xfer.chan \notin dirty =>
        /\ NotYet => xfer.moved + Whole(xfer.size) + Whole(xfer.after) = xfer.want
        /\ Moving => xfer.moved + Whole(xfer.after) = xfer.want
        /\ xfer.pc = "done" => xfer.moved = xfer.want

SdmaInv ==
    /\ SdmaTypeOK
    /\ InHand
    /\ CleanChannels
    /\ Accounts

LEMMA WholeIsNat ==
    ASSUME NEW n \in Nat
    PROVE  Whole(n) \in Nat
BY DEF Whole

XferType ==
    [pc : {"idle", "check", "go", "unmask", "wait", "look", "done"},
     kind : {"SDMA_CPU_", "SDMA_DSP_"},
     chan : Channels \cup {NoChannel},
     dir : CopyDirs,
     size : Nat,
     after : Nat,
     rest : SUBSET Channels,
     want : Nat,
     moved : Nat]

LEMMA NoXferType ==
    /\ NoXfer \in XferType
    /\ NoXfer.pc = "idle" /\ NoXfer.size = 0 /\ NoXfer.after = 0
BY DEF NoXfer, XferType, NoChannel, CopyDirs

LEMMA InitInv == Init => SdmaInv
<1> SUFFICES ASSUME Init PROVE SdmaInv
  OBVIOUS
<1>1. xfer \in XferType /\ xfer.pc = "idle" /\ xfer.size = 0 /\ xfer.after = 0
  BY NoXferType DEF Init
<1>2. SdmaTypeOK
  BY <1>1 DEF Init, SdmaTypeOK, XferType
<1>3. InHand /\ Accounts
  BY <1>1 DEF InHand, Accounts, NotYet, Moving, BankSize
<1>4. CleanChannels
  BY <1>1 DEF Init, CleanChannels, WaitsFor
<1> QED
  BY <1>2, <1>3, <1>4 DEF SdmaInv

\* An accepted transfer is cut into pieces of acceptable size.
LEMMA PiecesFit ==
    ASSUME NEW t \in Transfers, Accepted(t)
    PROVE  /\ First(t) \in Nat /\ First(t) < 5 * BankSize
           /\ Second(t) \in Nat /\ Second(t) < 5 * BankSize
<1>1. t.offset \in Nat /\ t.size \in Nat
  BY TransfersAssumption
<1> QED
  BY <1>1 DEF Accepted, First, Second, Crosses, BankSize

\* The start of a copy.
LEMMA CopyStep ==
    ASSUME SdmaInv, NEW t \in Transfers, Copy(t)
    PROVE  SdmaInv'
<1>1. PICK c \in Channels :
        xfer' = [NoXfer EXCEPT !.pc = "check", !.chan = c, !.dir = t.dir,
                               !.size = First(t), !.after = Second(t),
                               !.want = Whole(First(t)) + Whole(Second(t))]
  BY DEF Copy
<1>2. t.dir \in CopyDirs
  BY TransfersAssumption
<1>3. /\ First(t) \in Nat /\ First(t) < 5 * BankSize
      /\ Second(t) \in Nat /\ Second(t) < 5 * BankSize
  BY PiecesFit DEF Copy
<1>4. Whole(First(t)) \in Nat /\ Whole(Second(t)) \in Nat
  BY <1>3, WholeIsNat
<1>5. xfer' = [pc |-> "check", kind |-> "SDMA_CPU_", chan |-> c, dir |-> t.dir,
               size |-> First(t), after |-> Second(t), rest |-> {},
               want |-> Whole(First(t)) + Whole(Second(t)), moved |-> 0]
  BY <1>1 DEF NoXfer
<1>6. UNCHANGED <<busy, thread, inten, intstatus, unmasked, notified, dirty>>
  BY DEF Copy
<1>7. xfer' \in XferType
  BY <1>2, <1>3, <1>4, <1>5 DEF XferType
<1>8. SdmaTypeOK'
  BY <1>6, <1>7 DEF SdmaInv, SdmaTypeOK, XferType
<1>9. CleanChannels'
  BY <1>5, <1>6 DEF SdmaInv, CleanChannels, WaitsFor, Copy, AtRest
<1>10. InHand' /\ Accounts'
  BY <1>3, <1>4, <1>5 DEF InHand, Accounts, NotYet, Moving
<1> QED
  BY <1>8, <1>9, <1>10 DEF SdmaInv

\* A transfer that is given up, or a chain that comes next.
XferReset ==
    /\ xfer \in XferType
    /\ xfer.pc \in {"idle", "check"}
    /\ xfer.pc = "check" => xfer.kind = "SDMA_DSP_" /\ xfer.chan \in Channels
    /\ xfer.size = 0 /\ xfer.after = 0

LEMMA ResetSteps ==
    ASSUME XferFails \/ \E s \in SUBSET Channels : NextChain(s)
    PROVE  XferReset'
<1>1. CASE xfer' = NoXfer
  BY <1>1, NoXferType DEF XferReset
<1>2. ASSUME NEW s \in SUBSET Channels, NEW c \in s,
             xfer' = [NoXfer EXCEPT !.pc = "check", !.kind = "SDMA_DSP_",
                                    !.chan = c, !.rest = s \ {c}]
      PROVE  XferReset'
  <2>1. xfer' = [pc |-> "check", kind |-> "SDMA_DSP_", chan |-> c,
                 dir |-> "EXTR_TO_INTR", size |-> 0, after |-> 0,
                 rest |-> s \ {c}, want |-> 0, moved |-> 0]
    BY <1>2 DEF NoXfer
  <2> QED
    BY <2>1 DEF XferReset, XferType, CopyDirs
<1> QED
  BY <1>1, <1>2 DEF XferFails, NextChain

\* The invariant asks nothing of it.
LEMMA ResetInv ==
    ASSUME XferReset', CleanChannels',
           busy' \subseteq Channels,
           thread' \in [Channels -> {"stopped", "copy", "sev", "event", "chain", "end"}],
           inten' \subseteq Channels, intstatus' \subseteq Channels,
           unmasked' \subseteq Channels, notified' \in BOOLEAN, dirty' \subseteq Channels
    PROVE  SdmaInv'
<1>1. SdmaTypeOK'
  BY DEF XferReset, SdmaTypeOK, XferType
<1>2. InHand' /\ Accounts'
  BY DEF XferReset, InHand, Accounts, NotYet, Moving, BankSize
<1> QED
  BY <1>1, <1>2 DEF SdmaInv

LEMMA StartChainsStep ==
    ASSUME SdmaInv, NEW s \in SUBSET Channels, StartChains(s)
    PROVE  SdmaInv'
<1>1. XferReset'
  BY ResetSteps DEF StartChains
<1>2. CleanChannels'
  BY <1>1 DEF StartChains, AtRest, SdmaInv, CleanChannels, WaitsFor, XferReset
<1> QED
  BY <1>1, <1>2, ResetInv DEF StartChains, SdmaInv, SdmaTypeOK

LEMMA CheckStep ==
    ASSUME SdmaInv, Check
    PROVE  SdmaInv'
<1> USE DEF Check
<1>1. CASE ChannelFree(xfer.chan) /\ XferTo("go")
  <2>1. xfer' = [xfer EXCEPT !.pc = "go"]
    BY <1>1 DEF XferTo
  <2>2. SdmaTypeOK'
    BY <2>1 DEF SdmaInv, SdmaTypeOK
  <2>4. CleanChannels'
    BY <2>1 DEF SdmaInv, SdmaTypeOK, CleanChannels, WaitsFor
  <2>5. InHand' /\ Accounts'
    BY <2>1 DEF SdmaInv, SdmaTypeOK, InHand, Accounts, NotYet, Moving
  <2> QED
    BY <2>2, <2>4, <2>5 DEF SdmaInv
<1>2. CASE ~ ChannelFree(xfer.chan)
  <2>1. XferReset'
    BY <1>2, ResetSteps DEF SdmaInv, SdmaTypeOK
  <2>2. CleanChannels'
    BY <2>1 DEF SdmaInv, CleanChannels, WaitsFor, XferReset
  <2> QED
    BY <2>1, <2>2, ResetInv DEF SdmaInv, SdmaTypeOK
<1> QED
  BY <1>1, <1>2

LEMMA GoCopyStep ==
    ASSUME SdmaInv, GoCopy
    PROVE  SdmaInv'
<1>1. xfer' = [xfer EXCEPT !.pc = "unmask"]
  BY DEF GoCopy, XferTo
<1>2. xfer.chan \in Channels
  BY DEF GoCopy, SdmaInv, InHand
<1>3. SdmaTypeOK'
  BY <1>1, <1>2 DEF GoCopy, SdmaInv, SdmaTypeOK
<1>4. CleanChannels'
  BY <1>1, <1>2 DEF GoCopy, SdmaInv, SdmaTypeOK, CleanChannels, WaitsFor
<1>5. InHand' /\ Accounts'
  BY <1>1, <1>2 DEF GoCopy, SdmaInv, SdmaTypeOK, InHand, Accounts,
                    NotYet, Moving
<1> QED
  BY <1>3, <1>4, <1>5 DEF SdmaInv

LEMMA GoChainStep ==
    ASSUME SdmaInv, GoChain
    PROVE  SdmaInv'
<1>1. XferReset'
  BY ResetSteps DEF GoChain, SdmaInv, SdmaTypeOK
<1>2. xfer.chan \in Channels
  BY DEF GoChain, SdmaInv, InHand
<1>3. CleanChannels'
  BY <1>1, <1>2 DEF GoChain, SdmaInv, SdmaTypeOK, CleanChannels, WaitsFor, XferReset
<1> QED
  BY <1>1, <1>2, <1>3, ResetInv DEF GoChain, SdmaInv, SdmaTypeOK

\* The steps of irq_wait that go on waiting.
LEMMA WaitStep ==
    ASSUME SdmaInv, Unmask \/ Wake \/ LookOther
    PROVE  SdmaInv'
<1>1. PICK pc \in {"wait", "look"} : xfer' = [xfer EXCEPT !.pc = pc]
  BY DEF Unmask, Wake, LookOther, XferTo
<1>2. xfer.pc \in {"unmask", "wait", "look"} /\ xfer.chan \in Channels
      /\ UNCHANGED <<busy, thread, inten, intstatus, dirty>>
  BY DEF Unmask, Wake, LookOther, SdmaInv, InHand
<1>3. unmasked' \subseteq Channels /\ notified' \in BOOLEAN
  BY <1>2 DEF Unmask, Wake, LookOther, SdmaInv, SdmaTypeOK
<1>4. SdmaTypeOK'
  BY <1>1, <1>2, <1>3 DEF SdmaInv, SdmaTypeOK
<1>5. CleanChannels'
  BY <1>1, <1>2 DEF SdmaInv, SdmaTypeOK, CleanChannels, WaitsFor
<1>6. InHand' /\ Accounts'
  BY <1>1, <1>2 DEF SdmaInv, SdmaTypeOK, InHand, Accounts, NotYet, Moving
<1> QED
  BY <1>4, <1>5, <1>6 DEF SdmaInv

LEMMA TimeoutStep ==
    ASSUME SdmaInv, Timeout
    PROVE  SdmaInv'
<1>1. XferReset'
  BY ResetSteps DEF Timeout
<1>2. xfer.chan \in Channels
  BY DEF Timeout, SdmaInv, InHand
<1>3. CleanChannels'
  BY <1>1, <1>2 DEF Timeout, SdmaInv, SdmaTypeOK, CleanChannels, WaitsFor, XferReset
<1> QED
  BY <1>1, <1>2, <1>3, ResetInv DEF Timeout, SdmaInv, SdmaTypeOK

\* The interrupt of a clean channel says that its copy is made.
LEMMA LookMineStep ==
    ASSUME SdmaInv, LookMine
    PROVE  SdmaInv'
<1>1. xfer.pc = "look" /\ xfer.chan \in Channels /\ xfer.chan \in intstatus
      /\ intstatus' = intstatus \ {xfer.chan}
      /\ UNCHANGED <<busy, thread, notified, dirty>>
  BY DEF LookMine, Mine, SdmaInv, InHand
<1>2. inten' \subseteq Channels /\ intstatus' \subseteq Channels
      /\ unmasked' \subseteq Channels
  BY <1>1 DEF LookMine, SdmaInv, SdmaTypeOK
<1>3. xfer.chan \notin dirty => thread[xfer.chan] \in {"stopped", "end"}
  BY <1>1 DEF SdmaInv, CleanChannels, WaitsFor
<1>4. ASSUME xfer'.pc \notin {"unmask", "wait", "look"}
      PROVE  CleanChannels'
  BY <1>1, <1>3, <1>4 DEF SdmaInv, CleanChannels, WaitsFor
<1>5. xfer.chan \notin dirty => xfer.moved + Whole(xfer.after) = xfer.want
  BY <1>1, <1>3 DEF SdmaInv, Accounts, Moving
<1>6. CASE xfer.after = 0 /\ XferTo("done")
  <2>1. xfer' = [xfer EXCEPT !.pc = "done"] /\ Whole(xfer.after) = 0
    BY <1>6 DEF XferTo, Whole
  <2>2. SdmaTypeOK'
    BY <1>1, <1>2, <2>1 DEF SdmaInv, SdmaTypeOK
  <2>3. xfer.moved \in Nat /\ xfer.want \in Nat
    BY DEF SdmaInv, SdmaTypeOK
  <2>4. InHand' /\ CleanChannels'
    BY <1>1, <1>4, <2>1 DEF SdmaInv, SdmaTypeOK, InHand
  <2>5. Accounts'
    BY <1>1, <1>5, <2>1, <2>3 DEF SdmaInv, SdmaTypeOK, Accounts, NotYet, Moving
  <2> QED
    BY <2>2, <2>4, <2>5 DEF SdmaInv
<1>7. CASE xfer' = [xfer EXCEPT !.pc = "check", !.size = xfer.after, !.after = 0]
  <2>1. SdmaTypeOK'
    BY <1>1, <1>2, <1>7 DEF SdmaInv, SdmaTypeOK
  <2>2. InHand' /\ CleanChannels'
    BY <1>1, <1>4, <1>7 DEF SdmaInv, SdmaTypeOK, InHand, BankSize
  <2>3. Whole(0) = 0 /\ Whole(xfer.after) \in Nat
    BY WholeIsNat DEF Whole, SdmaInv, SdmaTypeOK
  <2>4. xfer'.pc = "check" /\ xfer'.chan = xfer.chan /\ xfer'.size = xfer.after
        /\ xfer'.after = 0 /\ xfer'.moved = xfer.moved /\ xfer'.want = xfer.want
        /\ xfer.moved \in Nat
    BY <1>7 DEF SdmaInv, SdmaTypeOK
  <2>5. Accounts'
    BY <1>1, <1>5, <2>3, <2>4 DEF Accounts, NotYet, Moving
  <2> QED
    BY <2>1, <2>2, <2>5 DEF SdmaInv
<1>8. CASE XferFails
  <2>1. XferReset'
    BY <1>8, ResetSteps
  <2>2. CleanChannels'
    BY <1>4, <2>1 DEF XferReset
  <2> QED
    BY <1>1, <1>2, <2>1, <2>2, ResetInv DEF SdmaInv, SdmaTypeOK
<1> QED
  BY <1>6, <1>7, <1>8 DEF LookMine

\* The loops move what the piece in hand has in whole words.
LEMMA HwCopyStep ==
    ASSUME SdmaInv, NEW c \in Channels, HwCopy(c)
    PROVE  SdmaInv'
<1>1. thread' = [thread EXCEPT ![c] = "sev"] /\ thread[c] = "copy"
      /\ UNCHANGED <<busy, inten, intstatus, unmasked, notified, dirty>>
  BY DEF HwCopy, ThreadTo
<1>2. Moved(xfer.dir, xfer.size) = Whole(xfer.size) /\ Whole(xfer.size) \in Nat
      /\ Whole(xfer.after) \in Nat
  BY CopyMovesWords, WholeIsNat DEF SdmaInv, SdmaTypeOK
<1>3. CASE WaitsFor(c)
  <2>1. xfer' = [xfer EXCEPT !.moved = @ + Whole(xfer.size)]
    BY <1>2, <1>3 DEF HwCopy
  <2>2. SdmaTypeOK'
    BY <1>1, <1>2, <2>1 DEF SdmaInv, SdmaTypeOK
  <2>3. CleanChannels'
    BY <1>1, <1>3, <2>1 DEF SdmaInv, SdmaTypeOK, CleanChannels, WaitsFor
  <2>4. InHand'
    BY <1>1, <1>3, <2>1 DEF SdmaInv, SdmaTypeOK, InHand, WaitsFor
  <2>5. xfer'.pc = xfer.pc /\ xfer'.chan = c /\ xfer'.after = xfer.after
        /\ xfer'.moved = xfer.moved + Whole(xfer.size) /\ xfer'.want = xfer.want
        /\ xfer.moved \in Nat /\ xfer.chan = c
        /\ xfer.pc \in {"unmask", "wait", "look"} /\ thread'[c] = "sev"
    BY <1>1, <1>3, <2>1 DEF SdmaInv, SdmaTypeOK, WaitsFor
  <2>6. c \notin dirty => xfer.moved + Whole(xfer.size) + Whole(xfer.after) = xfer.want
    BY <1>1, <2>5 DEF SdmaInv, Accounts, NotYet
  <2>7. Accounts'
    BY <1>1, <2>5, <2>6 DEF Accounts, NotYet, Moving
  <2> QED
    BY <2>2, <2>3, <2>4, <2>7 DEF SdmaInv
<1>4. CASE ~ WaitsFor(c)
  <2>1. xfer' = xfer
    BY <1>4 DEF HwCopy
  <2>2. SdmaTypeOK'
    BY <1>1, <2>1 DEF SdmaInv, SdmaTypeOK
  <2>3. CleanChannels'
    BY <1>1, <1>4, <2>1 DEF SdmaInv, SdmaTypeOK, CleanChannels, WaitsFor
  <2>4. InHand' /\ Accounts'
    BY <1>1, <1>4, <2>1 DEF SdmaInv, SdmaTypeOK, InHand, Accounts,
                            NotYet, Moving, WaitsFor
  <2> QED
    BY <2>2, <2>3, <2>4 DEF SdmaInv
<1> QED
  BY <1>3, <1>4

\* The other steps of the controller touch a thread that has copied, or one that
\* a chain has.
LEMMA ThreadStep ==
    ASSUME SdmaInv, NEW c \in Channels, HwEvent(c) \/ HwSev(c) \/ HwEnd(c)
    PROVE  SdmaInv'
<1>1. UNCHANGED <<busy, inten, unmasked, notified, xfer, dirty>>
  BY DEF HwEvent, HwSev, HwEnd
<1>2. PICK st \in {"stopped", "event", "chain", "end"} :
        thread' = [thread EXCEPT ![c] = st]
  BY DEF HwEvent, HwSev, HwEnd, ThreadTo
<1>3. thread[c] \in {"event", "chain", "sev", "end"} /\ intstatus' \subseteq Channels
  BY DEF HwEvent, HwSev, HwEnd, SdmaInv, SdmaTypeOK
<1>4. SdmaTypeOK'
  BY <1>1, <1>2, <1>3 DEF SdmaInv, SdmaTypeOK
<1>5. ASSUME NEW d \in Channels \ dirty, d # c
      PROVE  thread'[d] = thread[d] /\ (d \in intstatus' <=> d \in intstatus)
  BY <1>2, <1>5 DEF HwEvent, HwSev, HwEnd, SdmaInv, SdmaTypeOK
<1>6. ASSUME c \notin dirty, HwSev(c)
      PROVE  WaitsFor(c) /\ thread'[c] = "end"
  BY <1>6 DEF HwSev, ThreadTo, SdmaInv, SdmaTypeOK, CleanChannels
<1>7. ASSUME c \notin dirty, HwEnd(c)
      PROVE  thread'[c] = "stopped" /\ intstatus' = intstatus
  BY <1>7 DEF HwEnd, ThreadTo, SdmaInv, SdmaTypeOK
<1>8. c \notin dirty => ~ HwEvent(c)
  BY DEF HwEvent, SdmaInv, CleanChannels
<1>9. CleanChannels'
  <2> SUFFICES ASSUME NEW d \in Channels \ dirty
               PROVE  /\ ~ WaitsFor(d) => thread'[d] \in {"stopped", "end"}
                                          /\ d \notin intstatus'
                      /\ WaitsFor(d) => \/ thread'[d] \in {"copy", "sev"}
                                           /\ d \notin intstatus'
                                        \/ thread'[d] \in {"stopped", "end"}
    BY <1>1 DEF CleanChannels, WaitsFor
  <2>1. CASE d # c
    BY <1>5, <2>1 DEF SdmaInv, CleanChannels
  <2>2. CASE d = c
    BY <1>6, <1>7, <1>8, <2>2 DEF SdmaInv, CleanChannels
  <2> QED
    BY <2>1, <2>2
<1>10. InHand'
  BY <1>1, <1>2, <1>3 DEF SdmaInv, SdmaTypeOK, InHand
<1>11. Accounts'
  BY <1>1, <1>2, <1>3 DEF SdmaInv, SdmaTypeOK, Accounts, NotYet, Moving, InHand
<1> QED
  BY <1>4, <1>9, <1>10, <1>11 DEF SdmaInv

LEMMA OutsideStep ==
    ASSUME SdmaInv, NEW c \in Channels, Deliver(c) \/ ReleaseSdma(c)
    PROVE  SdmaInv'
<1>1. UNCHANGED <<thread, inten, intstatus, xfer, dirty>>
  BY DEF Deliver, ReleaseSdma
<1>2. busy' \subseteq Channels /\ unmasked' \subseteq Channels /\ notified' \in BOOLEAN
  BY DEF Deliver, ReleaseSdma, SdmaInv, SdmaTypeOK
<1>3. SdmaTypeOK'
  BY <1>1, <1>2 DEF SdmaInv, SdmaTypeOK
<1> QED
  BY <1>1, <1>3 DEF SdmaInv, InHand, CleanChannels, Accounts, NotYet,
                    Moving, WaitsFor

LEMMA StepInv == SdmaInv /\ [Next]_vars => SdmaInv'
<1> SUFFICES ASSUME SdmaInv, [Next]_vars PROVE SdmaInv'
  OBVIOUS
<1>1. ASSUME NEW t \in Transfers, Copy(t) PROVE SdmaInv'
  BY <1>1, CopyStep
<1>2. ASSUME NEW s \in SUBSET Channels, StartChains(s) PROVE SdmaInv'
  BY <1>2, StartChainsStep
<1>3. CASE Dispatch
  BY <1>3, CheckStep, GoCopyStep, GoChainStep, WaitStep, LookMineStep DEF Dispatch
<1>4. CASE Timeout
  BY <1>4, TimeoutStep
<1>5. ASSUME NEW c \in Channels,
             Controller(c) \/ HwEvent(c) \/ Deliver(c) \/ ReleaseSdma(c)
      PROVE  SdmaInv'
  BY <1>5, HwCopyStep, ThreadStep, OutsideStep DEF Controller
<1>6. CASE UNCHANGED vars
  BY <1>6 DEF vars, SdmaInv, SdmaTypeOK, InHand, CleanChannels,
              Accounts, NotYet, Moving, WaitsFor
<1> QED
  BY <1>1, <1>2, <1>3, <1>4, <1>5, <1>6 DEF Next

LEMMA AlwaysInv == Spec => []SdmaInv
BY InitInv, StepInv, PTL DEF Spec

\* Every variable of the transfers keeps its type (sdma.c, mcom_dsp.c).
THEOREM SdmaTypeCorrect == Spec => []SdmaTypeOK
<1>1. SdmaInv => SdmaTypeOK
  BY DEF SdmaInv
<1> QED
  BY <1>1, AlwaysInv, PTL

\* A copy that irq_wait reports done on a clean channel has moved every whole
\* word.
THEOREM CopiesAreDone == Spec => []DoneIsDone
<1>1. SdmaInv => DoneIsDone
  BY DEF SdmaInv, Accounts, DoneIsDone
<1> QED
  BY <1>1, AlwaysInv, PTL

\* The programs of elcore_dmasend and elcore_dmarecv fit their buffer.
THEOREM ProgramsFit == Spec => []ProgramFits
<1>1. SdmaInv => ProgramFits
  <2> SUFFICES ASSUME SdmaInv PROVE ProgramFits
    OBVIOUS
  <2>1. xfer.dir \in CopyDirs /\ xfer.size \in Nat /\ xfer.size < 5 * BankSize
    BY DEF SdmaInv, SdmaTypeOK, InHand
  <2> QED
    BY <2>1, ShortEnough DEF ProgramFits
<1> QED
  BY <1>1, AlwaysInv, PTL
=================================================================================
