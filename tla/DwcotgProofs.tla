----------------------------- MODULE DwcotgProofs -----------------------------
(***************************************************************************)
(* USB channels for any number of endpoints, channels and elements.        *)
(***************************************************************************)
EXTENDS Dwcotg, NaturalsInduction, WellFoundedInduction, SequenceTheorems, TLAPS

-----------------------------------------------------------------------------
(* The invariant. *)

EpStates == [flags : SUBSET Flags, xelem : Elems \cup {NULL}, split : BOOLEAN,
             csplit : BOOLEAN, once : BOOLEAN, interval : BOOLEAN]
ElemStates == [used : BOOLEAN, ep : Eps \cup {NULL}, err : 0 .. Retries,
               dir : {"in", "out"}, more : BOOLEAN]
Places == {"off", "idle", "mark", "start", "wait", "timedout", "abort", "busy"}

CallerTypes ==
    /\ pc \in [Eps -> Places] /\ fl \in [Eps -> SUBSET Flags]
    /\ xe \in [Eps -> Elems \cup {NULL}] /\ sema \in [Eps -> BOOLEAN]
    /\ sleepon \in Eps \cup {NULL}
IrqTypes ==
    /\ mutex \in {"irq", NULL}
    /\ ipc \in {"idle", "lock", "drop", "body", "clear", "notify"} /\ ich \in Chans
    /\ iint \in DOMAIN Rank /\ iurb \in Eps \cup {NULL} /\ ifl \subseteq Flags
ChipTypes ==
    /\ on \in [Chans -> BOOLEAN] /\ off \in [Chans -> BOOLEAN]
    /\ run \in [Chans -> Elems \cup {NULL}]
    /\ hcint \in [Chans -> DOMAIN Rank] /\ haint \in [Chans -> BOOLEAN]
Types ==
    /\ ep \in [Chans -> EpStates] /\ elem \in [Elems -> ElemStates]
    /\ chan \in [Eps -> Chans \cup {NULL}]
    /\ pulses \in Seq(Chans) /\ Len(pulses) <= MaxPulses
    /\ CallerTypes /\ IrqTypes /\ ChipTypes

\* An endpoint has a channel from endpoint_enable to endpoint_disable.
Enabled == \A e \in Eps : chan[e] = NULL <=> pc[e] = "off"

\* What a context, a running channel or a caller points to has been an endpoint's.
HadEp(x) == x \in Elems /\ elem[x].ep \in Eps
Elements ==
    /\ \A e \in Eps : /\ xe[e] # NULL => HadEp(xe[e])
                      /\ pc[e] = "start" \/ (pc[e] = "mark" /\ Kind[e] = "ctl") => xe[e] # NULL
    /\ \A c \in Chans : /\ ep[c].xelem # NULL => HadEp(ep[c].xelem)
                        /\ on[c] => run[c] # NULL

\* The interrupt thread holds the mutex from where it reads the flags.
Served ==
    /\ ipc \in {"drop", "body", "clear", "notify"} => mutex = "irq"
    /\ ipc \in {"body", "clear", "notify"} => ep[ich].xelem # NULL

\* A copy of the flags that is to be written back says rightly whether the
\* channel is used.
UsedRead ==
    /\ \A e \in Eps : pc[e] = "mark" => "USED" \in fl[e]
    /\ ipc \in {"drop", "clear"} => ("USED" \in ifl <=> "USED" \in ep[ich].flags)

UsbInv == Types /\ Enabled /\ Elements /\ Served /\ UsedRead /\ ChannelsOwned

-----------------------------------------------------------------------------
\* A set of naturals has a least element.
LEMMA MinOf ==
    ASSUME NEW S \in SUBSET Nat, S # {}
    PROVE  Min(S) \in S
<1>1. PICK m \in S : \A n \in S : ~ (<<n, m>> \in OpToRel(<, Nat))
  BY NatLessThanWellFounded, WFMin
<1>2. \A n \in S : ~ (n < m)
  BY <1>1 DEF OpToRel
<1>3. \A n \in S : m <= n
  BY <1>2
<1>4. QED
  BY <1>3 DEF Min

\* The channel an endpoint is given is its own or in nobody's use.
LEMMA FreshChannel ==
    ASSUME Types, NEW e \in Eps, NEW c \in ChannelFor(e)
    PROVE  c \in Chans /\ (c = chan[e] \/ (chan[e] = NULL /\ "USED" \notin ep[c].flags))
<1>1. CASE chan[e] # NULL
  BY <1>1 DEF ChannelFor, Types
<1>2. CASE chan[e] = NULL
  <2> DEFINE U == {d \in Chans : "USED" \notin ep[d].flags}
  <2>1. U # {} /\ c = Min(U)
    BY <1>2 DEF ChannelFor
  <2>2. U \in SUBSET Nat
    BY UsbAssumption DEF Chans
  <2>3. c \in U
    BY <2>1, <2>2, MinOf
  <2>4. QED
    BY <1>2, <2>3
<1>3. QED
  BY <1>1, <1>2

\* NULL is no channel, endpoint or element.
LEMMA NullOut == NULL \notin Chans /\ NULL \notin Eps /\ NULL \notin Elems /\ NULL # "irq"
  BY UsbAssumption DEF Chans

\* An endpoint that is enabled has a channel.
LEMMA ChannelOf ==
    ASSUME Types, Enabled, NEW e \in Eps, pc[e] # "off"
    PROVE  chan[e] \in Chans
BY DEF Types, Enabled

\* endpoint_enable keeps the endpoint's channel or takes one that nobody has.
LEMMA EnableStep ==
    ASSUME UsbInv, NEW e \in Eps, Enable(e)
    PROVE  UsbInv'
<1>0. Types /\ Enabled /\ Elements /\ Served /\ UsedRead /\ ChannelsOwned
  BY DEF UsbInv
<1>1. PICK c \in ChannelFor(e) :
          /\ chan' = [chan EXCEPT ![e] = c]
          /\ ep' = [ep EXCEPT ![c] =
                [(IF chan[e] = NULL THEN FreshEp ELSE @) EXCEPT
                    !.flags = {"USED"}, !.split = e \in Split]]
          /\ hcint' = [hcint EXCEPT ![c] = "none"]
          /\ haint' = [haint EXCEPT ![c] = TRUE]
  BY DEF Enable
<1>2. c \in Chans /\ (c = chan[e] \/ (chan[e] = NULL /\ "USED" \notin ep[c].flags))
  BY <1>0, FreshChannel
<1>3. /\ pc[e] \in {"off", "idle"} /\ mutex = NULL
      /\ pc' = [pc EXCEPT ![e] = "idle"]
      /\ UNCHANGED <<elem, fl, xe, sema, sleepon, mutex, ipc, ich, iint, iurb, ifl, pulses,
                     on, off, run>>
  BY DEF Enable, irqThread
<1>4. /\ ep' \in [Chans -> EpStates] /\ \A d \in Chans : d # c => ep'[d] = ep[d]
      /\ ep'[c].flags = {"USED"}
      /\ ep'[c].xelem \in {NULL, ep[c].xelem}
  <2> DEFINE r == IF chan[e] = NULL THEN FreshEp ELSE ep[c]
  <2>1. r \in EpStates /\ r.xelem \in {NULL, ep[c].xelem}
    BY <1>0, <1>2 DEF Types, FreshEp, EpStates
  <2>2. ep' = [ep EXCEPT ![c] = [r EXCEPT !.flags = {"USED"}, !.split = e \in Split]]
    BY <1>0, <1>1, <1>2 DEF Types
  <2> HIDE DEF r
  <2>3. (e \in Split) \in BOOLEAN /\ {"USED"} \in SUBSET Flags
    BY DEF Flags
  <2> DEFINE s == [r EXCEPT !.flags = {"USED"}, !.split = e \in Split]
  <2>4. s \in EpStates /\ s.flags = {"USED"} /\ s.xelem = r.xelem
    BY <2>1, <2>3, Zenon DEF EpStates
  <2> HIDE DEF s
  <2>5. QED
    BY <1>0, <1>2, <2>1, <2>2, <2>4 DEF Types, s
<1>5. /\ chan'[e] = c /\ \A f \in Eps : f # e => chan'[f] = chan[f]
      /\ pc'[e] = "idle" /\ \A f \in Eps : f # e => pc'[f] = pc[f]
      /\ chan' \in [Eps -> Chans \cup {NULL}]
  BY <1>0, <1>1, <1>2, <1>3 DEF Types, CallerTypes
<1>6. Types'
  BY <1>0, <1>1, <1>2, <1>3, <1>4, <1>5
     DEF Types, CallerTypes, IrqTypes, ChipTypes, Places, Rank
<1>7. Enabled' /\ Elements' /\ Served' /\ UsedRead'
  BY <1>0, <1>2, <1>3, <1>4, <1>5, NullOut
     DEF Enabled, Elements, HadEp, Served, UsedRead, Types, IrqTypes
<1>8. ChannelsOwned'
  <2>1. \A f \in Eps : f # e => chan[f] # c
    BY <1>0, <1>2, NullOut DEF ChannelsOwned
  <2>2. QED
    BY <1>0, <1>2, <1>4, <1>5, <2>1, NullOut DEF ChannelsOwned
<1>9. QED
  BY <1>6, <1>7, <1>8 DEF UsbInv

\* endpoint_disable gives the channel back.
LEMMA DisableStep ==
    ASSUME UsbInv, NEW e \in Eps, Disable(e)
    PROVE  UsbInv'
<1>0. Types /\ Enabled /\ Elements /\ Served /\ UsedRead /\ ChannelsOwned
  BY DEF UsbInv
<1>1. PICK c \in Chans : c = chan[e]
  BY <1>0, ChannelOf DEF Disable
<1>2. /\ pc[e] = "idle" /\ mutex = NULL
      /\ ep' = [ep EXCEPT ![c].flags = @ \ {"USED"}]
      /\ off' = [off EXCEPT ![c] = on[c]]
      /\ hcint' = [hcint EXCEPT ![c] = "none"]
      /\ haint' = [haint EXCEPT ![c] = FALSE]
      /\ chan' = [chan EXCEPT ![e] = NULL]
      /\ pc' = [pc EXCEPT ![e] = "off"]
      /\ UNCHANGED <<elem, fl, xe, sema, sleepon, mutex, ipc, ich, iint, iurb, ifl, pulses,
                     on, run>>
  BY <1>1 DEF Disable, StopChannel, irqThread
<1>3. /\ ep' \in [Chans -> EpStates] /\ \A d \in Chans : d # c => ep'[d] = ep[d]
      /\ ep'[c].flags = ep[c].flags \ {"USED"}
      /\ ep'[c].xelem = ep[c].xelem
  BY <1>0, <1>2 DEF Types, EpStates
<1>4. /\ chan'[e] = NULL /\ \A f \in Eps : f # e => chan'[f] = chan[f]
      /\ pc'[e] = "off" /\ \A f \in Eps : f # e => pc'[f] = pc[f]
      /\ chan' \in [Eps -> Chans \cup {NULL}]
  BY <1>0, <1>2 DEF Types, CallerTypes
<1>5. Types'
  BY <1>0, <1>2, <1>3, <1>4 DEF Types, CallerTypes, IrqTypes, ChipTypes, Places, Rank
<1>6. Enabled' /\ Elements' /\ Served' /\ UsedRead'
  BY <1>0, <1>2, <1>3, <1>4, NullOut
     DEF Enabled, Elements, HadEp, Served, UsedRead, Types, IrqTypes
<1>7. ChannelsOwned'
  BY <1>0, <1>1, <1>3, <1>4, NullOut DEF ChannelsOwned
<1>8. QED
  BY <1>5, <1>6, <1>7 DEF UsbInv

\* A new element is its endpoint's.
LEMMA CreateEffect ==
    ASSUME Types, NEW e \in Eps, Create(e)
    PROVE  /\ elem' \in [Elems -> ElemStates] /\ xe' \in [Eps -> Elems \cup {NULL}]
           /\ HadEp(xe[e])'
           /\ \A x \in Elems : elem[x].ep \in Eps => elem'[x].ep \in Eps
           /\ \A f \in Eps : f # e => xe'[f] = xe[f]
<1>1. PICK x \in Elems, dir \in {"in", "out"}, more \in BOOLEAN :
          elem' = Created(x, e, dir, more) /\ xe' = [xe EXCEPT ![e] = x]
  BY DEF Create
<1>2. elem' = [elem EXCEPT ![x] = [used |-> TRUE, ep |-> e, err |-> elem[x].err,
                                   dir |-> dir, more |-> more]]
  BY <1>1 DEF Types, Created
<1>3. elem' \in [Elems -> ElemStates] /\ elem'[x].ep = e
      /\ \A y \in Elems : y # x => elem'[y] = elem[y]
  BY <1>2 DEF Types, ElemStates
<1>4. xe'[e] = x /\ xe' \in [Eps -> Elems \cup {NULL}] /\ \A f \in Eps : f # e => xe'[f] = xe[f]
  BY <1>1 DEF Types, CallerTypes
<1>5. QED
  BY <1>3, <1>4 DEF HadEp

\* A freed element remembers whose it was.
LEMMA FreedEffect ==
    ASSUME Types, NEW y \in Elems \cup {NULL}, elem' = Freed(y)
    PROVE  elem' \in [Elems -> ElemStates] /\ \A x \in Elems : elem'[x].ep = elem[x].ep
<1>1. CASE y \in Elems
  <2>1. elem' = [elem EXCEPT ![y] = [used |-> FALSE, ep |-> elem[y].ep, err |-> elem[y].err,
                                     dir |-> "out", more |-> FALSE]]
    BY <1>1 DEF Types, Freed, FreeElem
  <2>2. QED
    BY <1>1, <2>1 DEF Types, ElemStates
<1>2. CASE y \notin Elems
  BY <1>2 DEF Types, Freed
<1>3. QED
  BY <1>1, <1>2

\* A transfer begins with the flags of a channel that the endpoint has.
LEMMA BeginStep ==
    ASSUME UsbInv, NEW e \in Eps, Begin(e)
    PROVE  UsbInv'
<1>0. Types /\ Enabled /\ Elements /\ Served /\ UsedRead /\ ChannelsOwned
  BY DEF UsbInv
<1>1. /\ pc[e] = "idle"
      /\ fl' = [fl EXCEPT ![e] = ep[chan[e]].flags]
      /\ pc' = [pc EXCEPT ![e] = "mark"]
      /\ UNCHANGED <<ep, chan, sleepon, mutex, ipc, ich, iint, iurb, ifl, pulses,
                     on, off, run, hcint, haint>>
  BY DEF Begin, irqThread, chip
<1>2. PICK c \in Chans : c = chan[e]
  BY <1>0, <1>1, ChannelOf
<1>3. ep[c].flags \subseteq Flags /\ "USED" \in ep[c].flags
  BY <1>0, <1>2 DEF ChannelsOwned, Types, EpStates
<1>4. /\ elem' \in [Elems -> ElemStates] /\ xe' \in [Eps -> Elems \cup {NULL}]
      /\ sema' \in [Eps -> BOOLEAN]
      /\ Kind[e] = "ctl" => HadEp(xe[e])'
      /\ Kind[e] # "ctl" => xe'[e] = xe[e]
      /\ \A x \in Elems : elem[x].ep \in Eps => elem'[x].ep \in Eps
      /\ \A f \in Eps : f # e => xe'[f] = xe[f]
  <2>1. CASE Kind[e] = "ctl"
    <3>1. Create(e) /\ sema' = [sema EXCEPT ![e] = FALSE]
      BY <2>1 DEF Begin
    <3>2. QED
      BY <1>0, <2>1, <3>1, CreateEffect DEF Types, CallerTypes
  <2>2. CASE Kind[e] # "ctl"
    BY <1>0, <2>2 DEF Begin, Types, CallerTypes
  <2>3. QED
    BY <2>1, <2>2
<1>5. /\ pc'[e] = "mark" /\ \A f \in Eps : f # e => pc'[f] = pc[f]
      /\ fl'[e] = ep[c].flags /\ \A f \in Eps : f # e => fl'[f] = fl[f]
  BY <1>0, <1>1, <1>2 DEF Types, CallerTypes
<1>6. Types'
  BY <1>0, <1>1, <1>2, <1>3, <1>4 DEF Types, CallerTypes, IrqTypes, ChipTypes, Places
<1>7. Elements'
  <2>1. \A f \in Eps : xe'[f] # NULL => HadEp(xe[f])'
    BY <1>0, <1>4 DEF Elements, HadEp
  <2>2. \A f \in Eps : (pc'[f] = "start" \/ (pc'[f] = "mark" /\ Kind[f] = "ctl")) => xe'[f] # NULL
    BY <1>0, <1>4, <1>5, NullOut DEF Elements, HadEp
  <2>3. \A d \in Chans : /\ ep'[d].xelem # NULL => HadEp(ep[d].xelem)'
                         /\ on'[d] => run'[d] # NULL
    BY <1>0, <1>1, <1>4 DEF Elements, HadEp
  <2>4. QED
    BY <2>1, <2>2, <2>3 DEF Elements
<1>8. Enabled' /\ Served' /\ UsedRead' /\ ChannelsOwned'
  BY <1>0, <1>1, <1>3, <1>5 DEF Enabled, Served, UsedRead, ChannelsOwned
<1>9. QED
  BY <1>6, <1>7, <1>8 DEF UsbInv

\* The caller writes back the flags it read: USED is among them, and the channel
\* is still its own.
LEMMA MarkStep ==
    ASSUME UsbInv, NEW e \in Eps, Mark(e)
    PROVE  UsbInv'
<1>0. Types /\ Enabled /\ Elements /\ Served /\ UsedRead /\ ChannelsOwned
  BY DEF UsbInv
<1>1. PICK c \in Chans : c = chan[e]
  BY <1>0, ChannelOf DEF Mark
<1>2. /\ pc[e] = "mark"
      /\ ep' = [ep EXCEPT ![c].flags = fl[e] \cup {"ACTIVE"}]
      /\ fl' = [fl EXCEPT ![e] = {}]
      /\ UNCHANGED <<chan, sema, sleepon, mutex, ipc, ich, iint, iurb, ifl, pulses,
                     on, off, run, hcint, haint>>
  BY <1>1 DEF Mark, irqThread, chip
<1>3. fl[e] \cup {"ACTIVE"} \subseteq Flags /\ "USED" \in fl[e]
  BY <1>0, <1>2 DEF Types, CallerTypes, UsedRead, Flags
<1>4. "USED" \in ep[c].flags
  BY <1>0, <1>1 DEF ChannelsOwned
<1>5. /\ ep' \in [Chans -> EpStates] /\ \A d \in Chans : d # c => ep'[d] = ep[d]
      /\ ep'[c].flags = fl[e] \cup {"ACTIVE"}
      /\ ep'[c].xelem = ep[c].xelem
  BY <1>0, <1>2, <1>3 DEF Types, EpStates
<1>6. /\ elem' \in [Elems -> ElemStates] /\ xe' \in [Eps -> Elems \cup {NULL}]
      /\ \A x \in Elems : elem[x].ep \in Eps => elem'[x].ep \in Eps
      /\ \A f \in Eps : f # e => xe'[f] = xe[f]
      /\ pc' = [pc EXCEPT ![e] = pc'[e]] /\ pc'[e] \in {"start", "idle"}
      /\ xe'[e] # NULL => HadEp(xe[e])'
      /\ pc'[e] = "start" => xe'[e] # NULL
  <2>1. CASE UNCHANGED <<elem, xe>>
    <3>1. /\ pc' = [pc EXCEPT ![e] = pc'[e]] /\ pc'[e] \in {"start", "idle"}
          /\ pc'[e] = "start" => Kind[e] = "ctl" \/ Create(e)
      BY <1>0 DEF Mark, Types, CallerTypes
    <3>2. Create(e) => HadEp(xe[e])'
      BY <1>0, CreateEffect
    <3>3. QED
      BY <1>0, <1>2, <2>1, <3>1, <3>2, NullOut DEF Types, CallerTypes, Elements, HadEp
  <2>2. CASE Create(e) /\ pc' = [pc EXCEPT ![e] = "start"]
    <3>1. pc'[e] = "start" /\ pc' = [pc EXCEPT ![e] = pc'[e]]
      BY <1>0, <2>2 DEF Types, CallerTypes
    <3>2. xe'[e] # NULL
      BY <1>0, <2>2, CreateEffect, NullOut DEF HadEp
    <3>3. QED
      BY <1>0, <2>2, <3>1, <3>2, CreateEffect
  <2>3. QED
    BY <2>1, <2>2 DEF Mark
<1>7. /\ \A f \in Eps : f # e => pc'[f] = pc[f] /\ fl'[f] = fl[f]
      /\ pc' \in [Eps -> Places] /\ fl' \in [Eps -> SUBSET Flags]
  BY <1>0, <1>2, <1>6 DEF Types, CallerTypes, Places
<1>8. Types'
  BY <1>0, <1>2, <1>5, <1>6, <1>7 DEF Types, CallerTypes, IrqTypes, ChipTypes
<1>9. Elements'
  <2>1. \A f \in Eps :
          /\ xe'[f] # NULL => HadEp(xe[f])'
          /\ pc'[f] = "start" \/ (pc'[f] = "mark" /\ Kind[f] = "ctl") => xe'[f] # NULL
    BY <1>0, <1>6, <1>7 DEF Elements, HadEp
  <2>2. \A d \in Chans : /\ ep'[d].xelem # NULL => HadEp(ep[d].xelem)'
                         /\ on'[d] => run'[d] # NULL
    BY <1>0, <1>2, <1>5, <1>6 DEF Elements, HadEp
  <2>3. QED
    BY <2>1, <2>2 DEF Elements
<1>10. Enabled' /\ Served' /\ UsedRead' /\ ChannelsOwned'
  BY <1>0, <1>1, <1>2, <1>3, <1>4, <1>5, <1>6, <1>7
     DEF Enabled, Served, UsedRead, ChannelsOwned, Types, IrqTypes
<1>11. QED
  BY <1>8, <1>9, <1>10 DEF UsbInv

\* start_data_transfer leaves the flags as they are.
LEMMA StartDataEffect ==
    ASSUME UsbInv, NEW x \in Elems, HadEp(x), Startable(x), StartData(x)
    PROVE  /\ ep' \in [Chans -> EpStates]
           /\ \A d \in Chans : ep'[d].flags = ep[d].flags /\ ep'[d].xelem \in {ep[d].xelem, x}
           /\ on' \in [Chans -> BOOLEAN] /\ off' \in [Chans -> BOOLEAN]
           /\ run' \in [Chans -> Elems \cup {NULL}]
           /\ \A d \in Chans : on'[d] => run'[d] # NULL
<1>0. Types /\ Elements
  BY DEF UsbInv
<1>1. PICK c \in Chans : c = chan[elem[x].ep]
  BY <1>0 DEF HadEp, Startable, Types
<1>2. /\ ep' = [ep EXCEPT ![c].xelem = x, ![c].csplit = @ /\ ~ep[c].split]
      /\ on' = [on EXCEPT ![c] = TRUE]
      /\ off' = [off EXCEPT ![c] = FALSE]
      /\ run' = [run EXCEPT ![c] = x]
  BY <1>1 DEF StartData
<1>3. /\ on' \in [Chans -> BOOLEAN] /\ off' \in [Chans -> BOOLEAN]
      /\ run' \in [Chans -> Elems \cup {NULL}]
      /\ \A d \in Chans : on'[d] => run'[d] # NULL
  BY <1>0, <1>2, NullOut DEF Types, ChipTypes, Elements
<1> DEFINE s == [ep[c] EXCEPT !.xelem = x, !.csplit = ep[c].csplit /\ ~ep[c].split]
<1>4. ep' = [ep EXCEPT ![c] = s]
  BY <1>0, <1>2 DEF Types
<1>5. s \in EpStates /\ s.flags = ep[c].flags /\ s.xelem = x
  <2>1. ep[c] \in EpStates
    BY <1>0 DEF Types
  <2> DEFINE b == ep[c].csplit /\ ~ep[c].split
  <2>2. b \in BOOLEAN
    OBVIOUS
  <2>3. s = [ep[c] EXCEPT !.xelem = x, !.csplit = b]
    OBVIOUS
  <2> HIDE DEF b, s
  <2>4. QED
    BY <2>1, <2>2, <2>3 DEF EpStates
<1> HIDE DEF s
<1>6. QED
  BY <1>0, <1>3, <1>4, <1>5 DEF Types

LEMMA StartStep ==
    ASSUME UsbInv, NEW e \in Eps, Start(e)
    PROVE  UsbInv'
<1>0. Types /\ Enabled /\ Elements /\ Served /\ UsedRead /\ ChannelsOwned
  BY DEF UsbInv
<1>1. CASE Startable(xe[e])
  <2>1. /\ pc[e] = "start" /\ StartData(xe[e])
        /\ pc' = [pc EXCEPT ![e] = IF Kind[e] = "ctl" THEN "wait" ELSE "busy"]
        /\ xe' = [xe EXCEPT ![e] = NULL]
        /\ UNCHANGED <<chan, elem, fl, sema, sleepon, mutex, ipc, ich, iint, iurb, ifl,
                       pulses, hcint, haint>>
    BY <1>1 DEF Start, irqThread
  <2>2. PICK x \in Elems : x = xe[e] /\ HadEp(x) /\ Startable(x) /\ StartData(x)
    BY <1>0, <1>1, <2>1 DEF Elements, HadEp
  <2>3. /\ ep' \in [Chans -> EpStates]
        /\ \A d \in Chans : ep'[d].flags = ep[d].flags /\ ep'[d].xelem \in {ep[d].xelem, x}
        /\ on' \in [Chans -> BOOLEAN] /\ off' \in [Chans -> BOOLEAN]
        /\ run' \in [Chans -> Elems \cup {NULL}]
        /\ \A d \in Chans : on'[d] => run'[d] # NULL
    BY <2>2, StartDataEffect
  <2>4. /\ pc'[e] \in {"wait", "busy"} /\ \A f \in Eps : f # e => pc'[f] = pc[f]
        /\ xe'[e] = NULL /\ \A f \in Eps : f # e => xe'[f] = xe[f]
        /\ pc' \in [Eps -> Places] /\ xe' \in [Eps -> Elems \cup {NULL}]
    BY <1>0, <2>1 DEF Types, CallerTypes, Places
  <2>5. Types'
    BY <1>0, <2>1, <2>3, <2>4 DEF Types, CallerTypes, IrqTypes, ChipTypes
  <2>6. Elements'
    <3>1. \A f \in Eps : xe'[f] # NULL => HadEp(xe'[f])
      BY <1>0, <2>4 DEF Elements
    <3>2. \A d \in Chans : ep'[d].xelem # NULL => HadEp(ep'[d].xelem)
      BY <1>0, <2>2, <2>3 DEF Elements
    <3>3. \A f \in Eps : pc'[f] = "start" \/ (pc'[f] = "mark" /\ Kind[f] = "ctl")
                            => xe'[f] # NULL
      BY <1>0, <2>4 DEF Elements
    <3>4. QED
      BY <2>1, <2>3, <3>1, <3>2, <3>3 DEF Elements, HadEp
  <2>7. Served'
    BY <1>0, <2>1, <2>2, <2>3, NullOut DEF Served, Types, IrqTypes
  <2>8. Enabled'
    BY <1>0, <2>1, <2>4 DEF Enabled
  <2>9. UsedRead' /\ ChannelsOwned'
    <3>1. \A d \in Chans : ep'[d].flags = ep[d].flags
      BY <2>3
    <3>2. \A f \in Eps : pc'[f] = "mark" => pc[f] = "mark"
      BY <2>1, <2>4
    <3>3. ich \in Chans
      BY <1>0 DEF Types, IrqTypes
    <3>4. UsedRead'
      BY <1>0, <2>1, <3>1, <3>2, <3>3 DEF UsedRead
    <3>5. ChannelsOwned'
      BY <1>0, <2>1, <3>1 DEF ChannelsOwned
    <3>6. QED
      BY <3>4, <3>5
  <2>10. QED
    BY <2>5, <2>6, <2>7, <2>8, <2>9 DEF UsbInv
<1>2. CASE ~Startable(xe[e])
  BY <1>2 DEF Start, Crash, UsbInv, Types, CallerTypes, IrqTypes, ChipTypes, Enabled,
              Elements, HadEp, Served, UsedRead, ChannelsOwned, caller, irqThread, chip
<1>3. QED
  BY <1>1, <1>2

LEMMA ScheduleStep ==
    ASSUME UsbInv, NEW e \in Eps, Schedule(e)
    PROVE  UsbInv'
<1>0. Types /\ Enabled /\ Elements /\ Served /\ UsedRead /\ ChannelsOwned
  BY DEF UsbInv
<1>1. PICK c \in Chans : c = chan[e]
  BY <1>0, ChannelOf DEF Schedule
<1>2. /\ pc[e] = "start"
      /\ ep' = [ep EXCEPT ![c].xelem = xe[e], ![c].interval = TRUE]
      /\ pc' = [pc EXCEPT ![e] = "busy"]
      /\ xe' = [xe EXCEPT ![e] = NULL]
      /\ UNCHANGED <<chan, elem, fl, sema, sleepon, mutex, ipc, ich, iint, iurb, ifl,
                     pulses, on, off, run, hcint, haint>>
  BY <1>1 DEF Schedule, irqThread, chip
<1>3. PICK x \in Elems : x = xe[e] /\ HadEp(x)
  BY <1>0, <1>2 DEF Elements, HadEp
<1>4. /\ ep' \in [Chans -> EpStates] /\ \A d \in Chans : d # c => ep'[d] = ep[d]
      /\ ep'[c].flags = ep[c].flags
      /\ ep'[c].xelem = x
  BY <1>0, <1>2, <1>3 DEF Types, EpStates
<1>5. /\ pc'[e] = "busy" /\ \A f \in Eps : f # e => pc'[f] = pc[f]
      /\ xe'[e] = NULL /\ \A f \in Eps : f # e => xe'[f] = xe[f]
      /\ pc' \in [Eps -> Places] /\ xe' \in [Eps -> Elems \cup {NULL}]
  BY <1>0, <1>2 DEF Types, CallerTypes, Places
<1>6. Types'
  BY <1>0, <1>2, <1>4, <1>5 DEF Types, CallerTypes, IrqTypes, ChipTypes
<1>7. Enabled' /\ Elements' /\ Served' /\ UsedRead' /\ ChannelsOwned'
  BY <1>0, <1>2, <1>3, <1>4, <1>5, NullOut
     DEF Enabled, Elements, HadEp, Served, UsedRead, ChannelsOwned, Types, IrqTypes
<1>8. QED
  BY <1>6, <1>7 DEF UsbInv

\* control_xfer_wait: what the caller does with the semaphore and the lock.
LEMMA ControlStep ==
    ASSUME UsbInv, NEW e \in Eps, Control(e)
    PROVE  UsbInv'
<1>0. Types /\ Enabled /\ Elements /\ Served /\ UsedRead /\ ChannelsOwned
  BY DEF UsbInv
<1>1. /\ pc[e] \in {"wait", "timedout"}
      /\ pc' = [pc EXCEPT ![e] = pc'[e]] /\ pc'[e] \in {"idle", "timedout", "abort"}
      /\ sema' \in [Eps -> BOOLEAN] /\ sleepon' \in Eps \cup {NULL}
      /\ UNCHANGED <<ep, chan, elem, fl, xe, mutex, ipc, ich, iint, iurb, ifl, pulses,
                     on, off, run, hcint, haint>>
  BY <1>0 DEF Control, Return, Timeout, Unlock, irqThread, chip, Types, CallerTypes
<1>2. /\ pc'[e] \in {"idle", "timedout", "abort"} /\ \A f \in Eps : f # e => pc'[f] = pc[f]
      /\ pc' \in [Eps -> Places]
  BY <1>0, <1>1 DEF Types, CallerTypes, Places
<1>3. Types'
  BY <1>0, <1>1, <1>2 DEF Types, CallerTypes, IrqTypes, ChipTypes
<1>4. Enabled' /\ Elements' /\ Served' /\ UsedRead' /\ ChannelsOwned'
  BY <1>0, <1>1, <1>2 DEF Enabled, Elements, HadEp, Served, UsedRead, ChannelsOwned
<1>5. QED
  BY <1>3, <1>4 DEF UsbInv

\* transfer_abort, under the mutex.
LEMMA AbortStep ==
    ASSUME UsbInv, NEW e \in Eps, Abort(e)
    PROVE  UsbInv'
<1>0. Types /\ Enabled /\ Elements /\ Served /\ UsedRead /\ ChannelsOwned
  BY DEF UsbInv
<1>1. /\ pc[e] \in {"abort", "busy"} /\ mutex = NULL
      /\ pc' = [pc EXCEPT ![e] = "idle"]
      /\ sema' = [sema EXCEPT ![e] = FALSE]
      /\ sleepon' = IF sleepon = e THEN NULL ELSE sleepon
      /\ UNCHANGED <<chan, fl, xe, mutex, ipc, ich, iint, iurb, ifl, pulses,
                     on, run, hcint, haint>>
  BY DEF Abort, MayAbort, irqThread
<1>2. PICK c \in Chans : c = chan[e]
  BY <1>0, <1>1, ChannelOf
<1>3. /\ ep' \in [Chans -> EpStates] /\ elem' \in [Elems -> ElemStates]
      /\ off' \in [Chans -> BOOLEAN]
      /\ \A d \in Chans : /\ "USED" \in ep'[d].flags <=> "USED" \in ep[d].flags
                          /\ ep'[d].xelem = ep[d].xelem
      /\ \A x \in Elems : elem'[x].ep = elem[x].ep
  <2>1. CASE UNCHANGED <<ep, elem, off>>
    BY <1>0, <2>1 DEF Types, ChipTypes
  <2>2. CASE AbortActive(e)
    <3> DEFINE f == (ep[c].flags \ {"ACTIVE"}) \cup {"ABORT"}
               i == ep[c].interval /\ Kind[e] # "int"
    <3>1. /\ ep' = [ep EXCEPT ![c] = [ep[c] EXCEPT !.flags = f, !.interval = i]]
          /\ elem' = Freed(ep[c].xelem)
          /\ off' = [off EXCEPT ![c] = on[c]]
      BY <1>0, <1>2, <2>2 DEF AbortActive, StopChannel, Types
    <3>2. ep[c] \in EpStates
      BY <1>0 DEF Types
    <3>3. f \in SUBSET Flags /\ i \in BOOLEAN /\ ("USED" \in f <=> "USED" \in ep[c].flags)
      BY <3>2 DEF EpStates, Flags
    <3> HIDE DEF f, i
    <3> DEFINE s == [ep[c] EXCEPT !.flags = f, !.interval = i]
    <3>4. s \in EpStates /\ s.flags = f /\ s.xelem = ep[c].xelem
      BY <3>2, <3>3 DEF EpStates
    <3> HIDE DEF s
    <3>5. /\ ep' \in [Chans -> EpStates]
          /\ \A d \in Chans : /\ "USED" \in ep'[d].flags <=> "USED" \in ep[d].flags
                              /\ ep'[d].xelem = ep[d].xelem
      BY <1>0, <3>1, <3>3, <3>4 DEF Types, s
    <3>6. ep[c].xelem \in Elems \cup {NULL}
      BY <3>2 DEF EpStates
    <3>7. elem' \in [Elems -> ElemStates] /\ \A x \in Elems : elem'[x].ep = elem[x].ep
      BY <1>0, <3>1, <3>6, FreedEffect
    <3>8. QED
      BY <1>0, <3>1, <3>5, <3>7 DEF Types, ChipTypes
  <2>3. QED
    BY <2>1, <2>2 DEF Abort
<1>4. /\ pc'[e] = "idle" /\ \A f \in Eps : f # e => pc'[f] = pc[f]
      /\ pc' \in [Eps -> Places]
      /\ sema' \in [Eps -> BOOLEAN] /\ sleepon' \in Eps \cup {NULL}
  BY <1>0, <1>1 DEF Types, CallerTypes, Places
<1>5. Types'
  BY <1>0, <1>1, <1>3, <1>4 DEF Types, CallerTypes, IrqTypes, ChipTypes
<1>6. Elements'
  BY <1>0, <1>1, <1>3, <1>4 DEF Elements, HadEp
<1>7. Enabled' /\ Served'
  BY <1>0, <1>1, <1>3, <1>4 DEF Enabled, Served, Types, IrqTypes
<1>8. UsedRead'
  BY <1>0, <1>1, <1>3, <1>4 DEF UsedRead, Types, IrqTypes
<1>9. ChannelsOwned'
  <2>1. chan' = chan /\ \A d \in Chans : "USED" \in ep'[d].flags <=> "USED" \in ep[d].flags
    BY <1>1, <1>3
  <2>2. QED
    BY <1>0, <2>1 DEF ChannelsOwned
<1>10. QED
  BY <1>5, <1>6, <1>7, <1>8, <1>9 DEF UsbInv

\* The controller and the start-of-frame interrupt touch no flags.
LEMMA ChannelStep ==
    ASSUME UsbInv, NEW c \in Chans, HwHalt(c) \/ Sof(c)
    PROVE  UsbInv'
<1>0. Types /\ Enabled /\ Elements /\ Served /\ UsedRead /\ ChannelsOwned
  BY DEF UsbInv
<1>1. CASE HwHalt(c)
  <2>1. PICK r \in Results : hcint' = [hcint EXCEPT ![c] = IF Rank[r] > Rank[@] THEN r ELSE @]
    BY <1>1 DEF HwHalt
  <2>2. /\ on' = [on EXCEPT ![c] = FALSE] /\ off' = [off EXCEPT ![c] = FALSE]
        /\ run' = [run EXCEPT ![c] = NULL]
        /\ UNCHANGED <<ep, chan, elem, pc, fl, xe, sema, sleepon, mutex, ipc, ich, iint, iurb,
                       ifl, pulses, haint>>
    BY <1>1 DEF HwHalt, caller, irqThread
  <2>3. hcint' \in [Chans -> DOMAIN Rank]
    <3>1. r \in DOMAIN Rank /\ hcint[c] \in DOMAIN Rank
      BY <1>0 DEF Results, Types, ChipTypes
    <3>2. QED
      BY <1>0, <2>1, <3>1, Zenon DEF Types, ChipTypes
  <2>4. Types'
    BY <1>0, <2>2, <2>3 DEF Types, CallerTypes, IrqTypes, ChipTypes
  <2>5. \A d \in Chans : on'[d] => run'[d] # NULL
    BY <1>0, <2>2 DEF Types, ChipTypes, Elements
  <2>6. Enabled' /\ Elements' /\ Served' /\ UsedRead' /\ ChannelsOwned'
    BY <1>0, <2>2, <2>5 DEF Enabled, Elements, HadEp, Served, UsedRead, ChannelsOwned
  <2>7. QED
    BY <2>4, <2>6 DEF UsbInv
<1>2. CASE Sof(c)
  <2>1. /\ pulses' = Append(pulses, c) /\ Len(pulses) < MaxPulses
        /\ UNCHANGED <<ep, chan, elem, pc, fl, xe, sema, sleepon, mutex, ipc, ich, iint, iurb,
                       ifl, on, off, run, hcint, haint>>
    BY <1>2 DEF Sof, caller, irqThread, chip
  <2>2. pulses' \in Seq(Chans) /\ Len(pulses') <= MaxPulses
    BY <1>0, <2>1, UsbAssumption DEF Types
  <2>3. Types'
    BY <1>0, <2>1, <2>2 DEF Types, CallerTypes, IrqTypes, ChipTypes
  <2>4. Enabled' /\ Elements' /\ Served' /\ UsedRead' /\ ChannelsOwned'
    BY <1>0, <2>1 DEF Enabled, Elements, HadEp, Served, UsedRead, ChannelsOwned
  <2>5. QED
    BY <2>3, <2>4 DEF UsbInv
<1>3. QED
  BY <1>1, <1>2

\* The scheduler starts what the context of the pulsed channel points to.
LEMMA SchedulerStep ==
    ASSUME UsbInv, Scheduler
    PROVE  UsbInv'
<1>0. Types /\ Enabled /\ Elements /\ Served /\ UsedRead /\ ChannelsOwned
  BY DEF UsbInv
<1>1. pulses # <<>> /\ Head(pulses) \in Chans
  BY <1>0 DEF Scheduler, Types
<1>2. PICK h \in Chans : h = Head(pulses)
  BY <1>1
<1>3. CASE Startable(ep[h].xelem)
  <2>1. PICK x \in Elems : x = ep[h].xelem /\ HadEp(x)
    BY <1>0, <1>3 DEF Startable, Elements, HadEp
  <2>2. /\ Startable(x) /\ StartData(x) /\ pulses' = Tail(pulses)
        /\ UNCHANGED <<chan, elem, pc, fl, xe, sema, sleepon, mutex, ipc, ich, iint, iurb,
                       ifl, hcint, haint>>
    BY <1>2, <1>3, <2>1 DEF Scheduler, caller, irqThread
  <2>3. /\ ep' \in [Chans -> EpStates]
        /\ \A d \in Chans : ep'[d].flags = ep[d].flags /\ ep'[d].xelem \in {ep[d].xelem, x}
        /\ on' \in [Chans -> BOOLEAN] /\ off' \in [Chans -> BOOLEAN]
        /\ run' \in [Chans -> Elems \cup {NULL}]
        /\ \A d \in Chans : on'[d] => run'[d] # NULL
    BY <2>1, <2>2, StartDataEffect
  <2>4. pulses' \in Seq(Chans) /\ Len(pulses') <= MaxPulses
    BY <1>0, <1>1, <2>2, UsbAssumption DEF Types
  <2>5. Types'
    BY <1>0, <2>2, <2>3, <2>4 DEF Types, CallerTypes, IrqTypes, ChipTypes
  <2>6. Elements'
    <3>1. \A d \in Chans : ep'[d].xelem # NULL => HadEp(ep'[d].xelem)
      BY <1>0, <2>1, <2>3 DEF Elements
    <3>2. QED
      BY <1>0, <2>2, <2>3, <3>1 DEF Elements, HadEp
  <2>7. Served'
    BY <1>0, <2>1, <2>2, <2>3, NullOut DEF Served, Types, IrqTypes
  <2>8. Enabled'
    BY <1>0, <2>2 DEF Enabled
  <2>9. UsedRead' /\ ChannelsOwned'
    <3>1. \A d \in Chans : ep'[d].flags = ep[d].flags
      BY <2>3
    <3>2. ich \in Chans
      BY <1>0 DEF Types, IrqTypes
    <3>3. UsedRead'
      BY <1>0, <2>2, <3>1, <3>2 DEF UsedRead
    <3>4. ChannelsOwned'
      BY <1>0, <2>2, <3>1 DEF ChannelsOwned
    <3>5. QED
      BY <3>3, <3>4
  <2>10. QED
    BY <2>5, <2>6, <2>7, <2>8, <2>9 DEF UsbInv
<1>4. CASE ~Startable(ep[h].xelem)
  BY <1>2, <1>4 DEF Scheduler, Crash, UsbInv, Types, CallerTypes, IrqTypes, ChipTypes, Enabled,
     Elements, HadEp, Served, UsedRead, ChannelsOwned, caller, irqThread, chip
<1>5. QED
  BY <1>3, <1>4

\* The interrupt thread, with or without the mutex, until it has read the flags.
LEMMA TakeStep ==
    ASSUME UsbInv, (\E c \in Chans : TakeInt(c)) \/ LockXfer
    PROVE  UsbInv'
<1>0. Types /\ Enabled /\ Elements /\ Served /\ UsedRead /\ ChannelsOwned
  BY DEF UsbInv
<1>1. CASE \E c \in Chans : TakeInt(c)
  <2>1. PICK c \in Chans : TakeInt(c)
    BY <1>1
  <2>2. /\ hcint' = [hcint EXCEPT ![c] = "none"]
        /\ UNCHANGED irqThread \/ (ipc' = "lock" /\ ich' = c /\ iint' = hcint[c] /\ UNCHANGED <<iurb, ifl>>)
        /\ UNCHANGED <<ep, chan, elem, pc, fl, xe, sema, sleepon, mutex, pulses,
                       on, off, run, haint>>
    BY <2>1 DEF TakeInt, caller
  <2>3. hcint' \in [Chans -> DOMAIN Rank] /\ hcint[c] \in DOMAIN Rank
    BY <1>0, <2>2 DEF Types, ChipTypes, Rank
  <2>4. Types'
    BY <1>0, <2>2, <2>3 DEF Types, CallerTypes, IrqTypes, ChipTypes, irqThread
  <2>5. Enabled' /\ Elements' /\ Served' /\ UsedRead' /\ ChannelsOwned'
    BY <1>0, <2>2 DEF Enabled, Elements, HadEp, Served, UsedRead, ChannelsOwned, irqThread
  <2>6. QED
    BY <2>4, <2>5 DEF UsbInv
<1>2. CASE LockXfer /\ UNCHANGED <<ep, ich, iint, chan, elem, caller, sleepon, pulses, chip>>
                   /\ mutex' = "irq"
  <2>1. UNCHANGED <<ep, ich, iint, chan, elem, pc, fl, xe, sema, sleepon, pulses,
                    on, off, run, hcint, haint>>
    BY <1>2 DEF caller, chip
  <2>2. ep[ich] \in EpStates /\ ep[ich].flags \subseteq Flags
    BY <1>0 DEF Types, IrqTypes, EpStates
  <2>3. \/ ipc' = "drop" /\ ifl' = ep[ich].flags /\ iurb' = iurb
        \/ /\ ipc' = "body" /\ iurb' = elem[ep[ich].xelem].ep /\ ifl' = ifl
           /\ ep[ich].xelem # NULL
    <3>1. mutex = NULL
      BY <1>2 DEF LockXfer
    <3>2. \/ /\ ~ ("ABORT" \notin ep[ich].flags /\ ep[ich].xelem = NULL)
             /\ \/ "ABORT" \in ep[ich].flags /\ ipc' = "drop" /\ ifl' = ep[ich].flags /\ iurb' = iurb
                \/ /\ "ABORT" \notin ep[ich].flags /\ ipc' = "body"
                   /\ iurb' = elem[ep[ich].xelem].ep /\ ifl' = ifl
          \/ Crash
      BY <1>2 DEF LockXfer
    <3>3. ~ Crash
      BY <1>2, <3>1, NullOut DEF Crash
    <3>4. QED
      BY <3>2, <3>3
  <2>4. /\ ipc' \in {"drop", "body"} /\ iurb' \in Eps \cup {NULL} /\ ifl' \subseteq Flags
    BY <1>0, <2>2, <2>3 DEF Types, IrqTypes, Elements, HadEp
  <2>5. Types'
    BY <1>0, <1>2, <2>1, <2>4 DEF Types, CallerTypes, IrqTypes, ChipTypes
  <2>6. Enabled' /\ Elements' /\ Served' /\ UsedRead' /\ ChannelsOwned'
    BY <1>0, <1>2, <2>1, <2>3 DEF Enabled, Elements, HadEp, Served, UsedRead, ChannelsOwned
  <2>7. QED
    BY <2>5, <2>6 DEF UsbInv
<1>3. CASE Crash
  BY <1>3 DEF Crash, UsbInv, Types, CallerTypes, IrqTypes, ChipTypes, Enabled,
              Elements, HadEp, Served, UsedRead, ChannelsOwned, caller, irqThread, chip
<1>4. QED
  BY <1>1, <1>2, <1>3 DEF LockXfer

\* The interrupt thread writes back the flags it read under the mutex.
LEMMA DropStep ==
    ASSUME UsbInv, Drop
    PROVE  UsbInv'
<1>0. Types /\ Enabled /\ Elements /\ Served /\ UsedRead /\ ChannelsOwned
  BY DEF UsbInv
<1>1. /\ ipc = "drop"
      /\ ep' = [ep EXCEPT ![ich].flags = ifl \ {"ABORT"}]
      /\ mutex' = NULL
      /\ ipc' = "idle" /\ ich' = 0 /\ iint' = "none" /\ iurb' = NULL /\ ifl' = {}
      /\ UNCHANGED <<chan, elem, pc, fl, xe, sema, sleepon, pulses, on, off, run, hcint, haint>>
  BY DEF Drop, IrqIdle, caller, chip
<1>2. /\ ep' \in [Chans -> EpStates]
      /\ \A d \in Chans : /\ "USED" \in ep'[d].flags <=> "USED" \in ep[d].flags
                          /\ ep'[d].xelem = ep[d].xelem
  <2>1. ifl \ {"ABORT"} \in SUBSET Flags /\ ich \in Chans
    BY <1>0 DEF Types, IrqTypes
  <2>2. "USED" \in ifl \ {"ABORT"} <=> "USED" \in ep[ich].flags
    BY <1>0, <1>1 DEF UsedRead
  <2>3. QED
    BY <1>0, <1>1, <2>1, <2>2 DEF Types, EpStates
<1>3. 0 \in Chans /\ {} \subseteq Flags
  BY UsbAssumption DEF Chans
<1>4. Types'
  BY <1>0, <1>1, <1>2, <1>3 DEF Types, CallerTypes, IrqTypes, ChipTypes, Rank
<1>5. Enabled' /\ Elements' /\ Served' /\ UsedRead'
  BY <1>0, <1>1, <1>2 DEF Enabled, Elements, HadEp, Served, UsedRead
<1>6. ChannelsOwned'
  BY <1>0, <1>1, <1>2 DEF ChannelsOwned
<1>7. QED
  BY <1>4, <1>5, <1>6 DEF UsbInv

\* complete_transfer: once and interval are cleared, the flags read.
LEMMA FinishStep ==
    ASSUME UsbInv, Finish
    PROVE  UsbInv'
<1>0. Types /\ Enabled /\ Elements /\ Served /\ UsedRead /\ ChannelsOwned
  BY DEF UsbInv
<1> DEFINE o == ep[ich].once /\ iint # "complete"
           i == ep[ich].interval /\ ~(XferKind = "int" /\ iint = "complete")
<1>1. /\ ipc = "body" /\ ipc' = "clear" /\ ifl' = ep[ich].flags
      /\ ep' = [ep EXCEPT ![ich] = [ep[ich] EXCEPT !.once = o, !.interval = i]]
      /\ UNCHANGED <<chan, elem, pc, fl, xe, sema, sleepon, mutex, ich, iint, iurb, pulses,
                     on, off, run, hcint, haint>>
  BY <1>0 DEF Finish, caller, chip, Types, IrqTypes
<1>2. o \in BOOLEAN /\ i \in BOOLEAN
  OBVIOUS
<1> HIDE DEF o, i
<1>3. ich \in Chans /\ ep[ich] \in EpStates
  BY <1>0 DEF Types, IrqTypes
<1>4. /\ ep' \in [Chans -> EpStates]
      /\ \A d \in Chans : ep'[d].flags = ep[d].flags /\ ep'[d].xelem = ep[d].xelem
  <2> DEFINE s == [ep[ich] EXCEPT !.once = o, !.interval = i]
  <2>1. s \in EpStates /\ s.flags = ep[ich].flags /\ s.xelem = ep[ich].xelem
    BY <1>2, <1>3 DEF EpStates
  <2>2. ep' = [ep EXCEPT ![ich] = s]
    BY <1>1
  <2> HIDE DEF s
  <2>3. QED
    BY <1>0, <1>3, <2>1, <2>2 DEF Types
<1>5. Types'
  BY <1>0, <1>1, <1>3, <1>4 DEF Types, CallerTypes, IrqTypes, ChipTypes, EpStates
<1>6. Enabled' /\ Elements' /\ Served' /\ UsedRead' /\ ChannelsOwned'
  BY <1>0, <1>1, <1>3, <1>4
     DEF Enabled, Elements, HadEp, Served, UsedRead, ChannelsOwned
<1>7. QED
  BY <1>5, <1>6 DEF UsbInv

LEMMA ClearStep ==
    ASSUME UsbInv, Clear
    PROVE  UsbInv'
<1>0. Types /\ Enabled /\ Elements /\ Served /\ UsedRead /\ ChannelsOwned
  BY DEF UsbInv
<1>1. /\ ipc = "clear" /\ ipc' = "notify" /\ ifl' = {}
      /\ ep' = [ep EXCEPT ![ich].flags = ifl \ {"ACTIVE"}]
      /\ elem' = Freed(ep[ich].xelem)
      /\ UNCHANGED <<chan, pc, fl, xe, sema, sleepon, mutex, ich, iint, iurb, pulses,
                     on, off, run, hcint, haint>>
  BY DEF Clear, caller, chip
<1>2. ich \in Chans /\ ep[ich] \in EpStates /\ ifl \ {"ACTIVE"} \in SUBSET Flags
  BY <1>0 DEF Types, IrqTypes
<1>3. /\ ep' \in [Chans -> EpStates]
      /\ \A d \in Chans : /\ "USED" \in ep'[d].flags <=> "USED" \in ep[d].flags
                          /\ ep'[d].xelem = ep[d].xelem
  <2>1. "USED" \in ifl \ {"ACTIVE"} <=> "USED" \in ep[ich].flags
    BY <1>0, <1>1 DEF UsedRead
  <2>2. QED
    BY <1>0, <1>1, <1>2, <2>1 DEF Types, EpStates
<1>4. elem' \in [Elems -> ElemStates] /\ \A x \in Elems : elem'[x].ep = elem[x].ep
  BY <1>0, <1>1, <1>2, FreedEffect DEF EpStates
<1>5. Types'
  BY <1>0, <1>1, <1>3, <1>4 DEF Types, CallerTypes, IrqTypes, ChipTypes
<1>6. Enabled' /\ Elements' /\ Served' /\ UsedRead'
  BY <1>0, <1>1, <1>2, <1>3, <1>4 DEF Enabled, Elements, HadEp, Served, UsedRead
<1>7. ChannelsOwned'
  BY <1>0, <1>1, <1>3 DEF ChannelsOwned
<1>8. QED
  BY <1>5, <1>6, <1>7 DEF UsbInv

\* A transfer that goes on: the error count stays below the limit.
LEMMA GoOnStep ==
    ASSUME UsbInv, GoOn
    PROVE  UsbInv'
<1>0. Types /\ Enabled /\ Elements /\ Served /\ UsedRead /\ ChannelsOwned
  BY DEF UsbInv
<1>1. ich \in Chans /\ ep[ich] \in EpStates /\ ep[ich].xelem # NULL /\ ipc = "body"
  BY <1>0 DEF Types, IrqTypes, Served, GoOn
<1>2. PICK x \in Elems : x = ep[ich].xelem /\ elem[x] \in ElemStates
  BY <1>0, <1>1 DEF Types, EpStates
<1> DEFINE again == /\ XferKind # "int" /\ ~ep[ich].split
                    /\ \/ iint = "xact"
                       \/ iint = "nak" /\ elem[x].dir = "out"
           cs == ep[ich].csplit \/ (iint = "ack" /\ ep[ich].split)
           on1 == (ep[ich].once /\ ~(iint = "ack" /\ XferKind # "int")) \/ iint = "complete"
           er == CASE iint = "xact" -> elem[x].err + 1
                   [] iint = "nak" -> 0
                   [] OTHER -> elem[x].err
           mo == elem[x].more /\ iint # "complete"
<1>3. /\ ep' = [ep EXCEPT ![ich] = [ep[ich] EXCEPT !.csplit = cs, !.once = on1]]
      /\ elem' = [elem EXCEPT ![x] = [elem[x] EXCEPT !.err = er, !.more = mo]]
      /\ on' = [on EXCEPT ![ich] = on[ich] \/ again]
      /\ run' = [run EXCEPT ![ich] = IF again THEN x ELSE run[ich]]
      /\ mutex' = NULL
      /\ ipc' = "idle" /\ ich' = 0 /\ iint' = "none" /\ iurb' = NULL /\ ifl' = {}
      /\ UNCHANGED <<chan, pc, fl, xe, sema, sleepon, pulses, off, hcint, haint>>
  BY <1>0, <1>1, <1>2 DEF GoOn, IrqIdle, caller, Types, ChipTypes
<1>4. cs \in BOOLEAN /\ on1 \in BOOLEAN /\ mo \in BOOLEAN /\ again \in BOOLEAN
  OBVIOUS
<1>5. er \in 0 .. Retries
  <2>1. iint = "xact" => ~(elem[x].err >= Retries)
    BY <1>2 DEF GoOn, Finished
  <2>2. elem[x].err \in 0 .. Retries
    BY <1>2 DEF ElemStates
  <2>3. QED
    BY <2>1, <2>2, UsbAssumption
<1> HIDE DEF cs, on1, er, mo, again
<1>6. /\ ep' \in [Chans -> EpStates]
      /\ \A d \in Chans : ep'[d].flags = ep[d].flags /\ ep'[d].xelem = ep[d].xelem
  <2> DEFINE s == [ep[ich] EXCEPT !.csplit = cs, !.once = on1]
  <2>1. s \in EpStates /\ s.flags = ep[ich].flags /\ s.xelem = ep[ich].xelem
    BY <1>1, <1>4 DEF EpStates
  <2>2. ep' = [ep EXCEPT ![ich] = s]
    BY <1>3
  <2> HIDE DEF s
  <2>3. QED
    BY <1>0, <1>1, <2>1, <2>2 DEF Types
<1>7. elem' \in [Elems -> ElemStates] /\ \A y \in Elems : elem'[y].ep = elem[y].ep
  <2> DEFINE t == [elem[x] EXCEPT !.err = er, !.more = mo]
  <2>1. t \in ElemStates /\ t.ep = elem[x].ep
    BY <1>2, <1>4, <1>5 DEF ElemStates
  <2>2. elem' = [elem EXCEPT ![x] = t]
    BY <1>3
  <2> HIDE DEF t
  <2>3. QED
    BY <1>0, <2>1, <2>2 DEF Types
<1>8. /\ on' \in [Chans -> BOOLEAN] /\ run' \in [Chans -> Elems \cup {NULL}]
      /\ \A d \in Chans : on'[d] => run'[d] # NULL
  BY <1>0, <1>1, <1>2, <1>3, <1>4, NullOut DEF Types, ChipTypes, Elements
<1>9. Types'
  BY <1>0, <1>3, <1>6, <1>7, <1>8, UsbAssumption
     DEF Types, CallerTypes, IrqTypes, ChipTypes, Chans, Rank
<1>10. Enabled' /\ Elements' /\ Served' /\ UsedRead'
  BY <1>0, <1>3, <1>6, <1>7, <1>8 DEF Enabled, Elements, HadEp, Served, UsedRead
<1>11. ChannelsOwned'
  BY <1>0, <1>3, <1>6 DEF ChannelsOwned
<1>12. QED
  BY <1>9, <1>10, <1>11 DEF UsbInv

\* Whoever is woken or called back, it has its channel still.
LEMMA NotifyStep ==
    ASSUME UsbInv, Notify
    PROVE  UsbInv'
<1>0. Types /\ Enabled /\ Elements /\ Served /\ UsedRead /\ ChannelsOwned
  BY DEF UsbInv
<1>1. /\ mutex' = NULL
      /\ ipc' = "idle" /\ ich' = 0 /\ iint' = "none" /\ iurb' = NULL /\ ifl' = {}
      /\ UNCHANGED <<ep, chan, elem, fl, xe, sleepon, pulses, on, off, run, hcint, haint>>
  BY DEF Notify, IrqIdle, chip
<1>2. /\ pc' \in [Eps -> Places] /\ sema' \in [Eps -> BOOLEAN]
      /\ \A e \in Eps : pc'[e] = pc[e] \/ (pc[e] = "busy" /\ pc'[e] = "idle")
  <2>1. CASE UNCHANGED pc /\ sema' = [sema EXCEPT ![iurb] = pc[iurb] \notin {"off", "idle"}]
    BY <1>0, <2>1 DEF Types, CallerTypes
  <2>2. CASE UNCHANGED sema /\ pc' = [pc EXCEPT ![iurb] = IF @ = "busy" THEN "idle" ELSE @]
    BY <1>0, <2>2 DEF Types, CallerTypes, Places
  <2>3. QED
    BY <2>1, <2>2 DEF Notify
<1>3. 0 \in Chans /\ {} \subseteq Flags
  BY UsbAssumption DEF Chans
<1>4. Types'
  BY <1>0, <1>1, <1>2, <1>3 DEF Types, CallerTypes, IrqTypes, ChipTypes, Rank
<1>5. Enabled' /\ Elements' /\ Served' /\ UsedRead' /\ ChannelsOwned'
  BY <1>0, <1>1, <1>2 DEF Enabled, Elements, HadEp, Served, UsedRead, ChannelsOwned
<1>6. QED
  BY <1>4, <1>5 DEF UsbInv

-----------------------------------------------------------------------------
LEMMA InitInv == Init => UsbInv
<1> SUFFICES ASSUME Init PROVE UsbInv
  OBVIOUS
<1>1. 0 \in Chans /\ 0 \in 0 .. Retries /\ 0 <= MaxPulses
  BY UsbAssumption DEF Chans
<1>2. \A c \in Chans : ep[c] = FreshEp
  BY DEF Init
<1>3. Types
  BY <1>1 DEF Init, Types, CallerTypes, IrqTypes, ChipTypes, EpStates, ElemStates, FreshEp,
              FreeElem, Places, Rank
<1>4. Enabled /\ Elements /\ Served /\ UsedRead /\ ChannelsOwned
  BY <1>2, NullOut DEF Init, Enabled, Elements, HadEp, Served, UsedRead, ChannelsOwned, FreshEp
<1>5. QED
  BY <1>3, <1>4 DEF UsbInv

LEMMA NextInv == UsbInv /\ [Next]_vars => UsbInv'
<1> SUFFICES ASSUME UsbInv, [Next]_vars PROVE UsbInv'
  OBVIOUS
<1>1. ASSUME NEW e \in Eps, Setup(e) \/ Submit(e) \/ Control(e) \/ Abort(e) PROVE UsbInv'
  BY <1>1, EnableStep, DisableStep, BeginStep, MarkStep, StartStep, ScheduleStep, ControlStep,
     AbortStep DEF Setup, Submit
<1>2. CASE Interrupt
  BY <1>2, TakeStep, DropStep, FinishStep, ClearStep, GoOnStep, NotifyStep DEF Interrupt
<1>3. ASSUME NEW c \in Chans, HwHalt(c) \/ Sof(c) PROVE UsbInv'
  BY <1>3, ChannelStep
<1>4. CASE Scheduler
  BY <1>4, SchedulerStep
<1>5. CASE UNCHANGED vars
  BY <1>5 DEF vars, caller, irqThread, chip, UsbInv, Types, CallerTypes, IrqTypes, ChipTypes,
              Enabled, Elements, HadEp, Served, UsedRead, ChannelsOwned
<1>6. QED
  BY <1>1, <1>2, <1>3, <1>4, <1>5 DEF Next

LEMMA UsbInvariant == Spec => []UsbInv
<1>1. QED
  BY InitInv, NextInv, PTL DEF Spec

(* Every variable keeps its type, for any endpoints, channels and elements; the *)
(* retries of a transfer never pass the limit of complete_transfer.             *)
THEOREM UsbTypes == Spec => []UsbTypeOK
<1>1. UsbInv => UsbTypeOK
  BY DEF UsbInv, Types, CallerTypes, IrqTypes, ChipTypes, Enabled, Elements, UsbTypeOK,
         EpStates, ElemStates, Places
<1>2. QED
  BY <1>1, UsbInvariant, PTL

(* No two endpoints share a channel and none is lost, although ep->flags is     *)
(* written back by the callers without the mutex and by the interrupt thread.    *)
THEOREM ChannelsAreOwned == Spec => []ChannelsOwned
<1>1. UsbInv => ChannelsOwned
  BY DEF UsbInv
<1>2. QED
  BY <1>1, UsbInvariant, PTL
=============================================================================
