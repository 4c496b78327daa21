-------------------------------- MODULE Dwcotg --------------------------------
(* The USB host controller driver (devu/hc/dwcotg/dwcotg.c): the class        *)
(* drivers' threads that enable endpoints, submit transfers and give them up, *)
(* the interrupt thread that completes them, and the scheduler thread that    *)
(* starts what a start-of-frame interrupt finds due.  They share the endpoint *)
(* contexts and the pool of transfer elements, in part under xhc->mutex.      *)
(* ep->flags is one word: the callers set ACTIVE without the mutex, so every  *)
(* change of a flag outside it is a read of the word and a later write of all *)
(* its bits, on both sides.                                                   *)
(*                                                                            *)
(* Each endpoint has one caller, as usbd serialises the calls of an endpoint. *)
EXTENDS Integers, Sequences, FiniteSets, FiniteSetsExt

CONSTANTS NULL,
          Eps,        \* endpoints, each with its caller
          Kind,       \* Kind[e] is "ctl", "bulk" or "int"
          Split,      \* endpoints below a high-speed hub
          Faulty,     \* endpoints whose device may stall or not answer
          Aborted,    \* bulk and int endpoints whose transfers are given up
          Elems,      \* the pool of transfer elements
          NumChan,    \* nchan
          Retries,    \* errcnt at which a transfer fails; 2 in the code
          MaxPulses   \* bound: DOSTART pulses in the scheduler's queue

ASSUME UsbAssumption ==
    /\ Kind \in [Eps -> {"ctl", "bulk", "int"}]
    /\ Split \subseteq Eps /\ Faulty \subseteq Eps /\ Aborted \subseteq Eps
    /\ NumChan \in Nat /\ NumChan > 0
    /\ MaxPulses \in Nat /\ Retries \in Nat
    /\ NULL \notin Eps /\ NULL \notin Elems /\ NULL \notin 0 .. NumChan - 1
    /\ NULL # "irq"

VARIABLES
    ep,         \* ep_arr; interval as # 0
    chan,       \* edesc->PtrUSBEndpoint
    elem,       \* transfer elements; a free one keeps its ep and err
    pc, fl, xe, \* the callers: where they are, the flags they read, their element
    sema,       \* urb->Header.Semaphore
    sleepon,    \* who holds the sleepon lock
    mutex,      \* xhc->mutex, when the interrupt thread holds it between steps
    ipc, ich, iint, iurb, ifl,  \* the interrupt thread; ifl: the flags it read
    pulses,     \* the scheduler's channel
    on, off, run,           \* HCCHAR: enabled, told to stop; the element it runs
    hcint, haint,           \* HCINT; the channel's bit of HAINTMSK
    crashed                 \* a thread read through a null pointer

caller == <<pc, fl, xe, sema>>
irqThread == <<ipc, ich, iint, iurb, ifl>>
chip == <<on, off, run, hcint, haint>>
vars == <<ep, chan, elem, caller, sleepon, mutex, irqThread, pulses, chip, crashed>>

Flags == {"USED", "ACTIVE", "ABORT"}
Chans == 0 .. NumChan - 1
\* HCINT by what complete_transfer looks for first: a bit that it would not
\* look at any more is forgotten.
Rank == [none |-> 0, halt |-> 1, ack |-> 2, nak |-> 3, xact |-> 4, fail |-> 5,
         complete |-> 6]
Results == DOMAIN Rank \ {"none"}
FreshEp == [flags |-> {}, xelem |-> NULL,
            split |-> FALSE, csplit |-> FALSE, once |-> FALSE, interval |-> FALSE]

\* A free element; of its contents dir and more are forgotten.  The pool of the
\* system library is taken to ignore a block that is free already, and none.
FreeElem(e, err) == [used |-> FALSE, ep |-> e, err |-> err,
                     dir |-> "out", more |-> FALSE]
Freed(x) == [elem EXCEPT ![x] = FreeElem(@.ep, @.err)]

Init ==
    /\ ep = [c \in Chans |-> FreshEp]
    /\ chan = [e \in Eps |-> NULL]
    /\ elem = [x \in Elems |-> FreeElem(NULL, 0)]
    /\ pc = [e \in Eps |-> "off"]
    /\ fl = [e \in Eps |-> {}] /\ xe = [e \in Eps |-> NULL]
    /\ sema = [e \in Eps |-> FALSE]
    /\ sleepon = NULL /\ mutex = NULL
    /\ ipc = "idle" /\ ich = 0 /\ iint = "none" /\ iurb = NULL /\ ifl = {}
    /\ pulses = <<>>
    /\ on = [c \in Chans |-> FALSE] /\ off = [c \in Chans |-> FALSE]
    /\ run = [c \in Chans |-> NULL]
    /\ hcint = [c \in Chans |-> "none"] /\ haint = [c \in Chans |-> FALSE]
    /\ crashed = FALSE

-----------------------------------------------------------------------------
\* A thread reads through a null pointer, and the process dies.
Crash ==
    /\ crashed' = TRUE
    /\ UNCHANGED <<ep, chan, elem, caller, sleepon, mutex, irqThread, pulses, chip>>

-----------------------------------------------------------------------------
(* The caller *)

\* The channel the endpoint has, or else the first unused one.
ChannelFor(e) ==
    IF chan[e] # NULL THEN {chan[e]}
    ELSE LET unused == {c \in Chans : "USED" \notin ep[c].flags}
         IN  IF unused = {} THEN {} ELSE {Min(unused)}

\* endpoint_enable: without a channel the call returns ENODEV.
Enable(e) ==
    /\ pc[e] \in {"off", "idle"} /\ mutex = NULL
    /\ \E c \in ChannelFor(e) :
          /\ chan' = [chan EXCEPT ![e] = c]
          /\ ep' = [ep EXCEPT ![c] =
                [(IF chan[e] = NULL THEN FreshEp ELSE @) EXCEPT
                    !.flags = {"USED"}, !.split = e \in Split]]
          /\ hcint' = [hcint EXCEPT ![c] = "none"]
          /\ haint' = [haint EXCEPT ![c] = TRUE]
    /\ pc' = [pc EXCEPT ![e] = "idle"]
    /\ UNCHANGED <<elem, fl, xe, sema, sleepon, mutex, irqThread, pulses>>
    /\ UNCHANGED <<on, off, run, crashed>>

\* A channel that is told to stop halts if it runs.
StopChannel(c) == off' = [off EXCEPT ![c] = on[c]]

Disable(e) ==
    /\ pc[e] = "idle" /\ mutex = NULL
    /\ LET c == chan[e]
       IN  /\ ep' = [ep EXCEPT ![c].flags = @ \ {"USED"}]
           /\ StopChannel(c)
           /\ hcint' = [hcint EXCEPT ![c] = "none"]
           /\ haint' = [haint EXCEPT ![c] = FALSE]
    /\ chan' = [chan EXCEPT ![e] = NULL]
    /\ pc' = [pc EXCEPT ![e] = "off"]
    /\ UNCHANGED <<elem, fl, xe, sema, sleepon, mutex, irqThread, pulses>>
    /\ UNCHANGED <<on, run, crashed>>

\* xelem_create: errcnt is what the element's last user left there.
Created(x, e, dir, more) ==
    [elem EXCEPT ![x] = [used |-> TRUE, ep |-> e, err |-> @.err,
                         dir |-> dir, more |-> more]]

Create(e) ==
    \E x \in Elems, dir \in {"in", "out"}, more \in BOOLEAN :
        /\ ~elem[x].used
        /\ more => dir = "in" /\ e \in Split
        /\ elem' = Created(x, e, dir, more)
        /\ xe' = [xe EXCEPT ![e] = x]

PoolEmpty == \A x \in Elems : elem[x].used

\* ctrl_transfer makes the element first and does not ask whether one is
\* active; both read the flags they are about to write back.
Begin(e) ==
    /\ pc[e] = "idle"
    /\ IF Kind[e] = "ctl" THEN Create(e) /\ sema' = [sema EXCEPT ![e] = FALSE]
                          ELSE "ACTIVE" \notin ep[chan[e]].flags /\ UNCHANGED <<elem, xe, sema>>
    /\ fl' = [fl EXCEPT ![e] = ep[chan[e]].flags]
    /\ pc' = [pc EXCEPT ![e] = "mark"]
    /\ UNCHANGED <<ep, chan, sleepon, mutex, irqThread, pulses, chip, crashed>>

\* flags |= EPFLAG_ACTIVE_XFER, without the mutex.  When bulk_transfer and
\* int_transfer then get no element they return and the flag stays.
Mark(e) ==
    /\ pc[e] = "mark"
    /\ ep' = [ep EXCEPT ![chan[e]].flags = fl[e] \cup {"ACTIVE"}]
    /\ \/ /\ Kind[e] = "ctl"
          /\ pc' = [pc EXCEPT ![e] = "start"] /\ UNCHANGED <<elem, xe>>
       \/ /\ Kind[e] # "ctl" /\ Create(e)
          /\ pc' = [pc EXCEPT ![e] = "start"]
       \/ /\ Kind[e] # "ctl" /\ PoolEmpty
          /\ pc' = [pc EXCEPT ![e] = "idle"] /\ UNCHANGED <<elem, xe>>
    /\ fl' = [fl EXCEPT ![e] = {}]
    /\ UNCHANGED <<chan, sema, sleepon, mutex, irqThread, pulses, chip, crashed>>

\* start_data_transfer dereferences the element and its endpoint's channel.  An
\* element that was freed too early may be another endpoint's by now.
Startable(x) == x # NULL /\ chan[elem[x].ep] # NULL

\* start_data_transfer of element x, on the channel its endpoint has now.
StartData(x) ==
    LET c == chan[elem[x].ep]
    IN  /\ ep' = [ep EXCEPT ![c].xelem = x, ![c].csplit = @ /\ ~ep[c].split]
        /\ on' = [on EXCEPT ![c] = TRUE]
        /\ off' = [off EXCEPT ![c] = FALSE]
        /\ run' = [run EXCEPT ![c] = x]

\* A control or bulk transfer is started by its caller.
Start(e) ==
    /\ pc[e] = "start" /\ Kind[e] # "int" /\ mutex = NULL
    /\ IF Startable(xe[e])
       THEN /\ StartData(xe[e])
            /\ pc' = [pc EXCEPT ![e] = IF Kind[e] = "ctl" THEN "wait" ELSE "busy"]
            /\ xe' = [xe EXCEPT ![e] = NULL]
            /\ UNCHANGED <<chan, elem, fl, sema, sleepon, mutex, irqThread>>
            /\ UNCHANGED <<pulses, hcint, haint, crashed>>
       ELSE Crash

\* int_transfer leaves it to the frames to come.
Schedule(e) ==
    /\ pc[e] = "start" /\ Kind[e] = "int"
    /\ ep' = [ep EXCEPT ![chan[e]].xelem = xe[e], ![chan[e]].interval = TRUE]
    /\ pc' = [pc EXCEPT ![e] = "busy"]
    /\ xe' = [xe EXCEPT ![e] = NULL]
    /\ UNCHANGED <<chan, elem, fl, sema, sleepon, mutex, irqThread, pulses, chip, crashed>>

\* control_xfer_wait: the semaphore is seen.
Return(e) ==
    /\ pc[e] = "wait" /\ sema[e] /\ sleepon = NULL
    /\ pc' = [pc EXCEPT ![e] = "idle"]
    /\ sema' = [sema EXCEPT ![e] = FALSE]
    /\ UNCHANGED <<ep, chan, elem, fl, xe, sleepon, mutex, irqThread>>
    /\ UNCHANGED <<pulses, chip, crashed>>

\* The wait times out, whatever became of the semaphore meanwhile, and returns
\* with the sleepon lock.
Timeout(e) ==
    /\ pc[e] = "wait" /\ sleepon = NULL
    /\ sleepon' = e
    /\ pc' = [pc EXCEPT ![e] = "timedout"]
    /\ UNCHANGED <<ep, chan, elem, fl, xe, sema, mutex, irqThread, pulses, chip, crashed>>

\* The mutant of Unlock goes on with the lock.
UnlockLate(e) ==
    /\ pc[e] = "timedout"
    /\ pc' = [pc EXCEPT ![e] = "abort"]
    /\ UNCHANGED <<ep, chan, elem, fl, xe, sema, sleepon, mutex, irqThread, pulses>>
    /\ UNCHANGED <<chip, crashed>>

Unlock(e) ==
    /\ pc[e] = "timedout"
    /\ sleepon' = NULL
    /\ pc' = [pc EXCEPT ![e] = "abort"]
    /\ UNCHANGED <<ep, chan, elem, fl, xe, sema, mutex, irqThread, pulses, chip, crashed>>

\* transfer_abort, of an active transfer.
AbortActive(e) ==
    LET c == chan[e]
    IN  /\ ep' = [ep EXCEPT ![c].flags = (@ \ {"ACTIVE"}) \cup {"ABORT"},
                            ![c].interval = @ /\ Kind[e] # "int"]
        /\ elem' = Freed(ep[c].xelem)
        /\ StopChannel(c)

\* A control transfer that timed out, and any other its caller gives up.
MayAbort(e) ==
    /\ \/ pc[e] = "abort"
       \/ pc[e] = "busy" /\ e \in Aborted
    /\ mutex = NULL

Abort(e) ==
    /\ MayAbort(e)
    /\ IF "ACTIVE" \in ep[chan[e]].flags THEN AbortActive(e) ELSE UNCHANGED <<ep, elem, off>>
    /\ sleepon' = IF sleepon = e THEN NULL ELSE sleepon
    /\ pc' = [pc EXCEPT ![e] = "idle"]
    /\ sema' = [sema EXCEPT ![e] = FALSE]
    /\ UNCHANGED <<chan, fl, xe, mutex, irqThread, pulses>>
    /\ UNCHANGED <<on, run, hcint, haint, crashed>>

-----------------------------------------------------------------------------
(* The controller *)

\* The channel halts with a result: what the device answered, or nothing when
\* it was told to stop.
HwHalt(c) ==
    /\ on[c]
    /\ \E r \in Results :
          LET e == elem[run[c]].ep
          IN  /\ r \in {"fail", "xact"} => e \in Faulty
              /\ r = "nak" => Kind[e] = "int" \/ elem[run[c]].dir = "out"
                                \/ e \in Split
              /\ r = "ack" => e \in Split
              /\ r = "halt" => off[c]
              /\ hcint' = [hcint EXCEPT ![c] = IF Rank[r] > Rank[@] THEN r ELSE @]
    /\ on' = [on EXCEPT ![c] = FALSE] /\ off' = [off EXCEPT ![c] = FALSE]
    /\ run' = [run EXCEPT ![c] = NULL]
    /\ UNCHANGED <<ep, chan, elem, caller, sleepon, mutex, irqThread, pulses, haint, crashed>>

-----------------------------------------------------------------------------
(* dwcotg_controller_interrupt *)

\* A start of frame that is due for channel c.  active_xfer, which the code
\* asks, is set nowhere.  The frame numbers are left out: a periodic channel
\* may be due in any frame.
Sof(c) ==
    /\ ipc = "idle" /\ Len(pulses) < MaxPulses
    /\ ep[c].interval \/ ep[c].csplit \/ ep[c].once
    /\ pulses' = Append(pulses, c)
    /\ UNCHANGED <<ep, chan, elem, caller, sleepon, mutex, irqThread, chip, crashed>>

\* channel_interrupt_handler, up to the test of ep->xelem in complete_transfer.
TakeInt(c) ==
    /\ ipc = "idle" /\ hcint[c] # "none" /\ haint[c]
    /\ hcint' = [hcint EXCEPT ![c] = "none"]
    /\ IF ep[c].xelem = NULL THEN UNCHANGED irqThread
       ELSE ipc' = "lock" /\ ich' = c /\ iint' = hcint[c] /\ UNCHANGED <<iurb, ifl>>
    /\ UNCHANGED <<ep, chan, elem, caller, sleepon, mutex, pulses>>
    /\ UNCHANGED <<on, off, run, haint, crashed>>

IrqIdle ==
    ipc' = "idle" /\ ich' = 0 /\ iint' = "none" /\ iurb' = NULL /\ ifl' = {}

\* The interrupt of a transfer that was given up is dropped, of any other it is
\* served: by now the endpoint may be another's and have no element yet, and the
\* code reads through the null pointer.
LockXfer ==
    /\ ipc = "lock" /\ mutex = NULL
    /\ IF "ABORT" \notin ep[ich].flags /\ ep[ich].xelem = NULL THEN Crash
       ELSE /\ mutex' = "irq"
            /\ IF "ABORT" \in ep[ich].flags
               THEN ipc' = "drop" /\ ifl' = ep[ich].flags /\ UNCHANGED iurb
               ELSE ipc' = "body" /\ iurb' = elem[ep[ich].xelem].ep /\ UNCHANGED ifl
            /\ UNCHANGED <<ep, ich, iint, chan, elem, caller, sleepon, pulses, chip>>
            /\ UNCHANGED crashed

\* Mutant of Drop: flags = 0.
DropAll ==
    /\ ipc = "drop"
    /\ ep' = [ep EXCEPT ![ich].flags = {}]
    /\ mutex' = NULL /\ IrqIdle
    /\ UNCHANGED <<chan, elem, caller, sleepon, pulses, chip, crashed>>

\* flags &= ~EPFLAG_XFER_ABORT
Drop ==
    /\ ipc = "drop"
    /\ ep' = [ep EXCEPT ![ich].flags = ifl \ {"ABORT"}]
    /\ mutex' = NULL /\ IrqIdle
    /\ UNCHANGED <<chan, elem, caller, sleepon, pulses, chip, crashed>>

XferKind == Kind[elem[ep[ich].xelem].ep]

\* Mutant of Finished: one retry more.
FinishedLate ==
    LET x == elem[ep[ich].xelem]
    IN  \/ iint = "complete" /\ ~(x.more /\ XferKind # "int")
        \/ iint = "fail"
        \/ iint = "xact" /\ x.err > Retries

\* The transfer is over: complete to its last packet, or failed.
Finished ==
    LET x == elem[ep[ich].xelem]
    IN  \/ iint = "complete" /\ ~(x.more /\ XferKind # "int")
        \/ iint = "fail"
        \/ iint = "xact" /\ x.err >= Retries

\* complete_transfer, a transfer that is over ...
Finish ==
    /\ ipc = "body" /\ Finished
    /\ ep' = [ep EXCEPT
                 ![ich].once = @ /\ iint # "complete",
                 ![ich].interval = @ /\ ~(XferKind = "int" /\ iint = "complete")]
    /\ ifl' = ep[ich].flags
    /\ ipc' = "clear"
    /\ UNCHANGED <<chan, elem, caller, sleepon, mutex, ich, iint, iurb, pulses, chip, crashed>>

\* ... flags &= ~EPFLAG_ACTIVE_XFER, and the element is freed.
Clear ==
    /\ ipc = "clear"
    /\ ep' = [ep EXCEPT ![ich].flags = ifl \ {"ACTIVE"}]
    /\ elem' = Freed(ep[ich].xelem)
    /\ ipc' = "notify" /\ ifl' = {}
    /\ UNCHANGED <<chan, caller, sleepon, mutex, ich, iint, iurb, pulses, chip, crashed>>

\* complete_transfer, a transfer that goes on: by itself, or when the scheduler
\* starts it again, or not at all.
GoOn ==
    /\ ipc = "body" /\ ~Finished
    /\ LET x == ep[ich].xelem
           again == /\ XferKind # "int" /\ ~ep[ich].split
                    /\ \/ iint = "xact"
                       \/ iint = "nak" /\ elem[x].dir = "out"
       IN  /\ ep' = [ep EXCEPT
                 ![ich].csplit = @ \/ (iint = "ack" /\ ep[ich].split),
                 ![ich].once = (@ /\ ~(iint = "ack" /\ XferKind # "int"))
                                  \/ iint = "complete"]
           /\ elem' = [elem EXCEPT
                 ![x].err = CASE iint = "xact" -> @ + 1
                              [] iint = "nak" -> 0
                              [] OTHER -> @,
                 ![x].more = @ /\ iint # "complete"]
           /\ on' = [on EXCEPT ![ich] = @ \/ again]
           /\ run' = [run EXCEPT ![ich] = IF again THEN x ELSE @]
    /\ mutex' = NULL /\ IrqIdle
    /\ UNCHANGED <<chan, caller, sleepon, pulses, off, hcint, haint, crashed>>

\* The kind is read from the element that was freed above: who has it now says
\* whether the caller is woken or called back.
Notify ==
    /\ ipc = "notify"
    /\ IF XferKind = "ctl"
       THEN /\ sleepon = NULL
            /\ sema' = [sema EXCEPT ![iurb] = pc[iurb] \notin {"off", "idle"}]
            /\ UNCHANGED pc
       ELSE /\ pc' = [pc EXCEPT ![iurb] = IF @ = "busy" THEN "idle" ELSE @]
            /\ UNCHANGED sema
    /\ mutex' = NULL /\ IrqIdle
    /\ UNCHANGED <<ep, chan, elem, fl, xe, sleepon, pulses, chip, crashed>>

-----------------------------------------------------------------------------
\* scheduler: a DOSTART pulse.  The channel may be a new endpoint's since the pulse
\* was sent, or the element's endpoint without a channel.
Scheduler ==
    /\ pulses # <<>> /\ mutex = NULL
    /\ LET x == ep[Head(pulses)].xelem IN
       IF Startable(x)
       THEN /\ StartData(x)
            /\ pulses' = Tail(pulses)
            /\ UNCHANGED <<chan, elem, caller, sleepon, mutex, irqThread>>
            /\ UNCHANGED <<hcint, haint, crashed>>
       ELSE Crash

-----------------------------------------------------------------------------
Setup(e) == Enable(e) \/ Disable(e)
CtlEps == {e \in Eps : Kind[e] = "ctl"}
Submit(e) == Begin(e) \/ Mark(e) \/ Start(e) \/ Schedule(e)
Control(e) == Return(e) \/ Timeout(e) \/ Unlock(e)
Interrupt ==
    \/ \E c \in Chans : TakeInt(c)
    \/ LockXfer \/ Drop \/ Finish \/ Clear \/ GoOn \/ Notify

Next ==
    /\ ~crashed
    /\ \/ \E e \in Eps : Setup(e) \/ Submit(e) \/ Control(e) \/ Abort(e)
       \/ Interrupt
       \/ \E c \in Chans : HwHalt(c) \/ Sof(c)
       \/ Scheduler

Spec == Init /\ [][Next]_vars

(* The interrupt thread runs, the timer of a wait expires, and a thread that   *)
(* waits for the mutex gets it.                                               *)
Fairness ==
    /\ WF_vars(~crashed /\ Interrupt)
    /\ \A e \in CtlEps : WF_vars(~crashed /\ Control(e)) /\ SF_vars(~crashed /\ Abort(e))

FairSpec == Spec /\ Fairness

-----------------------------------------------------------------------------
UsbTypeOK ==
    /\ \A c \in Chans :
          /\ ep[c] \in [flags : SUBSET Flags,
                        xelem : Elems \cup {NULL}, split : BOOLEAN,
                        csplit : BOOLEAN, once : BOOLEAN, interval : BOOLEAN]
          /\ run[c] \in Elems \cup {NULL} /\ (on[c] => run[c] # NULL)
          /\ hcint[c] \in DOMAIN Rank /\ off[c] \in BOOLEAN /\ haint[c] \in BOOLEAN
    /\ \A e \in Eps :
          /\ chan[e] \in Chans \cup {NULL} /\ (chan[e] = NULL <=> pc[e] = "off")
          /\ pc[e] \in {"off", "idle", "mark", "start", "wait", "timedout",
                        "abort", "busy"}
          /\ xe[e] \in Elems \cup {NULL}
          /\ fl[e] \subseteq Flags /\ sema[e] \in BOOLEAN
    /\ \A x \in Elems :
          elem[x] \in [used : BOOLEAN, ep : Eps \cup {NULL}, err : 0 .. Retries,
                       dir : {"in", "out"}, more : BOOLEAN]
    /\ sleepon \in Eps \cup {NULL} /\ mutex \in {"irq", NULL}
    /\ ipc \in {"idle", "lock", "drop", "body", "clear", "notify"} /\ ich \in Chans
    /\ iint \in DOMAIN Rank /\ iurb \in Eps \cup {NULL} /\ ifl \subseteq Flags
    /\ pulses \in Seq(Chans) /\ Len(pulses) <= MaxPulses

(* No two endpoints share a channel and no channel is lost: EPFLAG_USED says   *)
(* whose it is and lies in the word that the callers write back without the   *)
(* mutex and the interrupt thread with it, each with what it read before.     *)
ChannelsOwned ==
    /\ \A e, f \in Eps : e # f /\ chan[e] # NULL => chan[e] # chan[f]
    /\ \A c \in Chans : "USED" \in ep[c].flags <=> \E e \in Eps : chan[e] = c

(* A control transfer always comes back to its caller, whatever the device    *)
(* does, unless the process dies: complete_transfer takes the sleepon lock     *)
(* under the mutex, and the caller that times out does not hold the one while *)
(* it waits for the other.                                                    *)
ControlReturns ==
    \A e \in CtlEps :
        pc[e] \in {"wait", "timedout", "abort"} ~> (pc[e] = "idle" \/ crashed)

\* Element x is in use by the endpoint that has channel c.
Live(x, c) == x # NULL /\ elem[x].used /\ elem[x].ep # NULL /\ chan[elem[x].ep] = c

(* A finished or aborted transfer is off the schedule: "remove transfer       *)
(* element from schedule" (dwcotg.c:655).  What the scheduler starts because   *)
(* its channel is on the schedule is in use.                                   *)
StartsLiveElement ==
    (pulses # <<>> /\ mutex = NULL /\ ep[Head(pulses)].interval)
        => Live(ep[Head(pulses)].xelem, Head(pulses))
=============================================================================
