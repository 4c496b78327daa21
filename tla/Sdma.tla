---------------------------------- MODULE Sdma ----------------------------------
(***************************************************************************)
(* Transfers over the eight channels of the SDMA controller                *)
(* (dma/sdma/sdma.c), as the DSP driver uses them (mcom_dsp.c).            *)
(*                                                                         *)
(* The dispatch thread copies code and data itself: it starts a program on *)
(* a vacant channel and waits for the interrupt of that channel, for 100   *)
(* milliseconds at most.  It also starts the programs that clients gave a  *)
(* job (chains), which the job's core steps on with events and nobody      *)
(* waits for.  Both go through sdma_transfer.  The controller executes the *)
(* programs; the interrupt thread takes the channels of a finished job     *)
(* back.  `xfer' holds the program counter and the locals of the dispatch  *)
(* thread, which is the only one that calls the functions of sdma.c: their *)
(* mutex is never waited for, and the wait for DBGSTATUS is the            *)
(* controller's.  A program that cannot be mapped is a transfer that fails.*)
(***************************************************************************)
EXTENDS SdmaProgram

CONSTANTS
    Channels,       \* SDMA channels
    Transfers       \* what the driver asks elcore_dmasend and elcore_dmarecv for

NoChannel == -1
BankSize == 32768               \* DLCR30M_BANK_SIZE
CopyDirs == {"EXTR_TO_INTR", "INTR_TO_EXTR"}

ASSUME ChannelsAssumption == Channels \subseteq Nat
ASSUME TransfersAssumption ==
    Transfers \subseteq [dir : CopyDirs, offset : Nat, size : Nat]

VARIABLES
    busy,           \* channels of jobs: dev->sdma[].busy
    thread,         \* what the controller does on each channel
    inten,          \* INTEN
    intstatus,      \* INTSTATUS
    unmasked,       \* channels whose interrupt is unmasked
    notified,       \* an interrupt is there for InterruptWait
    xfer,           \* dispatch thread
    dirty           \* history: channels a chain or a wait that gave up was on

vars == <<busy, thread, inten, intstatus, unmasked, notified, xfer, dirty>>

NoXfer == [pc |-> "idle", kind |-> "SDMA_CPU_", chan |-> NoChannel,
           dir |-> "EXTR_TO_INTR", size |-> 0, after |-> 0, rest |-> {},
           want |-> 0, moved |-> 0]

Init ==
    /\ busy = {}
    /\ thread = [c \in Channels |-> "stopped"]
    /\ inten = {}
    /\ intstatus = {}
    /\ unmasked = {}
    /\ notified = FALSE
    /\ xfer = NoXfer
    /\ dirty = {}

-----------------------------------------------------------------------------
(* The dispatch thread. *)

XferTo(pc) == xfer' = [xfer EXCEPT !.pc = pc]
XferFails == xfer' = NoXfer
AtRest == xfer.pc \in {"idle", "done"}

\* A transfer runs on into the data memory when it does not end in the program
\* memory; one that would leave the memory is refused.
Crosses(t) == t.offset < BankSize /\ t.offset + t.size > BankSize
Accepted(t) ==
    /\ Crosses(t) => t.offset + t.size < 5 * BankSize
    /\ t.offset >= BankSize => t.offset - BankSize + t.size < 5 * BankSize

\* Bytes of its first and of its second program; 0 when it has no second one.
\* The mutant has one for every transfer.
SecondAlways(t) == t.size - (BankSize - t.offset)
Second(t) == IF Crosses(t) THEN t.size - (BankSize - t.offset) ELSE 0
First(t) == t.size - Second(t)

Whole(n) == n - (n % 4)         \* bytes of the whole words

\* The search for a channel that is not busy.
Vacant(c) == c \in Channels \ busy /\ \A d \in Channels \ busy : c <= d

\* elcore_dmasend and elcore_dmarecv, up to the first sdma_transfer.  `want' is
\* for the properties.
Copy(t) ==
    /\ AtRest
    /\ Accepted(t)
    /\ \E c \in Channels :
          /\ Vacant(c)
          /\ xfer' = [NoXfer EXCEPT !.pc = "check", !.chan = c, !.dir = t.dir,
                                    !.size = First(t), !.after = Second(t),
                                    !.want = Whole(First(t)) + Whole(Second(t))]
    /\ UNCHANGED <<busy, thread, inten, intstatus, unmasked, notified, dirty>>

\* The next of the chains left to start, if any.
NextChain(s) ==
    \/ s = {} /\ xfer' = NoXfer
    \/ \E c \in s : xfer' = [NoXfer EXCEPT !.pc = "check", !.kind = "SDMA_DSP_",
                                           !.chan = c, !.rest = s \ {c}]

\* elcore_start_core for a job with chains on the channels s, none of which may
\* be busy; then it starts the chains one after the other.
StartChains(s) ==
    /\ AtRest
    /\ s # {} /\ s \cap busy = {}
    /\ busy' = busy \cup s
    /\ NextChain(s)
    /\ UNCHANGED <<thread, inten, intstatus, unmasked, notified, dirty>>

\* sdma_transfer looks whether the channel is stopped.  The caller of a copy
\* gives up; elcore_start_core does not look at the result.
ChannelFree(c) == thread[c] = "stopped"

Check ==
    /\ xfer.pc = "check"
    /\ \/ ChannelFree(xfer.chan) /\ XferTo("go")
       \/ /\ ~ ChannelFree(xfer.chan)
          /\ IF xfer.kind = "SDMA_CPU_" THEN XferFails ELSE NextChain(xfer.rest)
    /\ UNCHANGED <<busy, thread, inten, intstatus, unmasked, notified, dirty>>

\* INTEN is set for every program, DMAGO starts the channel.
GoCopy ==
    /\ xfer.pc = "go" /\ xfer.kind = "SDMA_CPU_"
    /\ inten' = inten \cup {xfer.chan}
    /\ thread' = [thread EXCEPT ![xfer.chan] = "copy"]
    /\ XferTo("unmask")
    /\ UNCHANGED <<busy, intstatus, unmasked, notified, dirty>>

GoChain ==
    /\ xfer.pc = "go" /\ xfer.kind = "SDMA_DSP_"
    /\ inten' = inten \cup {xfer.chan}
    /\ thread' = [thread EXCEPT ![xfer.chan] = "event"]
    /\ dirty' = dirty \cup {xfer.chan}
    /\ NextChain(xfer.rest)
    /\ UNCHANGED <<busy, intstatus, unmasked, notified>>

\* irq_wait.  The mutant forgets to let the interrupt through.
StillMasked == xfer.pc = "unmask" /\ XferTo("wait")
               /\ UNCHANGED <<busy, thread, inten, intstatus, unmasked, notified,
                              dirty>>
Unmask ==
    /\ xfer.pc = "unmask"
    /\ unmasked' = unmasked \cup {xfer.chan}
    /\ XferTo("wait")
    /\ UNCHANGED <<busy, thread, inten, intstatus, notified, dirty>>

Wake ==
    /\ xfer.pc = "wait"
    /\ notified
    /\ notified' = FALSE
    /\ XferTo("look")
    /\ UNCHANGED <<busy, thread, inten, intstatus, unmasked, dirty>>

\* The 100 milliseconds are over.  INTEN stays, the program is unmapped, and the
\* channel goes on.
Timeout ==
    /\ xfer.pc = "wait"
    /\ ~ notified
    /\ dirty' = dirty \cup {xfer.chan}
    /\ XferFails
    /\ UNCHANGED <<busy, thread, inten, intstatus, unmasked, notified>>

\* INTSTATUS tells whose interrupt it was.  The mutant takes any.
MineAny(c) == intstatus # {}
Mine(c) == c \in intstatus

LookOther ==
    /\ xfer.pc = "look"
    /\ ~ Mine(xfer.chan)
    /\ unmasked' = unmasked \cup {xfer.chan}
    /\ XferTo("wait")
    /\ UNCHANGED <<busy, thread, inten, intstatus, notified, dirty>>

\* The interrupt of the channel: it is cleared and disabled; the program is
\* unmapped, and the next piece gets one, unless there is no memory for it.
LookMine ==
    /\ xfer.pc = "look"
    /\ Mine(xfer.chan)
    /\ intstatus' = intstatus \ {xfer.chan}
    /\ inten' = inten \ {xfer.chan}
    /\ unmasked' = unmasked \cup {xfer.chan}
    /\ \/ xfer.after = 0 /\ XferTo("done")
       \/ /\ xfer.after > 0
          /\ xfer' = [xfer EXCEPT !.pc = "check", !.size = xfer.after, !.after = 0]
       \/ xfer.after > 0 /\ XferFails
    /\ UNCHANGED <<busy, thread, notified, dirty>>

-----------------------------------------------------------------------------
(* The controller, the kernel, the interrupt thread. *)

ThreadTo(c, st) == thread' = [thread EXCEPT ![c] = st]

\* The dispatch thread waits for the copy that channel c makes.
WaitsFor(c) == xfer.pc \in {"unmask", "wait", "look"} /\ xfer.chan = c

\* The loops of a copy.
HwCopy(c) ==
    /\ thread[c] = "copy"
    /\ ThreadTo(c, "sev")
    /\ xfer' = IF WaitsFor(c)
               THEN [xfer EXCEPT !.moved = @ + Moved(xfer.dir, xfer.size)]
               ELSE xfer
    /\ UNCHANGED <<busy, inten, intstatus, unmasked, notified, dirty>>

\* DMAWFE and the loops of a chain: the core has sent the event.
HwEvent(c) ==
    /\ thread[c] = "event"
    /\ ThreadTo(c, "chain")
    /\ UNCHANGED <<busy, inten, intstatus, unmasked, notified, xfer, dirty>>

\* DMASEV, the last instruction of a turn.  A chain may have more turns.
HwSev(c) ==
    /\ \/ thread[c] = "sev" /\ ThreadTo(c, "end")
       \/ thread[c] = "chain" /\ ThreadTo(c, "event")
       \/ thread[c] = "chain" /\ ThreadTo(c, "end")
    /\ intstatus' = intstatus \cup ({c} \cap inten)
    /\ UNCHANGED <<busy, inten, unmasked, notified, xfer, dirty>>

\* DMAWMB and DMAEND.
HwEnd(c) ==
    /\ thread[c] = "end"
    /\ ThreadTo(c, "stopped")
    /\ UNCHANGED <<busy, inten, intstatus, unmasked, notified, xfer, dirty>>

\* The kernel masks the interrupt and remembers it for InterruptWait.
Deliver(c) ==
    /\ c \in intstatus \cap inten \cap unmasked
    /\ unmasked' = unmasked \ {c}
    /\ notified' = TRUE
    /\ UNCHANGED <<busy, thread, inten, intstatus, xfer, dirty>>

\* elcore_release_sdma: the job that had the channel is finished.
ReleaseSdma(c) ==
    /\ c \in busy
    /\ busy' = busy \ {c}
    /\ UNCHANGED <<thread, inten, intstatus, unmasked, notified, xfer, dirty>>

-----------------------------------------------------------------------------
Dispatch ==
    \/ Check \/ GoCopy \/ GoChain \/ Unmask
    \/ Wake \/ LookOther \/ LookMine

Controller(c) == HwCopy(c) \/ HwSev(c) \/ HwEnd(c)

Next ==
    \/ \E t \in Transfers : Copy(t)
    \/ \E s \in SUBSET Channels : StartChains(s)
    \/ Dispatch
    \/ Timeout
    \/ \E c \in Channels :
          Controller(c) \/ HwEvent(c) \/ Deliver(c) \/ ReleaseSdma(c)

Spec == Init /\ [][Next]_vars

\* The dispatch thread runs, the controller goes on with what it can do, an
\* interrupt is delivered.  Nothing is said of the timer, of events and of jobs.
Fairness ==
    /\ WF_vars(Dispatch)
    /\ \A c \in Channels : WF_vars(Controller(c)) /\ WF_vars(Deliver(c))

FairSpec == Spec /\ Fairness

-----------------------------------------------------------------------------
\* Every variable keeps its type.
SdmaTypeOK ==
    /\ busy \subseteq Channels
    /\ thread \in [Channels -> {"stopped", "copy", "sev", "event", "chain", "end"}]
    /\ inten \subseteq Channels
    /\ intstatus \subseteq Channels
    /\ unmasked \subseteq Channels
    /\ notified \in BOOLEAN
    /\ dirty \subseteq Channels
    /\ xfer \in [pc : {"idle", "check", "go", "unmask", "wait", "look", "done"},
                 kind : {"SDMA_CPU_", "SDMA_DSP_"},
                 chan : Channels \cup {NoChannel},
                 dir : CopyDirs,
                 size : Nat,
                 after : Nat,
                 rest : SUBSET Channels,
                 want : Nat,
                 moved : Nat]

\* A copy that is reported done is done, to the last whole word, when no chain
\* ever ran on its channel and no earlier wait there gave up: whatever the other
\* channels signal meanwhile, and although the wake-up says nothing of its
\* origin.  (On other channels INTSTATUS may be left over, and the copy is
\* reported done before it is.)
DoneIsDone ==
    xfer.pc = "done" /\ xfer.chan \notin dirty => xfer.moved = xfer.want

\* The program of a copy the driver makes fits its buffer, and the way back of
\* its loop the byte it has in DMALPEND; sdma_command_add would cut off either
\* without a word.
ProgramFits ==
    xfer.pc = "check" /\ xfer.kind = "SDMA_CPU_" =>
        /\ Length(xfer.dir, xfer.size, "SDMA_CPU_") <= ProgMax
        /\ Body(xfer.dir, xfer.size, "SDMA_CPU_") <= 255

\* The wait ends without the timer: no interrupt is lost, in whatever order it
\* is raised, enabled and unmasked, and however often other channels wake the
\* thread.
CopyWaitEnds == xfer.pc = "wait" ~> xfer.pc \notin {"wait", "look"}
=================================================================================
