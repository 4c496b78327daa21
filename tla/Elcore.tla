-------------------------------- MODULE Elcore --------------------------------
(***************************************************************************)
(* The DELCORE30M resource manager: the dispatch thread that serves the    *)
(* clients' requests one after the other (elcore/_elcore_devctl.c), the    *)
(* interrupt thread, and the functions of the device that both call        *)
(* (elcore/arm/mcom.le.v7/mcom_dsp.c), on top of the job lists of JobList. *)
(*                                                                         *)
(* jobs_mutex covers one list operation at a time and nothing else, and    *)
(* the two threads run on different processors: every list operation, and  *)
(* every access to a register or to a field that the other thread uses, is *)
(* a step.  `disp' and `irq' hold the program counters and the locals of   *)
(* the threads.  STATUS and RESULTS change nothing the driver keeps and    *)
(* have no action; a request that fails in its lookup is no step.          *)
(***************************************************************************)
EXTENDS JobList

CONSTANTS
    Clients,        \* threads that send requests
    Channels,       \* SDMA channels
    MaxChains,      \* DSP_MAX_CHAINS, SDMA chains of one job
    Requests,       \* the requests the clients make use of
    Causes          \* why cores stop: "STP", the program ended, or "ERR"

ASSUME CoresAreNumbers == Cores \subseteq Nat
ASSUME ClientsAssumption == NULL \notin Clients
ASSUME MaxChainsAssumption == MaxChains \in Nat
ASSUME CausesAssumption == Causes \subseteq {"STP", "ERR"}

Results == {"SUCCESS", "ERROR", "CANCELLED"}

VARIABLES
    chains,         \* channels of the job's sdma_chains
    rcvid,          \* client that waits for the job, or NULL
    rc,             \* result of the job
    part,           \* mem_part: part of the core's memory, 0 for none
    partBusy,       \* busy bits of mem_config
    jobId,          \* core[].job_id: the job that was started last
    busy,           \* channels whose busy flag is set
    maskr,          \* MASKR: the enabled <<core, cause>> interrupts
    run,            \* DSCR.RUN of each core
    cause,          \* why the core stopped, "none" when it did not
    exec,           \* job whose code PC points to, NULL after a reset
    known,          \* jobs whose creation succeeded: the clients have their ids
    waiting,        \* clients blocked in WAIT
    disp,           \* dispatch thread
    irq,            \* interrupt thread
    crashed         \* the process read through a null pointer

jobVars == <<chains, rcvid, rc, part, known>>
coreVars == <<run, cause, exec>>
elcoreVars == <<jobVars, coreVars, partBusy, jobId, busy, maskr, waiting>>
vars == <<listVars, elcoreVars, disp, irq, crashed>>

Parts(c) == 1 .. JobsMax[c]

DispIdle == [pc |-> "idle", op |-> "none", client |-> NULL, job |-> NULL,
             cur |-> NULL, mask |-> {}, dscr |-> "none"]
IrqIdle == [pc |-> "wait", qstr |-> {}, left |-> {}, job |-> NULL, mask |-> {}]

\* elcore_func_init with mem_parts and core_jobs_max set to JobsMax, and the
\* start of both threads.
Init ==
    /\ JobInit
    /\ chains = [j \in Jobs |-> {}]
    /\ rcvid = [j \in Jobs |-> NULL]
    /\ rc = [j \in Jobs |-> "SUCCESS"]
    /\ part = [j \in Jobs |-> 0]
    /\ partBusy = [c \in Cores |-> {}]
    /\ jobId = [c \in Cores |-> 0]
    /\ busy = {}
    /\ maskr = {}
    /\ run = [c \in Cores |-> FALSE]
    /\ cause = [c \in Cores |-> "none"]
    /\ exec = [c \in Cores |-> NULL]
    /\ known = {}
    /\ waiting = {}
    /\ disp = DispIdle
    /\ irq = IrqIdle
    /\ crashed = FALSE

-----------------------------------------------------------------------------
(* Steps both threads take. *)

\* elcore_reset_core: PC and DSCR are cleared, and with DSCR the bits that say
\* that the core runs or why it stopped.
ResetCore(c) ==
    /\ run' = [run EXCEPT ![c] = FALSE]
    /\ cause' = [cause EXCEPT ![c] = "none"]
    /\ exec' = [exec EXCEPT ![c] = NULL]

\* A call of job_remove_from_queue: the job is removed, or the process dies in
\* the walk, or the call returns EINVAL for a job that is idle or not queued.
CallRemove(j) ==
    \/ JobRemoveFromQueue(j) /\ UNCHANGED crashed
    \/ WalksNull(j) /\ crashed' = TRUE /\ UNCHANGED listVars
    \/ /\ status[j] = "IDLE" \/ (queue # NULL /\ ~ InQueue(j))
       /\ UNCHANGED <<listVars, crashed>>

-----------------------------------------------------------------------------
(* The dispatch thread: requests. *)

\* The dispatch thread takes request op of client c.  A blocked client sends
\* nothing.
Accept(c, op) ==
    /\ disp.pc = "idle"
    /\ op \in Requests
    /\ c \notin waiting

DispTo(pc) == disp' = [disp EXCEPT !.pc = pc]
DispDone == disp' = DispIdle

\* DCMD_ELCORE_JOB_CREATE takes a place on the core first ...
Create(c, j, k) ==
    /\ Accept(c, "CREATE")
    /\ AllocJob(j, k)
    /\ disp' = [DispIdle EXCEPT !.pc = "load", !.job = j]
    /\ UNCHANGED <<elcoreVars, irq, crashed>>

\* ... then loads program and inputs into the first free part, each over the
\* first vacant channel.  The mutant does not look at the busy bits.
FreePartUnchecked(c, p) == p \in Parts(c) /\ \A q \in Parts(c) : p <= q
FreePart(c, p) ==
    /\ p \in Parts(c) \ partBusy[c]
    /\ \A q \in Parts(c) \ partBusy[c] : p <= q

Load ==
    LET j == disp.job IN
    /\ disp.pc = "load"
    /\ busy # Channels
    /\ \E p \in Parts(coreOf[j]) :
          /\ FreePart(coreOf[j], p)
          /\ part' = [part EXCEPT ![j] = p]
          /\ partBusy' = [partBusy EXCEPT ![coreOf[j]] = @ \cup {p}]
    /\ known' = known \cup {j}
    /\ DispDone
    /\ UNCHANGED <<listVars, chains, rcvid, rc, coreVars, jobId, busy, maskr,
                   waiting, irq, crashed>>

\* set_prog or set_data fails: the program or the data are too big, no part or
\* channel is free, or a transfer times out.  The job stays allocated and the
\* client never learns its id.  Between the two the job has its part already,
\* but the part is not busy yet: the next job will get it too.
LoadFails ==
    LET j == disp.job IN
    /\ disp.pc = "load"
    /\ \/ UNCHANGED part
       \/ /\ busy # Channels
          /\ \E p \in Parts(coreOf[j]) :
                FreePart(coreOf[j], p) /\ part' = [part EXCEPT ![j] = p]
    /\ DispDone
    /\ UNCHANGED <<listVars, chains, rcvid, rc, known, coreVars, partBusy, jobId,
                   busy, maskr, waiting, irq, crashed>>

\* DCMD_ELCORE_SET_SDMACHAIN
SetSdmaChain(c, j, ch) ==
    /\ Accept(c, "SETCHAIN")
    /\ j \in known
    /\ InStorage(j)
    /\ Cardinality(chains[j]) < MaxChains
    /\ ch \notin chains[j]
    /\ chains' = [chains EXCEPT ![j] = @ \cup {ch}]
    /\ UNCHANGED <<listVars, rcvid, rc, part, known, coreVars, partBusy, jobId,
                   busy, maskr, waiting, disp, irq, crashed>>

\* DCMD_ELCORE_JOB_ENQUEUE: submit the job, then start the job's core.
Enqueue(c, j) ==
    /\ Accept(c, "ENQUEUE")
    /\ j \in known
    /\ JobEnqueue(j)
    /\ disp' = [DispIdle EXCEPT !.pc = "pick", !.op = "ENQUEUE", !.job = j]
    /\ UNCHANGED <<elcoreVars, irq, crashed>>

\* DCMD_ELCORE_JOB_WAIT: the client blocks if the job is running, and is
\* answered the job's result if it is not.
Wait(c, j) ==
    /\ Accept(c, "WAIT")
    /\ j \in known
    /\ InQueue(j) \/ InStorage(j)
    /\ disp' = [DispIdle EXCEPT
                  !.pc = IF status[j] = "RUNNING" THEN "park" ELSE "answer",
                  !.op = "WAIT", !.client = c, !.job = j]
    /\ UNCHANGED <<listVars, elcoreVars, irq, crashed>>

Park ==
    /\ disp.pc = "park"
    /\ rcvid' = [rcvid EXCEPT ![disp.job] = disp.client]
    /\ waiting' = waiting \cup {disp.client}
    /\ DispDone
    /\ UNCHANGED <<listVars, chains, rc, part, known, coreVars, partBusy, jobId,
                   busy, maskr, irq, crashed>>

Answer ==
    /\ disp.pc = "answer"
    /\ DispDone
    /\ UNCHANGED <<listVars, elcoreVars, irq, crashed>>

\* DCMD_ELCORE_JOB_CANCEL: reset the core of a running job, take the job off the
\* queue, start the core if the job is still running, store the result.
Cancel(c, j) ==
    /\ Accept(c, "CANCEL")
    /\ j \in known
    /\ InQueue(j)
    /\ disp' = [DispIdle EXCEPT !.pc = "kill", !.op = "CANCEL", !.job = j]
    /\ UNCHANGED <<listVars, elcoreVars, irq, crashed>>

Kill ==
    /\ disp.pc = "kill"
    /\ IF status[disp.job] = "RUNNING" THEN ResetCore(coreOf[disp.job])
                                       ELSE UNCHANGED coreVars
    /\ DispTo("dequeue")
    /\ UNCHANGED <<listVars, jobVars, partBusy, jobId, busy, maskr, waiting, irq,
                   crashed>>

Dequeue ==
    /\ disp.pc = "dequeue"
    /\ CallRemove(disp.job)
    /\ DispTo(IF status'[disp.job] = "RUNNING" THEN "pick" ELSE "cancelled")
    /\ UNCHANGED <<elcoreVars, irq>>

Cancelled ==
    /\ disp.pc = "cancelled"
    /\ StoreStatus(disp.job, "IDLE")
    /\ rc' = [rc EXCEPT ![disp.job] = "CANCELLED"]
    /\ DispDone
    /\ UNCHANGED <<chains, rcvid, part, known, coreVars, partBusy, jobId, busy,
                   maskr, waiting, irq, crashed>>

\* Mutant of Release: the job is not looked up in the queue.
ReleaseUnlooked(c, j) ==
    /\ Accept(c, "RELEASE")
    /\ j \in known
    /\ InStorage(j)
    /\ disp' = [DispIdle EXCEPT !.pc = "freemem", !.op = "RELEASE", !.job = j]
    /\ UNCHANGED <<listVars, elcoreVars, irq, crashed>>

\* DCMD_ELCORE_JOB_RELEASE: the job is in the storage and not in the queue; its
\* memory is given back first, the job last.
Release(c, j) ==
    /\ Accept(c, "RELEASE")
    /\ j \in known
    /\ ~ InQueue(j)
    /\ InStorage(j)
    /\ disp' = [DispIdle EXCEPT !.pc = "freemem", !.op = "RELEASE", !.job = j]
    /\ UNCHANGED <<listVars, elcoreVars, irq, crashed>>

FreeMem ==
    LET j == disp.job IN
    /\ disp.pc = "freemem"
    /\ partBusy' = [partBusy EXCEPT ![coreOf[j]] = @ \ {part[j]}]
    /\ part' = [part EXCEPT ![j] = 0]
    /\ chains' = [chains EXCEPT ![j] = {}]
    /\ DispTo("free")
    /\ UNCHANGED <<listVars, rcvid, rc, known, coreVars, jobId, busy, maskr,
                   waiting, irq, crashed>>

\* Mutant of Free: the block is freed and stays on its list.
FreeListed ==
    /\ disp.pc = "free"
    /\ live' = live \ {disp.job}
    /\ DispDone
    /\ UNCHANGED <<storage, queue, next, status, coreOf, idGen, cnt, elcoreVars,
                   irq, crashed>>

Free ==
    LET j == disp.job IN
    /\ disp.pc = "free"
    /\ \/ ReleaseJob(j)
       \/ ~ Releasable(j) /\ UNCHANGED listVars
    /\ DispDone
    /\ UNCHANGED <<elcoreVars, irq, crashed>>

-----------------------------------------------------------------------------
(* The dispatch thread: elcore_start_core on the core of disp.job.          *)
(* Its test for a job that already runs looks at the status of a job that   *)
(* get_job_first_enqueued chose for being ENQUEUED, and is never true.      *)

Started == IF disp.op = "CANCEL" THEN DispTo("cancelled") ELSE DispDone

Pick ==
    /\ disp.pc = "pick"
    /\ \/ \E k \in Jobs :
            /\ FirstEnqueued(coreOf[disp.job], k)
            /\ disp' = [disp EXCEPT !.pc = "setup", !.cur = k]
       \/ /\ \A k \in Jobs : ~ FirstEnqueued(coreOf[disp.job], k)
          /\ Started
    /\ UNCHANGED <<listVars, elcoreVars, irq, crashed>>

\* elcore_setup_sdma fails if another job has one of the channels, and takes
\* them all otherwise.  PC then points to the job's code.
Setup ==
    LET j == disp.cur IN
    /\ disp.pc = "setup"
    /\ \/ /\ chains[j] \cap busy # {}
          /\ Started
          /\ UNCHANGED <<busy, exec>>
       \/ /\ chains[j] \cap busy = {}
          /\ busy' = busy \cup chains[j]
          /\ exec' = [exec EXCEPT ![coreOf[j]] = j]
          /\ DispTo("maskread")
    /\ UNCHANGED <<listVars, jobVars, run, cause, partBusy, jobId, maskr, waiting,
                   irq, crashed>>

\* MASKR is read and written back with the core's bits.
MaskRead ==
    /\ disp.pc = "maskread"
    /\ disp' = [disp EXCEPT !.pc = "maskwrite", !.mask = maskr]
    /\ UNCHANGED <<listVars, elcoreVars, irq, crashed>>

MaskWrite ==
    /\ disp.pc = "maskwrite"
    /\ maskr' = disp.mask \cup ({coreOf[disp.cur]} \X Causes)
    /\ disp' = [disp EXCEPT !.pc = "mark", !.mask = {}]
    /\ UNCHANGED <<listVars, jobVars, coreVars, partBusy, jobId, busy, waiting, irq,
                   crashed>>

Mark ==
    /\ disp.pc = "mark"
    /\ StoreStatus(disp.cur, "RUNNING")
    /\ jobId' = [jobId EXCEPT ![coreOf[disp.cur]] = disp.cur]
    /\ DispTo("runread")
    /\ UNCHANGED <<jobVars, coreVars, partBusy, busy, maskr, waiting, irq, crashed>>

\* DSCR is read and written back with RUN set: what the core or the other thread
\* did to the register in between is undone.  The transfers start with the core.
RunRead ==
    /\ disp.pc = "runread"
    /\ disp' = [disp EXCEPT !.pc = "runwrite", !.dscr = cause[coreOf[disp.cur]]]
    /\ UNCHANGED <<listVars, elcoreVars, irq, crashed>>

RunWrite ==
    /\ disp.pc = "runwrite"
    /\ run' = [run EXCEPT ![coreOf[disp.cur]] = TRUE]
    /\ cause' = [cause EXCEPT ![coreOf[disp.cur]] = disp.dscr]
    /\ Started
    /\ UNCHANGED <<listVars, jobVars, exec, partBusy, jobId, busy, maskr,
                   waiting, irq, crashed>>

-----------------------------------------------------------------------------
(* The cores. *)

\* The program on core c ends or runs into an exception.
CoreStops(c) ==
    /\ run[c]
    /\ run' = [run EXCEPT ![c] = FALSE]
    /\ \E w \in Causes : cause' = [cause EXCEPT ![c] = w]
    /\ UNCHANGED <<listVars, jobVars, exec, partBusy, jobId, busy, maskr, waiting,
                   disp, irq, crashed>>

\* QSTR: the interrupts that are pending, and their cores.  The mutants take the
\* bits of a core that runs for an interrupt, and any interrupt for all cores'.
PendingAll == {<<c, cause[c]>> : c \in Cores}
Pending == {<<c, cause[c]>> : c \in {d \in Cores : cause[d] # "none"}}
PendingAnyCore == IF Pending = {} THEN {} ELSE Cores
PendingCores == {x[1] : x \in Pending}

-----------------------------------------------------------------------------
(* elcore_interrupt_thread *)

IrqTo(pc) == irq' = [irq EXCEPT !.pc = pc]
IrqDone == irq' = IrqIdle

\* InterruptWait returns: an enabled interrupt is pending.
IrqWake ==
    /\ irq.pc = "wait"
    /\ Pending \cap maskr # {}
    /\ IrqTo("qstr")
    /\ UNCHANGED <<listVars, elcoreVars, disp, crashed>>

\* QSTR is read once; it names the cores of this round.
IrqQstr ==
    /\ irq.pc = "qstr"
    /\ \/ Pending = {} /\ IrqDone
       \/ /\ Pending # {}
          /\ irq' = [irq EXCEPT !.pc = "maskread", !.qstr = Pending,
                                !.left = PendingCores]
    /\ UNCHANGED <<listVars, elcoreVars, disp, crashed>>

\* MASKR is read and written back without the interrupts that were seen.  The
\* mutant disables all.
IrqMaskRead ==
    /\ irq.pc = "maskread"
    /\ irq' = [irq EXCEPT !.pc = "maskwrite", !.mask = maskr]
    /\ UNCHANGED <<listVars, elcoreVars, disp, crashed>>

IrqMaskClear ==
    /\ irq.pc = "maskwrite"
    /\ maskr' = {}
    /\ irq' = [irq EXCEPT !.pc = "find", !.mask = {}, !.qstr = {}]
    /\ UNCHANGED <<listVars, jobVars, coreVars, partBusy, jobId, busy, waiting,
                   disp, crashed>>

IrqMaskWrite ==
    /\ irq.pc = "maskwrite"
    /\ maskr' = irq.mask \ irq.qstr
    /\ irq' = [irq EXCEPT !.pc = "find", !.mask = {}, !.qstr = {}]
    /\ UNCHANGED <<listVars, jobVars, coreVars, partBusy, jobId, busy, waiting,
                   disp, crashed>>

\* The core of this turn of the loop: the lowest of those left.
IrqCore(c) == c \in irq.left /\ \A d \in irq.left : c <= d

\* The job is looked up by the id kept for the core.  When it is not found the
\* round ends, for the cores that are left as well.
IrqFind ==
    /\ irq.pc = "find"
    /\ \E c \in Cores :
          /\ IrqCore(c)
          /\ \/ /\ InQueue(jobId[c])
                /\ irq' = [irq EXCEPT !.pc = "result", !.job = jobId[c]]
             \/ ~ InQueue(jobId[c]) /\ IrqDone
    /\ UNCHANGED <<listVars, elcoreVars, disp, crashed>>

\* DSCR tells whether the program failed.
IrqResult ==
    /\ irq.pc = "result"
    /\ \E c \in Cores :
          /\ IrqCore(c)
          /\ rc' = [rc EXCEPT ![irq.job] =
                       IF cause[c] = "ERR" THEN "ERROR" ELSE "SUCCESS"]
    /\ IrqTo("remove")
    /\ UNCHANGED <<listVars, chains, rcvid, part, known, coreVars, partBusy, jobId,
                   busy, maskr, waiting, disp, crashed>>

IrqRemove ==
    /\ irq.pc = "remove"
    /\ CallRemove(irq.job)
    /\ IrqTo("sdma")
    /\ UNCHANGED <<elcoreVars, disp>>

\* What the thread reads through its pointer to the job: once the job is freed,
\* any value.
SeenChains(j) == IF j \in live THEN {chains[j]} ELSE SUBSET Channels
SeenRcvid(j) == IF j \in live THEN {rcvid[j]} ELSE Clients \cup {NULL}

\* elcore_release_sdma
IrqSdma ==
    /\ irq.pc = "sdma"
    /\ \E chs \in SeenChains(irq.job) : busy' = busy \ chs
    /\ IrqTo("reset")
    /\ UNCHANGED <<listVars, jobVars, coreVars, partBusy, jobId, maskr, waiting,
                   disp, crashed>>

IrqReset ==
    /\ irq.pc = "reset"
    /\ \E c \in Cores : IrqCore(c) /\ ResetCore(c)
    /\ IrqTo("reply")
    /\ UNCHANGED <<listVars, jobVars, partBusy, jobId, busy, maskr, waiting, disp,
                   crashed>>

\* MsgReply to the client the job names, which may have been answered before;
\* the job keeps the name.  After the last core InterruptUnmask ends the round.
IrqReply ==
    /\ irq.pc = "reply"
    /\ \E cl \in SeenRcvid(irq.job) : waiting' = waiting \ {cl}
    /\ \E c \in Cores :
          /\ IrqCore(c)
          /\ IF irq.left = {c} THEN IrqDone
             ELSE irq' = [irq EXCEPT !.pc = "find", !.job = NULL,
                                     !.left = @ \ {c}]
    /\ UNCHANGED <<listVars, jobVars, coreVars, partBusy, jobId, busy, maskr, disp,
                   crashed>>

-----------------------------------------------------------------------------
ClientRequest ==
    \E c \in Clients, j \in Jobs :
        \/ \E k \in Cores : Create(c, j, k)
        \/ \E ch \in Channels : SetSdmaChain(c, j, ch)
        \/ Enqueue(c, j)
        \/ Wait(c, j)
        \/ Cancel(c, j)
        \/ Release(c, j)

Dispatch ==
    \/ Load \/ LoadFails
    \/ Pick \/ Setup \/ MaskRead \/ MaskWrite \/ Mark \/ RunRead \/ RunWrite
    \/ Park \/ Answer
    \/ Kill \/ Dequeue \/ Cancelled
    \/ FreeMem \/ Free

Interrupt ==
    \/ IrqWake \/ IrqQstr \/ IrqMaskRead \/ IrqMaskWrite
    \/ IrqFind \/ IrqResult \/ IrqRemove \/ IrqSdma \/ IrqReset \/ IrqReply

Next ==
    /\ ~ crashed
    /\ \/ ClientRequest
       \/ Dispatch
       \/ Interrupt
       \/ \E c \in Cores : CoreStops(c)

Spec == Init /\ [][Next]_vars

\* Both threads are scheduled, and every program ends: the programs a client
\* loads are expected to stop, and nothing in the driver stops them.
Fairness ==
    /\ WF_vars(~ crashed /\ Dispatch)
    /\ WF_vars(~ crashed /\ Interrupt)
    /\ \A c \in Cores : WF_vars(~ crashed /\ CoreStops(c))

FairSpec == Spec /\ Fairness

-----------------------------------------------------------------------------
DispStates ==
    [pc : {"idle", "load", "pick", "setup", "maskread", "maskwrite", "mark",
           "runread", "runwrite", "park", "answer", "kill", "dequeue", "cancelled", "freemem", "free"},
     op : {"none", "ENQUEUE", "WAIT", "CANCEL", "RELEASE"},
     client : Clients \cup {NULL},
     job : Jobs \cup {NULL},
     cur : Jobs \cup {NULL},
     mask : SUBSET (Cores \X Causes),
     dscr : Causes \cup {"none"}]

IrqStates ==
    [pc : {"wait", "qstr", "maskread", "maskwrite", "find", "result", "remove",
           "sdma", "reset", "reply"},
     qstr : SUBSET (Cores \X Causes),
     left : SUBSET Cores,
     job : Jobs \cup {NULL},
     mask : SUBSET (Cores \X Causes)]

\* Every variable keeps its type.
TypeOK ==
    /\ JobTypeOK
    /\ chains \in [Jobs -> SUBSET Channels]
    /\ rcvid \in [Jobs -> Clients \cup {NULL}]
    /\ rc \in [Jobs -> Results]
    /\ part \in [Jobs -> Nat]
    /\ partBusy \in [Cores -> SUBSET Nat]
    /\ known \subseteq Jobs
    /\ jobId \in [Cores -> Jobs]
    /\ busy \subseteq Channels
    /\ maskr \subseteq Cores \X Causes
    /\ run \in [Cores -> BOOLEAN]
    /\ cause \in [Cores -> Causes \cup {"none"}]
    /\ exec \in [Cores -> Jobs \cup {NULL}]
    /\ waiting \subseteq Clients
    /\ crashed \in BOOLEAN
    /\ disp \in DispStates
    /\ irq \in IrqStates

\* The memory parts the driver handed out: two jobs of a core whose creation
\* succeeded never share one, and a job's part stays marked busy until the job
\* gives it back.  Neither cancels, completions nor a creation that failed half
\* way may return the part of another job.
PartsExclusive ==
    \A j \in known :
        part[j] # 0 =>
            /\ part[j] \in partBusy[coreOf[j]]
            /\ \A k \in known \ {j} :
                  coreOf[k] = coreOf[j] => part[k] # part[j]

\* alloc_job's limit and the busy bits agree: a job that was let in finds a free
\* part, so set_prog's search for one never fails.
AdmittedFindsPart ==
    disp.pc = "load" =>
        \E p \in Parts(coreOf[disp.job]) : FreePart(coreOf[disp.job], p)

\* The release request decides on two lookups and acts later; the interrupt
\* thread may rewire both lists in between, and still the job it frees is not in
\* the queue.
FreedIsUnqueued == disp.pc \in {"freemem", "free"} => ~ InQueue(disp.job)

\* The driver uses the lists as JobList says, so what holds of JobList holds in
\* the driver: whatever the two threads do between two list operations, none
\* changes a list through a job that was freed, and none frees a job of the queue.
\* The interrupt thread may call job_remove_from_queue with a freed job
\* (mcom_dsp.c:1065); it finds it idle, as its last user left it, and nothing
\* changes.
UsesJobList == JobSpec

\* A job that the interrupt thread was not in the middle of anything to see
\* started: its core runs it, all interrupts of the core are enabled, and the
\* driver knows which job the core runs.
StartedCleanly(j) ==
    LET c == coreOf[j] IN
    /\ status[j] = "RUNNING"
    /\ jobId[c] = j
    /\ exec[c] = j
    /\ run[c]
    /\ {c} \X Causes \subseteq maskr
    /\ irq.pc = "wait"

\* Such a job is finished, whatever the dispatch thread and the other core do
\* meanwhile: no completion of another core hides its own, and no lookup misses
\* it.
JobCompletes == \A j \in Jobs : StartedCleanly(j) ~> status[j] = "IDLE"

-----------------------------------------------------------------------------
\* A job of the driver as the abstract service sees it.
Service == INSTANCE DspService WITH
    phase <- [j \in Jobs |-> IF j \in live THEN status[j] ELSE "none"],
    core <- coreOf,
    stopped <- {c \in Cores : cause[c] # "none"}

\* The driver, one job to a core and no cancelled jobs, gives the service: a core
\* has one running job at a time, and a job is finished only when its core reports
\* a stop, whatever job the core ran before and however the two threads interleave.
\* The report may be an old one: a start that the interrupt thread's reset falls
\* into writes the bits it has read back (RunRead, RunWrite), and its job is then
\* finished while the core runs it.
ServiceSpec == Service!ServiceSpec

-----------------------------------------------------------------------------
(* What comments and tests of the driver say, and the driver does not do.   *)

\* DCMD_ELCORE_JOB_WAIT: "wait for complete, get result".  A client that waits
\* is answered in the end.
WaitEnds == \A cl \in Clients : cl \in waiting ~> cl \notin waiting
=============================================================================
