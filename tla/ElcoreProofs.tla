----------------------------- MODULE ElcoreProofs -----------------------------
(***************************************************************************)
(* The driver's invariants for every number of jobs, clients and channels, *)
(* every set of cores and every division of their memory.                  *)
(*                                                                         *)
(* The driver takes a step of JobList or leaves the lists alone, if the    *)
(* jobs its threads point to are allocated and the job a release request   *)
(* frees is not in the queue.  Those facts in turn need what JobListProofs *)
(* shows of the lists, so all are one inductive invariant.                 *)
(***************************************************************************)
EXTENDS Elcore, JobListProofs

\* The jobs, and the client, that the threads hold.  Only the dispatch thread
\* frees, so the jobs it holds are allocated; the interrupt thread's may be freed.
PointersOK ==
    /\ disp.pc # "idle" => disp.job \in live
    /\ disp.pc \in {"setup", "maskread", "maskwrite", "mark", "runread", "runwrite"} =>
           disp.cur \in live
    /\ disp.pc = "park" => disp.client \in Clients
    /\ irq.pc \in {"result", "remove", "sdma", "reset", "reply"} => irq.job \in Jobs

\* Only allocated jobs have a part; a job has none before its program is loaded
\* and once its memory is given back; a release request names a created job, and
\* a job that is being created has an id no client knows.
PartsOfLive ==
    /\ \A j \in Jobs : part[j] # 0 => j \in live
    /\ disp.pc \in {"load", "free"} => part[disp.job] = 0
    /\ disp.pc = "load" => disp.job \notin known
    /\ disp.pc = "freemem" => disp.job \in known
    /\ known \subseteq 0 .. idGen - 1

ElcoreInv ==
    JobInv /\ TypeOK /\ PointersOK /\ FreedIsUnqueued /\ PartsOfLive /\ PartsExclusive

\* job_remove_from_queue brings no job into the queue, not even through the
\* predecessor it puts on both lists.
LEMMA RemoveKeepsOut ==
    ASSUME JobTypeOK, NEW j \in Jobs, JobRemoveFromQueue(j)
    PROVE  Reach(next', queue') \subseteq Reach(next, queue)
<1> DEFINE Q == Reach(next, queue)
<1>0. /\ next \in [Jobs -> Jobs \cup {NULL}]
      /\ Q \in SUBSET Jobs
      /\ queue \in Q \cup {NULL}
      /\ \A k \in Q : next[k] \in Q \cup {NULL}
  <2>1. Q \in SUBSET Jobs /\ next \in [Jobs -> Jobs \cup {NULL}]
    BY DEF Reach, JobTypeOK
  <2>2. queue \in Q \cup {NULL}
    BY ReachHead DEF JobTypeOK
  <2>3. ASSUME NEW k \in Q PROVE next[k] \in Q \cup {NULL}
    BY <2>1, ReachClosed
  <2>4. QED
    BY <2>1, <2>2, <2>3
<1>1. SUFFICES queue' \in Q \cup {NULL} /\ \A k \in Q : next'[k] \in Q \cup {NULL}
  BY <1>0, ReachLeast
<1>2. CASE queue = j
  <2>1. j \in Q /\ queue' = next[j] /\ next' = Appended(next, storage, j)
    BY <1>0, <1>2, NULLAssumption DEF JobRemoveFromQueue, PutToStorage
  <2> HIDE DEF Q
  <2>2. QED
    BY <1>0, <2>1, AppendedClosed
<1>3. CASE queue # j
  <2>1. PICK p \in Q : /\ next[p] = j
                       /\ queue' = queue
                       /\ next' = Appended(Unlinked(next, queue, j), storage, p)
    BY <1>3 DEF JobRemoveFromQueue, PutToStorage
  <2> DEFINE ux == Unlinked(next, queue, j)
  <2> HIDE DEF Q
  <2>2. j \in Q /\ p \in Jobs
    BY <1>0, <2>1, NULLAssumption
  <2>3. ux \in [Jobs -> Jobs \cup {NULL}] /\ \A k \in Q : ux[k] \in Q \cup {NULL}
    BY <1>0, <2>2, UnlinkedType, UnlinkedClosed
  <2>4. next' = Appended(ux, storage, p)
    BY <2>1
  <2> HIDE DEF ux
  <2>5. QED
    BY <1>0, <2>1, <2>2, <2>3, <2>4, AppendedClosed
<1>4. QED
  BY <1>2, <1>3

\* A job found on a list is allocated.
LEMMA FoundIsLive ==
    ASSUME NoDangling, NEW j, InQueue(j) \/ InStorage(j)
    PROVE  j \in live
BY DEF NoDangling, InQueue, InStorage

-----------------------------------------------------------------------------
(* The driver takes steps of JobList. *)

\* CallRemove removes the job as job_remove_from_queue does, or leaves the lists.
LEMMA CallRemoveStep ==
    ASSUME JobInv, NEW j \in Jobs, CallRemove(j)
    PROVE  [JobNext]_listVars
<1>1. JobRemoveFromQueue(j) => j \in live
  BY DEF JobRemoveFromQueue, JobInv, FreedAreIdle
<1>2. QED
  BY <1>1 DEF CallRemove, JobNext

\* Only the create and enqueue requests touch the lists in their first step.
LEMMA RequestListStep ==
    ASSUME ElcoreInv, ClientRequest
    PROVE  [JobNext]_listVars
<1>1. PICK c \in Clients, j \in Jobs :
        \/ \E k \in Cores : Create(c, j, k)
        \/ \E ch \in Channels : SetSdmaChain(c, j, ch)
        \/ Enqueue(c, j)
        \/ Wait(c, j)
        \/ Cancel(c, j)
        \/ Release(c, j)
  BY DEF ClientRequest
<1>2. CASE \E k \in Cores : Create(c, j, k)
  BY <1>2 DEF Create, JobNext
<1>3. CASE Enqueue(c, j)
  BY <1>3 DEF Enqueue, JobNext
<1>4. CASE \/ \E ch \in Channels : SetSdmaChain(c, j, ch)
           \/ Wait(c, j) \/ Cancel(c, j) \/ Release(c, j)
  BY <1>4 DEF SetSdmaChain, Wait, Cancel, Release
<1>5. QED
  BY <1>1, <1>2, <1>3, <1>4

\* The dispatch thread writes the status of allocated jobs and frees a job that
\* is not in the queue.
LEMMA DispatchListStep ==
    ASSUME ElcoreInv, Dispatch
    PROVE  [JobNext]_listVars
<1>0. PointersOK /\ FreedIsUnqueued /\ live \subseteq Jobs
  BY MaxJobsAssumption DEF ElcoreInv, TypeOK, JobTypeOK, Jobs
<1>1. CASE Mark
  BY <1>0, <1>1 DEF Mark, PointersOK, JobNext
<1>2. CASE Dequeue
  BY <1>0, <1>2, CallRemoveStep DEF Dequeue, PointersOK, ElcoreInv
<1>3. CASE Cancelled
  BY <1>0, <1>3 DEF Cancelled, PointersOK, JobNext
<1>4. CASE Free
  <2>1. disp.job \in Jobs /\ ~ InQueue(disp.job)
    BY <1>0, <1>4 DEF Free, PointersOK, FreedIsUnqueued
  <2>2. QED
    BY <1>4, <2>1 DEF Free, JobNext, ReleaseUnqueued
<1>5. CASE Load \/ LoadFails \/ Pick \/ Setup \/ MaskRead \/ MaskWrite
         \/ RunRead \/ RunWrite
  BY <1>5 DEF Load, LoadFails, Pick, Setup, MaskRead, MaskWrite, RunRead, RunWrite
<1>6. CASE Park \/ Answer \/ Kill \/ FreeMem
  BY <1>6 DEF Park, Answer, Kill, FreeMem
<1>7. QED
  BY <1>1, <1>2, <1>3, <1>4, <1>5, <1>6 DEF Dispatch

\* The interrupt thread touches the lists in job_remove_from_queue only.
LEMMA InterruptListStep ==
    ASSUME ElcoreInv, Interrupt
    PROVE  [JobNext]_listVars
<1>1. CASE IrqRemove
  BY <1>1, CallRemoveStep DEF IrqRemove, ElcoreInv, PointersOK
<1>2. CASE IrqWake \/ IrqQstr \/ IrqMaskRead \/ IrqMaskWrite \/ IrqFind
  BY <1>2 DEF IrqWake, IrqQstr, IrqMaskRead, IrqMaskWrite, IrqFind
<1>3. CASE IrqResult \/ IrqSdma \/ IrqReset \/ IrqReply
  BY <1>3 DEF IrqResult, IrqSdma, IrqReset, IrqReply
<1>4. QED
  BY <1>1, <1>2, <1>3 DEF Interrupt

\* Every step of the driver is a step of JobList or leaves the lists alone.
LEMMA ListStep ==
    ASSUME ElcoreInv, [Next]_vars
    PROVE  [JobNext]_listVars
<1>1. CASE \E c \in Cores : CoreStops(c)
  BY <1>1 DEF CoreStops
<1>2. CASE UNCHANGED vars
  BY <1>2 DEF vars
<1>3. QED
  BY <1>1, <1>2, RequestListStep, DispatchListStep, InterruptListStep DEF Next

-----------------------------------------------------------------------------
(* Types. *)

\* JobInv is kept because the driver uses the lists as JobList says.
LEMMA JobInvKept ==
    ASSUME ElcoreInv, [Next]_vars
    PROVE  JobInv'
BY ListStep, JobInvStep DEF ElcoreInv

\* QSTR names interrupts of the cores.
LEMMA PendingType == ASSUME TypeOK PROVE Pending \in SUBSET (Cores \X Causes)
BY DEF TypeOK, Pending

\* The first step of a request keeps the types.
LEMMA RequestTypeStep ==
    ASSUME TypeOK, JobTypeOK', ClientRequest
    PROVE  TypeOK'
<1>1. PICK c \in Clients, j \in Jobs :
        \/ \E k \in Cores : Create(c, j, k)
        \/ \E ch \in Channels : SetSdmaChain(c, j, ch)
        \/ Enqueue(c, j)
        \/ Wait(c, j)
        \/ Cancel(c, j)
        \/ Release(c, j)
  BY DEF ClientRequest
<1> USE DEF TypeOK, elcoreVars, jobVars, coreVars
<1>2. ASSUME NEW k \in Cores, Create(c, j, k) PROVE TypeOK'
  BY <1>2 DEF Create, DispIdle, DispStates
<1>3. ASSUME NEW ch \in Channels, SetSdmaChain(c, j, ch) PROVE TypeOK'
  BY <1>3 DEF SetSdmaChain
<1>4. CASE Enqueue(c, j)
  BY <1>4 DEF Enqueue, DispIdle, DispStates
<1>5. CASE Wait(c, j)
  BY <1>5 DEF Wait, DispIdle, DispStates
<1>6. CASE Cancel(c, j)
  BY <1>6 DEF Cancel, DispIdle, DispStates
<1>7. CASE Release(c, j)
  BY <1>7 DEF Release, DispIdle, DispStates
<1>8. QED
  BY <1>1, <1>2, <1>3, <1>4, <1>5, <1>6, <1>7

\* The further steps of the dispatch thread keep the types.
LEMMA DispatchTypeStep ==
    ASSUME ElcoreInv, TypeOK, JobTypeOK', Dispatch
    PROVE  TypeOK'
<1>0. /\ disp.pc # "idle" => disp.job \in Jobs
      /\ disp.pc \in {"setup", "maskread", "maskwrite", "mark", "runread", "runwrite"} => disp.cur \in Jobs
      /\ disp.pc = "park" => disp.client \in Clients
      /\ coreOf \in [Jobs -> Cores]
      /\ JobsMax \in [Cores -> Nat]
  BY LiveAreJobs, JobsMaxAssumption DEF ElcoreInv, PointersOK, TypeOK, JobTypeOK
<1> USE DEF TypeOK, elcoreVars, jobVars, coreVars
<1>a. DispDone => disp' \in DispStates
  BY DEF DispDone, DispIdle, DispStates
<1>b. Started => disp' \in DispStates
  BY <1>a DEF Started, DispTo, DispStates
<1>1. CASE Load
  BY <1>0, <1>1, <1>a DEF Load, Parts
<1>2. CASE LoadFails
  BY <1>0, <1>2, <1>a DEF LoadFails, Parts
<1>3. CASE Pick
  BY <1>3, <1>b DEF Pick, DispStates
<1>4. CASE Setup
  BY <1>0, <1>4, <1>b DEF Setup, DispTo, DispStates
<1>5. CASE MaskRead
  BY <1>5 DEF MaskRead, DispStates
<1>6. CASE MaskWrite
  <2>1. disp.mask \in SUBSET (Cores \X Causes) /\ coreOf[disp.cur] \in Cores
    BY <1>0, <1>6 DEF MaskWrite, DispStates
  <2>2. maskr' \subseteq Cores \X Causes
    BY <1>6, <2>1 DEF MaskWrite
  <2>3. QED
    BY <1>6, <2>2 DEF MaskWrite, DispStates
<1>7. CASE Mark
  BY <1>0, <1>7 DEF Mark, DispTo, DispStates
<1>8. CASE RunRead \/ RunWrite
  <2>1. CASE RunRead
    BY <1>0, <2>1 DEF RunRead, DispStates
  <2>2. CASE RunWrite
    BY <1>0, <1>b, <2>2 DEF RunWrite, DispStates
  <2>3. QED
    BY <1>8, <2>1, <2>2
<1>9. CASE Park
  <2>1. disp.client \in Clients
    BY <1>0, <1>9 DEF Park
  <2>2. QED
    BY <1>9, <1>a, <2>1 DEF Park
<1>10. CASE Answer
  BY <1>10, <1>a DEF Answer
<1>11. CASE Kill
  BY <1>11 DEF Kill, DispTo, DispStates, ResetCore
<1>12. CASE Dequeue
  BY <1>12 DEF Dequeue, CallRemove, DispTo, DispStates
<1>13. CASE Cancelled
  BY <1>13, <1>a DEF Cancelled, Results
<1>14. CASE FreeMem
  BY <1>14 DEF FreeMem, DispTo, DispStates
<1>15. CASE Free
  BY <1>15, <1>a DEF Free
<1>16. QED
  BY <1>1, <1>2, <1>3, <1>4, <1>5, <1>6, <1>7, <1>8, <1>9, <1>10, <1>11,
     <1>12, <1>13, <1>14, <1>15 DEF Dispatch

\* The steps of the interrupt thread keep the types.
LEMMA InterruptTypeStep ==
    ASSUME TypeOK, JobTypeOK', Interrupt
    PROVE  TypeOK'
<1> USE DEF TypeOK, elcoreVars, jobVars, coreVars
<1>a. IrqDone => irq' \in IrqStates
  BY DEF IrqDone, IrqIdle, IrqStates
<1>0. Pending \in SUBSET (Cores \X Causes)
  BY PendingType
<1>1. CASE IrqWake
  BY <1>1 DEF IrqWake, IrqTo, IrqStates
<1>2. CASE IrqQstr
  <2>1. PendingCores \in SUBSET Cores
    BY <1>0 DEF PendingCores
  <2>2. irq' \in IrqStates
    BY <1>0, <1>2, <1>a, <2>1 DEF IrqQstr, IrqStates
  <2>3. QED
    BY <1>2, <2>2 DEF IrqQstr
<1>3. CASE IrqMaskRead
  BY <1>3 DEF IrqMaskRead, IrqStates
<1>4. CASE IrqMaskWrite
  BY <1>4 DEF IrqMaskWrite, IrqStates
<1>5. CASE IrqFind
  BY <1>5, <1>a DEF IrqFind, IrqStates
<1>6. CASE IrqResult
  BY <1>6 DEF IrqResult, IrqTo, IrqStates, Results
<1>7. CASE IrqRemove
  BY <1>7 DEF IrqRemove, CallRemove, IrqTo, IrqStates
<1>8. CASE IrqSdma
  BY <1>8 DEF IrqSdma, IrqTo, IrqStates, SeenChains
<1>9. CASE IrqReset
  BY <1>9 DEF IrqReset, ResetCore, IrqTo, IrqStates
<1>10. CASE IrqReply
  <2>1. PICK c \in Cores : IF irq.left = {c} THEN IrqDone
             ELSE irq' = [irq EXCEPT !.pc = "find", !.job = NULL, !.left = @ \ {c}]
    BY <1>10 DEF IrqReply
  <2>2. irq.left \ {c} \in SUBSET Cores
    BY DEF IrqStates
  <2>3. [irq EXCEPT !.pc = "find", !.job = NULL, !.left = irq.left \ {c}] \in IrqStates
    BY <2>2 DEF IrqStates
  <2>4. irq' \in IrqStates
    BY <1>a, <2>1, <2>3
  <2>5. QED
    BY <1>10, <2>4 DEF IrqReply
<1>11. QED
  BY <1>1, <1>2, <1>3, <1>4, <1>5, <1>6, <1>7, <1>8, <1>9, <1>10 DEF Interrupt

\* Every step keeps the types.
LEMMA TypeStep ==
    ASSUME ElcoreInv, [Next]_vars
    PROVE  TypeOK'
<1>1. TypeOK /\ JobTypeOK'
  BY JobInvKept DEF ElcoreInv, JobInv
<1>2. CASE \E c \in Cores : CoreStops(c)
  BY <1>1, <1>2 DEF CoreStops, TypeOK, jobVars
<1>3. CASE UNCHANGED vars
  BY <1>1, <1>3 DEF vars, elcoreVars, jobVars, coreVars, TypeOK
<1>4. QED
  BY <1>1, <1>2, <1>3, RequestTypeStep, DispatchTypeStep, InterruptTypeStep DEF Next

-----------------------------------------------------------------------------
(* The jobs the threads hold. *)

\* Blocks are freed by the release request only.
LEMMA LiveKept ==
    ASSUME NEW j, CallRemove(j)
    PROVE  live' = live
BY DEF CallRemove, JobRemoveFromQueue, listVars

\* A request finds its job on a list, or allocates it.
LEMMA RequestPointersStep ==
    ASSUME ElcoreInv, ClientRequest
    PROVE  PointersOK'
<1>1. PICK c \in Clients, j \in Jobs :
        \/ \E k \in Cores : Create(c, j, k)
        \/ \E ch \in Channels : SetSdmaChain(c, j, ch)
        \/ Enqueue(c, j)
        \/ Wait(c, j)
        \/ Cancel(c, j)
        \/ Release(c, j)
  BY DEF ClientRequest
<1>0. PointersOK /\ NoDangling
  BY DEF ElcoreInv, JobInv
<1> USE DEF PointersOK, DispIdle
<1>2. ASSUME NEW k \in Cores, Create(c, j, k) PROVE PointersOK'
  BY <1>0, <1>2 DEF Create, AllocJob
<1>3. ASSUME NEW ch \in Channels, SetSdmaChain(c, j, ch) PROVE PointersOK'
  BY <1>0, <1>3 DEF SetSdmaChain, listVars
<1>4. CASE Enqueue(c, j)
  <2>1. j \in live
    BY <1>0, <1>4, FoundIsLive DEF Enqueue, JobEnqueue
  <2>2. QED
    BY <1>0, <1>4, <2>1 DEF Enqueue, JobEnqueue
<1>5. CASE Wait(c, j)
  <2>1. j \in live
    BY <1>0, <1>5, FoundIsLive DEF Wait
  <2>2. QED
    BY <1>0, <1>5, <2>1 DEF Wait, listVars
<1>6. CASE Cancel(c, j)
  <2>1. j \in live
    BY <1>0, <1>6, FoundIsLive DEF Cancel
  <2>2. QED
    BY <1>0, <1>6, <2>1 DEF Cancel, listVars
<1>7. CASE Release(c, j)
  <2>1. j \in live
    BY <1>0, <1>7, FoundIsLive DEF Release
  <2>2. QED
    BY <1>0, <1>7, <2>1 DEF Release, listVars
<1>8. QED
  BY <1>1, <1>2, <1>3, <1>4, <1>5, <1>6, <1>7

\* The dispatch thread's program counter and locals have their types.
LEMMA TypeOKDisp == ASSUME ElcoreInv PROVE disp \in DispStates
BY DEF ElcoreInv, TypeOK

\* The dispatch thread keeps its job, takes the job to start from the queue, and
\* forgets both when the request is done.
LEMMA DispatchPointersStep ==
    ASSUME ElcoreInv, Dispatch
    PROVE  PointersOK'
<1>0. PointersOK /\ NoDangling
  BY DEF ElcoreInv, JobInv
<1>d. disp \in DispStates
  BY TypeOKDisp
<1>a. ASSUME DispDone, UNCHANGED irq PROVE PointersOK'
  BY <1>0, <1>a DEF DispDone, DispIdle, PointersOK
<1>b. ASSUME Started, UNCHANGED <<live, irq>>, disp.pc # "idle" PROVE PointersOK'
  <2>1. CASE disp.op = "CANCEL"
    BY <1>0, <1>b, <1>d, <2>1 DEF Started, DispTo, PointersOK, DispStates
  <2>2. CASE disp.op # "CANCEL"
    BY <1>a, <1>b, <2>2 DEF Started
  <2>3. QED
    BY <2>1, <2>2
<1>1. CASE Load \/ LoadFails \/ Park \/ Answer \/ Cancelled \/ Free
  BY <1>a, <1>1 DEF Load, LoadFails, Park, Answer, Cancelled, Free
<1>2. CASE Pick
  <2>1. CASE Started
    BY <1>b, <1>2, <2>1 DEF Pick, listVars
  <2>2. CASE \E k \in Jobs : /\ FirstEnqueued(coreOf[disp.job], k)
                             /\ disp' = [disp EXCEPT !.pc = "setup", !.cur = k]
    <3>1. PICK k \in Jobs : /\ FirstEnqueued(coreOf[disp.job], k)
                            /\ disp' = [disp EXCEPT !.pc = "setup", !.cur = k]
      BY <2>2
    <3>2. k \in live
      BY <1>0, <3>1, FoundIsLive DEF FirstEnqueued
    <3>3. QED
      BY <1>0, <1>2, <1>d, <3>1, <3>2 DEF Pick, PointersOK, listVars, DispStates
  <2>3. QED
    BY <1>2, <2>1, <2>2 DEF Pick
<1>3. CASE Setup
  <2>1. CASE Started
    BY <1>b, <1>3, <2>1 DEF Setup, listVars
  <2>2. CASE DispTo("maskread")
    BY <1>0, <1>3, <1>d, <2>2 DEF Setup, DispTo, PointersOK, listVars, DispStates
  <2>3. QED
    BY <1>3, <2>1, <2>2 DEF Setup
<1>4. CASE MaskRead
  BY <1>0, <1>4, <1>d DEF MaskRead, PointersOK, listVars, DispStates
<1>5. CASE MaskWrite
  BY <1>0, <1>5, <1>d DEF MaskWrite, PointersOK, listVars, DispStates
<1>6. CASE Mark
  BY <1>0, <1>6, <1>d DEF Mark, StoreStatus, DispTo, PointersOK, DispStates
<1>7. CASE RunRead \/ RunWrite
  <2>1. CASE RunRead
    BY <1>0, <1>d, <2>1 DEF RunRead, PointersOK, listVars, DispStates
  <2>2. CASE RunWrite
    BY <1>b, <2>2 DEF RunWrite, listVars
  <2>3. QED
    BY <1>7, <2>1, <2>2
<1>8. CASE Kill
  BY <1>0, <1>8, <1>d DEF Kill, DispTo, PointersOK, listVars, DispStates
<1>9. CASE Dequeue
  <2>1. live' = live
    BY <1>9, LiveKept DEF Dequeue
  <2>2. QED
    BY <1>0, <1>9, <1>d, <2>1 DEF Dequeue, DispTo, PointersOK, DispStates
<1>10. CASE FreeMem
  BY <1>0, <1>10, <1>d DEF FreeMem, DispTo, PointersOK, listVars, DispStates
<1>11. QED
  BY <1>1, <1>2, <1>3, <1>4, <1>5, <1>6, <1>7, <1>8, <1>9, <1>10 DEF Dispatch

\* The interrupt thread takes its job from core[].job_id and frees none.
LEMMA InterruptPointersStep ==
    ASSUME ElcoreInv, Interrupt
    PROVE  PointersOK'
<1>0. PointersOK /\ irq \in IrqStates /\ jobId \in [Cores -> Jobs]
  BY DEF ElcoreInv, TypeOK
<1>a. live' = live /\ disp' = disp
  BY LiveKept DEF Interrupt, IrqWake, IrqQstr, IrqMaskRead, IrqMaskWrite, IrqFind,
     IrqResult, IrqRemove, IrqSdma, IrqReset, IrqReply, listVars
<1> SUFFICES irq'.pc \in {"result", "remove", "sdma", "reset", "reply"}
             => irq'.job \in Jobs
  BY <1>0, <1>a DEF PointersOK
<1>b. IrqDone => irq'.pc = "wait"
  BY DEF IrqDone, IrqIdle
<1> USE DEF PointersOK, IrqStates
<1>1. CASE IrqWake \/ IrqMaskRead \/ IrqMaskWrite
  BY <1>0, <1>1 DEF IrqWake, IrqMaskRead, IrqMaskWrite, IrqTo
<1>2. CASE IrqQstr
  BY <1>0, <1>b, <1>2 DEF IrqQstr
<1>3. CASE IrqFind
  BY <1>0, <1>b, <1>3 DEF IrqFind
<1>4. CASE IrqResult \/ IrqRemove \/ IrqSdma \/ IrqReset
  BY <1>0, <1>4 DEF IrqResult, IrqRemove, IrqSdma, IrqReset, IrqTo
<1>5. CASE IrqReply
  BY <1>0, <1>b, <1>5 DEF IrqReply
<1>6. QED
  BY <1>1, <1>2, <1>3, <1>4, <1>5 DEF Interrupt

\* Every step keeps the pointers.
LEMMA PointersStep ==
    ASSUME ElcoreInv, [Next]_vars
    PROVE  PointersOK'
<1>0. PointersOK
  BY DEF ElcoreInv
<1>1. CASE \E c \in Cores : CoreStops(c)
  BY <1>0, <1>1 DEF CoreStops, PointersOK, listVars
<1>2. CASE UNCHANGED vars
  BY <1>0, <1>2 DEF vars, PointersOK, listVars
<1>3. QED
  BY <1>1, <1>2, RequestPointersStep, DispatchPointersStep, InterruptPointersStep
     DEF Next

-----------------------------------------------------------------------------
(* The release request. *)

\* The job of a release request is not in the queue when it is looked up, and no
\* step of the interrupt thread brings it there.
LEMMA FreedStep ==
    ASSUME ElcoreInv, [Next]_vars
    PROVE  FreedIsUnqueued'
<1>0. FreedIsUnqueued /\ JobTypeOK
  BY DEF ElcoreInv, TypeOK
<1>a. ASSUME UNCHANGED listVars, UNCHANGED disp PROVE FreedIsUnqueued'
  BY <1>0, <1>a DEF FreedIsUnqueued, InQueue, Reach, listVars
<1>b. ASSUME disp'.pc \notin {"freemem", "free"} PROVE FreedIsUnqueued'
  BY <1>b DEF FreedIsUnqueued
<1>d. DispDone => disp'.pc = "idle"
  BY DEF DispDone, DispIdle
<1>e. disp \in DispStates
  BY TypeOKDisp
<1>1. CASE ClientRequest
  <2>1. PICK c \in Clients, j \in Jobs :
          \/ \E k \in Cores : Create(c, j, k)
          \/ \E ch \in Channels : SetSdmaChain(c, j, ch)
          \/ Enqueue(c, j)
          \/ Wait(c, j)
          \/ Cancel(c, j)
          \/ Release(c, j)
    BY <1>1 DEF ClientRequest
  <2>2. CASE \/ \E k \in Cores : Create(c, j, k)
             \/ Enqueue(c, j) \/ Wait(c, j) \/ Cancel(c, j)
    BY <1>b, <2>2 DEF Create, Enqueue, Wait, Cancel, DispIdle
  <2>3. CASE \E ch \in Channels : SetSdmaChain(c, j, ch)
    BY <1>a, <2>3 DEF SetSdmaChain
  <2>4. CASE Release(c, j)
    BY <2>4 DEF Release, FreedIsUnqueued, DispIdle, InQueue, Reach, listVars
  <2>5. QED
    BY <2>1, <2>2, <2>3, <2>4
<1>2. CASE Dispatch
  <2>1. CASE FreeMem
    BY <1>0, <1>e, <2>1
       DEF FreeMem, FreedIsUnqueued, DispTo, DispStates, InQueue, Reach, listVars
  <2>2. CASE Load \/ LoadFails \/ Park \/ Answer \/ Cancelled \/ Free
    BY <1>b, <1>d, <2>2 DEF Load, LoadFails, Park, Answer, Cancelled, Free
  <2>3. CASE Pick \/ Setup \/ RunWrite
    BY <1>b, <1>d, <1>e, <2>3 DEF Pick, Setup, RunWrite, Started, DispTo, DispStates
  <2>4. CASE MaskRead \/ MaskWrite \/ Mark \/ Kill \/ Dequeue
    BY <1>b, <1>e, <2>4 DEF MaskRead, MaskWrite, Mark, Kill, Dequeue, DispTo, DispStates
  <2>5. CASE RunRead
    <3>1. disp'.pc = "runwrite"
      BY <1>e, <2>5 DEF RunRead, DispStates
    <3>2. QED
      BY <3>1 DEF FreedIsUnqueued
  <2>6. QED
    BY <1>2, <2>1, <2>2, <2>3, <2>4, <2>5 DEF Dispatch
<1>3. CASE IrqRemove
  <2>1. CASE UNCHANGED listVars
    BY <1>3, <1>a, <2>1 DEF IrqRemove
  <2>2. CASE JobRemoveFromQueue(irq.job)
    <3>1. irq.job \in Jobs /\ disp' = disp
      BY <1>3 DEF IrqRemove, ElcoreInv, PointersOK
    <3>2. Reach(next', queue') \subseteq Reach(next, queue)
      BY <1>0, <2>2, <3>1, RemoveKeepsOut
    <3>3. InQueue(disp.job)' <=> disp.job \in Reach(next', queue')
      BY <3>1 DEF InQueue, Reach
    <3>4. QED
      BY <1>0, <3>1, <3>2, <3>3 DEF FreedIsUnqueued, InQueue
  <2>3. QED
    BY <1>3, <2>1, <2>2 DEF IrqRemove, CallRemove
<1>4. CASE Interrupt /\ ~ IrqRemove
  BY <1>4, <1>a DEF Interrupt, IrqWake, IrqQstr, IrqMaskRead, IrqMaskWrite, IrqFind,
     IrqResult, IrqSdma, IrqReset, IrqReply
<1>5. CASE \E c \in Cores : CoreStops(c)
  BY <1>5, <1>a DEF CoreStops
<1>6. CASE UNCHANGED vars
  BY <1>6, <1>a DEF vars
<1>7. QED
  BY <1>1, <1>2, <1>3, <1>4, <1>5, <1>6 DEF Next

-----------------------------------------------------------------------------
(* The memory of the cores. *)

\* Steps that leave the parts alone and free no job keep what is said of them.
LEMMA PartsKept ==
    ASSUME PartsOfLive, PartsExclusive,
           UNCHANGED <<part, partBusy, coreOf, known, idGen>>, live \subseteq live',
           disp'.pc \in {"load", "freemem", "free"} => disp' = disp
    PROVE  PartsOfLive' /\ PartsExclusive'
BY DEF PartsOfLive, PartsExclusive

\* Every step keeps parts and jobs apart.
LEMMA PartsStep ==
    ASSUME ElcoreInv, [Next]_vars
    PROVE  PartsOfLive' /\ PartsExclusive'
<1>0. /\ PartsOfLive /\ PartsExclusive
      /\ part \in [Jobs -> Nat]
      /\ partBusy \in [Cores -> SUBSET Nat]
      /\ coreOf \in [Jobs -> Cores]
      /\ disp \in DispStates
      /\ known \subseteq Jobs
      /\ live \subseteq 0 .. idGen - 1
      /\ idGen \in 0 .. MaxJobs
      /\ disp.pc # "idle" => disp.job \in Jobs
  BY LiveAreJobs DEF ElcoreInv, TypeOK, JobTypeOK, PointersOK
<1>a. ASSUME UNCHANGED <<listVars, disp, part, partBusy, known>>
      PROVE  PartsOfLive' /\ PartsExclusive'
  BY <1>0, <1>a, PartsKept DEF listVars
<1>d. DispDone => disp'.pc = "idle"
  BY DEF DispDone, DispIdle
<1>1. CASE ClientRequest
  <2>1. PICK c \in Clients, j \in Jobs :
          \/ \E k \in Cores : Create(c, j, k)
          \/ \E ch \in Channels : SetSdmaChain(c, j, ch)
          \/ Enqueue(c, j)
          \/ Wait(c, j)
          \/ Cancel(c, j)
          \/ Release(c, j)
    BY <1>1 DEF ClientRequest
  <2>2. ASSUME NEW k \in Cores, Create(c, j, k)
        PROVE  PartsOfLive' /\ PartsExclusive'
    <3>1. /\ UNCHANGED <<part, partBusy, known>>
          /\ j = idGen /\ idGen' = idGen + 1
          /\ live' = live \cup {j}
          /\ coreOf' = [coreOf EXCEPT ![j] = k]
          /\ disp'.job = j /\ disp'.pc = "load"
      BY <2>2 DEF Create, AllocJob, elcoreVars, jobVars, DispIdle
    <3>2. j \notin live /\ j \notin known /\ known \subseteq 0 .. idGen' - 1
      BY <1>0, <3>1, MaxJobsAssumption DEF PartsOfLive
    <3>3. part[j] = 0
      BY <1>0, <3>2 DEF PartsOfLive
    <3>4. PartsOfLive'
      BY <1>0, <3>1, <3>2, <3>3 DEF PartsOfLive
    <3>5. PartsExclusive'
      BY <1>0, <3>1, <3>3 DEF PartsExclusive
    <3>6. QED
      BY <3>4, <3>5
  <2>3. CASE Enqueue(c, j)
    BY <1>0, <2>3, PartsKept
       DEF Enqueue, JobEnqueue, elcoreVars, jobVars, DispIdle
  <2>4. CASE \E ch \in Channels : SetSdmaChain(c, j, ch)
    BY <1>a, <2>4 DEF SetSdmaChain
  <2>5. CASE Wait(c, j) \/ Cancel(c, j)
    BY <1>0, <2>5, PartsKept
       DEF Wait, Cancel, elcoreVars, jobVars, listVars, DispIdle
  <2>6. CASE Release(c, j)
    BY <1>0, <2>6 DEF Release, elcoreVars, jobVars, listVars, DispIdle, PartsOfLive,
       PartsExclusive
  <2>7. QED
    BY <2>1, <2>2, <2>3, <2>4, <2>5, <2>6
<1>2. CASE Load
  <2> DEFINE j == disp.job
  <2>1. PICK p \in Parts(coreOf[j]) :
           /\ FreePart(coreOf[j], p)
           /\ part' = [part EXCEPT ![j] = p]
           /\ partBusy' = [partBusy EXCEPT ![coreOf[j]] = @ \cup {p}]
    BY <1>2 DEF Load
  <2>2. /\ j \in live /\ j \in Jobs /\ coreOf[j] \in Cores
        /\ UNCHANGED listVars
        /\ disp'.pc = "idle"
        /\ known' = known \cup {j}
    BY <1>0, <1>2, <1>d DEF Load, ElcoreInv, PointersOK
  <2>3. p \notin partBusy[coreOf[j]] /\ p # 0
    BY <2>1, <2>2, JobsMaxAssumption DEF FreePart, Parts
  <2> HIDE DEF j
  <2>4. PartsOfLive'
    BY <1>0, <2>1, <2>2 DEF PartsOfLive, listVars
  <2>5. PartsExclusive'
    <3> SUFFICES ASSUME NEW k \in known', part'[k] # 0
                 PROVE  /\ part'[k] \in partBusy'[coreOf[k]]
                        /\ \A m \in known' \ {k} :
                              coreOf[m] = coreOf[k] => part'[m] # part'[k]
      BY <2>2 DEF PartsExclusive, listVars
    <3>1. CASE k = j
      BY <1>0, <2>1, <2>2, <2>3, <3>1 DEF PartsExclusive
    <3>2. CASE k # j
      BY <1>0, <2>1, <2>2, <2>3, <3>2 DEF PartsExclusive
    <3>3. QED
      BY <3>1, <3>2
  <2>6. QED
    BY <2>4, <2>5
<1>3. CASE FreeMem
  <2> DEFINE j == disp.job
  <2>1. /\ part' = [part EXCEPT ![j] = 0]
        /\ partBusy' = [partBusy EXCEPT ![coreOf[j]] = @ \ {part[j]}]
        /\ j \in Jobs /\ coreOf[j] \in Cores
        /\ UNCHANGED <<listVars, known>>
        /\ disp'.job = j /\ disp'.pc = "free" /\ j \in known
    BY <1>0, <1>3 DEF FreeMem, DispTo, DispStates, PartsOfLive
  <2> HIDE DEF j
  <2>2. PartsOfLive'
    BY <1>0, <2>1 DEF PartsOfLive, listVars
  <2>3. PartsExclusive'
    BY <1>0, <2>1 DEF PartsExclusive, listVars
  <2>4. QED
    BY <2>2, <2>3
<1>4. CASE Free
  <2>1. /\ part[disp.job] = 0
        /\ live \ {disp.job} \subseteq live'
        /\ UNCHANGED <<part, partBusy, coreOf, known, idGen>>
        /\ disp'.pc = "idle"
    BY <1>0, <1>4, <1>d
       DEF Free, ReleaseJob, PartsOfLive, listVars, elcoreVars, jobVars
  <2>2. QED
    BY <1>0, <2>1 DEF PartsOfLive, PartsExclusive
<1>5. CASE Park \/ Answer \/ Cancelled
  BY <1>0, <1>5, <1>d, PartsKept
     DEF Park, Answer, Cancelled, StoreStatus, listVars, elcoreVars, jobVars
<1>6. CASE Pick \/ Setup \/ RunWrite
  BY <1>0, <1>6, <1>d, PartsKept
     DEF Pick, Setup, RunWrite, Started, DispTo, DispStates, listVars, elcoreVars, jobVars
<1>7. CASE MaskRead \/ MaskWrite \/ Mark \/ RunRead \/ Kill
  BY <1>0, <1>7, PartsKept DEF MaskRead, MaskWrite, Mark, RunRead, Kill, StoreStatus, DispTo,
     DispStates, listVars, elcoreVars, jobVars
<1>8. CASE Dequeue
  <2>1. /\ UNCHANGED <<coreOf, live, part, partBusy, known, idGen>>
        /\ disp'.pc \in {"pick", "cancelled"}
    BY <1>0, <1>8 DEF Dequeue, CallRemove, JobRemoveFromQueue, DispTo, DispStates,
       listVars, elcoreVars, jobVars
  <2>2. QED
    BY <1>0, <2>1, PartsKept
<1>9. CASE IrqRemove
  <2>1. UNCHANGED <<coreOf, live, part, partBusy, known, idGen, disp>>
    BY <1>9 DEF IrqRemove, CallRemove, JobRemoveFromQueue, listVars, elcoreVars, jobVars
  <2>2. QED
    BY <1>0, <2>1, PartsKept
<1>10. CASE Interrupt /\ ~ IrqRemove
  BY <1>10, <1>a DEF Interrupt, IrqWake, IrqQstr, IrqMaskRead, IrqMaskWrite, IrqFind,
     IrqResult, IrqSdma, IrqReset, IrqReply, elcoreVars, jobVars
<1>11. CASE \E c \in Cores : CoreStops(c)
  BY <1>11, <1>a DEF CoreStops, jobVars
<1>12. CASE UNCHANGED vars
  BY <1>12, <1>a DEF vars, elcoreVars, jobVars
\* The part that a failed creation leaves with its job is not marked busy.
<1>13. CASE LoadFails
  <2> DEFINE j == disp.job
  <2>1. /\ UNCHANGED <<listVars, partBusy, known>>
        /\ disp'.pc = "idle"
        /\ j \in live /\ j \in Jobs
    BY <1>0, <1>13, <1>d DEF LoadFails, ElcoreInv, PointersOK
  <2>2. j \notin known \/ part' = part
    BY <1>13 DEF LoadFails, ElcoreInv, PartsOfLive
  <2>3. \A k \in Jobs \ {j} : part'[k] = part[k]
    BY <1>0, <1>13 DEF LoadFails
  <2> HIDE DEF j
  <2>4. PartsOfLive'
    BY <1>0, <2>1, <2>3 DEF PartsOfLive, listVars
  <2>5. PartsExclusive'
    BY <1>0, <2>1, <2>2, <2>3 DEF PartsExclusive, listVars
  <2>6. QED
    BY <2>4, <2>5
<1>14. QED
  BY <1>1, <1>2, <1>3, <1>4, <1>5, <1>6, <1>7, <1>8, <1>9, <1>10, <1>11, <1>12,
     <1>13 DEF Next, Dispatch

-----------------------------------------------------------------------------
(* The results. *)

\* The driver starts in the invariant.
LEMMA InitInv == Init => ElcoreInv
<1> SUFFICES ASSUME Init PROVE ElcoreInv
  OBVIOUS
<1>1. JobInv
  BY JobInitInv DEF Init
<1>2. TypeOK
  <2>1. 0 \in Jobs
    BY MaxJobsAssumption DEF Jobs
  <2>2. JobTypeOK
    BY <1>1 DEF JobInv
  <2>3. disp \in DispStates /\ irq \in IrqStates
    BY DEF Init, DispIdle, IrqIdle, DispStates, IrqStates
  <2>4. QED
    BY <2>1, <2>2, <2>3 DEF Init, TypeOK, Results
<1>3. PointersOK
  BY DEF Init, PointersOK, DispIdle, IrqIdle
<1>4. FreedIsUnqueued
  BY DEF Init, FreedIsUnqueued, DispIdle
<1>5. PartsOfLive /\ PartsExclusive
  BY DEF Init, PartsOfLive, PartsExclusive, DispIdle
<1>6. QED
  BY <1>1, <1>2, <1>3, <1>4, <1>5 DEF ElcoreInv

\* The invariant is inductive and holds in every reachable state of the driver.
THEOREM ElcoreInvariant == Spec => []ElcoreInv
<1>1. ElcoreInv /\ [Next]_vars => ElcoreInv'
  BY JobInvKept, TypeStep, PointersStep, FreedStep, PartsStep DEF ElcoreInv
<1>2. QED
  BY InitInv, <1>1, PTL DEF Spec

\* Every variable of the driver keeps its type.
THEOREM TypeCorrect == Spec => []TypeOK
<1>1. ElcoreInv => TypeOK
  BY DEF ElcoreInv
<1>2. QED
  BY <1>1, ElcoreInvariant, PTL

\* The driver uses the lists as JobList says: it implements JobSpec, and every
\* theorem about JobSpec holds of the driver.
THEOREM DriverUsesJobList == Spec => UsesJobList
<1>1. Init => JobInit
  BY DEF Init
<1>2. ElcoreInv /\ [Next]_vars => [JobNext]_listVars
  BY ListStep
<1>3. QED
  BY <1>1, <1>2, ElcoreInvariant, PTL DEF Spec, JobSpec, UsesJobList

\* A release request never frees a job that is in the queue, although it decides
\* two list operations earlier and the interrupt thread runs in between.
THEOREM ReleaseIsSafe == Spec => []FreedIsUnqueued
<1>1. ElcoreInv => FreedIsUnqueued
  BY DEF ElcoreInv
<1>2. QED
  BY <1>1, ElcoreInvariant, PTL

\* Two jobs of a core never share a part of its memory, and no part is marked
\* free while a job has it.
THEOREM MemoryIsExclusive == Spec => []PartsExclusive
<1>1. ElcoreInv => PartsExclusive
  BY DEF ElcoreInv
<1>2. QED
  BY <1>1, ElcoreInvariant, PTL

-------------------------------------------------------------------------------
(***************************************************************************)
(* What holds of the driver when no client cancels a job: it reads through *)
(* no null pointer, and with one job to each of two cores, the driver's    *)
(* default, it gives its clients the service of DspService.                *)
(***************************************************************************)

\* No client cancels.
NoCancels == "CANCEL" \notin Requests

\* The driver as it is built: two cores (DLCR30M_MAX_CORES), each with one part
\* of memory and one job.
DefaultCores ==
    /\ \E a, b : Cores = {a, b}
    /\ \A c \in Cores : JobsMax[c] = 1

-----------------------------------------------------------------------------
(* The invariants. *)

\* No step of a cancel request is under way.
Uncancelled == disp.pc \notin {"kill", "dequeue", "cancelled"} /\ disp.op # "CANCEL"

\* The interrupt thread has found its job in the queue and is the only one that
\* takes jobs off it.
NullInv ==
    /\ Uncancelled
    /\ irq.pc \in {"result", "remove"} => queue # NULL
    /\ ~ crashed

\* The interrupt thread has taken the job of core c off the queue and not yet
\* reset the core.  What the core does then is not heard of.
Clearing(c) == irq.pc \in {"sdma", "reset"} /\ IrqCore(c)

\* Core c runs, or has stopped and is still to be looked at.
Active(c) == (run[c] \/ cause[c] # "none") /\ ~ Clearing(c)

\* An active core works for the job that core[].job_id names.
ActiveCores ==
    \A c \in Cores : Active(c) =>
        jobId[c] \in live /\ coreOf[jobId[c]] = c /\ status[jobId[c]] = "RUNNING"

\* The job that the dispatch thread is about to start; its core is not active.  A
\* start that read no cause does not wipe one out.
Starting ==
    disp.pc \in {"setup", "maskread", "maskwrite", "mark", "runread", "runwrite"} =>
        /\ ~ Active(coreOf[disp.cur])
        /\ disp.pc \notin {"runread", "runwrite"} => status[disp.cur] = "ENQUEUED"
        /\ disp.pc \in {"runread", "runwrite"} =>
              status[disp.cur] = "RUNNING" /\ jobId[coreOf[disp.cur]] = disp.cur
        /\ disp.pc = "runwrite" /\ disp.dscr = "none" =>
              ~ run[coreOf[disp.cur]] /\ cause[coreOf[disp.cur]] = "none"

\* The cores that are left in a round of the interrupt thread have stopped, and
\* the job it works on is the one of the first of them.
Round ==
    /\ irq.pc \notin {"wait", "qstr"} =>
          \A c \in irq.left : cause[c] # "none" \/ (irq.pc = "reply" /\ IrqCore(c))
    /\ irq.pc \in {"result", "remove", "sdma", "reset", "reply"} =>
          \E c \in Cores : IrqCore(c)
    /\ irq.pc \in {"result", "remove"} =>
          \A c \in Cores : IrqCore(c) => irq.job = jobId[c]

\* Jobs that were never allocated are idle.
Unborn == \A j \in Jobs : j >= idGen => status[j] = "IDLE"

\* Unless a wrong removal has lost a job, no job is on both lists.
Disjoint ==
    \/ Reach(next, storage) \cap Reach(next, queue) = {}
    \/ \E j \in live : j \notin Listed

ServiceInv == ActiveCores /\ Starting /\ Round /\ Unborn /\ Disjoint

-----------------------------------------------------------------------------
(* No walk starts from a null pointer. *)

\* A list with a job on it has a head.
LEMMA QueueHasHead ==
    ASSUME NEW j, InQueue(j)
    PROVE  queue # NULL
<1> DEFINE S == {}
<1>1. S \in SUBSET Jobs /\ NULL \in S \cup {NULL} /\ \A k \in S : next[k] \in S \cup {NULL}
  OBVIOUS
<1> HIDE DEF S
<1>2. Reach(next, NULL) \subseteq S
  BY <1>1, ReachLeast
<1>3. QED
  BY <1>2 DEF InQueue, S

\* Only job_remove_from_queue empties the queue, and without cancels only the
\* interrupt thread calls it.
LEMMA QueueStays ==
    ASSUME ElcoreInv, Uncancelled, [Next]_vars, ~ IrqRemove, queue # NULL
    PROVE  queue' # NULL
<1>1. CASE ClientRequest
  <2>1. PICK c \in Clients, j \in Jobs :
          \/ \E k \in Cores : Create(c, j, k)
          \/ \E ch \in Channels : SetSdmaChain(c, j, ch)
          \/ Enqueue(c, j)
          \/ Wait(c, j)
          \/ Cancel(c, j)
          \/ Release(c, j)
    BY <1>1 DEF ClientRequest
  <2>2. QED
    BY <2>1, NULLAssumption DEF Create, AllocJob, SetSdmaChain, Enqueue, JobEnqueue,
       Wait, Cancel, Release, listVars
<1>2. CASE Dispatch
  BY <1>2 DEF Dispatch, Uncancelled, Load, LoadFails, Pick, Setup, MaskRead, MaskWrite,
     Mark, RunRead, RunWrite, Park, Answer, Kill, Dequeue, Cancelled, FreeMem, Free, ReleaseJob,
     StoreStatus, listVars
<1>3. CASE Interrupt
  BY <1>3 DEF Interrupt, IrqWake, IrqQstr, IrqMaskRead, IrqMaskWrite, IrqFind,
     IrqResult, IrqSdma, IrqReset, IrqReply, listVars
<1>4. CASE (\E c \in Cores : CoreStops(c)) \/ UNCHANGED vars
  BY <1>4 DEF CoreStops, vars, listVars
<1>5. QED
  BY <1>1, <1>2, <1>3, <1>4 DEF Next

\* A driver that starts no cancel request is never in one.
LEMMA UncancelledStep ==
    ASSUME NoCancels, ElcoreInv, Uncancelled, [Next]_vars
    PROVE  Uncancelled'
<1>0. disp \in DispStates
  BY TypeOKDisp
<1>d. DispDone \/ disp' = disp => Uncancelled'
  BY DEF DispDone, DispIdle, Uncancelled
<1>s. Started => Uncancelled'
  BY <1>d DEF Started, Uncancelled
<1>1. CASE ClientRequest
  <2>1. PICK c \in Clients, j \in Jobs :
          \/ \E k \in Cores : Create(c, j, k)
          \/ \E ch \in Channels : SetSdmaChain(c, j, ch)
          \/ Enqueue(c, j)
          \/ Wait(c, j)
          \/ Cancel(c, j)
          \/ Release(c, j)
    BY <1>1 DEF ClientRequest
  <2>2. ~ Cancel(c, j)
    BY DEF Cancel, Accept, NoCancels
  <2>3. QED
    BY <2>1, <2>2, <1>d DEF Create, SetSdmaChain, Enqueue, Wait, Release, DispIdle, Uncancelled
<1>2. CASE Dispatch
  <2>1. CASE Load \/ LoadFails \/ Park \/ Answer \/ Free
    BY <2>1, <1>d DEF Load, LoadFails, Park, Answer, Free
  <2>2. CASE Pick \/ Setup
    BY <2>2, <1>0, <1>s DEF Pick, Setup, DispTo, Uncancelled, DispStates
  <2>3. CASE RunWrite
    BY <2>3, <1>s DEF RunWrite
  <2>4. CASE MaskRead \/ MaskWrite \/ Mark \/ RunRead \/ FreeMem
    BY <2>4, <1>0 DEF MaskRead, MaskWrite, Mark, RunRead, FreeMem, DispTo, Uncancelled, DispStates
  <2>5. CASE Kill \/ Dequeue \/ Cancelled
    BY <2>5 DEF Kill, Dequeue, Cancelled, Uncancelled
  <2>6. QED
    BY <1>2, <2>1, <2>2, <2>3, <2>4, <2>5 DEF Dispatch
<1>3. CASE Interrupt \/ (\E c \in Cores : CoreStops(c)) \/ UNCHANGED vars
  BY <1>3, <1>d DEF Interrupt, IrqWake, IrqQstr, IrqMaskRead, IrqMaskWrite, IrqFind,
     IrqResult, IrqRemove, IrqSdma, IrqReset, IrqReply, CoreStops, vars
<1>4. QED
  BY <1>1, <1>2, <1>3 DEF Next

\* Without cancels the queue has a job while the interrupt thread holds one of it.
LEMMA NullStep ==
    ASSUME NoCancels, ElcoreInv, NullInv, [Next]_vars
    PROVE  NullInv'
<1>0. irq \in IrqStates /\ Uncancelled /\ ~ crashed
  BY DEF ElcoreInv, TypeOK, NullInv
<1>1. Uncancelled'
  BY UncancelledStep DEF NullInv
<1>2. CASE IrqRemove
  <2>1. ~ WalksNull(irq.job)
    BY <1>2 DEF IrqRemove, WalksNull, NullInv
  <2>2. ~ crashed'
    BY <1>0, <1>2, <2>1 DEF IrqRemove, CallRemove
  <2>3. irq'.pc = "sdma"
    BY <1>0, <1>2 DEF IrqRemove, IrqTo, IrqStates
  <2>4. QED
    BY <1>1, <2>2, <2>3 DEF NullInv
<1>3. CASE ~ IrqRemove
  <2>1. ~ crashed'
    <3>1. CASE ClientRequest
      BY <1>0, <3>1, SMTT(40) DEF ClientRequest, Create, SetSdmaChain, Enqueue, Wait, Cancel, Release
    <3>2. CASE Dispatch
      BY <1>0, <3>2 DEF Dispatch, Uncancelled, Load, LoadFails, Pick, Setup, MaskRead, MaskWrite,
         Mark, RunRead, RunWrite, Park, Answer, Kill, Dequeue, Cancelled, FreeMem, Free
    <3>3. CASE Interrupt
      BY <1>0, <1>3, <3>3 DEF Interrupt, IrqWake, IrqQstr, IrqMaskRead, IrqMaskWrite,
         IrqFind, IrqResult, IrqSdma, IrqReset, IrqReply
    <3>4. CASE (\E c \in Cores : CoreStops(c)) \/ UNCHANGED vars
      BY <1>0, <3>4 DEF CoreStops, vars
    <3>5. QED
      BY <3>1, <3>2, <3>3, <3>4 DEF Next
  <2>2. queue # NULL => queue' # NULL
    BY <1>0, <1>3, QueueStays
  <2>3. irq'.pc \in {"result", "remove"} => queue # NULL
    <3>1. CASE irq' = irq
      BY <3>1 DEF NullInv
    <3>2. CASE Interrupt
      <4>1. CASE IrqFind
        BY <4>1, QueueHasHead DEF IrqFind, IrqDone, IrqIdle
      <4>2. CASE IrqResult
        BY <4>2 DEF IrqResult, NullInv
      <4>3. CASE IrqWake \/ IrqMaskRead \/ IrqMaskWrite \/ IrqSdma \/ IrqReset
        BY <1>0, <4>3 DEF IrqWake, IrqMaskRead, IrqMaskWrite, IrqSdma, IrqReset, IrqTo,
           IrqStates
      <4>4. CASE IrqQstr \/ IrqReply
        <5>1. IrqDone => irq'.pc = "wait"
          BY DEF IrqDone, IrqIdle
        <5>2. irq'.pc \in {"wait", "maskread", "find"}
          BY <1>0, <4>4, <5>1 DEF IrqQstr, IrqReply, IrqStates
        <5>3. QED
          BY <5>2
      <4>5. QED
        BY <1>3, <3>2, <4>1, <4>2, <4>3, <4>4 DEF Interrupt
    <3>3. CASE ~ Interrupt
      <4>1. irq' = irq
        BY <3>3, ZenonT(60) DEF Next, ClientRequest, Create, SetSdmaChain, Enqueue, Wait, Cancel, Release,
           Dispatch, Load, LoadFails, Pick, Setup, MaskRead, MaskWrite,
           Mark, RunRead, RunWrite, Park, Answer, Kill, Dequeue, Cancelled, FreeMem, Free, CoreStops, vars
      <4>2. QED
        BY <3>1, <4>1, SMTT(40)
    <3>4. QED
      BY <3>2, <3>3
  <2>4. QED
    BY <1>1, <2>1, <2>2, <2>3 DEF NullInv
<1>4. QED
  BY <1>2, <1>3

\* Without cancels the invariants hold in every reachable state.
THEOREM NullInvariant ==
    ASSUME NoCancels
    PROVE  Spec => [](ElcoreInv /\ NullInv)
<1>1. Init => ElcoreInv /\ NullInv
  BY InitInv DEF Init, NullInv, Uncancelled, DispIdle, IrqIdle
<1>2. ElcoreInv /\ NullInv /\ [Next]_vars => (ElcoreInv /\ NullInv)'
  BY NullStep, JobInvKept, TypeStep, PointersStep, FreedStep, PartsStep DEF ElcoreInv
<1>3. QED
  BY <1>1, <1>2, PTL DEF Spec

\* No completion makes the driver read through a null pointer, for any division
\* of the memory, when no client cancels a job.  (With cancels and three jobs on
\* a core it can: the queue runs empty between the lookup of the interrupt thread
\* and its removal.)
THEOREM CompletionsNeverCrash ==
    ASSUME NoCancels
    PROVE  Spec => [](~ crashed)
<1>1. NullInv => ~ crashed
  BY DEF NullInv
<1>2. QED
  BY <1>1, NullInvariant, PTL

-----------------------------------------------------------------------------
(* The lists of two cores with one job each. *)

\* A core has one job.
LEMMA OneJob ==
    ASSUME DefaultCores, JobInv, NEW j \in live, NEW k \in live, coreOf[j] = coreOf[k]
    PROVE  j = k
<1> DEFINE c == coreOf[j]
           L == {i \in live : coreOf[i] = c}
<1>1. c \in Cores
  BY LiveAreJobs DEF JobInv, JobTypeOK
<1>2. IsFiniteSet(L) /\ j \in L /\ k \in L
  BY LiveFinite DEF JobInv
<1>3. Cardinality(L) <= 1
  BY <1>1 DEF JobInv, CountsMatchLive, DefaultCores
<1> HIDE DEF L
<1>4. {j} \in SUBSET L /\ Cardinality({j}) = 1
  BY <1>2, FS_Singleton
<1>5. Cardinality(L) \in Nat /\ Cardinality({j}) <= Cardinality(L)
  BY <1>2, <1>4, FS_CardinalityType, FS_Subset
<1>6. Cardinality(L) = Cardinality({j})
  BY <1>3, <1>4, <1>5
<1>7. L = {j}
  BY <1>2, <1>4, <1>6, FS_Subset
<1>8. QED
  BY <1>2, <1>7

\* There are two jobs at a time.
LEMMA TwoJobs ==
    ASSUME DefaultCores, JobInv, NEW i \in live, NEW j \in live, NEW k \in live
    PROVE  i = j \/ j = k \/ i = k
<1>1. coreOf[i] \in Cores /\ coreOf[j] \in Cores /\ coreOf[k] \in Cores
  BY LiveAreJobs DEF JobInv, JobTypeOK
<1>2. coreOf[i] = coreOf[j] \/ coreOf[j] = coreOf[k] \/ coreOf[i] = coreOf[k]
  BY <1>1 DEF DefaultCores
<1>3. QED
  BY <1>2, OneJob

\* Behind the head of a list a walk does not come back to it.
LEMMA HeadLeaves ==
    ASSUME NEW nx \in [Jobs -> Jobs \cup {NULL}], Ends(nx), NEW j \in Jobs
    PROVE  j \notin Reach(nx, nx[j])
<1> SUFFICES ASSUME j \in Reach(nx, nx[j]) PROVE FALSE
  OBVIOUS
<1> DEFINE C == {k \in Jobs : j \in Reach(nx, nx[k])}
<1>1. PICK k \in C : nx[k] \notin C
  BY DEF Ends
<1> DEFINE m == nx[k]
<1>2. j \in Reach(nx, m) /\ k \in Jobs
  OBVIOUS
<1>3. m # NULL
  <2> SUFFICES ASSUME m = NULL PROVE FALSE
    OBVIOUS
  <2> DEFINE S == {}
  <2>1. S \in SUBSET Jobs /\ m \in S \cup {NULL} /\ \A i \in S : nx[i] \in S \cup {NULL}
    OBVIOUS
  <2> HIDE DEF S, m
  <2>2. Reach(nx, m) \subseteq S
    BY <2>1, ReachLeast
  <2>3. QED
    BY <1>2, <2>2 DEF S
<1>4. m \in Jobs /\ j \notin Reach(nx, nx[m])
  BY <1>1, <1>3
<1>5. j = m
  <2> DEFINE S == {m} \cup Reach(nx, nx[m])
  <2>1. S \in SUBSET Jobs /\ m \in S \cup {NULL}
    BY <1>4 DEF Reach
  <2>2. ASSUME NEW i \in S PROVE nx[i] \in S \cup {NULL}
    <3>1. CASE i = m
      BY <1>4, <3>1, ReachHead
    <3>2. CASE i # m
      BY <3>2, ReachClosed
    <3>3. QED
      BY <3>1, <3>2
  <2> HIDE DEF S, m
  <2>3. Reach(nx, m) \subseteq S
    BY <2>1, <2>2, ReachLeast
  <2>4. QED
    BY <1>2, <1>4, <2>3 DEF S
<1>6. QED
  BY <1>4, <1>5

\* A walk of a list visits jobs only, and follows the fields `next'.
LEMMA ListsClosed ==
    ASSUME JobTypeOK, NEW h \in Jobs \cup {NULL}
    PROVE  /\ Reach(next, h) \in SUBSET Jobs
           /\ h \in Reach(next, h) \cup {NULL}
           /\ \A k \in Reach(next, h) : next[k] \in Reach(next, h) \cup {NULL}
<1>1. Reach(next, h) \in SUBSET Jobs
  BY DEF Reach
<1>2. h \in Reach(next, h) \cup {NULL}
  BY ReachHead
<1>3. next \in [Jobs -> Jobs \cup {NULL}]
  BY DEF JobTypeOK
<1>4. ASSUME NEW k \in Reach(next, h) PROVE next[k] \in Reach(next, h) \cup {NULL}
  BY <1>3, ReachClosed
<1>5. QED
  BY <1>1, <1>2, <1>4

\* While no job is on both lists, or one on none, the second job of the queue is
\* removed with an empty storage: its predecessor keeps its status.
LEMMA WrongRemoval ==
    ASSUME DefaultCores, JobInv, Disjoint, NEW j \in Jobs, queue # j,
           NEW p \in Reach(next, queue), next[p] = j
    PROVE  p \in live /\ j \in live /\ p # j /\ queue = p /\ storage = NULL
<1> DEFINE Q == Reach(next, queue)
<1>0. JobTypeOK /\ Acyclic /\ NoDangling /\ queue \in Jobs \cup {NULL} /\ storage \in Jobs \cup {NULL}
  BY DEF JobInv, JobTypeOK
<1>1. Q \in SUBSET Jobs /\ queue \in Q \cup {NULL} /\ \A k \in Q : next[k] \in Q \cup {NULL}
  BY <1>0, ListsClosed
<1>2. p \in Q /\ j \in Q /\ p \in Jobs
  BY <1>1, NULLAssumption
<1>3. Q \subseteq live
  BY <1>0 DEF NoDangling
<1>4. p # j
  <2>1. PICK k \in {p} : next[k] \notin {p}
    BY <1>0, <1>2 DEF Acyclic
  <2>2. QED
    BY <2>1
<1>5. queue \in live
  <2>1. queue # NULL
    BY <1>2, QueueHasHead DEF InQueue
  <2>2. QED
    BY <1>1, <1>3, <2>1
<1>6. queue = p
  BY <1>2, <1>3, <1>4, <1>5, TwoJobs
<1>7. storage = NULL
  <2> SUFFICES ASSUME storage # NULL PROVE FALSE
    OBVIOUS
  <2>1. storage \in Reach(next, storage)
    BY <1>0, ListsClosed
  <2>2. storage \in live
    BY <1>0, <2>1 DEF NoDangling
  <2>3. storage \in Q
    BY <1>2, <1>3, <1>4, <2>2, TwoJobs
  <2>4. PICK l \in live : l \notin Listed
    BY <2>1, <2>3 DEF Disjoint
  <2>5. p \in Listed /\ j \in Listed
    BY <1>2 DEF Listed
  <2>6. QED
    BY <1>2, <1>3, <1>4, <2>4, <2>5, TwoJobs
<1>8. QED
  BY <1>2, <1>3, <1>4, <1>6, <1>7

\* Then job_remove_from_queue changes the status of its own job only.
LEMMA RemovalStatus ==
    ASSUME DefaultCores, JobInv, Disjoint, NEW j \in Jobs, JobRemoveFromQueue(j)
    PROVE  /\ j \in live
           /\ status' = [status EXCEPT ![j] = "IDLE"]
<1>0. JobTypeOK /\ NoDangling /\ queue \in Jobs \cup {NULL} /\ status \in [Jobs -> Statuses]
  BY DEF JobInv, JobTypeOK
<1>1. CASE queue = j
  <2>1. j \in Reach(next, queue)
    BY <1>0, <1>1, NULLAssumption, ListsClosed
  <2>2. QED
    BY <1>0, <1>1, <2>1 DEF JobRemoveFromQueue, PutToStorage, NoDangling
<1>2. CASE queue # j
  <2>1. PICK p \in Reach(next, queue) :
          /\ next[p] = j
          /\ PutToStorage(Unlinked(next, queue, j), [status EXCEPT ![j] = "IDLE"], p)
    BY <1>2 DEF JobRemoveFromQueue
  <2>2. storage = NULL /\ j \in live
    BY <1>2, <2>1, WrongRemoval
  <2>3. QED
    BY <2>1, <2>2 DEF PutToStorage
<1>3. QED
  BY <1>1, <1>2

\* Only an allocation brings a job onto a list that was on none.
LEMMA ListedStep ==
    ASSUME JobInv, NEW N, N \subseteq Jobs, Listed \subseteq N, 
           \/ \E j \in Jobs, c \in Cores : AllocJob(j, c) /\ j \in N
           \/ \E j \in Jobs : JobEnqueue(j)
           \/ \E j \in Jobs : JobRemoveFromQueue(j)
           \/ \E j \in Jobs : ReleaseJob(j)
    PROVE  Listed' \subseteq N
<1> DEFINE S == Listed
<1>0. /\ JobTypeOK
      /\ next \in [Jobs -> Jobs \cup {NULL}]
      /\ S \in SUBSET Jobs
      /\ storage \in S \cup {NULL}
      /\ queue \in S \cup {NULL}
      /\ \A k \in S : next[k] \in S \cup {NULL}
  BY ListedClosed DEF JobInv, JobTypeOK
<1>a. ASSUME NEW T, T \in SUBSET Jobs, T \subseteq N,
             storage' \in T \cup {NULL}, queue' \in T \cup {NULL},
             \A k \in T : next'[k] \in T \cup {NULL}
      PROVE  Listed' \subseteq N
  <2>1. Reach(next', storage') \subseteq T
    BY <1>a, ReachLeast
  <2>2. Reach(next', queue') \subseteq T
    BY <1>a, ReachLeast
  <2>3. QED
    BY <1>a, <2>1, <2>2 DEF Listed
<1>m. ASSUME NEW j \in Jobs, InStorage(j) \/ InQueue(j) PROVE j \in S
  BY <1>m DEF Listed, InStorage, InQueue
<1>n. S \subseteq N
  OBVIOUS
<1> HIDE DEF S
<1>1. ASSUME NEW j \in Jobs, NEW c \in Cores, AllocJob(j, c), j \in N PROVE Listed' \subseteq N
  <2> DEFINE T == S \cup {j}
  <2>1. \A k \in T : next'[k] \in T \cup {NULL}
    BY <1>0, <1>1 DEF AllocJob, PutToStorage, Appended
  <2>2. T \in SUBSET Jobs /\ T \subseteq N
    BY <1>0, <1>1, <1>n
  <2>3. storage' \in T \cup {NULL} /\ queue' \in T \cup {NULL}
    BY <1>0, <1>1 DEF AllocJob, PutToStorage
  <2> HIDE DEF T
  <2>4. QED
    BY <1>a, <2>1, <2>2, <2>3
<1>2. ASSUME NEW j \in Jobs, JobEnqueue(j) PROVE Listed' \subseteq N
  <2>1. j \in S
    BY <1>2, <1>m DEF JobEnqueue
  <2>2. \A k \in S : next'[k] \in S \cup {NULL}
    BY <1>0, <1>2, <2>1, UnlinkedClosed, AppendedClosed, UnlinkedType DEF JobEnqueue
  <2>3. storage' \in S \cup {NULL} /\ queue' \in S \cup {NULL}
    BY <1>0, <1>2, <2>1 DEF JobEnqueue
  <2>4. QED
    BY <1>0, <1>a, <1>n, <2>2, <2>3
<1>3. ASSUME NEW j \in Jobs, JobRemoveFromQueue(j) PROVE Listed' \subseteq N
  <2>1. CASE queue = j
    <3>1. /\ queue' = next[j]
          /\ storage' = (IF storage = NULL THEN j ELSE storage)
          /\ next' = Appended(next, storage, j)
      BY <1>3, <2>1 DEF JobRemoveFromQueue, PutToStorage
    <3>2. j \in S
      BY <1>0, <2>1, NULLAssumption
    <3>3. \A k \in S : next'[k] \in S \cup {NULL}
      BY <1>0, <3>1, <3>2, AppendedClosed
    <3>4. QED
      BY <1>0, <1>a, <1>n, <3>1, <3>2, <3>3
  <2>2. CASE queue # j
    <3>1. PICK p \in Reach(next, queue) :
             /\ next[p] = j
             /\ queue' = queue
             /\ storage' = (IF storage = NULL THEN p ELSE storage)
             /\ next' = Appended(Unlinked(next, queue, j), storage, p)
      BY <1>3, <2>2 DEF JobRemoveFromQueue, PutToStorage
    <3>2. p \in S /\ p \in Jobs /\ j \in S
      <4>1. p \in Jobs /\ InQueue(p)
        BY DEF Reach, InQueue
      <4>2. p \in S
        BY <1>m, <4>1
      <4>3. QED
        BY <1>0, <3>1, <4>1, <4>2, NULLAssumption
    <3> DEFINE ux == Unlinked(next, queue, j)
    <3>3. ux \in [Jobs -> Jobs \cup {NULL}] /\ \A k \in S : ux[k] \in S \cup {NULL}
      BY <1>0, <3>2, UnlinkedClosed, UnlinkedType
    <3>4. next' = Appended(ux, storage, p)
      BY <3>1
    <3> HIDE DEF ux
    <3>5. \A k \in S : next'[k] \in S \cup {NULL}
      BY <1>0, <3>2, <3>3, <3>4, AppendedClosed
    <3>6. QED
      BY <1>0, <1>a, <1>n, <3>1, <3>2, <3>5
  <2>3. QED
    BY <2>1, <2>2
<1>4. ASSUME NEW j \in Jobs, ReleaseJob(j) PROVE Listed' \subseteq N
  <2>1. j \in S
    BY <1>4, <1>m DEF ReleaseJob, Releasable
  <2>2. \A k \in S : next'[k] \in S \cup {NULL}
    BY <1>0, <1>4, <2>1, UnlinkedClosed DEF ReleaseJob
  <2>3. storage' \in S \cup {NULL} /\ queue' \in S \cup {NULL}
    BY <1>0, <1>4, <2>1 DEF ReleaseJob
  <2>4. QED
    BY <1>0, <1>a, <1>n, <2>2, <2>3
<1>5. QED
  BY <1>1, <1>2, <1>3, <1>4

\* Two lists that share no job share none after a step, but for the job a wrong
\* removal leaves on both when it loses another.
LEMMA DisjointStep ==
    ASSUME DefaultCores, JobInv, Disjoint, [JobNext]_listVars
    PROVE  Disjoint'
<1> DEFINE St == Reach(next, storage)
           Q == Reach(next, queue)
<1>0. /\ JobTypeOK /\ NoDangling
      /\ next \in [Jobs -> Jobs \cup {NULL}]
      /\ storage \in Jobs \cup {NULL} /\ queue \in Jobs \cup {NULL}
      /\ Ends(next)
      /\ live \subseteq Jobs /\ live \subseteq 0 .. idGen - 1 /\ idGen \in Nat
  BY LiveAreJobs DEF JobInv, JobTypeOK, Acyclic, Ends
<1>1. /\ St \in SUBSET Jobs /\ storage \in St \cup {NULL}
      /\ \A k \in St : next[k] \in St \cup {NULL}
      /\ Q \in SUBSET Jobs /\ queue \in Q \cup {NULL}
      /\ \A k \in Q : next[k] \in Q \cup {NULL}
      /\ St \subseteq live /\ Q \subseteq live /\ Listed \subseteq Jobs
  BY <1>0, ListsClosed DEF NoDangling, Listed
\* Sets that hold the new lists.
<1>a. ASSUME NEW A \in SUBSET Jobs, NEW B \in SUBSET Jobs, A \cap B = {},
             storage' \in A \cup {NULL}, queue' \in B \cup {NULL},
             \A k \in A : next'[k] \in A \cup {NULL},
             \A k \in B : next'[k] \in B \cup {NULL}
      PROVE  Disjoint'
  <2>1. Reach(next', storage') \subseteq A
    BY <1>a, ReachLeast
  <2>2. Reach(next', queue') \subseteq B
    BY <1>a, ReachLeast
  <2>3. QED
    BY <1>a, <2>1, <2>2 DEF Disjoint
\* A job that is on no list.
<1>b. ASSUME NEW l \in live', l \notin Listed' PROVE Disjoint'
  BY <1>b DEF Disjoint
<1>u. CASE UNCHANGED listVars
  BY <1>u DEF listVars, Disjoint, Listed
<1>s. ASSUME NEW j \in live, NEW s \in {"RUNNING", "IDLE"}, StoreStatus(j, s) PROVE Disjoint'
  BY <1>s DEF StoreStatus, Disjoint, Listed
\* A lost job stays lost.
<1>l. ASSUME NEW l \in live, l \notin Listed,
             \/ \E j \in Jobs, c \in Cores : AllocJob(j, c)
             \/ \E j \in Jobs : JobEnqueue(j)
             \/ \E j \in Jobs : JobRemoveFromQueue(j)
             \/ \E j \in Jobs : ReleaseUnqueued(j)
      PROVE  Disjoint'
  <2> DEFINE N == Jobs \ {l}
  <2>1. Listed \subseteq N /\ N \subseteq Jobs
    BY <1>1, <1>l
  <2>2. l \in live'
    BY <1>l DEF AllocJob, JobEnqueue, JobRemoveFromQueue, ReleaseUnqueued, ReleaseJob,
       Releasable, InStorage, Listed
  <2>3. Listed' \subseteq N
    <3>1. \A j \in Jobs, c \in Cores : AllocJob(j, c) => j \in N
      BY <1>0 DEF AllocJob
    <3> HIDE DEF N
    <3>2. QED
      BY <1>l, <2>1, <3>1, ListedStep DEF ReleaseUnqueued
  <2>4. QED
    BY <1>b, <2>2, <2>3
<1>2. CASE \E l \in live : l \notin Listed
  <2>1. \A j \in live : j \in Jobs
    BY <1>0
  <2>2. QED
    BY <1>2, <1>l, <1>s, <1>u, <2>1 DEF JobNext
<1>3. CASE St \cap Q = {}
  <2> HIDE DEF St, Q
  <2>1. ASSUME NEW j \in Jobs, NEW c \in Cores, AllocJob(j, c) PROVE Disjoint'
    <3>1. j \notin live
      BY <1>0, <2>1 DEF AllocJob
    <3>2. storage' \in St \cup {j} \cup {NULL} /\ queue' = queue
      BY <1>1, <2>1 DEF AllocJob, PutToStorage
    <3>3. next' = Appended(next, storage, j)
      BY <2>1 DEF AllocJob, PutToStorage
    <3>4. \A k \in St \cup {j} : next'[k] \in St \cup {j} \cup {NULL}
      BY <1>1, <3>3 DEF Appended
    <3>5. \A k \in Q : next'[k] = next[k]
      BY <1>1, <1>3, <3>1, <3>3 DEF Appended, St
    <3> DEFINE A == St \cup {j}
    <3>6. A \in SUBSET Jobs /\ A \cap Q = {} /\ storage' \in A \cup {NULL} /\ \A k \in A : next'[k] \in A \cup {NULL}
      BY <1>1, <1>3, <3>1, <3>2, <3>4
    <3> HIDE DEF A
    <3>7. QED
      BY <1>a, <1>1, <3>2, <3>5, <3>6
  <2>2. ASSUME NEW j \in Jobs, JobEnqueue(j) PROVE Disjoint'
    <3>1. j \in St /\ j \notin Q
      BY <1>3, <2>2 DEF JobEnqueue, InStorage, St
    <3> DEFINE ux == Unlinked(next, storage, j)
    <3>2. ux \in [Jobs -> Jobs \cup {NULL}]
      BY <1>0, UnlinkedType
    <3>3. \A k \in Q : ux[k] = next[k]
      BY <1>1, <1>3 DEF Unlinked, St
    <3>4. Reach(ux, queue) \subseteq Q
      BY <1>1, <3>3, ReachLeast
    <3>5. next[j] # j
      <4>1. PICK k \in {j} : next[k] \notin {j}
        BY <1>0 DEF Ends
      <4>2. QED
        BY <4>1
    <3>6. \A k \in St : ux[k] \in (St \ {j}) \cup {NULL}
      BY <1>1, <3>1, <3>5 DEF Unlinked, St
    <3>7. next' = Appended(ux, queue, j)
      BY <2>2 DEF JobEnqueue
    <3> HIDE DEF ux
    <3>8. \A k \in St \ {j} : next'[k] = ux[k]
      BY <1>1, <1>3, <3>2, <3>4, <3>7 DEF Appended
    <3>9. \A k \in Q \cup {j} : next'[k] \in Q \cup {j} \cup {NULL}
      BY <1>1, <3>3, <3>7 DEF Appended
    <3>10. storage' \in (St \ {j}) \cup {NULL}
      BY <1>1, <3>1, <3>5, <2>2 DEF JobEnqueue
    <3>11. queue' \in Q \cup {j} \cup {NULL}
      BY <1>1, <2>2 DEF JobEnqueue
    <3> DEFINE A == St \ {j}
               B == Q \cup {j}
    <3>12. A \in SUBSET Jobs /\ B \in SUBSET Jobs /\ A \cap B = {}
      BY <1>1, <1>3
    <3>13. \A k \in A : next'[k] \in A \cup {NULL}
      BY <3>6, <3>8
    <3> HIDE DEF A, B
    <3>14. QED
      BY <1>a, <3>9, <3>10, <3>11, <3>12, <3>13 DEF A, B
  <2>3. ASSUME NEW j \in Jobs, JobRemoveFromQueue(j) PROVE Disjoint'
    <3>1. CASE queue = j
      <4>1. /\ queue' = next[j]
            /\ storage' = (IF storage = NULL THEN j ELSE storage)
            /\ next' = Appended(next, storage, j)
        BY <2>3, <3>1 DEF JobRemoveFromQueue, PutToStorage
      <4>2. j \in Q /\ j \notin St
        BY <1>1, <1>3, <3>1, NULLAssumption
      <4> DEFINE B == Reach(next, next[j])
                 A == St \cup {j}
      <4>3. j \notin B
        BY <1>0, HeadLeaves
      <4>4. B \subseteq Q
        BY <1>1, <4>2, ReachLeast
      <4>5. next[j] \in Jobs \cup {NULL}
        BY <1>0
      <4>6. B \in SUBSET Jobs /\ next[j] \in B \cup {NULL} /\ \A k \in B : next[k] \in B \cup {NULL}
        BY <1>0, <4>5, ListsClosed
      <4> HIDE DEF B
      <4>7. \A k \in B : next'[k] = next[k]
        BY <1>1, <1>3, <4>1, <4>3, <4>4 DEF Appended, St
      <4>8. \A k \in A : next'[k] \in A \cup {NULL}
        BY <1>1, <4>1 DEF Appended
      <4>9. A \in SUBSET Jobs /\ A \cap B = {} /\ storage' \in A \cup {NULL}
        BY <1>1, <1>3, <4>1, <4>3, <4>4
      <4> HIDE DEF A
      <4>10. QED
        BY <1>a, <4>1, <4>6, <4>7, <4>8, <4>9
    <3>2. CASE queue # j
      <4>1. PICK p \in Reach(next, queue) :
               /\ next[p] = j
               /\ queue' = queue
               /\ storage' = (IF storage = NULL THEN p ELSE storage)
               /\ next' = Appended(Unlinked(next, queue, j), storage, p)
        BY <2>3, <3>2 DEF JobRemoveFromQueue, PutToStorage
      <4>2. p \in live /\ j \in live /\ p # j /\ queue = p /\ storage = NULL
        BY <3>2, <4>1, WrongRemoval
      <4>3. storage' = p /\ queue' = p /\ next'[p] = NULL /\ p \in Jobs
        BY <1>0, <4>1, <4>2 DEF Appended
      <4> DEFINE S == {p}
      <4>4. S \in SUBSET Jobs /\ storage' \in S \cup {NULL} /\ queue' \in S \cup {NULL}
            /\ \A k \in S : next'[k] \in S \cup {NULL}
        BY <4>3
      <4> HIDE DEF S
      <4>5. Reach(next', storage') \subseteq S /\ Reach(next', queue') \subseteq S
        BY <4>4, ReachLeast
      <4>6. Listed' \subseteq S
        BY <4>5 DEF Listed
      <4>7. j \notin Listed' /\ j \in live'
        BY <2>3, <4>2, <4>6 DEF S, JobRemoveFromQueue
      <4>8. QED
        BY <1>b, <4>7
    <3>3. QED
      BY <3>1, <3>2
  <2>4. ASSUME NEW j \in Jobs, ReleaseUnqueued(j) PROVE Disjoint'
    <3>1. /\ storage' = (IF storage = j THEN next[j] ELSE storage)
          /\ next' = Unlinked(next, storage, j)
          /\ queue' = queue /\ j \in St
      BY <2>4 DEF ReleaseUnqueued, ReleaseJob, Releasable, InStorage, St
    <3>2. \A k \in Q : next'[k] = next[k]
      BY <1>1, <1>3, <3>1 DEF Unlinked, St
    <3>3. \A k \in St : next'[k] \in St \cup {NULL}
      BY <1>1, <3>1 DEF Unlinked
    <3>4. QED
      BY <1>a, <1>1, <1>3, <3>1, <3>2, <3>3
  <2>5. QED
    <3>1. \A j \in live : j \in Jobs
      BY <1>0
    <3>2. QED
      BY <2>1, <2>2, <2>3, <2>4, <3>1, <1>s, <1>u DEF JobNext
<1>4. QED
  BY <1>2, <1>3 DEF Disjoint

-----------------------------------------------------------------------------
(* Cores and the jobs they work for. *)

\* The types that the steps below need.
LEMMA DriverTypes ==
    ASSUME ElcoreInv
    PROVE  /\ status \in [Jobs -> Statuses]
           /\ coreOf \in [Jobs -> Cores]
           /\ jobId \in [Cores -> Jobs]
           /\ run \in [Cores -> BOOLEAN]
           /\ cause \in [Cores -> Causes \cup {"none"}]
           /\ irq \in IrqStates /\ disp \in DispStates
           /\ live \subseteq Jobs
           /\ idGen \in Nat /\ \A j \in live : j < idGen
           /\ disp.pc # "idle" => disp.job \in live
           /\ disp.pc \in {"setup", "maskread", "maskwrite", "mark", "runread", "runwrite"} => disp.cur \in live
           /\ irq.pc \in {"result", "remove", "sdma", "reset", "reply"} => irq.job \in Jobs
BY LiveAreJobs DEF ElcoreInv, TypeOK, JobTypeOK, PointersOK

\* There is one first core in a round.
LEMMA FirstCore ==
    ASSUME ElcoreInv, NEW c \in Cores, NEW d \in Cores, IrqCore(c), IrqCore(d)
    PROVE  c = d
<1>1. c <= d /\ d <= c
  BY DEF IrqCore
<1>2. QED
  BY <1>1, CoresAreNumbers

\* Steps that touch neither the cores nor the interrupt thread, and of the jobs
\* at most one that no core works for.
LEMMA CoresKept ==
    ASSUME ServiceInv, UNCHANGED <<run, cause, jobId, irq>>,
           \A c \in Cores : Active(c) =>
              jobId[c] \in live' /\ coreOf'[jobId[c]] = coreOf[jobId[c]]
                                 /\ status'[jobId[c]] = status[jobId[c]]
    PROVE  ActiveCores' /\ Round'
<1>1. \A c \in Cores : Active(c)' <=> Active(c)
  BY DEF Active, Clearing, IrqCore
<1>2. ActiveCores'
  BY <1>1 DEF ServiceInv, ActiveCores
<1>3. Round'
  BY DEF ServiceInv, Round, IrqCore
<1>4. QED
  BY <1>2, <1>3

\* The core that is being cleared reports a stop until it is reset.
LEMMA ClearingStopped ==
    ASSUME ServiceInv, NEW c \in Cores, Clearing(c)
    PROVE  cause[c] # "none"
BY DEF ServiceInv, Round, Clearing, IrqCore

\* The first step of a request starts no job and changes none that runs.
LEMMA RequestServiceStep ==
    ASSUME ElcoreInv, ServiceInv, ClientRequest
    PROVE  ActiveCores' /\ Starting' /\ Round' /\ Unborn'
<1>0. /\ status \in [Jobs -> Statuses] /\ coreOf \in [Jobs -> Cores]
      /\ idGen \in Nat /\ \A j \in live : j < idGen
  BY DriverTypes
<1>1. PICK c \in Clients, j \in Jobs :
        \/ \E k \in Cores : Create(c, j, k)
        \/ \E ch \in Channels : SetSdmaChain(c, j, ch)
        \/ Enqueue(c, j)
        \/ Wait(c, j)
        \/ Cancel(c, j)
        \/ Release(c, j)
  BY DEF ClientRequest
<1>2. ASSUME NEW k \in Cores, Create(c, j, k)
      PROVE ActiveCores' /\ Starting' /\ Round' /\ Unborn'
  <2>1. /\ UNCHANGED <<run, cause, jobId, irq>>
        /\ j = idGen /\ idGen' = idGen + 1 /\ live' = live \cup {j}
        /\ coreOf' = [coreOf EXCEPT ![j] = k]
        /\ status' = status \/ status' = [status EXCEPT ![j] = "IDLE"]
        /\ disp'.pc = "load"
    BY <1>2 DEF Create, AllocJob, PutToStorage, elcoreVars, coreVars, DispIdle
  <2>2. ActiveCores' /\ Round'
    <3>1. ASSUME NEW d \in Cores, Active(d)
          PROVE  jobId[d] \in live' /\ coreOf'[jobId[d]] = coreOf[jobId[d]]
                                    /\ status'[jobId[d]] = status[jobId[d]]
      <4>1. jobId[d] \in live /\ jobId[d] # j /\ jobId[d] \in Jobs
        BY <1>0, <2>1, <3>1, DriverTypes DEF ServiceInv, ActiveCores
      <4>2. QED
        BY <1>0, <2>1, <4>1
    <3>2. QED
      BY <2>1, <3>1, CoresKept
  <2>3. Starting'
    BY <2>1 DEF Starting
  <2>4. Unborn'
    <3>1. ASSUME NEW i \in Jobs, i >= idGen + 1 PROVE i \in Nat /\ i >= idGen /\ i # j
      BY <1>0, <2>1, <3>1, MaxJobsAssumption DEF Jobs
    <3>2. ASSUME NEW i \in Jobs, i >= idGen + 1 PROVE status'[i] = status[i]
      BY <1>0, <2>1, <3>1, <3>2
    <3>3. QED
      BY <2>1, <3>1, <3>2 DEF ServiceInv, Unborn
  <2>5. QED
    BY <2>2, <2>3, <2>4
<1>3. CASE Enqueue(c, j)
  <2>1. /\ UNCHANGED <<run, cause, jobId, irq, coreOf, live, idGen>>
        /\ status[j] = "IDLE" /\ status' = [status EXCEPT ![j] = "ENQUEUED"]
        /\ j \in live
        /\ disp'.pc = "pick"
    BY <1>3, FoundIsLive DEF Enqueue, JobEnqueue, elcoreVars, coreVars, DispIdle,
       ElcoreInv, JobInv
  <2>2. ActiveCores' /\ Round'
    <3>1. ASSUME NEW d \in Cores, Active(d)
          PROVE  jobId[d] \in live' /\ coreOf'[jobId[d]] = coreOf[jobId[d]]
                                    /\ status'[jobId[d]] = status[jobId[d]]
      BY <1>0, <2>1, <3>1, DriverTypes DEF ServiceInv, ActiveCores
    <3>2. QED
      BY <2>1, <3>1, CoresKept
  <2>3. Starting'
    BY <2>1 DEF Starting
  <2>4. Unborn'
    <3>1. ASSUME NEW i \in Jobs, i >= idGen PROVE i # j
      BY <1>0, <2>1, <3>1, MaxJobsAssumption DEF Jobs
    <3>2. ASSUME NEW i \in Jobs, i >= idGen PROVE status'[i] = status[i]
      BY <1>0, <2>1, <3>1, <3>2
    <3>3. QED
      BY <2>1, <3>2 DEF ServiceInv, Unborn
  <2>5. QED
    BY <2>2, <2>3, <2>4
<1>4. CASE \/ \E ch \in Channels : SetSdmaChain(c, j, ch)
           \/ Wait(c, j) \/ Cancel(c, j) \/ Release(c, j)
  <2>1. /\ UNCHANGED <<run, cause, jobId, irq, coreOf, live, idGen, status>>
        /\ disp' = disp \/ disp'.pc \in {"park", "answer", "kill", "freemem"}
    BY <1>4 DEF SetSdmaChain, Wait, Cancel, Release, elcoreVars, coreVars, listVars, DispIdle
  <2>2. ActiveCores' /\ Round'
    BY <2>1, CoresKept DEF ServiceInv, ActiveCores
  <2>3. Starting'
    BY <2>1 DEF ServiceInv, Starting, Active, Clearing, IrqCore
  <2>4. Unborn'
    BY <2>1 DEF ServiceInv, Unborn
  <2>5. QED
    BY <2>2, <2>3, <2>4
<1>5. QED
  BY <1>1, <1>2, <1>3, <1>4

\* The dispatch thread starts a job on a core that works for none.
LEMMA DispatchServiceStep ==
    ASSUME DefaultCores, ElcoreInv, NullInv, ServiceInv, Dispatch
    PROVE  ActiveCores' /\ Starting' /\ Round' /\ Unborn'
<1>0. /\ status \in [Jobs -> Statuses] /\ coreOf \in [Jobs -> Cores]
      /\ jobId \in [Cores -> Jobs] /\ run \in [Cores -> BOOLEAN]
      /\ disp \in DispStates /\ live \subseteq Jobs
      /\ idGen \in Nat /\ \A j \in live : j < idGen
      /\ disp.pc \in {"setup", "maskread", "maskwrite", "mark", "runread", "runwrite"} => disp.cur \in live
      /\ disp.op # "CANCEL" /\ disp.pc \notin {"kill", "dequeue", "cancelled"}
  BY DriverTypes DEF NullInv, Uncancelled
<1>d. Started \/ DispDone => disp'.pc = "idle"
  BY <1>0 DEF Started, DispDone, DispIdle
\* Steps that only prepare.
<1>a. ASSUME UNCHANGED <<run, cause, jobId, irq, coreOf, live, idGen, status>>,
             \/ disp'.pc \notin {"setup", "maskread", "maskwrite", "mark", "runread", "runwrite"}
             \/ /\ disp.pc \in {"setup", "maskread", "maskwrite"}
                /\ disp'.pc \in {"maskread", "maskwrite", "mark"}
                /\ disp'.cur = disp.cur
      PROVE  ActiveCores' /\ Starting' /\ Round' /\ Unborn'
  <2>1. ActiveCores' /\ Round'
    BY <1>a, CoresKept DEF ServiceInv, ActiveCores
  <2>2. \A c : Active(c)' <=> Active(c)
    BY <1>a DEF Active, Clearing, IrqCore
  <2>3. Starting'
    BY <1>a, <2>2 DEF ServiceInv, Starting
  <2>4. Unborn'
    BY <1>a DEF ServiceInv, Unborn
  <2>5. QED
    BY <2>1, <2>3, <2>4
<1>1. CASE Load \/ LoadFails \/ Park \/ Answer
  BY <1>1, <1>a, <1>d DEF Load, LoadFails, Park, Answer, listVars, elcoreVars, coreVars
<1>2. CASE FreeMem
  BY <1>0, <1>2, <1>a DEF FreeMem, DispTo, DispStates, listVars, coreVars
<1>3. CASE Pick
  <2>1. CASE Started
    BY <1>3, <2>1, <1>a, <1>d DEF Pick, listVars, elcoreVars, coreVars
  <2>2. CASE ~ Started
    <3>1. PICK k \in Jobs : /\ FirstEnqueued(coreOf[disp.job], k)
                            /\ disp' = [disp EXCEPT !.pc = "setup", !.cur = k]
      BY <1>3, <2>2 DEF Pick
    <3>2. UNCHANGED <<run, cause, jobId, irq, coreOf, live, idGen, status>>
      BY <1>3 DEF Pick, listVars, elcoreVars, coreVars
    <3>3. disp'.pc = "setup" /\ disp'.cur = k
      BY <1>0, <3>1 DEF DispStates
    <3>4. status[k] = "ENQUEUED" /\ k \in live
      BY <3>1, FoundIsLive DEF FirstEnqueued, ElcoreInv, JobInv
    <3>5. ~ Active(coreOf[k])
      <4> SUFFICES ASSUME Active(coreOf[k]) PROVE FALSE
        OBVIOUS
      <4>1. coreOf[k] \in Cores
        BY <1>0
      <4>2. /\ jobId[coreOf[k]] \in live /\ coreOf[jobId[coreOf[k]]] = coreOf[k]
            /\ status[jobId[coreOf[k]]] = "RUNNING"
        BY <4>1 DEF ServiceInv, ActiveCores
      <4>3. jobId[coreOf[k]] = k
        BY <3>4, <4>2, OneJob DEF ElcoreInv
      <4>4. QED
        BY <3>4, <4>2, <4>3
    <3>6. \A c : Active(c)' <=> Active(c)
      BY <3>2 DEF Active, Clearing, IrqCore
    <3>7. Starting'
      BY <3>2, <3>3, <3>4, <3>5, <3>6 DEF Starting
    <3>8. ActiveCores' /\ Round'
      BY <3>2, CoresKept DEF ServiceInv, ActiveCores
    <3>9. Unborn'
      BY <3>2 DEF ServiceInv, Unborn
    <3>10. QED
      BY <3>7, <3>8, <3>9
  <2>3. QED
    BY <2>1, <2>2
<1>4. CASE Setup
  BY <1>0, <1>4, <1>a, <1>d DEF Setup, DispTo, DispStates, listVars
<1>5. CASE MaskRead \/ MaskWrite
  BY <1>0, <1>5, <1>a DEF MaskRead, MaskWrite, DispStates, listVars, elcoreVars, coreVars
<1>6. CASE Mark
  <2> DEFINE c == coreOf[disp.cur]
  <2>1. /\ disp.cur \in live /\ disp.cur \in Jobs /\ c \in Cores
        /\ ~ Active(c) /\ disp.cur < idGen
    BY <1>0, <1>6 DEF Mark, ServiceInv, Starting
  <2>2. /\ UNCHANGED <<run, cause, irq, coreOf, live, idGen>>
        /\ status' = [status EXCEPT ![disp.cur] = "RUNNING"]
        /\ jobId' = [jobId EXCEPT ![c] = disp.cur]
        /\ disp'.pc = "runread" /\ disp'.cur = disp.cur
    BY <1>0, <1>6 DEF Mark, StoreStatus, DispTo, DispStates, coreVars
  <2>3. \A d : Active(d)' <=> Active(d)
    BY <2>2 DEF Active, Clearing, IrqCore
  <2>4. ActiveCores'
    <3> SUFFICES ASSUME NEW d \in Cores, Active(d)
                 PROVE  /\ jobId'[d] \in live /\ coreOf[jobId'[d]] = d
                        /\ status'[jobId'[d]] = "RUNNING"
      BY <2>2, <2>3 DEF ActiveCores
    <3>1. d # c /\ jobId[d] \in live /\ coreOf[jobId[d]] = d /\ status[jobId[d]] = "RUNNING"
      BY <2>1 DEF ServiceInv, ActiveCores
    <3>2. jobId'[d] = jobId[d] /\ jobId[d] # disp.cur /\ jobId[d] \in Jobs
      BY <1>0, <2>2, <3>1
    <3>3. QED
      BY <1>0, <2>2, <3>1, <3>2
  <2>5. Starting'
    <3>1. status'[disp.cur] = "RUNNING" /\ jobId'[c] = disp.cur
      BY <1>0, <2>1, <2>2
    <3>2. QED
      BY <2>1, <2>2, <2>3, <3>1 DEF Starting
  <2>6. Round'
    <3>1. ASSUME irq.pc \in {"result", "remove"}, NEW d \in Cores, IrqCore(d)
          PROVE  jobId'[d] = jobId[d]
      <4>1. cause[d] # "none" /\ ~ Clearing(d)
        BY <3>1 DEF ServiceInv, Round, IrqCore, Clearing
      <4>2. d # c
        BY <2>1, <4>1 DEF Active
      <4>3. QED
        BY <1>0, <2>2, <4>2
    <3>2. QED
      BY <2>2, <3>1 DEF ServiceInv, Round, IrqCore
  <2>7. Unborn'
    <3>1. ASSUME NEW i \in Jobs, i >= idGen PROVE i # disp.cur
      BY <1>0, <2>1, <3>1, MaxJobsAssumption DEF Jobs
    <3>2. QED
      BY <1>0, <2>2, <3>1 DEF ServiceInv, Unborn
  <2>8. QED
    BY <2>4, <2>5, <2>6, <2>7
\* What is read is kept: no cause means that the core neither runs nor stopped.
<1>7. CASE RunRead
  <2> DEFINE c == coreOf[disp.cur]
  <2>1. /\ UNCHANGED <<run, cause, jobId, irq, coreOf, live, idGen, status>>
        /\ disp'.pc = "runwrite" /\ disp'.cur = disp.cur /\ disp'.dscr = cause[c]
        /\ c \in Cores /\ disp.pc = "runread"
    BY <1>0, <1>7 DEF RunRead, DispStates, listVars, elcoreVars, coreVars
  <2>2. ActiveCores' /\ Round'
    BY <2>1, CoresKept DEF ServiceInv, ActiveCores
  <2>3. /\ ~ Active(c)
        /\ status[disp.cur] = "RUNNING" /\ jobId[c] = disp.cur
    BY <2>1 DEF ServiceInv, Starting
  <2>4. cause[c] = "none" => ~ run[c]
    BY <2>1, <2>3, ClearingStopped DEF Active
  <2>5. Active(c)' <=> Active(c)
    BY <2>1 DEF Active, Clearing, IrqCore
  <2>6. Starting'
    BY <2>1, <2>3, <2>4, <2>5 DEF Starting
  <2>7. Unborn'
    BY <2>1 DEF ServiceInv, Unborn
  <2>8. QED
    BY <2>2, <2>6, <2>7
<1>r. CASE RunWrite
  <2> DEFINE c == coreOf[disp.cur]
  <2>1. /\ disp.cur \in live /\ c \in Cores
        /\ status[disp.cur] = "RUNNING" /\ jobId[c] = disp.cur
        /\ disp.dscr = "none" => cause[c] = "none"
    BY <1>0, <1>r DEF RunWrite, ServiceInv, Starting
  <2>2. /\ UNCHANGED <<jobId, irq, coreOf, live, idGen, status>>
        /\ run' = [run EXCEPT ![c] = TRUE]
        /\ cause' = [cause EXCEPT ![c] = disp.dscr]
        /\ disp'.pc = "idle"
    BY <1>r, <1>d DEF RunWrite, listVars
  <2>3. \A d \in Cores : d # c => (Active(d)' <=> Active(d))
    BY <1>0, <2>2 DEF Active, Clearing, IrqCore
  <2>4. ActiveCores'
    BY <2>1, <2>2, <2>3 DEF ServiceInv, ActiveCores
  <2>5. \A d \in Cores : cause[d] # "none" => cause'[d] # "none"
    BY <1>0, <2>1, <2>2
  <2>6. irq.left \subseteq Cores
    BY DriverTypes DEF IrqStates
  <2>7. Round'
    BY <2>2, <2>5, <2>6 DEF ServiceInv, Round, IrqCore
  <2>8. Starting' /\ Unborn'
    BY <2>2 DEF ServiceInv, Starting, Unborn
  <2>9. QED
    BY <2>4, <2>7, <2>8
<1>8. CASE Free
  <2>1. /\ UNCHANGED <<run, cause, jobId, irq, coreOf, idGen, status>>
        /\ disp'.pc = "idle"
        /\ live' = live \/ (live' = live \ {disp.job} /\ status[disp.job] = "IDLE")
    BY <1>8, <1>d DEF Free, ReleaseJob, Releasable, listVars, elcoreVars, coreVars
  <2>2. ActiveCores' /\ Round'
    <3>1. ASSUME NEW c \in Cores, Active(c) PROVE jobId[c] \in live'
      BY <2>1, <3>1 DEF ServiceInv, ActiveCores
    <3>2. QED
      BY <2>1, <3>1, CoresKept
  <2>3. Starting' /\ Unborn'
    BY <2>1 DEF ServiceInv, Starting, Unborn
  <2>4. QED
    BY <2>2, <2>3
<1>9. QED
  BY <1>0, <1>1, <1>2, <1>3, <1>4, <1>5, <1>6, <1>7, <1>r, <1>8
     DEF Dispatch, Kill, Dequeue, Cancelled

\* What job_remove_from_queue changes when the interrupt thread calls it: at most
\* the status of the job of the first core of the round, which is active.
LEMMA RemovedJob ==
    ASSUME DefaultCores, ElcoreInv, ServiceInv, IrqRemove
    PROVE  /\ UNCHANGED <<coreOf, live, idGen>>
           /\ \/ status' = status
              \/ /\ irq.job \in live /\ status[irq.job] = "RUNNING"
                 /\ status' = [status EXCEPT ![irq.job] = "IDLE"]
                 /\ cause[coreOf[irq.job]] # "none" /\ IrqCore(coreOf[irq.job])
                 /\ Active(coreOf[irq.job])
<1>1. UNCHANGED <<coreOf, live, idGen>>
  BY DEF IrqRemove, CallRemove, JobRemoveFromQueue, listVars
<1>2. irq.pc = "remove" /\ irq.job \in Jobs
  BY DriverTypes DEF IrqRemove
<1>3. CASE JobRemoveFromQueue(irq.job)
  <2>1. irq.job \in live /\ status' = [status EXCEPT ![irq.job] = "IDLE"]
    BY <1>2, <1>3, RemovalStatus DEF ElcoreInv, ServiceInv
  <2>2. PICK c \in Cores : IrqCore(c)
    BY <1>2 DEF ServiceInv, Round
  <2>3. cause[c] # "none" /\ irq.job = jobId[c]
    BY <1>2, <2>2 DEF ServiceInv, Round, IrqCore
  <2>4. Active(c)
    BY <1>2, <2>3 DEF Active, Clearing
  <2>5. coreOf[irq.job] = c /\ status[irq.job] = "RUNNING"
    BY <2>3, <2>4 DEF ServiceInv, ActiveCores
  <2>6. QED
    BY <1>1, <2>1, <2>2, <2>3, <2>4, <2>5
<1>4. CASE ~ JobRemoveFromQueue(irq.job)
  BY <1>1, <1>4 DEF IrqRemove, CallRemove, listVars
<1>5. QED
  BY <1>3, <1>4

\* The interrupt thread ends the job of the first core of its round and clears
\* that core.
LEMMA InterruptServiceStep ==
    ASSUME DefaultCores, ElcoreInv, ServiceInv, Interrupt
    PROVE  ActiveCores' /\ Starting' /\ Round' /\ Unborn'
<1>0. /\ status \in [Jobs -> Statuses] /\ coreOf \in [Jobs -> Cores]
      /\ jobId \in [Cores -> Jobs] /\ run \in [Cores -> BOOLEAN]
      /\ cause \in [Cores -> Causes \cup {"none"}]
      /\ irq \in IrqStates /\ live \subseteq Jobs
      /\ idGen \in Nat /\ \A j \in live : j < idGen
      /\ disp.pc \in {"setup", "maskread", "maskwrite", "mark", "runread", "runwrite"} => disp.cur \in live
  BY DriverTypes
<1>i. /\ ActiveCores /\ Starting /\ Round /\ Unborn
      /\ IrqDone => irq'.pc = "wait"
  BY DEF ServiceInv, IrqDone, IrqIdle
\* Steps that leave cores and jobs alone and make no core active.
<1>a. ASSUME UNCHANGED <<run, cause, jobId, disp, coreOf, live, idGen, status>>,
             irq'.pc \in {"sdma", "reset"} \/ irq.pc \notin {"sdma", "reset"},
             irq.pc \in {"sdma", "reset"} => irq'.pc \in {"sdma", "reset"} /\ irq'.left = irq.left
      PROVE  ActiveCores' /\ Starting' /\ Unborn'
  <2>1. \A c : Active(c)' => Active(c)
    BY <1>a DEF Active, Clearing, IrqCore
  <2>2. QED
    BY <1>a, <1>i, <2>1 DEF ActiveCores, Starting, Unborn
<1>1. CASE IrqWake
  <2>1. UNCHANGED <<run, cause, jobId, disp, coreOf, live, idGen, status>>
    BY <1>1 DEF IrqWake, listVars, elcoreVars, coreVars
  <2>2. irq.pc = "wait" /\ irq'.pc = "qstr"
    BY <1>0, <1>1 DEF IrqWake, IrqTo, IrqStates
  <2>3. QED
    BY <1>a, <2>1, <2>2 DEF Round
<1>2. CASE IrqQstr
  <2>1. UNCHANGED <<run, cause, jobId, disp, coreOf, live, idGen, status>>
    BY <1>2 DEF IrqQstr, listVars, elcoreVars, coreVars
  <2>2. irq.pc = "qstr"
    BY <1>2 DEF IrqQstr
  <2>3. \/ irq'.pc = "wait"
        \/ irq'.pc = "maskread" /\ irq'.left = PendingCores
    BY <1>0, <1>2, <1>i DEF IrqQstr, IrqStates
  <2>4. \A c \in PendingCores : cause[c] # "none"
    BY DEF PendingCores, Pending
  <2>5. Round'
    BY <2>1, <2>3, <2>4 DEF Round
  <2>6. ActiveCores' /\ Starting' /\ Unborn'
    BY <1>a, <2>1, <2>2
  <2>7. QED
    BY <2>5, <2>6
<1>3. CASE IrqMaskRead \/ IrqMaskWrite
  <2>1. UNCHANGED <<run, cause, jobId, disp, coreOf, live, idGen, status>>
    BY <1>3 DEF IrqMaskRead, IrqMaskWrite, listVars, elcoreVars, coreVars
  <2>2. irq.pc \in {"maskread", "maskwrite"} /\ irq'.pc \in {"maskwrite", "find"} /\ irq'.left = irq.left
    BY <1>0, <1>3 DEF IrqMaskRead, IrqMaskWrite, IrqStates
  <2>3. ActiveCores' /\ Starting' /\ Unborn'
    BY <1>a, <2>1, <2>2
  <2>4. QED
    BY <1>i, <2>1, <2>2, <2>3 DEF Round
<1>4. CASE IrqFind
  <2>1. UNCHANGED <<run, cause, jobId, disp, coreOf, live, idGen, status>>
    BY <1>4 DEF IrqFind, listVars, elcoreVars, coreVars
  <2>2. irq.pc = "find"
    BY <1>4 DEF IrqFind
  <2>3. ActiveCores' /\ Starting' /\ Unborn'
    BY <1>a, <2>1, <2>2
  <2>4. PICK c \in Cores : /\ IrqCore(c)
                           /\ \/ irq' = [irq EXCEPT !.pc = "result", !.job = jobId[c]]
                              \/ irq'.pc = "wait"
    BY <1>4, <1>i DEF IrqFind
  <2>5. CASE irq'.pc = "wait"
    BY <2>3, <2>5 DEF Round
  <2>6. CASE irq' = [irq EXCEPT !.pc = "result", !.job = jobId[c]]
    <3>1. irq'.pc = "result" /\ irq'.left = irq.left /\ irq'.job = jobId[c]
      BY <1>0, <2>6 DEF IrqStates
    <3>2. \A d \in Cores : IrqCore(d)' <=> IrqCore(d)
      BY <3>1 DEF IrqCore
    <3>3. \A d \in Cores : IrqCore(d) => d = c
      BY <2>4, FirstCore
    <3>4. Round'
      BY <1>i, <2>1, <2>2, <2>4, <3>1, <3>2, <3>3 DEF Round
    <3>5. QED
      BY <2>3, <3>4
  <2>7. QED
    BY <2>4, <2>5, <2>6
<1>5. CASE IrqResult
  <2>1. UNCHANGED <<run, cause, jobId, disp, coreOf, live, idGen, status>>
    BY <1>5 DEF IrqResult, listVars, coreVars
  <2>2. irq.pc = "result" /\ irq'.pc = "remove" /\ irq'.left = irq.left /\ irq'.job = irq.job
    BY <1>0, <1>5 DEF IrqResult, IrqTo, IrqStates
  <2>3. ActiveCores' /\ Starting' /\ Unborn'
    BY <1>a, <2>1, <2>2
  <2>4. Round'
    BY <1>i, <2>1, <2>2 DEF Round, IrqCore
  <2>5. QED
    BY <2>3, <2>4
<1>6. CASE IrqRemove
  <2>1. UNCHANGED <<run, cause, jobId, disp, coreOf, live, idGen>>
    BY <1>6, RemovedJob DEF IrqRemove, elcoreVars, coreVars
  <2>2. irq.pc = "remove" /\ irq'.pc = "sdma" /\ irq'.left = irq.left /\ irq'.job = irq.job
    BY <1>0, <1>6 DEF IrqRemove, IrqTo, IrqStates
  <2>3. Round'
    BY <1>i, <2>1, <2>2 DEF Round, IrqCore
  <2>4. CASE status' = status
    BY <1>a, <2>1, <2>2, <2>3, <2>4
  <2>5. CASE status' # status
    <3> DEFINE j == irq.job
               c == coreOf[j]
    <3>1. /\ j \in live /\ status' = [status EXCEPT ![j] = "IDLE"]
          /\ IrqCore(c) /\ Active(c)
      BY <1>6, <2>5, RemovedJob
    <3>2. Clearing(c)' /\ c \in Cores
      BY <1>0, <2>1, <2>2, <3>1 DEF Clearing, IrqCore
    <3>3. \A d : Active(d)' => Active(d) /\ d # c
      BY <2>1, <2>2, <3>2 DEF Active, Clearing
    <3>4. ActiveCores'
      <4> SUFFICES ASSUME NEW d \in Cores, Active(d)'
                   PROVE  jobId[d] \in live /\ coreOf[jobId[d]] = d /\ status'[jobId[d]] = "RUNNING"
        BY <2>1 DEF ActiveCores
      <4>1. d # c /\ jobId[d] \in live /\ coreOf[jobId[d]] = d /\ status[jobId[d]] = "RUNNING"
        BY <1>i, <3>3 DEF ActiveCores
      <4>2. jobId[d] # j
        BY <4>1
      <4>3. QED
        BY <1>0, <3>1, <4>1, <4>2
    <3>5. Starting'
      <4> SUFFICES ASSUME disp.pc \in {"setup", "maskread", "maskwrite", "mark", "runread", "runwrite"}
                   PROVE  ~ Active(coreOf[disp.cur])' /\ status'[disp.cur] = status[disp.cur]
        BY <1>i, <2>1 DEF Starting
      <4>1. ~ Active(coreOf[disp.cur])
        BY <1>i DEF Starting
      <4>2. disp.cur # j
        BY <3>1, <4>1
      <4>3. ~ Active(coreOf[disp.cur])'
        <5>1. coreOf'[disp.cur] = coreOf[disp.cur]
          BY <2>1
        <5>2. QED
          BY <2>1, <3>3, <4>1, <5>1 DEF Active, Clearing, IrqCore
      <4>4. QED
        BY <1>0, <3>1, <4>2, <4>3
    <3>6. Unborn'
      BY <1>0, <1>i, <2>1, <3>1 DEF Unborn
    <3>7. QED
      BY <2>3, <3>4, <3>5, <3>6
  <2>6. QED
    BY <2>4, <2>5
<1>7. CASE IrqSdma
  <2>1. UNCHANGED <<run, cause, jobId, disp, coreOf, live, idGen, status>>
    BY <1>7 DEF IrqSdma, listVars, coreVars
  <2>2. irq.pc = "sdma" /\ irq'.pc = "reset" /\ irq'.left = irq.left
    BY <1>0, <1>7 DEF IrqSdma, IrqTo, IrqStates
  <2>3. ActiveCores' /\ Starting' /\ Unborn'
    BY <1>a, <2>1, <2>2
  <2>4. Round'
    BY <1>i, <2>1, <2>2 DEF Round, IrqCore
  <2>5. QED
    BY <2>3, <2>4
<1>8. CASE IrqReset
  <2>1. PICK c \in Cores : IrqCore(c) /\ ResetCore(c)
    BY <1>8 DEF IrqReset
  <2>2. UNCHANGED <<jobId, disp, coreOf, live, idGen, status>>
    BY <1>8 DEF IrqReset, listVars
  <2>3. irq.pc = "reset" /\ irq'.pc = "reply" /\ irq'.left = irq.left
    BY <1>0, <1>8 DEF IrqReset, IrqTo, IrqStates
  <2>4. /\ run'[c] = FALSE /\ cause'[c] = "none"
        /\ \A d \in Cores \ {c} : run'[d] = run[d] /\ cause'[d] = cause[d]
    BY <1>0, <2>1 DEF ResetCore
  <2>5. \A d \in Cores : IrqCore(d) => d = c
    BY <2>1, FirstCore
  <2>6. \A d \in Cores : Active(d)' => Active(d)
    BY <2>4, <2>5 DEF Active, Clearing
  <2>7. ActiveCores' /\ Unborn'
    BY <1>i, <2>2, <2>6 DEF ActiveCores, Unborn
  <2>8. Starting'
    <3>1. disp.pc \in {"setup", "maskread", "maskwrite", "mark", "runread", "runwrite"} => coreOf[disp.cur] \in Cores
      BY <1>0
    <3>2. \A d \in Cores :
             ~ run[d] /\ cause[d] = "none" => ~ run'[d] /\ cause'[d] = "none"
      BY <2>4
    <3>3. QED
      BY <1>i, <2>2, <2>6, <3>1, <3>2 DEF Starting
  <2>9. Round'
    <3>1. \A d : IrqCore(d)' <=> IrqCore(d)
      BY <2>3 DEF IrqCore
    <3>2. \A d \in irq.left : d \in Cores
      BY <1>0 DEF IrqStates
    <3>3. QED
      BY <1>i, <2>1, <2>3, <2>4, <3>1, <3>2 DEF Round
  <2>10. QED
    BY <2>7, <2>8, <2>9
<1>9. CASE IrqReply
  <2>1. UNCHANGED <<run, cause, jobId, disp, coreOf, live, idGen, status>>
    BY <1>9 DEF IrqReply, listVars, coreVars
  <2>2. PICK c \in Cores : /\ IrqCore(c)
                           /\ \/ irq'.pc = "wait"
                              \/ irq' = [irq EXCEPT !.pc = "find", !.job = NULL, !.left = @ \ {c}]
    BY <1>9, <1>i DEF IrqReply
  <2>3. irq.pc = "reply"
    BY <1>9 DEF IrqReply
  <2>4. ActiveCores' /\ Starting' /\ Unborn'
    BY <1>a, <2>1, <2>3
  <2>5. CASE irq'.pc = "wait"
    BY <2>4, <2>5 DEF Round
  <2>6. CASE irq' = [irq EXCEPT !.pc = "find", !.job = NULL, !.left = @ \ {c}]
    <3>1. irq'.pc = "find" /\ irq'.left = irq.left \ {c}
      BY <1>0, <2>6 DEF IrqStates
    <3>2. \A d \in irq.left \ {c} : cause[d] # "none"
      <4> TAKE d \in irq.left \ {c}
      <4>1. d \in Cores /\ ~ IrqCore(d)
        BY <1>0, <2>2, FirstCore DEF IrqStates
      <4>2. QED
        BY <1>i, <2>3, <4>1 DEF Round
    <3>3. Round'
      BY <2>1, <3>1, <3>2 DEF Round
    <3>4. QED
      BY <2>4, <3>3
  <2>7. QED
    BY <2>2, <2>5, <2>6
<1>10. QED
  BY <1>1, <1>2, <1>3, <1>4, <1>5, <1>6, <1>7, <1>8, <1>9 DEF Interrupt

\* A core that stops was running: it stays active.
LEMMA CoreStopsStep ==
    ASSUME ElcoreInv, ServiceInv, NEW c \in Cores, CoreStops(c)
    PROVE  ActiveCores' /\ Starting' /\ Round' /\ Unborn'
<1>0. /\ run \in [Cores -> BOOLEAN] /\ cause \in [Cores -> Causes \cup {"none"}]
      /\ coreOf \in [Jobs -> Cores] /\ live \subseteq Jobs
      /\ disp.pc \in {"setup", "maskread", "maskwrite", "mark", "runread", "runwrite"} => disp.cur \in live
  BY DriverTypes
<1>1. /\ UNCHANGED <<jobId, disp, irq, coreOf, live, idGen, status>>
      /\ run[c] /\ run' = [run EXCEPT ![c] = FALSE]
  BY DEF CoreStops, listVars
<1>2. PICK w \in Causes : cause' = [cause EXCEPT ![c] = w]
  BY DEF CoreStops
<1>3. w # "none"
  BY CausesAssumption
<1>4. \A d \in Cores : Active(d)' => Active(d)
  BY <1>0, <1>1, <1>2 DEF Active, Clearing, IrqCore
<1>5. \A d : cause[d] # "none" => cause'[d] # "none"
  BY <1>0, <1>2, <1>3
<1>6. ActiveCores' /\ Unborn'
  BY <1>1, <1>4 DEF ServiceInv, ActiveCores, Unborn
<1>7. Starting'
  <2>1. disp.pc \in {"setup", "maskread", "maskwrite", "mark", "runread", "runwrite"} => coreOf[disp.cur] \in Cores
    BY <1>0
  <2>2. \A d \in Cores :
           ~ run[d] /\ cause[d] = "none" => ~ run'[d] /\ cause'[d] = "none"
    BY <1>0, <1>1, <1>2
  <2>3. QED
    BY <1>1, <1>4, <2>1, <2>2 DEF ServiceInv, Starting
<1>8. Round'
  BY <1>1, <1>5 DEF ServiceInv, Round, IrqCore
<1>9. QED
  BY <1>6, <1>7, <1>8

\* The invariant of the driver with one job to a core is inductive.
LEMMA ServiceStep ==
    ASSUME DefaultCores, ElcoreInv, NullInv, ServiceInv, [Next]_vars
    PROVE  ServiceInv'
<1>1. Disjoint'
  BY ListStep, DisjointStep DEF ElcoreInv, ServiceInv
<1>2. CASE UNCHANGED vars
  <2>1. UNCHANGED <<run, cause, jobId, irq, disp, coreOf, live, idGen, status>>
    BY <1>2 DEF vars, listVars, elcoreVars, coreVars
  <2>2. ActiveCores' /\ Round' /\ Starting' /\ Unborn'
    BY <2>1 DEF ServiceInv, ActiveCores, Active, Clearing, IrqCore, Round, Starting, Unborn
  <2>3. QED
    BY <1>1, <2>2 DEF ServiceInv
<1>3. CASE Next
  <2>1. ActiveCores' /\ Starting' /\ Round' /\ Unborn'
    BY <1>3, RequestServiceStep, DispatchServiceStep, InterruptServiceStep, CoreStopsStep DEF Next
  <2>2. QED
    BY <1>1, <2>1 DEF ServiceInv
<1>4. QED
  BY <1>2, <1>3

\* The driver starts in it.
LEMMA InitService == Init => ServiceInv
<1> SUFFICES ASSUME Init PROVE ServiceInv
  OBVIOUS
<1>1. ActiveCores /\ Starting /\ Round /\ Unborn
  BY DEF Init, JobInit, ActiveCores, Active, Starting, Round, Unborn, DispIdle, IrqIdle
<1>2. Disjoint
  <2>1. \A j : ~ InQueue(j)
    BY QueueHasHead DEF Init, JobInit
  <2>2. QED
    BY <2>1 DEF InQueue, Disjoint
<1>3. QED
  BY <1>1, <1>2 DEF ServiceInv

-----------------------------------------------------------------------------
(* The driver implements the service. *)

\* With the driver's two cores of one job each and without cancels, the
\* invariants hold in every reachable state.
THEOREM ServiceInvariant ==
    ASSUME DefaultCores, NoCancels
    PROVE  Spec => [](ElcoreInv /\ NullInv /\ ServiceInv)
<1>1. ElcoreInv /\ NullInv /\ ServiceInv /\ [Next]_vars => ServiceInv'
  BY ServiceStep
<1>2. QED
  BY InitService, <1>1, NullInvariant, PTL DEF Spec

\* The phase of a job that the mapping to DspService reads off the driver.
Phase == [j \in Jobs |-> IF j \in live THEN status[j] ELSE "none"]
Stopped == {c \in Cores : cause[c] # "none"}

\* A step that leaves the jobs and the cores' causes alone is a stutter of the service.
LEMMA ServiceStutter ==
    ASSUME UNCHANGED <<status, coreOf, live, cause>>
    PROVE  UNCHANGED Service!serviceVars
BY DEF Service!serviceVars

\* Requests create and enqueue jobs.
LEMMA RequestRefines ==
    ASSUME ElcoreInv, ServiceInv, ClientRequest
    PROVE  [Service!ServiceNext]_(Service!serviceVars)
<1>0. /\ status \in [Jobs -> Statuses] /\ coreOf \in [Jobs -> Cores]
      /\ live \subseteq Jobs /\ idGen \in Nat /\ \A j \in live : j < idGen
  BY DriverTypes
<1>1. PICK c \in Clients, j \in Jobs :
        \/ \E k \in Cores : Create(c, j, k)
        \/ \E ch \in Channels : SetSdmaChain(c, j, ch)
        \/ Enqueue(c, j)
        \/ Wait(c, j)
        \/ Cancel(c, j)
        \/ Release(c, j)
  BY DEF ClientRequest
<1>2. ASSUME NEW k \in Cores, Create(c, j, k) PROVE Service!CreateJob(j, k)
  <2>1. /\ j = idGen /\ live' = live \cup {j} /\ cause' = cause
        /\ coreOf' = [coreOf EXCEPT ![j] = k]
        /\ status' = status \/ status' = [status EXCEPT ![j] = "IDLE"]
    BY <1>2 DEF Create, AllocJob, PutToStorage, elcoreVars, coreVars
  <2>2. j \notin live /\ status[j] = "IDLE"
    BY <1>0, <2>1 DEF ServiceInv, Unborn
  <2>3. status' = status
    BY <1>0, <2>1, <2>2
  <2>4. Phase[j] = "none" /\ Phase' = [Phase EXCEPT ![j] = "IDLE"]
    BY <2>1, <2>2, <2>3 DEF Phase
  <2>5. QED
    BY <2>1, <2>4 DEF Service!CreateJob, Service!Move, Phase
<1>3. ASSUME Enqueue(c, j) PROVE Service!EnqueueJob(j)
  <2>1. /\ UNCHANGED <<live, coreOf, cause>>
        /\ status[j] = "IDLE" /\ status' = [status EXCEPT ![j] = "ENQUEUED"]
        /\ j \in live
    BY <1>3, FoundIsLive DEF Enqueue, JobEnqueue, elcoreVars, coreVars, ElcoreInv, JobInv
  <2>2. Phase[j] = "IDLE" /\ Phase' = [Phase EXCEPT ![j] = "ENQUEUED"]
    BY <1>0, <2>1 DEF Phase
  <2>3. QED
    BY <2>1, <2>2 DEF Service!EnqueueJob, Service!Move, Phase
<1>4. CASE \/ \E ch \in Channels : SetSdmaChain(c, j, ch)
           \/ Wait(c, j) \/ Cancel(c, j) \/ Release(c, j)
  BY <1>4, ServiceStutter DEF SetSdmaChain, Wait, Cancel, Release, elcoreVars, coreVars, listVars
<1>5. QED
  BY <1>1, <1>2, <1>3, <1>4 DEF Service!ServiceNext

\* The dispatch thread starts and drops jobs.
LEMMA DispatchRefines ==
    ASSUME DefaultCores, ElcoreInv, NullInv, ServiceInv, Dispatch
    PROVE  [Service!ServiceNext]_(Service!serviceVars)
<1>0. /\ status \in [Jobs -> Statuses] /\ coreOf \in [Jobs -> Cores] /\ live \subseteq Jobs
      /\ disp.pc # "idle" => disp.job \in live
      /\ disp.pc \in {"setup", "maskread", "maskwrite", "mark", "runread", "runwrite"} => disp.cur \in live
      /\ disp.pc \notin {"kill", "dequeue", "cancelled"}
  BY DriverTypes DEF NullInv, Uncancelled
<1>1. ASSUME Mark PROVE \E j \in Jobs : Service!StartJob(j)
  <2>0. PICK j \in Jobs : j = disp.cur
    BY <1>0, <1>1 DEF Mark
  <2>1. j \in live /\ status[j] = "ENQUEUED"
    BY <1>0, <1>1, <2>0 DEF Mark, ServiceInv, Starting
  <2>2. /\ UNCHANGED <<live, coreOf, cause>>
        /\ status' = [status EXCEPT ![j] = "RUNNING"]
    BY <1>1, <2>0 DEF Mark, StoreStatus, coreVars
  <2>3. ASSUME NEW k \in Jobs, Phase[k] = "RUNNING" PROVE coreOf[k] # coreOf[j]
    <3>1. k \in live /\ status[k] = "RUNNING"
      BY <2>3 DEF Phase
    <3>2. QED
      BY <2>1, <3>1, OneJob DEF ElcoreInv
  <2>4. Phase[j] = "ENQUEUED" /\ Phase' = [Phase EXCEPT ![j] = "RUNNING"]
    BY <1>0, <2>1, <2>2 DEF Phase
  <2>5. QED
    BY <2>1, <2>2, <2>3, <2>4 DEF Service!StartJob, Service!Move, Phase
<1>2. ASSUME Free, ~ UNCHANGED listVars PROVE \E j \in Jobs : Service!DropJob(j)
  <2>1. PICK j \in Jobs : j = disp.job /\ j \in live
    BY <1>0, <1>2 DEF Free
  <2>2. /\ UNCHANGED <<status, coreOf, cause>>
        /\ status[j] = "IDLE" /\ live' = live \ {j}
    BY <1>2, <2>1 DEF Free, ReleaseJob, Releasable, elcoreVars, coreVars
  <2>3. Phase[j] = "IDLE" /\ Phase' = [Phase EXCEPT ![j] = "none"]
    BY <1>0, <2>1, <2>2 DEF Phase
  <2>4. QED
    BY <2>1, <2>2, <2>3 DEF Service!DropJob, Service!Move, Phase
<1>3. CASE Free /\ UNCHANGED listVars
  BY <1>3, ServiceStutter, SMTT(40) DEF Free, listVars, elcoreVars, coreVars
<1>4. CASE Load \/ LoadFails \/ Pick \/ Setup \/ MaskRead \/ MaskWrite
  BY <1>4, ServiceStutter
     DEF Load, LoadFails, Pick, Setup, MaskRead, MaskWrite, listVars, elcoreVars, coreVars
<1>5. CASE RunRead \/ Park \/ Answer \/ FreeMem
  BY <1>5, ServiceStutter DEF RunRead, Park, Answer, FreeMem, listVars, elcoreVars, coreVars
\* The core keeps what it reports, or begins to report what was read before.
<1>r. CASE RunWrite
  <2>0. PICK c \in Cores : c = coreOf[disp.cur]
    BY <1>0, <1>r DEF RunWrite
  <2>1. /\ UNCHANGED <<status, coreOf, live>>
        /\ cause' = [cause EXCEPT ![c] = disp.dscr]
        /\ cause \in [Cores -> Causes \cup {"none"}]
        /\ disp.dscr = "none" => cause[c] = "none"
    BY <1>0, <1>r, <2>0, DriverTypes DEF RunWrite, listVars, ServiceInv, Starting
  <2>2. CASE disp.dscr = "none"
    <3>1. UNCHANGED <<status, coreOf, live, cause>>
      BY <2>1, <2>2
    <3>2. QED
      BY <3>1, ServiceStutter
  <2>3. CASE disp.dscr # "none"
    <3>1. Stopped' = Stopped \cup {c}
      BY <2>1, <2>3 DEF Stopped
    <3>2. \E d \in Cores : Service!StopCore(d)
      BY <2>1, <3>1 DEF Service!StopCore, Stopped
    <3>3. QED
      BY <3>2 DEF Service!ServiceNext
  <2>4. QED
    BY <2>2, <2>3
<1>6. CASE Mark
  BY <1>1, <1>6 DEF Service!ServiceNext
<1>7. CASE Free
  BY <1>2, <1>3, <1>7 DEF Service!ServiceNext
<1>8. ~ Kill /\ ~ Dequeue /\ ~ Cancelled
  BY <1>0 DEF Kill, Dequeue, Cancelled
<1>9. QED
  BY <1>4, <1>5, <1>r, <1>6, <1>7, <1>8 DEF Dispatch

\* The interrupt thread finishes a job whose core has stopped, and clears the core.
LEMMA InterruptRefines ==
    ASSUME DefaultCores, ElcoreInv, ServiceInv, Interrupt
    PROVE  [Service!ServiceNext]_(Service!serviceVars)
<1>0. /\ status \in [Jobs -> Statuses] /\ coreOf \in [Jobs -> Cores] /\ live \subseteq Jobs
      /\ cause \in [Cores -> Causes \cup {"none"}]
  BY DriverTypes
<1>1. ASSUME IrqRemove, status' # status
      PROVE  \E j \in Jobs : Service!FinishJob(j)
  <2>0. PICK j \in Jobs : j = irq.job /\ j \in live
    BY <1>0, <1>1, RemovedJob
  <2>1. /\ UNCHANGED <<coreOf, live, cause>>
        /\ status[j] = "RUNNING"
        /\ status' = [status EXCEPT ![j] = "IDLE"]
        /\ cause[coreOf[j]] # "none"
    BY <1>0, <1>1, <2>0, RemovedJob DEF IrqRemove, elcoreVars, coreVars
  <2>2. coreOf[j] \in Stopped
    BY <1>0, <2>1 DEF Stopped
  <2>3. Phase[j] = "RUNNING" /\ Phase' = [Phase EXCEPT ![j] = "IDLE"]
    BY <1>0, <2>0, <2>1 DEF Phase
  <2>4. QED
    BY <2>0, <2>1, <2>2, <2>3 DEF Service!FinishJob, Service!Move, Phase, Stopped
<1>2. CASE IrqRemove /\ status' = status
  BY <1>2, RemovedJob, ServiceStutter DEF IrqRemove, elcoreVars, coreVars
<1>3. ASSUME IrqReset PROVE \E c \in Cores : Service!ClearCore(c)
  <2>1. PICK c \in Cores : ResetCore(c)
    BY <1>3 DEF IrqReset
  <2>2. UNCHANGED <<status, coreOf, live>> /\ cause' = [cause EXCEPT ![c] = "none"]
    BY <1>3, <2>1 DEF IrqReset, ResetCore, listVars
  <2>3. Stopped' = Stopped \ {c}
    BY <1>0, <2>2 DEF Stopped
  <2>4. QED
    BY <2>2, <2>3 DEF Service!ClearCore, Stopped
<1>4. CASE IrqWake \/ IrqQstr \/ IrqMaskRead \/ IrqMaskWrite \/ IrqFind
  BY <1>4, ServiceStutter
     DEF IrqWake, IrqQstr, IrqMaskRead, IrqMaskWrite, IrqFind, listVars, elcoreVars, coreVars
<1>5. CASE IrqResult \/ IrqSdma \/ IrqReply
  BY <1>5, ServiceStutter DEF IrqResult, IrqSdma, IrqReply, listVars, jobVars, coreVars
<1>6. CASE IrqRemove
  BY <1>1, <1>2, <1>6 DEF Service!ServiceNext
<1>7. CASE IrqReset
  BY <1>3, <1>7 DEF Service!ServiceNext
<1>8. QED
  BY <1>4, <1>5, <1>6, <1>7 DEF Interrupt

\* A program that ends stops its core.
LEMMA StopRefines ==
    ASSUME ElcoreInv, NEW c \in Cores, CoreStops(c)
    PROVE  Service!StopCore(c)
<1>1. PICK w \in Causes : cause' = [cause EXCEPT ![c] = w]
  BY DEF CoreStops
<1>2. UNCHANGED <<status, coreOf, live>>
  BY DEF CoreStops, listVars
<1>3. Stopped' = Stopped \cup {c}
  BY <1>1, CausesAssumption, DriverTypes DEF Stopped
<1>4. QED
  BY <1>2, <1>3 DEF Service!StopCore, Stopped

\* The driver as it is built, two cores with one job each, gives clients that do
\* not cancel the service of DspService, step by step: a job is started alone on
\* its core, is finished only once that core has stopped, and no interleaving of
\* the two threads finishes, starts or frees another one.
THEOREM DriverGivesService ==
    ASSUME DefaultCores, NoCancels
    PROVE  Spec => ServiceSpec
<1>1. Init => Service!ServiceInit
  <2> SUFFICES ASSUME Init PROVE Service!ServiceInit
    OBVIOUS
  <2>1. Phase = [j \in Jobs |-> "none"]
    BY DEF Init, JobInit, Phase
  <2>2. coreOf \in [Jobs -> Cores]
    BY CoresAssumption DEF Init, JobInit
  <2>3. Stopped = {}
    BY DEF Init, Stopped
  <2>4. QED
    BY <2>1, <2>2, <2>3 DEF Service!ServiceInit, Phase, Stopped
<1>2. ElcoreInv /\ NullInv /\ ServiceInv /\ [Next]_vars
      => [Service!ServiceNext]_(Service!serviceVars)
  <2> SUFFICES ASSUME ElcoreInv, NullInv, ServiceInv, [Next]_vars
               PROVE  [Service!ServiceNext]_(Service!serviceVars)
    OBVIOUS
  <2>1. CASE UNCHANGED vars
    BY <2>1, ServiceStutter DEF vars, listVars, elcoreVars, coreVars
  <2>2. CASE \E c \in Cores : CoreStops(c)
    BY <2>2, StopRefines DEF Service!ServiceNext
  <2>3. QED
    BY <2>1, <2>2, RequestRefines, DispatchRefines, InterruptRefines DEF Next
<1>3. QED
  BY <1>1, <1>2, ServiceInvariant, PTL DEF Spec, ServiceSpec, Service!ServiceSpec
===============================================================================
