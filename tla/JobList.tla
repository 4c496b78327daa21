------------------------------- MODULE JobList -------------------------------
(***************************************************************************)
(* The job lists of the DELCORE30M driver (elcore/_elcore_job_list.c).     *)
(*                                                                         *)
(* Every job is a heap block on one of two singly linked lists that share  *)
(* the field `next': `storage' holds the jobs that do not run and `queue'  *)
(* those that were submitted.  Every operation below runs under jobs_mutex *)
(* and is one step.  A job's block and its id are one number: ids come     *)
(* from a counter and a block is never handed out twice, so a pointer kept *)
(* to a freed block never names a newer job.  A freed block keeps its      *)
(* `next' field, the last member of the structure.                         *)
(***************************************************************************)
EXTENDS Integers, FiniteSets

CONSTANTS
    MaxJobs,        \* bound: number of jobs ever allocated
    Cores,          \* DSP cores
    JobsMax,        \* core_jobs_max: memory parts, and so jobs, of each core
    NULL            \* the null pointer

Jobs == 0 .. MaxJobs - 1
Statuses == {"IDLE", "ENQUEUED", "RUNNING"}

ASSUME MaxJobsAssumption == MaxJobs \in Nat \ {0}
ASSUME CoresAssumption == Cores # {}
ASSUME JobsMaxAssumption == JobsMax \in [Cores -> Nat]
ASSUME NULLAssumption == NULL \notin Jobs

VARIABLES
    storage,        \* head of the storage list, or NULL
    queue,          \* head of the queue, or NULL
    next,           \* next[j]: the job after j on its list, or NULL
    status,         \* job_pub.status of each job
    coreOf,         \* job_pub.core of each job
    live,           \* the blocks that are allocated and not freed
    idGen,          \* id_gen, the id the next job gets
    cnt             \* core_jobs_cnt

listVars == <<storage, queue, next, status, coreOf, live, idGen, cnt>>

JobInit ==
    /\ storage = NULL
    /\ queue = NULL
    /\ next = [j \in Jobs |-> NULL]
    /\ status = [j \in Jobs |-> "IDLE"]
    /\ coreOf = [j \in Jobs |-> CHOOSE c \in Cores : TRUE]
    /\ live = {}
    /\ idGen = 0
    /\ cnt = [c \in Cores |-> 0]

-----------------------------------------------------------------------------
(***************************************************************************)
(* Lists.  nx stands for the contents of the `next' fields, h for a head.  *)
(***************************************************************************)

\* The jobs a walk from h along nx visits: the least set that holds h and is
\* closed under nx.
Reach(nx, h) ==
    {j \in Jobs : \A S \in SUBSET Jobs :
        /\ h \in S \cup {NULL}
        /\ \A k \in S : nx[k] \in S \cup {NULL}
        => j \in S}

InStorage(j) == j \in Reach(next, storage)
InQueue(j) == j \in Reach(next, queue)

\* nx after the predecessor of j on the list h was made to skip j.
Unlinked(nx, h, j) ==
    [k \in Jobs |-> IF k \in Reach(nx, h) /\ nx[k] = j THEN nx[j] ELSE nx[k]]

\* Mutant of Appended: the job is not made the end of the list.
AppendedUnended(nx, h, j) ==
    [k \in Jobs |-> IF k \in Reach(nx, h) /\ nx[k] = NULL THEN j ELSE nx[k]]

\* nx after the last job of the list h was made to point to j, which ends it.
\* The field of j is written last: j may be that last job already.
Appended(nx, h, j) ==
    [k \in Jobs |-> CASE k = j -> NULL
                      [] k # j /\ k \in Reach(nx, h) /\ nx[k] = NULL -> j
                      [] OTHER -> nx[k]]

\* job_put_to_storage on fields nx and statuses st.  Only the branch for a
\* list that already has jobs sets the status.
PutToStorage(nx, st, j) ==
    /\ storage' = IF storage = NULL THEN j ELSE storage
    /\ next' = Appended(nx, storage, j)
    /\ status' = IF storage = NULL THEN st ELSE [st EXCEPT ![j] = "IDLE"]

-----------------------------------------------------------------------------
\* alloc_job's limit, and a mutant of it that is off by one.
HasRoomOffByOne(c) == cnt[c] <= JobsMax[c]
HasRoom(c) == cnt[c] < JobsMax[c]

\* alloc_job.  A client fills in job_pub; its status is IDLE.  The call fails
\* without effect when the core already has all its jobs.
AllocJob(j, c) ==
    /\ j = idGen
    /\ HasRoom(c)
    /\ live' = live \cup {j}
    /\ idGen' = idGen + 1
    /\ coreOf' = [coreOf EXCEPT ![j] = c]
    /\ cnt' = [cnt EXCEPT ![c] = @ + 1]
    /\ PutToStorage(next, status, j)
    /\ UNCHANGED queue

\* job_enqueue: from storage to the end of the queue.  The head of the queue is
\* read before the job leaves the storage.
JobEnqueue(j) ==
    /\ status[j] = "IDLE" /\ status' = [status EXCEPT ![j] = "ENQUEUED"]
    /\ InStorage(j)
    /\ storage' = IF storage = j THEN next[j] ELSE storage
    /\ queue' = IF queue = NULL THEN j ELSE queue
    /\ next' = Appended(Unlinked(next, storage, j), queue, j)
    /\ UNCHANGED <<coreOf, live, idGen, cnt>>

\* job_remove_from_queue.  The head goes to the storage.  For a job further
\* down the code unlinks that job and puts its predecessor into the storage.
JobRemoveFromQueue(j) ==
    /\ status[j] # "IDLE"
    /\ \/ /\ queue = j
          /\ queue' = next[j]
          /\ PutToStorage(next, [status EXCEPT ![j] = "IDLE"], j)
       \/ /\ queue # j /\ UNCHANGED queue
          /\ \E p \in Jobs :
                /\ next[p] = j /\ p \in Reach(next, queue)
                /\ PutToStorage(Unlinked(next, queue, j),
                                [status EXCEPT ![j] = "IDLE"], p)
    /\ UNCHANGED <<coreOf, live, idGen, cnt>>

\* The walk of job_remove_from_queue starts from a null head: the code reads
\* through it.
WalksNull(j) == queue = NULL /\ status[j] # "IDLE"

\* release_job frees an idle job that it finds in the storage.  The mutant takes
\* any idle job.
ReleasableUnchecked(j) == status[j] = "IDLE"
Releasable(j) == status[j] = "IDLE" /\ InStorage(j)

ReleaseJob(j) ==
    /\ live' = live \ {j}
    /\ Releasable(j)
    /\ storage' = IF storage = j THEN next[j] ELSE storage
    /\ next' = Unlinked(next, storage, j)
    /\ cnt' = [cnt EXCEPT ![coreOf[j]] = @ - 1]
    /\ UNCHANGED <<queue, status, coreOf, idGen>>

\* get_job_first_enqueued: no ENQUEUED job of core c comes before j.
FirstEnqueued(c, j) ==
    /\ InQueue(j)
    /\ status[j] = "ENQUEUED"
    /\ coreOf[j] = c
    /\ \A k \in Reach(next, queue) :
          status[k] = "ENQUEUED" /\ coreOf[k] = c => k \in Reach(next, j)

\* elcore_start_core and the cancel request store the status of a job they hold
\* a pointer to, outside the mutex; the job is allocated.
StoreStatus(j, s) ==
    /\ status' = [status EXCEPT ![j] = s]
    /\ UNCHANGED <<storage, queue, next, coreOf, live, idGen, cnt>>

\* The release request looks the job up in the queue first and refuses a job it
\* finds there.  The mutant does not look.
ReleaseQueued(j) == ReleaseJob(j)
ReleaseUnqueued(j) == ReleaseJob(j) /\ ~ InQueue(j)

JobNext ==
    \/ \E j \in Jobs, c \in Cores : AllocJob(j, c)
    \/ \E j \in Jobs : JobEnqueue(j)
    \/ \E j \in live : JobRemoveFromQueue(j)
    \/ \E j \in Jobs : ReleaseUnqueued(j)
    \/ \E j \in live, s \in {"RUNNING", "IDLE"} : StoreStatus(j, s)

JobSpec == JobInit /\ [][JobNext]_listVars

-----------------------------------------------------------------------------
\* Every variable keeps its type.
JobTypeOK ==
    /\ storage \in Jobs \cup {NULL}
    /\ queue \in Jobs \cup {NULL}
    /\ next \in [Jobs -> Jobs \cup {NULL}]
    /\ status \in [Jobs -> Statuses]
    /\ coreOf \in [Jobs -> Cores]
    /\ idGen \in 0 .. MaxJobs
    /\ live \subseteq 0 .. idGen - 1
    /\ cnt \in [Cores -> Nat]

\* core_jobs_cnt is the number of allocated jobs of the core, whatever the lists
\* went through, and never more than the memory parts the core has: alloc_job's
\* limit cannot be passed and no job is counted twice or released twice.
CountsMatchLive ==
    \A c \in Cores :
        /\ cnt[c] = Cardinality({j \in live : coreOf[j] = c})
        /\ cnt[c] <= JobsMax[c]

\* Every walk along `next' ends: no set of jobs is closed under it.  The loops
\* of _elcore_job_list.c run under jobs_mutex and have no other exit.
Acyclic ==
    \A S \in SUBSET Jobs : S # {} => \E j \in S : next[j] \notin S

\* No list reaches a freed block, although one job may be on both lists and the
\* removal of a job rewires the wrong one.
NoDangling == Reach(next, storage) \cup Reach(next, queue) \subseteq live
=============================================================================
