---------------------------- MODULE JobListProofs ----------------------------
(***************************************************************************)
(* The invariants of JobList for every number of jobs and cores and every  *)
(* limit.  Reach is a least closed set, so each step is proved by          *)
(* exhibiting a set that holds the new head and is closed under the new    *)
(* `next' fields.                                                          *)
(***************************************************************************)
EXTENDS JobList, FiniteSetTheorems, TLAPS

-----------------------------------------------------------------------------
(* Walks along the lists. *)

\* A walk stays inside every set that holds its head and is closed under nx.
LEMMA ReachLeast ==
    ASSUME NEW nx, NEW h, NEW S \in SUBSET Jobs,
           h \in S \cup {NULL},
           \A k \in S : nx[k] \in S \cup {NULL}
    PROVE  Reach(nx, h) \subseteq S
BY DEF Reach

\* A walk visits its head.
LEMMA ReachHead ==
    ASSUME NEW nx, NEW h \in Jobs
    PROVE  h \in Reach(nx, h)
BY NULLAssumption DEF Reach

\* What a walk visits is closed under nx.
LEMMA ReachClosed ==
    ASSUME NEW nx \in [Jobs -> Jobs \cup {NULL}], NEW h,
           NEW k \in Reach(nx, h), nx[k] # NULL
    PROVE  nx[k] \in Reach(nx, h)
<1>1. k \in Jobs /\ nx[k] \in Jobs
  BY DEF Reach
<1>2. SUFFICES ASSUME NEW S \in SUBSET Jobs,
                      h \in S \cup {NULL},
                      \A m \in S : nx[m] \in S \cup {NULL}
               PROVE  nx[k] \in S
  BY <1>1 DEF Reach
<1>3. k \in S
  BY <1>2 DEF Reach
<1>4. QED
  BY <1>2, <1>3

\* Skipping a job keeps the fields' type.
LEMMA UnlinkedType ==
    ASSUME NEW nx \in [Jobs -> Jobs \cup {NULL}], NEW h, NEW j \in Jobs
    PROVE  Unlinked(nx, h, j) \in [Jobs -> Jobs \cup {NULL}]
BY DEF Unlinked

\* Appending a job keeps the fields' type.
LEMMA AppendedType ==
    ASSUME NEW nx \in [Jobs -> Jobs \cup {NULL}], NEW h, NEW j \in Jobs
    PROVE  Appended(nx, h, j) \in [Jobs -> Jobs \cup {NULL}]
BY DEF Appended

\* A set closed under nx that holds j stays closed when j is skipped.
LEMMA UnlinkedClosed ==
    ASSUME NEW nx \in [Jobs -> Jobs \cup {NULL}], NEW h, NEW j \in Jobs,
           NEW S \in SUBSET Jobs, j \in S,
           \A k \in S : nx[k] \in S \cup {NULL}
    PROVE  \A k \in S : Unlinked(nx, h, j)[k] \in S \cup {NULL}
BY DEF Unlinked

\* A set closed under nx that holds j stays closed when j is appended.
LEMMA AppendedClosed ==
    ASSUME NEW nx \in [Jobs -> Jobs \cup {NULL}], NEW h, NEW j \in Jobs,
           NEW S \in SUBSET Jobs, j \in S,
           \A k \in S : nx[k] \in S \cup {NULL}
    PROVE  \A k \in S : Appended(nx, h, j)[k] \in S \cup {NULL}
BY DEF Appended

-----------------------------------------------------------------------------
(* Walks end. *)

\* No set of jobs is closed under nx.
Ends(nx) == \A S \in SUBSET Jobs : S # {} => \E j \in S : nx[j] \notin S

\* Skipping a job closes no cycle: a set closed after it is, with the job,
\* closed before it.
LEMMA UnlinkedEnds ==
    ASSUME NEW nx \in [Jobs -> Jobs \cup {NULL}], NEW h, NEW j \in Jobs,
           Ends(nx)
    PROVE  Ends(Unlinked(nx, h, j))
<1> DEFINE ux == Unlinked(nx, h, j)
<1> SUFFICES ASSUME NEW S \in SUBSET Jobs, S # {}
             PROVE  \E k \in S : ux[k] \notin S
  BY DEF Ends
<1>1. \A k \in S : ux[k] = nx[k] \/ (nx[k] = j /\ ux[k] = nx[j])
  BY DEF Unlinked
<1>2. PICK k \in S \cup {j} : nx[k] \notin S \cup {j}
  BY DEF Ends
<1>3. CASE k \in S
  BY <1>1, <1>2, <1>3
<1>4. CASE k = j
  <2>1. PICK m \in S : nx[m] \notin S
    BY DEF Ends
  <2>2. ux[m] \notin S
    BY <1>1, <1>2, <1>4, <2>1
  <2>3. QED
    BY <2>2
<1>5. QED
  BY <1>2, <1>3, <1>4

\* Appending a job closes no cycle: it becomes a last job.
LEMMA AppendedEnds ==
    ASSUME NEW nx \in [Jobs -> Jobs \cup {NULL}], NEW h, NEW j \in Jobs,
           Ends(nx)
    PROVE  Ends(Appended(nx, h, j))
<1> DEFINE ax == Appended(nx, h, j)
<1> SUFFICES ASSUME NEW S \in SUBSET Jobs, S # {}
             PROVE  \E k \in S : ax[k] \notin S
  BY DEF Ends
<1>1. CASE j \in S
  BY <1>1, NULLAssumption DEF Appended
<1>2. CASE j \notin S
  <2>1. PICK k \in S : nx[k] \notin S
    BY DEF Ends
  <2>2. ax[k] = nx[k] \/ ax[k] = j
    BY <1>2 DEF Appended
  <2>3. QED
    BY <1>2, <2>1, <2>2
<1>3. QED
  BY <1>1, <1>2

-----------------------------------------------------------------------------
(* The inductive invariant. *)

\* A job that is not allocated is idle: release_job frees no other, and whoever
\* stores a status has an allocated job.
FreedAreIdle == \A j \in Jobs \ live : status[j] = "IDLE"

JobInv == JobTypeOK /\ Acyclic /\ NoDangling /\ CountsMatchLive /\ FreedAreIdle

\* Initially both lists are empty and no core has a job.
LEMMA JobInitInv == JobInit => JobInv
<1> SUFFICES ASSUME JobInit PROVE JobInv
  OBVIOUS
<1> USE DEF JobInit
<1>1. JobTypeOK
  BY MaxJobsAssumption, CoresAssumption DEF JobTypeOK, Statuses
<1>2. Acyclic
  BY NULLAssumption DEF Acyclic
<1>3. NoDangling
  <2>1. Reach(next, NULL) \subseteq {}
    BY ReachLeast
  <2>2. QED
    BY <2>1 DEF NoDangling
<1>4. CountsMatchLive
  <2> SUFFICES ASSUME NEW c \in Cores
               PROVE  cnt[c] = Cardinality({j \in live : coreOf[j] = c}) /\ cnt[c] <= JobsMax[c]
    BY DEF CountsMatchLive
  <2>1. {j \in live : coreOf[j] = c} = {}
    OBVIOUS
  <2>2. Cardinality({}) = 0
    BY FS_EmptySet
  <2>3. JobsMax[c] \in Nat
    BY JobsMaxAssumption
  <2>4. QED
    BY <2>1, <2>2, <2>3
<1>5. FreedAreIdle
  BY DEF FreedAreIdle
<1>6. QED
  BY <1>1, <1>2, <1>3, <1>4, <1>5 DEF JobInv

\* The allocated blocks are jobs.
LEMMA LiveAreJobs == ASSUME JobTypeOK PROVE live \subseteq Jobs
BY MaxJobsAssumption DEF JobTypeOK, Jobs

\* The allocated jobs of a core are a finite set.
LEMMA LiveFinite ==
    ASSUME JobTypeOK, NEW c
    PROVE  IsFiniteSet({j \in live : coreOf[j] = c})
<1>1. IsFiniteSet(0 .. idGen - 1)
  BY FS_Interval, MaxJobsAssumption DEF JobTypeOK
<1>2. QED
  BY <1>1, FS_Subset DEF JobTypeOK

\* A job that release_job frees is allocated, and its core's counter is not
\* zero: the unsigned counter does not wrap.
LEMMA ReleaseCounted ==
    ASSUME JobInv, NEW j \in Jobs, ReleaseUnqueued(j)
    PROVE  /\ j \in live
           /\ cnt[coreOf[j]] > 0
<1> USE DEF JobInv
<1>1. j \in live
  BY DEF ReleaseUnqueued, ReleaseJob, Releasable, NoDangling, InStorage
<1>2. coreOf[j] \in Cores
  BY DEF JobTypeOK
<1> DEFINE L == {k \in live : coreOf[k] = coreOf[j]}
<1>3. IsFiniteSet(L) /\ j \in L
  BY <1>1, LiveFinite
<1>4. Cardinality(L) \in Nat /\ Cardinality(L) # 0
  BY <1>3, FS_CardinalityType, FS_EmptySet
<1>5. cnt[coreOf[j]] = Cardinality(L)
  BY <1>2 DEF CountsMatchLive
<1>6. QED
  BY <1>1, <1>4, <1>5

\* The types are kept by every operation.
LEMMA JobTypeStep == JobInv /\ JobNext => JobTypeOK'
<1> SUFFICES ASSUME JobInv, JobNext PROVE JobTypeOK'
  OBVIOUS
<1>0. JobTypeOK
  BY DEF JobInv
<1> USE <1>0
<1> USE DEF JobTypeOK, Statuses
<1>1. ASSUME NEW j \in Jobs, NEW c \in Cores, AllocJob(j, c) PROVE JobTypeOK'
  <2>1. idGen' \in 0 .. MaxJobs /\ live' \subseteq 0 .. idGen' - 1
    BY <1>1, MaxJobsAssumption DEF AllocJob, Jobs
  <2>2. next' \in [Jobs -> Jobs \cup {NULL}]
    BY <1>1, AppendedType DEF AllocJob, PutToStorage
  <2>3. storage' \in Jobs \cup {NULL} /\ status' \in [Jobs -> Statuses]
    BY <1>1 DEF AllocJob, PutToStorage
  <2>4. cnt' \in [Cores -> Nat] /\ coreOf' \in [Jobs -> Cores] /\ queue' = queue
    BY <1>1 DEF AllocJob
  <2>5. QED
    BY <2>1, <2>2, <2>3, <2>4
<1>2. ASSUME NEW j \in Jobs, JobEnqueue(j) PROVE JobTypeOK'
  <2>1. next' \in [Jobs -> Jobs \cup {NULL}]
    BY <1>2, AppendedType, UnlinkedType DEF JobEnqueue
  <2>2. QED
    BY <1>2, <2>1 DEF JobEnqueue
<1>3. ASSUME NEW j \in Jobs, JobRemoveFromQueue(j) PROVE JobTypeOK'
  <2>1. UNCHANGED <<coreOf, live, idGen, cnt>>
    BY <1>3 DEF JobRemoveFromQueue
  <2>2. CASE queue = j
    <3>1. /\ queue' = next[j]
          /\ PutToStorage(next, [status EXCEPT ![j] = "IDLE"], j)
      BY <1>3, <2>2 DEF JobRemoveFromQueue
    <3>2. next' \in [Jobs -> Jobs \cup {NULL}]
      BY <3>1, AppendedType DEF PutToStorage
    <3>3. QED
      BY <2>1, <3>1, <3>2 DEF PutToStorage
  <2>3. CASE queue # j
    <3>1. PICK p \in Reach(next, queue) :
             /\ queue' = queue
             /\ PutToStorage(Unlinked(next, queue, j), [status EXCEPT ![j] = "IDLE"], p)
      BY <1>3, <2>3 DEF JobRemoveFromQueue
    <3>2. p \in Jobs
      BY DEF Reach
    <3>3. next' \in [Jobs -> Jobs \cup {NULL}]
      BY <3>1, <3>2, AppendedType, UnlinkedType DEF PutToStorage
    <3>4. QED
      BY <2>1, <3>1, <3>2, <3>3 DEF PutToStorage
  <2>4. QED
    BY <2>2, <2>3
<1>4. ASSUME NEW j \in Jobs, ReleaseUnqueued(j) PROVE JobTypeOK'
  <2>1. cnt[coreOf[j]] > 0
    BY <1>4, ReleaseCounted
  <2>2. cnt' \in [Cores -> Nat]
    BY <1>4, <2>1 DEF ReleaseUnqueued, ReleaseJob
  <2>3. next' \in [Jobs -> Jobs \cup {NULL}]
    BY <1>4, UnlinkedType DEF ReleaseUnqueued, ReleaseJob
  <2>4. QED
    BY <1>4, <2>2, <2>3 DEF ReleaseUnqueued, ReleaseJob
<1>5. ASSUME NEW j \in live, NEW s \in {"RUNNING", "IDLE"}, StoreStatus(j, s)
      PROVE JobTypeOK'
  BY <1>5 DEF StoreStatus
<1>6. QED
  BY <1>1, <1>2, <1>3, <1>4, <1>5, LiveAreJobs DEF JobNext

\* No operation closes a cycle.
LEMMA AcyclicStep == JobTypeOK /\ Acyclic /\ JobNext => Acyclic'
<1> SUFFICES ASSUME JobTypeOK, Ends(next), JobNext PROVE Ends(next')
  BY DEF Acyclic, Ends
<1>0. next \in [Jobs -> Jobs \cup {NULL}]
  BY DEF JobTypeOK
<1>1. ASSUME NEW j \in Jobs, NEW c \in Cores, AllocJob(j, c) PROVE Ends(next')
  BY <1>0, <1>1, AppendedEnds DEF AllocJob, PutToStorage
<1>2. ASSUME NEW j \in Jobs, JobEnqueue(j) PROVE Ends(next')
  BY <1>0, <1>2, AppendedEnds, UnlinkedEnds, UnlinkedType DEF JobEnqueue
<1>3. ASSUME NEW j \in Jobs, JobRemoveFromQueue(j) PROVE Ends(next')
  <2>1. CASE queue = j
    BY <1>0, <1>3, <2>1, AppendedEnds DEF JobRemoveFromQueue, PutToStorage
  <2>2. CASE queue # j
    <3>1. PICK p \in Reach(next, queue) :
             PutToStorage(Unlinked(next, queue, j), [status EXCEPT ![j] = "IDLE"], p)
      BY <1>3, <2>2 DEF JobRemoveFromQueue
    <3>2. p \in Jobs
      BY DEF Reach
    <3>3. QED
      BY <1>0, <3>1, <3>2, AppendedEnds, UnlinkedEnds, UnlinkedType DEF PutToStorage
  <2>3. QED
    BY <2>1, <2>2
<1>4. ASSUME NEW j \in Jobs, ReleaseUnqueued(j) PROVE Ends(next')
  BY <1>0, <1>4, UnlinkedEnds DEF ReleaseUnqueued, ReleaseJob
<1>5. ASSUME NEW j \in live, NEW s \in {"RUNNING", "IDLE"}, StoreStatus(j, s)
      PROVE Ends(next')
  BY <1>5 DEF StoreStatus
<1>6. QED
  BY <1>1, <1>2, <1>3, <1>4, <1>5, LiveAreJobs DEF JobNext

\* What the two lists visit.
Listed == Reach(next, storage) \cup Reach(next, queue)

\* The listed jobs are closed under `next' and hold both heads.
LEMMA ListedClosed ==
    ASSUME JobTypeOK
    PROVE  /\ Listed \in SUBSET Jobs
           /\ storage \in Listed \cup {NULL}
           /\ queue \in Listed \cup {NULL}
           /\ \A k \in Listed : next[k] \in Listed \cup {NULL}
<1>1. Listed \in SUBSET Jobs
  BY DEF Listed, Reach
<1>2. storage \in Listed \cup {NULL} /\ queue \in Listed \cup {NULL}
  BY ReachHead DEF Listed, JobTypeOK
<1>3. next \in [Jobs -> Jobs \cup {NULL}]
  BY DEF JobTypeOK
<1>4. ASSUME NEW k \in Listed PROVE next[k] \in Listed \cup {NULL}
  BY <1>3, <1>4, ReachClosed DEF Listed
<1>5. QED
  BY <1>1, <1>2, <1>4

\* No operation leaves a freed job on a list.
LEMMA NoDanglingStep == JobTypeOK /\ Acyclic /\ NoDangling /\ JobNext => NoDangling'
<1> SUFFICES ASSUME JobTypeOK, Acyclic, NoDangling, JobNext PROVE NoDangling'
  OBVIOUS
<1>0. /\ next \in [Jobs -> Jobs \cup {NULL}]
      /\ Listed \subseteq live
      /\ Listed \in SUBSET Jobs
      /\ storage \in Listed \cup {NULL}
      /\ queue \in Listed \cup {NULL}
      /\ \A k \in Listed : next[k] \in Listed \cup {NULL}
  BY ListedClosed DEF JobTypeOK, NoDangling, Listed
\* A set of allocated jobs that is closed after the step holds both lists.
<1>a. ASSUME NEW S \in SUBSET Jobs, S \subseteq live',
             storage' \in S \cup {NULL}, queue' \in S \cup {NULL},
             \A k \in S : next'[k] \in S \cup {NULL}
      PROVE  NoDangling'
  <2>1. Reach(next', storage') \subseteq S
    BY <1>a, ReachLeast
  <2>2. Reach(next', queue') \subseteq S
    BY <1>a, ReachLeast
  <2>3. QED
    BY <1>a, <2>1, <2>2 DEF NoDangling
<1>1. ASSUME NEW j \in Jobs, NEW c \in Cores, AllocJob(j, c) PROVE NoDangling'
  <2> DEFINE S == Listed \cup {j}
  <2>1. \A k \in S : next'[k] \in S \cup {NULL}
    BY <1>0, <1>1 DEF AllocJob, PutToStorage, Appended
  <2>2. S \in SUBSET Jobs /\ S \subseteq live'
    BY <1>0, <1>1 DEF AllocJob
  <2>3. storage' \in S \cup {NULL} /\ queue' \in S \cup {NULL}
    BY <1>0, <1>1 DEF AllocJob, PutToStorage
  <2> HIDE DEF S
  <2>4. QED
    BY <1>a, <2>1, <2>2, <2>3
<1>2. ASSUME NEW j \in Jobs, JobEnqueue(j) PROVE NoDangling'
  <2>1. j \in Listed
    BY <1>2 DEF JobEnqueue, InStorage, Listed
  <2>2. \A k \in Listed : next'[k] \in Listed \cup {NULL}
    BY <1>0, <1>2, <2>1, UnlinkedClosed, AppendedClosed, UnlinkedType DEF JobEnqueue
  <2>3. /\ storage' \in Listed \cup {NULL}
        /\ queue' \in Listed \cup {NULL}
        /\ live' = live
    BY <1>0, <1>2, <2>1 DEF JobEnqueue
  <2>4. QED
    BY <1>0, <1>a, <2>2, <2>3
<1>3. ASSUME NEW j \in Jobs, JobRemoveFromQueue(j) PROVE NoDangling'
  <2>1. live' = live
    BY <1>3 DEF JobRemoveFromQueue
  <2>2. CASE queue = j
    <3>1. j \in Listed
      BY <1>0, <2>2, NULLAssumption
    <3>2. /\ queue' = next[j]
          /\ PutToStorage(next, [status EXCEPT ![j] = "IDLE"], j)
      BY <1>3, <2>2 DEF JobRemoveFromQueue
    <3>3. \A k \in Listed : next'[k] \in Listed \cup {NULL}
      BY <1>0, <3>1, <3>2, AppendedClosed DEF PutToStorage
    <3>4. storage' \in Listed \cup {NULL} /\ queue' \in Listed \cup {NULL}
      BY <1>0, <3>1, <3>2 DEF PutToStorage
    <3>5. QED
      BY <1>0, <1>a, <2>1, <3>3, <3>4
  <2>3. CASE queue # j
    <3>1. PICK p \in Reach(next, queue) :
             /\ next[p] = j
             /\ queue' = queue
             /\ PutToStorage(Unlinked(next, queue, j), [status EXCEPT ![j] = "IDLE"], p)
      BY <1>3, <2>3 DEF JobRemoveFromQueue
    <3>2. p \in Listed /\ p \in Jobs
      BY <1>0 DEF Listed
    <3>3. j \in Listed
      BY <1>0, <3>1, <3>2, NULLAssumption
    <3>4. \A k \in Listed : next'[k] \in Listed \cup {NULL}
      <4> DEFINE ux == Unlinked(next, queue, j)
      <4>1. \A k \in Listed : ux[k] \in Listed \cup {NULL}
        BY <1>0, <3>3, UnlinkedClosed
      <4>2. ux \in [Jobs -> Jobs \cup {NULL}]
        BY <1>0, UnlinkedType
      <4>3. next' = Appended(ux, storage, p)
        BY <3>1 DEF PutToStorage
      <4> HIDE DEF ux
      <4>4. QED
        BY <1>0, <3>2, <4>1, <4>2, <4>3, AppendedClosed
    <3>5. storage' \in Listed \cup {NULL} /\ queue' \in Listed \cup {NULL}
      BY <1>0, <3>1, <3>2 DEF PutToStorage
    <3>6. QED
      BY <1>0, <1>a, <2>1, <3>4, <3>5
  <2>4. QED
    BY <2>2, <2>3
\* A walk of the queue does not meet the job that is freed; the walk of the
\* storage meets it once.
<1>4. ASSUME NEW j \in Jobs, ReleaseUnqueued(j) PROVE NoDangling'
  <2> DEFINE S == Listed \ {j}
  <2>1. next[j] # j
    <3>1. PICK k \in {j} : next[k] \notin {j}
      BY DEF Acyclic
    <3>2. QED
      BY <3>1
  <2>2. queue \in S \cup {NULL}
    BY <1>0, <1>4, ReachHead DEF ReleaseUnqueued, ReleaseJob, InQueue
  <2>3. /\ storage' = IF storage = j THEN next[j] ELSE storage
        /\ next' = Unlinked(next, storage, j)
        /\ live' = live \ {j}
        /\ queue' = queue
        /\ j \in Listed
    BY <1>4 DEF ReleaseUnqueued, ReleaseJob, Releasable, InStorage, Listed
  <2>4. storage' \in S \cup {NULL}
    BY <1>0, <2>1, <2>3
  <2>5. ASSUME NEW k \in S PROVE next'[k] \in S \cup {NULL}
    <3>1. CASE k \in Reach(next, storage)
      BY <1>0, <2>1, <2>3, <3>1 DEF Unlinked
    <3>2. CASE k \in Reach(next, queue)
      <4>1. next[k] # j
        BY <1>0, <1>4, <3>2, NULLAssumption, ReachClosed DEF ReleaseUnqueued, ReleaseJob, InQueue
      <4>2. QED
        BY <1>0, <2>3, <4>1 DEF Unlinked
    <3>3. QED
      BY <3>1, <3>2 DEF Listed
  <2>6. S \in SUBSET Jobs /\ S \subseteq live'
    BY <1>0, <2>3
  <2> HIDE DEF S
  <2>7. QED
    BY <1>a, <2>2, <2>3, <2>4, <2>5, <2>6
<1>5. ASSUME NEW j \in live, NEW s \in {"RUNNING", "IDLE"}, StoreStatus(j, s)
      PROVE NoDangling'
  BY <1>5 DEF StoreStatus, NoDangling, Reach
<1>6. QED
  BY <1>1, <1>2, <1>3, <1>4, <1>5, LiveAreJobs DEF JobNext

\* alloc_job and release_job keep the counters at the number of allocated jobs.
LEMMA CountsStep == JobInv /\ JobNext => CountsMatchLive'
<1> SUFFICES ASSUME JobInv, JobNext, NEW c \in Cores
             PROVE  /\ cnt'[c] = Cardinality({k \in live' : coreOf'[k] = c})
                    /\ cnt'[c] <= JobsMax[c]
  BY DEF CountsMatchLive
<1> DEFINE L == {k \in live : coreOf[k] = c}
<1> DEFINE LL == {k \in live' : coreOf'[k] = c}
<1>0. /\ cnt[c] = Cardinality(L)
      /\ cnt[c] <= JobsMax[c]
      /\ cnt[c] \in Nat
      /\ JobsMax[c] \in Nat
      /\ IsFiniteSet(L)
      /\ JobTypeOK
  BY LiveFinite, JobsMaxAssumption DEF JobInv, CountsMatchLive, JobTypeOK
<1>1. ASSUME NEW j \in Jobs, NEW d \in Cores, AllocJob(j, d)
      PROVE  cnt'[c] = Cardinality(LL) /\ cnt'[c] <= JobsMax[c]
  <2>1. j \notin live
    BY <1>0, <1>1, MaxJobsAssumption DEF AllocJob, JobTypeOK
  <2>2. live \subseteq Jobs
    BY <1>0, MaxJobsAssumption DEF JobTypeOK, Jobs
  <2>3. CASE d = c
    <3>1. LL = L \cup {j}
      BY <1>0, <1>1, <2>1, <2>2, <2>3 DEF AllocJob, JobTypeOK
    <3>2. Cardinality(L \cup {j}) = Cardinality(L) + 1
      BY <1>0, <2>1, FS_AddElement
    <3>3. cnt'[c] = cnt[c] + 1 /\ cnt[c] < JobsMax[c]
      BY <1>0, <1>1, <2>3 DEF AllocJob, HasRoom, JobTypeOK
    <3> HIDE DEF L, LL
    <3>4. QED
      BY <1>0, <3>1, <3>2, <3>3
  <2>4. CASE d # c
    <3>1. LL = L
      BY <1>0, <1>1, <2>1, <2>2, <2>4 DEF AllocJob, JobTypeOK
    <3>2. cnt'[c] = cnt[c]
      BY <1>0, <1>1, <2>4 DEF AllocJob, JobTypeOK
    <3>3. QED
      BY <1>0, <3>1, <3>2
  <2>5. QED
    BY <2>3, <2>4
<1>2. ASSUME NEW j \in Jobs, ReleaseUnqueued(j)
      PROVE  cnt'[c] = Cardinality(LL) /\ cnt'[c] <= JobsMax[c]
  <2>1. j \in live
    BY <1>2, ReleaseCounted
  <2>2. /\ live' = live \ {j}
        /\ coreOf' = coreOf
        /\ cnt' = [cnt EXCEPT ![coreOf[j]] = @ - 1]
    BY <1>2 DEF ReleaseUnqueued, ReleaseJob
  <2>3. CASE coreOf[j] = c
    <3>1. LL = L \ {j} /\ j \in L
      BY <2>1, <2>2, <2>3
    <3>2. Cardinality(L \ {j}) = Cardinality(L) - 1
      BY <1>0, <3>1, FS_RemoveElement
    <3>3. cnt'[c] = cnt[c] - 1
      BY <1>0, <2>2, <2>3 DEF JobTypeOK
    <3> HIDE DEF L, LL
    <3>4. QED
      BY <1>0, <3>1, <3>2, <3>3
  <2>4. CASE coreOf[j] # c
    <3>1. LL = L
      BY <2>2, <2>4
    <3>2. cnt'[c] = cnt[c]
      BY <1>0, <2>2, <2>4 DEF JobTypeOK
    <3>3. QED
      BY <1>0, <3>1, <3>2
  <2>5. QED
    BY <2>3, <2>4
<1>3. ASSUME UNCHANGED <<coreOf, live, cnt>>
      PROVE  cnt'[c] = Cardinality(LL) /\ cnt'[c] <= JobsMax[c]
  BY <1>0, <1>3
<1>4. QED
  BY <1>1, <1>2, <1>3 DEF JobNext, JobEnqueue, JobRemoveFromQueue, StoreStatus

\* Only an allocated job gets a status other than idle, and only an idle one is
\* freed.
LEMMA FreedIdleStep == JobInv /\ JobNext => FreedAreIdle'
<1> SUFFICES ASSUME JobInv, JobNext, NEW i \in Jobs \ live'
             PROVE  status'[i] = "IDLE"
  BY DEF FreedAreIdle
<1>0. /\ JobTypeOK /\ NoDangling /\ status \in [Jobs -> Statuses] /\ i \in Jobs
      /\ \A k \in Jobs \ live : status[k] = "IDLE"
  BY DEF JobInv, JobTypeOK, FreedAreIdle
<1>2. ASSUME NEW j \in Jobs, NEW c \in Cores, AllocJob(j, c) PROVE status'[i] = "IDLE"
  BY <1>0, <1>2 DEF AllocJob, PutToStorage
<1>3. ASSUME NEW j \in Jobs, JobEnqueue(j) PROVE status'[i] = "IDLE"
  <2>1. j \in live /\ live' = live /\ status' = [status EXCEPT ![j] = "ENQUEUED"]
    BY <1>0, <1>3 DEF JobEnqueue, InStorage, NoDangling
  <2>2. QED
    BY <1>0, <2>1
<1>4. ASSUME NEW j \in Jobs, JobRemoveFromQueue(j) PROVE status'[i] = "IDLE"
  <2>1. /\ live' = live
        /\ \/ status' = [status EXCEPT ![j] = "IDLE"]
           \/ \E p : status' = [[status EXCEPT ![j] = "IDLE"] EXCEPT ![p] = "IDLE"]
    BY <1>4 DEF JobRemoveFromQueue, PutToStorage
  <2>2. QED
    BY <1>0, <2>1
<1>5. ASSUME NEW j \in Jobs, ReleaseUnqueued(j) PROVE status'[i] = "IDLE"
  BY <1>0, <1>5 DEF ReleaseUnqueued, ReleaseJob, Releasable
<1>6. ASSUME NEW j \in live, NEW s \in {"RUNNING", "IDLE"}, StoreStatus(j, s)
      PROVE  status'[i] = "IDLE"
  BY <1>0, <1>6 DEF StoreStatus
<1>7. live \subseteq Jobs
  BY <1>0, LiveAreJobs
<1>8. QED
  BY <1>2, <1>3, <1>4, <1>5, <1>6, <1>7 DEF JobNext

\* The conjunction is inductive.
LEMMA JobInvStep == JobInv /\ [JobNext]_listVars => JobInv'
<1> SUFFICES ASSUME JobInv, [JobNext]_listVars PROVE JobInv'
  OBVIOUS
<1>1. CASE JobNext
  BY <1>1, JobTypeStep, AcyclicStep, NoDanglingStep, CountsStep, FreedIdleStep DEF JobInv
<1>2. CASE UNCHANGED listVars
  BY <1>2 DEF JobInv, listVars, JobTypeOK, Acyclic, NoDangling, CountsMatchLive, Reach,
     FreedAreIdle
<1>3. QED
  BY <1>1, <1>2

\* The inductive invariant holds in every reachable state.
THEOREM JobInvariant == JobSpec => []JobInv
<1>1. JobInit => JobInv
  BY JobInitInv
<1>2. JobInv /\ [JobNext]_listVars => JobInv'
  BY JobInvStep
<1>3. QED
  BY <1>1, <1>2, PTL DEF JobSpec

\* The variables of the lists keep their types; in particular the unsigned
\* counters of release_job never go below zero.
THEOREM JobTypeCorrect == JobSpec => []JobTypeOK
<1>1. JobInv => JobTypeOK
  BY DEF JobInv
<1>2. QED
  BY <1>1, JobInvariant, PTL

\* The loops of _elcore_job_list.c terminate: the `next' fields hold no cycle.
THEOREM ListsEnd == JobSpec => []Acyclic
<1>1. JobInv => Acyclic
  BY DEF JobInv
<1>2. QED
  BY <1>1, JobInvariant, PTL

\* Neither list reaches a job that release_job freed.
THEOREM ListsHoldAllocated == JobSpec => []NoDangling
<1>1. JobInv => NoDangling
  BY DEF JobInv
<1>2. QED
  BY <1>1, JobInvariant, PTL

\* core_jobs_cnt counts the allocated jobs of its core and keeps its limit.
THEOREM CountsCorrect == JobSpec => []CountsMatchLive
<1>1. JobInv => CountsMatchLive
  BY DEF JobInv
<1>2. QED
  BY <1>1, JobInvariant, PTL
=============================================================================
