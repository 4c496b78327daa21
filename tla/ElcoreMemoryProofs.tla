-------------------------- MODULE ElcoreMemoryProofs --------------------------
(* Two jobs of a core have no byte of its memory in common: the parts are      *)
(* exclusive (ElcoreProofs), and the arithmetic of DspMemory keeps apart what  *)
(* is put into different parts, for any size of banks and stack.               *)
EXTENDS ElcoreMemory, ElcoreProofs, FiniteSetTheorems

\* p of n equal parts of a memory of size X end inside it, and an earlier part
\* ends where a later one begins or before.
LEMMA PartsEnd ==
    ASSUME NEW n \in Divisions, NEW X \in Nat, NEW p \in 1 .. n
    PROVE  /\ X \div n \in Nat
           /\ (p - 1) * (X \div n) \in Nat
           /\ (p - 1) * (X \div n) + X \div n <= X
<1>1. X \div n \in Nat /\ n * (X \div n) <= X
  <2>1. CASE n = 1 BY <2>1
  <2>2. CASE n = 2 BY <2>2
  <2>3. CASE n = 4 BY <2>3
  <2>4. CASE n = 8 BY <2>4
  <2>5. QED BY <2>1, <2>2, <2>3, <2>4 DEF Divisions
<1>2. n \in Nat /\ p \in Nat /\ p >= 1 /\ p <= n
  BY DEF Divisions
<1> DEFINE z == X \div n
<1>3. z \in Nat /\ n * z <= X
  BY <1>1
<1> HIDE DEF z
<1>4. (p - 1) * z \in Nat /\ (p - 1) * z + z = p * z /\ p * z <= n * z
  BY <1>2, <1>3
<1>5. QED
  BY <1>3, <1>4, <1>2 DEF z

\* A part ends before every later one begins.
LEMMA PartsOrdered ==
    ASSUME NEW z \in Nat, NEW p \in Nat, NEW q \in Nat, p < q, p >= 1
    PROVE  (p - 1) * z + z <= (q - 1) * z
<1>1. (p - 1) * z + z = p * z /\ q - 1 >= p
  OBVIOUS
<1>2. p * z <= (q - 1) * z
  BY <1>1
<1>3. QED
  BY <1>1, <1>2
-----------------------------------------------------------------------------
(* Parts are handed out within the division, and busy bits belong to jobs.    *)

\* A job's part is one of its core's, and every busy bit has a created job whose
\* release will clear it.
PartsWithin ==
    /\ \A j \in Jobs : part[j] \in 0 .. JobsMax[coreOf[j]]
    /\ \A c \in Cores : \A p \in partBusy[c] :
          \E k \in known : coreOf[k] = c /\ part[k] = p /\ p # 0

\* Steps that give and return no part.
LEMMA WithinKept ==
    ASSUME PartsWithin, UNCHANGED <<part, partBusy, coreOf, known>>
    PROVE  PartsWithin'
BY DEF PartsWithin

\* At first no job has a part.
LEMMA InitWithin == Init => PartsWithin
<1> SUFFICES ASSUME Init PROVE PartsWithin
  OBVIOUS
<1>1. coreOf \in [Jobs -> Cores] /\ part = [j \in Jobs |-> 0]
      /\ partBusy = [c \in Cores |-> {}]
  BY InitInv DEF Init, ElcoreInv, TypeOK, JobTypeOK
<1>2. QED
  BY <1>1, JobsMaxAssumption DEF PartsWithin

\* Every step keeps parts within the division.
LEMMA WithinStep ==
    ASSUME ElcoreInv, PartsWithin, [Next]_vars
    PROVE  PartsWithin'
<1>0. /\ PartsOfLive /\ PartsExclusive /\ JobTypeOK
      /\ part \in [Jobs -> Nat]
      /\ partBusy \in [Cores -> SUBSET Nat]
      /\ coreOf \in [Jobs -> Cores]
      /\ known \subseteq Jobs
      /\ live \subseteq 0 .. idGen - 1
      /\ idGen \in 0 .. MaxJobs
      /\ disp.pc # "idle" => disp.job \in live
      /\ live \subseteq Jobs
      /\ JobsMax \in [Cores -> Nat]
  BY LiveAreJobs, JobsMaxAssumption DEF ElcoreInv, TypeOK, JobTypeOK, PointersOK
<1>1. CASE ClientRequest
  <2>1. PICK c \in Clients, j \in Jobs :
          \/ \E k \in Cores : Create(c, j, k)
          \/ \E ch \in Channels : SetSdmaChain(c, j, ch)
          \/ Enqueue(c, j)
          \/ Wait(c, j)
          \/ Cancel(c, j)
          \/ Release(c, j)
    BY <1>1 DEF ClientRequest
  <2>2. ASSUME NEW k \in Cores, Create(c, j, k)
        PROVE  PartsWithin'
    <3>1. /\ UNCHANGED <<part, partBusy, known>>
          /\ j = idGen
          /\ coreOf' = [coreOf EXCEPT ![j] = k]
      BY <2>2 DEF Create, AllocJob, elcoreVars, jobVars
    <3>2. j \notin live /\ j \notin known
      BY <1>0, <3>1 DEF PartsOfLive
    <3>3. part[j] = 0
      BY <1>0, <3>2 DEF PartsOfLive
    <3>4. QED
      BY <1>0, <3>1, <3>2, <3>3 DEF PartsWithin
  <2>3. CASE ~ \E k \in Cores : Create(c, j, k)
    BY <2>1, <2>3, WithinKept
       DEF SetSdmaChain, Enqueue, JobEnqueue, Wait, Cancel, Release, elcoreVars,
           jobVars, listVars
  <2>4. QED
    BY <2>2, <2>3
<1>2. CASE Load
  <2> DEFINE j == disp.job
  <2>1. PICK p \in Parts(coreOf[j]) :
           /\ part' = [part EXCEPT ![j] = p]
           /\ partBusy' = [partBusy EXCEPT ![coreOf[j]] = @ \cup {p}]
    BY <1>2 DEF Load
  <2>2. /\ j \in Jobs /\ j \notin known
        /\ UNCHANGED coreOf
        /\ known' = known \cup {j}
    BY <1>0, <1>2 DEF Load, PartsOfLive, listVars
  <2> HIDE DEF j
  <2>3. p \in 0 .. JobsMax[coreOf[j]] /\ p # 0
    BY <1>0, <2>1, <2>2 DEF Parts
  <2>4. \A k \in Jobs : part'[k] \in 0 .. JobsMax[coreOf'[k]]
    BY <1>0, <2>1, <2>2, <2>3 DEF PartsWithin
  <2>5. ASSUME NEW c \in Cores, NEW q \in partBusy'[c]
        PROVE  \E k \in known' : coreOf'[k] = c /\ part'[k] = q /\ q # 0
    <3>1. CASE c = coreOf[j] /\ q = p
      BY <1>0, <2>1, <2>2, <2>3, <3>1
    <3>2. CASE ~ (c = coreOf[j] /\ q = p)
      <4>1. q \in partBusy[c]
        BY <1>0, <2>1, <2>2, <2>5, <3>2
      <4>2. PICK k \in known : coreOf[k] = c /\ part[k] = q /\ q # 0
        BY <4>1 DEF PartsWithin
      <4>3. part'[k] = q
        BY <1>0, <2>1, <2>2, <4>2
      <4>4. QED
        BY <2>2, <4>2, <4>3
    <3>3. QED
      BY <3>1, <3>2
  <2>6. QED
    BY <2>4, <2>5 DEF PartsWithin
<1>3. CASE FreeMem
  <2> DEFINE j == disp.job
  <2>1. /\ part' = [part EXCEPT ![j] = 0]
        /\ partBusy' = [partBusy EXCEPT ![coreOf[j]] = @ \ {part[j]}]
        /\ j \in Jobs
        /\ UNCHANGED <<coreOf, known>>
    BY <1>0, <1>3 DEF FreeMem, listVars
  <2> HIDE DEF j
  <2>2. \A k \in Jobs : part'[k] \in 0 .. JobsMax[coreOf'[k]]
    BY <1>0, <2>1 DEF PartsWithin
  <2>3. ASSUME NEW c \in Cores, NEW q \in partBusy'[c]
        PROVE  \E k \in known' : coreOf'[k] = c /\ part'[k] = q /\ q # 0
    <3>1. q \in partBusy[c] /\ (c = coreOf[j] => q # part[j])
      BY <1>0, <2>1, <2>3
    <3>2. PICK k \in known : coreOf[k] = c /\ part[k] = q /\ q # 0
      BY <3>1 DEF PartsWithin
    <3>3. k # j
      BY <3>1, <3>2
    <3>4. part'[k] = q
      BY <1>0, <2>1, <3>2, <3>3
    <3>5. QED
      BY <2>1, <3>2, <3>4
  <2>4. QED
    BY <2>2, <2>3 DEF PartsWithin
\* The job of a failed creation is not known, whatever part it is left with.
<1>4. CASE LoadFails
  <2> DEFINE j == disp.job
  <2>1. /\ UNCHANGED <<coreOf, partBusy, known>>
        /\ j \in Jobs /\ j \notin known
    BY <1>0, <1>4 DEF LoadFails, PartsOfLive, listVars
  <2>2. part' = part \/ \E p \in Parts(coreOf[j]) : part' = [part EXCEPT ![j] = p]
    BY <1>4 DEF LoadFails, FreePart
  <2> HIDE DEF j
  <2>3. \A k \in Jobs : part'[k] \in 0 .. JobsMax[coreOf'[k]]
    BY <1>0, <2>1, <2>2 DEF PartsWithin, Parts
  <2>4. \A k \in known : part'[k] = part[k]
    BY <1>0, <2>1, <2>2
  <2>5. QED
    BY <2>1, <2>3, <2>4 DEF PartsWithin
<1>5. CASE Dispatch /\ ~ Load /\ ~ LoadFails /\ ~ FreeMem
  <2>1. CASE Pick \/ Setup \/ MaskRead \/ MaskWrite \/ Mark \/ RunRead \/ RunWrite
    BY <2>1, WithinKept DEF Pick, Setup, MaskRead, MaskWrite, Mark, RunRead, RunWrite, StoreStatus,
       listVars, elcoreVars, jobVars
  <2>2. CASE Park \/ Answer \/ Kill \/ Cancelled
    BY <2>2, WithinKept DEF Park, Answer, Kill, Cancelled, StoreStatus, listVars,
       elcoreVars, jobVars
  <2>3. CASE Dequeue
    BY <2>3, WithinKept DEF Dequeue, CallRemove, JobRemoveFromQueue, listVars,
       elcoreVars, jobVars
  <2>4. CASE Free
    BY <2>4, WithinKept DEF Free, ReleaseJob, listVars, elcoreVars, jobVars
  <2>5. QED
    BY <1>5, <2>1, <2>2, <2>3, <2>4 DEF Dispatch
<1>6. CASE IrqRemove
  BY <1>6, WithinKept DEF IrqRemove, CallRemove, JobRemoveFromQueue, listVars,
     elcoreVars, jobVars
<1>7. CASE Interrupt /\ ~ IrqRemove
  BY <1>7, WithinKept DEF Interrupt, IrqWake, IrqQstr, IrqMaskRead, IrqMaskWrite,
     IrqFind, IrqResult, IrqSdma, IrqReset, IrqReply, listVars, elcoreVars, jobVars
<1>8. CASE (\E c \in Cores : CoreStops(c)) \/ UNCHANGED vars
  BY <1>8, WithinKept DEF CoreStops, vars, listVars, elcoreVars, jobVars
<1>9. QED
  BY <1>1, <1>2, <1>3, <1>4, <1>5, <1>6, <1>7, <1>8 DEF Next

\* The driver's invariant and this one hold in every reachable state.
THEOREM WithinInvariant == Spec => [](ElcoreInv /\ PartsWithin)
<1>1. ElcoreInv /\ PartsWithin /\ [Next]_vars => PartsWithin'
  BY WithinStep
<1>2. QED
  BY InitWithin, <1>1, ElcoreInvariant, PTL DEF Spec

-----------------------------------------------------------------------------
(* The results. *)

\* Among free parts there is a first one, which elcore_set_prog takes.
LEMMA LeastPart ==
    ASSUME NEW n \in Divisions, NEW T \in SUBSET (1 .. n), T # {}
    PROVE  \E x \in T : \A y \in T : x <= y
<1>1. T \subseteq {1, 2, 3, 4, 5, 6, 7, 8}
  BY DEF Divisions
<1>2. CASE 1 \in T BY <1>1, <1>2
<1>3. CASE 1 \notin T /\ 2 \in T BY <1>1, <1>3
<1>4. CASE T \cap {1, 2} = {} /\ 3 \in T BY <1>1, <1>4
<1>5. CASE T \cap {1, 2, 3} = {} /\ 4 \in T BY <1>1, <1>5
<1>6. CASE T \cap {1, 2, 3, 4} = {} /\ 5 \in T BY <1>1, <1>6
<1>7. CASE T \cap {1, 2, 3, 4, 5} = {} /\ 6 \in T BY <1>1, <1>7
<1>8. CASE T \subseteq {7, 8} /\ 7 \in T BY <1>8
<1>9. CASE T \subseteq {8}
  <2>1. \E t : t \in T
    OBVIOUS
  <2>2. 8 \in T
    BY <1>9, <2>1
  <2>3. QED
    BY <1>9, <2>2
<1>10. QED BY <1>1, <1>2, <1>3, <1>4, <1>5, <1>6, <1>7, <1>8, <1>9

\* When all parts of a core are busy it has a job for each of them: one more
\* job than alloc_job has let in.
LEMMA SomePartFree ==
    ASSUME ElcoreInv, PartsWithin, disp.pc = "load"
    PROVE  Parts(coreOf[disp.job]) \ partBusy[coreOf[disp.job]] # {}
<1> DEFINE j == disp.job
           c == coreOf[j]
           jobs == {k \in live : coreOf[k] = c}
<1>1. /\ j \in live /\ c \in Cores /\ part[j] = 0
      /\ JobsMax[c] \in Nat /\ j \in jobs
      /\ Cardinality(jobs) <= JobsMax[c]
      /\ jobs \subseteq 0 .. MaxJobs /\ MaxJobs \in Nat
  <2>1. /\ j \in live /\ live \subseteq Jobs /\ coreOf \in [Jobs -> Cores]
        /\ part[j] = 0 /\ JobsMax \in [Cores -> Nat] /\ MaxJobs \in Nat
    BY LiveAreJobs, JobsMaxAssumption, MaxJobsAssumption
       DEF ElcoreInv, PointersOK, PartsOfLive, TypeOK, JobTypeOK
  <2>2. c \in Cores
    BY <2>1
  <2>3. cnt[c] = Cardinality(jobs) /\ cnt[c] <= JobsMax[c]
    BY <2>2 DEF ElcoreInv, JobInv, CountsMatchLive
  <2>4. jobs \subseteq 0 .. MaxJobs /\ j \in jobs
    <3>1. jobs \subseteq Jobs /\ j \in jobs
      BY <2>1
    <3>2. Jobs \subseteq 0 .. MaxJobs
      BY <2>1 DEF Jobs
    <3>3. QED
      BY <3>1, <3>2
  <2>5. QED
    BY <2>1, <2>2, <2>3, <2>4
<1> HIDE DEF j, c
<1> SUFFICES ASSUME Parts(c) \subseteq partBusy[c]
             PROVE  FALSE
  BY DEF j, c
<1> DEFINE f == [p \in Parts(c) |-> CHOOSE k \in known : coreOf[k] = c /\ part[k] = p]
<1>2. \A p \in Parts(c) : f[p] \in known /\ coreOf[f[p]] = c /\ part[f[p]] = p /\ p # 0
  <2> SUFFICES ASSUME NEW p \in Parts(c)
               PROVE  f[p] \in known /\ coreOf[f[p]] = c /\ part[f[p]] = p /\ p # 0
    OBVIOUS
  <2>1. \E k \in known : coreOf[k] = c /\ part[k] = p /\ p # 0
    BY <1>1 DEF PartsWithin
  <2>2. QED
    BY <2>1
<1>3. known \subseteq Jobs /\ \A k \in Jobs : part[k] # 0 => k \in live
  BY DEF ElcoreInv, TypeOK, PartsOfLive
<1>4. f \in [Parts(c) -> jobs \ {j}]
  <2>1. \A p \in Parts(c) : f[p] \in jobs \ {j}
    BY <1>1, <1>2, <1>3
  <2>2. QED
    BY <2>1
<1> HIDE DEF f, jobs
<1>5. IsFiniteSet(jobs \ {j}) /\ Cardinality(jobs \ {j}) < JobsMax[c]
  <2>1. IsFiniteSet(jobs)
    <3>1. IsFiniteSet(0 .. MaxJobs)
      BY <1>1, FS_Interval
    <3>2. QED
      BY <1>1, <3>1, FS_Subset
  <2>2. Cardinality(jobs) \in Nat
    BY <2>1, FS_CardinalityType
  <2>3. IsFiniteSet(jobs \ {j}) /\ Cardinality(jobs \ {j}) = Cardinality(jobs) - 1
    BY <1>1, <2>1, FS_RemoveElement
  <2>4. QED
    BY <1>1, <2>2, <2>3
<1>6. IsFiniteSet(Parts(c)) /\ Cardinality(Parts(c)) = JobsMax[c]
  <2>1. Parts(c) = 1 .. JobsMax[c]
    BY DEF Parts
  <2>2. IsFiniteSet(1 .. JobsMax[c])
        /\ Cardinality(1 .. JobsMax[c]) = IF 1 > JobsMax[c] THEN 0 ELSE JobsMax[c] - 1 + 1
    <3>1. 1 \in Int /\ JobsMax[c] \in Int
      BY <1>1
    <3>2. QED
      BY <3>1, FS_Interval
  <2>3. QED
    BY <1>1, <2>1, <2>2
<1>7. \E p, q \in Parts(c) : p # q /\ f[p] = f[q]
  BY <1>4, <1>5, <1>6, FS_PigeonHole
<1>8. QED
  BY <1>2, <1>7 DEF f

\* A job that alloc_job has let in finds a free part: the limit of jobs on a core
\* and the busy bits of its parts, kept by different functions, agree.
THEOREM AdmittedFinds == Spec => []AdmittedFindsPart
<1>1. ElcoreInv /\ PartsWithin => AdmittedFindsPart
  <2> SUFFICES ASSUME ElcoreInv, PartsWithin, disp.pc = "load"
               PROVE  \E p \in Parts(coreOf[disp.job]) :
                         FreePart(coreOf[disp.job], p)
    BY DEF AdmittedFindsPart
  <2> DEFINE free == Parts(coreOf[disp.job]) \ partBusy[coreOf[disp.job]]
  <2>1. free # {} /\ free \in SUBSET (1 .. JobsMax[coreOf[disp.job]])
    BY SomePartFree DEF Parts
  <2>4. JobsMax[coreOf[disp.job]] \in Divisions
    BY DivisionAssumption, LiveAreJobs DEF ElcoreInv, PointersOK, TypeOK, JobTypeOK
  <2> HIDE DEF free
  <2>2. PICK p \in free : \A q \in free : p <= q
    BY <2>1, <2>4, LeastPart
  <2>3. QED
    BY <2>2 DEF free, FreePart
<1>2. QED
  BY <1>1, WithinInvariant, PTL

\* The arithmetic of it: code of x and y bytes in parts of C bytes from a and b,
\* data of u and v bytes in parts of D bytes from d and e.
LEMMA AreasApart ==
    ASSUME NEW B \in Nat, NEW S \in Nat, NEW C \in Nat, NEW D \in Nat,
           NEW a \in Nat, NEW b \in Nat, NEW d \in Nat, NEW e \in Nat,
           NEW x \in 0 .. C, NEW y \in 0 .. C, NEW u \in 0 .. D, NEW v \in 0 .. D,
           a + C <= B, d + D <= 4 * B - S
    PROVE  /\ (a .. a + x - 1) \subseteq (0 .. B - 1)
           /\ (a .. a + x - 1) \cap (B + e .. B + e + v - 1) = {}
           /\ (B + d .. B + d + u - 1) \cap (5 * B - S .. 5 * B - 1) = {}
           /\ a + C <= b \/ b + C <= a =>
                (a .. a + x - 1) \cap (b .. b + y - 1) = {}
           /\ d + D <= e \/ e + D <= d =>
                (B + d .. B + d + u - 1) \cap (B + e .. B + e + v - 1) = {}
<1>1. (a .. a + x - 1) \subseteq (0 .. B - 1)
  OBVIOUS
<1>2. \A i \in a .. a + x - 1 : i \notin B + e .. B + e + v - 1
  OBVIOUS
<1>3. \A i \in B + d .. B + d + u - 1 : i \notin 5 * B - S .. 5 * B - 1
  OBVIOUS
<1>4. a + C <= b \/ b + C <= a =>
        \A i \in a .. a + x - 1 : i \notin b .. b + y - 1
  OBVIOUS
<1>5. d + D <= e \/ e + D <= d =>
        \A i \in B + d .. B + d + u - 1 : i \notin B + e .. B + e + v - 1
  OBVIOUS
<1>6. QED
  BY ONLY <1>1, <1>2, <1>3, <1>4, <1>5, Zenon

\* The same of the code and the data of two programs.
LEMMA PartsApart ==
    ASSUME NEW n \in Divisions, NEW p \in 1 .. n, NEW q \in 1 .. n,
           NEW g \in [code : Nat, data : Nat], NEW h \in [code : Nat, data : Nat],
           Fits(n, g), Fits(n, h)
    PROVE  /\ Code(n, p, g) \subseteq Pram
           /\ Code(n, p, g) \cap Data(n, q, h) = {}
           /\ Data(n, p, g) \cap Stack = {}
           /\ p # q => /\ Code(n, p, g) \cap Code(n, q, h) = {}
                       /\ Data(n, p, g) \cap Data(n, q, h) = {}
<1> DEFINE X == 4 * BankSize - StackSize
           C == PramPart(n)
           D == XyramPart(n)
<1>1. BankSize \in Nat /\ StackSize \in Nat /\ X \in Nat
  BY MemoryAssumption
<1>2. C = BankSize \div n /\ D = X \div n
  BY DEF PramPart, XyramPart
<1>3. p \in Nat /\ q \in Nat /\ p >= 1 /\ q >= 1
  BY DEF Divisions
<1>4. g.code \in 0 .. C /\ h.code \in 0 .. C /\ g.data \in 0 .. D /\ h.data \in 0 .. D
  <2>1. C \in Nat /\ D \in Nat
    <3> HIDE DEF X
    <3>1. QED BY <1>1, <1>2, PartsEnd
  <2>2. QED
    BY <2>1 DEF Fits
<1> HIDE DEF X, C, D
<1>5. /\ C \in Nat /\ (p - 1) * C \in Nat /\ (q - 1) * C \in Nat
      /\ (p - 1) * C + C <= BankSize
  BY <1>1, <1>2, PartsEnd
<1>6. /\ D \in Nat /\ (p - 1) * D \in Nat /\ (q - 1) * D \in Nat
      /\ (p - 1) * D + D <= X
  BY <1>1, <1>2, PartsEnd
<1>7. /\ p < q => (p - 1) * C + C <= (q - 1) * C /\ (p - 1) * D + D <= (q - 1) * D
      /\ q < p => (q - 1) * C + C <= (p - 1) * C /\ (q - 1) * D + D <= (p - 1) * D
  BY <1>3, <1>5, <1>6, PartsOrdered
<1> DEFINE a == (p - 1) * C
           b == (q - 1) * C
           d == (p - 1) * D
           e == (q - 1) * D
           x == g.code
           y == h.code
           u == g.data
           v == h.data
<1>8. /\ Code(n, p, g) = a .. a + x - 1
      /\ Code(n, q, h) = b .. b + y - 1
      /\ Data(n, p, g) = BankSize + d .. BankSize + d + u - 1
      /\ Data(n, q, h) = BankSize + e .. BankSize + e + v - 1
  BY DEF Code, Data, CodeFrom, DataFrom, C, D
<1>9. /\ a \in Nat /\ b \in Nat /\ d \in Nat /\ e \in Nat
      /\ a + C <= BankSize /\ d + D <= 4 * BankSize - StackSize
      /\ p < q => a + C <= b /\ d + D <= e
      /\ q < p => b + C <= a /\ e + D <= d
      /\ x \in 0 .. C /\ y \in 0 .. C /\ u \in 0 .. D /\ v \in 0 .. D
  BY <1>4, <1>5, <1>6, <1>7 DEF X
<1> HIDE DEF a, b, d, e, x, y, u, v
<1>10. p # q => (a + C <= b \/ b + C <= a) /\ (d + D <= e \/ e + D <= d)
  BY <1>3, <1>9
<1>11. /\ (a .. a + x - 1) \subseteq (0 .. BankSize - 1)
       /\ (a .. a + x - 1) \cap (BankSize + e .. BankSize + e + v - 1) = {}
       /\ (BankSize + d .. BankSize + d + u - 1)
            \cap (5 * BankSize - StackSize .. 5 * BankSize - 1) = {}
       /\ a + C <= b \/ b + C <= a =>
            (a .. a + x - 1) \cap (b .. b + y - 1) = {}
       /\ d + D <= e \/ e + D <= d =>
            (BankSize + d .. BankSize + d + u - 1)
              \cap (BankSize + e .. BankSize + e + v - 1) = {}
  BY <1>1, <1>5, <1>6, <1>9, AreasApart
<1>12. QED
  BY <1>8, <1>10, <1>11, Zenon DEF Pram, Stack

\* No byte of a core's memory has two users, for every size of banks and stack,
\* every accepted division and every program that fits.
THEOREM BytesAreExclusive == Spec => []BytesExclusive
<1>1. ElcoreInv /\ PartsWithin => BytesExclusive
  <2> SUFFICES ASSUME ElcoreInv, PartsWithin, NEW c \in Cores,
                      NEW j \in Loaded(c), NEW k \in Loaded(c),
                      NEW g \in Fitting(c), NEW h \in Fitting(c)
               PROVE  /\ CodeOf(j, g) \subseteq Pram
                      /\ CodeOf(j, g) \cap DataOf(k, h) = {}
                      /\ DataOf(j, g) \cap Stack = {}
                      /\ j # k => /\ CodeOf(j, g) \cap CodeOf(k, h) = {}
                                  /\ DataOf(j, g) \cap DataOf(k, h) = {}
    BY DEF BytesExclusive
  <2> DEFINE n == JobsMax[c]
  <2>1. n \in Divisions
    BY DivisionAssumption
  <2>2. /\ j \in known /\ k \in known /\ coreOf[j] = c /\ coreOf[k] = c
        /\ part[j] # 0 /\ part[k] # 0 /\ known \subseteq Jobs
    BY DEF Loaded, ElcoreInv, TypeOK
  <2>3. part[j] \in 1 .. n /\ part[k] \in 1 .. n
    BY <2>1, <2>2 DEF PartsWithin, Divisions
  <2>4. j # k => part[j] # part[k]
    BY <2>2 DEF ElcoreInv, PartsExclusive
  <2>5. /\ g \in [code : Nat, data : Nat] /\ h \in [code : Nat, data : Nat]
        /\ Fits(n, g) /\ Fits(n, h)
    BY MemoryAssumption DEF Fitting
  <2>6. /\ CodeOf(j, g) = Code(n, part[j], g) /\ DataOf(j, g) = Data(n, part[j], g)
        /\ CodeOf(k, h) = Code(n, part[k], h) /\ DataOf(k, h) = Data(n, part[k], h)
    BY <2>2 DEF CodeOf, DataOf
  <2> HIDE DEF n
  <2>7. QED
    BY <2>1, <2>3, <2>4, <2>5, <2>6, PartsApart
<1>2. QED
  BY <1>1, WithinInvariant, PTL
===============================================================================
