------------------------------ MODULE DspService ------------------------------
(***************************************************************************)
(* What the DELCORE30M driver promises its clients: the life of a job.  A  *)
(* job is created, submitted, runs alone on its core, is finished when the *)
(* core reports a stop, and can then be submitted again or released.  The  *)
(* report need not be of this job's program: a start may write the report  *)
(* of the one before back.                                                 *)
(***************************************************************************)
CONSTANTS Jobs, Cores

VARIABLES
    phase,      \* "none" before creation and after release
    core,       \* core of each job
    stopped     \* cores whose DSCR reports a stop

serviceVars == <<phase, core, stopped>>

ServiceInit ==
    /\ phase = [j \in Jobs |-> "none"]
    /\ core \in [Jobs -> Cores]
    /\ stopped = {}

Move(j, from, to) == phase[j] = from /\ phase' = [phase EXCEPT ![j] = to]

CreateJob(j, c) ==
    /\ Move(j, "none", "IDLE")
    /\ core' = [core EXCEPT ![j] = c]
    /\ UNCHANGED stopped

EnqueueJob(j) == Move(j, "IDLE", "ENQUEUED") /\ UNCHANGED <<core, stopped>>

StartJob(j) ==
    /\ Move(j, "ENQUEUED", "RUNNING")
    /\ \A k \in Jobs : phase[k] = "RUNNING" => core[k] # core[j]
    /\ UNCHANGED <<core, stopped>>

\* A core begins to report a stop: its program stopped, or a start wrote an old
\* report back.
StopCore(c) == stopped' = stopped \cup {c} /\ UNCHANGED <<phase, core>>
ClearCore(c) == stopped' = stopped \ {c} /\ UNCHANGED <<phase, core>>

FinishJob(j) ==
    /\ core[j] \in stopped
    /\ Move(j, "RUNNING", "IDLE")
    /\ UNCHANGED <<core, stopped>>

DropJob(j) == Move(j, "IDLE", "none") /\ UNCHANGED <<core, stopped>>

ServiceNext ==
    \/ \E j \in Jobs, c \in Cores : CreateJob(j, c)
    \/ \E j \in Jobs : EnqueueJob(j)
    \/ \E j \in Jobs : StartJob(j)
    \/ \E j \in Jobs : FinishJob(j)
    \/ \E j \in Jobs : DropJob(j)
    \/ \E c \in Cores : StopCore(c) \/ ClearCore(c)

ServiceSpec == ServiceInit /\ [][ServiceNext]_serviceVars
=============================================================================
