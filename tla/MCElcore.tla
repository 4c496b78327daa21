------------------------------- MODULE MCElcore -------------------------------
(* Instances of Elcore for TLC. *)
EXTENDS Elcore

OnePart == [c \in Cores |-> 1]      \* the driver's default

\* Workloads.  WAIT only touches rcvid and waiting, which nothing but MsgReply
\* reads; it has runs of its own.
SubmitRequests == {"CREATE", "ENQUEUE", "RELEASE"}
ChainRequests == SubmitRequests \cup {"SETCHAIN"}
CancelRequests == SubmitRequests \cup {"CANCEL"}
WaitRequests == SubmitRequests \cup {"WAIT"}
=============================================================================
