------------------------------ MODULE MCJobList ------------------------------
(* Instances of JobList for TLC. *)
EXTENDS JobList

\* Memory parts of the cores: one core split in two, one core in one.
MCJobsMax == [c \in Cores |-> IF c = 0 THEN 2 ELSE 1]
=============================================================================
