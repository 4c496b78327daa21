------------------------------- MODULE MCDwcotg -------------------------------
(* Instances of Dwcotg for TLC: a control endpoint, a bulk endpoint, one      *)
(* behind a full-speed hub, and an interrupt endpoint.                        *)
EXTENDS Dwcotg

CONSTANTS control, bulk, bulkSplit, int

MCKind == [e \in Eps |-> CASE e = control -> "ctl"
                           [] e = int -> "int"
                           [] OTHER -> "bulk"]
=============================================================================
