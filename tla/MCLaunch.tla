------------------------------ MODULE MCLaunch ------------------------------
(* Values for TLC: two texts that differ in their case. *)
EXTENDS Launch, TLC

CONSTANTS yes, Yes, no

MCLower == yes :> yes @@ Yes :> yes @@ no :> no
MCEdits == [options |-> 2, times |-> 2]
MCRoom == [f \in Forms |-> 3]
=============================================================================
