----------------------------- MODULE MCVotePath -----------------------------
(* A small instance of VotePath for TLC: one voter sends two requests for   *)
(* different options, a second voter sends one, and a fourth request names *)
(* an option the poll does not have.                                       *)
EXTENDS VotePath, TLC

CONSTANTS r1, r2, r3, r4, alice, bob, carol, yes, no, nonsense

MCVoterOf  == r1 :> alice @@ r2 :> alice @@ r3 :> bob @@ r4 :> carol
MCChoiceOf == r1 :> yes @@ r2 :> no @@ r3 :> no @@ r4 :> nonsense
=============================================================================
