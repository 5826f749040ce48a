-------------------------- MODULE MCPollLifecycle --------------------------
(* PollLifecycle with model values.                                        *)
EXTENDS PollLifecycle, TLC

CONSTANTS p1, p2, p3, p4, t1, t2

Symmetry == Permutations(Polls) \cup Permutations(Toggles)
=============================================================================
