------------------------------- MODULE MCHub -------------------------------
(* Hub with model values.  Connections, and votes, are interchangeable.    *)
EXTENDS Hub, TLC

CONSTANTS c1, c2, c3, v1, v2

Symmetry == Permutations(Clients) \cup Permutations(Voters)
=============================================================================
