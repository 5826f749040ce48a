--------------------------- MODULE MCRateLimiter ---------------------------
(* RateLimiter with two client addresses, one of them with most attempts.  *)
EXTENDS RateLimiter, TLC

CONSTANTS a1, a2, a3, a4, a5, b1, b2, home, office

MCAddressOf == a1 :> home @@ a2 :> home @@ a3 :> home @@ a4 :> home @@ a5 :> home
               @@ b1 :> office @@ b2 :> office

\* Attempts of one address are interchangeable.
Symmetry == Permutations({a1, a2, a3, a4, a5} \cap Attempts)
                \cup Permutations({b1, b2} \cap Attempts)
=============================================================================
