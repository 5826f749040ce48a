------------------------------ MODULE Election ------------------------------
(***************************************************************************)
(* What the voting service promises, with no servers in sight: a ballot    *)
(* box.  A ballot enters the box at most once, a voter never has two       *)
(* ballots in it, and an administrator may empty it.                       *)
(*                                                                         *)
(* VotePath implements this module: its realtime tally is the box.         *)
(***************************************************************************)
CONSTANTS
    Ballots,     \* the ballots that may be handed in
    VoterOf      \* the voter who hands in a ballot

VARIABLES
    box,         \* the ballots that count now
    cast         \* every ballot that ever counted

vars == <<box, cast>>

Init == box = {} /\ cast = {}

Cast(b) ==
    /\ b \notin cast
    /\ \A c \in box : VoterOf[c] # VoterOf[b]
    /\ box' = box \cup {b}
    /\ cast' = cast \cup {b}

Empty ==
    /\ box' = {}
    /\ UNCHANGED cast

Next == Empty \/ \E b \in Ballots : Cast(b)

Spec == Init /\ [][Next]_vars
=============================================================================
