----------------------------- MODULE PollSocket -----------------------------
(***************************************************************************)
(* The live connection of a page to a poll, usePollWebSocket.js, and what  *)
(* it is connected to.                                                     *)
(*                                                                         *)
(* The server is the environment here, and no better than modules VotePath *)
(* and Hub have it: what is read or announced of a poll may be of any time *)
(* and come in any order, and nobody need announce a vote or a reset.  So  *)
(* it keeps no tallies: whoever reads or announces one takes any.          *)
(***************************************************************************)
EXTENDS Integers, Sequences, FiniteSets, Functions

CONSTANTS
    Polls,
    Options,    \* the options of a poll: opt_1, opt_2, ... in every poll
    None,       \* no poll
    Existing,     \* the polls there are at the start
    MaxVotes,   \* bound of the model: votes for an option
    MaxInbox    \* messages on their way to a viewer; 256 in the code

ASSUME SocketAssumption ==
    /\ None \notin Polls /\ Existing \subseteq Polls /\ IsFiniteSet(Options)
    /\ MaxVotes \in Nat /\ MaxInbox \in Nat \ {0}

VARIABLES
    \* the server
    current,     \* the poll GetActivePoll finds
    created,     \* the polls there are
    \* the hook
    watched,     \* the poll for which its effect last ran
    sockets,     \* the connections that have not been closed
    ref,         \* wsRef: the number of the last one
    timers,      \* the timeouts that will connect again
    liveUpdate,  \* the last message
    fresh        \* the page's effect on it is due

serverVars == <<current, created>>
hookVars == <<watched, sockets, ref, timers, liveUpdate, fresh>>

\* option_votes has no entry for an option.
Absent == -1
Counts == [Options -> 0 .. MaxVotes]
Zero == [o \in Options |-> 0]
Total(counts) == SumFunction(counts)

\* LivePollUpdate.
Message(p, counts, total) == [poll |-> p, counts |-> counts, total |-> total]
NoMessage == Message(None, Zero, 0)

\* The storage has counters for the options that have been voted for, and a message
\* lists those; only the one about a reset lists every option.
Voted(counts) == [o \in Options |-> IF counts[o] = 0 THEN Absent ELSE counts[o]]

\* What may be said of a poll: its counters at some time, read in a goroutine or not, or
\* none when they could not be read; or that it has been reset.
Sayings(p) == {Message(p, Voted(t), Total(t)) : t \in Counts} \cup {Message(p, Zero, 0)}

SocketInit ==
    /\ created = Existing /\ current \in (IF created = {} THEN {None} ELSE created)
    /\ watched = None /\ sockets = {} /\ ref = 0 /\ timers = {}
    /\ liveUpdate = NoMessage /\ fresh = FALSE

-----------------------------------------------------------------------------
(* The hook *)

\* "said" is for properties only: the last message the hub gave to an open connection.
Socket(n, p, live, phase, inbox, said) ==
    [n |-> n, poll |-> p, live |-> live, phase |-> phase, inbox |-> inbox, said |-> said]

Free == CHOOSE n \in 1 .. Cardinality(sockets) + 1 : \A s \in sockets : s.n # n

\* connect, in the effect for p, whose isMounted is "live".
Connect(others, p, live) ==
    /\ sockets' = others \cup {Socket(Free, p, live, "connecting", <<>>, NoMessage)}
    /\ ref' = Free

\* Mutant of Cleared: the timeout is left to run.
ClearedNever == {[t EXCEPT !.live = FALSE] : t \in timers}

\* The cleanup clears the timeout of the effect that ends.
Cleared == {t \in timers : ~t.live}

\* The cleanup closes the connection of wsRef and makes isMounted false for the others.
Kept == {[s EXCEPT !.live = FALSE] : s \in {x \in sockets : x.n # ref}}

\* The effect for a poll after the cleanup of the one before; None when the page has no
\* poll, or is left.
Watch(p) ==
    /\ watched' = p /\ timers' = Cleared
    /\ IF p = None THEN sockets' = Kept /\ ref' = 0 ELSE Connect(Kept, p, TRUE)

\* onmessage.
Receive(s) ==
    /\ s.inbox # <<>>
    /\ sockets' = (sockets \ {s}) \cup {Socket(s.n, s.poll, s.live, s.phase, Tail(s.inbox), s.said)}
    /\ IF s.live THEN liveUpdate' = Head(s.inbox) /\ fresh' = TRUE
                 ELSE UNCHANGED <<liveUpdate, fresh>>
    /\ UNCHANGED <<watched, ref, timers>>

\* Mutant of Retry: nobody connects again.
RetryNever(s) == timers

Retry(s) == IF s.live THEN timers \cup {[poll |-> s.poll, live |-> TRUE]} ELSE timers

\* onclose, after the messages that came before.
Closed(s) ==
    /\ s.phase = "closed" /\ s.inbox = <<>>
    /\ sockets' = sockets \ {s} /\ timers' = Retry(s)
    /\ UNCHANGED <<watched, ref, liveUpdate, fresh>>

\* The three seconds are over: connect.
Reconnect(t) ==
    /\ timers' = timers \ {t}
    /\ Connect(sockets, t.poll, t.live)
    /\ UNCHANGED <<watched, liveUpdate, fresh>>

-----------------------------------------------------------------------------
(* The server and the network *)

Becomes(s, phase, inbox, said) ==
    /\ sockets' = (sockets \ {s}) \cup {Socket(s.n, s.poll, s.live, phase, inbox, said)}
    /\ UNCHANGED <<watched, ref, timers, liveUpdate, fresh>>

\* The connection opens, and the hub greets it with a tally.
Open(s) == s.phase = "connecting" /\ \E m \in Sayings(s.poll) : Becomes(s, "open", <<m>>, m)

\* The connection is refused, or lost, with any of the messages on their way.
Lose(s) ==
    /\ s.phase # "closed"
    /\ \E n \in 0 .. Len(s.inbox) : Becomes(s, "closed", SubSeq(s.inbox, 1, n), NoMessage)

\* Mutant of Deliver: the buffer of a viewer is never full.
DeliverAlways(s, m) == [s EXCEPT !.inbox = Append(@, m), !.said = m]

\* The hub closes a viewer whose buffer is full.
Deliver(s, m) ==
    IF Len(s.inbox) < MaxInbox THEN [s EXCEPT !.inbox = Append(@, m), !.said = m]
    ELSE [s EXCEPT !.phase = "closed", !.said = NoMessage]

Broadcast(m) ==
    sockets' = {IF s.phase = "open" /\ s.poll = m.poll THEN Deliver(s, m) ELSE s : s \in sockets}

\* The hub's run loop takes an update of the poll, of a vote, a reset, or a viewer who came
\* or went, from its queue.
Announce(p) ==
    /\ \E m \in Sayings(p) : Broadcast(m)
    /\ UNCHANGED <<serverVars, watched, ref, timers, liveUpdate, fresh>>

\* CreatePoll: the new poll is the active one.
NewPoll(p) ==
    /\ p \notin created
    /\ created' = created \cup {p} /\ current' = p
    /\ UNCHANGED hookVars

\* TogglePoll: GetActivePoll finds another poll.
OtherPoll(p) ==
    /\ p \in created /\ p # current /\ current' = p
    /\ UNCHANGED <<created, hookVars>>
=============================================================================
