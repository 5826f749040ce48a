--------------------------- MODULE PollLifecycle ---------------------------
(***************************************************************************)
(* Several polls, the one that is "the active poll", and administrators    *)
(* who create, open, close and reset polls at the same time                *)
(* (backend/controllers/poll_controller.go, over the poll collection of    *)
(* backend/database/mongo.go).                                             *)
(*                                                                         *)
(* SetActivePoll is no transaction: it closes every poll, and then, in a   *)
(* second step, adds the new one.  MongoStorage dates a poll before it     *)
(* inserts it; InMemoryStorage does both under its lock.                   *)
(***************************************************************************)
EXTENDS Naturals, FiniteSets

CONSTANTS
    Polls,       \* polls that may be created, each at most once
    Toggles,     \* requests to TogglePoll, each made at most once
    Events       \* what else happens: "reset", and in Mongo "fault" (of a
                 \* creation) and "retry" (of a toggle)

NoPoll == "none"

\* The zero ObjectID names no poll.
ASSUME NoPollAssumption == NoPoll \notin Polls

VARIABLES
    store,       \* "mongo" or "memory": the database.DB that start-up chose
    exists,      \* the polls in the collection
    active,      \* those with is_active
    createdAt,   \* created_at, counted in creations
    clock,       \* the number of creations dated so far
    create,      \* where the creation of each poll is
    toggle,      \* each toggle request: where it is, its poll, what it read
    voted,       \* polls with votes in their counters
    target       \* the poll ResetActivePoll is resetting

vars == <<store, exists, active, createdAt, clock, create, toggle, voted, target>>

Idle == [at |-> "idle", poll |-> NoPoll, seen |-> FALSE]

Init ==
    /\ store \in {"mongo", "memory"}
    /\ exists = {} /\ active = {} /\ voted = {}
    /\ createdAt = [p \in Polls |-> 0] /\ clock = 0
    /\ create = [p \in Polls |-> "idle"]
    /\ toggle = [t \in Toggles |-> Idle]
    /\ target = NoPoll

-----------------------------------------------------------------------------
(* CreatePoll: SetActivePoll of the storage, then the answer.              *)

Creating(p) == create[p] \in {"date", "insert"}

\* Mutant of Deactivate: the new poll is named the active one before it exists.
ActivateEarly(p) ==
    /\ create[p] = "idle"
    /\ active' = {p}
    /\ create' = [create EXCEPT ![p] = "date"]
    /\ UNCHANGED <<store, exists, createdAt, clock, toggle, voted, target>>

\* UpdateMany; its error is ignored.
Deactivate(p) ==
    /\ create[p] = "idle"
    /\ \/ active' = {}
       \/ "fault" \in Events /\ store = "mongo" /\ UNCHANGED active
    /\ create' = [create EXCEPT ![p] = "date"]
    /\ UNCHANGED <<store, exists, createdAt, clock, toggle, voted, target>>

Date(p) ==
    /\ clock' = clock + 1
    /\ createdAt' = [createdAt EXCEPT ![p] = clock']

\* Mutant of Insert: the other polls are closed when the new one is inserted.
InsertExclusive(p) ==
    /\ exists' = exists \cup {p}
    /\ active' = {p}
    /\ create' = [create EXCEPT ![p] = "done"]

Insert(p) ==
    /\ exists' = exists \cup {p}
    /\ active' = active \cup {p}
    /\ create' = [create EXCEPT ![p] = "done"]

MemoryCreatePoll(p) ==
    /\ store = "memory"
    /\ create[p] = "date"
    /\ Date(p) /\ Insert(p)
    /\ UNCHANGED <<store, toggle, voted, target>>

MongoDate(p) ==
    /\ store = "mongo"
    /\ create[p] = "date"
    /\ Date(p)
    /\ create' = [create EXCEPT ![p] = "insert"]
    /\ UNCHANGED <<store, exists, active, toggle, voted, target>>

\* InsertOne, or 500 "Failed to establish active poll".
MongoInsert(p) ==
    /\ create[p] = "insert"
    /\ \/ Insert(p)
       \/ /\ "fault" \in Events
          /\ create' = [create EXCEPT ![p] = "failed"]
          /\ UNCHANGED <<exists, active>>
    /\ UNCHANGED <<store, createdAt, clock, toggle, voted, target>>

-----------------------------------------------------------------------------
(* GetActivePoll: the newest active poll, and if there is none the newest. *)

Newest(polls) == CHOOSE p \in polls : \A q \in polls : createdAt[q] <= createdAt[p]

\* Mutant of Current: the oldest active poll.
OldestActive == CHOOSE p \in active : \A q \in active : createdAt[q] >= createdAt[p]
CurrentOldest == IF active # {} THEN OldestActive ELSE Newest(exists)

Current == IF active # {} THEN Newest(active) ELSE Newest(exists)

-----------------------------------------------------------------------------
(* TogglePoll.                                                             *)

Flip(p) == active' = IF p \in active THEN active \ {p} ELSE active \cup {p}

MemoryToggle(t) ==
    /\ store = "memory"
    /\ toggle[t].at = "idle"
    /\ \E p \in exists :
          /\ Flip(p)
          /\ toggle' = [toggle EXCEPT ![t] =
                           [at |-> "done", poll |-> p, seen |-> p \in active]]
    /\ UNCHANGED <<store, exists, createdAt, clock, create, voted, target>>

\* TogglePollStatus reads the poll.  The request asks for a poll, and keeps to
\* it when it has to try again.
MongoToggleRead(t) ==
    /\ store = "mongo"
    /\ toggle[t].at \in {"idle", "retry"}
    /\ \E p \in exists :
          /\ toggle[t].at = "retry" => p = toggle[t].poll
          /\ toggle' = [toggle EXCEPT ![t] =
                           [at   |-> IF toggle[t].at = "idle" THEN "write" ELSE "rewrite",
                            poll |-> p, seen |-> p \in active]]
    /\ UNCHANGED <<store, exists, active, createdAt, clock, create, voted, target>>

\* It writes the opposite of what it read.  The poll it read may have changed
\* by then.
SetStatus(t) ==
    active' = IF toggle[t].seen THEN active \ {toggle[t].poll}
                                ELSE active \cup {toggle[t].poll}

MongoToggleWrite(t) ==
    /\ toggle[t].at \in {"write", "rewrite"}
    /\ SetStatus(t)
    /\ toggle' = [toggle EXCEPT ![t].at = "done"]
    /\ UNCHANGED <<store, exists, createdAt, clock, create, voted, target>>

\* The write returns an error, having taken effect or not: the handler reads
\* the poll and toggles once more, and the second time it answers 403.
MongoToggleFails(t) ==
    /\ "retry" \in Events
    /\ toggle[t].at \in {"write", "rewrite"}
    /\ SetStatus(t) \/ UNCHANGED active
    /\ toggle' = [toggle EXCEPT ![t].at = IF @ = "write" THEN "retry" ELSE "failed"]
    /\ UNCHANGED <<store, exists, createdAt, clock, create, voted, target>>

-----------------------------------------------------------------------------
(* Votes, and ResetActivePoll.                                             *)

CastVotes(p) ==
    /\ "reset" \in Events
    /\ p \in active
    /\ voted' = voted \cup {p}
    /\ UNCHANGED <<store, exists, active, createdAt, clock, create, toggle, target>>

ChooseReset ==
    /\ "reset" \in Events
    /\ target = NoPoll /\ exists # {}
    /\ target' = Current
    /\ UNCHANGED <<store, exists, active, createdAt, clock, create, toggle, voted>>

ResetVotes ==
    /\ target # NoPoll
    /\ voted' = voted \ {target}
    /\ target' = NoPoll
    /\ UNCHANGED <<store, exists, active, createdAt, clock, create, toggle>>

-----------------------------------------------------------------------------
CreatePoll(p) == Deactivate(p) \/ MemoryCreatePoll(p) \/ MongoDate(p) \/ MongoInsert(p)

TogglePoll(t) ==
    MemoryToggle(t) \/ MongoToggleRead(t) \/ MongoToggleWrite(t) \/ MongoToggleFails(t)

Next ==
    \/ \E p \in Polls : CreatePoll(p) \/ CastVotes(p)
    \/ \E t \in Toggles : TogglePoll(t)
    \/ ChooseReset \/ ResetVotes

Spec == Init /\ [][Next]_vars

-----------------------------------------------------------------------------
(* Properties.                                                             *)

TypeOK ==
    /\ store \in {"mongo", "memory"}
    /\ exists \subseteq Polls /\ active \subseteq exists /\ voted \subseteq exists
    /\ clock \in Nat
    /\ createdAt \in [Polls -> 0..clock]
    /\ create \in [Polls -> {"idle", "date", "insert", "done", "failed"}]
    /\ toggle \in [Toggles ->
                      [at : {"idle", "write", "retry", "rewrite", "done", "failed"},
                       poll : Polls \cup {NoPoll}, seen : BOOLEAN]]
    /\ target \in exists \cup {NoPoll}

\* With the in-memory storage GetActivePoll returns the newest poll until
\* somebody toggles a poll, however creations overlap.
CurrentIsNewest ==
    /\ store = "memory" /\ exists # {}
    /\ \A t \in Toggles : toggle[t].at = "idle"
    => Current = Newest(exists)

\* No creation and no toggle of another poll closes the newest poll: when no
\* creation is under way, and none has failed after closing the others, it is
\* open unless it has been toggled itself.
NewestIsOpen ==
    LET newest == Newest(exists)
    IN  /\ exists # {}
        /\ \A p \in Polls : ~Creating(p) /\ create[p] # "failed"
        /\ \A t \in Toggles : toggle[t].poll # newest
        => newest \in active

\* "Launching this question sets it as the active election across all audience
\* screens": when no creation is under way and no poll has been toggled, at
\* most one poll is open.
AtMostOneActive ==
    /\ \A p \in Polls : ~Creating(p)
    /\ \A t \in Toggles : toggle[t].at = "idle"
    => Cardinality(active) <= 1

\* "Returns the current active election": the poll GetActivePoll returns is
\* open.
CurrentIsActive == exists # {} => Current \in active

\* "Admin resets vote tallies for the active election": a reset takes no votes
\* from a poll that is closed.
ResetSparesClosedPolls == [][voted \ voted' \subseteq active]_vars

\* "Admin opens or closes an election": of two toggles of one poll, with no
\* other request between them, one closes it and the other opens it.
TogglesAlternate ==
    \A t, u \in Toggles :
        /\ t # u /\ toggle[t].poll = toggle[u].poll
        /\ toggle[t].at = "done" /\ toggle[u].at = "done"
        => toggle[t].seen # toggle[u].seen
=============================================================================
