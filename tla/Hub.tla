-------------------------------- MODULE Hub --------------------------------
(***************************************************************************)
(* The WebSocket hub of one poll (backend/websocket/hub.go): the run loop, *)
(* which owns the set of viewers, the pumps of each viewer's connection,   *)
(* the subscription to the poll's updates (SubscribeToPoll in              *)
(* backend/database/redis.go) and the vote handlers that publish updates   *)
(* and broadcast them.                                                     *)
(*                                                                         *)
(* A tally is represented by its version, the number of votes counted so   *)
(* far; an update carries a version and the number of viewers.             *)
(***************************************************************************)
EXTENDS Naturals, FiniteSets, Sequences, Functions

CONSTANTS
    Clients,     \* connections to /ws/polls/:id; each is opened at most once
    Voters,      \* vote requests that are counted
    SendCap,     \* capacity of Client.send, 256 in the code
    QueueCap,    \* capacity of Hub.broadcast, 256 in the code
    ChannelCap,  \* capacity of a subscriber's channel, 100 in the code
    Realtime     \* "redis" or "memory": database.Realtime

ASSUME CapAssumption == {SendCap, QueueCap, ChannelCap} \subseteq Nat \ {0}
ASSUME RealtimeAssumption == Realtime \in {"redis", "memory"}

None == "none"

\* There are finitely many of them in a run of the server.
ASSUME FiniteAssumption == IsFiniteSet(Clients) /\ IsFiniteSet(Voters)

\* A connection or a request is not the absence of one.
ASSUME NoneAssumption == None \notin Clients \cup Voters

VARIABLES
    tally,       \* the realtime counters
    vote,        \* where each vote handler is
    update,      \* the update RecordVote gave it: a version, and the number of
                 \* viewers the hub has stamped on it, 0 before
    open,        \* is there an entry for the poll in h.polls?
    clients,     \* that entry: the registered viewers
    sub,         \* the goroutine of the subscription a viewer's registration made
    channel,     \* its channel
    carried,     \* the update it is handing to h.broadcast
    current,     \* the subscription in h.cancelSubs, known to the manager
    queue,       \* h.broadcast
    greeting,    \* the viewer the run loop is greeting, with the viewer count
    note,        \* the goroutine that announces a viewer's coming or leaving
    conn,        \* the state of each connection
    send,        \* Client.send
    closed,      \* is Client.send closed?
    panicked,    \* a closed channel was closed again or sent to
    screen,      \* the update each viewer shows
    seen         \* history: the newest version a viewer has been shown

realtime == <<tally, vote, update>>
entry    == <<open, clients>>
subs     == <<sub, channel, carried, current>>
outbox   == <<send, closed, panicked>>
display  == <<screen, seen>>
vars == <<realtime, entry, subs, queue, greeting, note, conn, outbox, display>>

Update(version, viewers) == [version |-> version, viewers |-> viewers]

\* What travels in the channels: a vote handler's update, by reference, or an
\* update with a value of its own.
ByReference(v) == [from |-> v, value |-> Update(0, 0)]
ByValue(value) == [from |-> None, value |-> value]

NoNote == [state |-> "none", value |-> Update(0, 0)]
NotGreeting == [client |-> None, viewers |-> 0]
AtSelect == greeting = NotGreeting

Init ==
    /\ tally = 0
    /\ vote = [v \in Voters |-> "idle"]
    /\ update = [v \in Voters |-> Update(0, 0)]
    /\ open = FALSE /\ clients = {}
    /\ sub = [c \in Clients |-> "none"]
    /\ channel = [c \in Clients |-> <<>>]
    /\ carried = [c \in Clients |-> <<>>]
    /\ current = {}
    /\ queue = <<>>
    /\ greeting = NotGreeting
    /\ note = [c \in Clients |-> NoNote]
    /\ conn = [c \in Clients |-> "out"]
    /\ send = [c \in Clients |-> <<>>]
    /\ closed = [c \in Clients |-> FALSE]
    /\ panicked = FALSE
    /\ screen = [c \in Clients |-> Update(0, 0)]
    /\ seen = [c \in Clients |-> 0]

-----------------------------------------------------------------------------
(* Vote handlers.                                                          *)

\* Mutant of Offered: the channel grows beyond its capacity.
OfferedAlways(chan, message, cap) == Append(chan, message)

\* A send that gives up when the channel is full.
Offered(chan, message, cap) ==
    IF Len(chan) < cap THEN Append(chan, message) ELSE chan

\* The subscribers the manager knows get the update, if they have room.
PublishTo(message) ==
    channel' = [c \in Clients |->
                   IF c \in current THEN Offered(channel[c], message, ChannelCap)
                                    ELSE channel[c]]

\* InMemoryRealtimeManager.RecordVote counts and publishes under one lock, and
\* publishes the very update the handler goes on with.
MemoryRecordVote(v) ==
    /\ Realtime = "memory"
    /\ vote[v] = "idle"
    /\ tally' = tally + 1
    /\ update' = [update EXCEPT ![v] = Update(tally', 0)]
    /\ PublishTo(ByReference(v))
    /\ vote' = [vote EXCEPT ![v] = "broadcast"]
    /\ UNCHANGED <<entry, sub, carried, current, queue, greeting, note, conn, outbox, display>>

\* RedisManager.RecordVote counts, reads the counters, and publishes a copy.
Count(v) ==
    /\ Realtime = "redis"
    /\ vote[v] = "idle"
    /\ tally' = tally + 1
    /\ vote' = [vote EXCEPT ![v] = "fetch"]
    /\ UNCHANGED <<update, entry, subs, queue, greeting, note, conn, outbox, display>>

Fetch(v) ==
    /\ vote[v] = "fetch"
    /\ update' = [update EXCEPT ![v] = Update(tally, 0)]
    /\ vote' = [vote EXCEPT ![v] = "publish"]
    /\ UNCHANGED <<tally, entry, subs, queue, greeting, note, conn, outbox, display>>

Publish(v) ==
    /\ vote[v] = "publish"
    /\ PublishTo(ByValue(update[v]))
    /\ vote' = [vote EXCEPT ![v] = "broadcast"]
    /\ UNCHANGED <<tally, update, entry, sub, carried, current, queue, greeting, note,
                   conn, outbox, display>>

\* The end of the vote handler: GlobalHub.Broadcast of the same update.
BroadcastVote(v) ==
    /\ vote[v] = "broadcast"
    /\ queue' = Offered(queue, ByReference(v), QueueCap)
    /\ vote' = [vote EXCEPT ![v] = "done"]
    /\ UNCHANGED <<tally, update, entry, subs, greeting, note, conn, outbox, display>>

-----------------------------------------------------------------------------
(* The subscription's goroutine: it takes an update from its channel and   *)
(* blocks until h.broadcast takes it, or sees that it is to stop.          *)

Take(c) ==
    /\ sub[c] \in {"running", "stopping"}
    /\ carried[c] = <<>> /\ channel[c] # <<>>
    /\ carried' = [carried EXCEPT ![c] = <<Head(channel[c])>>]
    /\ channel' = [channel EXCEPT ![c] = Tail(@)]
    /\ UNCHANGED <<realtime, entry, sub, current, queue, greeting, note, conn, outbox, display>>

\* Mutant of HandOver: the handler gives up when h.broadcast is full.
HandOverOffered(c) ==
    /\ carried[c] # <<>>
    /\ queue' = Offered(queue, Head(carried[c]), QueueCap)
    /\ carried' = [carried EXCEPT ![c] = <<>>]
    /\ UNCHANGED <<realtime, entry, sub, channel, current, greeting, note, conn, outbox, display>>

HandOver(c) ==
    /\ carried[c] # <<>>
    /\ Len(queue) < QueueCap
    /\ queue' = queue \o carried[c]
    /\ carried' = [carried EXCEPT ![c] = <<>>]
    /\ UNCHANGED <<realtime, entry, sub, channel, current, greeting, note, conn, outbox, display>>

\* In memory, stopCh may win over a channel that still holds updates; a
\* closed Redis subscription is drained first.
Stop(c) ==
    /\ sub[c] = "stopping"
    /\ carried[c] = <<>>
    /\ Realtime = "redis" => channel[c] = <<>>
    /\ sub' = [sub EXCEPT ![c] = "stopped"]
    /\ channel' = [channel EXCEPT ![c] = <<>>]
    /\ UNCHANGED <<realtime, entry, carried, current, queue, greeting, note, conn, outbox, display>>

-----------------------------------------------------------------------------
(* The run loop.                                                           *)

\* case client := <-h.register, up to h.mu.Unlock
Register(c) ==
    /\ AtSelect
    /\ conn[c] = "registering"
    /\ conn' = [conn EXCEPT ![c] = "up"]
    /\ open' = TRUE
    /\ clients' = clients \cup {c}
    /\ IF open THEN UNCHANGED <<sub, current>>
               ELSE /\ sub' = [sub EXCEPT ![c] = "running"]
                    /\ current' = current \cup {c}
    /\ greeting' = [client |-> c, viewers |-> Cardinality(clients')]
    /\ UNCHANGED <<realtime, channel, carried, queue, note, outbox, display>>

\* the rest of that case: the counters are read, sent to the new viewer and
\* handed to a goroutine that tells everyone
Greet ==
    \E c \in Clients :
        LET hello == Update(tally, greeting.viewers)
        IN  /\ greeting.client = c
            /\ greeting' = NotGreeting
            /\ panicked' = (panicked \/ closed[c])
            /\ send' = [send EXCEPT ![c] = Offered(@, hello, SendCap)]
            /\ note' = [note EXCEPT ![c] = [state |-> "broadcast", value |-> hello]]
            /\ UNCHANGED <<realtime, entry, subs, queue, conn, closed, display>>

\* Mutant of Close: the viewers are closed but stay registered.
CloseOnly(viewers) ==
    /\ clients' = clients
    /\ closed' = [c \in Clients |-> closed[c] \/ c \in viewers]

\* Mutant of Close: the viewers are forgotten but not closed.
ForgetOnly(viewers) ==
    /\ clients' = clients \ viewers
    /\ closed' = closed

\* delete(clients, client); close(client.send)
Close(viewers) ==
    /\ clients' = clients \ viewers
    /\ closed' = [c \in Clients |-> closed[c] \/ c \in viewers]

\* Mutant of DropEntry: the subscription is not cancelled.
DropEntryOnly == open' = FALSE /\ UNCHANGED <<sub, current>>

\* The last viewer is gone: the poll's entry goes, and its subscription.
DropEntry ==
    /\ open' = FALSE
    /\ current' = {}
    /\ sub' = [c \in Clients |-> IF c \in current THEN "stopping" ELSE sub[c]]

\* case client := <-h.unregister
Unregister(c) ==
    /\ AtSelect
    /\ conn[c] = "leaving"
    /\ conn' = [conn EXCEPT ![c] = "gone"]
    /\ Close({c} \cap clients)
    /\ panicked' = (panicked \/ (c \in clients /\ closed[c]))
    /\ \/ ~open /\ UNCHANGED <<open, sub, current, note>>
       \/ open /\ clients' = {} /\ DropEntry /\ UNCHANGED note
       \/ /\ open /\ clients' # {}
          /\ note' = [note EXCEPT ![c] = [state |-> "read",
                                          value |-> Update(0, Cardinality(clients'))]]
          /\ UNCHANGED <<open, sub, current>>
    /\ UNCHANGED <<realtime, channel, carried, queue, greeting, send, display>>

\* case update := <-h.broadcast.  An update without a viewer count is stamped
\* with one; a vote handler's update keeps the stamp.  A viewer whose channel
\* is full is dropped.
RunBroadcast ==
    /\ AtSelect
    /\ queue # <<>>
    /\ LET m       == Head(queue)
           value   == IF m.from = None THEN m.value ELSE update[m.from]
           stamped == IF value.viewers = 0 THEN [value EXCEPT !.viewers = Cardinality(clients)]
                                           ELSE value
           slow    == {c \in clients : Len(send[c]) >= SendCap}
       IN  /\ queue' = Tail(queue)
           /\ update' = IF m.from = None THEN update ELSE [update EXCEPT ![m.from] = stamped]
           /\ send' = [c \in Clients |-> IF c \in clients \ slow THEN Append(send[c], stamped)
                                                                 ELSE send[c]]
           /\ Close(slow)
           /\ panicked' = (panicked \/ \E c \in clients : closed[c])
    /\ UNCHANGED <<tally, vote, open, subs, greeting, note, conn, display>>

-----------------------------------------------------------------------------
(* The goroutines that announce the number of viewers.                     *)

NoteRead(c) ==
    /\ note[c].state = "read"
    /\ note' = [note EXCEPT ![c] = [state |-> "broadcast",
                                    value |-> Update(tally, @.value.viewers)]]
    /\ UNCHANGED <<realtime, entry, subs, queue, greeting, conn, outbox, display>>

NoteBroadcast(c) ==
    /\ note[c].state = "broadcast"
    /\ queue' = Offered(queue, ByValue(note[c].value), QueueCap)
    /\ note' = [note EXCEPT ![c] = NoNote]
    /\ UNCHANGED <<realtime, entry, subs, greeting, conn, outbox, display>>

-----------------------------------------------------------------------------
(* Connections: HandleWebSocket, readPump and writePump.                   *)

Connect(c) ==
    /\ conn[c] = "out"
    /\ conn' = [conn EXCEPT ![c] = "registering"]
    /\ UNCHANGED <<realtime, entry, subs, queue, greeting, note, outbox, display>>

\* A read fails: the viewer left, or answered no ping in time.
ReadFails(c) ==
    /\ conn[c] = "up"
    /\ conn' = [conn EXCEPT ![c] = "leaving"]
    /\ UNCHANGED <<realtime, entry, subs, queue, greeting, note, outbox, display>>

Write(c) ==
    /\ conn[c] = "up"
    /\ send[c] # <<>>
    /\ send' = [send EXCEPT ![c] = Tail(@)]
    /\ screen' = [screen EXCEPT ![c] = Head(send[c])]
    /\ seen' = [seen EXCEPT ![c] = IF @ < screen'[c].version THEN screen'[c].version ELSE @]
    /\ UNCHANGED <<realtime, entry, subs, queue, greeting, note, conn, closed, panicked>>

\* Mutant of WriteClose: writePump returns and leaves the connection open.
WriteCloseReturns(c) ==
    /\ conn[c] = "up" /\ send[c] = <<>> /\ closed[c]
    /\ UNCHANGED vars

\* The channel is closed and empty: writePump closes the connection, which
\* makes readPump's read fail.
WriteClose(c) ==
    /\ conn[c] = "up"
    /\ send[c] = <<>> /\ closed[c]
    /\ conn' = [conn EXCEPT ![c] = "leaving"]
    /\ UNCHANGED <<realtime, entry, subs, queue, greeting, note, outbox, display>>

-----------------------------------------------------------------------------
HandleVote(v) ==
    MemoryRecordVote(v) \/ Count(v) \/ Fetch(v) \/ Publish(v) \/ BroadcastVote(v)

Announce(c) == NoteRead(c) \/ NoteBroadcast(c)
WritePump(c) == Write(c) \/ WriteClose(c)
Relay(c) == Take(c) \/ HandOver(c) \/ Stop(c)
Run == Greet \/ RunBroadcast \/ \E c \in Clients : Register(c) \/ Unregister(c)

Next ==
    \/ \E v \in Voters : HandleVote(v)
    \/ Run
    \/ \E c \in Clients :
          Relay(c) \/ Announce(c) \/ WritePump(c) \/ Connect(c) \/ ReadFails(c)

Spec == Init /\ [][Next]_vars

\* The goroutines go on whenever they can; the run loop's select serves every
\* case that keeps being ready; a write to a connection ends within its
\* deadline.  Nobody has to connect, leave or vote.
Fairness ==
    /\ WF_vars(Greet) /\ WF_vars(RunBroadcast)
    /\ \A v \in Voters : WF_vars(vote[v] # "idle" /\ HandleVote(v))
    /\ \A c \in Clients :
          /\ SF_vars(Register(c)) /\ SF_vars(Unregister(c))
          /\ WF_vars(Take(c)) /\ SF_vars(HandOver(c)) /\ WF_vars(Stop(c))
          /\ WF_vars(Announce(c)) /\ WF_vars(WritePump(c))

FairSpec == Spec /\ Fairness

-----------------------------------------------------------------------------
(* Properties.                                                             *)

Updates  == [version : 0..Cardinality(Voters), viewers : 0..Cardinality(Clients)]
Messages == [from : Voters \cup {None}, value : Updates]

TypeOK ==
    /\ tally \in 0..Cardinality(Voters)
    /\ vote \in [Voters -> {"idle", "fetch", "publish", "broadcast", "done"}]
    /\ update \in [Voters -> Updates]
    /\ open \in BOOLEAN /\ clients \subseteq Clients /\ current \subseteq Clients
    /\ sub \in [Clients -> {"none", "running", "stopping", "stopped"}]
    /\ \A c \in Clients :
          /\ Len(channel[c]) <= ChannelCap /\ Range(channel[c]) \subseteq Messages
          /\ Len(carried[c]) <= 1 /\ Range(carried[c]) \subseteq Messages
          /\ Len(send[c]) <= SendCap /\ Range(send[c]) \subseteq Updates
    /\ Len(queue) <= QueueCap /\ Range(queue) \subseteq Messages
    /\ greeting \in [client : Clients \cup {None}, viewers : 0..Cardinality(Clients)]
    /\ note \in [Clients -> [state : {"none", "read", "broadcast"}, value : Updates]]
    /\ conn \in [Clients -> {"out", "registering", "up", "leaving", "gone"}]
    /\ closed \in [Clients -> BOOLEAN] /\ panicked \in BOOLEAN
    /\ screen \in [Clients -> Updates]
    /\ seen \in [Clients -> 0..Cardinality(Voters)]

\* Two places close a viewer's channel, the drop of a slow viewer and its
\* unregistration, and two send on it; no order of them makes the hub panic.
NeverPanics == ~panicked

\* A connection is registered exactly while its channel is open: a viewer is
\* never left connected without being served or told to close.
UpMeansServed ==
    \A c \in Clients :
        /\ conn[c] = "up" => (c \in clients <=> ~closed[c])
        /\ c \in clients => conn[c] \in {"up", "leaving"}
        /\ conn[c] = "gone" => closed[c]

\* There is one running subscription while the poll has an entry, and none otherwise, so
\* no update is relayed twice; and when every viewer is gone the entry is gone too, so no
\* goroutine is left behind.  In the code: the entry of h.polls and the function in
\* h.cancelSubs, which are made and dropped at three places.
OneSubscription ==
    LET running == {c \in Clients : sub[c] = "running"}
    IN  /\ running = current
        /\ Cardinality(running) = IF open THEN 1 ELSE 0
        /\ (\A c \in Clients : conn[c] \in {"out", "registering", "gone"}) =>
              ~open /\ clients = {}

\* Every vote reaches every viewer: one who is registered when the vote has
\* been published is shown that tally or a newer one, unless they are dropped
\* or leave.
EveryVoteIsShown ==
    \A v \in Voters, c \in Clients :
        (vote[v] = "broadcast" /\ c \in clients) ~>
            (seen[c] >= update[v].version \/ c \notin clients)

\* A viewer who left, and one who was dropped for being slow, is unregistered.
EveryoneIsReleased ==
    \A c \in Clients : (conn[c] = "leaving" \/ closed[c]) ~> conn[c] = "gone"

\* Nothing is under way between the vote handlers and the viewers.
Quiet ==
    /\ AtSelect /\ queue = <<>>
    /\ \A v \in Voters : vote[v] \in {"idle", "done"}
    /\ \A c \in Clients :
          /\ sub[c] = "stopped" \/ (channel[c] = <<>> /\ carried[c] = <<>>)
          /\ note[c].state = "none" /\ send[c] = <<>>
          /\ conn[c] \notin {"registering", "leaving"}

\* "Real-time vote counts": when nothing is under way, every registered viewer
\* shows the current tally.
SettledTallyIsCurrent ==
    Quiet => \A c \in clients : screen[c].version = tally

\* "Real-time connected viewers": when nothing is under way, every registered
\* viewer shows the number of registered viewers.
SettledViewersAreCurrent ==
    Quiet => \A c \in clients : screen[c].viewers = Cardinality(clients)
=============================================================================
