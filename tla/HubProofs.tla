----------------------------- MODULE HubProofs -----------------------------
(***************************************************************************)
(* What holds of the hub for any number of viewers and votes, channels of  *)
(* any capacity, and either realtime manager.                              *)
(***************************************************************************)
EXTENDS Hub, FiniteSetTheorems, SequenceTheorems, TLAPS

-----------------------------------------------------------------------------
(* Viewers and their channels.                                             *)

\* The types of what follows.
ViewerTypes ==
    /\ clients \subseteq Clients /\ panicked \in BOOLEAN
    /\ conn \in [Clients -> {"out", "registering", "up", "leaving", "gone"}]
    /\ closed \in [Clients -> BOOLEAN]
    /\ greeting.client \in Clients \cup {None}

\* A viewer is registered from its registration until its channel is closed, and the
\* run loop greets only the viewer it has just registered.
ViewerOf(c) ==
    /\ conn[c] \in {"out", "registering"} => c \notin clients /\ ~closed[c]
    /\ conn[c] \in {"up", "leaving"} => (c \in clients <=> ~closed[c])
    /\ conn[c] = "gone" => c \notin clients /\ closed[c]

Served ==
    /\ \A c \in Clients : ViewerOf(c)
    /\ greeting.client \in clients \/ greeting = NotGreeting

ViewerInv == ViewerTypes /\ Served /\ NeverPanics

\* The first state.
LEMMA ViewerInvInit == Init => ViewerInv
<1> SUFFICES ASSUME Init
             PROVE  ViewerInv
  OBVIOUS
<1>1. /\ clients = {} /\ panicked = FALSE /\ greeting = NotGreeting
      /\ closed = [c \in Clients |-> FALSE] /\ conn = [c \in Clients |-> "out"]
  BY DEF Init
<1>2. greeting.client = None
  BY <1>1 DEF NotGreeting
<1>3. ViewerTypes
  BY <1>1, <1>2 DEF ViewerTypes
<1>4. Served /\ NeverPanics
  BY <1>1 DEF Served, ViewerOf, NeverPanics
<1> QED BY <1>3, <1>4 DEF ViewerInv

\* One case per action; those of votes and of the subscription touch no viewer.
LEMMA ViewerInvKept == ViewerInv /\ [Next]_vars => ViewerInv'
<1> SUFFICES ASSUME ViewerInv, [Next]_vars
             PROVE  ViewerInv'
  OBVIOUS
<1> USE NoneAssumption
    DEF ViewerInv, ViewerTypes, Served, ViewerOf, NeverPanics, NotGreeting, AtSelect
<1>1. ASSUME NEW v \in Voters, HandleVote(v)
      PROVE  ViewerInv'
  BY <1>1 DEF HandleVote, MemoryRecordVote, Count, Fetch, Publish, BroadcastVote, entry, subs, outbox
<1>2. ASSUME NEW c \in Clients, Take(c)
      PROVE  ViewerInv'
  BY <1>2 DEF Take, entry, outbox
<1>3. ASSUME NEW c \in Clients, HandOver(c)
      PROVE  ViewerInv'
  BY <1>3 DEF HandOver, entry, outbox
<1>4. ASSUME NEW c \in Clients, Stop(c)
      PROVE  ViewerInv'
  BY <1>4 DEF Stop, entry, outbox
<1>5. CASE Greet
  BY <1>5 DEF Greet, entry, subs
<1>6. ASSUME NEW c \in Clients, Register(c)
      PROVE  ViewerInv'
  BY <1>6 DEF Register, outbox
<1>7. ASSUME NEW c \in Clients, Unregister(c)
      PROVE  ViewerInv'
  BY <1>7 DEF Unregister, Close, DropEntry
<1>8. CASE RunBroadcast
  BY <1>8 DEF RunBroadcast, Close, subs
<1>9. ASSUME NEW c \in Clients, NoteRead(c) \/ NoteBroadcast(c)
      PROVE  ViewerInv'
  BY <1>9 DEF NoteRead, NoteBroadcast, entry, subs, outbox
<1>10. ASSUME NEW c \in Clients, Connect(c)
      PROVE  ViewerInv'
  BY <1>10 DEF Connect, entry, subs, outbox
<1>11. ASSUME NEW c \in Clients, ReadFails(c)
      PROVE  ViewerInv'
  BY <1>11 DEF ReadFails, entry, subs, outbox
<1>12. ASSUME NEW c \in Clients, Write(c)
      PROVE  ViewerInv'
  BY <1>12 DEF Write, entry, subs
<1>13. ASSUME NEW c \in Clients, WriteClose(c)
      PROVE  ViewerInv'
  BY <1>13 DEF WriteClose, entry, subs, outbox
<1>14. CASE UNCHANGED vars
  BY <1>14 DEF vars, entry, subs, outbox
<1> QED
  BY <1>1, <1>2, <1>3, <1>4, <1>5, <1>6, <1>7, <1>8, <1>9, <1>10, <1>11, <1>12, <1>13, <1>14
  DEF Next, Run, Relay, Announce, WritePump

\* The invariant of the viewers holds.
LEMMA ViewerInvHolds == Spec => []ViewerInv
  BY ViewerInvInit, ViewerInvKept, PTL DEF Spec

\* No channel is closed twice, and nothing is sent on a closed one.
THEOREM PanicNever == Spec => []NeverPanics
<1>1. ViewerInv => NeverPanics
  BY DEF ViewerInv
<1> QED BY <1>1, ViewerInvHolds, PTL

\* A connected viewer is served or told to close.
THEOREM UpIsServed == Spec => []UpMeansServed
<1>1. ViewerInv => UpMeansServed
  BY DEF ViewerInv, ViewerTypes, Served, ViewerOf, UpMeansServed
<1> QED BY <1>1, ViewerInvHolds, PTL

-----------------------------------------------------------------------------
(* The subscription.                                                       *)

\* The entry has one subscription, which runs, and there is no other; somebody who has
\* registered is still to be unregistered.
EntryInv ==
    /\ sub \in [Clients -> {"none", "running", "stopping", "stopped"}]
    /\ open \in BOOLEAN /\ current \subseteq Clients
    /\ \A c \in Clients : sub[c] = "running" <=> c \in current
    /\ IF open THEN \E c \in Clients : current = {c} ELSE current = {}
    /\ open => \E c \in Clients : conn[c] \in {"up", "leaving"}

\* The first state.
LEMMA EntryInvInit == Init => EntryInv
  BY DEF Init, EntryInv

\* One case per action: the entry is made with the subscription and dropped with it.
LEMMA EntryInvKept == ViewerInv /\ EntryInv /\ [Next]_vars => EntryInv'
<1> SUFFICES ASSUME ViewerTypes, Served, EntryInv, [Next]_vars
             PROVE  EntryInv'
  BY DEF ViewerInv
<1> USE DEF ViewerTypes, Served, ViewerOf, EntryInv
<1>1. ASSUME NEW v \in Voters, HandleVote(v)
      PROVE  EntryInv'
  BY <1>1 DEF HandleVote, MemoryRecordVote, Count, Fetch, Publish, BroadcastVote, entry, subs
<1>2. ASSUME NEW c \in Clients, Take(c)
      PROVE  EntryInv'
  BY <1>2 DEF Take, entry, outbox
<1>3. ASSUME NEW c \in Clients, HandOver(c)
      PROVE  EntryInv'
  BY <1>3 DEF HandOver, entry, outbox
<1>4. ASSUME NEW c \in Clients, Stop(c)
      PROVE  EntryInv'
  BY <1>4 DEF Stop, entry, outbox
<1>5. CASE Greet
  BY <1>5 DEF Greet, entry, subs
<1>6. ASSUME NEW c \in Clients, Register(c)
      PROVE  EntryInv'
  BY <1>6 DEF Register, outbox
<1>7. ASSUME NEW c \in Clients, Unregister(c)
      PROVE  EntryInv'
  <2>1. /\ conn[c] = "leaving" /\ conn' = [conn EXCEPT ![c] = "gone"]
        /\ clients' = clients \ {c}
    BY <1>7 DEF Unregister, Close
  <2>2. CASE ~open /\ UNCHANGED <<open, sub, current>>
    BY <2>2
  <2>3. CASE DropEntry
    BY <2>3 DEF DropEntry
  <2>4. CASE clients' # {} /\ UNCHANGED <<open, sub, current>>
    <3>1. PICK d \in clients : d # c
      BY <2>1, <2>4
    <3>2. conn[d] \in {"up", "leaving"}
      BY <3>1
    <3>3. conn'[d] \in {"up", "leaving"}
      BY <2>1, <3>1, <3>2
    <3> QED BY <2>4, <3>1, <3>3
  <2> QED BY <1>7, <2>2, <2>3, <2>4 DEF Unregister
<1>8. CASE RunBroadcast
  BY <1>8 DEF RunBroadcast, Close, subs
<1>9. ASSUME NEW c \in Clients, NoteRead(c) \/ NoteBroadcast(c)
      PROVE  EntryInv'
  BY <1>9 DEF NoteRead, NoteBroadcast, entry, subs, outbox
<1>10. ASSUME NEW c \in Clients, Connect(c)
      PROVE  EntryInv'
  BY <1>10 DEF Connect, entry, subs, outbox
<1>11. ASSUME NEW c \in Clients, ReadFails(c)
      PROVE  EntryInv'
  BY <1>11 DEF ReadFails, entry, subs, outbox
<1>12. ASSUME NEW c \in Clients, Write(c)
      PROVE  EntryInv'
  BY <1>12 DEF Write, entry, subs
<1>13. ASSUME NEW c \in Clients, WriteClose(c)
      PROVE  EntryInv'
  BY <1>13 DEF WriteClose, entry, subs, outbox
<1>14. CASE UNCHANGED vars
  BY <1>14 DEF vars, entry, subs, outbox
<1> QED
  BY <1>1, <1>2, <1>3, <1>4, <1>5, <1>6, <1>7, <1>8, <1>9, <1>10, <1>11, <1>12, <1>13, <1>14
  DEF Next, Run, Relay, Announce, WritePump

\* The poll has one running subscription while it has an entry, and neither without viewers.
THEOREM SubscribedOnce == Spec => []OneSubscription
<1>1. ViewerInv /\ EntryInv => OneSubscription
  <2> SUFFICES ASSUME ViewerInv, EntryInv
               PROVE  OneSubscription
    OBVIOUS
  <2> DEFINE running == {c \in Clients : sub[c] = "running"}
  <2>1. running = current
    BY DEF EntryInv
  <2>2. Cardinality(running) = IF open THEN 1 ELSE 0
    <3>1. CASE open
      BY <2>1, <3>1, FS_Singleton DEF EntryInv
    <3>2. CASE ~open
      BY <2>1, <3>2, FS_EmptySet DEF EntryInv
    <3> QED BY <3>1, <3>2
  <2>3. ASSUME \A c \in Clients : conn[c] \in {"out", "registering", "gone"}
        PROVE  ~open /\ clients = {}
    BY <2>3 DEF ViewerInv, ViewerTypes, Served, ViewerOf, EntryInv
  <2> QED BY <2>1, <2>2, <2>3 DEF OneSubscription
<1> QED
  BY <1>1, ViewerInvHolds, EntryInvInit, EntryInvKept, PTL DEF Spec

-----------------------------------------------------------------------------
(* Types, and the room in the channels.                                    *)

\* Sequences of S in a channel of a capacity.
Bounded(S, cap) == {s \in Seq(S) : Len(s) <= cap}

\* The votes that have been counted; the version of a tally is their number.
Counted == {v \in Voters : vote[v] # "idle"}

VoteTypes ==
    /\ tally = Cardinality(Counted)
    /\ vote \in [Voters -> {"idle", "fetch", "publish", "broadcast", "done"}]
    /\ update \in [Voters -> Updates]

ChannelTypes ==
    /\ channel \in [Clients -> Bounded(Messages, ChannelCap)]
    /\ carried \in [Clients -> Bounded(Messages, 1)]
    /\ send \in [Clients -> Bounded(Updates, SendCap)]
    /\ queue \in Bounded(Messages, QueueCap)

Greetings == [client : Clients \cup {None}, viewers : 0 .. Cardinality(Clients)]
Notes == [state : {"none", "read", "broadcast"}, value : Updates]

ShownTypes ==
    /\ greeting \in Greetings /\ note \in [Clients -> Notes]
    /\ screen \in [Clients -> Updates] /\ seen \in [Clients -> 0 .. Cardinality(Voters)]

TypeInv == VoteTypes /\ ChannelTypes /\ ShownTypes

\* A send that gives up keeps to the capacity.
LEMMA OfferedBounded ==
  ASSUME NEW S, NEW cap \in Nat, NEW s \in Bounded(S, cap), NEW m \in S
  PROVE  Offered(s, m, cap) \in Bounded(S, cap)
<1>1. s \in Seq(S) /\ Len(s) <= cap
  BY DEF Bounded
<1>2. Append(s, m) \in Seq(S) /\ Len(Append(s, m)) = Len(s) + 1
  BY <1>1, AppendProperties
<1> QED BY <1>1, <1>2 DEF Offered, Bounded

\* What is taken from a channel, and what is left in it.
LEMMA TakenBounded ==
  ASSUME NEW S, NEW cap \in Nat, NEW s \in Bounded(S, cap), s # <<>>
  PROVE  Head(s) \in S /\ Tail(s) \in Bounded(S, cap)
<1>1. s \in Seq(S) /\ Len(s) <= cap
  BY DEF Bounded
<1>2. Head(s) \in S /\ Tail(s) \in Seq(S) /\ Len(Tail(s)) = Len(s) - 1
  BY <1>1, HeadTailProperties
<1> QED BY <1>1, <1>2 DEF Bounded

\* The empty channel, and one with a message.
LEMMA FewBounded ==
  ASSUME NEW S, NEW cap \in Nat, NEW m \in S
  PROVE  <<>> \in Bounded(S, cap) /\ <<m>> \in Bounded(S, 1)
  BY DEF Bounded

\* Capacities are positive.
LEMMA CapType == {SendCap, QueueCap, ChannelCap} \subseteq Nat \ {0}
  BY CapAssumption

\* An update has a version that has been counted, and no more viewers than there are.
LEMMA UpdateType ==
  ASSUME NEW version \in 0 .. Cardinality(Voters), NEW viewers \in 0 .. Cardinality(Clients)
  PROVE  Update(version, viewers) \in Updates
  BY DEF Update, Updates

\* The numbers of votes and of viewers.
LEMMA NumberType ==
  /\ Cardinality(Voters) \in Nat /\ Cardinality(Clients) \in Nat
  /\ \A s \in SUBSET Clients : Cardinality(s) \in 0 .. Cardinality(Clients)
  /\ VoteTypes => tally \in 0 .. Cardinality(Voters)
<1>1. Cardinality(Voters) \in Nat /\ Cardinality(Clients) \in Nat
  BY FiniteAssumption, FS_CardinalityType
<1>2. ASSUME NEW s \in SUBSET Clients
      PROVE  Cardinality(s) \in 0 .. Cardinality(Clients)
  <2>1. IsFiniteSet(s) /\ Cardinality(s) <= Cardinality(Clients)
    BY FiniteAssumption, FS_Subset
  <2> QED BY <1>1, <2>1, FS_CardinalityType
<1>3. ASSUME VoteTypes
      PROVE  tally \in 0 .. Cardinality(Voters)
  <2>1. Counted \subseteq Voters
    BY DEF Counted
  <2>2. IsFiniteSet(Counted) /\ Cardinality(Counted) <= Cardinality(Voters)
    BY <2>1, FiniteAssumption, FS_Subset
  <2> QED BY <1>1, <1>3, <2>2, FS_CardinalityType DEF VoteTypes
<1> QED BY <1>1, <1>2, <1>3

\* The first values, and the messages of a vote handler.
LEMMA FirstType ==
  /\ Update(0, 0) \in Updates /\ NoNote \in Notes /\ NotGreeting \in Greetings
  /\ \A v \in Voters : ByReference(v) \in Messages
  /\ \A u \in Updates : ByValue(u) \in Messages
<1>1. Update(0, 0) \in Updates
  BY NumberType, UpdateType
<1>2. NoNote \in Notes
  BY <1>1 DEF NoNote, Notes
<1>3. NotGreeting \in Greetings
  BY NumberType DEF NotGreeting, Greetings
<1>4. ASSUME NEW v \in Voters PROVE ByReference(v) \in Messages
  BY <1>1 DEF ByReference, Messages
<1>5. ASSUME NEW u \in Updates PROVE ByValue(u) \in Messages
  BY DEF ByValue, Messages
<1> QED BY <1>1, <1>2, <1>3, <1>4, <1>5

\* A vote that is counted makes the tally's version one more.
LEMMA CountedOnce ==
  ASSUME VoteTypes, NEW v \in Voters, vote[v] = "idle",
         NEW next \in {"fetch", "broadcast"}, vote' = [vote EXCEPT ![v] = next]
  PROVE  /\ Cardinality(Counted') = tally + 1 /\ tally + 1 \in 0 .. Cardinality(Voters)
         /\ vote' \in [Voters -> {"idle", "fetch", "publish", "broadcast", "done"}]
<1>1. Counted' = Counted \cup {v} /\ v \notin Counted /\ Counted \subseteq Voters
  BY DEF Counted, VoteTypes
<1>2. IsFiniteSet(Counted)
  BY <1>1, FiniteAssumption, FS_Subset
<1>3. Cardinality(Counted') = Cardinality(Counted) + 1
  BY <1>1, <1>2, FS_AddElement
<1>4. Counted' \subseteq Voters
  BY <1>1
<1>5. IsFiniteSet(Counted') /\ Cardinality(Counted') <= Cardinality(Voters)
  BY <1>4, FiniteAssumption, FS_Subset
<1>6. Cardinality(Counted') \in Nat
  BY <1>5, FS_CardinalityType
<1> QED BY <1>3, <1>5, <1>6, NumberType DEF VoteTypes

\* A handler that goes on has been counted before.
LEMMA CountedStill ==
  ASSUME VoteTypes, NEW v \in Voters, vote[v] # "idle", NEW next \in {"publish", "broadcast", "done"},
         vote' = [vote EXCEPT ![v] = next], UNCHANGED tally, update' \in [Voters -> Updates]
  PROVE  VoteTypes'
<1>1. Counted' = Counted
  BY DEF Counted, VoteTypes
<1> QED BY <1>1 DEF VoteTypes

\* The subscribers get a message.
LEMMA PublishedTypes ==
  ASSUME ChannelTypes, NEW m \in Messages, PublishTo(m)
  PROVE  channel' \in [Clients -> Bounded(Messages, ChannelCap)]
<1>1. \A c \in Clients : Offered(channel[c], m, ChannelCap) \in Bounded(Messages, ChannelCap)
  BY CapType, OfferedBounded DEF ChannelTypes
<1> QED BY <1>1 DEF PublishTo, ChannelTypes

\* The vote handlers.
LEMMA HandledTypes ==
  ASSUME TypeInv, NEW v \in Voters, HandleVote(v)
  PROVE  TypeInv'
<1>0. VoteTypes /\ ChannelTypes /\ ShownTypes
  BY DEF TypeInv
<1>1. ASSUME UNCHANGED <<greeting, note, screen, seen>>
      PROVE  ShownTypes'
  BY <1>0, <1>1 DEF ShownTypes
<1>2. ASSUME UNCHANGED <<channel, carried, send, queue>>
      PROVE  ChannelTypes'
  BY <1>0, <1>2 DEF ChannelTypes
<1>3. CASE MemoryRecordVote(v)
  <2>1. vote[v] = "idle" /\ vote' = [vote EXCEPT ![v] = "broadcast"] /\ tally' = tally + 1
    BY <1>3 DEF MemoryRecordVote
  <2>2. /\ Cardinality(Counted') = tally + 1 /\ tally + 1 \in 0 .. Cardinality(Voters)
        /\ vote' \in [Voters -> {"idle", "fetch", "publish", "broadcast", "done"}]
    BY <1>0, <2>1, CountedOnce
  <2>3. Update(tally + 1, 0) \in Updates
    BY <2>2, NumberType, UpdateType
  <2>4. update' \in [Voters -> Updates]
    BY <1>0, <1>3, <2>1, <2>3 DEF MemoryRecordVote, VoteTypes
  <2>5. channel' \in [Clients -> Bounded(Messages, ChannelCap)]
    BY <1>0, <1>3, FirstType, PublishedTypes DEF MemoryRecordVote
  <2>6. UNCHANGED <<carried, send, queue, greeting, note, screen, seen>>
    BY <1>3 DEF MemoryRecordVote, outbox, display
  <2> QED BY <1>0, <1>1, <2>1, <2>2, <2>4, <2>5, <2>6 DEF TypeInv, VoteTypes, ChannelTypes
<1>4. CASE Count(v)
  <2>1. vote[v] = "idle" /\ vote' = [vote EXCEPT ![v] = "fetch"] /\ tally' = tally + 1
    BY <1>4 DEF Count
  <2>2. /\ Cardinality(Counted') = tally + 1 /\ tally + 1 \in 0 .. Cardinality(Voters)
        /\ vote' \in [Voters -> {"idle", "fetch", "publish", "broadcast", "done"}]
    BY <1>0, <2>1, CountedOnce
  <2>3. UNCHANGED <<update, channel, carried, send, queue, greeting, note, screen, seen>>
    BY <1>4 DEF Count, subs, outbox, display
  <2> QED BY <1>0, <1>1, <1>2, <2>1, <2>2, <2>3 DEF TypeInv, VoteTypes
<1>5. CASE Fetch(v)
  <2>1. Update(tally, 0) \in Updates
    BY <1>0, NumberType, UpdateType
  <2>2. update' \in [Voters -> Updates]
    BY <1>0, <1>5, <2>1 DEF Fetch, VoteTypes
  <2>3. /\ vote[v] # "idle" /\ vote' = [vote EXCEPT ![v] = "publish"]
        /\ UNCHANGED <<tally, channel, carried, send, queue, greeting, note, screen, seen>>
    BY <1>5 DEF Fetch, subs, outbox, display
  <2> QED BY <1>0, <1>1, <1>2, <2>2, <2>3, CountedStill DEF TypeInv
<1>6. CASE Publish(v)
  <2>1. /\ vote[v] # "idle" /\ vote' = [vote EXCEPT ![v] = "broadcast"]
        /\ UNCHANGED <<tally, update, carried, send, queue, greeting, note, screen, seen>>
    BY <1>6 DEF Publish, outbox, display
  <2>2. channel' \in [Clients -> Bounded(Messages, ChannelCap)]
    BY <1>0, <1>6, FirstType, PublishedTypes DEF Publish, VoteTypes
  <2>3. update' \in [Voters -> Updates]
    BY <1>0, <2>1 DEF VoteTypes
  <2>4. ChannelTypes'
    BY <1>0, <2>1, <2>2 DEF ChannelTypes
  <2> QED BY <1>0, <1>1, <2>1, <2>3, <2>4, CountedStill DEF TypeInv
<1>7. CASE BroadcastVote(v)
  <2>1. /\ vote[v] # "idle" /\ vote' = [vote EXCEPT ![v] = "done"]
        /\ UNCHANGED <<tally, update, channel, carried, send, greeting, note, screen, seen>>
    BY <1>7 DEF BroadcastVote, subs, outbox, display
  <2>2. queue' \in Bounded(Messages, QueueCap)
    BY <1>0, <1>7, FirstType, CapType, OfferedBounded DEF BroadcastVote, ChannelTypes
  <2>3. update' \in [Voters -> Updates]
    BY <1>0, <2>1 DEF VoteTypes
  <2>4. ChannelTypes'
    BY <1>0, <2>1, <2>2 DEF ChannelTypes
  <2> QED BY <1>0, <1>1, <2>1, <2>3, <2>4, CountedStill DEF TypeInv
<1> QED BY <1>3, <1>4, <1>5, <1>6, <1>7 DEF HandleVote

\* The subscription takes a message, hands it over, or stops.
LEMMA RelayedTypes ==
  ASSUME TypeInv, NEW c \in Clients, Relay(c)
  PROVE  TypeInv'
<1>0. VoteTypes /\ ChannelTypes /\ ShownTypes
  BY DEF TypeInv
<1>1. VoteTypes' /\ ShownTypes'
  <2>1. UNCHANGED <<tally, vote, update, greeting, note, screen, seen>>
    BY DEF Relay, Take, HandOver, Stop, realtime, display
  <2>2. Counted' = Counted
    BY <2>1 DEF Counted
  <2> QED BY <1>0, <2>1, <2>2 DEF VoteTypes, ShownTypes
<1>2. /\ channel[c] \in Bounded(Messages, ChannelCap) /\ carried[c] \in Bounded(Messages, 1)
      /\ queue \in Bounded(Messages, QueueCap)
  BY <1>0 DEF ChannelTypes
<1>3. CASE Take(c)
  <2>1. channel[c] # <<>> /\ UNCHANGED <<send, queue>>
    BY <1>3 DEF Take, outbox
  <2>2. Head(channel[c]) \in Messages /\ Tail(channel[c]) \in Bounded(Messages, ChannelCap)
    BY <1>2, <2>1, CapType, TakenBounded
  <2> DEFINE m == Head(channel[c])
             rest == Tail(channel[c])
             taken == <<m>>
  <2>3. taken \in Bounded(Messages, 1)
    BY <2>2, CapType, FewBounded
  <2>4. rest \in Bounded(Messages, ChannelCap)
    BY <2>2
  <2>5. /\ carried' = [carried EXCEPT ![c] = taken]
        /\ channel' = [channel EXCEPT ![c] = rest]
    BY <1>3 DEF Take
  <2> HIDE DEF taken, rest, m
  <2>6. ChannelTypes'
    BY <1>0, <2>1, <2>3, <2>4, <2>5 DEF ChannelTypes
  <2> QED BY <1>1, <2>6 DEF TypeInv
<1>4. CASE HandOver(c)
  <2> DEFINE none == <<>>
  <2>1. /\ carried[c] # <<>> /\ Len(queue) < QueueCap /\ queue' = queue \o carried[c]
        /\ carried' = [carried EXCEPT ![c] = none] /\ UNCHANGED <<send, channel>>
    BY <1>4 DEF HandOver, outbox
  <2>2. none \in Bounded(Messages, 1)
    BY DEF Bounded
  <2> HIDE DEF none
  <2>3. queue' \in Bounded(Messages, QueueCap)
    <3>1. /\ queue \in Seq(Messages) /\ carried[c] \in Seq(Messages) /\ Len(carried[c]) <= 1
          /\ Len(carried[c]) \in Nat /\ Len(queue) \in Nat /\ QueueCap \in Nat
      BY <1>2, CapType DEF Bounded
    <3>2. /\ queue \o carried[c] \in Seq(Messages)
          /\ Len(queue \o carried[c]) = Len(queue) + Len(carried[c])
      BY <3>1, ConcatProperties
    <3> QED BY <2>1, <3>1, <3>2 DEF Bounded
  <2>4. ChannelTypes'
    BY <1>0, <2>1, <2>2, <2>3 DEF ChannelTypes
  <2> QED BY <1>1, <2>4 DEF TypeInv
<1>5. CASE Stop(c)
  <2> DEFINE none == <<>>
  <2>1. channel' = [channel EXCEPT ![c] = none] /\ UNCHANGED <<send, carried, queue>>
    BY <1>5 DEF Stop, outbox
  <2>2. none \in Bounded(Messages, ChannelCap)
    BY CapType DEF Bounded
  <2> HIDE DEF none
  <2>3. ChannelTypes'
    BY <1>0, <2>1, <2>2 DEF ChannelTypes
  <2> QED BY <1>1, <2>3 DEF TypeInv
<1> QED BY <1>3, <1>4, <1>5 DEF Relay

\* The goroutines that announce viewers.
LEMMA AnnouncedTypes ==
  ASSUME TypeInv, NEW c \in Clients, Announce(c)
  PROVE  TypeInv'
<1>0. VoteTypes /\ ChannelTypes /\ ShownTypes /\ note[c] \in Notes
  BY DEF TypeInv, ShownTypes
<1>1. VoteTypes'
  <2>1. UNCHANGED <<tally, vote, update>>
    BY DEF Announce, NoteRead, NoteBroadcast, realtime
  <2>2. Counted' = Counted
    BY <2>1 DEF Counted
  <2> QED BY <1>0, <2>1, <2>2 DEF VoteTypes
<1>2. UNCHANGED <<channel, carried, send, greeting, screen, seen>>
  BY DEF Announce, NoteRead, NoteBroadcast, subs, outbox, display
<1>3. CASE NoteRead(c)
  <2> DEFINE n == [state |-> "broadcast", value |-> Update(tally, note[c].value.viewers)]
  <2>1. note[c].value.viewers \in 0 .. Cardinality(Clients)
    BY <1>0 DEF Notes, Updates
  <2>2. n \in Notes
    BY <1>0, <2>1, NumberType, UpdateType DEF Notes
  <2>3. note' = [note EXCEPT ![c] = n] /\ UNCHANGED queue
    BY <1>0, <1>3 DEF NoteRead, ShownTypes
  <2> HIDE DEF n
  <2> QED BY <1>0, <1>1, <1>2, <2>2, <2>3 DEF TypeInv, ShownTypes, ChannelTypes
<1>4. CASE NoteBroadcast(c)
  <2>1. ByValue(note[c].value) \in Messages
    BY <1>0, FirstType DEF Notes
  <2>2. queue' \in Bounded(Messages, QueueCap)
    BY <1>0, <1>4, <2>1, CapType, OfferedBounded DEF NoteBroadcast, ChannelTypes
  <2>3. note' \in [Clients -> Notes]
    BY <1>0, <1>4, FirstType DEF NoteBroadcast, ShownTypes
  <2> QED BY <1>0, <1>1, <1>2, <2>2, <2>3 DEF TypeInv, ShownTypes, ChannelTypes
<1> QED BY <1>3, <1>4 DEF Announce

\* A viewer shows the next update.
LEMMA WrittenTypes ==
  ASSUME TypeInv, NEW c \in Clients, Write(c)
  PROVE  TypeInv'
<1>0. VoteTypes /\ ChannelTypes /\ ShownTypes /\ send[c] \in Bounded(Updates, SendCap) /\ send[c] # <<>>
  BY DEF TypeInv, ChannelTypes, Write
<1>1. VoteTypes'
  <2>1. UNCHANGED <<tally, vote, update>>
    BY DEF Write, realtime
  <2>2. Counted' = Counted
    BY <2>1 DEF Counted
  <2> QED BY <1>0, <2>1, <2>2 DEF VoteTypes
<1> DEFINE u == Head(send[c])
           rest == Tail(send[c])
<1>2. u \in Updates /\ rest \in Bounded(Updates, SendCap)
  BY <1>0, CapType, TakenBounded
<1>3. send' = [send EXCEPT ![c] = rest] /\ screen' = [screen EXCEPT ![c] = u]
  BY DEF Write
<1> HIDE DEF u, rest
<1>4. UNCHANGED <<channel, carried, queue, greeting, note>>
  BY DEF Write, subs
<1>5. ChannelTypes'
  BY <1>0, <1>2, <1>3, <1>4 DEF ChannelTypes
<1>6. screen' \in [Clients -> Updates] /\ screen'[c].version \in 0 .. Cardinality(Voters)
  BY <1>0, <1>2, <1>3 DEF ShownTypes, Updates
<1>7. seen' \in [Clients -> 0 .. Cardinality(Voters)]
  BY <1>0, <1>6 DEF Write, ShownTypes
<1> QED BY <1>0, <1>1, <1>4, <1>5, <1>6, <1>7 DEF TypeInv, ShownTypes

\* The run loop.
LEMMA RunTypes ==
  ASSUME TypeInv, ViewerTypes, Run
  PROVE  TypeInv'
<1>0. VoteTypes /\ ChannelTypes /\ ShownTypes /\ clients \subseteq Clients
  BY DEF TypeInv, ViewerTypes
<1>1. ASSUME UNCHANGED <<tally, vote, update>>
      PROVE  VoteTypes'
  <2>1. Counted' = Counted
    BY <1>1 DEF Counted
  <2> QED BY <1>0, <1>1, <2>1 DEF VoteTypes
<1>2. CASE Greet
  <2>1. PICK c \in Clients :
            /\ greeting' = NotGreeting
            /\ send' = [send EXCEPT ![c] = Offered(@, Update(tally, greeting.viewers), SendCap)]
            /\ note' = [note EXCEPT ![c] = [state |-> "broadcast",
                                            value |-> Update(tally, greeting.viewers)]]
            /\ UNCHANGED <<realtime, subs, queue, display>>
    BY <1>2 DEF Greet
  <2>2. PICK u \in Updates : u = Update(tally, greeting.viewers)
    BY <1>0, NumberType, UpdateType DEF ShownTypes, Greetings
  <2>3. PICK s \in Bounded(Updates, SendCap) : s = Offered(send[c], u, SendCap)
    BY <1>0, CapType, OfferedBounded DEF ChannelTypes
  <2>4. send' = [send EXCEPT ![c] = s]
    BY <1>0, <2>1, <2>2, <2>3 DEF ChannelTypes
  <2>5. ChannelTypes'
    BY <1>0, <2>1, <2>4 DEF ChannelTypes, subs
  <2> DEFINE n == [state |-> "broadcast", value |-> u]
  <2>6. n \in Notes /\ note' = [note EXCEPT ![c] = n]
    BY <2>1, <2>2 DEF Notes
  <2> HIDE DEF n
  <2>7. ShownTypes'
    BY <1>0, <2>1, <2>6, FirstType DEF ShownTypes, display
  <2> QED BY <1>1, <2>1, <2>5, <2>7 DEF TypeInv, realtime
<1>3. ASSUME NEW c \in Clients, Register(c)
      PROVE  TypeInv'
  <2>1. clients' \in SUBSET Clients
    BY <1>0, <1>3 DEF Register
  <2>2. PICK n \in 0 .. Cardinality(Clients) : n = Cardinality(clients')
    BY <2>1, NumberType
  <2>3. greeting' \in Greetings
    BY <1>3, <2>2 DEF Register, Greetings
  <2>4. UNCHANGED <<realtime, channel, carried, send, queue, note, screen, seen>>
    BY <1>3 DEF Register, outbox, display
  <2> QED BY <1>0, <1>1, <2>3, <2>4 DEF TypeInv, ChannelTypes, ShownTypes, realtime
<1>4. ASSUME NEW c \in Clients, Unregister(c)
      PROVE  TypeInv'
  <2>1. clients' \in SUBSET Clients
    BY <1>0, <1>4 DEF Unregister, Close
  <2>2. PICK n \in 0 .. Cardinality(Clients) : n = Cardinality(clients')
    BY <2>1, NumberType
  <2>3. /\ UNCHANGED <<realtime, channel, carried, send, queue, greeting, screen, seen>>
        /\ \/ UNCHANGED note
           \/ note' = [note EXCEPT ![c] = [state |-> "read", value |-> Update(0, n)]]
    BY <1>4, <2>2 DEF Unregister, display
  <2> DEFINE m == [state |-> "read", value |-> Update(0, n)]
  <2>4. m \in Notes
    BY NumberType, UpdateType DEF Notes
  <2>5. UNCHANGED note \/ note' = [note EXCEPT ![c] = m]
    BY <2>3
  <2> HIDE DEF m
  <2>6. note' \in [Clients -> Notes]
    BY <1>0, <2>4, <2>5 DEF ShownTypes
  <2> QED BY <1>0, <1>1, <2>3, <2>6 DEF TypeInv, ChannelTypes, ShownTypes, realtime
<1>5. CASE RunBroadcast
  <2> DEFINE m == Head(queue)
             value == IF m.from = None THEN m.value ELSE update[m.from]
             stamped == IF value.viewers = 0
                        THEN [value EXCEPT !.viewers = Cardinality(clients)] ELSE value
             slow == {c \in clients : Len(send[c]) >= SendCap}
  <2>1. /\ queue' = Tail(queue) /\ queue # <<>>
        /\ update' = (IF m.from = None THEN update ELSE [update EXCEPT ![m.from] = stamped])
        /\ send' = [c \in Clients |-> IF c \in clients \ slow THEN Append(send[c], stamped)
                                                             ELSE send[c]]
        /\ UNCHANGED <<tally, vote, subs, greeting, note, display>>
    BY <1>5 DEF RunBroadcast
  <2>2. m \in Messages /\ Tail(queue) \in Bounded(Messages, QueueCap)
    BY <1>0, <2>1, CapType, TakenBounded DEF ChannelTypes
  <2>3. m.from \in Voters \cup {None} /\ m.value \in Updates
    BY <2>2 DEF Messages
  <2> HIDE DEF m
  <2>4. value \in Updates
    BY <1>0, <2>3 DEF VoteTypes
  <2> HIDE DEF value
  <2>5. stamped \in Updates
    BY <1>0, <2>4, NumberType DEF Updates
  <2> HIDE DEF stamped
  <2>6. update' \in [Voters -> Updates]
    BY <1>0, <2>1, <2>3, <2>5 DEF VoteTypes
  <2>7. ASSUME NEW c \in Clients
        PROVE  (IF c \in clients \ slow THEN Append(send[c], stamped) ELSE send[c])
                  \in Bounded(Updates, SendCap)
    <3>1. send[c] \in Seq(Updates) /\ Len(send[c]) <= SendCap /\ Len(send[c]) \in Nat /\ SendCap \in Nat
      BY <1>0, CapType DEF ChannelTypes, Bounded
    <3>2. /\ Append(send[c], stamped) \in Seq(Updates)
          /\ Len(Append(send[c], stamped)) = Len(send[c]) + 1
      BY <2>5, <3>1, AppendProperties
    <3> QED BY <3>1, <3>2 DEF Bounded
  <2>8. send' \in [Clients -> Bounded(Updates, SendCap)]
    BY <2>1, <2>7
  <2>9. ChannelTypes'
    BY <1>0, <2>1, <2>2, <2>8 DEF ChannelTypes, subs
  <2>10. Counted' = Counted
    BY <2>1 DEF Counted
  <2>11. VoteTypes' /\ ShownTypes'
    BY <1>0, <2>1, <2>6, <2>10 DEF VoteTypes, ShownTypes, display
  <2> QED BY <2>9, <2>11 DEF TypeInv
<1> QED BY <1>2, <1>3, <1>4, <1>5 DEF Run

\* What a step touches of types is what its case says.
LEMMA TypeInvKept == TypeInv /\ ViewerInv /\ [Next]_vars => TypeInv'
<1> SUFFICES ASSUME TypeInv, ViewerTypes, [Next]_vars
             PROVE  TypeInv'
  BY DEF ViewerInv
<1>1. ASSUME UNCHANGED <<realtime, channel, carried, send, queue, greeting, note, display>>
      PROVE  TypeInv'
  <2>1. UNCHANGED <<tally, vote, update, channel, carried, send, queue, greeting, note, screen, seen>>
    BY <1>1 DEF realtime, display
  <2>2. Counted' = Counted
    BY <2>1 DEF Counted
  <2> QED BY <2>1, <2>2 DEF TypeInv, VoteTypes, ChannelTypes, ShownTypes
<1>2. ASSUME NEW c \in Clients, WriteClose(c) \/ Connect(c) \/ ReadFails(c)
      PROVE  TypeInv'
  BY <1>1, <1>2 DEF WriteClose, Connect, ReadFails, subs, outbox
<1>3. CASE UNCHANGED vars
  BY <1>1, <1>3 DEF vars, subs, outbox
<1> QED
  BY <1>2, <1>3, HandledTypes, RelayedTypes, AnnouncedTypes, WrittenTypes, RunTypes
  DEF Next, WritePump

\* Types hold: a tally's version is the number of counted votes, and no channel holds more
\* than its capacity, whatever is sent to it.
THEOREM TypeCorrect == Spec => []TypeOK
<1>1. Init => TypeInv
  <2> SUFFICES ASSUME Init
               PROVE  TypeInv
    OBVIOUS
  <2>1. VoteTypes
    <3>1. Counted = {}
      BY DEF Init, Counted
    <3> QED BY <3>1, FirstType, FS_EmptySet DEF Init, VoteTypes
  <2>2. ChannelTypes
    <3> DEFINE none == <<>>
    <3>1. /\ none \in Bounded(Messages, ChannelCap) /\ none \in Bounded(Messages, 1)
          /\ none \in Bounded(Updates, SendCap) /\ none \in Bounded(Messages, QueueCap)
      BY CapType DEF Bounded
    <3>2. /\ channel = [c \in Clients |-> none] /\ carried = [c \in Clients |-> none]
          /\ send = [c \in Clients |-> none] /\ queue = none
      BY DEF Init
    <3> HIDE DEF none
    <3> QED BY <3>1, <3>2 DEF ChannelTypes
  <2>3. ShownTypes
    BY FirstType, NumberType DEF Init, ShownTypes
  <2> QED BY <2>1, <2>2, <2>3 DEF TypeInv
<1>2. TypeInv /\ ViewerInv /\ EntryInv => TypeOK
  <2> SUFFICES ASSUME TypeInv, ViewerInv, EntryInv
               PROVE  TypeOK
    OBVIOUS
  <2>1. /\ tally \in 0..Cardinality(Voters)
        /\ vote \in [Voters -> {"idle", "fetch", "publish", "broadcast", "done"}]
        /\ update \in [Voters -> Updates]
    BY NumberType DEF TypeInv, VoteTypes
  <2>2. ASSUME NEW S, NEW cap, NEW s \in Bounded(S, cap)
        PROVE  Len(s) <= cap /\ Range(s) \subseteq S
    BY DEF Bounded, Range
  <2>3. \A c \in Clients :
          /\ Len(channel[c]) <= ChannelCap /\ Range(channel[c]) \subseteq Messages
          /\ Len(carried[c]) <= 1 /\ Range(carried[c]) \subseteq Messages
          /\ Len(send[c]) <= SendCap /\ Range(send[c]) \subseteq Updates
    <3> TAKE c \in Clients
    <3>1. /\ channel[c] \in Bounded(Messages, ChannelCap) /\ carried[c] \in Bounded(Messages, 1)
          /\ send[c] \in Bounded(Updates, SendCap)
      BY DEF TypeInv, ChannelTypes
    <3> QED BY <2>2, <3>1
  <2>4. Len(queue) <= QueueCap /\ Range(queue) \subseteq Messages
    BY <2>2 DEF TypeInv, ChannelTypes
  <2>5. /\ greeting \in [client : Clients \cup {None}, viewers : 0..Cardinality(Clients)]
        /\ note \in [Clients -> [state : {"none", "read", "broadcast"}, value : Updates]]
        /\ screen \in [Clients -> Updates] /\ seen \in [Clients -> 0..Cardinality(Voters)]
    BY DEF TypeInv, ShownTypes, Greetings, Notes
  <2> QED BY <2>1, <2>3, <2>4, <2>5 DEF TypeOK, ViewerInv, ViewerTypes, EntryInv
<1> QED
  BY <1>1, <1>2, ViewerInvHolds, ViewerInvInit, ViewerInvKept, EntryInvInit, EntryInvKept,
     TypeInvKept, PTL DEF Spec
=============================================================================
