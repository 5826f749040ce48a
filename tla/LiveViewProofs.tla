--------------------------- MODULE LiveViewProofs ---------------------------
(***************************************************************************)
(* What holds of the connection of a page and of the numbers it shows, for *)
(* any polls, any buffers, and any number of calls of the page.            *)
(***************************************************************************)
EXTENDS LiveView, FiniteSetTheorems, SequenceTheorems, WellFoundedInduction, TLAPS

-----------------------------------------------------------------------------
(* The hook.                                                               *)

\* The connection or the timeout of the effect that ran last.
Mine(s) == s.live /\ s.poll = watched /\ s.n = ref
Due(t) == t.live /\ t.poll = watched

\* A connection is a record of these fields.
IsSocket(s) == s = Socket(s.n, s.poll, s.live, s.phase, s.inbox, s.said)

\* One connection, or one timeout, or neither when nothing is watched.
OneHold ==
    \/ watched = None /\ sockets = {} /\ timers = {}
    \/ watched # None /\ timers = {} /\ \E s : sockets = {s} /\ Mine(s) /\ IsSocket(s)
    \/ watched # None /\ sockets = {} /\ \E t : timers = {t} /\ Due(t)

\* The effect closes its connection, clears its timeout, and connects to the next poll.
LEMMA WatchKeeps ==
    ASSUME OneHold, NEW p, Watch(p)
    PROVE  OneHold'
<1>1. Kept = {} /\ Cleared = {}
  BY DEF OneHold, Mine, Due, Kept, Cleared
<1>2. CASE p = None
  BY <1>1, <1>2 DEF Watch, OneHold
<1>3. CASE p # None
  <2> DEFINE s == Socket(Free, p, TRUE, "connecting", <<>>, NoMessage)
  <2>1. sockets' = {s} /\ ref' = Free /\ watched' = p /\ timers' = {}
    BY <1>1, <1>3 DEF Watch, Connect
  <2>2. s.live /\ s.poll = watched' /\ s.n = ref' /\ IsSocket(s)
    BY <2>1 DEF IsSocket, Socket
  <2> QED BY <1>3, <2>1, <2>2 DEF OneHold, Mine, IsSocket
<1> QED BY <1>2, <1>3

\* When the timeout fires there is no other connection.
LEMMA ReconnectKeeps ==
    ASSUME OneHold, NEW t \in timers, Reconnect(t)
    PROVE  OneHold'
<1> DEFINE s == Socket(Free, t.poll, t.live, "connecting", <<>>, NoMessage)
<1>1. watched # None /\ sockets = {} /\ timers = {t} /\ t.live /\ t.poll = watched
  BY DEF OneHold, Due
<1>2. sockets' = {s} /\ ref' = Free /\ watched' = watched /\ timers' = {}
  BY <1>1 DEF Reconnect, Connect
<1>3. s.live /\ s.poll = watched' /\ s.n = ref' /\ IsSocket(s)
  BY <1>1, <1>2 DEF IsSocket, Socket
<1> QED BY <1>1, <1>2, <1>3 DEF OneHold, Mine, IsSocket

\* A connection that is closed leaves a timeout.
LEMMA ClosedKeeps ==
    ASSUME OneHold, NEW s \in sockets, Closed(s)
    PROVE  OneHold'
<1> DEFINE t == [poll |-> s.poll, live |-> TRUE]
<1>1. watched # None /\ sockets = {s} /\ timers = {} /\ s.live /\ s.poll = watched
  BY DEF OneHold, Mine
<1>2. sockets' = {} /\ watched' = watched /\ timers' = {t}
  BY <1>1 DEF Closed, Retry
<1>3. t.live /\ t.poll = watched'
  BY <1>1, <1>2
<1> HIDE DEF t
<1> QED BY <1>1, <1>2, <1>3 DEF OneHold, Due

\* What happens to a connection leaves it the page's.
LEMMA ChangeKeeps ==
    ASSUME OneHold, NEW s \in sockets, UNCHANGED <<watched, ref, timers>>,
           NEW phase, NEW inbox, NEW said,
           sockets' = (sockets \ {s}) \cup {Socket(s.n, s.poll, s.live, phase, inbox, said)}
    PROVE  OneHold'
<1> DEFINE u == Socket(s.n, s.poll, s.live, phase, inbox, said)
<1>1. watched # None /\ sockets = {s} /\ timers = {} /\ Mine(s)
  BY DEF OneHold
<1>2. sockets' = {u}
  BY <1>1
<1>3. u.live /\ u.poll = watched' /\ u.n = ref' /\ IsSocket(u)
  BY <1>1 DEF Mine, IsSocket, Socket
<1> QED BY <1>1, <1>2, <1>3 DEF OneHold, Mine

\* So does a message to everybody.
LEMMA BroadcastKeeps ==
    ASSUME OneHold, NEW m, Broadcast(m), UNCHANGED <<watched, ref, timers>>
    PROVE  OneHold'
<1>1. CASE sockets = {}
  BY <1>1 DEF OneHold, Broadcast, Due
<1>2. ASSUME NEW s, sockets = {s}
      PROVE  OneHold'
  <2>1. watched # None /\ timers = {} /\ Mine(s) /\ IsSocket(s)
    BY <1>2 DEF OneHold
  <2> DEFINE u == IF s.phase = "open" /\ s.poll = m.poll THEN Deliver(s, m) ELSE s
  <2>2. sockets' = {u}
    BY <1>2 DEF Broadcast
  <2>3. \/ u = s
        \/ u = Socket(s.n, s.poll, s.live, s.phase, Append(s.inbox, m), m)
        \/ u = Socket(s.n, s.poll, s.live, "closed", s.inbox, NoMessage)
    BY <2>1 DEF Deliver, IsSocket, Socket
  <2> HIDE DEF u
  <2>4. u.n = s.n /\ u.poll = s.poll /\ u.live = s.live /\ IsSocket(u)
    BY <2>1, <2>3 DEF IsSocket, Socket
  <2> QED BY <2>1, <2>2, <2>4 DEF OneHold, Mine
<1> QED BY <1>1, <1>2 DEF OneHold

\* What leaves the hook alone leaves it one connection.
LEMMA StillKeeps ==
    ASSUME OneHold, UNCHANGED <<watched, sockets, ref, timers>>
    PROVE  OneHold'
  BY DEF OneHold, Mine, Due

-----------------------------------------------------------------------------
(* The page.                                                               *)

\* The first state.
LEMMA OneHoldInit == Init => OneHold
  BY DEF Init, SocketInit, OneHold

\* A page that breaks is left.
LEMMA BreaksLeaves ==
  ASSUME NEW c, Breaks(c)
  PROVE  Person
  BY DEF Breaks, Person

\* One case per kind of step.
LEMMA OneHoldKept == OneHold /\ [Next]_vars => OneHold'
<1> SUFFICES ASSUME OneHold, [Next]_vars
             PROVE  OneHold'
  OBVIOUS
<1>1. CASE Person
  <2>1. CASE Leave
    BY <2>1, WatchKeeps DEF Leave
  <2>2. CASE \/ \E k \in Kinds, a \in Addresses : Enter(k, a)
             \/ \E a \in Addresses : Readdress(a)
             \/ \E p \in Polls : Select(p)
             \/ \E v \in Views : SwitchView(v)
             \/ Choose \/ SubmitVote \/ SubmitReset \/ SubmitPoll \/ Reinitialise
    <3>1. UNCHANGED <<watched, sockets, ref, timers>>
      BY <2>2 DEF Enter, Readdress, Select, SwitchView, Choose, SubmitVote, SubmitReset,
                  SubmitPoll, Reinitialise, hookVars
    <3> QED BY <3>1, StillKeeps
  <2> QED BY <1>1, <2>1, <2>2 DEF Person
<1>2. CASE Render
  BY <1>2, WatchKeeps, StillKeeps DEF Render
<1>3. ASSUME NEW s \in sockets, Receive(s)
      PROVE  OneHold'
  BY <1>3, ChangeKeeps DEF Receive
<1>4. ASSUME NEW s \in sockets, Closed(s)
      PROVE  OneHold'
  BY <1>4, ClosedKeeps
<1>5. ASSUME NEW s \in sockets, Open(s) \/ Lose(s)
      PROVE  OneHold'
  BY <1>5, ChangeKeeps DEF Open, Lose, Becomes
<1>6. ASSUME NEW t \in timers, Reconnect(t)
      PROVE  OneHold'
  BY <1>6, ReconnectKeeps
<1>7. ASSUME NEW p, Announce(p)
      PROVE  OneHold'
  BY <1>7, BroadcastKeeps DEF Announce
<1>8. ASSUME NEW p, NewPoll(p) \/ OtherPoll(p)
      PROVE  OneHold'
  BY <1>8, StillKeeps DEF NewPoll, OtherPoll, hookVars
<1>9. CASE Elsewhere
  BY <1>7, <1>8, <1>9 DEF Elsewhere
<1>10. ASSUME NEW c \in calls, Handle(c)
       PROVE  OneHold'
  <2>1. CASE ~CreatePoll(c)
    <3>1. UNCHANGED hookVars
      BY <1>10, <2>1 DEF Handle, GetPoll, GetAllPolls, GetAnalytics, Vote, ResetActivePoll, Fail
    <3> QED BY <3>1, StillKeeps DEF hookVars
  <2>2. CASE CreatePoll(c)
    BY <2>2, <1>8 DEF CreatePoll
  <2> QED BY <2>1, <2>2
<1>11. ASSUME NEW c \in calls, Answer(c) \/ Forgotten(c)
       PROVE  OneHold'
  BY <1>11, StillKeeps DEF Answer, Forgotten, hookVars
<1>12. CASE UNCHANGED vars
  BY <1>12, StillKeeps DEF vars, hookVars
<1>13. CASE HookRuns \/ Opens \/ Loses
  BY <1>3, <1>4, <1>5, <1>6, <1>13
  DEF HookRuns, Messages, Closes, Opens, Loses, Reconnects, Hook
<1> QED
  BY <1>1, <1>2, <1>9, <1>10, <1>11, <1>12, <1>13, BreaksLeaves DEF Next

\* A page has one connection or the timeout that will make it, and a page that was left
\* has neither.
THEOREM SocketIsOne == Spec => []OneSocket
<1>1. OneHold => OneSocket
  <2> SUFFICES ASSUME OneHold
               PROVE  OneSocket
    OBVIOUS
  <2>1. Cardinality({}) = 0 /\ \A x : Cardinality({x}) = 1
    BY FS_EmptySet, FS_Singleton
  <2>2. CASE watched = None /\ sockets = {} /\ timers = {}
    BY <2>1, <2>2 DEF OneSocket
  <2>3. CASE watched # None /\ timers = {} /\ \E s : sockets = {s} /\ Mine(s) /\ IsSocket(s)
    BY <2>1, <2>3 DEF OneSocket, Mine
  <2>4. CASE watched # None /\ sockets = {} /\ \E t : timers = {t} /\ Due(t)
    BY <2>1, <2>4 DEF OneSocket, Due
  <2> QED BY <2>2, <2>3, <2>4 DEF OneHold
<1> QED
  BY <1>1, OneHoldInit, OneHoldKept, PTL DEF Spec

-----------------------------------------------------------------------------
(* Sums.  The library's theorems of induction cannot be cited here, so     *)
(* that the least number without a property is looked at instead.          *)

\* The index that is added first.
Pick(s) == CHOOSE x \in s : TRUE

\* Adding up, one index after another, the values of c at the indices in s, when f has
\* added up fewer.
Adds(c, f, s) == IF s = {} THEN 0 ELSE c[Pick(s)] + f[s \ {Pick(s)}]

\* Any set of natural numbers that contains 0 and every successor is all of them.
LEMMA Climb ==
  ASSUME NEW T, T \subseteq Nat, 0 \in T, \A n \in T : n + 1 \in T
  PROVE  T = Nat
<1> DEFINE Less == {ss \in Nat \X Nat : ss[1] < ss[2]}
<1>1. IsWellFoundedOn(Less, Nat)
  BY NatLessThanWellFounded DEF OpToRel
<1>2. SUFFICES ASSUME Nat \ T # {} PROVE FALSE
  OBVIOUS
<1> HIDE DEF Less
<1>3. PICK m \in Nat \ T : \A k \in Nat \ T : <<k, m>> \notin Less
  BY <1>1, <1>2, WFMin
<1>4. m \in Nat /\ m # 0 /\ m - 1 \in Nat
  BY <1>3
<1>5. <<m - 1, m>> \in Less
  BY <1>4 DEF Less
<1>6. m - 1 \in T
  BY <1>3, <1>4, <1>5
<1> QED BY <1>3, <1>4, <1>6

\* A sum of numbers of V is one of them, when V has 0 and the sum of any two.
LEMMA SumType ==
  ASSUME NEW S, IsFiniteSet(S), NEW V, 0 \in V, \A a, b \in V : a + b \in V,
         NEW c \in [S -> V]
  PROVE  SumFunction(c) \in V
<1> DEFINE Part(n) == {s \in SUBSET S : Cardinality(s) <= n}
           Sums(f, n) == f = [s \in Part(n) |-> Adds(c, f, s)]
           Reached == {n \in Nat : \E f : Sums(f, n)}
<1>1. \A s \in SUBSET S : IsFiniteSet(s) /\ Cardinality(s) \in Nat
  BY FS_Subset, FS_CardinalityType
<1>2. \A s \in SUBSET S : s # {} => /\ Pick(s) \in s /\ s \ {Pick(s)} \in SUBSET S
                                    /\ Cardinality(s \ {Pick(s)}) = Cardinality(s) - 1
  BY <1>1, FS_RemoveElement DEF Pick
<1>3. 0 \in Reached
  <2>1. \A s \in Part(0) : s = {}
    BY <1>1, FS_EmptySet
  <2>2. Sums([s \in Part(0) |-> 0], 0)
    BY <2>1 DEF Adds
  <2> QED BY <2>2
<1>4. ASSUME NEW n \in Nat, NEW f, Sums(f, n)
      PROVE  n + 1 \in Reached
  <2> DEFINE g == [s \in Part(n + 1) |-> Adds(c, f, s)]
  <2>1. \A s \in Part(n) : s \in Part(n + 1) /\ g[s] = f[s]
    BY <1>1, <1>4
  <2>2. ASSUME NEW s \in Part(n + 1)
        PROVE  Adds(c, f, s) = Adds(c, g, s)
    <3>1. CASE s = {}
      BY <3>1 DEF Adds
    <3>2. CASE s # {}
      <4>1. s \ {Pick(s)} \in Part(n)
        BY <1>1, <1>2, <3>2
      <4>2. g[s \ {Pick(s)}] = f[s \ {Pick(s)}]
        BY <2>1, <4>1
      <4> QED BY <4>2 DEF Adds
    <3> QED BY <3>1, <3>2
  <2>3. g = [s \in Part(n + 1) |-> Adds(c, g, s)]
    BY <2>2
  <2>4. Sums(g, n + 1)
    BY <2>3
  <2> HIDE DEF Sums, g
  <2> QED BY <2>4
<1>5. Reached = Nat
  <2> HIDE DEF Reached
  <2>1. \A n \in Reached : n + 1 \in Reached
    BY <1>4 DEF Reached
  <2>2. Reached \subseteq Nat
    BY DEF Reached
  <2> QED BY <1>3, <2>1, <2>2, Climb
<1>6. Cardinality(S) \in Nat /\ Part(Cardinality(S)) = SUBSET S
  BY <1>1, FS_Subset, FS_CardinalityType
<1> DEFINE sums == CHOOSE f : f = [s \in SUBSET S |-> Adds(c, f, s)]
<1>7. sums = [s \in SUBSET S |-> Adds(c, sums, s)]
  <2> DEFINE n == Cardinality(S)
  <2>1. n \in Reached /\ Part(n) = SUBSET S
    BY <1>5, <1>6
  <2> HIDE DEF n
  <2>2. \E f : f = [s \in SUBSET S |-> Adds(c, f, s)]
    BY <2>1, Zenon
  <2> QED BY <2>2, Zenon
<1>8. SumFunction(c) = sums[S]
  BY DEF SumFunction, SumFunctionOnSet, FoldFunctionOnSet, MapThenFoldSet, Adds, Pick
<1> HIDE DEF sums
<1> DEFINE Added == {n \in Nat : \A s \in Part(n) : sums[s] \in V}
<1>9. 0 \in Added
  <2>1. \A s \in Part(0) : s = {}
    BY <1>1, FS_EmptySet
  <2> QED BY <1>7, <2>1 DEF Adds
<1>10. ASSUME NEW n \in Added PROVE n + 1 \in Added
  <2>1. ASSUME NEW s \in Part(n + 1) PROVE sums[s] \in V
    <3>1. CASE s = {}
      BY <1>7, <3>1 DEF Adds
    <3>2. CASE s # {}
      <4>1. s \ {Pick(s)} \in Part(n) /\ c[Pick(s)] \in V
        BY <1>1, <1>2, <3>2
      <4>2. sums[s \ {Pick(s)}] \in V
        BY <4>1
      <4>3. sums[s] = Adds(c, sums, s)
        BY <1>7
      <4>4. Adds(c, sums, s) = c[Pick(s)] + sums[s \ {Pick(s)}]
        BY <3>2 DEF Adds
      <4> QED BY <4>1, <4>2, <4>3, <4>4
    <3> QED BY <3>1, <3>2
  <2> QED BY <2>1
<1>11. Added = Nat
  <2> HIDE DEF Added
  <2>1. Added \subseteq Nat
    BY DEF Added
  <2> QED BY <1>9, <1>10, <2>1, Climb
<1>12. S \in Part(Cardinality(S))
  BY <1>6
<1> QED BY <1>6, <1>8, <1>11, <1>12

-----------------------------------------------------------------------------
(* Types.                                                                  *)

Numbers == Nat \cup {Absent}

\* A message about a poll, and a poll that is shown.
MessageType == [poll : Polls, counts : [Options -> Numbers], total : Nat]
ShowingType == [id : Polls, of : Polls, counts : [Options -> Numbers], total : Nat]

ReplyType == [ok : BOOLEAN, showing : {Nothing} \cup ShowingType, has : BOOLEAN]
CallType == [n : Nat, what : {"poll", "polls", "analytics", "vote", "reset", "create"},
             of : Polls \cup {None}, first : BOOLEAN, gone : BOOLEAN,
             phase : {"sent", "answered"}, reply : ReplyType]

ServerTypes == created \subseteq Polls /\ current \in created \cup {None}

HookTypes ==
    /\ watched \in Polls \cup {None} /\ liveUpdate \in {NoMessage} \cup MessageType
    /\ fresh \in BOOLEAN
    /\ \A s \in sockets : /\ s.poll \in Polls /\ s.phase \in {"connecting", "open", "closed"}
                          /\ s.inbox \in Seq(MessageType) /\ Len(s.inbox) <= MaxInbox

PageTypes ==
    /\ kind \in Kinds \cup {"none"} /\ addr \in Polls \cup {None} /\ choice \in Polls \cup {None}
    /\ poll \in {Nothing} \cup ShowingType
    /\ loading \in BOOLEAN /\ view \in Views /\ hasVoted \in BOOLEAN /\ voting \in BOOLEAN
    /\ calm \in BOOLEAN

\* What the pages ask for.
Asks(k) == CASE k = "desktop" -> {"poll", "vote"}
             [] k = "mobile" -> {"poll", "polls", "vote"}
             [] k = "dashboard" -> {"polls", "analytics", "reset", "create"}
             [] OTHER -> {}

\* A call whose page has not been left is one of that page; votes are for a poll; and the
\* numbers of an answer are those of the poll it names.
CallOk(c, k) ==
    /\ c \in CallType
    /\ ~c.gone => c.what \in Asks(k)
    /\ c.what = "vote" => c.of \in Polls
    /\ c.reply.showing.of = c.reply.showing.id

CallTypes == \A c \in calls : CallOk(c, kind)

\* The calls that the page will hear of.
Live == {c \in calls : ~c.gone}

\* The sum of votes is a number, and no votes are none.
LEMMA TotalType ==
  /\ \A c \in Counts : Total(c) \in Nat
  /\ Total(Zero) = 0
<1>1. ASSUME NEW c \in Counts PROVE Total(c) \in Nat
  <2>1. c \in [Options -> Nat] /\ IsFiniteSet(Options)
    BY SocketAssumption DEF Counts
  <2>2. \A a, b \in Nat : a + b \in Nat
    OBVIOUS
  <2> QED BY <2>1, <2>2, SumType DEF Total
<1>2. Total(Zero) = 0
  <2> DEFINE V == {0}
  <2>1. Zero \in [Options -> V] /\ IsFiniteSet(Options)
    BY SocketAssumption DEF Zero
  <2>2. 0 \in V /\ \A a, b \in V : a + b \in V
    OBVIOUS
  <2> HIDE DEF V
  <2>3. Total(Zero) \in V
    BY <2>1, <2>2, SumType DEF Total
  <2> QED BY <2>3 DEF V
<1> QED BY <1>1, <1>2

\* The records that mean nothing, and the parts of those that mean something.
LEMMA NothingType ==
  /\ Zero \in Counts /\ NoReply \in ReplyType
  /\ Nothing.id = None /\ Nothing.of = None /\ NoMessage.poll = None
  /\ \A s \in ShowingType : s # Nothing
  /\ Zero \in [Options -> Numbers] /\ Undefined \in [Options -> Numbers]
<1>1. Zero \in Counts
  BY SocketAssumption DEF Zero, Counts
<1>3. NoReply \in ReplyType
  BY DEF NoReply, ReplyType
<1>4. Nothing.id = None /\ Nothing.of = None /\ NoMessage.poll = None
  BY DEF Nothing, Showing, NoMessage, Message
<1>5. \A s \in ShowingType : s # Nothing
  BY <1>4, SocketAssumption DEF ShowingType
<1> QED BY <1>1, <1>3, <1>4, <1>5 DEF Zero, Undefined, Numbers, Absent

\* What is read of a poll, and what is said of it, is of that poll.
LEMMA TallyShown ==
  ASSUME NEW p \in Polls
  PROVE  /\ \A r \in Readings(p) : r \in ShowingType /\ r.id = p /\ r.of = p
         /\ \A m \in Sayings(p) : m \in MessageType /\ m.poll = p
         /\ \A c \in Counts : LET r == Showing(p, Undefined, Total(c))
                            IN  r \in ShowingType /\ r.id = p /\ r.of = p
<1>1. ASSUME NEW c \in Counts
      PROVE  /\ Total(c) \in Nat /\ c \in [Options -> Numbers] /\ Undefined \in [Options -> Numbers]
             /\ Voted(c) \in [Options -> Numbers]
  <2>1. Total(c) \in Nat /\ c \in [Options -> Numbers] /\ Undefined \in [Options -> Numbers]
    BY TotalType, NothingType DEF Counts, Numbers
  <2>2. Voted(c) \in [Options -> Numbers]
    BY DEF Voted, Counts, Numbers, Absent
  <2> QED BY <2>1, <2>2
<1>2. ASSUME NEW r \in Readings(p)
      PROVE  r \in ShowingType /\ r.id = p /\ r.of = p
  <2>1. PICK t \in Counts, u \in Counts : r = Showing(p, t, Total(u))
    BY DEF Readings
  <2> QED BY <1>1, <2>1 DEF Showing, ShowingType
<1>3. ASSUME NEW m \in Sayings(p)
      PROVE  m \in MessageType /\ m.poll = p
  <2>1. CASE m = Message(p, Zero, 0)
    BY <2>1, NothingType DEF Message, MessageType
  <2>2. ASSUME NEW t \in Counts, m = Message(p, Voted(t), Total(t))
        PROVE  m \in MessageType /\ m.poll = p
    BY <1>1, <2>2 DEF Message, MessageType
  <2> QED BY <2>1, <2>2 DEF Sayings
<1>4. ASSUME NEW c \in Counts
      PROVE  LET r == Showing(p, Undefined, Total(c)) IN r \in ShowingType /\ r.id = p /\ r.of = p
  BY <1>1 DEF Showing, ShowingType
<1> QED BY <1>2, <1>3, <1>4

-----------------------------------------------------------------------------
(* The messages of the connection.                                         *)

\* A page with the numbers of the last message of a connection.
AsTold(shown, s) ==
    /\ shown.total = s.said.total
    /\ \A o \in Options : s.said.counts[o] \in {Absent, shown.counts[o]}

\* The last message of an open connection is still on its way, or about to be rendered, or
\* has been rendered.  (On the dashboard a selection renders an old one again.)
LastTold(s) ==
    /\ s.said \in MessageType /\ s.said.poll = s.poll
    /\ IF s.inbox # <<>> THEN s.said = s.inbox[Len(s.inbox)]
                         ELSE fresh /\ kind # "dashboard" => liveUpdate = s.said

HookInv ==
    /\ OneHold /\ HookTypes
    /\ \A s \in sockets : s.phase = "open" => LastTold(s)

\* The connection, when there is one.
LEMMA TheSocket ==
  ASSUME OneHold, NEW s \in sockets
  PROVE  /\ sockets = {s} /\ timers = {} /\ watched # None /\ s.live /\ s.poll = watched
         /\ s = Socket(s.n, s.poll, s.live, s.phase, s.inbox, s.said)
  BY DEF OneHold, Mine, IsSocket

\* A connection that has no message and is not open.
LEMMA NewSocket ==
  ASSUME NEW n, NEW p \in Polls, NEW live,
         sockets' = {Socket(n, p, live, "connecting", <<>>, NoMessage)}
  PROVE  \A s \in sockets' : /\ s.poll \in Polls /\ s.phase = "connecting"
                             /\ s.inbox \in Seq(MessageType) /\ Len(s.inbox) <= MaxInbox
<1> DEFINE none == <<>>
           u == Socket(n, p, live, "connecting", none, NoMessage)
<1>1. none \in Seq(MessageType) /\ Len(none) <= MaxInbox
  BY SocketAssumption
<1>2. u.poll = p /\ u.phase = "connecting" /\ u.inbox = none
  BY DEF Socket
<1> HIDE DEF u, none
<1>3. sockets' = {u}
  BY DEF u, none
<1> QED BY <1>1, <1>2, <1>3

\* The effect of usePollWebSocket, run for poll p, leaves a connection that is being made, or none.
LEMMA WatchTypes ==
  ASSUME HookInv, NEW p \in Polls \cup {None}, Watch(p),
         liveUpdate' \in {liveUpdate, NoMessage}, fresh' \in BOOLEAN
  PROVE  HookInv' /\ watched' = p /\ \A s \in sockets' : s.phase = "connecting"
<1>1. OneHold' /\ Kept = {} /\ watched' = p
  BY WatchKeeps DEF HookInv, OneHold, Mine, Kept, Watch
<1>2. CASE p = None
  BY <1>1, <1>2 DEF Watch, HookInv, HookTypes
<1>3. CASE p # None
  <2>1. sockets' = {Socket(Free, p, TRUE, "connecting", <<>>, NoMessage)}
    BY <1>1, <1>3 DEF Watch, Connect
  <2>2. \A s \in sockets' : /\ s.poll \in Polls /\ s.phase = "connecting"
                            /\ s.inbox \in Seq(MessageType) /\ Len(s.inbox) <= MaxInbox
    BY <1>3, <2>1, NewSocket
  <2> QED BY <1>1, <2>2 DEF HookInv, HookTypes
<1> QED BY <1>2, <1>3

\* The timeout that connects again leaves one connection, which is being made.
LEMMA ReconnectTypes ==
  ASSUME HookInv, NEW t \in timers, Reconnect(t)
  PROVE  HookInv' /\ \A s \in sockets' : s.phase = "connecting"
<1>1. OneHold' /\ sockets = {} /\ t.poll = watched /\ watched # None /\ watched \in Polls
  BY ReconnectKeeps DEF HookInv, OneHold, Due, HookTypes
<1>2. sockets' = {Socket(Free, t.poll, t.live, "connecting", <<>>, NoMessage)}
  BY <1>1 DEF Reconnect, Connect
<1>3. \A s \in sockets' : /\ s.poll \in Polls /\ s.phase = "connecting"
                          /\ s.inbox \in Seq(MessageType) /\ Len(s.inbox) <= MaxInbox
  BY <1>1, <1>2, NewSocket
<1> QED BY <1>1, <1>3 DEF HookInv, HookTypes, Reconnect

\* The handler of a closed connection leaves none.
LEMMA ClosedTypes ==
  ASSUME HookInv, NEW s \in sockets, Closed(s)
  PROVE  HookInv' /\ sockets' = {}
<1>1. OneHold' /\ sockets' = {}
  BY ClosedKeeps, TheSocket DEF HookInv, Closed
<1> QED BY <1>1 DEF HookInv, HookTypes, Closed

\* A message is shown, and the others wait.
LEMMA ReceiveTypes ==
  ASSUME HookInv, NEW s \in sockets, Receive(s), UNCHANGED kind
  PROVE  HookInv' /\ fresh' = TRUE /\ UNCHANGED watched
<1>1. OneHold' /\ watched' = watched
  BY ChangeKeeps DEF HookInv, Receive
<1>2. /\ sockets = {s} /\ s.live /\ s.poll = watched
      /\ s.inbox \in Seq(MessageType) /\ s.inbox # <<>> /\ Len(s.inbox) <= MaxInbox
      /\ s.poll \in Polls /\ s.phase \in {"connecting", "open", "closed"}
  BY TheSocket DEF HookInv, HookTypes, Receive
<1> DEFINE i == s.inbox
           u == Socket(s.n, s.poll, s.live, s.phase, Tail(i), s.said)
<1>3. /\ Head(i) \in MessageType /\ Head(i) = i[1]
      /\ Tail(i) \in Seq(MessageType) /\ Len(Tail(i)) = Len(i) - 1
      /\ \A k \in 1 .. Len(Tail(i)) : Tail(i)[k] = i[k + 1]
      /\ Len(i) \in Nat /\ MaxInbox \in Nat
      /\ Tail(i) = <<>> <=> Len(i) = 1
  <2>1. i \in Seq(MessageType) /\ i # <<>> /\ MaxInbox \in Nat
    BY <1>2, SocketAssumption
  <2> HIDE DEF i
  <2>2. /\ Head(i) \in MessageType /\ Head(i) = i[1]
        /\ Tail(i) \in Seq(MessageType) /\ Len(Tail(i)) = Len(i) - 1
        /\ \A k \in 1 .. Len(Tail(i)) : Tail(i)[k] = i[k + 1]
    BY <2>1, HeadTailProperties
  <2>3. Tail(i) = <<>> <=> Len(Tail(i)) = 0
    BY <2>2, EmptySeq
  <2>4. Len(i) \in Nat
    BY <2>1
  <2> QED BY <2>1, <2>2, <2>3, <2>4
<1>4. /\ sockets' = {u} /\ liveUpdate' = Head(i) /\ fresh' = TRUE
      /\ u.poll = s.poll /\ u.phase = s.phase /\ u.inbox = Tail(i) /\ u.said = s.said
  BY <1>2 DEF Receive, Socket
<1> HIDE DEF u
<1>5. HookTypes'
  <2>1. Len(u.inbox) <= MaxInbox
    BY <1>2, <1>3, <1>4
  <2> QED BY <1>1, <1>2, <1>3, <1>4, <2>1 DEF HookInv, HookTypes
<1>6. ASSUME s.phase = "open"
      PROVE  LastTold(u)'
  <2>1. s.said = i[Len(i)] /\ s.said \in MessageType /\ s.said.poll = s.poll
    BY <1>2, <1>6 DEF HookInv, LastTold
  <2>2. CASE Tail(i) = <<>>
    <3>1. Head(i) = i[Len(i)]
      BY <1>3, <2>2
    <3> QED BY <1>4, <2>1, <2>2, <3>1 DEF LastTold
  <2>3. CASE Tail(i) # <<>>
    <3>1. Tail(i)[Len(Tail(i))] = i[Len(i)]
      BY <1>2, <1>3, <2>3
    <3> QED BY <1>4, <2>1, <2>3, <3>1 DEF LastTold
  <2> QED BY <2>2, <2>3
<1> QED BY <1>1, <1>4, <1>5, <1>6 DEF HookInv

\* The greeting is the only message of a connection that has just been opened.
LEMMA OpenTypes ==
  ASSUME HookInv, NEW s \in sockets, Open(s), UNCHANGED kind
  PROVE  HookInv' /\ \A u \in sockets' : u.inbox # <<>>
<1>0. PICK m \in Sayings(s.poll) : Becomes(s, "open", <<m>>, m)
  BY DEF Open
<1> DEFINE u == Socket(s.n, s.poll, s.live, "open", <<m>>, m)
<1>1. /\ OneHold' /\ sockets = {s} /\ s.poll \in Polls
  BY <1>0, ChangeKeeps, TheSocket DEF HookInv, HookTypes, Becomes
<1>2. /\ m \in MessageType /\ m.poll = s.poll
  BY <1>0, <1>1, TallyShown
<1> DEFINE j == <<m>>
<1>3. j \in Seq(MessageType) /\ Len(j) = 1 /\ j[1] = m /\ j # <<>> /\ 1 <= MaxInbox
  BY <1>2, SocketAssumption
<1>4. /\ sockets' = {u} /\ UNCHANGED <<watched, liveUpdate, fresh>>
      /\ u.poll = s.poll /\ u.phase = "open" /\ u.inbox = j /\ u.said = m
  BY <1>0, <1>1 DEF Becomes, Socket
<1> HIDE DEF u, j
<1>5. HookTypes'
  BY <1>1, <1>3, <1>4 DEF HookInv, HookTypes
<1>6. LastTold(u)'
  BY <1>2, <1>3, <1>4 DEF LastTold
<1> QED BY <1>1, <1>3, <1>4, <1>5, <1>6 DEF HookInv

\* A connection that is lost keeps a prefix of its messages.
LEMMA LoseTypes ==
  ASSUME HookInv, NEW s \in sockets, Lose(s)
  PROVE  HookInv' /\ \A u \in sockets' : u.phase = "closed"
<1>1. PICK n \in 0 .. Len(s.inbox) : Becomes(s, "closed", SubSeq(s.inbox, 1, n), NoMessage)
  BY DEF Lose
<1> DEFINE j == SubSeq(s.inbox, 1, n)
           u == Socket(s.n, s.poll, s.live, "closed", j, NoMessage)
<1>2. /\ OneHold' /\ sockets = {s} /\ s.poll \in Polls
      /\ s.inbox \in Seq(MessageType) /\ Len(s.inbox) <= MaxInbox
  BY <1>1, ChangeKeeps, TheSocket DEF HookInv, HookTypes, Becomes
<1>3. j \in Seq(MessageType) /\ Len(j) <= MaxInbox
  BY <1>2, SocketAssumption
<1> HIDE DEF j
<1>4. /\ sockets' = {u} /\ UNCHANGED <<watched, liveUpdate, fresh>>
      /\ u.poll = s.poll /\ u.phase = "closed" /\ u.inbox = j
  BY <1>1, <1>2 DEF Becomes, Socket, j
<1> HIDE DEF u
<1> QED BY <1>2, <1>3, <1>4 DEF HookInv, HookTypes

\* An announcement reaches the connection, or closes it.
LEMMA ToldTypes ==
  ASSUME HookInv, NEW m \in MessageType, Broadcast(m),
         UNCHANGED <<watched, ref, timers, liveUpdate, fresh, kind>>
  PROVE  /\ HookInv'
         /\ \A u \in sockets' : u.phase = "open" => u.inbox # <<>> \/ u \in sockets
<1>3. OneHold'
  BY BroadcastKeeps DEF HookInv
<1>4. CASE sockets = {}
  BY <1>3, <1>4 DEF Broadcast, HookInv, HookTypes
<1>5. ASSUME NEW s \in sockets
      PROVE  /\ HookInv'
             /\ \A u \in sockets' : u.phase = "open" => u.inbox # <<>> \/ u \in sockets
  <2>1. /\ sockets = {s} /\ s = Socket(s.n, s.poll, s.live, s.phase, s.inbox, s.said)
        /\ s.poll \in Polls /\ s.phase \in {"connecting", "open", "closed"}
        /\ s.inbox \in Seq(MessageType) /\ Len(s.inbox) <= MaxInbox
    BY TheSocket DEF HookInv, HookTypes
  <2>2. CASE ~(s.phase = "open" /\ s.poll = m.poll)
    <3>1. sockets' = {s}
      BY <2>1, <2>2 DEF Broadcast
    <3>2. s.phase = "open" => LastTold(s)'
      BY DEF HookInv, LastTold
    <3> QED BY <1>3, <2>1, <3>1, <3>2 DEF HookInv, HookTypes
  <2>3. CASE s.phase = "open" /\ s.poll = m.poll /\ Len(s.inbox) < MaxInbox
    <3> DEFINE j == Append(s.inbox, m)
               u == Socket(s.n, s.poll, s.live, s.phase, j, m)
    <3>1. /\ j \in Seq(MessageType) /\ Len(j) = Len(s.inbox) + 1 /\ j[Len(j)] = m /\ j # <<>>
          /\ Len(j) <= MaxInbox
      BY <2>1, <2>3, SocketAssumption, AppendProperties
    <3>2. sockets' = {Deliver(s, m)}
      BY <2>1, <2>3 DEF Broadcast
    <3>3. Deliver(s, m) = u
      BY <2>1, <2>3 DEF Deliver, Socket
    <3> HIDE DEF j
    <3>4. u.poll = m.poll /\ u.phase = "open" /\ u.inbox = j /\ u.said = m
      BY <2>3 DEF Socket
    <3> HIDE DEF u
    <3>5. LastTold(u)'
      BY <3>1, <3>4 DEF LastTold
    <3>6. sockets' = {u} /\ UNCHANGED <<watched, liveUpdate, fresh>> /\ u.poll \in Polls
      BY <2>1, <2>3, <3>2, <3>3, <3>4
    <3>7. HookTypes'
      BY <3>1, <3>4, <3>6 DEF HookInv, HookTypes
    <3> QED BY <1>3, <3>1, <3>4, <3>5, <3>6, <3>7 DEF HookInv
  <2>4. CASE s.phase = "open" /\ s.poll = m.poll /\ ~(Len(s.inbox) < MaxInbox)
    <3> DEFINE u == Socket(s.n, s.poll, s.live, "closed", s.inbox, NoMessage)
    <3>1. sockets' = {Deliver(s, m)}
      BY <2>1, <2>4 DEF Broadcast
    <3>2. Deliver(s, m) = u
      BY <2>1, <2>4 DEF Deliver, Socket
    <3>3. u.poll = m.poll /\ u.phase = "closed" /\ u.inbox = s.inbox
      BY <2>4 DEF Socket
    <3> HIDE DEF u
    <3>4. sockets' = {u} /\ UNCHANGED <<watched, liveUpdate, fresh>> /\ u.poll \in Polls
      BY <2>1, <2>4, <3>1, <3>2, <3>3
    <3>5. HookTypes'
      BY <2>1, <3>3, <3>4 DEF HookInv, HookTypes
    <3> QED BY <1>3, <3>3, <3>4, <3>5 DEF HookInv
  <2> QED BY <2>2, <2>3, <2>4
<1> QED BY <1>4, <1>5

\* Nothing happens to the connection.
LEMMA StillTypes ==
  ASSUME HookInv, UNCHANGED <<watched, sockets, ref, timers>>,
         \/ fresh' = FALSE /\ liveUpdate' \in {liveUpdate, NoMessage}
         \/ UNCHANGED <<fresh, liveUpdate>> /\ (kind' = kind \/ sockets = {})
         \/ fresh' \in BOOLEAN /\ kind' = "dashboard" /\ UNCHANGED liveUpdate
  PROVE  HookInv'
<1>1. OneHold' /\ HookTypes'
  BY StillKeeps DEF HookInv, HookTypes
<1>2. ASSUME NEW s \in sockets, s.phase = "open"
      PROVE  LastTold(s)'
  BY <1>2 DEF HookInv, LastTold
<1> QED BY <1>1, <1>2 DEF HookInv

-----------------------------------------------------------------------------
(* The calls.                                                              *)

\* The first free number is one.
LEMMA SlotType ==
  ASSUME Slots # {}
  PROVE  Slot \in Nat
<1> DEFINE Less == {ss \in Nat \X Nat : ss[1] < ss[2]}
<1>1. IsWellFoundedOn(Less, Nat) /\ Slots \subseteq Nat
  BY NatLessThanWellFounded, ViewAssumption DEF OpToRel, Slots
<1> HIDE DEF Less
<1>2. PICK n \in Slots : \A m \in Slots : <<m, n>> \notin Less
  BY <1>1, WFMin
<1>3. \A m \in Slots : n <= m
  <2> TAKE m \in Slots
  <2>1. <<m, n>> \notin Less /\ m \in Nat /\ n \in Nat
    BY <1>1, <1>2
  <2>2. ~(m < n)
    BY <2>1 DEF Less
  <2> QED BY <2>1, <2>2
<1> QED BY <1>1, <1>2, <1>3 DEF Slot

\* A call as it is sent.
NewCall(d, what, of) ==
    d \in CallType /\ d.what = what /\ d.of = of /\ ~d.gone /\ d.reply = NoReply

\* The record of a call just sent is that of a new call, be it the first load or a later one.
LEMMA CallIsNew ==
  ASSUME NEW n \in Nat, NEW k, NEW what \in Asks(k), NEW of \in Polls \cup {None}
  PROVE  NewCall(Call(n, what, of, TRUE), what, of) /\ NewCall(Call(n, what, of, FALSE), what, of)
<1>1. what \in {"poll", "polls", "analytics", "vote", "reset", "create"}
  BY DEF Asks
<1>2. NewCall(Call(n, what, of, TRUE), what, of)
  BY <1>1, NothingType DEF Call, CallType, NewCall
<1>3. NewCall(Call(n, what, of, FALSE), what, of)
  BY <1>1, NothingType DEF Call, CallType, NewCall
<1> QED BY <1>2, <1>3

\* A new call of a kind the page makes is as calls have to be: without an answer, it shows nothing.
LEMMA CallOkay ==
  ASSUME NEW k, NEW what \in Asks(k), NEW of \in Polls \cup {None},
         what = "vote" => of \in Polls, NEW d, NewCall(d, what, of)
  PROVE  CallOk(d, k) /\ d.what = what /\ d.of = of /\ ~d.gone
<1>1. NoReply.ok = FALSE /\ NoReply.showing = Nothing
  BY DEF NoReply
<1> QED BY <1>1, NothingType DEF CallOk, NewCall

\* A call as it is answered.
LEMMA ReplyOkay ==
  ASSUME NEW k, NEW c, CallOk(c, k), NEW r \in ReplyType, r.showing.of = r.showing.id
  PROVE  LET d == [c EXCEPT !.phase = "answered", !.reply = r]
         IN  CallOk(d, k) /\ d.what = c.what /\ d.of = c.of /\ d.gone = c.gone
<1> DEFINE d == [c EXCEPT !.phase = "answered", !.reply = r]
<1>1. d \in CallType
  BY Zenon DEF CallOk, CallType
<1>2. d.what = c.what /\ d.of = c.of /\ d.gone = c.gone /\ d.reply = r
  BY DEF CallOk, CallType
<1> HIDE DEF d
<1>3. CallOk(d, k)
  BY <1>1, <1>2 DEF CallOk
<1> QED BY <1>2, <1>3 DEF d

\* A call whose page is left, or has been.
LEMMA GoneOkay ==
  ASSUME NEW k, NEW j, NEW c, CallOk(c, k)
  PROVE  /\ c.gone => CallOk(c, j)
         /\ LET d == [c EXCEPT !.gone = TRUE]
            IN  CallOk(d, j) /\ d.gone = TRUE
<1> DEFINE d == [c EXCEPT !.gone = TRUE]
<1>1. c.gone => CallOk(c, j)
  BY DEF CallOk
<1>2. d \in CallType /\ d.gone = TRUE /\ d.what = c.what /\ d.of = c.of /\ d.reply = c.reply
  BY DEF CallOk, CallType
<1> HIDE DEF d
<1>3. CallOk(d, j)
  BY <1>2 DEF CallOk
<1> QED BY <1>1, <1>2, <1>3 DEF d

\* The answers of the server.
Answerable(c, r) == r \in ReplyType /\ r.showing.of = r.showing.id /\ Reply(c, r)

\* An answer that shows what has been read of a poll.
LEMMA ReadAnswer ==
  ASSUME NEW p \in Polls, NEW s \in ShowingType, s.of = s.id, NEW has \in BOOLEAN
  PROVE  LET r == [Ok EXCEPT !.showing = s, !.has = has]
             q == [Ok EXCEPT !.showing = s]
         IN  /\ r \in ReplyType /\ r.showing.of = r.showing.id
             /\ q \in ReplyType /\ q.showing.of = q.showing.id
<1>1. Ok \in ReplyType
  BY NothingType DEF Ok, ReplyType
<1> QED BY <1>1 DEF ReplyType

\* Whatever call the server handles, its answer is one that Answerable allows.
LEMMA HandleReply ==
  ASSUME ServerTypes, NEW c \in calls, CallOk(c, kind), Handle(c)
  PROVE  \E r : Answerable(c, r)
<1>0. /\ Ok \in ReplyType /\ Ok.showing = Nothing
      /\ NoReply \in ReplyType /\ NoReply.showing = Nothing
  BY NothingType DEF Ok, NoReply, ReplyType
<1>2. CASE GetPoll(c)
  <2>1. PICK p \in created : \E s \in Readings(p), has \in BOOLEAN :
            Reply(c, [Ok EXCEPT !.showing = s, !.has = has])
    BY <1>2 DEF GetPoll
  <2>0. PICK s \in Readings(p), has \in BOOLEAN :
            Reply(c, [Ok EXCEPT !.showing = s, !.has = has])
    BY <2>1
  <2>2. p \in Polls /\ s \in ShowingType /\ s.of = s.id
    BY <2>1, TallyShown DEF ServerTypes
  <2> QED BY <2>0, <2>2, ReadAnswer DEF Answerable
<1>3. CASE GetAllPolls(c)
  <2>1. PICK s : /\ s = Nothing \/ \E p \in created : s \in Readings(p)
                 /\ Reply(c, [Ok EXCEPT !.showing = s])
    BY <1>3 DEF GetAllPolls
  <2>2. CASE s = Nothing
    <3>1. [Ok EXCEPT !.showing = s] = Ok
      BY <1>0, <2>2 DEF ReplyType
    <3> QED BY <1>0, <2>1, <3>1, NothingType DEF Answerable
  <2>3. ASSUME NEW p \in created, s \in Readings(p)
        PROVE  \E r : Answerable(c, r)
    <3>1. p \in Polls /\ s \in ShowingType /\ s.of = s.id
      BY <2>3, TallyShown DEF ServerTypes
    <3> QED BY <2>1, <3>1, ReadAnswer DEF Answerable
  <2> QED BY <2>1, <2>2, <2>3
<1>4. CASE GetAnalytics(c)
  <2>1. PICK p \in created, t \in Counts :
            Reply(c, [Ok EXCEPT !.showing = Showing(p, Undefined, Total(t))])
    BY <1>4 DEF GetAnalytics
  <2>2. PICK s : s = Showing(p, Undefined, Total(t))
    OBVIOUS
  <2>3. p \in Polls /\ s \in ShowingType /\ s.of = s.id
    BY <2>2, TallyShown DEF ServerTypes
  <2> QED BY <2>1, <2>2, <2>3, ReadAnswer DEF Answerable
<1>5. CASE Fail(c)
  BY <1>0, <1>5, NothingType DEF Fail, Answerable
<1>6. CASE Vote(c) \/ ResetActivePoll(c) \/ CreatePoll(c)
  BY <1>0, <1>6, NothingType DEF Vote, ResetActivePoll, CreatePoll, Answerable
<1> QED BY <1>2, <1>3, <1>4, <1>5, <1>6 DEF Handle

-----------------------------------------------------------------------------
(* The types are kept.                                                     *)

\* What the server does, for the page and for others.
Serves == Elsewhere \/ \E c \in calls : CreatePoll(c)

\* A message is announced, and nothing else changes for the hook.
Told == \E m \in MessageType : Broadcast(m) /\ UNCHANGED <<watched, ref, timers, liveUpdate, fresh>>

\* What the server does tells its viewers, or does not change the hook.
LEMMA ServesTypes ==
  ASSUME ServerTypes, Serves
  PROVE  ServerTypes' /\ (Told \/ UNCHANGED hookVars)
<1>1. ASSUME NEW p \in Polls, NewPoll(p) \/ OtherPoll(p)
      PROVE  ServerTypes' /\ UNCHANGED hookVars
  BY <1>1 DEF NewPoll, OtherPoll, ServerTypes
<1>2. ASSUME NEW p \in Polls, Announce(p)
      PROVE  ServerTypes' /\ Told
  BY <1>2, TallyShown DEF Announce, Told, ServerTypes, serverVars
<1>3. CASE Elsewhere
  BY <1>1, <1>2, <1>3 DEF Elsewhere
<1>4. ASSUME NEW c \in calls, CreatePoll(c)
      PROVE  ServerTypes' /\ UNCHANGED hookVars
  BY <1>1, <1>4 DEF CreatePoll
<1> QED BY <1>3, <1>4 DEF Serves

\* A page that is not there watches nothing.
Idle == kind = "none" => poll = Nothing /\ addr = None /\ watched = None /\ ~fresh

\* Every step keeps the server's types.
LEMMA ServerKept ==
  ASSUME ServerTypes, CallTypes, [Next]_vars
  PROVE  ServerTypes'
<1>1. CASE Serves
  BY <1>1, ServesTypes
<1>2. ASSUME UNCHANGED serverVars
      PROVE  ServerTypes'
  BY <1>2 DEF ServerTypes, serverVars
<1>3. CASE Person
  <2>1. UNCHANGED serverVars
    BY <1>3 DEF Person, Enter, Leave, Readdress, Select, SwitchView, Choose, SubmitVote,
      SubmitReset, SubmitPoll, Reinitialise, serverVars
  <2> QED BY <1>2, <2>1
<1>4. CASE Render \/ HookRuns \/ Opens \/ Loses \/ UNCHANGED vars
  <2>1. UNCHANGED serverVars
    BY <1>4 DEF Render, HookRuns, Messages, Closes, Reconnects, Opens, Loses, Hook, viewVars,
      serverVars, vars
  <2> QED BY <1>2, <2>1
<1>5. ASSUME NEW c \in calls, Handle(c), ~Serves
      PROVE  ServerTypes'
  <2>1. UNCHANGED serverVars
    BY <1>5 DEF Handle, Serves, GetPoll, GetAllPolls, GetAnalytics, Vote, ResetActivePoll, Fail
  <2> QED BY <1>2, <2>1
<1>6. ASSUME NEW c \in calls, Answer(c) \/ Forgotten(c)
      PROVE  ServerTypes'
  <2>1. UNCHANGED serverVars
    BY <1>6 DEF Answer, Forgotten, serverVars
  <2> QED BY <1>2, <2>1
<1>7. Elsewhere => Serves
  BY DEF Serves
<1> QED BY <1>1, <1>3, <1>4, <1>5, <1>6, <1>7, BreaksLeaves DEF Next

\* Every step keeps the hook's invariant.
LEMMA HookKept ==
  ASSUME ServerTypes, CallTypes, HookInv, PageTypes, Idle, [Next]_vars
  PROVE  HookInv'
<1>1. ASSUME UNCHANGED <<hookVars, kind>>
      PROVE  HookInv'
  BY <1>1, StillTypes DEF hookVars
<1>2. CASE Serves /\ UNCHANGED kind
  BY <1>1, <1>2, ServesTypes, ToldTypes DEF Told
<1>3. CASE Person
  <2>1. CASE \E k \in Kinds, a \in Addresses : Enter(k, a)
    <3>1. sockets = {}
      BY <2>1 DEF Enter, Idle, HookInv, OneHold, Mine
    <3> QED BY <2>1, <3>1, StillTypes DEF Enter, hookVars, serverVars
  <2>2. CASE Leave
    BY <2>2, WatchTypes DEF Leave
  <2>3. CASE \E p \in Polls : Select(p)
    BY <2>3, StillTypes DEF Select, serverVars
  <2>4. CASE \/ \E a \in Addresses : Readdress(a)
             \/ \E v \in Views : SwitchView(v)
             \/ Choose \/ SubmitVote \/ SubmitReset \/ SubmitPoll \/ Reinitialise
    <3>1. UNCHANGED <<hookVars, kind>>
      BY <2>4 DEF Readdress, SwitchView, Choose, SubmitVote, SubmitReset, SubmitPoll,
        Reinitialise, serverVars
    <3> QED BY <1>1, <3>1
  <2> QED BY <1>3, <2>1, <2>2, <2>3, <2>4 DEF Person
<1>4. CASE Render
  <2>1. ActiveId \in Polls \cup {None}
    BY NothingType DEF ActiveId, PageTypes, ShowingType
  <2>2. fresh' = FALSE /\ liveUpdate' \in {liveUpdate, NoMessage}
    BY <1>4 DEF Render
  <2>3. CASE ActiveId # watched
    BY <1>4, <2>1, <2>2, <2>3, WatchTypes DEF Render
  <2>4. CASE ActiveId = watched
    BY <1>4, <2>2, <2>4, StillTypes DEF Render
  <2> QED BY <2>3, <2>4
<1>5. CASE HookRuns \/ Opens \/ Loses
  <2>1. UNCHANGED kind
    BY <1>5 DEF HookRuns, Messages, Closes, Reconnects, Opens, Loses, Hook, viewVars
  <2>2. \/ \E s \in sockets : Receive(s) \/ Closed(s) \/ Open(s) \/ Lose(s)
        \/ \E t \in timers : Reconnect(t)
    BY <1>5 DEF HookRuns, Messages, Closes, Reconnects, Opens, Loses, Hook
  <2> QED BY <2>1, <2>2, ReceiveTypes, ClosedTypes, OpenTypes, LoseTypes, ReconnectTypes
<1>6. ASSUME NEW c \in calls, Handle(c), ~Serves
      PROVE  HookInv'
  <2>1. UNCHANGED <<hookVars, kind>>
    BY <1>6 DEF Handle, Serves, GetPoll, GetAllPolls, GetAnalytics, Vote, ResetActivePoll, Fail
  <2> QED BY <1>1, <2>1
<1>7. ASSUME NEW c \in calls, Answer(c)
      PROVE  HookInv'
  <2>1. UNCHANGED <<watched, sockets, ref, timers, liveUpdate, kind>>
    BY <1>7 DEF Answer
  <2>2. CASE PollsAnswered(c)
    <3>1. kind' = "dashboard" /\ fresh' \in BOOLEAN
      BY <2>1, <2>2 DEF PollsAnswered, HookInv, HookTypes
    <3> QED BY <2>1, <3>1, StillTypes
  <2>3. CASE ~PollsAnswered(c)
    <3>1. UNCHANGED fresh
      BY <1>7, <2>3 DEF Answer, PollAnswered, PollFailed, FallbackAnswered, PollsFailed,
        AnalyticsAnswered, VoteAnswered, ResetAnswered, CreateAnswered, ActionFailed
    <3> QED BY <2>1, <3>1, StillTypes
  <2> QED BY <2>2, <2>3
<1>8. ASSUME NEW c \in calls, Forgotten(c)
      PROVE  HookInv'
  BY <1>1, <1>8 DEF Forgotten
<1>9. CASE UNCHANGED vars
  BY <1>1, <1>9 DEF vars, viewVars
<1>10. Elsewhere => Serves /\ UNCHANGED kind
  BY DEF Serves, Elsewhere, viewVars
<1>11. \A c \in calls : Handle(c) => UNCHANGED kind
  BY DEF Handle
<1> QED BY <1>2, <1>3, <1>4, <1>5, <1>6, <1>7, <1>8, <1>9, <1>10, <1>11, BreaksLeaves DEF Next

\* A page is calm as long as it asks for nothing a second time, or for two things at a time.
LEMMA SendCalm ==
  ASSUME calm \in BOOLEAN, NEW others, NEW c, Send(others, c)
  PROVE  /\ calls' = others \cup {c} /\ calm' \in BOOLEAN /\ (calm' => calm \/ kind = "none")
         /\ calm' /\ kind \in {"desktop", "mobile"} => c.what # "poll"
         /\ calm' /\ kind = "dashboard" => others = {}
<1>1. CASE kind = "none"
  BY <1>1 DEF Send
<1>2. CASE kind = "dashboard"
  BY <1>2 DEF Send
<1>3. CASE kind \notin {"none", "dashboard"}
  BY <1>3 DEF Send
<1> QED BY <1>1, <1>2, <1>3

\* An update is of the poll that is shown, or selected; its total replaces the old one.
LEMMA UpdatedType ==
  ASSUME PageTypes, NEW m \in {NoMessage} \cup MessageType, Matches(m)
  PROVE  LET u == Updated(m)
         IN  /\ poll \in ShowingType /\ m \in MessageType /\ u \in ShowingType
             /\ u.id = poll.id /\ u.of = m.poll /\ u.total = m.total
             /\ m.poll = IF kind = "dashboard" THEN addr ELSE poll.id
             /\ kind # "dashboard" =>
                   \A o \in Options : u.counts[o] = Or(m.counts[o], poll.counts[o])
<1>1. /\ poll \in ShowingType /\ m \in MessageType
      /\ m.poll = IF kind = "dashboard" THEN addr ELSE poll.id
  BY DEF Matches, PageTypes
<1> DEFINE counts == IF kind = "dashboard" THEN m.counts
                     ELSE [o \in Options |-> Or(m.counts[o], poll.counts[o])]
           total == Or(m.total, poll.total)
           u == [poll EXCEPT !.of = m.poll, !.total = total, !.counts = counts]
<1>2. m.total \in Nat /\ total = m.total
  BY <1>1 DEF MessageType, Or, Absent
<1>3. counts \in [Options -> Numbers]
  <2>1. /\ m.counts \in [Options -> Numbers] /\ poll.counts \in [Options -> Numbers]
    BY <1>1 DEF MessageType, ShowingType
  <2> QED BY <2>1 DEF Or
<1>4. kind # "dashboard" => \A o \in Options : counts[o] = Or(m.counts[o], poll.counts[o])
  OBVIOUS
<1>5. Updated(m) = u
  BY DEF Updated
<1> HIDE DEF counts, total
<1>6. m.poll \in Polls
  BY <1>1 DEF MessageType
<1>7. u \in ShowingType
  BY <1>1, <1>2, <1>3, <1>6, Zenon DEF ShowingType
<1>8. u.id = poll.id /\ u.of = m.poll /\ u.total = total /\ u.counts = counts
  BY <1>1 DEF ShowingType
<1> HIDE DEF u
<1> QED BY <1>1, <1>2, <1>4, <1>5, <1>7, <1>8

\* What an answer shows.
LEMMA AnswerTypes ==
  ASSUME PageTypes, CallTypes, NEW c \in calls, Answer(c)
  PROVE  /\ PageTypes' /\ c \in Live /\ UNCHANGED <<kind, watched>>
         /\ poll' \in {poll, c.reply.showing}
         /\ kind # "dashboard" => UNCHANGED <<fresh, addr>>
<1>0. /\ c \in CallType /\ c \in Live
      /\ UNCHANGED <<kind, choice, watched>>
  BY DEF Answer, CallTypes, CallOk, Live
<1>1. /\ c.reply.showing \in {Nothing} \cup ShowingType
      /\ c.reply.has \in BOOLEAN /\ c.first \in BOOLEAN
      /\ c.reply.showing.id \in Polls \cup {None}
  BY <1>0, NothingType DEF CallType, ReplyType, ShowingType
<1>2. /\ PageTypes'
      /\ poll' \in {poll, c.reply.showing}
      /\ kind # "dashboard" => UNCHANGED <<fresh, addr>>
  <2>1. CASE PollAnswered(c)
    BY <1>0, <1>1, <2>1 DEF PollAnswered, PageTypes, Loaded, Views
  <2>2. CASE PollFailed(c)
    BY <1>0, <1>1, <2>2 DEF PollFailed, PageTypes, Loaded
  <2>3. CASE FallbackAnswered(c)
    BY <1>0, <1>1, <2>3 DEF FallbackAnswered, PageTypes, Loaded
  <2>4. CASE PollsAnswered(c)
    <3>1. calm' \in BOOLEAN
      BY <2>4, SendCalm DEF PollsAnswered, PageTypes
    <3> QED BY <1>0, <1>1, <2>4, <3>1 DEF PollsAnswered, PageTypes
  <2>5. CASE PollsFailed(c)
    BY <1>0, <1>1, <2>5 DEF PollsFailed, PageTypes
  <2>6. CASE AnalyticsAnswered(c)
    BY <1>0, <1>1, <2>6 DEF AnalyticsAnswered, PageTypes
  <2>7. CASE VoteAnswered(c)
    <3>1. calm' \in BOOLEAN
      BY <2>7, SendCalm DEF VoteAnswered, PageTypes
    <3> QED BY <1>0, <1>1, <2>7, <3>1 DEF VoteAnswered, PageTypes, Views
  <2>8. CASE ResetAnswered(c)
    <3>1. calm' \in BOOLEAN
      BY <2>8, SendCalm DEF ResetAnswered, PageTypes
    <3> QED BY <1>0, <1>1, <2>8, <3>1 DEF ResetAnswered, PageTypes
  <2>9. CASE CreateAnswered(c)
    <3>1. calm' \in BOOLEAN
      BY <2>9, SendCalm DEF CreateAnswered, PageTypes
    <3> QED BY <1>0, <1>1, <2>9, <3>1 DEF CreateAnswered, PageTypes
  <2>10. CASE ActionFailed(c)
    BY <1>0, <1>1, <2>10 DEF ActionFailed, PageTypes
  <2> QED BY <2>1, <2>2, <2>3, <2>4, <2>5, <2>6, <2>7, <2>8, <2>9, <2>10 DEF Answer
<1> QED BY <1>0, <1>2

\* The numbers that a voter's page shows are of the poll whose name it shows.
VoterShows == kind \in {"desktop", "mobile"} => poll.of = poll.id

PageInv == PageTypes /\ Idle /\ VoterShows

\* Every step keeps the page's types; a page that was left shows nothing.
LEMMA PageKept ==
  ASSUME PageInv, HookInv, CallTypes, [Next]_vars
  PROVE  PageInv'
<1>0. /\ PageTypes /\ Idle /\ VoterShows /\ HookTypes
  BY DEF PageInv, HookInv
<1>n. Nothing.of = Nothing.id
  BY NothingType
<1>1. ASSUME UNCHANGED <<kind, addr, poll, loading, view, choice, hasVoted, voting, calm>>,
             UNCHANGED <<watched, fresh>> \/ kind # "none"
      PROVE  PageInv'
  BY <1>0, <1>1 DEF PageInv, PageTypes, Idle, VoterShows
<1>2. CASE Person
  <2>1. ASSUME NEW k \in Kinds, NEW a \in Addresses, Enter(k, a)
        PROVE  PageInv'
    <3>1. calm' \in BOOLEAN
      BY <1>0, <2>1, SendCalm DEF Enter, Ask, PageTypes
    <3>2. k # "none" /\ a \in Polls \cup {None} /\ view' \in Views
      BY <2>1, ViewAssumption DEF Enter, Views
    <3> QED BY <1>0, <1>n, <2>1, <3>1, <3>2 DEF Enter, PageInv, PageTypes, Idle, VoterShows
  <2>2. CASE Leave
    BY <1>0, <1>n, <2>2, NothingType DEF Leave, Watch, PageInv, PageTypes, Idle, VoterShows, Views
  <2>3. ASSUME NEW a \in Addresses, Readdress(a)
        PROVE  PageInv'
    <3>1. calm' \in BOOLEAN
      BY <1>0, <2>3, SendCalm DEF Readdress, Ask, PageTypes
    <3>2. a \in Polls \cup {None}
      BY ViewAssumption
    <3> QED BY <1>0, <2>3, <3>1, <3>2 DEF Readdress, PageInv, PageTypes, Idle, VoterShows
  <2>4. ASSUME NEW p \in Polls, Select(p)
        PROVE  PageInv'
    <3>1. calm' \in BOOLEAN
      BY <1>0, <2>4, SendCalm DEF Select, Ask, PageTypes
    <3> QED BY <1>0, <2>4, <3>1 DEF Select, PageInv, PageTypes, Idle, VoterShows
  <2>5. ASSUME NEW v \in Views, SwitchView(v)
        PROVE  PageInv'
    BY <1>0, <2>5 DEF SwitchView, ShowsPoll, PageInv, PageTypes, Idle, VoterShows
  <2>6. CASE Choose
    <3>1. poll.id \in Polls \cup {None}
      BY <1>0, NothingType DEF PageTypes, ShowingType
    <3> QED BY <1>0, <2>6, <3>1 DEF Choose, Ballot, ShowsPoll, PageInv, PageTypes, Idle, VoterShows
  <2>7. CASE SubmitVote \/ SubmitReset \/ SubmitPoll \/ Reinitialise
    <3>1. calm' \in BOOLEAN
      BY <1>0, <2>7, SendCalm DEF SubmitVote, SubmitReset, SubmitPoll, Reinitialise, Ask, PageTypes
    <3>2. UNCHANGED <<kind, addr, poll, loading, view, choice, hasVoted>> /\ voting' \in BOOLEAN
      BY <1>0, <2>7 DEF SubmitVote, SubmitReset, SubmitPoll, Reinitialise, pageVars, PageTypes
    <3>3. kind # "none"
      BY <2>7 DEF SubmitVote, MaySubmit, Ballot, ShowsPoll, SubmitReset, SubmitPoll, CreateForm,
        Reinitialise
    <3> QED BY <1>0, <3>1, <3>2, <3>3 DEF PageInv, PageTypes, Idle, VoterShows
  <2> QED BY <1>2, <2>1, <2>2, <2>3, <2>4, <2>5, <2>6, <2>7 DEF Person
<1>3. CASE Render
  <2>1. UNCHANGED <<kind, addr, loading, view, choice, hasVoted, voting, calm>> /\ kind # "none"
    BY <1>3 DEF Render, ghosts
  <2>2. CASE fresh /\ Matches(liveUpdate)
    <3>1. poll' = Updated(liveUpdate) /\ liveUpdate \in {NoMessage} \cup MessageType
      BY <1>0, <1>3, <2>2 DEF Render, HookTypes
    <3>2. poll' \in ShowingType /\ (kind # "dashboard" => poll'.of = poll'.id)
      BY <1>0, <2>2, <3>1, UpdatedType
    <3> QED BY <1>0, <2>1, <3>2 DEF PageInv, PageTypes, Idle, VoterShows
  <2>3. CASE ~(fresh /\ Matches(liveUpdate))
    <3>1. UNCHANGED poll
      BY <1>3, <2>3 DEF Render
    <3> QED BY <1>0, <2>1, <3>1 DEF PageInv, PageTypes, Idle, VoterShows
  <2> QED BY <2>2, <2>3
<1>4. CASE HookRuns \/ Opens \/ Loses
  <2>1. UNCHANGED viewVars
    BY <1>4 DEF HookRuns, Messages, Closes, Reconnects, Opens, Loses, Hook
  <2>2. kind = "none" => UNCHANGED <<watched, fresh>>
    <3>1. kind = "none" => sockets = {} /\ timers = {}
      BY <1>0 DEF Idle, HookInv, OneHold
    <3> QED BY <1>4, <3>1 DEF HookRuns, Messages, Closes, Reconnects, Opens, Loses, Hook
  <2> QED BY <1>1, <2>1, <2>2 DEF viewVars, pageVars, ghosts
<1>5. CASE Elsewhere
  <2>1. UNCHANGED <<kind, pageVars, ghosts, watched, fresh>>
    BY <1>5 DEF Elsewhere, viewVars, Announce, NewPoll, OtherPoll, hookVars
  <2> QED BY <1>1, <2>1 DEF pageVars, ghosts
<1>6. ASSUME NEW c \in calls, Handle(c)
      PROVE  PageInv'
  <2>1. UNCHANGED <<kind, pageVars, ghosts>>
    BY <1>6 DEF Handle
  <2>2. UNCHANGED <<watched, fresh>>
    BY <1>6 DEF Handle, GetPoll, GetAllPolls, GetAnalytics, Fail, Vote, ResetActivePoll,
      CreatePoll, NewPoll, hookVars
  <2> QED BY <1>1, <2>1, <2>2 DEF pageVars, ghosts
<1>7. ASSUME NEW c \in calls, Answer(c)
      PROVE  PageInv'
  <2>1. /\ PageTypes' /\ c \in Live /\ UNCHANGED kind
        /\ poll' \in {poll, c.reply.showing}
    BY <1>0, <1>7, AnswerTypes
  <2>2. c.reply.showing.of = c.reply.showing.id /\ c.what \in Asks(kind)
    BY <2>1 DEF CallTypes, CallOk, Live
  <2>3. kind # "none"
    BY <2>2 DEF Asks
  <2> QED BY <1>0, <2>1, <2>2, <2>3 DEF PageInv, Idle, VoterShows
<1>8. ASSUME NEW c \in calls, Forgotten(c)
      PROVE  PageInv'
  BY <1>1, <1>8 DEF Forgotten, pageVars, ghosts, hookVars
<1>9. CASE UNCHANGED vars
  BY <1>1, <1>9 DEF vars, viewVars, pageVars, ghosts, hookVars
<1> QED BY <1>2, <1>3, <1>4, <1>5, <1>6, <1>7, <1>8, <1>9, BreaksLeaves DEF Next

-----------------------------------------------------------------------------
(* The calls of a page.                                                    *)

\* A call is sent, for the page that there is now.
LEMMA SentOkay ==
  ASSUME CallTypes, NEW others \in SUBSET calls, NEW what \in Asks(kind'),
         NEW of \in Polls \cup {None}, what = "vote" => of \in Polls,
         kind' = kind \/ kind = "none", NEW d,
         NewCall(d, what, of),
         calls' = others \cup {d}
  PROVE  CallTypes' /\ Live' = (Live \cap others) \cup {d} /\ d.what = what /\ d.of = of
<1>0. PICK k : k = kind'
  OBVIOUS
<1>1. CallOk(d, kind') /\ d.what = what /\ d.of = of /\ ~d.gone
  <2>1. CallOk(d, k) /\ d.what = what /\ d.of = of /\ ~d.gone
    BY <1>0, CallOkay
  <2> QED BY <1>0, <2>1
<1>2. ASSUME NEW c \in others PROVE CallOk(c, kind')
  <2>1. CallOk(c, kind)
    BY DEF CallTypes
  <2>2. kind = "none" => c.gone
    BY <2>1 DEF CallOk, Asks
  <2>3. c.gone => CallOk(c, kind')
    BY <2>1, GoneOkay
  <2> QED BY <2>1, <2>2, <2>3
<1>3. CallTypes'
  BY <1>1, <1>2 DEF CallTypes
<1>4. Live' = (Live \cap others) \cup {d}
  BY <1>1 DEF Live
<1> QED BY <1>1, <1>3, <1>4

\* The page's calls are these and one more.
Joined(others, what, of) == \E d : Live' = others \cup {d} /\ d.what = what /\ d.of = of

\* One call more, under the first free number.
LEMMA AskOkay ==
  ASSUME CallTypes, NEW what \in Asks(kind'), NEW of \in Polls \cup {None},
         what = "vote" => of \in Polls, kind' = kind \/ kind = "none",
         Ask(what, of, TRUE) \/ Ask(what, of, FALSE)
  PROVE  CallTypes' /\ Joined(Live, what, of)
<1>1. PICK n, k : n = Slot /\ k = kind'
  OBVIOUS
<1>2. n \in Nat /\ Live \cap calls = Live
  BY <1>1, SlotType DEF Ask, Live
<1>3. NewCall(Call(n, what, of, TRUE), what, of) /\ NewCall(Call(n, what, of, FALSE), what, of)
  BY <1>1, <1>2, CallIsNew
<1>4. PICK d : NewCall(d, what, of) /\ calls' = calls \cup {d}
  BY <1>1, <1>3 DEF Ask, Send
<1>5. CallTypes' /\ Live' = (Live \cap calls) \cup {d} /\ d.what = what /\ d.of = of
  BY <1>4, SentOkay
<1> QED BY <1>2, <1>5 DEF Joined

\* A call is over.
LEMMA OverOkay ==
  ASSUME CallTypes, NEW c \in calls, calls' = calls \ {c}, UNCHANGED kind
  PROVE  CallTypes' /\ Live' = Live \ {c}
  BY DEF CallTypes, Live

\* Another call takes the place of one that is over.
Instead(c, what, of, first) == calls' = (calls \ {c}) \cup {Call(c.n, what, of, first)}

\* A handler that asks again: the calls under way lose one and gain one that is new.
LEMMA InsteadOkay ==
  ASSUME CallTypes, NEW c \in calls, UNCHANGED kind, NEW what \in Asks(kind),
         NEW of \in Polls \cup {None}, what = "vote" => of \in Polls,
         Instead(c, what, of, TRUE) \/ Instead(c, what, of, FALSE)
  PROVE  CallTypes' /\ Joined(Live \ {c}, what, of)
<1>1. PICK n, k, others : n = c.n /\ k = kind /\ others = calls \ {c}
  OBVIOUS
<1>2. others \in SUBSET calls /\ n \in Nat /\ Live \cap others = Live \ {c}
  BY <1>1 DEF CallTypes, CallOk, CallType, Live
<1>3. NewCall(Call(n, what, of, TRUE), what, of) /\ NewCall(Call(n, what, of, FALSE), what, of)
  BY <1>1, <1>2, CallIsNew
<1>4. PICK d : NewCall(d, what, of) /\ calls' = others \cup {d}
  BY <1>1, <1>3 DEF Instead
<1>5. CallTypes' /\ Live' = (Live \cap others) \cup {d} /\ d.what = what /\ d.of = of
  BY <1>1, <1>2, <1>4, SentOkay
<1> QED BY <1>2, <1>5 DEF Joined

\* The server's answer leaves a call what it is.
LEMMA HandleOkay ==
  ASSUME ServerTypes, CallTypes, NEW c \in calls, Handle(c)
  PROVE  /\ CallTypes' /\ UNCHANGED kind
         /\ \/ Live' = Live /\ c \notin Live
            \/ c \in Live /\ \E d : Live' = (Live \ {c}) \cup {d} /\ d.what = c.what /\ d.of = c.of
<1>1. CallOk(c, kind) /\ UNCHANGED kind
  BY DEF CallTypes, Handle
<1>2. PICK r : Answerable(c, r)
  BY <1>1, HandleReply
<1> DEFINE d == [c EXCEPT !.phase = "answered", !.reply = r]
<1>3. CallOk(d, kind) /\ d.what = c.what /\ d.of = c.of /\ d.gone = c.gone
  BY <1>1, <1>2, ReplyOkay DEF Answerable
<1>4. calls' = (calls \ {c}) \cup {d}
  BY <1>2 DEF Answerable, Reply
<1> HIDE DEF d
<1>5. CallTypes'
  BY <1>1, <1>3, <1>4 DEF CallTypes
<1>6. c \in Live => Live' = (Live \ {c}) \cup {d}
  BY <1>3, <1>4 DEF Live
<1>7. c \notin Live => Live' = Live
  BY <1>3, <1>4 DEF Live
<1> QED BY <1>1, <1>3, <1>5, <1>6, <1>7

\* What the page does with an answer: the call is over, or another takes its place.
LEMMA AnswerOkay ==
  ASSUME PageInv, CallTypes, NEW c \in calls, Answer(c)
  PROVE  /\ CallTypes' /\ UNCHANGED kind /\ c \in Live
         /\ \/ Live' = Live \ {c} /\ ~ResetAnswered(c) /\ ~CreateAnswered(c)
            \/ \E d : /\ Live' = (Live \ {c}) \cup {d}
                      /\ \/ PollsAnswered(c) /\ d.what = "analytics" /\ d.of = addr'
                         \/ ResetAnswered(c) /\ d.what = "analytics" /\ d.of = c.of
                         \/ CreateAnswered(c) /\ d.what = "polls"
                         \/ PollFailed(c) /\ kind = "mobile" /\ d.what = "polls"
                         \/ VoteAnswered(c) /\ kind = "desktop" /\ d.what = "poll"
<1>0. /\ CallOk(c, kind) /\ c \in CallType /\ c \in Live /\ UNCHANGED kind /\ c.what \in Asks(kind)
      /\ c.n \in Nat /\ c.of \in Polls \cup {None} /\ PageTypes
      /\ PageTypes'
  BY AnswerTypes DEF CallTypes, CallOk, Live, Answer, CallType, PageInv
<1>2. CASE PollFailed(c) /\ kind # "desktop"
  <2>1. PICK what : kind = "mobile" /\ what = "polls" /\ what # "vote" /\ what \in Asks(kind)
    BY <1>0, <1>2 DEF PollFailed, Asks
  <2>2. Instead(c, what, None, TRUE)
    BY <2>1, <1>2 DEF PollFailed, Instead
  <2>3. CallTypes' /\ Joined(Live \ {c}, what, None)
    BY <1>0, <2>1, <2>2, InsteadOkay
  <2> QED BY <1>0, <1>2, <2>1, <2>3 DEF Joined
<1>3. CASE PollsAnswered(c) /\ c.reply.showing # Nothing
  <2>1. PICK what : what = "analytics" /\ what # "vote" /\ what \in Asks(kind) /\ addr' \in Polls \cup {None}
    BY <1>0, <1>3 DEF PollsAnswered, Asks, PageTypes
  <2>2. PICK a : a = addr' /\ Instead(c, what, a, FALSE)
    BY <2>1, <1>3 DEF PollsAnswered, Send, Instead
  <2>3. CallTypes' /\ Joined(Live \ {c}, what, a)
    BY <1>0, <2>1, <2>2, InsteadOkay
  <2> QED BY <1>0, <1>3, <2>1, <2>2, <2>3 DEF Joined
<1>4. CASE VoteAnswered(c) /\ kind = "desktop"
  <2>1. PICK what : what = "poll" /\ what # "vote" /\ what \in Asks(kind)
    BY <1>0, <1>4 DEF Asks
  <2>2. Instead(c, what, c.of, FALSE)
    BY <2>1, <1>4 DEF VoteAnswered, Send, Instead
  <2>3. CallTypes' /\ Joined(Live \ {c}, what, c.of)
    BY <1>0, <2>1, <2>2, InsteadOkay
  <2> QED BY <1>0, <1>4, <2>1, <2>3 DEF Joined
<1>5. CASE ResetAnswered(c)
  <2>1. PICK what : what = "analytics" /\ what # "vote" /\ what \in Asks(kind)
    BY <1>0, <1>5 DEF ResetAnswered, Asks
  <2>2. Instead(c, what, c.of, FALSE)
    BY <2>1, <1>5 DEF ResetAnswered, Send, Instead
  <2>3. CallTypes' /\ Joined(Live \ {c}, what, c.of)
    BY <1>0, <2>1, <2>2, InsteadOkay
  <2> QED BY <1>0, <1>5, <2>1, <2>3 DEF Joined
<1>6. CASE CreateAnswered(c)
  <2>1. PICK what : what = "polls" /\ what # "vote" /\ what \in Asks(kind)
    BY <1>0, <1>6 DEF CreateAnswered, Asks
  <2>2. Instead(c, what, None, FALSE)
    BY <2>1, <1>6 DEF CreateAnswered, Send, Instead
  <2>3. CallTypes' /\ Joined(Live \ {c}, what, None)
    BY <1>0, <2>1, <2>2, InsteadOkay
  <2> QED BY <1>0, <1>6, <2>1, <2>3 DEF Joined
<1>7. CASE ~ResetAnswered(c) /\ ~CreateAnswered(c) /\ calls' = calls \ {c}
  BY <1>0, <1>7, OverOkay
<1>8. CASE PollFailed(c) /\ kind = "desktop"
  BY <1>7, <1>8 DEF PollFailed, ResetAnswered, CreateAnswered, Over
<1>9. CASE PollsAnswered(c) /\ c.reply.showing = Nothing
  BY <1>7, <1>9 DEF PollsAnswered, ResetAnswered, CreateAnswered, Over
<1>10. CASE VoteAnswered(c) /\ kind # "desktop"
  BY <1>7, <1>10 DEF VoteAnswered, ResetAnswered, CreateAnswered, Over
<1>11. CASE PollAnswered(c) \/ FallbackAnswered(c) \/ PollsFailed(c) \/ AnalyticsAnswered(c)
  BY <1>7, <1>11 DEF PollAnswered, FallbackAnswered, PollsFailed, AnalyticsAnswered,
    ResetAnswered, CreateAnswered, Over
<1>12. CASE ActionFailed(c)
  BY <1>7, <1>12 DEF ActionFailed, ResetAnswered, CreateAnswered, Over
<1> QED
  BY <1>2, <1>3, <1>4, <1>5, <1>6, <1>8, <1>9, <1>10, <1>11, <1>12 DEF Answer

\* The person asks for what the page asks for.
LEMMA AsksKept ==
  ASSUME PageInv, CallTypes, Person
  PROVE  CallTypes'
<1>0. PageTypes /\ \A a \in Addresses : a \in Polls \cup {None}
  BY ViewAssumption DEF PageInv
<1>1. ASSUME NEW k \in Kinds, NEW a \in Addresses, Enter(k, a)
      PROVE  CallTypes'
  <2>1. kind' = k /\ kind = "none" /\ k \in {"desktop", "mobile", "dashboard"}
    BY <1>1, ViewAssumption DEF Enter
  <2>2. CASE k = "dashboard"
    <3>1. Ask("polls", None, FALSE) /\ "polls" \in Asks(kind')
      BY <1>1, <2>1, <2>2 DEF Enter, Asks
    <3> QED BY <2>1, <3>1, AskOkay
  <2>3. CASE k # "dashboard"
    <3>1. Ask("poll", a, TRUE) /\ "poll" \in Asks(kind')
      BY <1>1, <2>1, <2>3 DEF Enter, Asks
    <3> QED BY <1>0, <2>1, <3>1, AskOkay
  <2> QED BY <2>2, <2>3
<1>2. CASE Leave
  <2>1. ASSUME NEW d \in calls' PROVE CallOk(d, kind')
    <3>1. PICK c \in calls : d = [c EXCEPT !.gone = TRUE]
      BY <1>2 DEF Leave
    <3>2. CallOk(c, kind)
      BY DEF CallTypes
    <3> QED BY <3>1, <3>2, GoneOkay
  <2> QED BY <2>1 DEF CallTypes
<1>3. ASSUME NEW a \in Addresses, Readdress(a)
      PROVE  CallTypes'
  <2>1. UNCHANGED kind /\ Ask("poll", a, TRUE) /\ "poll" \in Asks(kind')
    BY <1>3 DEF Readdress, Asks
  <2> QED BY <1>0, <2>1, AskOkay
<1>4. ASSUME NEW p \in Polls, Select(p)
      PROVE  CallTypes'
  <2>1. UNCHANGED kind /\ Ask("analytics", p, FALSE) /\ "analytics" \in Asks(kind')
    BY <1>4 DEF Select, Asks
  <2> QED BY <2>1, AskOkay
<1>5. CASE SubmitVote
  <2>1. UNCHANGED kind /\ Ask("vote", poll.id, FALSE) /\ "vote" \in Asks(kind')
    BY <1>5 DEF SubmitVote, MaySubmit, Ballot, ShowsPoll, Asks
  <2>2. poll.id \in Polls
    BY <1>0, <1>5 DEF SubmitVote, MaySubmit, Ballot, ShowsPoll, PageTypes, ShowingType
  <2> QED BY <2>1, <2>2, AskOkay
<1>6. CASE SubmitReset
  <2>1. UNCHANGED kind /\ Ask("reset", addr, FALSE) /\ "reset" \in Asks(kind')
    BY <1>6 DEF SubmitReset, Asks
  <2>2. addr \in Polls \cup {None}
    BY <1>0 DEF PageTypes
  <2> QED BY <2>1, <2>2, AskOkay
<1>7. CASE Reinitialise
  <2>1. UNCHANGED kind /\ Ask("polls", None, FALSE) /\ "polls" \in Asks(kind')
    BY <1>7 DEF Reinitialise, Asks
  <2> QED BY <2>1, AskOkay
<1>8. CASE SubmitPoll
  <2>1. UNCHANGED kind /\ Ask("create", None, FALSE) /\ "create" \in Asks(kind')
    BY <1>8 DEF SubmitPoll, CreateForm, Asks
  <2> QED BY <2>1, AskOkay
<1>9. ASSUME NEW v \in Views, SwitchView(v) \/ Choose
      PROVE  CallTypes'
  BY <1>9 DEF SwitchView, Choose, CallTypes
<1>10. Views # {}
  BY DEF Views
<1> QED BY <1>1, <1>2, <1>3, <1>4, <1>5, <1>6, <1>7, <1>8, <1>9, <1>10 DEF Person

\* The calls keep their types.
LEMMA CallsKept ==
  ASSUME PageInv, CallTypes, ServerTypes, [Next]_vars
  PROVE  CallTypes'
<1>1. ASSUME UNCHANGED <<calls, kind>>
      PROVE  CallTypes'
  BY <1>1 DEF CallTypes
<1>2. CASE Render \/ HookRuns \/ Opens \/ Loses \/ Elsewhere \/ UNCHANGED vars
  <2>1. UNCHANGED <<calls, kind>>
    BY <1>2 DEF Render, HookRuns, Messages, Closes, Reconnects, Opens, Loses, Hook, Elsewhere,
      viewVars, vars
  <2> QED BY <1>1, <2>1
<1>3. ASSUME NEW c \in calls, Forgotten(c)
      PROVE  CallTypes'
  BY <1>3, OverOkay DEF Forgotten
<1> QED BY <1>2, <1>3, AsksKept, HandleOkay, AnswerOkay, BreaksLeaves DEF Next

-----------------------------------------------------------------------------

\* Types, of everything.
TypeInv == ServerTypes /\ HookInv /\ PageInv /\ CallTypes

\* The types hold in every state: the basis of the two properties of what is shown.
LEMMA TypeInvHolds == Spec => []TypeInv
<1>1. Init => TypeInv
  <2> SUFFICES ASSUME Init
               PROVE  TypeInv
    OBVIOUS
  <2>1. ServerTypes
    BY SocketAssumption DEF Init, SocketInit, ServerTypes
  <2>2. HookInv
    BY OneHoldInit DEF Init, SocketInit, HookInv, HookTypes
  <2>3. PageInv
    BY NothingType DEF Init, SocketInit, PageInv, PageTypes, Idle, VoterShows, Views
  <2>4. CallTypes
    BY DEF Init, CallTypes
  <2> QED BY <2>1, <2>2, <2>3, <2>4 DEF TypeInv
<1>2. TypeInv /\ [Next]_vars => TypeInv'
  BY ServerKept, HookKept, PageKept, CallsKept DEF TypeInv, PageInv
<1> QED BY <1>1, <1>2, PTL DEF Spec

\* Types, and the room a viewer has for messages.
THEOREM TypeCorrect == Spec => []TypeOK
<1>1. TypeInv => TypeOK
  <2> SUFFICES ASSUME TypeInv
               PROVE  TypeOK
    OBVIOUS
  <2>1. /\ poll.id \in Polls \cup {None} /\ poll.of \in Polls \cup {None} /\ poll.total \in Nat
    <3>1. CASE poll = Nothing
      BY <3>1 DEF Nothing, Showing
    <3>2. CASE poll \in ShowingType
      BY <3>2 DEF ShowingType
    <3> QED BY <3>1, <3>2 DEF TypeInv, PageInv, PageTypes
  <2> QED BY <2>1 DEF TypeOK, TypeInv, ServerTypes, HookInv, HookTypes, PageInv, PageTypes
<1> QED BY <1>1, TypeInvHolds, PTL

-----------------------------------------------------------------------------
(* The dashboard.                                                          *)

\* A dashboard that has loaded one poll after the other has one call under way.  It shows
\* the poll that is selected, or is about to.
OneCall ==
    /\ \A c, d \in Live : c = d
    /\ \A c \in Live : c.what \in {"analytics", "reset"} => c.of = addr
    /\ \/ addr = None
       \/ poll.of = poll.id /\ poll.id = addr
       \/ \E c \in Live : c.what = "analytics"

OneByOne == kind = "dashboard" /\ calm => OneCall

\* Who is selected, and what is shown, stays; so do the calls.
LEMMA OneCallStays ==
  ASSUME OneCall, UNCHANGED <<addr, poll>>, Live' = Live
  PROVE  OneCall'
  BY DEF OneCall

\* There is only the call that was sent now.
LEMMA OneCallSent ==
  ASSUME NEW what, NEW of, Joined({}, what, of),
         what \in {"analytics", "reset"} => of = addr',
         what = "analytics" \/ addr' = None \/ (poll'.of = poll'.id /\ poll'.id = addr')
  PROVE  OneCall'
<1>1. PICK d : Live' = {d} /\ d.what = what /\ d.of = of
  BY DEF Joined
<1> QED BY <1>1 DEF OneCall

\* A person asks for one thing more.
LEMMA OneCallAsked ==
  ASSUME TypeInv, OneByOne, Person, kind' = "dashboard", calm'
  PROVE  OneCall'
<1>0. PageTypes /\ CallTypes /\ Idle
  BY DEF TypeInv, PageInv
<1>1. ASSUME NEW k \in Kinds, NEW a \in Addresses, Enter(k, a)
      PROVE  OneCall'
  <2>1. Ask("polls", None, FALSE) /\ "polls" \in Asks(kind') /\ kind = "none" /\ addr' = None
    BY <1>1 DEF Enter, Asks
  <2>2. Joined(Live, "polls", None)
    BY <1>0, <2>1, AskOkay
  <2>3. Live = {}
    BY <1>0, <2>1 DEF Live, CallTypes, CallOk, Asks
  <2>4. Joined({}, "polls", None)
    BY <2>2, <2>3
  <2> QED BY <2>1, <2>4, OneCallSent
<1>2. ASSUME calls = {}, kind = "dashboard", calm
      PROVE  Live = {} /\ (addr = None \/ (poll.of = poll.id /\ poll.id = addr))
  <2>1. Live = {}
    BY <1>2 DEF Live
  <2> QED BY <1>2, <2>1 DEF OneByOne, OneCall
<1>3. ASSUME NEW p \in Polls, Select(p)
      PROVE  OneCall'
  <2>1. /\ Ask("analytics", p, FALSE) /\ "analytics" \in Asks(kind') /\ kind' = kind
        /\ addr' = p
    BY <1>3 DEF Select, Asks
  <2>2. Joined(Live, "analytics", p)
    BY <1>0, <2>1, AskOkay
  <2>3. calls = {}
    BY <1>3 DEF Select, Ask, Send
  <2>4. Live = {}
    BY <2>3 DEF Live
  <2>5. Joined({}, "analytics", p)
    BY <2>2, <2>4
  <2> QED BY <2>1, <2>5, OneCallSent
<1>4. CASE SubmitReset
  <2>1. PICK a : a = addr
    OBVIOUS
  <2>2. /\ Ask("reset", a, FALSE) /\ "reset" \in Asks(kind') /\ kind' = kind /\ a \in Polls \cup {None}
        /\ UNCHANGED <<addr, poll>> /\ kind = "dashboard"
    BY <1>0, <1>4, <2>1 DEF SubmitReset, Asks, PageTypes, pageVars
  <2>3. Joined(Live, "reset", a)
    BY <1>0, <2>2, AskOkay
  <2>4. calls = {} /\ calm
    BY <1>0, <1>4 DEF SubmitReset, Ask, Send, PageTypes
  <2>5. Live = {} /\ (addr = None \/ (poll.of = poll.id /\ poll.id = addr))
    BY <1>2, <2>2, <2>4
  <2>6. Joined({}, "reset", a)
    BY <2>3, <2>5
  <2> QED BY <2>1, <2>2, <2>5, <2>6, OneCallSent
<1>5. CASE Reinitialise
  <2>1. /\ Ask("polls", None, FALSE) /\ "polls" \in Asks(kind') /\ kind' = kind
        /\ UNCHANGED <<addr, poll>> /\ kind = "dashboard"
    BY <1>5 DEF Reinitialise, Asks, pageVars
  <2>2. Joined(Live, "polls", None)
    BY <1>0, <2>1, AskOkay
  <2>3. calls = {} /\ calm
    BY <1>0, <1>5 DEF Reinitialise, Ask, Send, PageTypes
  <2>4. Live = {} /\ (addr = None \/ (poll.of = poll.id /\ poll.id = addr))
    BY <1>2, <2>1, <2>3
  <2>5. Joined({}, "polls", None)
    BY <2>2, <2>4
  <2> QED BY <2>1, <2>4, <2>5, OneCallSent
<1>6. CASE SubmitPoll
  <2>1. /\ Ask("create", None, FALSE) /\ "create" \in Asks(kind') /\ kind' = kind
        /\ UNCHANGED <<addr, poll>> /\ kind = "dashboard"
    BY <1>6 DEF SubmitPoll, CreateForm, Asks, pageVars
  <2>2. Joined(Live, "create", None)
    BY <1>0, <2>1, AskOkay
  <2>3. calls = {} /\ calm
    BY <1>0, <1>6 DEF SubmitPoll, CreateForm, Ask, Send, PageTypes
  <2>4. Live = {} /\ (addr = None \/ (poll.of = poll.id /\ poll.id = addr))
    BY <1>2, <2>1, <2>3
  <2>5. Joined({}, "create", None)
    BY <2>2, <2>4
  <2> QED BY <2>1, <2>4, <2>5, OneCallSent
<1>7. ~Leave /\ ~Choose /\ ~SubmitVote
  BY DEF Leave, Choose, SubmitVote, MaySubmit, Ballot, ShowsPoll
<1>8. (\A v \in Views : ~SwitchView(v)) /\ (\A a \in Addresses : ~Readdress(a))
  BY DEF SwitchView, ShowsPoll, Readdress
<1> QED BY <1>1, <1>3, <1>4, <1>5, <1>6, <1>7, <1>8 DEF Person

\* The dashboard has an answer.
LEMMA OneCallAnswered ==
  ASSUME TypeInv, OneByOne, kind' = "dashboard", calm', NEW c \in calls, Answer(c)
  PROVE  OneCall'
<1>0. PageInv /\ PageTypes /\ CallTypes /\ UNCHANGED kind /\ c \in Live /\ CallOk(c, "dashboard")
  BY DEF TypeInv, PageInv, Answer, Live, CallTypes
<1>1. c.what \in {"polls", "analytics", "reset", "create"}
  BY <1>0 DEF CallOk, Live, Asks
<1>2. calm /\ OneCall
  <2>1. calm
    BY <1>0, <1>1 DEF Answer, PollAnswered, PollFailed, FallbackAnswered, PollsAnswered,
      PollsFailed, AnalyticsAnswered, VoteAnswered, ResetAnswered, CreateAnswered, ActionFailed,
      Send, PageTypes
  <2> QED BY <1>0, <2>1 DEF OneByOne
<1>3. Live = {c} /\ Live \ {c} = {}
  BY <1>0, <1>2 DEF OneCall
<1>4. CASE PollsAnswered(c)
  <2>1. CASE Live' = Live \ {c}
    <3>1. UNCHANGED poll /\ Live' = {}
      BY <1>3, <1>4, <2>1 DEF PollsAnswered
    <3>2. c.reply.showing = Nothing => UNCHANGED addr
      BY <1>4 DEF PollsAnswered
    <3>3. c.reply.showing # Nothing => Live' # {}
      <4> SUFFICES ASSUME c.reply.showing # Nothing
                   PROVE  Live' # {}
        OBVIOUS
      <4>1. PICK d : d = Call(c.n, "analytics", addr', FALSE) /\ calls' = (calls \ {c}) \cup {d}
        BY <1>4 DEF PollsAnswered, Send
      <4>2. ~d.gone
        BY <4>1 DEF Call
      <4> QED BY <4>1, <4>2 DEF Live
    <3> QED BY <1>1, <1>2, <1>3, <1>4, <3>1, <3>2, <3>3 DEF OneCall, PollsAnswered
  <2>2. CASE \E d : Live' = (Live \ {c}) \cup {d} /\ d.what = "analytics" /\ d.of = addr'
    <3>1. PICK d, a : /\ Live' = (Live \ {c}) \cup {d} /\ d.what = "analytics" /\ d.of = a
                      /\ a = addr'
      BY <2>2
    <3>2. Joined({}, "analytics", a)
      BY <1>3, <3>1 DEF Joined
    <3> QED BY <3>1, <3>2, OneCallSent
  <2>3. ~ResetAnswered(c) /\ ~CreateAnswered(c) /\ ~PollFailed(c) /\ ~VoteAnswered(c)
    BY <1>4 DEF PollsAnswered, ResetAnswered, CreateAnswered, PollFailed, VoteAnswered
  <2> QED BY <1>0, <2>1, <2>2, <2>3, AnswerOkay
<1>5. CASE AnalyticsAnswered(c)
  <2>1. /\ c.reply.ok /\ poll' = c.reply.showing /\ UNCHANGED addr /\ calls' = calls \ {c}
        /\ c.of = addr
    BY <1>0, <1>2, <1>5 DEF AnalyticsAnswered, Over, OneCall
  <2>2. Live' = {}
    BY <1>0, <1>3, <2>1 DEF Live
  <2>3. addr # None => poll'.of = poll'.id /\ poll'.id = addr'
    BY <1>0, <1>5, <2>1 DEF CallOk, AnalyticsAnswered
  <2> QED BY <2>1, <2>2, <2>3 DEF OneCall
<1>6. CASE ResetAnswered(c)
  <2>1. UNCHANGED <<poll, addr>> /\ c.of = addr
    BY <1>0, <1>2, <1>6 DEF ResetAnswered, OneCall
  <2>2. ~CreateAnswered(c) /\ ~PollFailed(c) /\ ~VoteAnswered(c) /\ ~PollsAnswered(c)
    BY <1>6 DEF PollsAnswered, ResetAnswered, CreateAnswered, PollFailed, VoteAnswered
  <2>3. PICK d : Live' = (Live \ {c}) \cup {d} /\ d.what = "analytics" /\ d.of = c.of
    BY <1>0, <1>6, <2>2, AnswerOkay
  <2>4. Joined({}, "analytics", c.of)
    BY <1>3, <2>3 DEF Joined
  <2> QED BY <2>1, <2>4, OneCallSent
<1>7. CASE CreateAnswered(c)
  <2>1. UNCHANGED <<poll, addr>>
    BY <1>7 DEF CreateAnswered
  <2>2. ~ResetAnswered(c) /\ ~PollFailed(c) /\ ~VoteAnswered(c) /\ ~PollsAnswered(c)
    BY <1>7 DEF PollsAnswered, ResetAnswered, CreateAnswered, PollFailed, VoteAnswered
  <2>3. PICK d : Live' = (Live \ {c}) \cup {d} /\ d.what = "polls"
    BY <1>0, <1>7, <2>2, AnswerOkay
  <2>4. PICK of : Joined({}, "polls", of)
    BY <1>3, <2>3 DEF Joined
  <2>5. addr = None \/ (poll.of = poll.id /\ poll.id = addr)
    BY <1>2, <1>3, <1>7 DEF OneCall, CreateAnswered
  <2> QED BY <2>1, <2>4, <2>5, OneCallSent
<1>8. CASE ActionFailed(c)
  <2>1. UNCHANGED <<poll, addr>> /\ calls' = calls \ {c}
    BY <1>8 DEF ActionFailed, Over
  <2>2. Live' = {}
    BY <1>3, <2>1 DEF Live
  <2>3. addr = None \/ (poll.of = poll.id /\ poll.id = addr)
    BY <1>2, <1>3, <1>8 DEF OneCall, ActionFailed
  <2> QED BY <2>1, <2>2, <2>3 DEF OneCall
<1>9. ~PollAnswered(c) /\ ~PollFailed(c) /\ ~FallbackAnswered(c) /\ ~VoteAnswered(c) /\ ~PollsFailed(c)
  BY <1>0, <1>1 DEF PollAnswered, PollFailed, FallbackAnswered, VoteAnswered, PollsFailed
<1> QED BY <1>4, <1>5, <1>6, <1>7, <1>8, <1>9 DEF Answer

\* A dashboard that loads one poll after the other does so in every step.
LEMMA OneByOneKept ==
  ASSUME TypeInv, OneByOne, [Next]_vars
  PROVE  OneByOne'
<1> SUFFICES ASSUME kind' = "dashboard", calm'
             PROVE  OneCall'
  BY DEF OneByOne
<1>0. PageTypes /\ ServerTypes /\ CallTypes /\ HookTypes
  BY DEF TypeInv, PageInv, HookInv
<1>1. ASSUME UNCHANGED <<kind, addr, poll, calm>>, Live' = Live
      PROVE  OneCall'
  BY <1>1, OneCallStays DEF OneByOne
<1>2. CASE Person
  BY <1>2, OneCallAsked
<1>3. CASE Render
  <2>1. UNCHANGED <<kind, addr, calm, calls>>
    BY <1>3 DEF Render, ghosts
  <2>2. Live' = Live /\ OneCall
    BY <2>1 DEF Live, OneByOne
  <2>3. CASE fresh /\ Matches(liveUpdate)
    <3>1. poll' = Updated(liveUpdate) /\ liveUpdate \in {NoMessage} \cup MessageType
      BY <1>0, <1>3, <2>3 DEF Render, HookTypes
    <3>2. poll'.id = poll.id /\ poll'.of = addr
      BY <1>0, <2>1, <2>3, <3>1, UpdatedType
    <3> QED BY <2>1, <2>2, <3>2 DEF OneCall
  <2>4. CASE ~(fresh /\ Matches(liveUpdate))
    <3>1. UNCHANGED poll
      BY <1>3, <2>4 DEF Render
    <3> QED BY <1>1, <2>1, <2>2, <3>1
  <2> QED BY <2>3, <2>4
<1>4. CASE HookRuns \/ Opens \/ Loses \/ Elsewhere \/ UNCHANGED vars
  <2>1. UNCHANGED <<kind, addr, poll, calm, calls>>
    BY <1>4 DEF HookRuns, Messages, Closes, Reconnects, Opens, Loses, Hook, Elsewhere, viewVars,
      pageVars, ghosts, vars
  <2>2. Live' = Live
    BY <2>1 DEF Live
  <2> QED BY <1>1, <2>1, <2>2
<1>5. ASSUME NEW c \in calls, Handle(c)
      PROVE  OneCall'
  <2>1. UNCHANGED <<kind, addr, poll, calm>>
    BY <1>5 DEF Handle, pageVars, ghosts
  <2>2. OneCall
    BY <2>1 DEF OneByOne
  <2>3. CASE Live' = Live
    BY <1>1, <2>1, <2>3
  <2>4. ASSUME c \in Live, NEW d, Live' = (Live \ {c}) \cup {d}, d.what = c.what, d.of = c.of
        PROVE  OneCall'
    <3>1. Live = {c} /\ Live' = {d}
      BY <2>2, <2>4 DEF OneCall
    <3> QED BY <2>1, <2>2, <2>4, <3>1 DEF OneCall
  <2> QED BY <1>0, <1>5, <2>3, <2>4, HandleOkay
<1>6. ASSUME NEW c \in calls, Answer(c)
      PROVE  OneCall'
  BY <1>6, OneCallAnswered
<1>7. ASSUME NEW c \in calls, Forgotten(c)
      PROVE  OneCall'
  <2>1. UNCHANGED <<kind, addr, poll, calm>> /\ calls' = calls \ {c} /\ c.gone
    BY <1>7 DEF Forgotten, pageVars, ghosts
  <2>2. Live' = Live
    BY <2>1 DEF Live
  <2> QED BY <1>1, <2>1, <2>2
<1> QED BY <1>2, <1>3, <1>4, <1>5, <1>6, <1>7, BreaksLeaves DEF Next

\* The numbers shown are those of the poll whose name is shown, on the voters' pages always
\* and on the dashboard when it has loaded one poll after the other.
THEOREM ShowsOnePollHolds == Spec => []ShowsOnePoll
<1>1. Init => OneByOne
  BY DEF Init, OneByOne
<1>2. TypeInv /\ OneByOne /\ [Next]_vars => OneByOne'
  BY OneByOneKept
<1>3. TypeInv /\ OneByOne => ShowsOnePoll
  <2> SUFFICES ASSUME TypeInv, OneByOne
               PROVE  ShowsOnePoll
    OBVIOUS
  <2>1. VoterShows
    BY DEF TypeInv, PageInv
  <2>2. calls = {} => Live = {}
    BY DEF Live
  <2> QED BY <2>1, <2>2 DEF ShowsOnePoll, VoterShows, OneByOne, OneCall
<1> QED BY <1>1, <1>2, <1>3, TypeInvHolds, PTL DEF Spec

-----------------------------------------------------------------------------
(* The voters' pages.                                                      *)

Voter == kind \in {"desktop", "mobile"}

\* Calls that will replace what is shown.
Asking == {c \in Live : c.what \in {"poll", "polls"}}

\* A page that has asked for the poll once has asked for nothing since there is one to show,
\* and before it has the active poll it is connected to none.
AskedOnce ==
    /\ \A c, d \in Asking : c = d
    /\ Asking # {} => poll = Nothing
    /\ addr = None /\ poll = Nothing => watched = None

\* When all that has come is rendered, the last is what is shown.
ShowsLast ==
    \A s \in sockets : s.phase = "open" /\ s.inbox = <<>> /\ ~fresh /\ poll # Nothing /\ s.poll = poll.id
        => AsTold(poll, s)

VoterInv ==
    /\ Voter /\ calm => AskedOnce /\ (addr = None => ShowsLast)
    /\ Voter /\ watched = None => ~fresh

\* Nothing of this changes, but for calls that ask for no poll, or that are over.
LEMMA VoterStays ==
  ASSUME VoterInv, Asking' \subseteq Asking,
         UNCHANGED <<kind, calm, addr, poll, watched, sockets, fresh>>
  PROVE  VoterInv'
  BY DEF VoterInv, Voter, AskedOnce, ShowsLast, AsTold

\* A page with no connection that is open and has said all shows nothing old.
LEMMA NothingOpen ==
  ASSUME \A s \in sockets' : s.phase # "open" \/ s.inbox # <<>>
  PROVE  ShowsLast'
  BY DEF ShowsLast

\* What the person does.
LEMMA VoterAsks ==
  ASSUME TypeInv, VoterInv, Person
  PROVE  VoterInv'
<1>0. PageTypes /\ CallTypes /\ Idle
  BY DEF TypeInv, PageInv
<1>1. ASSUME NEW k \in Kinds, NEW a \in Addresses, Enter(k, a)
      PROVE  VoterInv'
  <2>1. CASE k = "dashboard"
    BY <1>1, <2>1 DEF Enter, VoterInv, Voter
  <2>2. CASE k # "dashboard"
    <3>1. /\ Ask("poll", a, TRUE) /\ "poll" \in Asks(kind') /\ kind = "none"
          /\ UNCHANGED <<poll, watched, fresh>> /\ a \in Polls \cup {None}
      BY <1>1, <2>2, ViewAssumption DEF Enter, Asks, hookVars
    <3>2. Joined(Live, "poll", a)
      BY <1>0, <3>1, AskOkay
    <3>3. Live = {}
      BY <1>0, <3>1 DEF Live, CallTypes, CallOk, Asks
    <3>4. PICK d : Live' = {d}
      BY <3>2, <3>3 DEF Joined
    <3>5. poll' = Nothing /\ watched' = None /\ ~fresh'
      BY <1>0, <3>1 DEF Idle
    <3> QED BY <3>4, <3>5 DEF VoterInv, AskedOnce, ShowsLast, Asking
  <2> QED BY <2>1, <2>2
<1>2. CASE Leave
  BY <1>2 DEF Leave, VoterInv, Voter
<1>3. ASSUME NEW a \in Addresses, Readdress(a)
      PROVE  VoterInv'
  <2>1. ~calm' /\ UNCHANGED <<kind, watched, fresh>>
    BY <1>3 DEF Readdress, Ask, Send, Call, hookVars
  <2> QED BY <2>1 DEF VoterInv, Voter
<1>4. ASSUME NEW p \in Polls, Select(p) \/ SubmitReset \/ SubmitPoll \/ Reinitialise
      PROVE  VoterInv'
  <2>1. kind' = "dashboard"
    BY <1>4 DEF Select, SubmitReset, SubmitPoll, CreateForm, Reinitialise
  <2> QED BY <2>1 DEF VoterInv, Voter
<1>5. ASSUME NEW v \in Views, SwitchView(v) \/ Choose
      PROVE  VoterInv'
  <2>1. UNCHANGED <<kind, calm, addr, poll, watched, sockets, fresh, calls>>
    BY <1>5 DEF SwitchView, Choose, hookVars
  <2>2. Asking' = Asking
    BY <2>1 DEF Asking, Live
  <2> QED BY <2>1, <2>2, VoterStays
<1>6. CASE SubmitVote
  <2>1. PICK p : p = poll.id
    OBVIOUS
  <2>2. /\ p \in Polls /\ kind' = kind /\ Voter /\ Ask("vote", p, FALSE) /\ "vote" \in Asks(kind')
        /\ UNCHANGED <<addr, poll, watched, sockets, fresh>>
    BY <1>0, <1>6, <2>1
    DEF SubmitVote, MaySubmit, Ballot, ShowsPoll, PageTypes, ShowingType, Asks, Voter,
      hookVars
  <2>3. Joined(Live, "vote", p)
    BY <1>0, <2>2, AskOkay
  <2>4. Asking' = Asking
    BY <2>3 DEF Joined, Asking
  <2>5. calm' = calm
    BY <1>0, <2>2 DEF Voter, Ask, Send, Call, PageTypes
  <2> QED BY <2>2, <2>4, <2>5, VoterStays
<1>7. Views # {} /\ ((SubmitReset \/ SubmitPoll \/ Reinitialise) => VoterInv')
  <2>1. Views # {}
    BY DEF Views
  <2>2. ASSUME SubmitReset \/ SubmitPoll \/ Reinitialise
        PROVE  VoterInv'
    <3>1. kind' = "dashboard"
      BY <2>2 DEF SubmitReset, SubmitPoll, CreateForm, Reinitialise
    <3> QED BY <3>1 DEF VoterInv, Voter
  <2> QED BY <2>1, <2>2
<1> QED BY <1>1, <1>2, <1>3, <1>4, <1>5, <1>6, <1>7 DEF Person

\* A rendering shows the last message, or watches another poll.
LEMMA VoterRenders ==
  ASSUME TypeInv, VoterInv, Render
  PROVE  VoterInv'
<1>0. /\ PageTypes /\ HookInv /\ HookTypes /\ OneHold /\ UNCHANGED <<kind, calm, addr, calls>>
      /\ ~fresh'
  BY DEF TypeInv, PageInv, HookInv, Render, ghosts
<1> SUFFICES ASSUME Voter, calm
             PROVE  AskedOnce' /\ (addr = None => ShowsLast')
  BY <1>0 DEF VoterInv, Voter
<1>1. AskedOnce /\ (addr = None => ShowsLast)
  BY DEF VoterInv
<1>2. Asking' = Asking
  BY <1>0 DEF Asking, Live
<1>3. ActiveId = (IF poll = Nothing THEN addr ELSE poll.id) /\ ActiveId \in Polls \cup {None}
  BY <1>0, NothingType DEF ActiveId, Voter, PageTypes, ShowingType
<1>4. watched' = ActiveId
  BY DEF Render, Watch
<1>5. poll' = Nothing <=> poll = Nothing
  <2>1. CASE fresh /\ Matches(liveUpdate)
    <3>1. poll' \in ShowingType /\ poll # Nothing
      BY <1>0, <2>1, UpdatedType, NothingType DEF Render, HookTypes
    <3> QED BY <3>1, NothingType
  <2>2. CASE ~(fresh /\ Matches(liveUpdate))
    BY <2>2 DEF Render
  <2> QED BY <2>1, <2>2
<1>6. AskedOnce'
  BY <1>0, <1>1, <1>2, <1>3, <1>4, <1>5 DEF AskedOnce
<1>7. ASSUME addr = None
      PROVE  ShowsLast'
  <2>1. CASE ActiveId # watched
    <3>1. Watch(ActiveId) /\ liveUpdate' \in {liveUpdate, NoMessage} /\ fresh' \in BOOLEAN
      BY <2>1 DEF Render
    <3>2. PICK p \in Polls \cup {None} : p = ActiveId
      BY <1>3
    <3>3. \A s \in sockets' : s.phase = "connecting"
      BY <1>0, <3>1, <3>2, WatchTypes
    <3> QED BY <3>3, NothingOpen
  <2>2. CASE ActiveId = watched
    <3> SUFFICES ASSUME NEW s \in sockets', s.phase = "open", s.inbox = <<>>, poll' # Nothing,
                        s.poll = poll'.id
                 PROVE  AsTold(poll, s)'
      BY DEF ShowsLast
    <3>1. s \in sockets /\ poll # Nothing
      BY <1>5, <2>2 DEF Render
    <3>2. s.poll = watched /\ s.poll \in Polls /\ s.poll = poll.id
      BY <1>0, <1>3, <2>2, <3>1, TheSocket DEF HookTypes
    <3>3. CASE ~fresh
      <4>1. poll' = poll
        BY <3>3 DEF Render
      <4>2. AsTold(poll, s)
        BY <1>1, <1>7, <3>1, <3>2, <3>3 DEF ShowsLast
      <4> QED BY <4>1, <4>2 DEF AsTold
    <3>4. CASE fresh
      <4>1. liveUpdate = s.said /\ liveUpdate.poll = s.poll
        BY <1>0, <3>1, <3>4 DEF HookInv, LastTold, Voter
      <4>2. Matches(liveUpdate)
        BY <3>1, <3>2, <4>1, NothingType, SocketAssumption DEF Matches, Voter
      <4>3. poll' = Updated(liveUpdate) /\ liveUpdate \in {NoMessage} \cup MessageType
        BY <1>0, <3>4, <4>2 DEF Render, HookTypes
      <4>4. /\ poll'.total = liveUpdate.total
            /\ \A o \in Options : poll'.counts[o] = Or(liveUpdate.counts[o], poll.counts[o])
        BY <1>0, <4>2, <4>3, UpdatedType DEF Voter
      <4>5. ASSUME NEW o \in Options
            PROVE  s.said.counts[o] \in {Absent, poll'.counts[o]}
        BY <4>1, <4>4 DEF Or
      <4> QED BY <4>1, <4>4, <4>5 DEF AsTold
    <3> QED BY <3>3, <3>4
  <2> QED BY <2>1, <2>2
<1> QED BY <1>6, <1>7

\* The handlers of the hook, and the network.
LEMMA VoterHooked ==
  ASSUME TypeInv, VoterInv, HookRuns \/ Opens \/ Loses
  PROVE  VoterInv'
<1>0. HookInv /\ ServerTypes /\ UNCHANGED <<kind, calm, addr, poll, calls>>
  BY DEF TypeInv, HookRuns, Messages, Closes, Reconnects, Opens, Loses, Hook, viewVars, pageVars,
    ghosts
<1>1. Asking' = Asking
  BY <1>0 DEF Asking, Live
<1>2. ASSUME UNCHANGED watched, ShowsLast', fresh' => fresh \/ watched # None
      PROVE  VoterInv'
  BY <1>0, <1>1, <1>2 DEF VoterInv, Voter, AskedOnce
<1>3. ASSUME NEW s \in sockets, Receive(s)
      PROVE  VoterInv'
  <2>1. fresh' = TRUE /\ UNCHANGED watched /\ watched # None
    BY <1>0, <1>3, ReceiveTypes, TheSocket DEF HookInv
  <2>2. ShowsLast'
    BY <2>1 DEF ShowsLast
  <2> QED BY <1>2, <2>1, <2>2
<1>4. ASSUME NEW s \in sockets, Closed(s)
      PROVE  VoterInv'
  BY <1>0, <1>2, <1>4, ClosedTypes, NothingOpen DEF Closed
<1>5. ASSUME NEW s \in sockets, Open(s)
      PROVE  VoterInv'
  <2>1. ShowsLast'
    BY <1>0, <1>5, OpenTypes, NothingOpen
  <2> QED BY <1>2, <1>5, <2>1 DEF Open, Becomes
<1>6. ASSUME NEW s \in sockets, Lose(s)
      PROVE  VoterInv'
  <2>1. \A u \in sockets' : u.phase = "closed"
    BY <1>0, <1>6, LoseTypes
  <2> QED BY <1>2, <1>6, <2>1, NothingOpen DEF Lose, Becomes
<1>7. ASSUME NEW t \in timers, Reconnect(t)
      PROVE  VoterInv'
  <2>1. \A u \in sockets' : u.phase = "connecting"
    BY <1>0, <1>7, ReconnectTypes
  <2> QED BY <1>2, <1>7, <2>1, NothingOpen DEF Reconnect
<1> QED
  BY <1>3, <1>4, <1>5, <1>6, <1>7
  DEF HookRuns, Messages, Closes, Reconnects, Opens, Loses, Hook

\* The server announces and begins polls, for the page or for others.
LEMMA VoterServed ==
  ASSUME TypeInv, VoterInv, Serves, Asking' # {} => Asking # {}, \A c, d \in Asking' : c = d \/ ~AskedOnce,
         UNCHANGED <<kind, calm, addr, poll>>
  PROVE  VoterInv'
<1>0. HookInv /\ ServerTypes /\ CallTypes
  BY DEF TypeInv
<1>1. ASSUME UNCHANGED <<watched, fresh>>, ShowsLast => ShowsLast'
      PROVE  VoterInv'
  BY <1>1 DEF VoterInv, Voter, AskedOnce
<1>2. ASSUME NEW m \in MessageType, Broadcast(m),
             UNCHANGED <<watched, ref, timers, liveUpdate, fresh>>
      PROVE  VoterInv'
  <2>1. \A u \in sockets' : u.phase = "open" => u.inbox # <<>> \/ u \in sockets
    BY <1>0, <1>2, ToldTypes
  <2>2. ShowsLast => ShowsLast'
    BY <1>2, <2>1 DEF ShowsLast, AsTold
  <2> QED BY <1>1, <1>2, <2>2
<1>3. ASSUME UNCHANGED hookVars
      PROVE  VoterInv'
  BY <1>1, <1>3 DEF ShowsLast, AsTold, hookVars
<1> QED BY <1>0, <1>2, <1>3, ServesTypes DEF Told

\* The server handles a call.
LEMMA VoterHandled ==
  ASSUME TypeInv, VoterInv, NEW c \in calls, Handle(c)
  PROVE  VoterInv'
<1>0. ServerTypes /\ CallTypes /\ UNCHANGED <<kind, calm, addr, poll>>
  BY DEF TypeInv, Handle, pageVars, ghosts
<1>1. (Asking' # {} => Asking # {}) /\ (\A x, y \in Asking' : x = y \/ ~AskedOnce)
  <2>1. CASE Live' = Live
    BY <2>1 DEF Asking, AskedOnce
  <2>2. ASSUME c \in Live, NEW d, Live' = (Live \ {c}) \cup {d}, d.what = c.what
        PROVE  (Asking' # {} => Asking # {}) /\ (\A x, y \in Asking' : x = y \/ ~AskedOnce)
    BY <2>2 DEF Asking, AskedOnce
  <2> QED BY <1>0, <2>1, <2>2, HandleOkay
<1>2. CASE Serves
  BY <1>0, <1>1, <1>2, VoterServed
<1>3. CASE ~Serves
  <2>1. UNCHANGED <<watched, sockets, fresh>>
    BY <1>3 DEF Handle, Serves, GetPoll, GetAllPolls, GetAnalytics, Vote, ResetActivePoll, Fail,
      hookVars
  <2> QED BY <1>0, <1>1, <2>1 DEF VoterInv, Voter, AskedOnce, ShowsLast, AsTold
<1> QED BY <1>2, <1>3

\* The page has an answer: the only one that it has asked for, or none that replaces the poll.
LEMMA VoterAnswered ==
  ASSUME TypeInv, VoterInv, NEW c \in calls, Answer(c)
  PROVE  VoterInv'
<1>0. /\ PageInv /\ PageTypes /\ CallTypes /\ OneHold /\ CallOk(c, kind)
      /\ UNCHANGED <<kind, watched, sockets>>
  BY DEF TypeInv, PageInv, HookInv, Answer, CallTypes
<1> SUFFICES ASSUME Voter
             PROVE  VoterInv'
  BY <1>0 DEF VoterInv, Voter
<1>1. c \in Live /\ UNCHANGED <<fresh, addr>> /\ c.what \in {"poll", "polls", "vote"}
  BY <1>0, AnswerTypes DEF Voter, CallOk, Live, Asks
<1> SUFFICES ASSUME calm'
             PROVE  VoterInv'
  BY <1>0, <1>1 DEF VoterInv, Voter
<1>2. ASSUME NEW others, Live' = (Live \ {c}) \cup others
      PROVE  Asking' = (Asking \ {c}) \cup {d \in others : d.what \in {"poll", "polls"}}
  BY <1>2 DEF Asking
<1>3. CASE PollAnswered(c) \/ FallbackAnswered(c)
  <2>1. calm /\ calls' = calls \ {c}
    BY <1>3 DEF PollAnswered, FallbackAnswered, Over
  <2>2. c \in Asking
    BY <1>1, <1>3 DEF PollAnswered, FallbackAnswered, Asking
  <2>3. AskedOnce /\ poll = Nothing /\ Asking = {c}
    BY <2>1, <2>2 DEF VoterInv, AskedOnce
  <2>4. Asking' = {}
    BY <2>1, <2>3 DEF Asking, Live
  <2>5. addr = None => watched = None /\ sockets = {}
    BY <1>0, <2>3 DEF AskedOnce, OneHold
  <2>6. AskedOnce'
    BY <1>0, <1>1, <2>4, <2>5 DEF AskedOnce
  <2>7. addr = None => ShowsLast'
    BY <1>0, <2>5 DEF ShowsLast
  <2> QED BY <1>0, <1>1, <2>6, <2>7 DEF VoterInv, Voter
<1>4. CASE calls' = calls \ {c} /\ UNCHANGED <<calm, poll>>
  <2>1. Asking' \subseteq Asking
    BY <1>4 DEF Asking, Live
  <2> QED BY <1>0, <1>1, <1>4, <2>1, VoterStays
<1>5. CASE PollFailed(c) /\ kind = "mobile"
  <2>1. UNCHANGED <<poll, calm>> /\ c.what = "poll"
    BY <1>5 DEF PollFailed
  <2>2. calm /\ c \in Asking
    BY <1>1, <2>1 DEF Asking
  <2>3. AskedOnce /\ poll = Nothing /\ Asking = {c}
    BY <2>2 DEF VoterInv, AskedOnce
  <2>4. ~PollsAnswered(c) /\ ~ResetAnswered(c) /\ ~CreateAnswered(c) /\ ~VoteAnswered(c)
    BY <2>1 DEF PollsAnswered, ResetAnswered, CreateAnswered, VoteAnswered
  <2>5. \A x, y \in Asking' : x = y
    <3>1. Live' = Live \ {c} \/ \E d : Live' = (Live \ {c}) \cup {d}
      BY <1>0, AnswerOkay
    <3> QED BY <2>3, <3>1 DEF Asking
  <2>6. AskedOnce'
    BY <1>0, <1>1, <2>1, <2>3, <2>5 DEF AskedOnce
  <2>7. (addr = None => ShowsLast) => (addr = None => ShowsLast')
    BY <1>0, <1>1, <2>1 DEF ShowsLast, AsTold
  <2> QED BY <1>0, <1>1, <2>2, <2>6, <2>7 DEF VoterInv, Voter
<1>6. CASE PollFailed(c) /\ kind # "mobile"
  BY <1>4, <1>6 DEF PollFailed, Voter, Over
<1>7. CASE VoteAnswered(c)
  <2>1. kind # "desktop"
    BY <1>7 DEF VoteAnswered, Send, Call
  <2> QED BY <1>4, <1>7, <2>1 DEF VoteAnswered, Over
<1>8. CASE ActionFailed(c)
  BY <1>4, <1>8 DEF ActionFailed, Over
<1>9. ~PollsAnswered(c) /\ ~PollsFailed(c) /\ ~AnalyticsAnswered(c) /\ ~ResetAnswered(c) /\ ~CreateAnswered(c)
  BY <1>1 DEF Voter, PollsAnswered, PollsFailed, AnalyticsAnswered, ResetAnswered, CreateAnswered
<1> QED BY <1>3, <1>5, <1>6, <1>7, <1>8, <1>9 DEF Answer

\* One case per kind of step.
LEMMA VoterKept ==
  ASSUME TypeInv, VoterInv, [Next]_vars
  PROVE  VoterInv'
<1>1. ASSUME NEW c \in calls, Forgotten(c)
      PROVE  VoterInv'
  <2>1. /\ UNCHANGED <<kind, calm, addr, poll, watched, sockets, fresh>>
        /\ calls' = calls \ {c}
    BY <1>1 DEF Forgotten, pageVars, ghosts, hookVars
  <2>2. Asking' \subseteq Asking
    BY <2>1 DEF Asking, Live
  <2> QED BY <2>1, <2>2, VoterStays
<1>2. CASE Elsewhere
  <2>1. UNCHANGED <<kind, calm, addr, poll, calls>>
    BY <1>2 DEF Elsewhere, viewVars, pageVars, ghosts
  <2>2. Asking' = Asking
    BY <2>1 DEF Asking, Live
  <2>3. \A c, d \in Asking' : c = d \/ ~AskedOnce
    BY <2>2 DEF AskedOnce
  <2> QED BY <1>2, <2>1, <2>2, <2>3, VoterServed DEF Serves
<1>3. CASE UNCHANGED vars
  <2>1. UNCHANGED <<kind, calm, addr, poll, watched, sockets, fresh, calls>>
    BY <1>3 DEF vars, viewVars, pageVars, ghosts, hookVars
  <2>2. Asking' = Asking
    BY <2>1 DEF Asking, Live
  <2> QED BY <2>1, <2>2, VoterStays
<1> QED
  BY <1>1, <1>2, <1>3, VoterAsks, VoterRenders, VoterHooked, VoterHandled, VoterAnswered,
     BreaksLeaves DEF Next

\* A settled page of the active poll that has asked for it once shows the last total that it
\* was told, and the votes of every option that was listed.
THEOREM SettledIsAsToldHolds == Spec => []SettledIsAsTold
<1>1. Init => VoterInv
  BY DEF Init, VoterInv, Voter
<1>2. TypeInv /\ VoterInv /\ [Next]_vars => VoterInv'
  BY VoterKept
<1>3. TypeInv /\ VoterInv => SettledIsAsTold
  <2> SUFFICES ASSUME TypeInv, VoterInv, Settled, addr = None, calm, NEW s \in sockets
               PROVE  AsTold(poll, s)
    BY DEF SettledIsAsTold, AsTold
  <2>1. s.phase = "open" /\ s.inbox = <<>> /\ s.poll = poll.id
    BY TheSocket DEF TypeInv, HookInv, Settled
  <2> QED BY <2>1 DEF Settled, VoterInv, Voter, ShowsLast
<1> QED BY <1>1, <1>2, <1>3, TypeInvHolds, PTL DEF Spec
=============================================================================
