------------------------ MODULE PollLifecycleProofs ------------------------
(***************************************************************************)
(* What holds of the active poll for any number of polls and of requests   *)
(* to toggle one, with any of the events and either storage.               *)
(***************************************************************************)
EXTENDS PollLifecycle, WellFoundedInduction, TLAPS

-----------------------------------------------------------------------------
(* The newest poll.                                                        *)

\* Among polls that are dated no later than the clock, one is the newest.
LEMMA NewestExists ==
    ASSUME createdAt \in [Polls -> 0 .. clock], clock \in Nat,
           NEW polls, polls \subseteq Polls, polls # {}
    PROVE  /\ Newest(polls) \in polls
           /\ \A q \in polls : createdAt[q] <= createdAt[Newest(polls)]
<1> DEFINE Ages == {clock - createdAt[p] : p \in polls}
<1>1. Ages \subseteq Nat /\ Ages # {}
  OBVIOUS
<1> DEFINE Less == {ss \in Nat \X Nat : ss[1] < ss[2]}
<1>2. IsWellFoundedOn(Less, Nat)
  BY NatLessThanWellFounded DEF OpToRel
<1> HIDE DEF Ages, Less
<1>3. PICK least \in Ages : \A age \in Ages : <<age, least>> \notin Less
  BY <1>1, <1>2, WFMin
<1>4. ASSUME NEW age \in Ages PROVE least <= age
  <2>1. age \in Nat /\ least \in Nat /\ <<age, least>> \notin Less
    BY <1>1, <1>3
  <2>2. ~(age < least)
    BY <2>1 DEF Less
  <2> QED BY <2>1, <2>2
<1> USE DEF Ages
<1>5. PICK p \in polls : least = clock - createdAt[p]
  OBVIOUS
<1>6. \A q \in polls : createdAt[q] <= createdAt[p]
  BY <1>4, <1>5
<1> QED
  BY <1>6 DEF Newest

-----------------------------------------------------------------------------
(* Types.                                                                  *)

\* A request to toggle names a poll of the collection from its first step on.
TogglesName ==
    \A t \in Toggles : IF toggle[t].at = "idle" THEN toggle[t].poll = NoPoll
                                                ELSE toggle[t].poll \in exists

TypeInv == TypeOK /\ TogglesName

\* The poll that GetActivePoll returns is in the collection.
LEMMA CurrentExists ==
    ASSUME TypeOK, exists # {}
    PROVE  Current \in exists
<1>1. CASE active # {}
  BY <1>1, NewestExists DEF TypeOK, Current
<1>2. CASE active = {}
  BY <1>2, NewestExists DEF TypeOK, Current
<1> QED BY <1>1, <1>2

\* The first state.
LEMMA TypeInvInit == Init => TypeInv
  BY DEF Init, TypeInv, TypeOK, TogglesName, Idle

\* One case per action.
LEMMA TypeInvKept == TypeInv /\ [Next]_vars => TypeInv'
<1> SUFFICES ASSUME TypeInv, [Next]_vars
             PROVE  TypeInv'
  OBVIOUS
<1> USE DEF TypeInv, TypeOK, TogglesName
<1>1. ASSUME NEW p \in Polls, Deactivate(p)
      PROVE  TypeInv'
  BY <1>1 DEF Deactivate
<1>2. ASSUME NEW p \in Polls, MemoryCreatePoll(p)
      PROVE  TypeInv'
  BY <1>2 DEF MemoryCreatePoll, Date, Insert
<1>3. ASSUME NEW p \in Polls, MongoDate(p)
      PROVE  TypeInv'
  BY <1>3 DEF MongoDate, Date
<1>4. ASSUME NEW p \in Polls, MongoInsert(p)
      PROVE  TypeInv'
  BY <1>4 DEF MongoInsert, Insert
<1>5. ASSUME NEW p \in Polls, CastVotes(p)
      PROVE  TypeInv'
  BY <1>5 DEF CastVotes
<1>6. ASSUME NEW t \in Toggles, MemoryToggle(t)
      PROVE  TypeInv'
  BY <1>6, NoPollAssumption DEF MemoryToggle, Flip
<1>7. ASSUME NEW t \in Toggles, MongoToggleRead(t)
      PROVE  TypeInv'
  BY <1>7, NoPollAssumption DEF MongoToggleRead
<1>8. ASSUME NEW t \in Toggles, MongoToggleWrite(t)
      PROVE  TypeInv'
  BY <1>8 DEF MongoToggleWrite, SetStatus
<1>9. ASSUME NEW t \in Toggles, MongoToggleFails(t)
      PROVE  TypeInv'
  BY <1>9 DEF MongoToggleFails, SetStatus
<1>10. CASE ChooseReset
  BY <1>10, CurrentExists DEF ChooseReset
<1>11. CASE ResetVotes
  BY <1>11 DEF ResetVotes
<1>12. CASE UNCHANGED vars
  BY <1>12 DEF vars
<1> QED
  BY <1>1, <1>2, <1>3, <1>4, <1>5, <1>6, <1>7, <1>8, <1>9, <1>10, <1>11, <1>12
  DEF Next, CreatePoll, TogglePoll

\* The types hold, with the polls that requests name.
LEMMA TypeInvHolds == Spec => []TypeInv
  BY TypeInvInit, TypeInvKept, PTL DEF Spec

\* The variables keep to their types; whatever is open, has votes or is being reset is
\* a poll of the collection.
THEOREM TypeCorrect == Spec => []TypeOK
<1>1. TypeInv => TypeOK
  BY DEF TypeInv
<1> QED BY <1>1, TypeInvHolds, PTL

-----------------------------------------------------------------------------
(* Dates.                                                                  *)

\* A poll is dated before it is inserted, no two polls have one date, and the in-memory
\* storage does both at once.
Dated ==
    /\ \A p \in Polls : p \in exists <=> create[p] = "done"
    /\ \A p \in Polls : create[p] \in {"insert", "done"} => createdAt[p] > 0
    /\ \A p, q \in Polls : createdAt[p] = createdAt[q] /\ createdAt[p] > 0 => p = q
    /\ store = "memory" => \A p \in Polls : create[p] # "insert"

\* The first state.
LEMMA DatedInit == Init => Dated
  BY DEF Init, Dated

\* One case per action.
LEMMA DatedKept == TypeInv /\ Dated /\ [Next]_vars => Dated'
<1> SUFFICES ASSUME TypeOK, Dated, [Next]_vars
             PROVE  Dated'
  BY DEF TypeInv
<1> USE DEF TypeOK, Dated
<1>1. ASSUME NEW p \in Polls, Deactivate(p)
      PROVE  Dated'
  BY <1>1 DEF Deactivate
<1>2. ASSUME NEW p \in Polls, MemoryCreatePoll(p)
      PROVE  Dated'
  BY <1>2 DEF MemoryCreatePoll, Date, Insert
<1>3. ASSUME NEW p \in Polls, MongoDate(p)
      PROVE  Dated'
  BY <1>3 DEF MongoDate, Date
<1>4. ASSUME NEW p \in Polls, MongoInsert(p)
      PROVE  Dated'
  BY <1>4 DEF MongoInsert, Insert
<1>5. ASSUME NEW p \in Polls, CastVotes(p)
      PROVE  Dated'
  BY <1>5 DEF CastVotes
<1>6. ASSUME NEW t \in Toggles, MemoryToggle(t)
      PROVE  Dated'
  BY <1>6 DEF MemoryToggle, Flip
<1>7. ASSUME NEW t \in Toggles, MongoToggleRead(t)
      PROVE  Dated'
  BY <1>7 DEF MongoToggleRead
<1>8. ASSUME NEW t \in Toggles, MongoToggleWrite(t)
      PROVE  Dated'
  BY <1>8 DEF MongoToggleWrite, SetStatus
<1>9. ASSUME NEW t \in Toggles, MongoToggleFails(t)
      PROVE  Dated'
  BY <1>9 DEF MongoToggleFails, SetStatus
<1>10. CASE ChooseReset
  BY <1>10 DEF ChooseReset
<1>11. CASE ResetVotes
  BY <1>11 DEF ResetVotes
<1>12. CASE UNCHANGED vars
  BY <1>12 DEF vars
<1> QED
  BY <1>1, <1>2, <1>3, <1>4, <1>5, <1>6, <1>7, <1>8, <1>9, <1>10, <1>11, <1>12
  DEF Next, CreatePoll, TogglePoll

\* Dates are in order in every reachable state.
LEMMA DatedHolds == Spec => []Dated
  BY TypeInvHolds, DatedInit, DatedKept, PTL DEF Spec

-----------------------------------------------------------------------------
(* Which polls are open.                                                   *)

\* What closed a poll that nobody has toggled: a creation that has not dated its poll
\* yet, or one that has, and later, or one that failed.
ClosedBy(q, p) ==
    \/ create[p] \in {"date", "failed"}
    \/ create[p] \in {"insert", "done"} /\ createdAt[p] > createdAt[q]

ClosedForNewer ==
    \A q \in exists \ active :
        (\A t \in Toggles : toggle[t].poll # q) => \E p \in Polls : ClosedBy(q, p)

\* The first state.
LEMMA ClosedInit == Init => ClosedForNewer
  BY DEF Init, ClosedForNewer

\* What closed a poll goes on to be newer than it.
LEMMA ClosedKept == TypeInv /\ Dated /\ ClosedForNewer /\ [Next]_vars => ClosedForNewer'
<1> SUFFICES ASSUME TypeInv, Dated, ClosedForNewer, [Next]_vars
             PROVE  ClosedForNewer'
  OBVIOUS
<1> USE DEF TypeInv, TypeOK, TogglesName, Dated, ClosedForNewer, ClosedBy
<1>1. ASSUME NEW p \in Polls, Deactivate(p)
      PROVE  ClosedForNewer'
  BY <1>1 DEF Deactivate
<1>2. ASSUME NEW p \in Polls, MemoryCreatePoll(p)
      PROVE  ClosedForNewer'
  BY <1>2 DEF MemoryCreatePoll, Date, Insert
<1>3. ASSUME NEW p \in Polls, MongoDate(p)
      PROVE  ClosedForNewer'
  BY <1>3 DEF MongoDate, Date
<1>4. ASSUME NEW p \in Polls, MongoInsert(p)
      PROVE  ClosedForNewer'
  BY <1>4 DEF MongoInsert, Insert
<1>5. ASSUME NEW p \in Polls, CastVotes(p)
      PROVE  ClosedForNewer'
  BY <1>5 DEF CastVotes
<1>6. ASSUME NEW t \in Toggles, MemoryToggle(t)
      PROVE  ClosedForNewer'
  <2> SUFFICES ASSUME NEW q \in exists', q \notin active',
                      \A u \in Toggles : toggle'[u].poll # q
               PROVE  \E p \in Polls : ClosedBy(q, p)'
    OBVIOUS
  <2>1. PICK r \in exists : /\ Flip(r)
                            /\ toggle' = [toggle EXCEPT ![t] =
                                   [at |-> "done", poll |-> r, seen |-> r \in active]]
    BY <1>6 DEF MemoryToggle
  <2>2. toggle[t].poll = NoPoll /\ exists' = exists /\ q # NoPoll
    BY <1>6, NoPollAssumption DEF MemoryToggle
  <2>3. q # r
    BY <2>1
  <2>4. q \in exists \ active /\ \A u \in Toggles : toggle[u].poll # q
    BY <2>1, <2>2, <2>3 DEF Flip
  <2>5. \E p \in Polls : ClosedBy(q, p)
    BY <2>4
  <2> QED BY <1>6, <2>5 DEF MemoryToggle
<1>7. ASSUME NEW t \in Toggles, MongoToggleRead(t)
      PROVE  ClosedForNewer'
  <2> SUFFICES ASSUME NEW q \in exists', q \notin active',
                      \A u \in Toggles : toggle'[u].poll # q
               PROVE  \E p \in Polls : ClosedBy(q, p)'
    OBVIOUS
  <2>1. PICK r \in exists :
           /\ toggle[t].at = "retry" => r = toggle[t].poll
           /\ toggle' = [toggle EXCEPT ![t] =
                  [at   |-> IF toggle[t].at = "idle" THEN "write" ELSE "rewrite",
                   poll |-> r, seen |-> r \in active]]
    BY <1>7 DEF MongoToggleRead
  <2>2. toggle[t].poll \in {NoPoll, r} /\ exists' = exists /\ q # NoPoll
    BY <1>7, <2>1, NoPollAssumption DEF MongoToggleRead
  <2>3. q # r
    BY <2>1
  <2>4. q \in exists \ active /\ \A u \in Toggles : toggle[u].poll # q
    BY <1>7, <2>1, <2>2, <2>3 DEF MongoToggleRead
  <2>5. \E p \in Polls : ClosedBy(q, p)
    BY <2>4
  <2> QED BY <1>7, <2>5 DEF MongoToggleRead
<1>8. ASSUME NEW t \in Toggles, MongoToggleWrite(t)
      PROVE  ClosedForNewer'
  BY <1>8 DEF MongoToggleWrite, SetStatus
<1>9. ASSUME NEW t \in Toggles, MongoToggleFails(t)
      PROVE  ClosedForNewer'
  BY <1>9 DEF MongoToggleFails, SetStatus
<1>10. CASE ChooseReset
  BY <1>10 DEF ChooseReset
<1>11. CASE ResetVotes
  BY <1>11 DEF ResetVotes
<1>12. CASE UNCHANGED vars
  BY <1>12 DEF vars
<1> QED
  BY <1>1, <1>2, <1>3, <1>4, <1>5, <1>6, <1>7, <1>8, <1>9, <1>10, <1>11, <1>12
  DEF Next, CreatePoll, TogglePoll

\* Every closed poll has been toggled or has a newer one.
LEMMA ClosedHolds == Spec => []ClosedForNewer
  BY TypeInvHolds, DatedHolds, ClosedInit, ClosedKept, PTL DEF Spec

\* Nothing but a toggle of the newest poll, or a creation that failed, leaves it closed.
THEOREM NewestIsOpenHolds == Spec => []NewestIsOpen
<1>1. TypeInv /\ Dated /\ ClosedForNewer => NewestIsOpen
  <2> DEFINE newest == Newest(exists)
  <2> SUFFICES ASSUME TypeInv, Dated, ClosedForNewer, exists # {},
                      \A p \in Polls : ~Creating(p) /\ create[p] # "failed",
                      \A t \in Toggles : toggle[t].poll # newest,
                      newest \notin active
               PROVE  FALSE
    BY DEF NewestIsOpen
  <2>1. newest \in exists /\ \A q \in exists : createdAt[q] <= createdAt[newest]
    BY NewestExists DEF TypeInv, TypeOK
  <2> HIDE DEF newest
  <2>2. PICK p \in Polls : ClosedBy(newest, p)
    BY <2>1 DEF ClosedForNewer
  <2>3. p \in exists /\ createdAt[p] > createdAt[newest]
    BY <2>2 DEF ClosedBy, Creating, Dated
  <2>4. createdAt[p] \in Nat /\ createdAt[newest] \in Nat
    BY <2>1 DEF TypeInv, TypeOK
  <2> QED BY <2>1, <2>3, <2>4
<1> QED
  BY <1>1, TypeInvHolds, DatedHolds, ClosedHolds, PTL

-----------------------------------------------------------------------------
(* The active poll of the in-memory storage.                               *)

\* As long as nobody toggles, the newest poll is open if any is.
NewestOpens ==
    /\ store = "memory" /\ active # {}
    /\ \A t \in Toggles : toggle[t].at = "idle"
    => \E p \in active : \A q \in exists : createdAt[q] <= createdAt[p]

\* The first state.
LEMMA NewestOpensInit == Init => NewestOpens
  BY DEF Init, NewestOpens

\* A poll is open from the moment it is dated.
LEMMA NewestOpensKept == TypeInv /\ Dated /\ NewestOpens /\ [Next]_vars => NewestOpens'
<1> SUFFICES ASSUME TypeInv, Dated, NewestOpens, [Next]_vars
             PROVE  NewestOpens'
  OBVIOUS
<1> USE DEF TypeInv, TypeOK, TogglesName, Dated, NewestOpens
<1>1. ASSUME NEW p \in Polls, Deactivate(p)
      PROVE  NewestOpens'
  BY <1>1 DEF Deactivate
<1>2. ASSUME NEW p \in Polls, MemoryCreatePoll(p)
      PROVE  NewestOpens'
  BY <1>2 DEF MemoryCreatePoll, Date, Insert
<1>3. ASSUME NEW p \in Polls, MongoDate(p)
      PROVE  NewestOpens'
  BY <1>3 DEF MongoDate, Date
<1>4. ASSUME NEW p \in Polls, MongoInsert(p)
      PROVE  NewestOpens'
  BY <1>4 DEF MongoInsert, Insert
<1>5. ASSUME NEW p \in Polls, CastVotes(p)
      PROVE  NewestOpens'
  BY <1>5 DEF CastVotes
<1>6. ASSUME NEW t \in Toggles, MemoryToggle(t)
      PROVE  NewestOpens'
  BY <1>6 DEF MemoryToggle, Flip
<1>7. ASSUME NEW t \in Toggles, MongoToggleRead(t)
      PROVE  NewestOpens'
  BY <1>7 DEF MongoToggleRead
<1>8. ASSUME NEW t \in Toggles, MongoToggleWrite(t)
      PROVE  NewestOpens'
  BY <1>8 DEF MongoToggleWrite, SetStatus
<1>9. ASSUME NEW t \in Toggles, MongoToggleFails(t)
      PROVE  NewestOpens'
  BY <1>9 DEF MongoToggleFails, SetStatus
<1>10. CASE ChooseReset
  BY <1>10 DEF ChooseReset
<1>11. CASE ResetVotes
  BY <1>11 DEF ResetVotes
<1>12. CASE UNCHANGED vars
  BY <1>12 DEF vars
<1> QED
  BY <1>1, <1>2, <1>3, <1>4, <1>5, <1>6, <1>7, <1>8, <1>9, <1>10, <1>11, <1>12
  DEF Next, CreatePoll, TogglePoll

\* With the in-memory storage GetActivePoll returns the newest poll until a toggle.
THEOREM CurrentIsNewestHolds == Spec => []CurrentIsNewest
<1>1. TypeInv /\ Dated /\ NewestOpens => CurrentIsNewest
  <2> SUFFICES ASSUME TypeInv, Dated, NewestOpens, store = "memory", exists # {}, active # {},
                      \A t \in Toggles : toggle[t].at = "idle"
               PROVE  Newest(active) = Newest(exists)
    BY DEF CurrentIsNewest, Current
  <2>1. /\ Newest(active) \in active
        /\ \A q \in active : createdAt[q] <= createdAt[Newest(active)]
    BY NewestExists DEF TypeInv, TypeOK
  <2>2. /\ Newest(exists) \in exists
        /\ \A q \in exists : createdAt[q] <= createdAt[Newest(exists)]
    BY NewestExists DEF TypeInv, TypeOK
  <2>3. PICK p \in active : \A q \in exists : createdAt[q] <= createdAt[p]
    BY DEF NewestOpens
  <2> DEFINE a == Newest(active)
             e == Newest(exists)
  <2> HIDE DEF a, e
  <2>4. /\ a \in Polls /\ e \in Polls /\ a \in exists
        /\ createdAt[p] <= createdAt[a] /\ createdAt[e] <= createdAt[p]
        /\ createdAt[a] <= createdAt[e]
    BY <2>1, <2>2, <2>3 DEF TypeInv, TypeOK, a, e
  <2>5. createdAt[a] \in Nat /\ createdAt[e] \in Nat /\ createdAt[p] \in Nat
    BY <2>4 DEF TypeInv, TypeOK
  <2>6. createdAt[a] = createdAt[e] /\ createdAt[a] > 0
    BY <2>4, <2>5 DEF Dated
  <2> QED BY <2>4, <2>6 DEF Dated, a, e
<1>2. Spec => []NewestOpens
  BY TypeInvHolds, DatedHolds, NewestOpensInit, NewestOpensKept, PTL DEF Spec
<1> QED
  BY <1>1, <1>2, TypeInvHolds, DatedHolds, PTL
=============================================================================
