--------------------------- MODULE VotePathProofs ---------------------------
(***************************************************************************)
(* What holds of VotePath for any number of requests, voters and options.  *)
(***************************************************************************)
EXTENDS VotePath, TLAPS

\* Every step of the specification is one of these.
LEMMA StepCases ==
    ASSUME [Next]_vars
    PROVE  \/ \E r \in Requests :
                \/ Accept(r) \/ Reject(r) \/ AlreadyVoted(r)
                \/ Claim(r) \/ Count(r) \/ Fetch(r) \/ Publish(r)
                \/ RecordVoteFails(r) \/ MemoryRecordVote(r)
                \/ ReadPoll(r) \/ WritePoll(r) \/ InsertRecord(r) \/ Answer(r)
           \/ ReadDocument \/ ReadCounters \/ MergeCounters \/ AnswerReport
           \/ ResetRealtime \/ ResetDocument \/ ResetPublish
           \/ TogglePoll \/ TimePasses \/ Crash
           \/ UNCHANGED vars
  BY DEF Next, Vote

-----------------------------------------------------------------------------
(* Type correctness.                                                       *)

\* Laying a snapshot over an options array gives an options array.
LEMMA OverlayType ==
    ASSUME NEW old \in [Options -> SUBSET Requests],
           NEW snapshot \in SUBSET Requests
    PROVE  Overlay(old, snapshot) \in [Options -> SUBSET Requests]
  BY DEF Overlay, Votes

\* The variables keep to their types: no interleaving of requests, resets,
\* faults and crashes leaves the document without one of its options.
THEOREM TypeCorrect == Spec => []TypeOK
<1>1. Init => TypeOK
  BY DEF Init, TypeOK, NoReport, NoVotes, InFlight, Answers
<1>2. TypeOK /\ [Next]_vars => TypeOK'
  <2> SUFFICES ASSUME TypeOK, [Next]_vars
               PROVE  TypeOK'
    OBVIOUS
  <2> USE DEF TypeOK, counters, document, poll, locals, admin, report, InFlight, Answers, Goto, AfterRecord
  <2>1. CASE \E r \in Requests : Accept(r) \/ Reject(r) \/ AlreadyVoted(r)
    BY <2>1 DEF Accept, Reject, AlreadyVoted
  <2>2. ASSUME NEW r \in Requests, Claim(r)
        PROVE  TypeOK'
    BY <2>2 DEF Claim, Voters
  <2>3. ASSUME NEW r \in Requests, Count(r) \/ Fetch(r) \/ Publish(r)
        PROVE  TypeOK'
    BY <2>3 DEF Count, Fetch, Publish
  <2>4. ASSUME NEW r \in Requests, RecordVoteFails(r)
        PROVE  TypeOK'
    BY <2>4 DEF RecordVoteFails, Voters
  <2>5. ASSUME NEW r \in Requests, MemoryRecordVote(r)
        PROVE  TypeOK'
    BY <2>5 DEF MemoryRecordVote, Voters
  <2>6. ASSUME NEW r \in Requests, ReadPoll(r)
        PROVE  TypeOK'
    BY <2>6 DEF ReadPoll
  <2>7. ASSUME NEW r \in Requests, WritePoll(r)
        PROVE  TypeOK'
    <3>1. Overlay(options, update[r]) \in [Options -> SUBSET Requests]
      BY OverlayType
    <3>2. Overlay(base[r], update[r]) \in [Options -> SUBSET Requests]
      BY OverlayType
    <3> QED
      BY <2>7, <3>1, <3>2 DEF WritePoll
  <2>8. ASSUME NEW r \in Requests, InsertRecord(r) \/ Answer(r)
        PROVE  TypeOK'
    BY <2>8 DEF InsertRecord, Answer
  <2>9. CASE ResetRealtime \/ ResetDocument \/ ResetPublish
    BY <2>9 DEF ResetRealtime, ResetDocument, ResetPublish, NoVotes
  <2>10. CASE ReadDocument \/ ReadCounters \/ AnswerReport \/ TogglePoll \/ TimePasses
    BY <2>10 DEF ReadDocument, ReadCounters, AnswerReport, NoReport, NoVotes, TogglePoll,
                 TimePasses
  <2>13. CASE MergeCounters
    <3>1. Overlay(options, reportTotal) \in [Options -> SUBSET Requests]
      BY OverlayType
    <3>2. Overlay(reportOptions, reportTotal) \in [Options -> SUBSET Requests]
      BY OverlayType
    <3> QED
      BY <2>13, <3>1, <3>2 DEF MergeCounters
  <2>11. CASE Crash
    BY <2>11 DEF Crash, NoReport, NoVotes
  <2>12. CASE UNCHANGED vars
    BY <2>12 DEF vars
  <2> QED
    BY StepCases, <2>1, <2>2, <2>3, <2>4, <2>5, <2>6, <2>7, <2>8, <2>9, <2>10, <2>11, <2>12, <2>13
<1> QED
  BY <1>1, <1>2, PTL DEF Spec

-----------------------------------------------------------------------------
(* One ballot per voter.  A request holds its voter's vote from the moment  *)
(* its voter is claimed: while it is about to be counted, and then as long  *)
(* as its ballot is in the counters.                                       *)

Holds(r) == r \in live \/ pc[r] = "count"

\* The voters set covers everyone whose vote is held.  Only a reset between
\* SADD and HINCRBY of Redis could take a voter out of it, see BallotsClaimed.
HoldersAreVoters == \A r \in Requests : Holds(r) => VoterOf[r] \in voters

HoldersAreUnique ==
    \A r, s \in Requests : Holds(r) /\ Holds(s) /\ VoterOf[r] = VoterOf[s] => r = s

\* In memory there is no state between claiming and counting.
MemoryIsAtomic == Realtime = "memory" => \A r \in Requests : pc[r] # "count"

\* A request is counted once: before it is counted it is not in the history.
CountedOnce ==
    /\ live \subseteq cast
    /\ \A r \in cast : pc[r] \notin {"idle", "claim", "count"}

BallotsClaimed ==
    HoldersAreVoters /\ HoldersAreUnique /\ MemoryIsAtomic /\ CountedOnce

\* The manager that runs RecordVote under a lock, or a poll never reset.
ClaimsLast == Realtime = "memory" \/ "reset" \notin Events

\* Nobody has claimed or counted anything at first.
LEMMA BallotsClaimedInit == Init => BallotsClaimed
  BY DEF Init, BallotsClaimed, HoldersAreVoters, HoldersAreUnique, MemoryIsAtomic,
         CountedOnce, Holds

\* Every step keeps the claims of counted ballots, when no reset comes between claim and count.
LEMMA BallotsClaimedStep ==
    ASSUME ClaimsLast, TypeOK, BallotsClaimed, [Next]_vars
    PROVE  BallotsClaimed'
<1> USE DEF TypeOK, BallotsClaimed, HoldersAreVoters, HoldersAreUnique, MemoryIsAtomic,
            CountedOnce, Holds, counters, document, poll, locals, admin, report, InFlight, Answers,
            Goto, AfterRecord
<1>1. ASSUME NEW r \in Requests, Accept(r) \/ Reject(r) \/ AlreadyVoted(r)
      PROVE  BallotsClaimed'
  BY <1>1 DEF Accept, Reject, AlreadyVoted
<1>2. ASSUME NEW r \in Requests, Claim(r)
      PROVE  BallotsClaimed'
  BY <1>2 DEF Claim
<1>3. ASSUME NEW r \in Requests, Count(r)
      PROVE  BallotsClaimed'
  BY <1>3 DEF Count
<1>4. ASSUME NEW r \in Requests, Fetch(r) \/ Publish(r)
      PROVE  BallotsClaimed'
  BY <1>4 DEF Fetch, Publish
<1>5. ASSUME NEW r \in Requests, RecordVoteFails(r)
      PROVE  BallotsClaimed'
  BY <1>5 DEF RecordVoteFails
<1>6. ASSUME NEW r \in Requests, MemoryRecordVote(r)
      PROVE  BallotsClaimed'
  BY <1>6 DEF MemoryRecordVote
<1>7. ASSUME NEW r \in Requests,
             ReadPoll(r) \/ WritePoll(r) \/ InsertRecord(r) \/ Answer(r)
      PROVE  BallotsClaimed'
  BY <1>7 DEF ReadPoll, WritePoll, InsertRecord, Answer
<1>8. CASE ResetRealtime
  BY <1>8 DEF ResetRealtime, ClaimsLast
<1>9. CASE \/ ReadDocument \/ ReadCounters \/ MergeCounters \/ AnswerReport \/ ResetDocument \/ ResetPublish
           \/ TogglePoll \/ TimePasses
  BY <1>9 DEF ReadDocument, ReadCounters, MergeCounters, AnswerReport, ResetDocument, ResetPublish, TogglePoll,
             TimePasses
<1>10. CASE Crash
  BY <1>10 DEF Crash
<1>11. CASE UNCHANGED vars
  BY <1>11 DEF vars
<1> QED
  BY StepCases, <1>1, <1>2, <1>3, <1>4, <1>5, <1>6, <1>7, <1>8, <1>9, <1>10, <1>11

\* The realtime counters never hold two ballots of one voter: always with the
\* in-memory manager, and with Redis as long as nobody resets the poll.
THEOREM OneBallotHolds ==
    ASSUME ClaimsLast
    PROVE  Spec => []OneBallotPerVoter
<1>1. TypeOK /\ BallotsClaimed => OneBallotPerVoter
  BY DEF TypeOK, BallotsClaimed, HoldersAreUnique, Holds, OneBallotPerVoter
<1>2. BallotsClaimed /\ TypeOK /\ [Next]_vars => BallotsClaimed'
  BY BallotsClaimedStep
<1> QED
  BY <1>1, <1>2, BallotsClaimedInit, TypeCorrect, PTL DEF Spec

\* Seen from the counters, VotePath is the ballot box of Election: a step of
\* a request puts in one ballot of a voter who has none there, a reset or the
\* loss of the in-memory counters empties the box, and nothing else touches it.
THEOREM ElectionImplemented ==
    ASSUME ClaimsLast
    PROVE  Spec => ImplementsElection
<1>1. Init => BallotBox!Init
  BY DEF Init, BallotBox!Init
<1>2. TypeOK /\ BallotsClaimed /\ [Next]_vars => [BallotBox!Next]_(BallotBox!vars)
  <2> SUFFICES ASSUME TypeOK, BallotsClaimed, [Next]_vars,
                      ~ UNCHANGED <<live, cast>>
               PROVE  BallotBox!Next
    BY DEF BallotBox!vars
  <2> USE DEF TypeOK, BallotsClaimed, HoldersAreVoters, HoldersAreUnique,
              MemoryIsAtomic, CountedOnce, Holds, counters
  <2>1. ASSUME NEW r \in Requests, r \notin cast, live' = live \cup {r},
               cast' = cast \cup {r}, \A s \in live : VoterOf[s] # VoterOf[r]
        PROVE  BallotBox!Next
    BY <2>1 DEF BallotBox!Next, BallotBox!Cast
  <2>2. ASSUME live' = {}, cast' = cast
        PROVE  BallotBox!Next
    BY <2>2 DEF BallotBox!Next, BallotBox!Empty
  <2>3. ASSUME NEW r \in Requests, pc[r] = "count", live' = live \cup {r},
               cast' = cast \cup {r}
        PROVE  BallotBox!Next
    BY <2>1, <2>3
  <2>4. ASSUME NEW r \in Requests, Count(r) \/ RecordVoteFails(r)
        PROVE  BallotBox!Next
    BY <2>3, <2>4 DEF Count, RecordVoteFails
  <2>5. ASSUME NEW r \in Requests, MemoryRecordVote(r)
        PROVE  BallotBox!Next
    BY <2>1, <2>5 DEF MemoryRecordVote
  <2>6. CASE ResetRealtime \/ Crash
    BY <2>2, <2>6 DEF ResetRealtime, Crash
  <2>7. ASSUME NEW r \in Requests,
               \/ Accept(r) \/ Reject(r) \/ AlreadyVoted(r) \/ Claim(r)
               \/ Fetch(r) \/ Publish(r)
               \/ ReadPoll(r) \/ WritePoll(r) \/ InsertRecord(r) \/ Answer(r)
        PROVE  FALSE
    BY <2>7 DEF Accept, Reject, AlreadyVoted, Claim, Fetch, Publish,
                ReadPoll, WritePoll, InsertRecord, Answer
  <2>8. CASE \/ ReadDocument \/ ReadCounters \/ MergeCounters \/ AnswerReport \/ ResetDocument \/ ResetPublish
           \/ TogglePoll \/ TimePasses \/ UNCHANGED vars
    BY <2>8 DEF ReadDocument, ReadCounters, MergeCounters, AnswerReport, ResetDocument, ResetPublish, TogglePoll,
             TimePasses, vars
  <2> QED
    BY StepCases, <2>4, <2>5, <2>6, <2>7, <2>8
<1>3. BallotsClaimed /\ TypeOK /\ [Next]_vars => BallotsClaimed'
  BY BallotsClaimedStep
<1> QED
  BY <1>1, <1>2, <1>3, BallotsClaimedInit, TypeCorrect,
     PTL DEF Spec, BallotBox!Spec, ImplementsElection

-----------------------------------------------------------------------------
(* Nobody is locked out.                                                   *)

\* No Redis command fails halfway, and no crash separates SADD from HINCRBY.
ClaimsLead ==
    /\ "redis_fault" \notin Events
    /\ "crash" \notin Events \/ Realtime = "memory"

\* Every step keeps whoever is marked as a voter counted or about to be.
LEMMA LockoutStep ==
    ASSUME ClaimsLead, TypeOK, NoVoterLockedOut, [Next]_vars
    PROVE  NoVoterLockedOut'
<1> USE DEF TypeOK, NoVoterLockedOut, ClaimsLead, counters, document, poll, locals, admin, report, InFlight, Answers, Goto, AfterRecord
<1>1. ASSUME NEW r \in Requests,
             Accept(r) \/ Reject(r) \/ AlreadyVoted(r) \/ Fetch(r) \/ Publish(r)
      PROVE  NoVoterLockedOut'
  BY <1>1 DEF Accept, Reject, AlreadyVoted, Fetch, Publish
<1>2. ASSUME NEW r \in Requests, Claim(r)
      PROVE  NoVoterLockedOut'
  BY <1>2 DEF Claim
<1>3. ASSUME NEW r \in Requests, Count(r)
      PROVE  NoVoterLockedOut'
  BY <1>3 DEF Count
<1>4. ASSUME NEW r \in Requests, RecordVoteFails(r)
      PROVE  FALSE
  BY <1>4 DEF RecordVoteFails
<1>5. ASSUME NEW r \in Requests, MemoryRecordVote(r)
      PROVE  NoVoterLockedOut'
  BY <1>5 DEF MemoryRecordVote
<1>6. ASSUME NEW r \in Requests,
             ReadPoll(r) \/ WritePoll(r) \/ InsertRecord(r) \/ Answer(r)
      PROVE  NoVoterLockedOut'
  BY <1>6 DEF ReadPoll, WritePoll, InsertRecord, Answer
<1>7. CASE ResetRealtime
  BY <1>7 DEF ResetRealtime
<1>8. CASE \/ ReadDocument \/ ReadCounters \/ MergeCounters \/ AnswerReport \/ ResetDocument \/ ResetPublish
           \/ TogglePoll \/ TimePasses
  BY <1>8 DEF ReadDocument, ReadCounters, MergeCounters, AnswerReport, ResetDocument, ResetPublish, TogglePoll,
             TimePasses
<1>9. CASE Crash
  BY <1>9 DEF Crash
<1>10. CASE UNCHANGED vars
  BY <1>10 DEF vars
<1> QED
  BY StepCases, <1>1, <1>2, <1>3, <1>4, <1>5, <1>6, <1>7, <1>8, <1>9, <1>10

\* Every step keeps counted requests past counting.
LEMMA CountedOnceStep ==
    ASSUME TypeOK, CountedOnce, [Next]_vars
    PROVE  CountedOnce'
<1> USE DEF TypeOK, CountedOnce, counters, document, poll, locals, admin, report,
            InFlight, Answers, Goto, AfterRecord
<1>1. ASSUME NEW r \in Requests, Accept(r) \/ Reject(r) \/ AlreadyVoted(r) \/ Claim(r)
      PROVE  CountedOnce'
  BY <1>1 DEF Accept, Reject, AlreadyVoted, Claim
<1>2. ASSUME NEW r \in Requests,
             Count(r) \/ RecordVoteFails(r) \/ MemoryRecordVote(r)
      PROVE  CountedOnce'
  BY <1>2 DEF Count, RecordVoteFails, MemoryRecordVote
<1>3. ASSUME NEW r \in Requests,
             \/ Fetch(r) \/ Publish(r)
             \/ ReadPoll(r) \/ WritePoll(r) \/ InsertRecord(r) \/ Answer(r)
      PROVE  CountedOnce'
  BY <1>3 DEF Fetch, Publish, ReadPoll, WritePoll, InsertRecord, Answer
<1>4. CASE ResetRealtime \/ Crash
  BY <1>4 DEF ResetRealtime, Crash
<1>5. CASE \/ ReadDocument \/ ReadCounters \/ MergeCounters \/ AnswerReport \/ ResetDocument \/ ResetPublish
           \/ TogglePoll \/ TimePasses \/ UNCHANGED vars
  BY <1>5 DEF ReadDocument, ReadCounters, MergeCounters, AnswerReport, ResetDocument, ResetPublish, TogglePoll,
             TimePasses, vars
<1> QED
  BY StepCases, <1>1, <1>2, <1>3, <1>4, <1>5

\* Whoever is in the voters set has a ballot counted or about to be: always
\* with the in-memory manager and its one critical section; with Redis when no
\* command fails and the server does not crash between SADD and HINCRBY.
THEOREM NobodyLockedOut ==
    ASSUME ClaimsLead
    PROVE  Spec => []NoVoterLockedOut
<1>1. Init => NoVoterLockedOut
  BY DEF Init, NoVoterLockedOut
<1>2. TypeOK /\ NoVoterLockedOut /\ [Next]_vars => NoVoterLockedOut'
  BY LockoutStep
<1> QED
  BY <1>1, <1>2, TypeCorrect, PTL DEF Spec

\* Under the same condition 409 tells the truth: the moment a request is
\* answered "already voted", another ballot of its voter is counted or is
\* about to be.
THEOREM ConflictIsTrue ==
    ASSUME ClaimsLead
    PROVE  Spec => ConflictMeansVoted
<1> DEFINE Rival(r) == \E s \in Requests \ {r} :
               VoterOf[s] = VoterOf[r] /\ (s \in live \/ pc[s] = "count")
           Truthful == \A r \in Requests :
               pc[r] # "conflict" /\ pc'[r] = "conflict" => Rival(r)
<1>1. TypeOK /\ NoVoterLockedOut /\ CountedOnce /\ [Next]_vars => [Truthful]_vars
  <2> SUFFICES ASSUME TypeOK, NoVoterLockedOut, CountedOnce, [Next]_vars,
                      NEW r \in Requests, pc[r] # "conflict", pc'[r] = "conflict"
               PROVE  Rival(r)
    OBVIOUS
  <2>1. pc[r] = "claim" /\ VoterOf[r] \in voters
    <3> USE DEF TypeOK, InFlight, Answers, Goto, AfterRecord
    <3>1. ASSUME NEW q \in Requests, Accept(q) \/ Reject(q)
          PROVE  FALSE
      BY <3>1 DEF Accept, Reject
    <3>2. ASSUME NEW q \in Requests, AlreadyVoted(q)
          PROVE  pc[r] = "claim" /\ VoterOf[r] \in voters
      BY <3>2 DEF AlreadyVoted
    <3>3. ASSUME NEW q \in Requests,
                 \/ Claim(q) \/ Count(q) \/ Fetch(q) \/ Publish(q)
                 \/ RecordVoteFails(q) \/ MemoryRecordVote(q)
          PROVE  FALSE
      BY <3>3 DEF Claim, Count, Fetch, Publish, RecordVoteFails, MemoryRecordVote
    <3>4. ASSUME NEW q \in Requests,
                 ReadPoll(q) \/ WritePoll(q) \/ InsertRecord(q) \/ Answer(q)
          PROVE  FALSE
      BY <3>4 DEF ReadPoll, WritePoll, InsertRecord, Answer
    <3>5. CASE ResetRealtime \/ ResetDocument \/ ResetPublish
      BY <3>5 DEF ResetRealtime, ResetDocument, ResetPublish
    <3>6. CASE \/ ReadDocument \/ ReadCounters \/ MergeCounters \/ AnswerReport \/ TogglePoll \/ TimePasses \/ Crash
               \/ UNCHANGED vars
      BY <3>6 DEF ReadDocument, ReadCounters, MergeCounters, AnswerReport, TogglePoll, TimePasses, Crash, vars
    <3> QED
      BY StepCases, <3>1, <3>2, <3>3, <3>4, <3>5, <3>6
  <2>2. PICK s \in Requests : VoterOf[s] = VoterOf[r] /\ (s \in live \/ pc[s] = "count")
    BY <2>1 DEF NoVoterLockedOut
  <2>3. s # r
    BY <2>1, <2>2 DEF CountedOnce
  <2> QED
    BY <2>2, <2>3
<1>2. Init => CountedOnce
  BY DEF Init, CountedOnce
<1>3. TypeOK /\ CountedOnce /\ [Next]_vars => CountedOnce'
  BY CountedOnceStep
<1>4. Spec => [][Truthful]_vars
  BY <1>1, <1>2, <1>3, TypeCorrect, NobodyLockedOut, PTL DEF Spec
<1> QED
  BY <1>4 DEF ConflictMeansVoted

-----------------------------------------------------------------------------
(* Ledger, document and reports, while the counters only grow.             *)

\* Nobody resets the poll, and a crash does not take the counters along.
CountersKept ==
    /\ "reset" \notin Events
    /\ "crash" \notin Events \/ Realtime = "redis"

Counted == {"fetch", "publish", "read", "write", "insert", "answer", "ok"}

\* Whatever a request has read, and whatever it has written, is an earlier
\* state of the counters; past HINCRBY its own ballot is in them.
SnapshotsAreOld ==
    /\ \A r \in Requests : update[r] \subseteq live
    /\ \A r \in Requests : \A o \in Options : base[r][o] \subseteq Votes(live, o)
    /\ NothingStoredUncounted
    /\ \A r \in Requests : pc[r] \in Counted => r \in live
    /\ LedgerIsCounted
    /\ reportTotal \subseteq live
    /\ \A o \in Options : reportOptions[o] \subseteq Votes(live, o)
    /\ resetPc = "idle"

\* Every step keeps what was read of the counters an earlier state of them.
LEMMA SnapshotsAreOldStep ==
    ASSUME CountersKept, TypeOK, SnapshotsAreOld, [Next]_vars
    PROVE  SnapshotsAreOld'
<1> USE DEF TypeOK, SnapshotsAreOld, NothingStoredUncounted, LedgerIsCounted,
            CountersKept, Counted, counters, document, poll, locals, admin, report, InFlight,
            Answers, Goto, AfterRecord, Votes
<1>1. ASSUME NEW r \in Requests, Accept(r) \/ Reject(r) \/ AlreadyVoted(r)
      PROVE  SnapshotsAreOld'
  BY <1>1 DEF Accept, Reject, AlreadyVoted
<1>2. ASSUME NEW r \in Requests, Claim(r)
      PROVE  SnapshotsAreOld'
  BY <1>2 DEF Claim
<1>3. ASSUME NEW r \in Requests, Count(r)
      PROVE  SnapshotsAreOld'
  BY <1>3 DEF Count
<1>4. ASSUME NEW r \in Requests, Fetch(r)
      PROVE  SnapshotsAreOld'
  BY <1>4 DEF Fetch
<1>5. ASSUME NEW r \in Requests, Publish(r) \/ Answer(r)
      PROVE  SnapshotsAreOld'
  BY <1>5 DEF Publish, Answer
<1>6. ASSUME NEW r \in Requests, RecordVoteFails(r)
      PROVE  SnapshotsAreOld'
  BY <1>6 DEF RecordVoteFails
<1>7. ASSUME NEW r \in Requests, MemoryRecordVote(r)
      PROVE  SnapshotsAreOld'
  BY <1>7 DEF MemoryRecordVote
<1>8. ASSUME NEW r \in Requests, ReadPoll(r)
      PROVE  SnapshotsAreOld'
  BY <1>8 DEF ReadPoll
<1>9. ASSUME NEW r \in Requests, WritePoll(r)
      PROVE  SnapshotsAreOld'
  <2>1. CASE UNCHANGED document
    BY <1>9, <2>1 DEF WritePoll
  <2>2. CASE /\ total' = update[r]
             /\ options' = Overlay(IF Store = "mongo" THEN base[r] ELSE options, update[r])
    <3>1. \A o \in Options : options'[o] \subseteq Votes(live, o)
      BY <2>2 DEF Overlay
    <3> QED
      BY <1>9, <2>2, <3>1 DEF WritePoll
  <2> QED
    BY <1>9, <2>1, <2>2 DEF WritePoll
<1>10. ASSUME NEW r \in Requests, InsertRecord(r)
       PROVE  SnapshotsAreOld'
  BY <1>10 DEF InsertRecord
<1>11. CASE ResetRealtime \/ ResetDocument \/ ResetPublish
  BY <1>11 DEF ResetRealtime, ResetDocument, ResetPublish
<1>12. CASE ReadDocument \/ ReadCounters \/ AnswerReport \/ TogglePoll \/ TimePasses
  BY <1>12 DEF ReadDocument, ReadCounters, AnswerReport, NoReport, NoVotes, TogglePoll,
               TimePasses
<1>15. CASE MergeCounters
  <2>1. \A o \in Options : Overlay(options, reportTotal)[o] \subseteq Votes(live, o)
    BY DEF Overlay
  <2>2. \A o \in Options : Overlay(reportOptions, reportTotal)[o] \subseteq Votes(live, o)
    BY DEF Overlay
  <2>3. Overlay(reportOptions, reportTotal) \in [Options -> SUBSET Requests]
    BY OverlayType
  <2> QED
    BY <1>15, <2>1, <2>2, <2>3 DEF MergeCounters
<1>13. CASE Crash
  BY <1>13 DEF Crash, NoReport, NoVotes
<1>14. CASE UNCHANGED vars
  BY <1>14 DEF vars
<1> QED
  BY StepCases, <1>1, <1>2, <1>3, <1>4, <1>5, <1>6, <1>7, <1>8, <1>9, <1>10, <1>11,
     <1>12, <1>13, <1>14, <1>15

\* SnapshotsAreOld holds in every state, when counters are kept.
LEMMA SnapshotsHold ==
    ASSUME CountersKept
    PROVE  Spec => []SnapshotsAreOld
<1>1. Init => SnapshotsAreOld
  BY DEF Init, SnapshotsAreOld, NothingStoredUncounted, LedgerIsCounted, Counted,
         Votes, NoReport, NoVotes
<1>2. TypeOK /\ SnapshotsAreOld /\ [Next]_vars => SnapshotsAreOld'
  BY SnapshotsAreOldStep
<1> QED
  BY <1>1, <1>2, TypeCorrect, PTL DEF Spec

\* Every vote in the ledger, hence every receipt that verifies, is in the
\* tally, whatever commands fail: the record is inserted after the count.
THEOREM LedgerHolds ==
    ASSUME CountersKept
    PROVE  Spec => []LedgerIsCounted
<1>1. SnapshotsAreOld => LedgerIsCounted
  BY DEF SnapshotsAreOld
<1> QED
  BY <1>1, SnapshotsHold, PTL

\* A report that has read the counters holds no option with a vote they lack, since it
\* has read the document before them; laid over it, they are what it shows.
ReportIsWhole ==
    /\ reportPc = "merge" =>
        \A o \in Options : reportOptions[o] \subseteq Votes(reportTotal, o)
    /\ reportPc = "merged" /\ Store = "mongo" =>
        \A o \in Options : reportOptions[o] = Votes(reportTotal, o)

\* Only the steps of the report itself, and a crash, touch it.
LEMMA ReportIsWholeStep ==
    ASSUME TypeOK, SnapshotsAreOld, ReportIsWhole, [Next]_vars
    PROVE  ReportIsWhole'
<1> USE DEF TypeOK, ReportIsWhole, Votes, admin, report
<1>1. CASE UNCHANGED report
  BY <1>1
<1>2. CASE ReadDocument \/ AnswerReport \/ Crash
  BY <1>2 DEF ReadDocument, AnswerReport, Crash, NoReport
<1>3. CASE ReadCounters
  BY <1>3 DEF ReadCounters, SnapshotsAreOld
<1>4. CASE MergeCounters
  BY <1>4 DEF MergeCounters, Overlay
<1>5. ASSUME NEW r \in Requests,
             \/ Accept(r) \/ Reject(r) \/ AlreadyVoted(r) \/ Claim(r)
             \/ Count(r) \/ Fetch(r) \/ Publish(r)
             \/ RecordVoteFails(r) \/ MemoryRecordVote(r)
             \/ ReadPoll(r) \/ WritePoll(r) \/ InsertRecord(r) \/ Answer(r)
      PROVE  UNCHANGED report
  BY <1>5 DEF Accept, Reject, AlreadyVoted, Claim, Count, Fetch, Publish, RecordVoteFails,
              MemoryRecordVote, ReadPoll, WritePoll, InsertRecord, Answer
<1>6. ASSUME \/ ResetRealtime \/ ResetDocument \/ ResetPublish \/ TogglePoll \/ TimePasses
             \/ UNCHANGED vars
      PROVE  UNCHANGED report
  BY <1>6 DEF ResetRealtime, ResetDocument, ResetPublish, TogglePoll, TimePasses, vars
<1> QED
  BY StepCases, <1>1, <1>2, <1>3, <1>4, <1>5, <1>6

\* Whatever order the snapshots of concurrent votes reach the document in, whichever are
\* lost, and whatever is counted while a report is made: with Mongo it shows one tally,
\* or, when the counters could not be read, no vote that is not counted.
THEOREM ReportsHold ==
    ASSUME CountersKept, Store = "mongo"
    PROVE  Spec => []ReportsShowTheTally
<1>1. Init => ReportIsWhole
  BY DEF Init, ReportIsWhole, NoReport
<1>2. TypeOK /\ SnapshotsAreOld /\ ReportIsWhole /\ [Next]_vars => ReportIsWhole'
  BY ReportIsWholeStep
<1>3. TypeOK /\ SnapshotsAreOld /\ ReportIsWhole => ReportsShowTheTally
  BY DEF TypeOK, SnapshotsAreOld, ReportIsWhole, ReportsShowTheTally, ReportedOptions
<1> QED
  BY <1>1, <1>2, <1>3, SnapshotsHold, TypeCorrect, PTL DEF Spec

\* The tallies that concurrent requests took away are ordered by inclusion,
\* and each holds its own request's ballot.
THEOREM SnapshotsLinear ==
    ASSUME CountersKept
    PROVE  Spec => []SnapshotsAreLinear
<1>1. Init => SnapshotsAreLinear
  BY DEF Init, SnapshotsAreLinear
<1>2. TypeOK /\ SnapshotsAreOld /\ SnapshotsAreLinear /\ [Next]_vars => SnapshotsAreLinear'
  <2> SUFFICES ASSUME TypeOK, SnapshotsAreOld, SnapshotsAreLinear, [Next]_vars,
                      update' # update
               PROVE  SnapshotsAreLinear'
    BY DEF SnapshotsAreLinear
  <2> USE DEF TypeOK, SnapshotsAreOld, SnapshotsAreLinear, Counted, locals
  <2>1. ASSUME NEW r \in Requests, NEW tally, live \subseteq tally, r \in tally,
               update' = [update EXCEPT ![r] = tally]
        PROVE  SnapshotsAreLinear'
    BY <2>1
  <2>2. ASSUME NEW r \in Requests, Fetch(r)
        PROVE  SnapshotsAreLinear'
    BY <2>1, <2>2 DEF Fetch
  <2>3. ASSUME NEW r \in Requests, MemoryRecordVote(r)
        PROVE  SnapshotsAreLinear'
    BY <2>1, <2>3 DEF MemoryRecordVote
  <2>4. ASSUME NEW r \in Requests,
               \/ Accept(r) \/ Reject(r) \/ AlreadyVoted(r) \/ Claim(r)
               \/ Count(r) \/ Publish(r) \/ RecordVoteFails(r)
               \/ ReadPoll(r) \/ WritePoll(r) \/ InsertRecord(r) \/ Answer(r)
        PROVE  FALSE
    BY <2>4 DEF Accept, Reject, AlreadyVoted, Claim, Count, Publish, RecordVoteFails,
                ReadPoll, WritePoll, InsertRecord, Answer
  <2>5. CASE \/ ResetRealtime \/ ResetDocument \/ ResetPublish
             \/ ReadDocument \/ ReadCounters \/ MergeCounters \/ AnswerReport
             \/ TogglePoll \/ TimePasses \/ Crash \/ UNCHANGED vars
    BY <2>5 DEF ResetRealtime, ResetDocument, ResetPublish, ReadDocument, ReadCounters,
                MergeCounters, AnswerReport, TogglePoll, TimePasses,
                Crash, vars
  <2> QED
    BY StepCases, <2>2, <2>3, <2>4, <2>5
<1> QED
  BY <1>1, <1>2, SnapshotsHold, TypeCorrect, PTL DEF Spec

\* A vote answered with 200 and a receipt stays in the tally and in the ledger
\* for good, across any number of crashes, as long as no Mongo command fails.
THEOREM AcknowledgedHold ==
    ASSUME CountersKept, "mongo_fault" \notin Events
    PROVE  Spec => []AcknowledgedBallotsAreKept
<1> DEFINE Inserted == \A r \in Requests : pc[r] \in {"answer", "ok"} => r \in ledger
<1>1. Init => Inserted
  BY DEF Init
<1>2. TypeOK /\ SnapshotsAreOld /\ Inserted /\ [Next]_vars => Inserted'
  <2> SUFFICES ASSUME TypeOK, SnapshotsAreOld, Inserted, [Next]_vars
               PROVE  Inserted'
    OBVIOUS
  <2> USE DEF TypeOK, InFlight, Answers, Goto, AfterRecord
  <2>1. ASSUME NEW r \in Requests,
               \/ Accept(r) \/ Reject(r) \/ AlreadyVoted(r) \/ Claim(r)
               \/ Count(r) \/ Fetch(r) \/ Publish(r)
               \/ RecordVoteFails(r) \/ MemoryRecordVote(r)
        PROVE  Inserted'
    BY <2>1 DEF Accept, Reject, AlreadyVoted, Claim, Count, Fetch, Publish,
                RecordVoteFails, MemoryRecordVote
  <2>2. ASSUME NEW r \in Requests,
               ReadPoll(r) \/ WritePoll(r) \/ InsertRecord(r) \/ Answer(r)
        PROVE  Inserted'
    BY <2>2 DEF ReadPoll, WritePoll, InsertRecord, Answer
  <2>3. CASE ResetRealtime \/ ResetDocument \/ ResetPublish
    BY <2>3 DEF ResetRealtime, ResetDocument, ResetPublish
  <2>4. CASE \/ ReadDocument \/ ReadCounters \/ MergeCounters \/ AnswerReport \/ TogglePoll \/ TimePasses \/ Crash
             \/ UNCHANGED vars
    BY <2>4 DEF ReadDocument, ReadCounters, MergeCounters, AnswerReport, TogglePoll, TimePasses, Crash, vars
  <2> QED
    BY StepCases, <2>1, <2>2, <2>3, <2>4
<1>3. SnapshotsAreOld /\ Inserted => AcknowledgedBallotsAreKept
  BY DEF SnapshotsAreOld, Counted, AcknowledgedBallotsAreKept
<1> QED
  BY <1>1, <1>2, <1>3, SnapshotsHold, TypeCorrect, PTL DEF Spec
=============================================================================
