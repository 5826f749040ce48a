------------------------------ MODULE VotePath ------------------------------
(***************************************************************************)
(* One poll, and everything that happens to a ballot between the HTTP      *)
(* request POST /api/polls/:id/vote and its answer                         *)
(* (backend/controllers/poll_controller.go, PollController.Vote), run by   *)
(* many requests at once against                                           *)
(*                                                                         *)
(*   - the realtime manager of backend/database/redis.go: RedisManager,    *)
(*     where RecordVote is several Redis commands, or                      *)
(*     InMemoryRealtimeManager, where it is one critical section;          *)
(*   - the storage of backend/database/mongo.go: MongoStorage, where       *)
(*     UpdatePollVotes reads the poll and writes it back, or               *)
(*     InMemoryStorage, where it is one critical section;                  *)
(*   - the administrator's reset and toggle, the passing of the poll's     *)
(*     start and end times, failing commands, and a crash of the server.   *)
(*                                                                         *)
(* A counter is represented by the set of requests it has counted: its     *)
(* value is the cardinality of that set.  Every request increments a       *)
(* counter at most once, so nothing is lost, and two counters can be       *)
(* compared ballot by ballot.                                              *)
(***************************************************************************)
CONSTANTS
    Requests,    \* vote requests; each is sent at most once
    VoterOf,     \* generateVoterID of the sender of a request
    ChoiceOf,    \* the option a request names
    Options,     \* the options the poll has
    Realtime,    \* "redis" or "memory": database.Realtime
    Store,       \* "mongo" or "memory": database.DB
    Events       \* what else happens: "reset", "toggle", "report", "crash", and
                 \* commands that fail, "redis_fault" and "mongo_fault"

ASSUME RealtimeAssumption == Realtime \in {"redis", "memory"}
ASSUME StoreAssumption == Store \in {"mongo", "memory"}

Voters == {VoterOf[r] : r \in Requests}

VARIABLES
    voters,      \* poll:<id>:voters, who has used their vote
    live,        \* poll:<id>:votes, the realtime counters
    cast,        \* history: every request ever counted in live
    total,       \* total_votes of the poll document
    options,     \* the options array of the poll document
    isActive,    \* is_active of the poll document
    clock,       \* where now lies relative to StartTime and EndTime
    ledger,      \* the votes collection
    feed,        \* the tally last sent towards the poll's viewers
    pc,          \* where each request is, or how it was answered
    update,      \* the LivePollUpdate each request got from RecordVote
    base,        \* the options UpdatePollVotes of a request read from Mongo
    resetPc,     \* where ResetActivePoll is
    reportPc,    \* where the handler is that reports the poll
    reportTotal, \* its total: of its copy of the document, then of the counters
    reportOptions  \* the options of its copy

counters == <<voters, live, cast>>
document == <<total, options>>
poll     == <<isActive, clock>>
locals   == <<update, base>>
report   == <<reportPc, reportTotal, reportOptions>>
admin    == <<resetPc, report>>
vars == <<counters, document, poll, ledger, feed, pc, locals, admin>>

InFlight == {"claim", "count", "fetch", "publish", "read", "write", "insert", "answer"}
Answers  == {"ok", "conflict", "rejected", "failed"}

\* The field an option has in a snapshot of the counters.
Votes(tally, o) == {r \in tally : ChoiceOf[r] = o}

NoVotes == [o \in Options |-> {}]

\* Mutant of Overlay: options without a field in the snapshot are dropped.
OverlaySnapshotOnly(old, snapshot) ==
    [o \in {p \in Options : Votes(snapshot, p) # {}} |-> Votes(snapshot, o)]

\* The loop of UpdatePollVotes: an option takes its count from the snapshot
\* when the snapshot has a field for it, and keeps the count it had otherwise.
Overlay(old, snapshot) ==
    [o \in Options |-> IF Votes(snapshot, o) # {} THEN Votes(snapshot, o) ELSE old[o]]

Goto(r, label) == pc' = [pc EXCEPT ![r] = label]

Init ==
    /\ voters = {} /\ live = {} /\ cast = {}
    /\ total = {} /\ options = NoVotes
    /\ isActive = TRUE
    /\ clock \in {"upcoming", "open"}
    /\ ledger = {} /\ feed = {}
    /\ pc = [r \in Requests |-> "idle"]
    /\ update = [r \in Requests |-> {}]
    /\ base = [r \in Requests |-> NoVotes]
    /\ resetPc = "idle"
    /\ reportPc = "idle" /\ reportTotal = {} /\ reportOptions = NoVotes

-----------------------------------------------------------------------------
(* The request is read and checked against the poll document.              *)

AcceptsVotes == isActive /\ clock = "open"

Accept(r) ==
    /\ pc[r] = "idle"
    /\ AcceptsVotes
    /\ ChoiceOf[r] \in Options
    /\ Goto(r, "claim")
    /\ UNCHANGED <<counters, document, poll, ledger, feed, locals, admin>>

\* 404 when the poll cannot be read, 400 for every check that fails.
Reject(r) ==
    /\ pc[r] = "idle"
    /\ ~AcceptsVotes \/ ChoiceOf[r] \notin Options \/ "mongo_fault" \in Events
    /\ Goto(r, "rejected")
    /\ UNCHANGED <<counters, document, poll, ledger, feed, locals, admin>>

\* 409: the voter is in the set already, with either manager.
AlreadyVoted(r) ==
    /\ pc[r] = "claim"
    /\ VoterOf[r] \in voters
    /\ Goto(r, "conflict")
    /\ UNCHANGED <<counters, document, poll, ledger, feed, locals, admin>>

AfterRecord == IF Store = "mongo" THEN "read" ELSE "write"

-----------------------------------------------------------------------------
(* RedisManager.RecordVote: SADD, HINCRBY, HGETALL and PUBLISH are four    *)
(* commands on a connection that other requests share.                     *)

\* Mutant of Claim: the counter is read without having been incremented.
ClaimWithoutCount(r) ==
    /\ Realtime = "redis" /\ pc[r] = "claim" /\ VoterOf[r] \notin voters
    /\ voters' = voters \cup {VoterOf[r]}
    /\ Goto(r, "fetch")
    /\ UNCHANGED <<live, cast, document, poll, ledger, feed, locals, admin>>

\* Mutant of Claim: what SADD returns is not looked at.
ClaimUnchecked(r) ==
    /\ Realtime = "redis" /\ pc[r] = "claim"
    /\ voters' = voters \cup {VoterOf[r]}
    /\ Goto(r, "count")
    /\ UNCHANGED <<live, cast, document, poll, ledger, feed, locals, admin>>

Claim(r) ==
    /\ Realtime = "redis"
    /\ pc[r] = "claim"
    /\ VoterOf[r] \notin voters
    /\ voters' = voters \cup {VoterOf[r]}
    /\ Goto(r, "count")
    /\ UNCHANGED <<live, cast, document, poll, ledger, feed, locals, admin>>

Count(r) ==
    /\ pc[r] = "count"
    /\ live' = live \cup {r}
    /\ cast' = cast \cup {r}
    /\ Goto(r, "fetch")
    /\ UNCHANGED <<voters, document, poll, ledger, feed, locals, admin>>

\* Mutant of Fetch: the tally is computed from the document instead of read.
FetchFromDocument(r) ==
    /\ pc[r] = "fetch"
    /\ update' = [update EXCEPT ![r] = total \cup {r}]
    /\ Goto(r, "publish")
    /\ UNCHANGED <<counters, document, poll, ledger, feed, base, admin>>

\* Mutant of Fetch: it waits until the counters exist.
FetchWaits(r) ==
    /\ pc[r] = "fetch" /\ live # {}
    /\ update' = [update EXCEPT ![r] = live]
    /\ Goto(r, "publish")
    /\ UNCHANGED <<counters, document, poll, ledger, feed, base, admin>>

Fetch(r) ==
    /\ pc[r] = "fetch"
    /\ update' = [update EXCEPT ![r] = live]
    /\ Goto(r, "publish")
    /\ UNCHANGED <<counters, document, poll, ledger, feed, base, admin>>

\* The error of PUBLISH is ignored.
Publish(r) ==
    /\ pc[r] = "publish"
    /\ \/ feed' = update[r]
       \/ "redis_fault" \in Events /\ UNCHANGED feed
    /\ Goto(r, AfterRecord)
    /\ UNCHANGED <<counters, document, poll, ledger, locals, admin>>

\* Mutant of RecordVoteFails: the error is dropped like those of the storage.
RecordVoteFailsQuietly(r) ==
    /\ "redis_fault" \in Events /\ Realtime = "redis"
    /\ pc[r] \in {"claim", "count", "fetch"}
    /\ Goto(r, "insert")
    /\ UNCHANGED <<counters, document, poll, ledger, feed, locals, admin>>

\* SADD, HINCRBY or HGETALL returns an error, because Redis is not reachable
\* or the client went away and its context is cancelled.  The command may
\* have taken effect all the same.
RecordVoteFails(r) ==
    /\ "redis_fault" \in Events
    /\ Realtime = "redis"
    /\ \/ pc[r] = "claim" /\ UNCHANGED <<live, cast>>
          /\ voters' \in {voters, voters \cup {VoterOf[r]}}
       \/ pc[r] = "count" /\ UNCHANGED voters
          /\ \/ live' = live \cup {r} /\ cast' = cast \cup {r}
             \/ UNCHANGED <<live, cast>>
       \/ pc[r] = "fetch" /\ UNCHANGED counters
    /\ Goto(r, "failed")
    /\ UNCHANGED <<document, poll, ledger, feed, locals, admin>>

-----------------------------------------------------------------------------
(* InMemoryRealtimeManager.RecordVote: all of it under m.mu.               *)

MemoryRecordVote(r) ==
    /\ Realtime = "memory"
    /\ pc[r] = "claim"
    /\ VoterOf[r] \notin voters
    /\ voters' = voters \cup {VoterOf[r]}
    /\ live' = live \cup {r}
    /\ cast' = cast \cup {r}
    /\ update' = [update EXCEPT ![r] = live']
    /\ feed' = live'
    /\ Goto(r, AfterRecord)
    /\ UNCHANGED <<document, poll, ledger, base, admin>>

-----------------------------------------------------------------------------
(* The rest of the handler.  Errors of UpdatePollVotes and of the store's   *)
(* RecordVote are dropped, and the handler goes on.                        *)

\* MongoStorage.UpdatePollVotes reads the poll first.
ReadPoll(r) ==
    /\ pc[r] = "read"
    /\ \/ base' = [base EXCEPT ![r] = options] /\ Goto(r, "write")
       \/ "mongo_fault" \in Events /\ UNCHANGED base /\ Goto(r, "insert")
    /\ UNCHANGED <<counters, document, poll, ledger, feed, update, admin>>

WritePoll(r) ==
    /\ pc[r] = "write"
    /\ \/ total' = update[r]
          /\ options' = Overlay(IF Store = "mongo" THEN base[r] ELSE options, update[r])
       \/ "mongo_fault" \in Events /\ Store = "mongo" /\ UNCHANGED document
    /\ Goto(r, "insert")
    /\ UNCHANGED <<counters, poll, ledger, feed, locals, admin>>

InsertRecord(r) ==
    /\ pc[r] = "insert"
    /\ \/ ledger' = ledger \cup {r}
       \/ "mongo_fault" \in Events /\ Store = "mongo" /\ UNCHANGED ledger
    /\ Goto(r, "answer")
    /\ UNCHANGED <<counters, document, poll, feed, locals, admin>>

\* Mutant of Answer: the answer does not wait for the insertion.
AnswerEarly(r) ==
    /\ pc[r] \in {"insert", "answer"}
    /\ feed' \in {feed, update[r]}
    /\ Goto(r, "ok")
    /\ UNCHANGED <<counters, document, poll, ledger, locals, admin>>

\* GlobalHub.Broadcast gives up when the hub's queue is full; then 200.
Answer(r) ==
    /\ pc[r] = "answer"
    /\ feed' \in {feed, update[r]}
    /\ Goto(r, "ok")
    /\ UNCHANGED <<counters, document, poll, ledger, locals, admin>>

Vote(r) ==
    \/ Accept(r) \/ Reject(r) \/ AlreadyVoted(r)
    \/ Claim(r) \/ Count(r) \/ Fetch(r) \/ Publish(r)
    \/ MemoryRecordVote(r)
    \/ ReadPoll(r) \/ WritePoll(r) \/ InsertRecord(r) \/ Answer(r)

-----------------------------------------------------------------------------
(* What GetPoll, GetActivePoll, the lists of polls, the analytics and both *)
(* exports report: the poll document, over which the realtime counters are *)
(* laid when they can be read and there are any.  The masking of a blind   *)
(* poll is left out.                                                       *)

\* The poll is read: a copy of the document, but for the options of InMemoryStorage,
\* which are those it stores.
ReadDocument ==
    /\ "report" \in Events
    /\ reportPc = "idle" /\ reportPc' = "counters"
    /\ reportTotal' = total
    /\ reportOptions' = IF Store = "memory" THEN NoVotes ELSE options
    /\ UNCHANGED <<counters, document, poll, ledger, feed, pc, locals, resetPc>>

\* GetLiveVotes.  When it fails, or there are no counters, the document has to do.
ReadCounters ==
    /\ reportPc = "counters"
    /\ \/ live # {} /\ reportPc' = "merge" /\ reportTotal' = live
       \/ /\ live = {} \/ ("redis_fault" \in Events /\ Realtime = "redis")
          /\ reportPc' = "stored" /\ UNCHANGED reportTotal
    /\ UNCHANGED <<counters, document, poll, ledger, feed, pc, locals, resetPc, reportOptions>>

\* Mutant of MergeCounters: the document is read after the counters.
MergeIntoLater ==
    /\ reportPc = "merge" /\ reportPc' = "merged"
    /\ reportOptions' = Overlay(options, reportTotal)
    /\ UNCHANGED <<counters, document, poll, ledger, feed, pc, locals, resetPc, reportTotal>>

\* Where the options are those that are stored, merging the counters into them changes
\* the document, though not its total.
MergeCounters ==
    /\ reportPc = "merge" /\ reportPc' = "merged"
    /\ IF Store = "memory"
       THEN options' = Overlay(options, reportTotal) /\ UNCHANGED reportOptions
       ELSE reportOptions' = Overlay(reportOptions, reportTotal) /\ UNCHANGED options
    /\ UNCHANGED <<counters, total, poll, ledger, feed, pc, locals, resetPc, reportTotal>>

\* The options as they are when the answer is written.
ReportedOptions == IF Store = "memory" THEN options ELSE reportOptions

NoReport == reportPc' = "idle" /\ reportTotal' = {} /\ reportOptions' = NoVotes

AnswerReport ==
    /\ reportPc \in {"merged", "stored"} /\ NoReport
    /\ UNCHANGED <<counters, document, poll, ledger, feed, pc, locals, resetPc>>

-----------------------------------------------------------------------------
(* The administrator.                                                      *)

\* Mutant of ResetRealtime: only the voters key is deleted.
ResetVotersOnly ==
    /\ "reset" \in Events /\ resetPc = "idle"
    /\ voters' = {} /\ resetPc' = "document"
    /\ UNCHANGED <<live, cast, document, poll, ledger, feed, pc, locals, report>>

\* Mutant of ResetRealtime: only the votes key is deleted.
ResetVotesOnly ==
    /\ "reset" \in Events /\ resetPc = "idle"
    /\ live' = {} /\ resetPc' = "document"
    /\ UNCHANGED <<voters, cast, document, poll, ledger, feed, pc, locals, report>>

\* ResetActivePoll: GetActivePoll finds the poll whether or not it is active,
\* then the realtime keys are deleted, the document is zeroed and a zero
\* tally is published, each ignoring the error of the one before.
ResetRealtime ==
    /\ "reset" \in Events
    /\ resetPc = "idle"
    /\ \/ voters' = {} /\ live' = {}
       \/ "redis_fault" \in Events /\ Realtime = "redis" /\ UNCHANGED <<voters, live>>
    /\ resetPc' = "document"
    /\ UNCHANGED <<cast, document, poll, ledger, feed, pc, locals, report>>

ResetDocument ==
    /\ resetPc = "document"
    /\ \/ total' = {} /\ options' = NoVotes
       \/ "mongo_fault" \in Events /\ Store = "mongo" /\ UNCHANGED document
    /\ resetPc' = "publish"
    /\ UNCHANGED <<counters, poll, ledger, feed, pc, locals, report>>

ResetPublish ==
    /\ resetPc = "publish"
    /\ \/ feed' = {}
       \/ "redis_fault" \in Events /\ Realtime = "redis" /\ UNCHANGED feed
    /\ resetPc' = "idle"
    /\ UNCHANGED <<counters, document, poll, ledger, pc, locals, report>>

TogglePoll ==
    /\ "toggle" \in Events
    /\ isActive' = ~isActive
    /\ UNCHANGED <<counters, document, clock, ledger, feed, pc, locals, admin>>

\* The poll's StartTime, then its EndTime, passes.
TimePasses ==
    /\ \/ clock = "upcoming" /\ clock' = "open"
       \/ clock = "open" /\ clock' = "expired"
    /\ UNCHANGED <<counters, document, isActive, ledger, feed, pc, locals, admin>>

\* The server stops and is started again on the same Mongo database.  What
\* the handlers were doing is lost; so are the counters of the in-memory
\* realtime manager, while those of Redis survive.
Crash ==
    /\ "crash" \in Events
    /\ Store = "mongo"
    /\ pc' = [r \in Requests |-> IF pc[r] \in InFlight THEN "lost" ELSE pc[r]]
    /\ resetPc' = "idle" /\ NoReport
    /\ IF Realtime = "memory" THEN voters' = {} /\ live' = {}
                              ELSE UNCHANGED <<voters, live>>
    /\ UNCHANGED <<cast, document, poll, ledger, feed, locals>>

Next ==
    \/ \E r \in Requests : Vote(r) \/ RecordVoteFails(r)
    \/ ReadDocument \/ ReadCounters \/ MergeCounters \/ AnswerReport
    \/ ResetRealtime \/ ResetDocument \/ ResetPublish
    \/ TogglePoll \/ TimePasses \/ Crash

Spec == Init /\ [][Next]_vars

\* A goroutine that has begun a request goes on with it, and Redis and Mongo
\* answer every command.  Nobody has to send a request, and nothing has to
\* fail, be reset or be toggled.
Fairness == \A r \in Requests : WF_vars(pc[r] # "idle" /\ Vote(r))

FairSpec == Spec /\ Fairness

-----------------------------------------------------------------------------
(* Properties.                                                             *)

TypeOK ==
    /\ voters \subseteq Voters
    /\ live \subseteq Requests /\ cast \subseteq Requests
    /\ total \subseteq Requests
    /\ options \in [Options -> SUBSET Requests]
    /\ isActive \in BOOLEAN
    /\ clock \in {"upcoming", "open", "expired"}
    /\ ledger \subseteq Requests /\ feed \subseteq Requests
    /\ pc \in [Requests -> {"idle", "lost"} \cup InFlight \cup Answers]
    /\ update \in [Requests -> SUBSET Requests]
    /\ base \in [Requests -> [Options -> SUBSET Requests]]
    /\ resetPc \in {"idle", "document", "publish"}
    /\ reportPc \in {"idle", "counters", "merge", "merged", "stored"}
    /\ reportTotal \subseteq Requests /\ reportOptions \in [Options -> SUBSET Requests]

\* "Enforces 1 vote per user per poll": the realtime counters never hold two
\* ballots of the same voter, however requests interleave with each other,
\* with failures, crashes and (with the in-memory manager) resets.
OneBallotPerVoter ==
    \A r, s \in live : VoterOf[r] = VoterOf[s] => r = s

\* A voter is in the voters set only if a ballot of theirs is counted or is
\* about to be: nobody is turned away with 409 for a vote that does not exist.
NoVoterLockedOut ==
    \A v \in voters : \E r \in Requests :
        VoterOf[r] = v /\ (r \in live \/ pc[r] = "count")

\* The ledger never holds a vote the tally does not: what VerifyReceipt
\* confirms as counted is counted.
LedgerIsCounted == ledger \subseteq live

\* What the poll document and the viewers' feed hold was counted: a snapshot
\* written late may be old, but it never shows a vote the counters lack.
NothingStoredUncounted ==
    /\ total \subseteq live
    /\ \A o \in Options : options[o] \subseteq Votes(live, o)
    /\ feed \subseteq live

\* Although snapshots reach the document in any order, a report that could read the
\* counters shows one tally that the poll has had: its options add up to its total.  One
\* that could not shows no vote that is not counted, though it may lack some.  In the code:
\* the document is read before the counters.
ReportsShowTheTally ==
    /\ reportPc = "merged" =>
        /\ reportTotal \subseteq live
        /\ \A o \in Options : ReportedOptions[o] = Votes(reportTotal, o)
    /\ reportPc = "stored" =>
        /\ reportTotal \subseteq live
        /\ \A o \in Options : ReportedOptions[o] \subseteq Votes(live, o)

\* The tallies different requests took away from RecordVote lie on one line:
\* of two of them, one is an earlier state of the other, and each contains
\* the ballot of the request that took it.
SnapshotsAreLinear ==
    \A r, s \in Requests :
        /\ update[r] \subseteq update[s] \/ update[s] \subseteq update[r]
        /\ update[r] # {} => r \in update[r]

\* A voter who got 200 and a receipt finds the ballot in the tally and in the
\* ledger ever after, also when the server crashes.
AcknowledgedBallotsAreKept ==
    \A r \in Requests : pc[r] = "ok" => r \in live /\ r \in ledger

\* A request is answered 409 only while another ballot of the same voter is
\* counted or about to be.
ConflictMeansVoted ==
    [][\A r \in Requests : pc[r] # "conflict" /\ pc'[r] = "conflict" =>
           \E s \in Requests \ {r} :
               VoterOf[s] = VoterOf[r] /\ (s \in live \/ pc[s] = "count")]_vars

\* Votes are counted only while the poll is active and its time has not run
\* out: "This poll is closed and no longer accepting votes".
ClosedPollCountsNothing ==
    [][live' \subseteq live \/ AcceptsVotes]_vars

\* The poll document takes in no vote that the counters do not hold: what a
\* reset has thrown away does not come back.
DiscardedVotesStayDiscarded ==
    [][total' \ total \subseteq live]_vars

\* Once a request is accepted, its voter ends up with a counted ballot: this
\* one, or the other one that made it a duplicate.
AcceptedVoterIsCounted ==
    \A r \in Requests :
        pc[r] = "claim" ~> \E s \in live : VoterOf[s] = VoterOf[r]

\* Every accepted request is answered, or dies with the server.
AcceptedIsAnswered ==
    \A r \in Requests : pc[r] = "claim" ~> pc[r] \in Answers \cup {"lost"}

\* The abstract specification: the realtime counters are the ballot box.
BallotBox == INSTANCE Election WITH Ballots <- Requests, box <- live
ImplementsElection == BallotBox!Spec
=============================================================================
