# PollX: a verification development

PollX is a live polling service: a Go server (Gin) over MongoDB and Redis, each
with an in-memory fallback, and a React client that follows a poll over a
WebSocket. This directory holds TLA+ modules that model the server's core and the
stateful parts of the client, TLC configurations that model-check them on small
instances, and TLAPS proofs for every value of the constants: of the vote path, the rate
limiter, the active poll, the hub, the live pages, the launch of polls, the comments,
sign-in and the snake games.

    tlc -config VoteMemory.cfg MCVotePath.tla      # any run: its .cfg and its MC module
    tlapm VotePathProofs.tla                       # the proofs of the vote path
    tlapm PollLifecycleProofs.tla                  # the proofs of the active poll
    tlapm HubProofs.tla                            # the proofs of the hub
    tlapm LiveViewProofs.tla                       # the proofs of the live pages (some minutes)
    tlapm LaunchProofs.tla                         # the proofs of forms, windows and countdown
    tlapm CommentsProofs.tla                       # the proofs of the comments
    tlapm SignInProofs.tla                         # the proofs of limiter, session and accounts
    tlapm SnakeProofs.tla                          # the proofs of the snake games

## The system

### Parts, state, operations, and what makes them correct

| Part (source) | State | Operations | Correct when |
|---|---|---|---|
| Vote handler (`controllers/poll_controller.go`) | none of its own; a request's locals: the poll it read, the tally RecordVote gave it | Vote, GetPoll, GetActivePoll, ResetActivePoll, TogglePoll, CreatePoll, comments, history | one ballot per voter; acknowledged ballots stay; reports show the tally; every request is answered |
| Realtime manager (`database/redis.go`) | per poll: voters set, vote counters, subscribers | RecordVote, ResetVotes, GetLiveVotes, PublishUpdate, SubscribeToPoll, HasVoted | a voter is marked if and only if a ballot is counted |
| Storage (`database/mongo.go`) | users, polls, votes (the ledger), comments, audit log | one per handler | the document follows the counters; the ledger holds counted votes; the active poll is the newest open one |
| WebSocket hub (`websocket/hub.go`) | viewers and subscription per poll, three channels | register, unregister, broadcast; read and write pumps | no panic, no leak; every vote reaches every viewer; what settles is current |
| Login rate limiter (`middleware/ratelimit.go`) | per address: attempts, start of window | RateLimitLogin | bounded admissions, no refusal without cause |
| Accounts (`controllers/auth_controller.go`, `services/email_service.go`) | users with role, verified flag, current code | Register, Login, VerifyOTP, VerifyEmail, ResendOTP, ResendCode, GetMe | one account per email; the newest code works |
| Analytics and exports (`controllers/admin_controller.go`) | none | GetAnalytics, ExportCSV, ExportPDF, moderation | same tally as the poll itself |
| Live client (`usePollWebSocket.js`, `PollView.jsx`, `MobilePollView.jsx`, `Dashboard.jsx`) | poll shown, last update, connection, selection | fetch, merge of an update, reconnect, change of poll, vote, reset | one connection, which comes back; the numbers shown belong to the poll shown and become current |
| Poll forms and countdown (`CreatePoll.jsx`, `Dashboard.jsx`, the poll pages) | fields, the time that is left | fill in, submit; an interval | a poll has the window that was filled in; the ballot is open while the server takes votes |
| Commentary (three pages, `poll_controller.go`) | the comments shown, the comments stored | load, post, react, delete | an own comment is there once; nothing of another poll, nothing deleted |
| Session and sign-in (`AuthContext.jsx`, `Login.jsx`, `Register.jsx`) | token, user, step and code of a form | login, register, verify, resend, logout, fetchUser | user and token belong together; a code that was filled in works; no button waits for ever |
| Snake games (`SnakeGameModal.jsx`, `ChillOutSnakeLounge.jsx`) | snake, direction, food, score, record | tick, key press, open, close | the snake stays whole and never turns into itself; the record is kept |

The rest (middleware for JWT and CORS, configuration, start-up and layout) keeps no state worth
a model; `PROJECT.json` lists every part.

### How they interact

A vote request reads the poll document (storage), claims the voter and counts the
ballot (realtime manager), which publishes the new tally to subscribers; then the
handler writes that tally into the poll document, inserts a vote record into the
ledger, hands the update to the hub's queue, and answers with a receipt. The hub
subscribes to a poll while it has viewers, queues what it is told, and copies it
to each viewer's channel, which the viewer's write pump empties into the socket.
Readers merge the counters over the document. Administrators create, toggle and
reset polls through the same storage and manager.

A page asks for a poll, and once it has one, for its comments, and watches it: each
opened connection is greeted with the tally, and later updates are merged into what
the page has fetched. The dashboard asks for all polls, then for the analytics of one.
All calls carry the token that localStorage holds at that moment. Every handler of
the client goes on after its awaits with what its closure held before. Nothing spans two stores in a
transaction, and most errors after the count are dropped.

### What is hard

* The vote path is up to nine steps over two stores, run by many requests at once,
  against resets, toggles, deadlines, failing or cancelled commands, crashes.
* Snapshots of the counters are taken in one order and written in another.
* The hub has one run loop, two pumps per viewer, a relay per subscription and
  a goroutine per announcement, over bounded channels that drop or block.
* Creating a poll is two steps, and toggling it in Mongo is two more.
* Windows of time meet; timeouts and retries repeat what took effect.
* Client calls overlap: their answers come in any order, to pages that show another
  poll or account by then, or that have been left, and race with pushed updates.
* A lost connection is made again by a timer that may outlive what it was set for.
* The browser's clock opens the ballot, and the server's clock judges the vote.

`PROJECT.json` lists each hazard at its line, with the properties that cover it.

## The modules

| Module | Models | Composition |
|---|---|---|
| `Election` | what the service promises: an abstract ballot box | refined by `VotePath` |
| `VotePath` | the vote handler, both realtime managers, both storages, reset, toggle, time, faults, crash | `INSTANCE Election` |
| `VotePathProofs` | theorems about `VotePath` | `EXTENDS VotePath, TLAPS` |
| `Hub` | the hub of one poll, its viewers, subscription and the vote handlers that feed it | |
| `HubProofs` | theorems about `Hub` | `EXTENDS Hub, TLAPS` |
| `RateLimiter` | the login rate limiter | |
| `PollLifecycle` | several polls; creation, toggling, the active poll, reset | |
| `PollLifecycleProofs` | theorems about `PollLifecycle` | `EXTENDS PollLifecycle, TLAPS` |
| `PollSocket` | the hook `usePollWebSocket`, its connections and timers, and as environment the messages of the server | |
| `LiveView` | one visitor's page with live results: desktop, mobile or dashboard | `EXTENDS PollSocket` |
| `LiveViewProofs` | theorems about `LiveView` and `PollSocket` | `EXTENDS LiveView, TLAPS` |
| `Launch` | both forms that create polls, the time window, the countdown and the time checks of a vote | |
| `LaunchProofs` | theorems about `Launch` | `EXTENDS Launch, TLAPS` |
| `Comments` | the comments on any number of pages, and those of the server | |
| `CommentsProofs` | theorems about `Comments` | `EXTENDS Comments, TLAPS` |
| `SignIn` | session, sign-in forms and accounts | |
| `SignInProofs` | theorems about `RateLimiter` and `SignIn`, what stands before a login and what follows it | `EXTENDS SignIn, RateLimiter, TLAPS` |
| `Snake` | both snake games | |
| `SnakeProofs` | theorems about `Snake` | `EXTENDS Snake, TLAPS` |
| `MCVotePath`, `MCHub`, `MCRateLimiter`, `MCPollLifecycle`, `MCLiveView`, `MCLaunch`, `MCSnake` | model values for TLC | extend their module |

### VotePath

A counter is represented by the set of requests it counted, so that two counters
can be compared ballot by ballot; a request increments a counter at most once, so
its value is the cardinality. Each request is sent at most once; a retry is
another request of the same voter. `pc[r]` is the handler's position: `idle`,
`claim` (checks passed), `count`, `fetch`, `publish` (inside Redis RecordVote),
`read`, `write` (UpdatePollVotes), `insert` (ledger), `answer`, and then an
answer, or `lost` after a crash. Each Redis or Mongo command is one action; a
critical section of a fallback is one action. The constants `Realtime` and `Store`
choose the implementations, `Events` what else may happen:

* `reset`: ResetActivePoll as three steps (delete keys, zero document, publish);
* `toggle`: is_active flips at any time (what TogglePoll does inside is in
  `PollLifecycle`);
* `report`: a reader (GetPoll, GetActivePoll, the analytics, the exports). It reads the
  document, then the counters, and lays these over the document if they could be read
  and there are any; otherwise it shows the document as it was read. With the in-memory
  storage the poll handed out shares its options array with the stored one, so
  `MergeCounters` writes to the document, and `ReportedOptions` are the stored ones as they
  are when the answer is written. The merge is one step here and one assignment per option
  in the code, and there is one reader at a time;
* `redis_fault`, `mongo_fault`: any command of that store may fail, having taken
  effect or not. The former includes the cancelled context of a client that went
  away (RecordVote runs under the request's context, the later writes do not);
* `crash`: the server stops and starts again on the same Mongo; the in-memory
  counters are lost, Redis is not. A crash of a server with the in-memory storage
  loses everything and is the initial state, so it is not an event.

Abstractions: reading the poll and comparing the time are one step; the voter's
identity is given (`generateVoterID` is an uninterpreted `VoterOf`); an option is
named by its ID; the audit log, badges, departments and the receipt's hash are
left out. ResetActivePoll finds the poll whether it is open or not, as the code
does. `feed` is the tally last sent towards viewers, whose delivery is the subject
of `Hub`.

### Hub

A tally is represented by its version (the number of votes). Updates carry a
version and a number of viewers; those of a vote handler travel by reference, as
the pointer does in the code, so the hub's stamp of the viewer count is seen by
every copy of the pointer. One action per case of the run loop's `select`, with
registration in two: up to the unlock, and the greeting that reads the counters.
`note[c]` is the goroutine that announces c's coming or leaving. `Take`,
`HandOver` and `Stop` are the relay goroutine of a subscription, the only sender
that blocks on the queue; `Offered` is every send that gives up when a channel is
full. `panicked` records a send on, or a second close of, a closed channel.

Abstractions: pings and deadlines are `ReadFails` at any time; a failing write
ends like a failing read. A Redis SUBSCRIBE is assumed to be handled before the
HGETALL that follows it. The unsynchronised writes to a shared update
(`RecentVote`, `ActiveViewers`) are not split into bytes. Resets are left out:
only votes change the tally here. Redis drops messages of a subscriber whose
go-redis channel stays full; the channel has capacity `ChannelCap` in both variants.

### RateLimiter

`record.attempts` is the set of attempts counted in the window; `when` records
each attempt's time. The mutex makes an attempt one step. Time is discrete and
stops at `MaxTime`; several attempts may share an instant. The specification is
`LimiterSpec`, so that the module can stand beside `SignIn` in one proof module.

### PollLifecycle

`store` is the storage that start-up chose, and never changes. `createdAt` is the
creation's number: the clock of the server orders creations.
`create[p]` is SetActivePoll's position: idle, `date` (the others are closed),
`insert` (dated, Mongo only), done or failed. UpdateMany is one step; its writes to single
documents are not interleaved with other requests. A toggle request remembers the
status it read; `retry` is the handler's second call after an error. Votes are
reduced to "this poll has some", enough to say which poll's votes a reset takes.

### PollSocket and LiveView

`PollSocket` is the hook. `sockets` holds every connection that still has something to
do, with `live` for the closure's `isMounted`; `ref` is `wsRef`, which only knows the
last of them, and `timers` the timeouts that will connect again. `Watch` is the
effect with the cleanup of the one before. A message is a poll, its option votes,
and a total; an option without votes is `Absent`, as in the map the server sends,
save after a reset, which lists all. `Lose` cuts a connection with any suffix of its messages;
a viewer whose buffer is full is closed (`Deliver`). The server is the environment, and no
better than `VotePath` and `Hub` have it: goroutines announce tallies they read
earlier, the hub's full queue drops an announcement, and the error of reading the
counters is dropped, which announces no votes at all (`hub.go:77`, `91`, `123`, `164`). So
the module keeps no tally. `Sayings` are all tallies and the message of a reset; a greeting
is any of them (`Open`), and so is an announcement, at any time (`Announce`). That a page
shows what it was told is the page's part and is checked here; that what it is told is
current is not so (`BadTally`). `said` is the last message given to a connection.

`LiveView` composes the hook with a page. A call of the API is sent, handled and
answered in three steps; `of` is the poll of its closure. `Render` is a rendering
with its effects: the hook's when the poll to watch has changed, the merge when there is
an update. `Or` is `??`, and `Matches` the test that an update is of the poll shown. The
mobile page asks for all polls when its poll is not found, and when there is none it renders
names that it does not declare (`MobilePollView.jsx:307`, `315`): that throws and takes everything off
the screen (`Breaks`). The dashboard
selects, resets, creates, and loads everything again whenever `AppContent` renders
(`Reinitialise`: its effect depends on `navigate`, a new function each time).
GetAnalytics answers with `option_votes` (`models.go:165`), the dashboard reads `optionVotes`, so
`GetAnalytics` leaves the options `Undefined` until an update comes. When it cannot read the
poll it was asked about, it answers about the active one (`admin_controller.go:37`). What
reports a load may be answered with is `Readings`: the document's total may be older than
its options (`VotePath`), never newer. `calm` excludes for voters' pages a load
after the first, and for a dashboard overlapping loads and an answer about another poll than asked.

### Launch

`form` holds the fields of the form on the page, those that are not visible
included. `Complete` is what the browser demands (`required`), `Submit` what the
handler checks, `Payload` what it sends, and `CreatePoll` what the server makes of
it. A minute of the code is an instant; `skew` is how far the browser's clock is
ahead. `due` is the effect on the poll's times that has not run yet: until then
the countdown is that of the poll before. A vote is checked in one step and counted in another.
A creation is sent and handled in one step: nothing changes it on its way. Its
answer may come after the page has been left, and `CreatePoll.jsx` then still
navigates to the new poll.

### Comments

`comments` is the collection, oldest first, and `list` the state of a page, from top to bottom.
A new comment goes on top before it is sent, with an id of its own; a load replaces the list.
Calls are as in `LiveView`. A voter's page asks for comments when it has its poll (`Shows`). A
dashboard moves its selection first (`Select`, `Dashboard.jsx:139-142`), asks for the
analytics, and for the comments only when those have come (`DetailsAnswered`); when they fail,
it goes on showing the comments of the poll before (`DetailsFailed`). After a reset it asks for
both again, for the poll selected when the reset was sent (`Reset`, `ResetAnswered`). `calm`
says of a page that the last list it asked for came with no other call of its own under way
since the first request that led to it, and that no analytics have failed since. `Picked` is
what the loop of GetPollComments and the filters of the pages make of a list: the elements at
some places, in their order. It is `SelectSeq` said with ranks instead of recursion, so that it
can be reasoned about.

### SignIn

One record per API call, as above. `to` says whether the form that made the call is still
mounted: otherwise only the session is changed by its answer. `busy` holds the flags of the
buttons. Codes are numbered as they are made; `AtHand` is what a person may type: the code in
the box and the code last mailed. `haste` counts what a person does without waiting for an
answer; three properties are about those who wait, as the code has no protection for the others
(see the further configurations). Administrators are chosen in the initial state. A restart
without a database forgets the accounts, while tokens stay good. `UniqueEmails` says whether
the storage refuses a second account of an email. In memory it does; in Mongo nothing but the
unique index does, and the error of creating that index is dropped (`mongo.go:107-110`,
`136-142`): the run and two theorems assume that it was created. With `UniqueEmails = FALSE`,
`OneAccount` fails. Of an administrator's login the email and password that are written into
the code, and the SeedAdminUser that makes or promotes their account
(`auth_controller.go:146-155`), are left out: every administrator has the seeded account. An
answer may be lost after the server has done its work (`Lose`): the call has then failed for
the form, and nobody was told of the code.

### Snake

A tick with the rendering after it is one step, keys come between ticks.
The two games share rules and record, and differ in when they can be started,
what stops them and when they are drawn; `game` says which it is. `drawn` is the
canvas. `GenerateFood` chooses any free cell, or hangs when there is none, as the
loop without an exit does.

## The runs

Every passing run is exhaustive. Each property of a run has a mutant in
`PROJECT.json`: a plausible bug in one definition under which the property fails.

| Run | Instance | Shows |
|---|---|---|
| `vote_memory` | both fallbacks in memory, three requests, resets, toggles, reports that write to shared options | types; refinement of `Election` |
| `vote_redis` | Redis and Mongo, four requests, toggles, failing Redis commands, crashes, reports | one ballot per voter; ledger within the tally; a report shows one tally, or nothing uncounted when the counters could not be read; acknowledged ballots are kept |
| `vote_reset` | Redis and Mongo, two requests of one voter, resets, toggles, failing Mongo commands | 409 is true; liveness: an accepted voter is counted |
| `hub_memory` | in memory, two viewers, one vote | no panic; served or closed; one subscription, none left over |
| `hub_redis` | Redis, one viewer, two votes | liveness: votes are shown to who stays; leavers are released |
| `limiter` | seven attempts, two addresses, limit 2, window 2, seven instants | fewer than twice the limit in a window's length; refusals have a cause |
| `polls` | either storage, three polls, two toggles, faults, retries, resets | types; in memory the active poll is the newest; the newest poll stays open |
| `live_view` | three pages, two polls, one option, one vote, buffers of one, one call at a time, any tally announced or read | one connection; a settled page shows what it was last told, and one poll; liveness: the connection comes back |
| `launch` | both forms, three texts, two polls, three instants, a clock that is right or ahead | windows are as filled in; the server's answers are true; liveness: the countdown comes right |
| `comments` | one page of each kind, two polls, two texts, two calls at a time, analytics that may fail | own comments are there once; nothing of another poll or deleted on a page loaded undisturbed |
| `sign_in` | one browser, one email, another device, a restart, two calls at a time | who waits is shown as who is signed in; codes filled in work; one account; liveness: no button waits for ever |
| `snake` | both games on nine cells | the snake is whole; the neck is safe; the record is kept |

### What the code does not keep

Further configurations check one property each that the program lacks and that a
message, a comment or a document suggests. TLC finds each violated;
the property's comment in the module says how.

| Configuration | Property | What happens |
|---|---|---|
| `BadResetRace` | `OneBallotPerVoter` | a reset between SADD and HINCRBY: the voter votes twice |
| `BadLockout` | `ConflictMeansVoted` | RecordVote fails after SADD: the retry is told "already voted" |
| `BadClosed` | `ClosedPollCountsNothing` | is_active and the times are checked on the poll as first read; a vote is counted after its poll was closed |
| `BadDiscard` | `DiscardedVotesStayDiscarded` | a handler overtaken by a reset writes its old tally back into the document |
| `BadReceipt` | `AcknowledgedBallotsAreKept` | the ledger insertion fails, its error is dropped, and the voter gets a receipt |
| `BadReport` | `ReportsShowTheTally` | in memory the report's options are the stored ones: a vote written while the report is made shows up in its options and not in its total |
| `BadVerified` | `LedgerIsCounted` | the reset keeps the ledger: receipts of discarded ballots verify as counted |
| `BadTally` | `SettledTallyIsCurrent` | an announcement read before a vote is broadcast after it, and screens settle on the old tally |
| `BadSliding` | `SlidingWindow` | two fixed windows meet: more than the limit passes in a window's length |
| `BadTwoActive` | `AtMostOneActive` | two creations overlap, and both polls stay open |
| `BadResetClosed` | `ResetSparesClosedPolls` | no poll is open, the newest closed one is "the active poll" (so `CurrentIsActive` fails too), and a reset empties it |
| `BadToggles` | `TogglesAlternate` | two toggles read the same status in Mongo, and both close the poll |
| `BadOptions` | `OptionsAreAsTold` | a reset was missed: the greeting does not list the options without votes, and the page keeps their old numbers (`hub.go:75` promises the current tally) |
| `BadRefetch` | `TotalIsAsTold` | a load answered late replaces what newer updates have shown |
| `BadChoice` | `ChoiceIsShown` | the option marked was selected in a poll shown before; its name also fits the new one |
| `BadLive` | `LaunchedIsLive` | the dashboard's form keeps the end of the poll before, and a poll "is now live" that is over; `ButtonIsTrue` fails with the same constants: the poll pages never look at is_active, so a closed poll's ballot stays open until the server refuses |
| `BadLoads` | `ListIsAlwaysTrue` | analytics fail and the dashboard shows the comments of the poll selected before; two loads are answered out of order; a deleted comment comes back with a list read before |
| `BadPhantom` | `ShownIsStored` | a comment that was refused stays on its author's page; reactions are never sent |
| `BadStaleUser` | `ShownIsAlwaysSignedIn` | the answer of a fetch made before a logout shows the user again; `NobodyIsMoved` fails with the same constants, as the timer of a form that was left takes the person to another page |

The same modules show more with other constants: `NeverHangs` fails in `Snake` on a full board;
with `MixedCase = TRUE` or `StoreFails = TRUE`, `PromptedCodeWorks` fails in `SignIn`
(VerifyEmail does not put the email in small letters; errors of storing a code are dropped);
`OwnStays` fails in `Comments` without `calm`; `SelectedIsShown` fails in `LiveView` when the
analytics of two polls overlap, fail, or are about the active poll because the selected one
could not be read, `SelectedIsReset` because "Reset Votes" resets the active poll while another
one is selected, and `MobileTellsTheTime` in `Launch` once a poll lasts a day, as the mobile
header leaves the days out; `SettledViewersAreCurrent` fails in `Hub`, as announcements
overtake each other.

`VoteAnswered.cfg` passes: with failing commands of both stores, resets and crashes,
every accepted request is answered (`AcceptedIsAnswered`).

### Bounds

* VotePath: two to four requests. Two of one voter for different options; where there
  are more, one of another voter, and, with Redis, one for an option that does not exist. Every hazard
  involves at most two requests of one voter and one bystander; resets, toggles,
  faults, reports and crashes are unbounded in number. The theorems cover any number of
  requests.
* Hub: one or two connections and votes; channels of capacity one or two, so that full
  channels happen (256 and 100 in the code). Each connection opens once; a
  reconnection is another connection. In `hub_redis` the subscriber's channel has room
  for all votes: with more votes in flight than it holds, they may be dropped.
* RateLimiter: limit 2 (5 in the code), window of 2 ticks, time up to 6: two full
  windows of one address and an attempt after them.
* PollLifecycle: three polls, two toggles.
* LiveView: a page does one or two things before it is left, and has one call under way at a time besides
  updates; that is enough to race a call with any update, loss, or change of
  poll. Pages are visited one after the other without end. One vote per option, so the numbers
  0, 1 and missing are told apart.
* Launch: two edits of options and two of times per form, three instants, polls of one
  instant or with any end, and a second poll after the first so that a form or a
  countdown can keep something. The day has two instants.
* Comments: two texts and two calls at a time of one page, others being unbounded
  within the texts; three texts have been checked too.
* SignIn: two calls at a time, two codes (an old one and a new one), one action without waiting,
  one restart.
* Snake: a board of nine cells, which a game of either kind can fill; another tab stores one
  record, which beats the first and is beaten by this tab.

Deadlock is checked in VotePath's passing runs, which a toggle, a reset or a crash keeps going,
and in the client's, where a person can always do something. It is not checked in the others,
in which a finite number of clients, attempts or polls is used up and the system rightly stops.

### Fairness

* VotePath: weak fairness of each request once it has begun. A goroutine goes on,
  and Redis and Mongo answer or fail within the client's timeouts. No fairness of
  clients, administrators, faults or crashes.
* Hub: weak fairness of goroutines; strong fairness of registration and
  unregistration and of the relay's blocking send, since Go's `select` picks
  among ready cases at random, and blocked senders are queued in order. Nobody has to
  connect, leave or vote.
* LiveView: weak fairness of the hook's handlers and timers, which the browser's event
  loop runs, and strong fairness of connections that open: a server that refuses each
  attempt for ever is not followed. Connections may still be lost again and again.
* Launch: weak fairness of the countdown's effect and interval.
* SignIn: weak fairness of each call: it is handled or fails, and its answer is
  applied. Nobody has to press anything. `WaitingEnds` excepts a person who loads the
  page again for ever.

## The proofs

`VotePathProofs` proves, for any sets of requests, voters and options:

| Theorem | States | Assumes |
|---|---|---|
| `TypeCorrect` | `[]TypeOK` | nothing |
| `OneBallotHolds` | `[]OneBallotPerVoter` | `ClaimsLast` |
| `ElectionImplemented` | `ImplementsElection` | `ClaimsLast` |
| `NobodyLockedOut` | `[]NoVoterLockedOut` | `ClaimsLead` |
| `ConflictIsTrue` | `ConflictMeansVoted` | `ClaimsLead` |
| `LedgerHolds` | `[]LedgerIsCounted` | `CountersKept` |
| `ReportsHold` | `[]ReportsShowTheTally` | `CountersKept`, Mongo |
| `SnapshotsLinear` | `[]SnapshotsAreLinear` | `CountersKept` |
| `AcknowledgedHold` | `[]AcknowledgedBallotsAreKept` | `CountersKept`, no failing Mongo command |

The assumptions name the configurations in which the code keeps its promise, and
each is needed: the violating configurations are what happens without it.

* `ClaimsLast`: the in-memory manager, or no reset. Without it: `BadResetRace`.
* `ClaimsLead`: no failing Redis command, and no crash with Redis (one may come between
  SADD and HINCRBY). Without it: `BadLockout`.
* `CountersKept`: no reset, and Redis if there are crashes. Without it:
  `BadVerified`, `BadDiscard`. `ReportsHold` also needs Mongo: `BadReport`.

The arguments. *One ballot*: the inductive invariant `BallotsClaimed` says that a request
that has passed its claim, counted or about to be, has its voter in the voters set, that
no two such requests share a voter, and that a counted request is past
counting. OneBallotPerVoter alone is not inductive: a request at `count` could add
a second ballot. *Refinement*: with the same invariant a step that changes the
counters casts a ballot of a voter without one, or empties the box, and all others
stutter. *Lockout*: `NoVoterLockedOut` is inductive given the types; the conflict
property adds that a request answered 409 was itself never counted. *Snapshots*: the
invariant `SnapshotsAreOld` says that everything read or written (updates, bases,
document, feed, pending report) is an earlier state of the counters and that requests
past HINCRBY are counted; then merging the counters over any old document gives
the counters. *Reports*: `ReportIsWhole` says that a report that
has read the counters holds no option with a vote they lack, as it read the document
first; laid over it, they are all it shows.

`SignInProofs` proves of the limiter, for any finite set of attempts (`AttemptsAssumption`), any
assignment of addresses, any positive limit and any window:

| Theorem | States |
|---|---|
| `LimiterTypeCorrect` | `[]LimiterTypeOK` |
| `NeverTwiceTheLimit` | `[]LessThanTwiceTheLimit` |
| `RefusalsJustified` | `[]RefusedOnlyWhenFull` |
| `WaitingSuffices` | `[]WaitingHelps` |

None of the last three is inductive. They rest on two invariants. `Windows`: the record of an address
holds attempts let through since its window began, among them the one that began
it, never more than the limit, and none only if none was ever let through. That
is what a refusal finds, so both properties of refusals follow from it.
`Stretches` looks at a stretch [t, t + Window], for every t, from the window
that is current. If that window began before t, the stretch misses the attempt that
began it and so sees fewer than the limit. If it began within the stretch, what came
earlier is at most one such remainder, again fewer than the limit, and the window adds
at most the limit. If it began later the stretch is closed. A stretch cannot meet
three windows because a window that began in it ends no earlier than it does; this is
where `Expired` must be strict (the mutant `ExpiredEarly`). The assumptions on
`Limit` and `Window` are those the constructor's arguments satisfy.

`SnakeProofs` proves, for a board of any side, either game, any first snake that is whole and
any gain (`BoardAssumption`, `ScoreAssumption`):

| Theorem | States | Assumes |
|---|---|---|
| `TypeCorrect` | `[]TypeOK` | nothing |
| `WholeHolds` | `[]SnakeIsWhole` | nothing |
| `NeckHolds` | `[]NeckIsSafe` | nothing |
| `BestHolds` | `[]BestIsKept` | nothing |
| `PictureHolds` | `[](PictureFollows /\ PictureAtRest)` | nothing |

The invariant `GameInv` adds `Course` to the types and `SnakeIsWhole`: while a game is on, the neck lies
behind the head as seen along `direction`, the course of the last tick. Turns are
compared with that course, so `nextDirection` never points back: this is what the
mutant `MayTurnFromNext` loses. `SnakeIsWhole` is proved for moves and meals by lemmas
on the snake as a sequence (taking the tail off and putting a head on keep it whole).
`PictureHolds` states what `drawn` is between two ticks.

`PollLifecycleProofs` proves, for any polls, toggles and events and either storage
(`NoPollAssumption`):

| Theorem | States |
|---|---|
| `TypeCorrect` | `[]TypeOK`: what is open, has votes or is being reset is in the collection |
| `NewestIsOpenHolds` | `[]NewestIsOpen` |
| `CurrentIsNewestHolds` | `[]CurrentIsNewest` |

`TypeOK` needs `TogglesName` (a toggle under way names a poll of the collection) and
that `GetActivePoll` finds a newest poll at all, which is well-foundedness of the
numbers (`NewestExists`). `NewestIsOpen` says nothing of creations under way and is not
inductive: `ClosedForNewer` follows a poll that is closed to the creation that closed
it, which is not dated yet, or dated later, or failed. When none is under way or failed, that
creation is of a newer poll, so the closed one was not the newest. `Dated` says that
dates are different, so there is one newest poll, and `NewestOpens` that in memory it is
open if any is.

`HubProofs` proves, for any finite sets of viewers and votes (`FiniteAssumption`: a run of
the server sees finitely many), any capacities and either manager (`NoneAssumption`):

| Theorem | States |
|---|---|
| `PanicNever` | `[]NeverPanics` |
| `UpIsServed` | `[]UpMeansServed` |
| `SubscribedOnce` | `[]OneSubscription` |
| `TypeCorrect` | `[]TypeOK` |

`Served` ties a viewer's channel to its registration through all five states of its
connection, the unregistered and the leaving ones too, and says that the viewer being
greeted is registered: the run loop does nothing else meanwhile. A panic would need a
registered viewer with a closed channel. `EntryInv` says that the entry has the one
subscription that runs, and that somebody who came is still to be unregistered while there
is an entry; that is why dropping slow viewers, which leaves an empty entry, leaks nothing.
`TypeOK` bounds every version by the number of votes and every channel by its capacity.
The first needs that the tally is the number of votes counted (`VoteTypes`), the second
that whoever blocks on a channel has found room and whoever does not gives up
(`ChannelTypes`).

`LiveViewProofs` proves, for any polls, options, votes, buffers and calls
(`SocketAssumption`, `ViewAssumption`):

| Theorem | States |
|---|---|
| `SocketIsOne` | `[]OneSocket` |
| `TypeCorrect` | `[]TypeOK` |
| `ShowsOnePollHolds` | `[]ShowsOnePoll` |
| `SettledIsAsToldHolds` | `[]SettledIsAsTold` |

`OneHold` names the three cases of the connection (nothing watched; one connection, which is
the effect's own; one timeout that is due) and has a lemma for each operation of the
hook; the page's other steps leave the hook alone. `TypeInv` has a part for the server,
the hook, the page and the calls. Neither property of what is shown is inductive:

* `ShowsOnePoll` speaks of a dashboard at rest. `OneByOne` says what is under way when it
  is not: a dashboard that has loaded one poll after the other, and was answered about those,
  has one call, which is of the poll selected, and shows that poll or is waiting for its analytics.
* `SettledIsAsTold` speaks of a connection with nothing in its buffer. `ShowsLast` follows the
  last message given to an open connection to wherever it is: in the buffer, taken from it and not
  rendered, or on the page. A lost connection begins again with a greeting, so nothing of
  the old one is needed. `AskedOnce` excludes the load that is answered after an update
  (`BadRefetch` is what happens without). Only options that are listed are spoken of
  (`BadOptions` is about the others).

That totals are sums of numbers within their bounds would be an induction over the options; it is
proved from a least counterexample instead, for which the library has `WFMin`.

`LaunchProofs` proves, for any texts, durations, clocks and numbers of polls
(`LaunchAssumption`; a form has room for the options it begins with, two and three):

| Theorem | States |
|---|---|
| `TypeCorrect` | `[]TypeOK` |
| `AnswersAreTrueHolds` | `[]AnswersAreTrue` |
| `PollIsAsFilledInHolds` | `PollIsAsFilledIn` |

`TypeInv` adds to the types which page is shown with what: a form only on its page, a
countdown and a vote only of a poll there is. `AnswerInv` says that the instants seen since
a vote was sent include this one, and one at which the poll took votes once the vote is
checked, whatever closes the poll before it is counted. `BegunInv` says that a countdown which shows an
open ballot, its effect having run, is of a poll that has begun by the browser's clock; that
is why a vote sent from it is refused as early only when that clock is ahead.
`PollIsAsFilledIn` is an action property: a poll is added only by `Submit`, and the proof
follows `Complete`, `Payload` and `CreatePoll` from the fields to the window.

`CommentsProofs` proves, for any pages, polls, numbers of texts and of calls at a time
(`PagesAssumption`):

| Theorem | States |
|---|---|
| `TypeCorrect` | `[]TypeOK` |
| `OwnIsShownHolds` | `[]OwnIsShown` |
| `ListIsTrueHolds` | `[]ListIsTrue` |
| `RemovedStaysGone` | `[]RemovedIsGone` |

The two properties of the run speak of a page without calls, so they say nothing of how it came
to be so. The inductive invariant `IInv`, which TLC has checked too on one page of each kind, has
five parts besides the types. These require that what is posted or deleted is a text, without
which a post could store a 0.

* `StoreOk`: what is stored or waits to be is there once, and nothing does both.
* `CallsOk`: a list that was read has no text that waits. A dashboard posts nothing; what it
  deletes does not wait, and is not stored once the server has answered so. That is why what
  was deleted cannot come back.
* `ListsOk`: what was removed from a page is neither stored nor waits; a dashboard's list has
  nothing that waits, so that `CallsOk` holds of the next deletion.
* `CalmOk`: a page with no load under way since its last undisturbed one, and no analytics that
  a load will follow, shows its *claims*, the texts of its own for its poll that are stored or
  wait. Storing moves a text from one half of the claims to the other, which `OwnIsShown`,
  knowing only the stored, cannot say.
* `AloneOk`: a call that is a load, or that will lead to one (analytics, a reset), and was
  alone all the time is the only call of its page and for the poll shown or selected, so the
  list that comes at last is for that poll too; once read, it has the claims and nothing
  removed. `BadLoads` is what happens to the others, and to a dashboard whose analytics fail.

`Forward` says what every step has in common (texts that wait or are stored were there before or are
new), and `From` what becomes of the calls, so that each action shows only what it does itself. The
lemmas on lists say which elements and texts appending, putting on top, removing and picking leave.
That picking takes each place once and in order is a count of places, proved from the library's
theorems on cardinalities, with no induction.

`SignInProofs` proves of the rest, for any browsers, emails, calls at a time, codes and restarts
(`SignInAssumption`):

| Theorem | States | Assumes |
|---|---|---|
| `TypeCorrect` | `[]TypeOK` | nothing |
| `OneAccountHolds` | `[]OneAccount` | `UniqueEmails` |
| `ShownIsSignedInHolds` | `[]ShownIsSignedIn` | nothing |
| `PromptedCodeHolds` | `[]PromptedCodeWorks` | `~MixedCase`, `~StoreFails`, `UniqueEmails` |

Given the types and `UniqueEmails`, `OneAccount` is inductive. The other two speak of a browser
whose answers have come, and their invariants say what is under way. `SessionInv`: whoever
waits has one call at most; `fetchUser` is for the token stored, its answer names that token's
account or fails (and then both are forgotten), and with any other call user and token agree.
`PromptInv`: a code on its way, or in the box, is the code of the account it was made for,
unless somebody else has had one made or the answer was lost, and a call that will make one
goes back to the form that has its email. The first two assumptions are needed: with either
turned round TLC finds `PromptedCodeWorks` violated, and `OneAccount` without the third.

Only model-checked:

* liveness (`AcceptedVoterIsCounted`, `AcceptedIsAnswered`, `ComesBack`,
  `CountdownComesRight`, `WaitingEnds` and those of the hub): proof of liveness under fairness is
  out of the prover's reach here.

Every invariant and every action property of the runs is proved. Four theorems (`NobodyLockedOut`,
`SnapshotsLinear`, `WaitingSuffices`, `RemovedStaysGone`), the types of the limiter and the pictures are
proved and not among the runs.

## Plan

1. *Done:* `VotePath` with `Election` and proofs, `RateLimiter` and proofs, `Hub`,
   `PollLifecycle`.
2. *Done:* the client: `LiveView` over `PollSocket`, `Launch`, `Comments`, `SignIn` with the
   accounts, `Snake`.
3. *Done:* proofs of every safety property the runs check.
4. `Identity`: the forms of a voter's identity in each handler, and blind masking.
5. The audit log, if its handlers show more than single inserts.

## Not modelled, and why

JWT parsing and role checks are library calls on one request. CORS, configuration
and routes hold no state. Mail providers' wire formats, CSV and PDF layout, charts and
the home pages are input and output; `VoterHistory` shows the answer of one request,
and `ReceiptVerification` is imported nowhere. The dashboard's filters are functions of what it
has loaded. The identities of anonymous voters and blind masking differ from handler to handler
without any order of steps mattering. Codes carry no time although mails and messages speak
of expired ones, so time is no part of `SignIn`. Start-up's choice between a store and
its fallback is the constants `Realtime` and `Store` of `VotePath` and the variable
`store` of `PollLifecycle`, chosen in the initial state.
