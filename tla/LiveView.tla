------------------------------ MODULE LiveView ------------------------------
(***************************************************************************)
(* One visitor's page with live results: PollView.jsx, MobilePollView.jsx  *)
(* and Dashboard.jsx, each over the hook of module PollSocket.             *)
(*                                                                         *)
(* Every api call is sent, handled and answered in three steps, in any     *)
(* order with other calls, with messages and with renderings; its answer   *)
(* is applied by the code after the await, with the closure of the         *)
(* rendering that sent it.  Comments, reactions, countdowns, exports and   *)
(* what only changes the layout are left out.                              *)
(***************************************************************************)
EXTENDS PollSocket

CONSTANTS
    Kinds,      \* the pages visited, of {"desktop", "mobile", "dashboard"}
    Addresses,  \* what follows "#poll-": polls, or None for "#poll"
    MaxCalls,   \* bound of the model: calls of the page at a time
    MaxSteps    \* bound of the model: what a person does on a page of a kind before leaving it

ASSUME ViewAssumption ==
    /\ Kinds \subseteq {"desktop", "mobile", "dashboard"}
    /\ Addresses \subseteq Polls \cup {None} /\ MaxCalls \in Nat \ {0}
    /\ MaxSteps \in [Kinds -> Nat]

VARIABLES
    kind,      \* the page; "none" when there is none
    addr,      \* pollId, from the address; selectedPollId of the dashboard
    poll,      \* the state "poll", or "analytics" of the dashboard
    loading,   \* of a voter's page; nothing shows the dashboard's
    view,      \* whether a voter's page shows the ballot or the results
    choice,    \* the poll that was shown when an option was selected
    hasVoted,
    voting,
    calls,     \* the api calls under way
    steps,     \* what the person has done on the page; for the bound only
    calm       \* for properties only.  A voter's page has asked for the poll once; on
               \* the dashboard no call has failed, met another one, or been answered
               \* about another poll

pageVars == <<addr, poll, loading, view, choice, hasVoted, voting>>
ghosts == <<steps, calm>>
viewVars == <<kind, pageVars, calls, ghosts>>
vars == <<serverVars, hookVars, viewVars>>

\* What a page shows: the name of a poll, and of whom the numbers are.
Showing(id, counts, total) == [id |-> id, of |-> id, counts |-> counts, total |-> total]
Nothing == Showing(None, Zero, 0)

\* The mobile page has tabs for the chat and the games too, which hide the ballot like
\* the results.
Views == {"vote", "results"}

Undefined == [o \in Options |-> Absent]

\* activePollId, and what the dashboard gives the hook.
ActiveId ==
    CASE kind = "none" -> None
      [] kind = "dashboard" -> addr
      [] OTHER -> IF poll = Nothing THEN addr ELSE poll.id

NoReply == [ok |-> FALSE, showing |-> Nothing, has |-> FALSE]

Slots == {n \in 1 .. MaxCalls : \A c \in calls : c.n # n}
Slot == CHOOSE n \in Slots : \A m \in Slots : n <= m

\* "of" is the poll of the closure, "first" is a call that ends "Loading", and "gone" one
\* whose page has been left.
Call(n, what, of, first) ==
    [n |-> n, what |-> what, of |-> of, first |-> first, gone |-> FALSE, phase |-> "sent",
     reply |-> NoReply]

\* A call is sent, when "others" are under way.
Send(others, c) ==
    /\ calls' = others \cup {c}
    /\ calm' = (calm /\ CASE kind = "none" -> TRUE
                           [] kind = "dashboard" -> others = {}
                           [] OTHER -> c.what # "poll")

Ask(what, of, first) == Slots # {} /\ Send(calls, Call(Slot, what, of, first))

\* The person does one thing more.
GoOn == steps < MaxSteps[kind] /\ steps' = steps + 1

Init ==
    /\ SocketInit
    /\ kind = "none" /\ addr = None /\ poll = Nothing
    /\ loading = FALSE /\ view = "vote" /\ choice = None /\ hasVoted = FALSE /\ voting = FALSE
    /\ calls = {} /\ steps = 0 /\ calm = TRUE

-----------------------------------------------------------------------------
(* The page *)

\* A page is opened, by the address or by a change of layout: its state is new and its
\* effects run.  The bar of the mobile layout may have chosen its tab.
Enter(k, a) ==
    /\ kind = "none" /\ kind' = k
    /\ addr' = IF k = "dashboard" THEN None ELSE a
    /\ loading' = (k # "dashboard")
    /\ view' \in IF k = "mobile" THEN Views ELSE {"vote"}
    /\ steps' = (IF view' = "vote" THEN 0 ELSE 1) /\ steps' <= MaxSteps[k]
    /\ IF k = "dashboard" THEN Ask("polls", None, FALSE) ELSE Ask("poll", a, TRUE)
    /\ UNCHANGED <<poll, choice, hasVoted, voting, serverVars, hookVars>>

\* The page is left: the cleanup runs.  The server still handles what was asked of it.
Leave ==
    /\ kind # "none" /\ kind' = "none"
    /\ addr' = None /\ poll' = Nothing /\ loading' = FALSE /\ view' = "vote"
    /\ choice' = None /\ hasVoted' = FALSE /\ voting' = FALSE
    /\ calls' = {[c EXCEPT !.gone = TRUE] :
                  c \in {d \in calls : d.what \in {"vote", "reset", "create"} /\ d.phase = "sent"}}
    /\ steps' = 0 /\ calm' = TRUE
    /\ Watch(None) /\ liveUpdate' = NoMessage /\ fresh' = FALSE
    /\ UNCHANGED serverVars

\* Another address of the same page: the state stays, and the poll is asked for.
Readdress(a) ==
    /\ kind \in {"desktop", "mobile"} /\ a # addr
    /\ addr' = a /\ loading' = TRUE
    /\ GoOn /\ Ask("poll", a, TRUE)
    /\ UNCHANGED <<kind, poll, view, choice, hasVoted, voting, serverVars, hookVars>>

\* Mutant of Matches: whatever the poll.
MatchesAlways(m) == poll # Nothing /\ m # NoMessage

\* The condition of the effect on liveUpdate.
Matches(m) == poll # Nothing /\ m # NoMessage /\ m.poll = (IF kind = "dashboard" THEN addr ELSE poll.id)

\* Mutant of Or: "||", for which 0 is nothing.
OrTruthy(new, old) == IF new \in {Absent, 0} THEN old ELSE new

\* "??".
Or(new, old) == IF new = Absent THEN old ELSE new

\* setPoll of the effect; the dashboard takes option_votes as a whole.
Updated(m) ==
    [poll EXCEPT !.of = m.poll, !.total = Or(m.total, @),
        !.counts = IF kind = "dashboard" THEN m.counts
                   ELSE [o \in Options |-> Or(m.counts[o], @[o])]]

\* A rendering with a message or a poll that its effects have not seen.  Only the
\* dashboard looks at a message again.
Render ==
    /\ kind # "none" /\ (fresh \/ ActiveId # watched)
    /\ IF ActiveId # watched THEN Watch(ActiveId) ELSE UNCHANGED <<watched, sockets, ref, timers>>
    /\ poll' = IF fresh /\ Matches(liveUpdate) THEN Updated(liveUpdate) ELSE poll
    /\ fresh' = FALSE
    /\ liveUpdate' = IF kind = "dashboard" THEN liveUpdate ELSE NoMessage
    /\ UNCHANGED <<serverVars, kind, addr, loading, view, choice, hasVoted,
                   voting, calls, ghosts>>

\* The page of a voter who is not told to wait, or that there is no poll.
ShowsPoll == kind \in {"desktop", "mobile"} /\ ~loading /\ poll # Nothing

\* The buttons and tabs above the poll.
SwitchView(v) ==
    /\ ShowsPoll /\ v # view
    /\ view' = v /\ GoOn
    /\ UNCHANGED <<kind, addr, poll, loading, choice, hasVoted, voting, calls, calm,
                   serverVars, hookVars>>

\* The ballot is on the page; the mobile one is closed to somebody who has voted.
Ballot == ShowsPoll /\ view = "vote" /\ (kind = "mobile" => ~hasVoted)

\* An option is selected.
Choose ==
    /\ Ballot
    /\ choice' = poll.id /\ GoOn
    /\ UNCHANGED <<kind, addr, poll, loading, view, hasVoted, voting, calls, calm,
                   serverVars, hookVars>>

\* The button is not disabled.  The time in which the poll is open is left out.
MaySubmit == Ballot /\ choice # None /\ ~voting

\* handleVoteSubmit.
SubmitVote ==
    /\ MaySubmit
    /\ voting' = TRUE
    /\ GoOn /\ Ask("vote", poll.id, FALSE)
    /\ UNCHANGED <<kind, addr, poll, loading, view, choice, hasVoted, serverVars, hookVars>>

\* handlePollChange of the dashboard; its effect on liveUpdate runs again.
Select(p) ==
    /\ kind = "dashboard" /\ p \in created /\ p # addr
    /\ addr' = p /\ fresh' = TRUE
    /\ GoOn /\ Ask("analytics", p, FALSE)
    /\ UNCHANGED <<kind, poll, loading, view, choice, hasVoted, voting, serverVars,
                   watched, sockets, ref, timers, liveUpdate>>

\* handleResetVotes.
SubmitReset ==
    /\ kind = "dashboard"
    /\ GoOn /\ Ask("reset", addr, FALSE)
    /\ UNCHANGED <<kind, pageVars, serverVars, hookVars>>

\* AppContent renders, for a layout, a session or its share dialog: "navigate" is a new
\* function, and the effect that depends on it loads everything again.
Reinitialise ==
    /\ kind = "dashboard"
    /\ GoOn /\ Ask("polls", None, FALSE)
    /\ UNCHANGED <<kind, pageVars, serverVars, hookVars>>

\* The form for a new poll, whose button is disabled while one is being created.
CreateForm == kind = "dashboard" /\ \A c \in calls : c.what # "create"

\* handleCreatePoll.
SubmitPoll ==
    /\ CreateForm
    /\ GoOn /\ Ask("create", None, FALSE)
    /\ UNCHANGED <<kind, pageVars, serverVars, hookVars>>

-----------------------------------------------------------------------------
(* The server *)

Reply(c, reply) ==
    calls' = (calls \ {c}) \cup {[c EXCEPT !.phase = "answered", !.reply = reply]}

Ok == [NoReply EXCEPT !.ok = TRUE]

\* What a poll that is read shows: its counters, or the tallies of its document when they
\* cannot be read; in memory a vote may come between those of the options and the total.
Readings(p) ==
    {r \in {Showing(p, t, Total(u)) : t, u \in Counts} : r.total <= Total(r.counts)}

\* GetActivePoll, GetPoll.  Whether the visitor is said to have voted is left open: one who
\* has no session is not recognised, and his vote may have been reset, or of another page.
GetPoll(c) ==
    LET p == IF c.of = None THEN current ELSE c.of
    IN  /\ c.what = "poll" /\ p \in created
        /\ \E r \in Readings(p), has \in BOOLEAN : Reply(c, [Ok EXCEPT !.showing = r, !.has = has])
        /\ UNCHANGED <<serverVars, hookVars>>

\* GetAllPolls, with what the callers take from it: the active poll, or the first one.
GetAllPolls(c) ==
    /\ c.what = "polls"
    /\ \E r \in IF created = {} THEN {Nothing} ELSE UNION {Readings(p) : p \in created} :
        Reply(c, [Ok EXCEPT !.showing = r])
    /\ UNCHANGED <<serverVars, hookVars>>

\* GetAnalytics: when the poll cannot be read it answers about the active one.  The answer has
\* "option_votes", and the dashboard reads "optionVotes".
GetAnalytics(c) ==
    /\ c.what = "analytics"
    /\ \E p \in created \cap {c.of, current} : \E t \in Counts :
        Reply(c, [Ok EXCEPT !.showing = Showing(p, Undefined, Total(t))])
    /\ UNCHANGED <<serverVars, hookVars>>

\* Vote, which may be refused too.  An option of another poll is accepted: their names are
\* the same.
Vote(c) ==
    /\ c.what = "vote" /\ c.of \in created
    /\ Reply(c, Ok) /\ UNCHANGED <<serverVars, hookVars>>

\* ResetActivePoll, whichever poll the administrator looks at.
ResetActivePoll(c) ==
    /\ c.what = "reset" /\ current # None
    /\ Reply(c, Ok) /\ UNCHANGED <<serverVars, hookVars>>

\* CreatePoll.
CreatePoll(c) ==
    /\ c.what = "create"
    /\ \E p \in Polls : NewPoll(p)
    /\ Reply(c, Ok)

\* A call is refused, or fails.
Fail(c) == Reply(c, NoReply) /\ UNCHANGED <<serverVars, hookVars>>

Handle(c) ==
    /\ c.phase = "sent"
    /\ \/ GetPoll(c) \/ GetAllPolls(c) \/ GetAnalytics(c) \/ Vote(c) \/ ResetActivePoll(c)
       \/ CreatePoll(c) \/ Fail(c)
    /\ UNCHANGED <<kind, pageVars, ghosts>>

\* What others do.
Elsewhere == (\E p \in Polls : NewPoll(p) \/ OtherPoll(p) \/ Announce(p)) /\ UNCHANGED viewVars

-----------------------------------------------------------------------------
(* The answers *)

\* finally { setLoading(false) }.
Loaded(c) == loading' = (loading /\ ~c.first)

\* The rest of the page's state stays, and the call is over.
Over(c) == calls' = calls \ {c}

\* fetchActivePoll and fetchPoll have the poll.
PollAnswered(c) ==
    /\ c.what = "poll" /\ c.reply.ok
    /\ poll' = c.reply.showing /\ hasVoted' = c.reply.has /\ Loaded(c)
    /\ view' = IF c.reply.has THEN "results" ELSE view
    /\ Over(c) /\ UNCHANGED <<calm, addr, voting, fresh>>

\* fetchActivePoll has failed: what was shown stays.  fetchPoll asks for all polls.
PollFailed(c) ==
    /\ c.what = "poll" /\ ~c.reply.ok
    /\ IF kind = "desktop" THEN Loaded(c) /\ Over(c)
       ELSE /\ calls' = (calls \ {c}) \cup {Call(c.n, "polls", None, TRUE)}
            /\ UNCHANGED loading
    /\ UNCHANGED <<calm, poll, hasVoted, addr, voting, view, fresh>>

\* The second request of fetchPoll: whether one has voted is left as it was.
FallbackAnswered(c) ==
    /\ c.what = "polls" /\ kind = "mobile" /\ c.reply.showing # Nothing
    /\ poll' = c.reply.showing /\ Loaded(c)
    /\ Over(c) /\ UNCHANGED <<calm, hasVoted, addr, voting, view, fresh>>

\* loadInitialData has the polls, and loads the details of one.
PollsAnswered(c) ==
    /\ c.what = "polls" /\ kind = "dashboard" /\ c.reply.ok
    /\ IF c.reply.showing = Nothing
       THEN Over(c) /\ UNCHANGED <<calm, addr, fresh>>
       ELSE /\ addr' = c.reply.showing.id /\ fresh' = (fresh \/ addr' # addr)
            /\ Send(calls \ {c}, Call(c.n, "analytics", addr', FALSE))
    /\ UNCHANGED <<poll, hasVoted, loading, voting, view>>

PollsFailed(c) ==
    /\ c.what = "polls" /\ kind = "dashboard" /\ ~c.reply.ok
    /\ Over(c) /\ calm' = FALSE
    /\ UNCHANGED <<poll, hasVoted, loading, addr, voting, view, fresh>>

\* loadPollDetails, whichever poll is selected by now.
AnalyticsAnswered(c) ==
    /\ c.what = "analytics"
    /\ poll' = IF c.reply.ok THEN c.reply.showing ELSE poll
    /\ calm' = (calm /\ c.reply.ok /\ c.reply.showing.id = c.of)
    /\ Over(c) /\ UNCHANGED <<hasVoted, loading, addr, voting, view, fresh>>

\* The vote has been counted; the desktop page asks for the poll again.
VoteAnswered(c) ==
    /\ c.what = "vote" /\ c.reply.ok
    /\ hasVoted' = TRUE /\ voting' = FALSE /\ view' = "results"
    /\ IF kind = "desktop" THEN Send(calls \ {c}, Call(c.n, "poll", c.of, FALSE))
                           ELSE Over(c) /\ UNCHANGED calm
    /\ UNCHANGED <<poll, loading, addr, fresh>>

\* The votes have been reset; the details are loaded again.
ResetAnswered(c) ==
    /\ c.what = "reset" /\ c.reply.ok
    /\ Send(calls \ {c}, Call(c.n, "analytics", c.of, FALSE))
    /\ UNCHANGED <<poll, hasVoted, loading, addr, voting, view, fresh>>

\* The poll has been created; everything is loaded again.
CreateAnswered(c) ==
    /\ c.what = "create" /\ c.reply.ok
    /\ Send(calls \ {c}, Call(c.n, "polls", None, FALSE))
    /\ UNCHANGED <<poll, hasVoted, loading, addr, voting, view, fresh>>

\* A vote, a reset or a creation has failed.
ActionFailed(c) ==
    /\ c.what \in {"vote", "reset", "create"} /\ ~c.reply.ok
    /\ voting' = (voting /\ c.what # "vote")
    /\ Over(c) /\ UNCHANGED <<calm, poll, hasVoted, loading, addr, view, fresh>>

Answer(c) ==
    /\ c.phase = "answered" /\ ~c.gone
    /\ \/ PollAnswered(c) \/ PollFailed(c) \/ FallbackAnswered(c) \/ PollsAnswered(c)
       \/ PollsFailed(c) \/ AnalyticsAnswered(c) \/ VoteAnswered(c) \/ ResetAnswered(c)
       \/ CreateAnswered(c) \/ ActionFailed(c)
    /\ UNCHANGED <<kind, choice, steps, serverVars, watched, sockets, ref, timers,
                   liveUpdate>>

\* There is no poll for the mobile page.  What it then renders has names that it does not
\* declare, which throws, and nothing catches it: all is taken off the screen.
Breaks(c) ==
    /\ c.phase = "answered" /\ ~c.gone
    /\ c.what = "polls" /\ kind = "mobile" /\ c.reply.showing = Nothing
    /\ Leave

\* The answer of a call whose page has been left changes nothing.
Forgotten(c) ==
    /\ c.phase = "answered" /\ c.gone
    /\ calls' = calls \ {c}
    /\ UNCHANGED <<kind, pageVars, ghosts, serverVars, hookVars>>

-----------------------------------------------------------------------------

Hook(A(_)) == UNCHANGED <<serverVars, viewVars>> /\ \E s \in sockets : A(s)

Messages == Hook(Receive)
Closes == Hook(Closed)
Opens == Hook(Open)
Loses == Hook(Lose)
Reconnects == UNCHANGED <<serverVars, viewVars>> /\ \E t \in timers : Reconnect(t)

\* The browser calls the handlers of the hook.
HookRuns == Messages \/ Closes \/ Reconnects

Person ==
    \/ \E k \in Kinds, a \in Addresses : Enter(k, a)
    \/ \E a \in Addresses : Readdress(a)
    \/ \E p \in Polls : Select(p)
    \/ \E v \in Views : SwitchView(v)
    \/ Leave \/ Choose \/ SubmitVote \/ SubmitReset \/ SubmitPoll \/ Reinitialise

Next ==
    \/ Person \/ Render \/ HookRuns \/ Opens \/ Loses \/ Elsewhere
    \/ \E c \in calls : Handle(c) \/ Answer(c) \/ Breaks(c) \/ Forgotten(c)

Spec == Init /\ [][Next]_vars

\* The browser's event loop goes on; a connection is not refused for ever.
FairSpec == Spec /\ WF_vars(HookRuns) /\ SF_vars(Opens)

-----------------------------------------------------------------------------
(* Properties *)

\* Types, and the room a viewer has for messages.
TypeOK ==
    /\ created \subseteq Polls /\ current \in created \cup {None}
    /\ kind \in Kinds \cup {"none"} /\ {watched, addr, choice, poll.id, poll.of} \subseteq Polls \cup {None}
    /\ poll.total \in Nat /\ view \in Views
    /\ {loading, hasVoted, voting, fresh, calm} \subseteq BOOLEAN
    /\ \A s \in sockets : /\ s.poll \in Polls /\ s.phase \in {"connecting", "open", "closed"}
                          /\ Len(s.inbox) <= MaxInbox

\* A page keeps exactly one connection, or the timeout that will make it, and it is for
\* the poll that its hook watches; a page that has been left keeps none.  In the code:
\* the cleanup of usePollWebSocket, against a timeout that is still to fire.
OneSocket ==
    /\ Cardinality(sockets) + Cardinality(timers) = IF watched = None THEN 0 ELSE 1
    /\ \A s \in sockets : s.live /\ s.poll = watched /\ s.n = ref
    /\ \A t \in timers : t.live /\ t.poll = watched

\* A voter's page that is connected and has shown every message.
Settled ==
    /\ kind \in {"desktop", "mobile"} /\ poll # Nothing /\ ~fresh
    /\ \E s \in sockets : s.phase = "open" /\ s.inbox = <<>> /\ s.poll = poll.id

\* A settled page of the active poll that has asked for it once shows the last that its
\* connection was told, though older tallies, lost connections and full buffers came before: the
\* total, and the votes of every option that was listed.  In the code: usePollWebSocket, and
\* the effect on liveUpdate.
SettledIsAsTold ==
    Settled /\ addr = None /\ calm => \A s \in sockets :
        /\ poll.total = s.said.total
        /\ \A o \in Options : s.said.counts[o] \in {Absent, poll.counts[o]}

\* The numbers shown are those of the poll whose name is shown: on the voters' pages
\* always, whatever message is late; on the dashboard when it has loaded one poll after
\* the other and been answered about those, and then that poll is the selected one.
ShowsOnePoll ==
    /\ kind \in {"desktop", "mobile"} => poll.of = poll.id
    /\ kind = "dashboard" /\ addr # None /\ calm /\ calls = {} => poll.of = poll.id /\ poll.id = addr

\* A page that keeps to a poll is connected to it again and again, however often the
\* connection has been lost.  In the code: onclose, which starts the timeout that connects
\* again, and the cleanup that stops it for the poll before.
Connected == \E s \in sockets : s.live /\ s.poll = watched /\ s.phase = "open"
ComesBack == []<>(watched = None \/ Connected) \/ []<><<watched' # watched>>_vars

(* What the code does not keep *)

\* BadOptions.cfg: an option that is not listed has no votes, and is shown without votes.
\* The greeting after a reset that was missed does not list it, and the page keeps its old
\* number.
OptionsAreAsTold ==
    Settled /\ addr = None /\ calm => \A s \in sockets :
        \A o \in Options : poll.counts[o] = Or(s.said.counts[o], 0)

\* BadRefetch.cfg: a settled page shows the last total it was told.  The poll that is asked for
\* after a vote, or while the connection is open already, may be answered with an older tally
\* than the last message.
TotalIsAsTold == Settled => \A s \in sockets : poll.total = s.said.total

\* BadChoice.cfg: the option that is marked was selected in the poll that is shown.
ChoiceIsShown == choice # None => choice = poll.id

\* The dashboard shows the poll that is selected, when all is loaded.
SelectedIsShown ==
    kind = "dashboard" /\ calls = {} /\ addr # None /\ poll # Nothing => poll.id = addr

\* With the constants of LiveView.cfg: "Reset Votes" resets the poll that was selected.
SelectedIsReset == [][\A c \in calls : Handle(c) /\ ResetActivePoll(c) => current = c.of]_vars
=============================================================================
