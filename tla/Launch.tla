------------------------------- MODULE Launch -------------------------------
(***************************************************************************)
(* How a poll is launched and when it can be voted in: the two forms that  *)
(* create polls, CreatePoll.jsx and the one in Dashboard.jsx, the time     *)
(* window the server makes of them, and the countdown of PollView.jsx and  *)
(* MobilePollView.jsx, which opens and closes the ballot.                  *)
(*                                                                         *)
(* One browser, whose clock may be wrong, launches polls and votes in      *)
(* them.  An instant is a minute of the code.  The title is left out: the  *)
(* server refuses a bad one as it may refuse anything.  Polls are          *)
(* numbered in the order of their creation.                                *)
(***************************************************************************)
EXTENDS Integers, Sequences, SequencesExt

CONSTANTS
    Texts,      \* what can be typed for an option
    Empty,      \* nothing typed
    Blank,      \* nothing but spaces
    Lower,      \* Lower[t]: the text in lower case
    Durations,  \* the durations that can be picked, in minutes
    Standard,   \* the one a form begins with; 60 in the code
    Room,       \* Room[f]: options a form has room for; 10 and 8 in the code
    Skews,      \* how far the clock of the browser may be ahead
    Day,        \* minutes in a day
    MaxTime,    \* bound of the model: the last instant
    MaxPolls,   \* bound of the model: polls
    MaxEdits    \* bound of the model: edits of the options and of the times of a form

ASSUME LaunchAssumption ==
    /\ {Empty, Blank} \cap Texts = {} /\ Empty # Blank /\ DOMAIN Lower = Texts
    /\ Durations \subseteq Nat \ {0} /\ Standard \in Durations
    /\ Room \in [{"create", "dashboard"} -> Nat] /\ Room["create"] >= 2 /\ Room["dashboard"] >= 3
    /\ Skews \subseteq Int /\ Day \in Nat \ {0} /\ {MaxTime, MaxPolls} \subseteq Nat
    /\ MaxEdits \in [{"options", "times"} -> Nat]

VARIABLES
    now,        \* the clock of the server
    skew,       \* how far that of the browser is ahead; never changes
    polls,      \* the stored polls; their options do not change, and are left out
    place,      \* the page the browser shows
    form,       \* the fields of its form
    shown,      \* its form is shown; that of the dashboard can be closed
    request,    \* the answer to POST /api/polls that is under way
    poll,       \* the poll that the page of a voter shows; 0 for none
    countdown,  \* its state "countdown"
    due,        \* the effect that starts the countdown of that poll is to run
    vote,       \* the vote that is under way
    edits,      \* for the bound only: the edits of the form so far
    moments     \* for properties only: whether the poll took votes, at each moment
                \* since the vote was sent

formVars == <<form, shown, edits>>
voterVars == <<poll, countdown, due>>
serverVars == <<now, polls>>
vars == <<serverVars, skew, place, formVars, request, voterVars, vote, moments>>

Unset == -1
Times == 0 .. MaxTime
Custom == 0
Forms == {"create", "dashboard"}

\* The fields as the components begin.
Fields(n) == [options |-> [i \in 1 .. n |-> Empty], preset |-> Standard, end |-> Unset,
              later |-> FALSE, start |-> Unset]
BlankForm(f) == Fields(IF f = "dashboard" THEN 3 ELSE 2)

NoEdits == [part \in DOMAIN MaxEdits |-> 0]

NoRequest == [phase |-> "none"]
Request(phase) == [phase |-> phase, from |-> place, gone |-> FALSE]
NoVote == [phase |-> "none"]
Countdown(status, left) == [status |-> status, left |-> left]
NoCountdown == Countdown("active", 0)

Init ==
    /\ now = 0 /\ skew \in Skews /\ polls = <<>>
    /\ place = "elsewhere" /\ form = BlankForm("create") /\ shown = FALSE /\ edits = NoEdits
    /\ request = NoRequest
    /\ poll = 0 /\ countdown = NoCountdown /\ due = FALSE
    /\ vote = NoVote /\ moments = {}

-----------------------------------------------------------------------------
(* Going from page to page *)

\* The page that is left forgets its state.
Open(p) ==
    /\ place' = p
    /\ form' = BlankForm(p) /\ shown' = (p = "create") /\ edits' = NoEdits
    /\ poll' = 0 /\ countdown' = NoCountdown /\ due' = FALSE /\ vote' = NoVote

\* What it asked of the server is under way; a vote is not followed any further.
Visit(p) ==
    /\ p # place
    /\ Open(p)
    /\ request' = IF request = NoRequest THEN request ELSE [request EXCEPT !.gone = TRUE]
    /\ UNCHANGED <<serverVars, skew>>

-----------------------------------------------------------------------------
(* The server *)

Tick ==
    /\ now < MaxTime /\ now' = now + 1
    /\ UNCHANGED <<polls, skew, place, formVars, request, voterVars, vote>>

Distinct(options) ==
    \A i, j \in DOMAIN options : Lower[options[i]] = Lower[options[j]] => i = j

\* CreatePoll looks at the options again.
Acceptable(options) == Len(options) >= 2 /\ Distinct(options)

\* CreatePoll; in SetActivePoll the other polls are closed.
CreatePoll(asked) ==
    LET start == IF asked.start = Unset THEN now ELSE asked.start
        end   == IF asked.end = Unset THEN start + asked.minutes ELSE asked.end
    IN  /\ Acceptable(asked.options)
        /\ polls' = Append([p \in DOMAIN polls |-> [polls[p] EXCEPT !.is_active = FALSE]],
                           [start |-> start, end |-> end, is_active |-> TRUE])

\* TogglePoll, of any administrator.
TogglePoll(p) ==
    /\ polls' = [polls EXCEPT ![p].is_active = ~@]
    /\ UNCHANGED <<now, skew, place, formVars, request, voterVars, vote>>

\* The checks of Vote, in their order.
Checked(p) ==
    IF ~p.is_active THEN "closed"
    ELSE IF now < p.start THEN "early"
    ELSE IF now > p.end THEN "late"
    ELSE "checked"

CheckVote ==
    /\ vote.phase = "sent"
    /\ vote' = [vote EXCEPT !.phase = Checked(polls[vote.poll])]
    /\ UNCHANGED <<serverVars, skew, place, formVars, request, voterVars>>

\* RecordVote, later.  Whether the voter has voted before is the matter of VotePath.
CountVote ==
    /\ vote.phase = "checked"
    /\ vote' = [vote EXCEPT !.phase = "counted"]
    /\ UNCHANGED <<serverVars, skew, place, formVars, request, voterVars>>

-----------------------------------------------------------------------------
(* The forms *)

\* For the bound, no form is filled in when there are as many polls as there may be.
Edit(part, fields) ==
    /\ shown /\ Len(polls) < MaxPolls
    /\ edits[part] < MaxEdits[part] /\ edits' = [edits EXCEPT ![part] = @ + 1]
    /\ form' = fields
    /\ UNCHANGED <<serverVars, skew, place, shown, request, voterVars, vote>>

\* handleOptionChange.
ChangeOption(i, t) == t # form.options[i] /\ Edit("options", [form EXCEPT !.options[i] = t])

AddOption ==
    /\ place \in Forms /\ Len(form.options) < Room[place]
    /\ Edit("options", [form EXCEPT !.options = Append(@, Empty)])

\* Mutant of RemoveOption: the last two are not kept.
RemoveAny(i) ==
    /\ place = "create"
    /\ Edit("options", [form EXCEPT !.options = RemoveAt(@, i)])

\* Only one of the forms can remove an option.
RemoveOption(i) ==
    /\ place = "create" /\ Len(form.options) > 2
    /\ Edit("options", [form EXCEPT !.options = RemoveAt(@, i)])

PickDuration(d) == d # form.preset /\ Edit("times", [form EXCEPT !.preset = d])

\* The field is there for a custom end only, and keeps what it holds when it is not.
ChangeEnd(t) ==
    /\ form.preset = Custom /\ t # form.end
    /\ Edit("times", [form EXCEPT !.end = t])

\* Only one of the forms can schedule the start.
PickStart(later) == place = "create" /\ later # form.later /\ Edit("times", [form EXCEPT !.later = later])

ChangeStart(t) ==
    /\ form.later /\ t # form.start
    /\ Edit("times", [form EXCEPT !.start = t])

\* The button of the dashboard that shows the form and closes it.
ToggleForm ==
    /\ place = "dashboard"
    /\ shown' = ~shown
    /\ UNCHANGED <<serverVars, skew, place, form, edits, request, voterVars, vote>>

\* The browser finds nothing missing: the dashboard requires the first two options only.
Complete ==
    /\ \A i \in DOMAIN form.options : (place = "create" \/ i <= 2) => form.options[i] # Empty
    /\ form.preset = Custom => form.end # Unset
    /\ form.later => form.start # Unset

Clean(options) == SelectSeq(options, LAMBDA t : t \in Texts)

\* Mutant of Payload: fields that are not on the page are sent.
PayloadWhole(f) ==
    [options |-> Clean(f.options), start |-> f.start, end |-> f.end,
     minutes |-> IF f.preset = Custom THEN Standard ELSE f.preset]

\* What is sent: parseInt makes no number of "custom".
Payload(f) ==
    [options |-> Clean(f.options),
     start |-> IF f.later THEN f.start ELSE Unset,
     end |-> IF f.preset = Custom THEN f.end ELSE Unset,
     minutes |-> IF f.preset = Custom THEN Standard ELSE f.preset]

\* handleSubmit, handleCreatePoll: the button is disabled while the request is under way.
\* The server has it at once: nothing changes a request on its way.  Its answer takes
\* longer, and may be lost.  For the bound, one request at a time.
Submit ==
    /\ shown /\ Len(polls) < MaxPolls /\ request = NoRequest /\ Complete
    /\ Len(Clean(form.options)) >= 2
    /\ place = "create" => Distinct(Clean(form.options))
    /\ \/ CreatePoll(Payload(form)) /\ request' \in {Request("created"), Request("refused")}
       \/ UNCHANGED polls /\ request' = Request("refused")
    /\ UNCHANGED <<now, skew, place, formVars, voterVars, vote>>

\* The page of CreatePoll goes to the new poll, even when it has been left.
Launched ==
    /\ request.phase = "created" /\ request.from = "create"
    /\ IF place = "poll" THEN UNCHANGED <<place, formVars, voterVars, vote>> ELSE Open("poll")

\* The dashboard closes the form and empties the options; the duration and the end stay.
Reported ==
    /\ request.phase = "created" /\ request.from = "dashboard"
    /\ IF request.gone THEN UNCHANGED formVars
       ELSE /\ form' = [form EXCEPT !.options = BlankForm("dashboard").options]
            /\ shown' = FALSE /\ edits' = NoEdits
    /\ UNCHANGED <<place, voterVars, vote>>

\* An error is shown, and the fields stay.
Refused == request.phase = "refused" /\ UNCHANGED <<place, formVars, voterVars, vote>>

Answered ==
    /\ Launched \/ Reported \/ Refused
    /\ request' = NoRequest
    /\ UNCHANGED <<serverVars, skew>>

-----------------------------------------------------------------------------
(* The page of a voter *)

\* computeTime.
CountdownOf(p) ==
    LET clock == now + skew
    IN  IF clock < p.start THEN Countdown("upcoming", p.start - clock)
        ELSE IF clock >= p.end THEN Countdown("ended", 0)
        ELSE Countdown("active", p.end - clock)

\* A poll has been fetched; the effect depends on its start and its end.
Load(p) ==
    /\ place = "poll" /\ p # poll
    /\ poll' = p
    /\ due' = (due \/ poll = 0 \/ polls[p].start # polls[poll].start \/ polls[p].end # polls[poll].end)
    /\ UNCHANGED <<serverVars, skew, place, formVars, request, countdown, vote>>

\* Mutant of Begin: the interval is started, and that is all.
BeginInterval == due' = FALSE /\ UNCHANGED countdown

\* The effect computes the time at once, and starts the interval.
Begin == due' = FALSE /\ countdown' = CountdownOf(polls[poll])

Effect ==
    /\ due /\ Begin
    /\ UNCHANGED <<serverVars, skew, place, formVars, request, poll, vote>>

\* Mutant of Second: the interval has been cleared.
SecondNever == FALSE

\* The interval.
Second == poll # 0 /\ ~due

ComputeTime ==
    /\ Second
    /\ countdown' = CountdownOf(polls[poll])
    /\ UNCHANGED <<serverVars, skew, place, formVars, request, poll, due, vote>>

\* The button is not disabled.  An option has been selected; for the bound, one vote at a
\* time.
Press ==
    /\ poll # 0 /\ countdown.status = "active" /\ vote = NoVote
    /\ vote' = [phase |-> "sent", poll |-> poll, hasty |-> due]
    /\ UNCHANGED <<serverVars, skew, place, formVars, request, voterVars>>

\* The answer has come, or is not waited for.
VoteOver ==
    /\ vote.phase \in {"counted", "closed", "early", "late"}
    /\ vote' = NoVote
    /\ UNCHANGED <<serverVars, skew, place, formVars, request, voterVars>>

-----------------------------------------------------------------------------

Editing ==
    \/ \E i \in DOMAIN form.options : RemoveOption(i) \/ \E t \in Texts \cup {Empty, Blank} : ChangeOption(i, t)
    \/ \E d \in Durations \cup {Custom} : PickDuration(d)
    \/ \E t \in Times : ChangeEnd(t) \/ ChangeStart(t)
    \/ \E later \in BOOLEAN : PickStart(later)
    \/ AddOption

Voting == CheckVote \/ CountVote \/ VoteOver \/ Press

Step ==
    \/ \E p \in {"create", "dashboard", "poll", "elsewhere"} : Visit(p)
    \/ Editing \/ ToggleForm \/ Submit \/ Answered
    \/ Tick \/ Voting \/ Effect \/ ComputeTime
    \/ \E p \in DOMAIN polls : TogglePoll(p) \/ Load(p)

\* Whether the poll of the vote takes votes.
Takes ==
    LET p == polls[vote.poll]
    IN  p.is_active /\ p.start <= now /\ now <= p.end

Observe == moments' = IF vote' = NoVote THEN {} ELSE moments \cup {Takes'}

Next == Step /\ Observe

Spec == Init /\ [][Next]_vars

\* The browser runs effects and intervals.
FairSpec == Spec /\ WF_vars((Effect \/ ComputeTime) /\ Observe)

-----------------------------------------------------------------------------
(* Properties *)

\* Types, and the number of options of a form.
TypeOK ==
    /\ now \in Times /\ skew \in Skews /\ {shown, due} \subseteq BOOLEAN
    /\ place \in Forms \cup {"poll", "elsewhere"}
    /\ Range(form.options) \subseteq Texts \cup {Empty, Blank}
    /\ place \in Forms => Len(form.options) \in 2 .. Room[place]
    /\ form.preset \in Durations \cup {Custom} /\ {form.end, form.start} \subseteq Times \cup {Unset}
    /\ poll \in 0 .. Len(polls) /\ (poll # 0 => place = "poll")
    /\ countdown.status \in {"upcoming", "active", "ended"} /\ countdown.left \in Nat

\* The poll that is made has the time window that the form shows when its button is
\* pressed, whatever the fields hold that are not on the page, and no two options that are
\* the same but for their case.  In the code: the two handlers of forms, and CreatePoll,
\* which looks at the options again and fills in what they leave out.
PollIsAsFilledIn ==
    [][Len(polls') > Len(polls) =>
        LET p == Last(polls')
        IN  /\ Distinct(Clean(form.options))
            /\ p.start = IF form.later THEN form.start ELSE now
            /\ p.end = IF form.preset = Custom THEN form.end ELSE p.start + form.preset]_vars

\* What the server says of a vote is true of some moment between the press and the
\* answer, although the poll is read once and may be closed or run out before the vote
\* is counted; and a voter whose clock is not ahead is never too early, whichever polls
\* the page has shown before, once the effect has run.
AnswersAreTrue ==
    /\ vote.phase = "counted" => TRUE \in moments
    /\ vote.phase \in {"closed", "early", "late"} => FALSE \in moments
    /\ vote.phase = "early" => skew > 0 \/ vote.hasty

\* The countdown does not fall behind for good: again and again it says of the poll that
\* is shown what the clock of the browser says.
CountdownComesRight ==
    []<>(poll = 0 \/ countdown = CountdownOf(polls[poll]))

(* What the code does not keep *)

\* BadLive.cfg: a poll launched from the dashboard "is now live".  The form keeps the end
\* of the poll before, and nobody compares it with the clock or with the start.
LaunchedIsLive ==
    [][request'.phase = "created" /\ place = "dashboard" /\ polls' # polls =>
        Last(polls').start <= now /\ now <= Last(polls').end]_vars

\* With the constants of BadLive.cfg: the ballot is open to votes only while its poll
\* is.  Nothing on the page looks at is_active.
ButtonIsTrue == skew = 0 /\ ~due /\ poll # 0 /\ countdown = CountdownOf(polls[poll])
    /\ countdown.status = "active" => polls[poll].is_active

\* The mobile page tells the time that is left; it leaves the days out.
MobileLeft == countdown.left % Day
MobileTellsTheTime == poll # 0 /\ countdown.status # "ended" => MobileLeft = countdown.left
=============================================================================
