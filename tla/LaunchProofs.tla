------------------------------ MODULE LaunchProofs ------------------------------
(***************************************************************************)
(* What holds of launching polls and of voting in them for any texts,      *)
(* durations and clocks, and any number of polls.                          *)
(***************************************************************************)
EXTENDS Launch, SequenceTheorems, TLAPS

-----------------------------------------------------------------------------
(* Types.                                                                  *)

PollType == [start : Int, end : Int, is_active : BOOLEAN]
FormType == [options : Seq(Texts \cup {Empty, Blank}), preset : Durations \cup {Custom},
             end : Times \cup {Unset}, later : BOOLEAN, start : Times \cup {Unset}]
RequestType == [phase : {"created", "refused"}, from : Forms, gone : BOOLEAN]
VoteType == [phase : {"sent", "checked", "counted", "closed", "early", "late"},
             poll : Nat, hasty : BOOLEAN]
CountdownType == [status : {"upcoming", "active", "ended"}, left : Nat]

\* The server's clock and its polls.
ServerInv == now \in Times /\ skew \in Skews /\ polls \in Seq(PollType)

\* The form is shown on a page that has one, and the answer that is waited for comes
\* back to the page that asked.
FormInv ==
    /\ place \in Forms \cup {"poll", "elsewhere"} /\ shown \in BOOLEAN
    /\ form \in FormType
    /\ place \in Forms => Len(form.options) \in 2 .. Room[place]
    /\ shown => place \in Forms
    /\ request \in {NoRequest} \cup RequestType
    /\ request # NoRequest /\ ~request.gone => place = request.from

\* A page of a poll shows one that there is, and a vote is in one that there is.
VoterInv ==
    /\ due \in BOOLEAN /\ countdown \in CountdownType
    /\ poll \in 0 .. Len(polls) /\ (poll # 0 => place = "poll")
    /\ due => poll # 0
    /\ vote \in {NoVote} \cup VoteType
    /\ vote # NoVote => vote.poll \in 1 .. Len(polls)

TypeInv == ServerInv /\ FormInv /\ VoterInv

\* The records as they are made.
LEMMA FieldsType ==
  ASSUME NEW n \in Nat
  PROVE  Fields(n) \in FormType /\ Len(Fields(n).options) = n
<1> DEFINE o == [i \in 1 .. n |-> Empty]
<1>1. o \in Seq(Texts \cup {Empty, Blank}) /\ Len(o) = n
  OBVIOUS
<1> HIDE DEF o
<1> QED BY <1>1, LaunchAssumption DEF Fields, FormType, o

\* A form nobody has filled in: its options have the number of fields both forms start with.
LEMMA BlankFormType ==
  ASSUME NEW f
  PROVE  /\ BlankForm(f) \in FormType
         /\ f \in Forms => Len(BlankForm(f).options) \in 2 .. Room[f]
  BY FieldsType, LaunchAssumption DEF BlankForm, Forms

\* The records for no request, no vote and no countdown differ from all that stand for one.
LEMMA NoRecords ==
  /\ NoRequest \notin RequestType /\ NoRequest.phase = "none"
  /\ NoVote \notin VoteType /\ NoVote.phase = "none"
  /\ NoCountdown \in CountdownType
  /\ \A r \in RequestType : r # NoRequest
  /\ \A v \in VoteType : v # NoVote
  BY DEF NoRequest, NoVote, NoCountdown, Countdown, RequestType, VoteType, CountdownType

\* What is asked of the server.
LEMMA PayloadType ==
  ASSUME NEW f \in FormType
  PROVE  LET asked == Payload(f)
         IN  /\ asked.options = Clean(f.options)
             /\ asked.start = (IF f.later THEN f.start ELSE Unset) /\ asked.start \in Int
             /\ asked.end = (IF f.preset = Custom THEN f.end ELSE Unset) /\ asked.end \in Int
             /\ asked.minutes = (IF f.preset = Custom THEN Standard ELSE f.preset)
             /\ asked.minutes \in Nat
<1>1. f.start \in Int /\ f.end \in Int /\ Unset \in Int
  BY LaunchAssumption DEF FormType, Times, Unset
<1>2. Standard \in Nat /\ (f.preset # Custom => f.preset \in Nat)
  BY LaunchAssumption DEF FormType
<1> QED BY <1>1, <1>2 DEF Payload

\* What it makes of that: one more poll, the times of the others as they were.
LEMMA CreateType ==
  ASSUME ServerInv, NEW asked, asked.start \in Int, asked.end \in Int, asked.minutes \in Nat,
         CreatePoll(asked)
  PROVE  /\ polls' \in Seq(PollType) /\ Len(polls') = Len(polls) + 1
         /\ \A p \in 1 .. Len(polls) : /\ polls'[p].start = polls[p].start
                                       /\ polls'[p].end = polls[p].end
         /\ LET p == polls'[Len(polls) + 1]
            IN  /\ p.start = IF asked.start = Unset THEN now ELSE asked.start
                /\ p.end = IF asked.end = Unset THEN p.start + asked.minutes ELSE asked.end
<1> DEFINE start == IF asked.start = Unset THEN now ELSE asked.start
           end == IF asked.end = Unset THEN start + asked.minutes ELSE asked.end
           new == [start |-> start, end |-> end, is_active |-> TRUE]
           old == [p \in DOMAIN polls |-> [polls[p] EXCEPT !.is_active = FALSE]]
<1>1. start \in Int /\ end \in Int
  BY DEF ServerInv, Times
<1> HIDE DEF start, end
<1>2. new \in PollType /\ new.start = start /\ new.end = end
  BY <1>1 DEF PollType
<1>3. /\ old \in Seq(PollType) /\ Len(old) = Len(polls)
      /\ \A p \in 1 .. Len(polls) : old[p].start = polls[p].start /\ old[p].end = polls[p].end
  <2>1. \A p \in 1 .. Len(polls) : polls[p] \in PollType /\ DOMAIN polls = 1 .. Len(polls)
    BY DEF ServerInv
  <2>2. \A p \in 1 .. Len(polls) :
            LET c == [polls[p] EXCEPT !.is_active = FALSE]
            IN  c \in PollType /\ c.start = polls[p].start /\ c.end = polls[p].end
    BY <2>1 DEF PollType
  <2>3. \A p \in 1 .. Len(polls) : /\ old[p] \in PollType /\ DOMAIN old = 1 .. Len(polls)
                                  /\ old[p].start = polls[p].start /\ old[p].end = polls[p].end
    BY <2>2 DEF ServerInv
  <2>4. old \in [1 .. Len(polls) -> PollType]
    BY <2>1, <2>2 DEF ServerInv
  <2> QED BY <2>3, <2>4 DEF ServerInv
<1>4. polls' = Append(old, new)
  BY DEF CreatePoll, start, end
<1> HIDE DEF new, old
<1>5. /\ polls' \in Seq(PollType) /\ Len(polls') = Len(polls) + 1
      /\ \A p \in 1 .. Len(polls) : polls'[p] = old[p]
      /\ polls'[Len(polls) + 1] = new
  BY <1>2, <1>3, <1>4, AppendProperties
<1> QED BY <1>2, <1>3, <1>5 DEF start, end

\* A poll that is opened or closed keeps its times.
LEMMA ToggleType ==
  ASSUME ServerInv, NEW p \in DOMAIN polls, polls' = [polls EXCEPT ![p].is_active = ~@]
  PROVE  /\ polls' \in Seq(PollType) /\ Len(polls') = Len(polls)
         /\ \A q \in 1 .. Len(polls) : /\ polls'[q].start = polls[q].start
                                       /\ polls'[q].end = polls[q].end
<1>1. \A q \in 1 .. Len(polls) : polls[q] \in PollType /\ DOMAIN polls = 1 .. Len(polls)
  BY DEF ServerInv
<1>2. LET t == [polls[p] EXCEPT !.is_active = ~polls[p].is_active]
      IN  t \in PollType /\ t.start = polls[p].start /\ t.end = polls[p].end
  <2> DEFINE v == ~polls[p].is_active
  <2>1. v \in BOOLEAN
    OBVIOUS
  <2> HIDE DEF v
  <2>2. LET t == [polls[p] EXCEPT !.is_active = v]
        IN  t \in PollType /\ t.start = polls[p].start /\ t.end = polls[p].end
    BY <1>1, <2>1 DEF PollType
  <2> QED BY <2>2 DEF v
<1> DEFINE t == [polls[p] EXCEPT !.is_active = ~polls[p].is_active]
<1>3. polls' = [polls EXCEPT ![p] = t]
  BY <1>1
<1> HIDE DEF t
<1>4. t \in PollType /\ t.start = polls[p].start /\ t.end = polls[p].end
  BY <1>2 DEF t
<1> QED BY <1>1, <1>3, <1>4 DEF ServerInv

\* How the server's part may change: no poll is lost, and none changes its times.
PollsStay ==
    /\ ServerInv' /\ Len(polls') >= Len(polls) /\ now' >= now /\ UNCHANGED skew
    /\ \A p \in 1 .. Len(polls) : polls'[p].start = polls[p].start /\ polls'[p].end = polls[p].end

\* A poll that was created keeps its window (nothing in the server changes start_date or end_date).
LEMMA ServerKept ==
  ASSUME TypeInv, Step
  PROVE  PollsStay
<1>0. ServerInv /\ form \in FormType /\ Len(polls) \in Nat
  BY DEF TypeInv, FormInv, ServerInv
<1>1. CASE Tick
  BY <1>0, <1>1, LaunchAssumption DEF Tick, ServerInv, Times, PollsStay
<1>2. CASE Submit
  <2>1. CASE UNCHANGED polls
    BY <1>0, <1>2, <2>1 DEF Submit, ServerInv, Times, PollsStay
  <2>2. CASE CreatePoll(Payload(form))
    <3>1. /\ polls' \in Seq(PollType) /\ Len(polls') = Len(polls) + 1
          /\ \A p \in 1 .. Len(polls) : /\ polls'[p].start = polls[p].start
                                        /\ polls'[p].end = polls[p].end
      BY <1>0, <2>2, PayloadType, CreateType
    <3> QED BY <1>0, <1>2, <3>1 DEF Submit, ServerInv, Times, PollsStay
  <2> QED BY <1>2, <2>1, <2>2 DEF Submit
<1>3. ASSUME NEW p \in DOMAIN polls, TogglePoll(p)
      PROVE  PollsStay
  <2>1. /\ polls' \in Seq(PollType) /\ Len(polls') = Len(polls)
        /\ \A q \in 1 .. Len(polls) : /\ polls'[q].start = polls[q].start
                                      /\ polls'[q].end = polls[q].end
    BY <1>0, <1>3, ToggleType DEF TogglePoll
  <2> QED BY <1>0, <1>3, <2>1 DEF TogglePoll, ServerInv, Times, PollsStay
<1>4. ASSUME UNCHANGED <<now, polls, skew>>
      PROVE  PollsStay
  BY <1>0, <1>4 DEF ServerInv, Times, PollsStay
<1>5. CASE Editing
  BY <1>4, <1>5 DEF Editing, RemoveOption, ChangeOption, PickDuration, ChangeEnd, ChangeStart,
    PickStart, AddOption, Edit, serverVars
<1>6. CASE ToggleForm \/ Answered \/ Voting \/ Effect \/ ComputeTime
  BY <1>4, <1>6 DEF ToggleForm, Answered, Voting, CheckVote, CountVote, VoteOver, Press, Effect,
    ComputeTime, serverVars
<1>7. CASE \E p \in {"create", "dashboard", "poll", "elsewhere"} : Visit(p)
  BY <1>4, <1>7 DEF Visit, serverVars
<1>8. CASE \E p \in DOMAIN polls : Load(p)
  BY <1>4, <1>8 DEF Load, serverVars
<1> QED BY <1>1, <1>2, <1>3, <1>5, <1>6, <1>7, <1>8 DEF Step

\* A shorter list of options.
LEMMA RemoveAtType ==
  ASSUME NEW S, NEW s \in Seq(S), NEW i \in 1 .. Len(s)
  PROVE  RemoveAt(s, i) \in Seq(S) /\ Len(RemoveAt(s, i)) = Len(s) - 1
<1> DEFINE a == SubSeq(s, 1, i - 1)
           z == SubSeq(s, i + 1, Len(s))
<1>1. a \in Seq(S) /\ Len(a) = i - 1
  OBVIOUS
<1>2. z \in Seq(S) /\ Len(z) = Len(s) - i
  OBVIOUS
<1> HIDE DEF a, z
<1>3. a \o z \in Seq(S) /\ Len(a \o z) = Len(a) + Len(z)
  BY <1>1, <1>2
<1>4. Len(a \o z) = Len(s) - 1
  BY <1>1, <1>2, <1>3
<1>5. RemoveAt(s, i) = a \o z
  BY DEF RemoveAt, a, z
<1> QED BY <1>3, <1>4, <1>5

\* Another page begins with a form of its own.
LEMMA OpenForm ==
  ASSUME NEW p \in Forms \cup {"poll", "elsewhere"}, Open(p)
  PROVE  /\ place' \in Forms \cup {"poll", "elsewhere"} /\ shown' \in BOOLEAN
         /\ form' \in FormType
         /\ place' \in Forms => Len(form'.options) \in 2 .. Room[place']
         /\ shown' => place' \in Forms
  BY BlankFormType DEF Open, Forms

\* What an edit leaves: fields of the form's type, and as many options as there may be.
LEMMA EditForm ==
  ASSUME FormInv, Editing
  PROVE  FormInv'
<1> DEFINE o == form.options
<1>0. /\ form \in FormType /\ o \in Seq(Texts \cup {Empty, Blank})
      /\ Len(o) \in Nat
  BY DEF FormInv, FormType
<1>1. ASSUME NEW part, NEW f \in FormType, Edit(part, f),
             place \in Forms => Len(f.options) \in 2 .. Room[place]
      PROVE  FormInv'
  BY <1>1 DEF Edit, FormInv
<1>2. ASSUME NEW s \in Seq(Texts \cup {Empty, Blank})
      PROVE  [form EXCEPT !.options = s] \in FormType /\ [form EXCEPT !.options = s].options = s
  BY <1>0 DEF FormType
<1>3. ASSUME NEW i \in DOMAIN o, RemoveOption(i)
      PROVE  FormInv'
  <2>1. RemoveAt(o, i) \in Seq(Texts \cup {Empty, Blank}) /\ Len(RemoveAt(o, i)) = Len(o) - 1
    BY <1>0, RemoveAtType
  <2>2. place \in Forms /\ Len(o) > 2 /\ Len(o) \in 2 .. Room[place] /\ Room[place] \in Nat
    BY <1>3, LaunchAssumption DEF RemoveOption, Forms, FormInv
  <2>3. Len(RemoveAt(o, i)) \in 2 .. Room[place]
    BY <1>0, <2>1, <2>2
  <2> QED BY <1>1, <1>2, <1>3, <2>1, <2>3 DEF RemoveOption
<1>4. ASSUME NEW i \in DOMAIN o, NEW t \in Texts \cup {Empty, Blank}, ChangeOption(i, t)
      PROVE  FormInv'
  <2> DEFINE s == [o EXCEPT ![i] = t]
  <2>1. s \in Seq(Texts \cup {Empty, Blank}) /\ Len(s) = Len(o)
    BY <1>0
  <2>2. [form EXCEPT !.options[i] = t] = [form EXCEPT !.options = s]
    BY <1>0 DEF FormType
  <2> HIDE DEF s
  <2> QED BY <1>1, <1>2, <1>4, <2>1, <2>2 DEF ChangeOption, FormInv
<1>5. CASE AddOption
  <2>1. Append(o, Empty) \in Seq(Texts \cup {Empty, Blank}) /\ Len(Append(o, Empty)) = Len(o) + 1
    BY <1>0, AppendProperties
  <2>2. place \in Forms /\ Len(o) \in 2 .. Room[place] /\ Len(o) < Room[place] /\ Room[place] \in Nat
    BY <1>5, LaunchAssumption DEF AddOption, Forms, FormInv
  <2>3. Len(Append(o, Empty)) \in 2 .. Room[place]
    BY <1>0, <2>1, <2>2
  <2> QED BY <1>1, <1>2, <1>5, <2>1, <2>3 DEF AddOption
<1>6. ASSUME NEW d \in Durations \cup {Custom}, PickDuration(d)
      PROVE  FormInv'
  <2>1. [form EXCEPT !.preset = d] \in FormType /\ [form EXCEPT !.preset = d].options = o
    BY <1>0 DEF FormType
  <2> QED BY <1>1, <1>6, <2>1 DEF PickDuration, FormInv
<1>7. ASSUME NEW t \in Times, ChangeEnd(t) \/ ChangeStart(t)
      PROVE  FormInv'
  <2>1. /\ [form EXCEPT !.end = t] \in FormType /\ [form EXCEPT !.end = t].options = o
        /\ [form EXCEPT !.start = t] \in FormType /\ [form EXCEPT !.start = t].options = o
    BY <1>0 DEF FormType
  <2> QED BY <1>1, <1>7, <2>1 DEF ChangeEnd, ChangeStart, FormInv
<1>8. ASSUME NEW later \in BOOLEAN, PickStart(later)
      PROVE  FormInv'
  <2>1. [form EXCEPT !.later = later] \in FormType /\ [form EXCEPT !.later = later].options = o
    BY <1>0 DEF FormType
  <2> QED BY <1>1, <1>8, <2>1 DEF PickStart, FormInv
<1> QED BY <1>3, <1>4, <1>5, <1>6, <1>7, <1>8 DEF Editing

\* The other steps.
LEMMA FormKept ==
  ASSUME TypeInv, Step
  PROVE  FormInv'
<1>0. FormInv
  BY DEF TypeInv
<1>1. CASE Editing
  BY <1>0, <1>1, EditForm
<1>2. ASSUME NEW p \in {"create", "dashboard", "poll", "elsewhere"}, Visit(p)
      PROVE  FormInv'
  <2>1. request' \in {NoRequest} \cup RequestType /\ (request' # NoRequest => request'.gone = TRUE)
    BY <1>0, <1>2, NoRecords DEF Visit, FormInv, RequestType
  <2> QED BY <1>2, <2>1, OpenForm DEF Visit, FormInv, Forms
<1>3. CASE ToggleForm
  BY <1>0, <1>3 DEF ToggleForm, FormInv, Forms
<1>4. CASE Submit
  <2>1. \A phase \in {"created", "refused"} :
            Request(phase) \in RequestType /\ Request(phase).from = place
    BY <1>0, <1>4 DEF Submit, Request, RequestType, FormInv
  <2>2. UNCHANGED <<place, form, shown>> /\ \E phase \in {"created", "refused"} : request' = Request(phase)
    BY <1>4 DEF Submit, formVars
  <2> QED BY <1>0, <2>1, <2>2 DEF FormInv
<1>5. CASE Answered
  <2>1. CASE Launched
    <3>1. CASE place = "poll"
      BY <1>0, <1>5, <2>1, <3>1 DEF Answered, Launched, formVars, FormInv, Forms
    <3>2. CASE place # "poll"
      BY <1>5, <2>1, <3>2, OpenForm DEF Answered, Launched, FormInv
    <3> QED BY <3>1, <3>2
  <2>2. CASE Reported
    <3>1. CASE request.gone
      BY <1>0, <1>5, <2>2, <3>1 DEF Answered, Reported, formVars, FormInv
    <3>2. CASE ~request.gone
      <4>1. request # NoRequest /\ place = "dashboard"
        BY <1>0, <2>2, <3>2, NoRecords DEF Reported, FormInv
      <4> DEFINE b == BlankForm("dashboard").options
                 f == [form EXCEPT !.options = b]
      <4>2. b \in Seq(Texts \cup {Empty, Blank}) /\ Len(b) \in 2 .. Room["dashboard"]
        BY BlankFormType DEF FormType, Forms
      <4> HIDE DEF b
      <4>3. f \in FormType /\ f.options = b
        BY <1>0, <4>2 DEF FormInv, FormType
      <4>4. form' = f /\ shown' = FALSE /\ place' = place /\ request' = NoRequest
        BY <1>5, <2>2, <3>2 DEF Answered, Reported, b
      <4> HIDE DEF f
      <4> QED BY <4>1, <4>2, <4>3, <4>4 DEF FormInv, Forms
    <3> QED BY <3>1, <3>2
  <2>3. CASE Refused
    BY <1>0, <1>5, <2>3 DEF Answered, Refused, formVars, FormInv
  <2> QED BY <1>5, <2>1, <2>2, <2>3 DEF Answered
<1>6. CASE Tick \/ Voting \/ Effect \/ ComputeTime
  BY <1>0, <1>6 DEF Tick, Voting, CheckVote, CountVote, VoteOver, Press, Effect, ComputeTime,
    formVars, FormInv
<1>7. CASE \E p \in DOMAIN polls : TogglePoll(p) \/ Load(p)
  BY <1>0, <1>7 DEF TogglePoll, Load, formVars, FormInv
<1> QED BY <1>1, <1>2, <1>3, <1>4, <1>5, <1>6, <1>7 DEF Step

\* The page of a poll has a number that is left to show.
LEMMA CountdownOfType ==
  ASSUME NEW p \in PollType, now \in Int, skew \in Int
  PROVE  /\ CountdownOf(p) \in CountdownType
         /\ CountdownOf(p).status = "active" => p.start <= now + skew
<1>1. p.start \in Int /\ p.end \in Int
  BY DEF PollType
<1> QED BY <1>1 DEF CountdownOf, Countdown, CountdownType

\* The vote, its poll and the poll that is shown.
LEMMA VoterKept ==
  ASSUME TypeInv, Step
  PROVE  VoterInv'
<1>0. /\ VoterInv /\ ServerInv /\ FormInv /\ PollsStay
      /\ Len(polls) \in Nat /\ Len(polls') \in Nat /\ Len(polls') >= Len(polls)
      /\ now \in Int /\ skew \in Int
  BY ServerKept, LaunchAssumption DEF TypeInv, ServerInv, PollsStay, Times
<1>1. ASSUME UNCHANGED <<poll, countdown, due, vote, place>>
      PROVE  VoterInv'
  BY <1>0, <1>1 DEF VoterInv
<1>2. ASSUME NEW p, Open(p)
      PROVE  VoterInv'
  <2>1. /\ poll' = 0 /\ countdown' = NoCountdown /\ due' = FALSE /\ vote' = NoVote
    BY <1>2 DEF Open
  <2>2. poll' \in 0 .. Len(polls')
    BY <1>0, <2>1
  <2> QED BY <2>1, <2>2, NoRecords DEF VoterInv
<1>3. CASE \E p \in {"create", "dashboard", "poll", "elsewhere"} : Visit(p)
  BY <1>2, <1>3 DEF Visit
<1>4. CASE Editing \/ ToggleForm \/ Submit \/ Tick \/ \E p \in DOMAIN polls : TogglePoll(p)
  BY <1>1, <1>4 DEF Editing, RemoveOption, ChangeOption, PickDuration, ChangeEnd, ChangeStart,
    PickStart, AddOption, Edit, ToggleForm, Submit, Tick, TogglePoll, voterVars
<1>5. CASE Answered
  <2>1. CASE Launched
    <3>1. CASE place = "poll"
      BY <1>1, <2>1, <3>1 DEF Launched, voterVars
    <3>2. CASE place # "poll"
      BY <1>2, <2>1, <3>2 DEF Launched
    <3> QED BY <3>1, <3>2
  <2>2. CASE Reported \/ Refused
    BY <1>1, <2>2 DEF Reported, Refused, voterVars
  <2> QED BY <1>5, <2>1, <2>2 DEF Answered
<1>6. CASE CheckVote \/ CountVote
  <2>1. vote \in VoteType /\ vote.poll \in 1 .. Len(polls)
    BY <1>0, <1>6, NoRecords DEF CheckVote, CountVote, VoterInv
  <2>2. PICK ph \in {"counted", "checked", "closed", "early", "late"} :
             vote' = [vote EXCEPT !.phase = ph]
    BY <1>6 DEF CheckVote, CountVote, Checked
  <2>3. vote' \in VoteType /\ vote'.poll = vote.poll
    BY <2>1, <2>2 DEF VoteType
  <2>4. UNCHANGED <<poll, countdown, due, place>>
    BY <1>6 DEF CheckVote, CountVote, voterVars
  <2> QED BY <1>0, <2>1, <2>3, <2>4 DEF VoterInv
<1>7. CASE VoteOver
  BY <1>0, <1>7, NoRecords DEF VoteOver, voterVars, VoterInv
<1>8. CASE Press
  <2>1. vote' \in VoteType /\ vote'.poll = poll /\ poll \in 1 .. Len(polls)
    BY <1>0, <1>8 DEF Press, VoteType, VoterInv
  <2> QED BY <1>0, <1>8, <2>1 DEF Press, voterVars, VoterInv
<1>9. ASSUME NEW p \in DOMAIN polls, Load(p)
      PROVE  VoterInv'
  <2>1. p \in 1 .. Len(polls) /\ UNCHANGED polls
    BY <1>0, <1>9 DEF Load, serverVars, ServerInv
  <2>2. due' \in BOOLEAN
    BY <1>0, <1>9 DEF Load, VoterInv
  <2> QED BY <1>0, <1>9, <2>1, <2>2 DEF Load, VoterInv
<1>10. CASE Effect \/ ComputeTime
  <2>1. countdown' = CountdownOf(polls[poll]) /\ UNCHANGED <<poll, vote, place, polls>> /\ due' \in BOOLEAN
    BY <1>0, <1>10 DEF Effect, Begin, ComputeTime, serverVars, VoterInv
  <2>2. poll # 0
    BY <1>0, <1>10 DEF Effect, ComputeTime, Second, VoterInv
  <2>3. polls[poll] \in PollType
    BY <1>0, <2>2 DEF ServerInv, VoterInv
  <2>4. countdown' \in CountdownType
    BY <1>0, <2>1, <2>3, CountdownOfType
  <2> QED BY <1>0, <2>1, <2>2, <2>4 DEF VoterInv
<1> QED BY <1>3, <1>4, <1>5, <1>6, <1>7, <1>8, <1>9, <1>10 DEF Step, Voting

\* The types hold at first, and every step keeps them.
LEMMA InitType == Init => TypeInv
<1> SUFFICES ASSUME Init PROVE TypeInv
  OBVIOUS
<1>1. polls = <<>> /\ polls \in Seq(PollType) /\ Len(polls) = 0 /\ ServerInv
  BY LaunchAssumption DEF Init, ServerInv, Times
<1>2. FormInv
  BY BlankFormType, NoRecords DEF Init, FormInv, Forms
<1>3. poll \in 0 .. Len(polls)
  BY <1>1 DEF Init
<1>4. VoterInv
  BY <1>3, NoRecords DEF Init, VoterInv
<1> QED BY <1>1, <1>2, <1>4 DEF TypeInv

\* Every step of Next, or a stutter, keeps the types.
LEMMA NextType == TypeInv /\ [Next]_vars => TypeInv'
<1>1. CASE UNCHANGED vars
  BY <1>1 DEF vars, serverVars, formVars, voterVars, TypeInv, ServerInv, FormInv, VoterInv
<1>2. CASE Next
  BY <1>2, ServerKept, FormKept, VoterKept DEF Next, TypeInv, PollsStay
<1> QED BY <1>1, <1>2

\* In every behaviour the fields have the types that the code relies on, and a form has at
\* least two options and no more than it has room for, whichever of the two forms it is.
THEOREM TypeCorrect == Spec => []TypeOK
<1>1. TypeInv => TypeOK
  <2> SUFFICES ASSUME TypeInv PROVE TypeOK
    OBVIOUS
  <2>1. Range(form.options) \subseteq Texts \cup {Empty, Blank}
    BY DEF TypeInv, FormInv, FormType, Range
  <2> QED BY <2>1 DEF TypeInv, ServerInv, FormInv, VoterInv, FormType, CountdownType, TypeOK
<1> QED BY <1>1, InitType, NextType, PTL DEF Spec

-----------------------------------------------------------------------------
(* What the server says of a vote.                                         *)

\* The moment that is now has been looked at, and the server has said nothing of a vote
\* that was not true of one of the moments since it was sent.
AnswerInv ==
    /\ vote # NoVote => Takes \in moments
    /\ vote.phase \in {"checked", "counted"} => TRUE \in moments
    /\ vote.phase \in {"closed", "early", "late"} => FALSE \in moments

\* By the browser's clock a ballot that is open has begun, once the effect has run, and so
\* has the poll of a vote; the clocks go on, and begin no poll again.
BegunInv ==
    /\ poll # 0 /\ ~due /\ countdown.status = "active" => polls[poll].start <= now + skew
    /\ vote # NoVote /\ ~vote.hasty => polls[vote.poll].start <= now + skew
    /\ vote.phase = "early" => skew > 0 \/ vote.hasty

VoteInv == TypeInv /\ AnswerInv /\ BegunInv

\* The steps that concern the page of a voter.
LEMMA VoterSteps ==
  ASSUME Step
  PROVE  \/ UNCHANGED <<poll, countdown, due, vote>>
         \/ poll' = 0 /\ vote' = NoVote
         \/ CheckVote \/ CountVote \/ VoteOver \/ Press
         \/ \E p \in DOMAIN polls : Load(p)
         \/ Effect \/ ComputeTime
<1>1. CASE Editing
  BY <1>1 DEF Editing, RemoveOption, ChangeOption, PickDuration, ChangeEnd, ChangeStart,
    PickStart, AddOption, Edit, voterVars
<1>2. CASE ToggleForm \/ Submit \/ Tick \/ \E p \in DOMAIN polls : TogglePoll(p)
  BY <1>2 DEF ToggleForm, Submit, Tick, TogglePoll, voterVars
<1>3. CASE Answered \/ \E p \in {"create", "dashboard", "poll", "elsewhere"} : Visit(p)
  BY <1>3 DEF Answered, Launched, Reported, Refused, Visit, Open, voterVars
<1> QED BY <1>1, <1>2, <1>3 DEF Step, Voting

\* A check is right at the moment it is made.
LEMMA CheckedIsTrue ==
  ASSUME ServerInv, vote \in VoteType, vote.poll \in 1 .. Len(polls)
  PROVE  LET p == polls[vote.poll]
         IN  /\ Checked(p) = "checked" <=> Takes
             /\ Checked(p) = "early" => now < p.start
             /\ Checked(p) \in {"checked", "closed", "early", "late"}
             /\ Takes \in BOOLEAN
<1>1. polls[vote.poll] \in PollType /\ now \in Int
  BY LaunchAssumption DEF ServerInv, Times
<1> DEFINE p == polls[vote.poll]
<1>2. p.start \in Int /\ p.end \in Int /\ p.is_active \in BOOLEAN
  BY <1>1 DEF PollType
<1>3. Takes = (p.is_active /\ p.start <= now /\ now <= p.end)
  BY DEF Takes
<1> HIDE DEF p
<1>4. /\ Checked(p) = "checked" <=> p.is_active /\ p.start <= now /\ now <= p.end
      /\ Checked(p) = "early" => now < p.start
      /\ Checked(p) \in {"checked", "closed", "early", "late"}
  BY <1>1, <1>2 DEF Checked
<1> QED BY <1>2, <1>3, <1>4 DEF p

\* A step keeps the answers true: the instants seen grow, and a vote's check saw one of them.
LEMMA AnswerKept ==
  ASSUME TypeInv, TypeInv', AnswerInv, Step, Observe
  PROVE  AnswerInv'
<1>0. VoterInv /\ VoterInv' /\ ServerInv
  BY DEF TypeInv
<1>1. vote' # NoVote => Takes' \in moments'
  BY DEF Observe
<1>2. vote' # NoVote => moments \subseteq moments'
  BY DEF Observe
<1>3. CASE vote' = NoVote
  BY <1>1, <1>3, NoRecords DEF AnswerInv
<1>4. CASE vote' # NoVote /\ UNCHANGED vote
  BY <1>1, <1>2, <1>4 DEF AnswerInv
<1>5. CASE CheckVote
  <2>1. vote \in VoteType /\ vote.poll \in 1 .. Len(polls) /\ vote # NoVote
    BY <1>0, <1>5, NoRecords DEF CheckVote, VoterInv
  <2>2. vote'.phase = Checked(polls[vote.poll]) /\ vote' # NoVote
    <3> DEFINE c == Checked(polls[vote.poll])
    <3>1. c \in {"checked", "closed", "early", "late"}
      BY <1>0, <2>1, CheckedIsTrue
    <3> HIDE DEF c
    <3>2. vote' = [vote EXCEPT !.phase = c]
      BY <1>5 DEF CheckVote, c
    <3>3. vote' \in VoteType /\ vote'.phase = c
      BY <2>1, <3>1, <3>2 DEF VoteType
    <3> QED BY <3>3, NoRecords DEF c
  <2>3. Takes \in moments' /\ Takes \in BOOLEAN
    BY <1>0, <1>2, <2>1, <2>2, CheckedIsTrue DEF AnswerInv
  <2>4. /\ Checked(polls[vote.poll]) \in {"checked", "counted"} => TRUE \in moments'
        /\ Checked(polls[vote.poll]) \in {"closed", "early", "late"} => FALSE \in moments'
    <3>1. CASE Takes
      <4>1. TRUE \in moments'
        BY <2>3, <3>1, Zenon
      <4>2. Checked(polls[vote.poll]) = "checked"
        BY <1>0, <2>1, <3>1, CheckedIsTrue
      <4> QED BY <4>1, <4>2
    <3>2. CASE ~Takes
      <4>1. FALSE \in moments'
        BY <2>3, <3>2, Zenon
      <4>2. Checked(polls[vote.poll]) \in {"closed", "early", "late"}
        BY <1>0, <2>1, <3>2, CheckedIsTrue
      <4> QED BY <4>1, <4>2
    <3> QED BY <3>1, <3>2
  <2> QED BY <1>1, <2>2, <2>4 DEF AnswerInv
<1>6. CASE CountVote
  <2>1. vote \in VoteType /\ vote'.phase = "counted" /\ TRUE \in moments
    BY <1>0, <1>6, NoRecords DEF CountVote, VoterInv, VoteType, AnswerInv
  <2> QED BY <1>1, <1>2, <2>1, NoRecords DEF AnswerInv
<1>7. CASE Press
  <2>1. vote'.phase = "sent"
    BY <1>7 DEF Press
  <2> QED BY <1>1, <2>1 DEF AnswerInv
<1>8. CASE Effect \/ ComputeTime \/ \E p \in DOMAIN polls : Load(p)
  BY <1>3, <1>4, <1>8 DEF Effect, ComputeTime, Load
<1>9. CASE VoteOver
  BY <1>3, <1>9 DEF VoteOver
<1> QED BY <1>3, <1>4, <1>5, <1>6, <1>7, <1>8, <1>9, VoterSteps

\* A step keeps a poll begun or over for whoever was told so: time only passes.
LEMMA BegunKept ==
  ASSUME TypeInv, TypeInv', BegunInv, Step
  PROVE  BegunInv'
<1>0. /\ VoterInv /\ VoterInv' /\ ServerInv /\ ServerInv' /\ PollsStay
      /\ now \in Int /\ now' \in Int /\ now' >= now /\ skew' = skew
  BY ServerKept, LaunchAssumption DEF TypeInv, ServerInv, PollsStay, Times
<1>s. skew \in Int
  BY <1>0, LaunchAssumption DEF ServerInv
<1>p. \A p \in 1 .. Len(polls) : /\ polls[p].start \in Int /\ polls'[p].start = polls[p].start
                                 /\ polls[p] \in PollType
  <2>1. \A p \in 1 .. Len(polls) : polls[p] \in PollType
    BY <1>0 DEF ServerInv
  <2>2. \A p \in 1 .. Len(polls) : polls[p].start \in Int
    BY <2>1 DEF PollType
  <2> QED BY <1>0, <2>1, <2>2 DEF PollsStay
\* What has begun stays begun.
<1>b. \A p \in 1 .. Len(polls) : polls[p].start <= now + skew => polls'[p].start <= now' + skew'
  BY <1>0, <1>s, <1>p
<1>v. vote # NoVote => vote.poll \in 1 .. Len(polls)
  BY <1>0 DEF VoterInv
<1>c. poll # 0 => poll \in 1 .. Len(polls)
  BY <1>0 DEF VoterInv, ServerInv
\* The poll of the vote, and what is said of it.
<1> DEFINE VotePart == /\ vote # NoVote /\ ~vote.hasty => polls[vote.poll].start <= now + skew
                       /\ vote.phase = "early" => skew > 0 \/ vote.hasty
           PagePart == poll # 0 /\ ~due /\ countdown.status = "active" =>
                            polls[poll].start <= now + skew
<1>1. ASSUME UNCHANGED vote
      PROVE  VotePart'
  BY <1>0, <1>1, <1>b, <1>v DEF BegunInv
<1>2. ASSUME vote' = NoVote
      PROVE  VotePart'
  BY <1>2, NoRecords
<1>3. ASSUME UNCHANGED <<poll, countdown, due>>
      PROVE  PagePart'
  BY <1>0, <1>3, <1>b, <1>c DEF BegunInv
<1>4. CASE CheckVote \/ CountVote
  <2>1. vote \in VoteType /\ vote.poll \in 1 .. Len(polls) /\ vote # NoVote
    BY <1>0, <1>4, NoRecords DEF CheckVote, CountVote, VoterInv
  <2> DEFINE c == IF CheckVote THEN Checked(polls[vote.poll]) ELSE "counted"
  <2>2. /\ c \in {"counted", "checked", "closed", "early", "late"}
        /\ c = "early" => now < polls[vote.poll].start
    BY <1>0, <2>1, CheckedIsTrue
  <2>3. vote' = [vote EXCEPT !.phase = c]
    BY <1>4 DEF CheckVote, CountVote
  <2> HIDE DEF c
  <2>4. vote'.phase = c /\ vote'.poll = vote.poll /\ vote'.hasty = vote.hasty
    BY <2>1, <2>3 DEF VoteType
  <2>5. ~vote.hasty => polls[vote.poll].start <= now + skew
    BY <2>1 DEF BegunInv
  <2>6. ~vote'.hasty => polls'[vote'.poll].start <= now' + skew'
    BY <1>b, <2>1, <2>4, <2>5
  <2>7. vote'.phase = "early" => skew' > 0 \/ vote'.hasty
    BY <1>0, <1>s, <1>p, <2>1, <2>2, <2>4, <2>5
  <2>8. PagePart'
    BY <1>3, <1>4 DEF CheckVote, CountVote, voterVars
  <2> QED BY <2>6, <2>7, <2>8 DEF BegunInv
<1>5. CASE Press
  <2>1. vote'.phase = "sent" /\ vote'.poll = poll /\ vote'.hasty = due /\ poll # 0
        /\ countdown.status = "active" /\ UNCHANGED voterVars
    BY <1>5 DEF Press
  <2>2. ~due => polls'[poll].start <= now' + skew'
    BY <1>b, <1>c, <2>1 DEF BegunInv
  <2>3. PagePart'
    BY <1>3, <2>1 DEF voterVars
  <2> QED BY <2>1, <2>2, <2>3 DEF BegunInv
<1>6. ASSUME NEW p \in DOMAIN polls, Load(p)
      PROVE  BegunInv'
  <2>1. p \in 1 .. Len(polls) /\ poll' = p /\ UNCHANGED <<countdown, vote>>
        /\ (~due' => ~due /\ poll # 0 /\ polls[p].start = polls[poll].start)
    <3>1. DOMAIN polls = 1 .. Len(polls)
      BY <1>0 DEF ServerInv
    <3> QED BY <1>6, <3>1 DEF Load
  <2>2. PagePart'
    BY <1>b, <2>1 DEF BegunInv
  <2> QED BY <1>1, <2>1, <2>2 DEF BegunInv
<1>7. CASE Effect \/ ComputeTime
  <2>1. countdown' = CountdownOf(polls[poll]) /\ UNCHANGED <<poll, vote>>
    BY <1>7 DEF Effect, Begin, ComputeTime
  <2>2. poll \in 1 .. Len(polls)
    BY <1>0, <1>c, <1>7 DEF Effect, ComputeTime, Second, VoterInv
  <2>3. countdown'.status = "active" => polls[poll].start <= now + skew
    BY <1>0, <1>s, <1>p, <2>1, <2>2, CountdownOfType
  <2>4. PagePart'
    BY <1>b, <2>1, <2>2, <2>3
  <2> QED BY <1>1, <2>1, <2>4 DEF BegunInv
<1>8. CASE poll' = 0 /\ vote' = NoVote
  BY <1>2, <1>8 DEF BegunInv
<1>9. CASE VoteOver
  BY <1>2, <1>3, <1>9 DEF VoteOver, voterVars, BegunInv
<1>10. CASE UNCHANGED <<poll, countdown, due, vote>>
  BY <1>1, <1>3, <1>10 DEF BegunInv
<1> QED BY <1>4, <1>5, <1>6, <1>7, <1>8, <1>9, <1>10, VoterSteps

\* What the server says of a vote was true of some moment since the vote was sent, however
\* the poll was opened, closed and replaced meanwhile and however long the count took; and
\* by a clock that is not ahead no vote is too early, whichever polls the page has shown.
THEOREM AnswersAreTrueHolds == Spec => []AnswersAreTrue
<1>1. Init => TypeInv /\ AnswerInv /\ BegunInv
  <2> SUFFICES ASSUME Init PROVE TypeInv /\ AnswerInv /\ BegunInv
    OBVIOUS
  <2>1. TypeInv
    BY InitType
  <2> QED BY <2>1, NoRecords DEF Init, AnswerInv, BegunInv
<1>2. VoteInv /\ [Next]_vars => VoteInv'
  <2>1. CASE UNCHANGED vars
    <3>1. VoteInv => TypeInv'
      BY <2>1, NextType DEF VoteInv
    <3>2. VoteInv => AnswerInv'
      BY <2>1 DEF VoteInv, vars, serverVars, AnswerInv, Takes
    <3>3. VoteInv => BegunInv'
      BY <2>1 DEF VoteInv, vars, serverVars, voterVars, BegunInv
    <3> QED BY <3>1, <3>2, <3>3 DEF VoteInv
  <2>2. CASE Next
    BY <2>2, NextType, AnswerKept, BegunKept DEF Next, VoteInv
  <2> QED BY <2>1, <2>2
<1>3. VoteInv => AnswersAreTrue
  BY DEF VoteInv, AnswerInv, BegunInv, AnswersAreTrue
<1> QED BY <1>1, <1>2, <1>3, PTL DEF Spec, VoteInv

-----------------------------------------------------------------------------
(* What is launched.                                                       *)

\* Only the button of a form makes a poll, and it makes what its payload says.
LEMMA Launches ==
  ASSUME TypeInv, Next, Len(polls') > Len(polls)
  PROVE  Submit /\ CreatePoll(Payload(form)) /\ UNCHANGED now
<1>1. ASSUME UNCHANGED Len(polls)
      PROVE  FALSE
  BY <1>1 DEF TypeInv, ServerInv
<1>2. ~Editing
  BY <1>1 DEF Editing, RemoveOption, ChangeOption, PickDuration, ChangeEnd, ChangeStart, PickStart,
    AddOption, Edit, serverVars
<1>3. ~(ToggleForm \/ Answered \/ Tick \/ Voting \/ Effect \/ ComputeTime)
  BY <1>1 DEF ToggleForm, Answered, Tick, Voting, CheckVote, CountVote, VoteOver, Press, Effect,
    ComputeTime, serverVars
<1>4. ASSUME NEW p \in DOMAIN polls
      PROVE  ~(TogglePoll(p) \/ Load(p))
  <2>1. TogglePoll(p) => UNCHANGED Len(polls)
    BY ToggleType DEF TogglePoll, TypeInv
  <2> QED BY <1>1, <2>1 DEF Load, serverVars
<1>5. ~\E p \in {"create", "dashboard", "poll", "elsewhere"} : Visit(p)
  BY <1>1 DEF Visit, serverVars
<1>6. Submit
  BY <1>2, <1>3, <1>4, <1>5 DEF Next, Step
<1> QED BY <1>1, <1>6 DEF Submit

\* The poll that is made has the options and the times that the form shows, whatever is
\* left in the fields that are not on the page, and however often the form was used before.
THEOREM PollIsAsFilledInHolds == Spec => PollIsAsFilledIn
<1> DEFINE Made ==
      LET p == Last(polls')
      IN  /\ Distinct(Clean(form.options))
          /\ p.start = IF form.later THEN form.start ELSE now
          /\ p.end = IF form.preset = Custom THEN form.end ELSE p.start + form.preset
<1>1. ASSUME TypeInv, Next, Len(polls') > Len(polls)
      PROVE  Made
  <2> DEFINE asked == Payload(form)
  <2>1. /\ Submit /\ CreatePoll(asked) /\ Complete
        /\ form \in FormType /\ ServerInv
    BY <1>1, Launches DEF Submit, TypeInv, FormInv
  <2>2. /\ asked.options = Clean(form.options)
        /\ asked.start = (IF form.later THEN form.start ELSE Unset) /\ asked.start \in Int
        /\ asked.end = (IF form.preset = Custom THEN form.end ELSE Unset) /\ asked.end \in Int
        /\ asked.minutes = (IF form.preset = Custom THEN Standard ELSE form.preset)
        /\ asked.minutes \in Nat
    BY <2>1, PayloadType
  <2> HIDE DEF asked
  <2>3. Distinct(Clean(form.options))
    BY <2>1, <2>2 DEF CreatePoll, Acceptable
  <2>4. /\ polls' \in Seq(PollType) /\ Len(polls') = Len(polls) + 1
        /\ LET p == polls'[Len(polls) + 1]
           IN  /\ p.start = IF asked.start = Unset THEN now ELSE asked.start
               /\ p.end = IF asked.end = Unset THEN p.start + asked.minutes ELSE asked.end
    BY <2>1, <2>2, CreateType
  <2>5. Last(polls') = polls'[Len(polls) + 1]
    BY <2>4 DEF Last
  \* The browser has seen to it that the fields that are asked for are filled in.
  <2>6. /\ form.later => form.start # Unset
        /\ form.preset = Custom => form.end # Unset
    BY <2>1 DEF Complete
  <2>7. Last(polls').start = IF form.later THEN form.start ELSE now
    BY <2>2, <2>4, <2>5, <2>6
  <2>8. Last(polls').end = IF form.preset = Custom THEN form.end
                           ELSE Last(polls').start + form.preset
    BY <2>2, <2>4, <2>5, <2>6
  <2> QED BY <2>3, <2>7, <2>8
<1>2. TypeInv /\ [Next]_vars => [Len(polls') > Len(polls) => Made]_vars
  BY <1>1
<1>3. Init => TypeInv
  BY InitType
<1>4. TypeInv /\ [Next]_vars => TypeInv'
  BY NextType
<1> QED BY <1>2, <1>3, <1>4, PTL DEF Spec, PollIsAsFilledIn
=============================================================================
