------------------------------ MODULE Comments ------------------------------
(***************************************************************************)
(* The commentary of the polls: what voters' pages (PollView.jsx and       *)
(* MobilePollView.jsx) and the dashboards of moderators (Dashboard.jsx)    *)
(* show of the comments that the server keeps.                             *)
(*                                                                         *)
(* Nothing is pushed: a page asks for the comments when it has got its     *)
(* poll, or the dashboard the poll's analytics, and adds its own at once.  *)
(* Every api call is sent, handled and answered in three steps, in any     *)
(* order with others.  A text is the number of texts before it; the names  *)
(* of authors and times are left out.                                      *)
(***************************************************************************)
EXTENDS Integers, Sequences, FiniteSets, SequencesExt

CONSTANTS
    Pages,
    Polls,
    None,         \* no poll, or no page
    MaxTexts,     \* bound of the model: comments and reactions
    MaxCalls      \* bound of the model: calls of a page at a time

ASSUME PagesAssumption ==
    /\ None \notin Polls \cup Pages
    /\ MaxTexts \in Nat /\ MaxCalls \in Nat \ {0}

VARIABLES
    comments,   \* the stored comments in the order of their creation
    texts,      \* how many texts there are
    kind,       \* kind[g]: which of the three pages g is; never changes
    poll,       \* poll[g]: the poll that page g shows, or that is selected on it
    list,       \* list[g]: the state "comments", from top to bottom
    posting,    \* posting[g]: commentLoading, which only the mobile page sets
    calls,      \* the api calls under way
    calm,       \* calm[g], for properties only: the last list that g asked for has
                \* come, with no other call of g under way from the first request that
                \* led to it on, and no analytics have failed since
    removed     \* removed[g], for properties only: the texts g was told are deleted

vars == <<comments, texts, kind, poll, list, posting, calls, calm, removed>>
pageVars == <<kind, poll, list, posting>>
ghosts == <<calm, removed>>

Kinds == {"desktop", "mobile", "dashboard"}
CallKinds == {"load", "post", "delete", "details", "reset"}

NoReply == [ok |-> FALSE, list |-> <<>>]

Init ==
    /\ comments = <<>> /\ texts = 0
    /\ kind \in [Pages -> Kinds]
    /\ poll = [g \in Pages |-> None] /\ list = [g \in Pages |-> <<>>]
    /\ posting = [g \in Pages |-> FALSE]
    /\ calls = {}
    /\ calm = [g \in Pages |-> FALSE] /\ removed = [g \in Pages |-> {}]

-----------------------------------------------------------------------------
(* The pages *)

CallsOf(g) == {c \in calls : c.page = g}
Slots(g) == {n \in 1 .. MaxCalls : \A c \in CallsOf(g) : c.n # n}

Call(g, n, what, p, text, alone) ==
    [page |-> g, n |-> n, kind |-> what, poll |-> p, text |-> text, alone |-> alone,
     gone |-> FALSE, phase |-> "sent", reply |-> NoReply]

\* A call is sent; the others of its page are not alone any more.
Ask(g, what, p, text) ==
    /\ Slots(g) # {}
    /\ calls' = {IF c.page = g THEN [c EXCEPT !.alone = FALSE] ELSE c : c \in calls} \cup
        {Call(g, CHOOSE n \in Slots(g) : \A m \in Slots(g) : n <= m, what, p, text,
              CallsOf(g) = {})}

\* A voter's page has got a poll, whether it is the first, another one or the same again, and
\* asks for its comments: fetchActivePoll, fetchPoll.
Shows(g, p) ==
    /\ kind[g] # "dashboard"
    /\ poll' = [poll EXCEPT ![g] = p]
    /\ Ask(g, "load", p, 0)
    /\ UNCHANGED <<comments, texts, kind, list, posting, ghosts>>

\* A poll is selected, by the moderator or when the polls have come, and its analytics are
\* asked for: handlePollChange, loadInitialData.
Select(g, p) ==
    /\ kind[g] = "dashboard"
    /\ poll' = [poll EXCEPT ![g] = p]
    /\ Ask(g, "details", p, 0)
    /\ UNCHANGED <<comments, texts, kind, list, posting, ghosts>>

\* handleResetVotes, with the poll that is selected now.
Reset(g) ==
    /\ kind[g] = "dashboard" /\ poll[g] # None
    /\ Ask(g, "reset", poll[g], 0)
    /\ UNCHANGED <<comments, texts, pageVars, ghosts>>

\* What a page shows of a text.  A voter likes their own at once; nobody's likes are sent.
Entry(g, text, own) ==
    [text |-> text, poll |-> poll[g], liked |-> own /\ kind[g] = "desktop"]

\* Mutant of OnTop: whether there is a poll or not.
OnTopAnyway(g) ==
    /\ texts < MaxTexts
    /\ texts' = texts + 1
    /\ list' = [list EXCEPT ![g] = <<Entry(g, texts', TRUE)>> \o @]

\* A new entry on top, for the poll that is shown.
OnTop(g) ==
    /\ poll[g] # None /\ texts < MaxTexts
    /\ texts' = texts + 1
    /\ list' = [list EXCEPT ![g] = <<Entry(g, texts', TRUE)>> \o @]

\* handlePostComment: shown before it is sent.
Post(g) ==
    /\ kind[g] # "dashboard" /\ ~posting[g]
    /\ OnTop(g)
    /\ posting' = [posting EXCEPT ![g] = kind[g] = "mobile"]
    /\ Ask(g, "post", poll[g], texts')
    /\ UNCHANGED <<comments, kind, poll, ghosts>>

\* handleQuickReaction: never sent.
React(g) ==
    /\ kind[g] # "dashboard"
    /\ OnTop(g)
    /\ UNCHANGED <<comments, kind, poll, posting, calls, ghosts>>

\* toggleLike.
ToggleLike(g, i) ==
    /\ kind[g] = "desktop"
    /\ list' = [list EXCEPT ![g][i].liked = ~@]
    /\ UNCHANGED <<comments, texts, kind, poll, posting, calls, ghosts>>

\* handleDeleteComment.
Delete(g, i) ==
    /\ kind[g] = "dashboard"
    /\ Ask(g, "delete", list[g][i].poll, list[g][i].text)
    /\ UNCHANGED <<comments, texts, pageVars, ghosts>>

\* The page is left, to begin anew.  What was sent is still handled.
Leave(g) ==
    /\ poll[g] # None
    /\ poll' = [poll EXCEPT ![g] = None] /\ list' = [list EXCEPT ![g] = <<>>]
    /\ posting' = [posting EXCEPT ![g] = FALSE] /\ calm' = [calm EXCEPT ![g] = FALSE]
    /\ calls' = (calls \ CallsOf(g)) \cup
        {[c EXCEPT !.gone = TRUE] :
            c \in {d \in CallsOf(g) : d.phase = "sent" /\ d.kind \in {"post", "delete"}}}
    /\ UNCHANGED <<comments, texts, kind, removed>>

-----------------------------------------------------------------------------
(* The server *)

\* The answer, which may be lost on its way.
Reply(c, reply) ==
    \E r \in {reply, NoReply} :
        calls' = (calls \ {c}) \cup IF c.gone THEN {}
                                    ELSE {[c EXCEPT !.phase = "answered", !.reply = r]}

Ok == [NoReply EXCEPT !.ok = TRUE]

\* AddComment: approved at once, and the oldest first in both storages.
AddComment(c) ==
    /\ c.kind = "post"
    /\ comments' = Append(comments, [text |-> c.text, poll |-> c.poll, by |-> c.page])
    /\ Reply(c, Ok)

\* The elements of s at the places in I, in their order: what SelectSeq makes of s, said
\* without recursion.
Picked(s, I) ==
    LET Rank(i) == Cardinality({j \in I : j <= i})
    IN  [k \in 1 .. Cardinality(I) |-> s[CHOOSE i \in I : Rank(i) = k]]

\* GetComments.
OfPoll(p) == Picked(comments, {i \in DOMAIN comments : comments[i].poll = p})

GetComments(c) ==
    LET found == OfPoll(c.poll)
    IN  /\ c.kind = "load"
        /\ Reply(c, [ok |-> TRUE, list |-> [i \in DOMAIN found |->
                        [text |-> found[i].text, poll |-> c.poll, liked |-> FALSE]]])
        /\ UNCHANGED comments

\* DeleteComment: in memory a comment that is not there is an error, in Mongo it is not.
DeleteComment(c) ==
    /\ c.kind = "delete"
    /\ comments' = Picked(comments, {i \in DOMAIN comments : comments[i].text # c.text})
    /\ Reply(c, Ok)

\* GetAnalytics and ResetActivePoll, which leave the comments alone.
OtherRequest(c) == c.kind \in {"details", "reset"} /\ Reply(c, Ok) /\ UNCHANGED comments

\* Refused, for the length of the text or the rights of the user, or failed.
Fail(c) == Reply(c, NoReply) /\ UNCHANGED comments

Handle(c) ==
    /\ c.phase = "sent"
    /\ AddComment(c) \/ GetComments(c) \/ DeleteComment(c) \/ OtherRequest(c) \/ Fail(c)
    /\ UNCHANGED <<texts, pageVars, ghosts>>

\* What others do.
CommentElsewhere(p) ==
    /\ texts < MaxTexts /\ texts' = texts + 1
    /\ comments' = Append(comments, [text |-> texts', poll |-> p, by |-> None])
    /\ UNCHANGED <<pageVars, calls, ghosts>>

DeleteElsewhere(i) ==
    /\ comments' = RemoveAt(comments, i)
    /\ UNCHANGED <<texts, pageVars, calls, ghosts>>

-----------------------------------------------------------------------------
(* The answers *)

\* The analytics of the poll have come and its comments are asked for: loadPollDetails,
\* loadComments.
DetailsAnswered(c) ==
    /\ c.kind = "details" /\ c.reply.ok
    /\ calls' = (calls \ {c}) \cup {Call(c.page, c.n, "load", c.poll, 0, c.alone)}
    /\ UNCHANGED <<list, posting, ghosts>>

\* Logged.  The comments are not asked for: those of the poll before stay.
DetailsFailed(c) ==
    /\ c.kind = "details" /\ ~c.reply.ok
    /\ calls' = calls \ {c}
    /\ calm' = [calm EXCEPT ![c.page] = FALSE]
    /\ UNCHANGED <<list, posting, removed>>

\* The analytics are asked for again, of the poll that was selected when the reset was sent.
ResetAnswered(c) ==
    /\ c.kind = "reset"
    /\ calls' = (calls \ {c}) \cup
        IF c.reply.ok THEN {Call(c.page, c.n, "details", c.poll, 0, c.alone)} ELSE {}
    /\ UNCHANGED <<list, posting, ghosts>>

\* Mutant of Loaded: what was on the page stays on top.
LoadedKept(g, new) == list[g] \o new

\* setComments: whatever is on the page is replaced.
Loaded(g, new) == new

ListAnswered(c) ==
    /\ c.kind = "load" /\ c.reply.ok
    /\ list' = [list EXCEPT ![c.page] = Loaded(c.page, c.reply.list)]
    /\ calm' = [calm EXCEPT ![c.page] = c.alone]
    /\ UNCHANGED <<posting, removed>>

\* The list stays as it is, of whichever poll.
ListFailed(c) ==
    /\ c.kind = "load" /\ ~c.reply.ok
    /\ calm' = [calm EXCEPT ![c.page] = FALSE]
    /\ UNCHANGED <<list, posting, removed>>

\* The page does not tell whether the comment was taken.
PostAnswered(c) ==
    /\ c.kind = "post"
    /\ posting' = [posting EXCEPT ![c.page] = FALSE]
    /\ UNCHANGED <<list, ghosts>>

\* Mutant of Without: the list is left for the next load.
WithoutNone(entries, text) == entries

Without(entries, text) == Picked(entries, {i \in DOMAIN entries : entries[i].text # text})

DeleteAnswered(c) ==
    /\ c.kind = "delete" /\ c.reply.ok
    /\ list' = [list EXCEPT ![c.page] = Without(@, c.text)]
    /\ removed' = [removed EXCEPT ![c.page] = @ \cup {c.text}]
    /\ UNCHANGED <<posting, calm>>

\* An alert.
DeleteFailed(c) ==
    /\ c.kind = "delete" /\ ~c.reply.ok
    /\ UNCHANGED <<list, posting, ghosts>>

Answer(c) ==
    /\ c.phase = "answered"
    /\ \/ /\ ListAnswered(c) \/ ListFailed(c) \/ PostAnswered(c)
             \/ DeleteAnswered(c) \/ DeleteFailed(c)
          /\ calls' = calls \ {c}
       \/ DetailsAnswered(c) \/ DetailsFailed(c) \/ ResetAnswered(c)
    /\ UNCHANGED <<comments, texts, kind, poll>>

Act(g) ==
    \/ \E p \in Polls : Shows(g, p) \/ Select(g, p)
    \/ Reset(g) \/ Post(g) \/ React(g) \/ Leave(g)
    \/ \E i \in DOMAIN list[g] : ToggleLike(g, i) \/ Delete(g, i)

Next ==
    \/ \E g \in Pages : Act(g)
    \/ \E c \in calls : Handle(c) \/ Answer(c)
    \/ \E p \in Polls : CommentElsewhere(p)
    \/ \E i \in DOMAIN comments : DeleteElsewhere(i)

Spec == Init /\ [][Next]_vars

-----------------------------------------------------------------------------
(* Properties *)

Texts == 1 .. MaxTexts
Entries == [text : Texts, poll : Polls, liked : BOOLEAN]

\* The variables keep to their types.
TypeOK ==
    /\ comments \in Seq([text : Texts, poll : Polls, by : Pages \cup {None}])
    /\ texts \in 0 .. MaxTexts
    /\ kind \in [Pages -> Kinds]
    /\ poll \in [Pages -> Polls \cup {None}] /\ list \in [Pages -> Seq(Entries)]
    /\ posting \in [Pages -> BOOLEAN] /\ calm \in [Pages -> BOOLEAN]
    /\ removed \in [Pages -> SUBSET Texts]
    /\ \A c \in calls :
        /\ c.page \in Pages /\ c.n \in 1 .. MaxCalls /\ c.kind \in CallKinds
        /\ c.poll \in Polls /\ c.text \in 0 .. MaxTexts /\ {c.alone, c.gone} \subseteq BOOLEAN
        /\ c.phase \in {"sent", "answered"} /\ c.reply \in [ok : BOOLEAN, list : Seq(Entries)]

\* No call of the page is under way, and the last list it asked for came undisturbed: no other
\* call was under way since the page was given its poll, and no request for analytics, which
\* a list is to follow, has failed since.
Settled(g) == CallsOf(g) = {} /\ poll[g] # None /\ calm[g]

\* A comment is on the page of its author exactly once, from its first showing to the
\* copy of the server, and nothing else is shown twice (handlePostComment, whose entry
\* and the stored comment have different ids).
OwnIsShown ==
    \A g \in Pages :
        /\ \A i, j \in DOMAIN list[g] : list[g][i].text = list[g][j].text => i = j
        /\ Settled(g) => \A i \in DOMAIN comments :
            comments[i].by = g /\ comments[i].poll = poll[g] =>
                \E j \in DOMAIN list[g] : list[g][j].text = comments[i].text

\* A page that has settled shows comments of its poll, and none that it has deleted.  A
\* dashboard moves its selection first and asks for the comments only when the analytics have
\* come (handlePollChange, loadPollDetails); what becomes of its list when the analytics fail,
\* or when answers come out of order, is ListIsAlwaysTrue, which is not kept.
ListIsTrue ==
    \A g \in Pages : Settled(g) => \A i \in DOMAIN list[g] :
        list[g][i].poll = poll[g] /\ list[g][i].text \notin removed[g]

(* What the code does not keep *)

\* BadPhantom.cfg: what a settled page shows has been stored.  A post that fails is only
\* logged, and a reaction is never sent.
ShownIsStored ==
    \A g \in Pages : Settled(g) => \A j \in DOMAIN list[g] :
        \E i \in DOMAIN comments : comments[i].text = list[g][j].text

\* BadLoads.cfg: a page without calls shows comments of its poll, and none that it has
\* deleted.  A dashboard whose analytics fail has another poll selected than the one whose
\* comments it goes on showing; the lists of two loads come in any order; and one that was
\* read before a comment was deleted may come after it.
ListIsAlwaysTrue ==
    \A g \in Pages : CallsOf(g) = {} => \A i \in DOMAIN list[g] :
        list[g][i].poll = poll[g] /\ list[g][i].text \notin removed[g]

\* A comment that was stored is on the page of its author from its first
\* showing on.  The list that is loaded after a vote may have been read before it.
OwnStays ==
    \A g \in Pages : CallsOf(g) = {} /\ poll[g] # None => \A i \in DOMAIN comments :
        comments[i].by = g /\ comments[i].poll = poll[g] =>
            \E j \in DOMAIN list[g] : list[g][j].text = comments[i].text
=============================================================================
