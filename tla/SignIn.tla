------------------------------- MODULE SignIn -------------------------------
(***************************************************************************)
(* Signing in: the session context of a browser (AuthContext.jsx), its two *)
(* forms (Login.jsx and Register.jsx), the route that shows them (App.jsx) *)
(* and the accounts of the server (auth_controller.go with the users of    *)
(* mongo.go).                                                              *)
(*                                                                         *)
(* Every api call of a browser is a record of its own in "calls": it is    *)
(* sent, handled and answered in three steps, in any order with others,    *)
(* and its answer is applied by the code after the await, which still runs *)
(* when the form that sent it has been unmounted.  Passwords are left out: *)
(* a refused one is a call that fails.  One tab per browser.               *)
(***************************************************************************)
EXTENDS Integers, FiniteSets

CONSTANTS
    Browsers,
    Emails,
    MixedCase,    \* whether somebody types capital letters in an email
    StoreFails,   \* whether the storage may fail to take a new code
    UniqueEmails, \* whether the storage refuses a second user with an email: in memory it
                  \* does, in Mongo only a unique index does, and whether that index could
                  \* be made when the server started is not looked at
    Slots,        \* bound of the model: calls of a browser at a time
    MaxHaste,     \* bound of the model: what a person does without waiting for an
                  \* answer, between two loads of the page
    MaxCodes,     \* bound of the model: codes that are generated
    MaxRestarts   \* bound of the model: restarts of a server without a database

ASSUME SignInAssumption ==
    /\ {MixedCase, StoreFails, UniqueEmails} \subseteq BOOLEAN
    /\ Slots \in Nat \ {0} /\ MaxHaste \in Nat /\ MaxCodes \in Nat /\ MaxRestarts \in Nat

VARIABLES
    token,      \* token[b]: state and localStorage, the account it was made for
    user,       \* user[b]: the account the pages show
    loading,    \* loading[b]: the screen "Loading PollX..."
    page,       \* page[b]: the route
    form,       \* form[b]: the state of the form on that route
    timer,      \* timer[b]: Register will navigate to the polls in 1.5 seconds
    haste,      \* haste[b]: how often, since the page was loaded, its person has not
                \* waited for an answer before going on; for bound and properties only
    calls,      \* the api calls under way
    accounts,   \* the users of the storage; "by" is the browser whose form had the
                \* code made and may still be told, for PromptedCodeWorks
    codes,      \* how many codes have been generated: the last one's name
    admins,     \* the emails of administrators, as the server is configured
    restarts

vars == <<token, user, loading, page, form, timer, haste, calls, accounts, codes, admins, restarts>>
session == <<token, user, loading>>
server == <<accounts, codes, admins, restarts>>

\* An account is named by its email and by the number of codes there were before it.
None == <<>>
Ids == Emails \X (0 .. MaxCodes)
IsAdmin(id) == id # None /\ id[1] \in admins

\* The screen "Loading PollX..." is all there is.
Waits(b) == loading[b]

\* Which form a browser shows: administrators' pages show Login to everybody else.
Shown(b) ==
    IF Waits(b) THEN "none"
    ELSE IF page[b] = "admin" THEN (IF IsAdmin(user[b]) THEN "none" ELSE "login")
    ELSE IF page[b] \in {"login", "register"} THEN page[b] ELSE "none"

NewForm == [step |-> "first", email |-> None, mixed |-> FALSE, code |-> 0,
            given |-> FALSE, busy |-> {}, wait |-> FALSE, done |-> FALSE]

NoReply == [what |-> "none", code |-> 0, id |-> None]
Failed == [NoReply EXCEPT !.what = "failed"]

\* setLoading, and setVerifyLoading of Register.
Flag(kind) == IF kind = "verifyEmail" THEN "verify" ELSE "submit"
Submits(kind) == kind \in {"login", "verifyOtp", "register", "verifyEmail"}

Account(email, number, code, verified, by) ==
    [id |-> <<email, number>>, email |-> email, code |-> code, verified |-> verified, by |-> by]

\* SeedAdminUser, when the server starts.
Seeded(number) == {Account(email, number, 0, TRUE, None) : email \in admins}

Init ==
    /\ token = [b \in Browsers |-> None] /\ user = [b \in Browsers |-> None]
    /\ loading = [b \in Browsers |-> FALSE]
    /\ page = [b \in Browsers |-> "away"]
    /\ form = [b \in Browsers |-> NewForm]
    /\ timer = [b \in Browsers |-> FALSE] /\ haste = [b \in Browsers |-> 0]
    /\ admins \in SUBSET Emails
    /\ calls = {} /\ accounts = Seeded(0) /\ codes = 0 /\ restarts = 0

-----------------------------------------------------------------------------
(* The browser *)

FreeSlots(b) == {n \in 1 .. Slots : \A c \in calls : c.b = b => c.n # n}

\* No call of the page that b shows is under way.
Settled(b) == \A c \in calls : c.b # b

\* The person goes on, be there an answer to wait for or not.
GoOn(b) ==
    IF Settled(b) THEN UNCHANGED haste
    ELSE haste[b] < MaxHaste /\ haste' = [haste EXCEPT ![b] = @ + 1]

Call(b, n, kind) ==
    [b |-> b, n |-> n, kind |-> kind, email |-> None, mixed |-> FALSE, code |-> 0,
     id |-> None, to |-> "form", phase |-> "sent", reply |-> NoReply]

\* fetchUser, with the token that localStorage holds.
Me(b, n, id) == [Call(b, n, "me") EXCEPT !.id = id, !.to = "page"]

\* The form that sent it has been unmounted.
Left(c) == [c EXCEPT !.to = "page"]

\* The form of b becomes f and the calls become cs, unless the step unmounts the
\* form: its calls then have nothing but the session to change.
Update(b, f, cs) ==
    LET same == page'[b] = page[b] /\ Shown(b)' = Shown(b)
    IN  /\ form' = [form EXCEPT ![b] = IF same THEN f ELSE NewForm]
        /\ calls' = IF same THEN cs
                    ELSE {IF c.b = b /\ c.to = "form" THEN Left(c) ELSE c : c \in cs}

\* A call with what the form f holds.
Sent(b, n, kind, f) ==
    [Call(b, n, kind) EXCEPT !.email = f.email, !.mixed = f.mixed, !.code = f.code]

\* A call from the form, which becomes f.
Ask(b, f, kind) ==
    \E n \in FreeSlots(b) :
        /\ \A m \in FreeSlots(b) : n <= m
        /\ GoOn(b)
        /\ form' = [form EXCEPT ![b] = f]
        /\ calls' = calls \cup {Sent(b, n, kind, f)}
        /\ UNCHANGED <<session, page, timer, server>>

\* The forms: the two steps of Login, and those of Register.  Nothing but the button
\* that submits is ever disabled.
CredentialsForm(b) == Shown(b) = "login" /\ form[b].step = "first"
OtpForm(b) == Shown(b) = "login" /\ form[b].step = "code"
RegistrationForm(b) == Shown(b) = "register" /\ form[b].step = "first"
ActivationForm(b) == Shown(b) = "register" /\ form[b].step = "code" /\ ~form[b].done

\* Login's handleCredentialsSubmit.
SubmitCredentials(b, email) ==
    /\ CredentialsForm(b) /\ "submit" \notin form[b].busy
    /\ Ask(b, [form[b] EXCEPT !.email = email, !.busy = @ \cup {"submit"}], "login")

\* Register's handleSubmit.
SubmitRegistration(b, email, mixed) ==
    /\ RegistrationForm(b) /\ "submit" \notin form[b].busy
    /\ Ask(b, [form[b] EXCEPT !.email = email, !.mixed = mixed,
                              !.busy = @ \cup {"submit"}], "register")

\* The codes a person may have at hand: the one in the box and the one last mailed.
AtHand(b) ==
    ({form[b].code} \cup {a.code : a \in {x \in accounts : x.email = form[b].email}}) \ {0}

\* The form with a code in its box.
WithBox(f, code) == [f EXCEPT !.code = code, !.given = @ /\ code = f.code]

\* handleOtpSubmit.
SubmitOtp(b, code) ==
    /\ OtpForm(b) /\ "submit" \notin form[b].busy
    /\ Ask(b, [WithBox(form[b], code) EXCEPT !.busy = @ \cup {"submit"}], "verifyOtp")

\* handleVerify.
SubmitActivation(b, code) ==
    /\ ActivationForm(b) /\ "verify" \notin form[b].busy
    /\ Ask(b, [WithBox(form[b], code) EXCEPT !.busy = @ \cup {"verify"}], "verifyEmail")

\* handleResendOTP, not before the timer has run down.
ResendOtp(b) == OtpForm(b) /\ ~form[b].wait /\ Ask(b, form[b], "resendOtp")

\* handleResend.
ResendActivation(b) == ActivationForm(b) /\ Ask(b, form[b], "resendCode")

\* The form changes, and nothing else.
Alter(b, f) == form' = [form EXCEPT ![b] = f] /\ UNCHANGED <<session, page, timer, calls, server>>

\* The resend timer of Login has run down.
TimerEnds(b) == form[b].wait /\ Alter(b, [form[b] EXCEPT !.wait = FALSE]) /\ UNCHANGED haste

\* The button "Change Email", and "Edit Details".  The code stays in its box.
FirstStep(b) == Alter(b, [form[b] EXCEPT !.step = "first"]) /\ UNCHANGED haste
ChangeEmail(b) == OtpForm(b) /\ FirstStep(b)
EditDetails(b) == ActivationForm(b) /\ FirstStep(b)

\* The email is edited while its call is under way.
EditEmail(b, email) ==
    /\ (CredentialsForm(b) \/ RegistrationForm(b)) /\ form[b].busy # {}
    /\ GoOn(b)
    /\ Alter(b, [form[b] EXCEPT !.email = email])

\* A link, or the address: the form of the page that is left is unmounted.
Go(b, to) ==
    /\ ~Waits(b) /\ page[b] # to
    /\ page' = [page EXCEPT ![b] = to]
    /\ UNCHANGED <<session, timer, haste, server>>
    /\ Update(b, NewForm, calls)

\* The bars have a button for it.
OffersLogout(b) == ~Waits(b) /\ user[b] # None

\* logout: the calls under way are not cancelled.
Logout(b) ==
    /\ OffersLogout(b) /\ GoOn(b)
    /\ token' = [token EXCEPT ![b] = None] /\ user' = [user EXCEPT ![b] = None]
    /\ UNCHANGED <<loading, page, timer, server>>
    /\ Update(b, form[b], calls)

\* The page is loaded again: localStorage and the address are all that is left.  What
\* the server still does for the calls that are dropped is among what Elsewhere does.
Reload(b) ==
    LET left == {c \in calls : c.b # b}
    IN  /\ user' = [user EXCEPT ![b] = None]
        /\ loading' = [loading EXCEPT ![b] = token[b] # None]
        /\ form' = [form EXCEPT ![b] = NewForm] /\ timer' = [timer EXCEPT ![b] = FALSE]
        /\ haste' = [haste EXCEPT ![b] = 0]
        /\ IF token[b] = None THEN calls' = left
           ELSE calls' = left \cup {Me(b, 1, token[b])}
        /\ UNCHANGED <<token, page, server>>

\* The timeout that Register set after the activation, wherever the person is by now.
TimerNavigates(b) ==
    /\ timer[b] /\ ~Waits(b)
    /\ timer' = [timer EXCEPT ![b] = FALSE]
    /\ page' = [page EXCEPT ![b] = "away"]
    /\ UNCHANGED <<session, haste, server>>
    /\ Update(b, form[b], calls)

-----------------------------------------------------------------------------
(* The server *)

\* What is left of a call when its answer comes.
Answered(c, reply) ==
    [Call(c.b, c.n, c.kind) EXCEPT !.to = c.to, !.phase = "answered", !.reply = reply]

Reply(c, what, code, id) ==
    calls' = (calls \ {c}) \cup {Answered(c, [what |-> what, code |-> code, id |-> id])}

Of(email) == {a \in accounts : a.email = email}

\* Whose form a code is made for.
For(c) == IF c.to = "form" THEN <<c.b>> ELSE None

WithCode(email, by) ==
    {IF a.email = email THEN [a EXCEPT !.code = codes + 1, !.by = by] ELSE a : a \in accounts}

\* Mutant of Renew: the code is mailed and answered, and not stored.
RenewUnstored(email, by) ==
    /\ codes < MaxCodes /\ codes' = codes + 1
    /\ UNCHANGED <<accounts, admins, restarts>>

\* UpdateUserVerificationCode, with the next code, of the user with the email (there is one,
\* with UniqueEmails).  Its error is dropped.
Renew(email, by) ==
    /\ codes < MaxCodes /\ codes' = codes + 1
    /\ accounts' \in {WithCode(email, by)} \cup (IF StoreFails THEN {accounts} ELSE {})
    /\ UNCHANGED <<admins, restarts>>

\* Register and Login find no user; the password is hashed meanwhile.
FindNobody(c) ==
    /\ c.kind \in {"login", "register"} /\ c.phase = "sent" /\ Of(c.email) = {}
    /\ calls' = (calls \ {c}) \cup {[c EXCEPT !.phase = "creating"]}
    /\ UNCHANGED server

\* Mutant of Vacant: the storage takes any number of users with an email.
VacantAlways(email) == TRUE

\* CreateUser refuses an email that the storage has, if it holds emails unique.
Vacant(email) == UniqueEmails => Of(email) = {}

\* CreateUser; Register answers with the code and a token, Login with the code.
Create(c) ==
    /\ c.phase = "creating" /\ Vacant(c.email) /\ codes < MaxCodes
    /\ codes' = codes + 1
    /\ accounts' = accounts \cup {Account(c.email, codes, codes + 1, FALSE, For(c))}
    /\ IF c.kind = "register" THEN Reply(c, "token", codes + 1, <<c.email, codes>>)
                              ELSE Reply(c, "code", codes + 1, None)
    /\ UNCHANGED <<admins, restarts>>

\* Login with the administrator's own password.  Every administrator's account is among the
\* seeded ones here: the email and the password that are written into the code, and the
\* SeedAdminUser of this login, which makes or promotes the account of that email, are left out.
LoginAdmin(c) ==
    /\ c.kind = "login" /\ c.phase = "sent" /\ c.email \in admins
    /\ \E a \in Of(c.email) : Reply(c, "token", 0, a.id)
    /\ UNCHANGED server

\* Login of an account that has not been activated; its code stays.
LoginUnverified(c) ==
    /\ c.kind = "login" /\ c.phase = "sent"
    /\ \E a \in Of(c.email) : ~a.verified
    /\ Reply(c, "unverified", 0, None)
    /\ UNCHANGED server

\* Login of an activated account: a new code, which the answer contains.
Login(c) ==
    /\ c.kind = "login" /\ c.phase = "sent"
    /\ \E a \in Of(c.email) : a.verified
    /\ Renew(c.email, For(c))
    /\ Reply(c, "code", codes + 1, None)

\* The users whose code this is.  VerifyEmail takes the email as it was typed, and
\* the storage knows it in small letters.
Matching(kind, email, mixed, code) ==
    {a \in Of(email) : a.code = code /\ (kind = "verifyEmail" => ~mixed)}

\* VerifyOTP and VerifyEmail: the account is activated, and its code stays good.
Verify(c) ==
    /\ c.kind \in {"verifyOtp", "verifyEmail"} /\ c.phase = "sent"
    /\ \E a \in Matching(c.kind, c.email, c.mixed, c.code) :
        /\ accounts' = (accounts \ {a}) \cup {[a EXCEPT !.verified = TRUE]}
        /\ Reply(c, "token", 0, a.id)
    /\ UNCHANGED <<codes, admins, restarts>>

\* ResendOTP, whose answer does not contain the code, and ResendCode, whose does.
ResendBy(c) ==
    /\ c.kind \in {"resendOtp", "resendCode"} /\ c.phase = "sent" /\ Of(c.email) # {}
    /\ Renew(c.email, For(c))
    /\ IF c.kind = "resendOtp" THEN Reply(c, "done", 0, None) ELSE Reply(c, "code", codes + 1, None)

\* GetMe, with the user of the token.
GetMe(c) ==
    /\ c.kind = "me" /\ c.phase = "sent"
    /\ \E a \in accounts : a.id = c.id
    /\ Reply(c, "token", 0, c.id)
    /\ UNCHANGED server

\* A call fails: refused (a wrong password or code, a user that exists or does not, an
\* expired token, too many attempts), a failing storage, or no connection.
Fail(c) ==
    /\ c.phase # "answered"
    /\ Reply(c, "failed", 0, None)
    /\ UNCHANGED server

\* An answer is lost, and its call has failed: what the server has done stays, and
\* nobody is told of a code that was made.
Lose(c) ==
    LET coded == c.reply.what \in {"code", "done"} \/ c.kind = "register"
    IN  /\ c.phase = "answered" /\ c.reply # Failed
        /\ Reply(c, "failed", 0, None)
        /\ accounts' = {IF coded /\ a.by = <<c.b>> THEN [a EXCEPT !.by = None] ELSE a : a \in accounts}
        /\ UNCHANGED <<codes, admins, restarts>>

Handle(c) ==
    /\ \/ FindNobody(c) \/ Create(c) \/ LoginAdmin(c) \/ LoginUnverified(c) \/ Login(c)
       \/ Verify(c) \/ ResendBy(c) \/ GetMe(c) \/ Fail(c) \/ Lose(c)
    /\ UNCHANGED <<session, page, form, timer, haste>>

\* The same by people whose browsers are not in the model.
CreateElsewhere(email) ==
    /\ Vacant(email) /\ codes < MaxCodes
    /\ codes' = codes + 1
    /\ accounts' = accounts \cup {Account(email, codes, codes + 1, FALSE, None)}
    /\ UNCHANGED <<admins, restarts>>

RenewElsewhere(email) == Of(email) # {} /\ Renew(email, None)

VerifyElsewhere(email) ==
    /\ \E a \in Of(email) : accounts' = (accounts \ {a}) \cup {[a EXCEPT !.verified = TRUE]}
    /\ UNCHANGED <<codes, admins, restarts>>

Elsewhere(email) ==
    /\ CreateElsewhere(email) \/ RenewElsewhere(email) \/ VerifyElsewhere(email)
    /\ UNCHANGED <<session, page, form, timer, haste, calls>>

\* A server without a database starts again: accounts are gone, and calls have failed.
Restart ==
    /\ restarts < MaxRestarts /\ codes < MaxCodes
    /\ restarts' = restarts + 1 /\ codes' = codes + 1
    /\ accounts' = Seeded(codes)
    /\ calls' = {IF c.phase = "answered" THEN c ELSE Answered(c, Failed) : c \in calls}
    /\ UNCHANGED <<session, page, form, timer, haste, admins>>

-----------------------------------------------------------------------------
(* The answers *)

\* setLoading(false) of a form.
Idle(f, c) == [f EXCEPT !.busy = @ \ {Flag(c.kind)}]

\* The form of the call when its answer has come, if it is still there.
Onward(c, f) == IF c.to = "form" THEN f ELSE form[c.b]

\* fetchUser has the user; whoever has signed in or out meanwhile.
ShowUser(c) ==
    /\ c.kind = "me" /\ c.reply.what = "token"
    /\ user' = [user EXCEPT ![c.b] = c.reply.id] /\ loading' = [loading EXCEPT ![c.b] = FALSE]
    /\ UNCHANGED <<token, page, timer, haste, server>>
    /\ Update(c.b, form[c.b], calls \ {c})

\* Mutant of Forget: the token stays.
ForgetUserOnly(c) ==
    /\ c.kind = "me" /\ c.reply.what = "failed"
    /\ user' = [user EXCEPT ![c.b] = None] /\ loading' = [loading EXCEPT ![c.b] = FALSE]
    /\ UNCHANGED <<token, page, timer, haste, server>>
    /\ Update(c.b, form[c.b], calls \ {c})

\* fetchUser has failed: logout().
Forget(c) ==
    /\ c.kind = "me" /\ c.reply.what = "failed"
    /\ token' = [token EXCEPT ![c.b] = None] /\ user' = [user EXCEPT ![c.b] = None]
    /\ loading' = [loading EXCEPT ![c.b] = FALSE]
    /\ UNCHANGED <<page, timer, haste, server>>
    /\ Update(c.b, form[c.b], calls \ {c})

\* localStorage, setToken and setUser; the new token makes fetchUser run.
Keep(c, f) ==
    LET b == c.b  id == c.reply.id
    IN  /\ c.reply.what = "token"
        /\ token' = [token EXCEPT ![b] = id] /\ user' = [user EXCEPT ![b] = id]
        /\ UNCHANGED <<loading, haste, server>>
        /\ Update(b, Onward(c, Idle(f, c)), (calls \ {c}) \cup {Me(b, c.n, id)})

\* Mutant of Destination: a voter is sent to a page that there is not.
DestinationLost(id) == IF IsAdmin(id) THEN "admin" ELSE "verify-email"

\* Where Login goes with a session.
Destination(id) == IF IsAdmin(id) THEN "admin" ELSE "away"

\* login and verifyOTP have a token.
LoggedIn(c) ==
    /\ c.kind \in {"login", "verifyOtp"}
    /\ page' = [page EXCEPT ![c.b] = Destination(c.reply.id)] /\ UNCHANGED timer
    /\ Keep(c, form[c.b])

\* The second step of Register, with the code in its box.
Second(f, code) == [f EXCEPT !.step = "code", !.code = code, !.given = TRUE]

\* register has a token already.
Registered(c) ==
    /\ c.kind = "register" /\ UNCHANGED <<page, timer>>
    /\ Keep(c, Second(form[c.b], c.reply.code))

\* verifyEmail has one: the timer is set that will leave the page.
Activated(c) ==
    /\ c.kind = "verifyEmail"
    /\ timer' = [timer EXCEPT ![c.b] = TRUE] /\ UNCHANGED page
    /\ Keep(c, [form[c.b] EXCEPT !.done = TRUE])

\* What the answers of a form leave of the session.
FormAnswered(c, f) ==
    /\ UNCHANGED <<session, page, timer, haste, server>>
    /\ Update(c.b, Onward(c, IF Submits(c.kind) THEN Idle(f, c) ELSE f), calls \ {c})

\* Login asks for the second step, with the code in its box.
PromptOtp(c) ==
    /\ c.kind = "login" /\ c.reply.what = "code"
    /\ FormAnswered(c, [form[c.b] EXCEPT !.step = "code", !.code = c.reply.code,
                                         !.given = TRUE, !.wait = TRUE])

\* handleResend has a new code.
PromptAgain(c) ==
    /\ c.kind = "resendCode" /\ c.reply.what = "code"
    /\ FormAnswered(c, [form[c.b] EXCEPT !.code = c.reply.code, !.given = TRUE])

\* Login of an account that is not activated: the mailed code is asked for, and the box
\* keeps what it held.
AskForMailed(c) ==
    /\ c.kind = "login" /\ c.reply.what = "unverified"
    /\ FormAnswered(c, [form[c.b] EXCEPT !.step = "code", !.given = FALSE, !.wait = TRUE])

\* handleResendOTP is told that a code was mailed; the box keeps the one before.
OtpResent(c) ==
    /\ c.kind = "resendOtp" /\ c.reply.what = "done"
    /\ FormAnswered(c, [form[c.b] EXCEPT !.given = FALSE, !.wait = TRUE])

\* Mutant of ShowError: the form goes on waiting.
ShowErrorBusy(c) ==
    /\ c.kind # "me" /\ c.reply.what = "failed"
    /\ UNCHANGED <<session, page, timer, haste, server>>
    /\ Update(c.b, form[c.b], calls \ {c})

\* A call of the form has failed: the message is shown.
ShowError(c) ==
    /\ c.kind # "me" /\ c.reply.what = "failed"
    /\ FormAnswered(c, form[c.b])

Answer(c) ==
    /\ c.phase = "answered"
    /\ \/ ShowUser(c) \/ Forget(c) \/ LoggedIn(c) \/ Registered(c) \/ Activated(c)
       \/ PromptOtp(c) \/ PromptAgain(c) \/ AskForMailed(c) \/ OtpResent(c) \/ ShowError(c)

Act(b) ==
    \/ \E e \in Emails :
        \/ SubmitCredentials(b, e)
        \/ \E mixed \in {FALSE, MixedCase} : SubmitRegistration(b, e, mixed)
        \/ EditEmail(b, e)
    \/ \E code \in AtHand(b) : SubmitOtp(b, code) \/ SubmitActivation(b, code)
    \/ ResendOtp(b) \/ ResendActivation(b) \/ TimerEnds(b) \/ ChangeEmail(b) \/ EditDetails(b)
    \/ \E to \in {"away", "login", "register", "admin"} : Go(b, to)
    \/ Logout(b) \/ Reload(b) \/ TimerNavigates(b)

Next ==
    \/ \E b \in Browsers : Act(b)
    \/ \E c \in calls : Handle(c) \/ Answer(c)
    \/ \E e \in Emails : Elsewhere(e)
    \/ Restart

\* A call is handled in the end, or its connection fails, and its answer is applied.
Fairness ==
    \A b \in Browsers, n \in 1 .. Slots :
        WF_vars(\E c \in calls : c.b = b /\ c.n = n /\ (Handle(c) \/ Answer(c)))

Spec == Init /\ [][Next]_vars
FairSpec == Spec /\ Fairness

-----------------------------------------------------------------------------
Forms == [step : {"first", "code"}, email : Emails \cup {None}, mixed : BOOLEAN,
          code : 0 .. MaxCodes, given : BOOLEAN, busy : SUBSET {"submit", "verify"},
          wait : BOOLEAN, done : BOOLEAN]
Replies == [what : {"none", "failed", "unverified", "code", "token", "done"},
            code : 0 .. MaxCodes, id : Ids \cup {None}]
Kinds == {"me", "login", "verifyOtp", "resendOtp", "register", "verifyEmail", "resendCode"}

Calls == [b : Browsers, n : 1 .. Slots, kind : Kinds, email : Emails \cup {None},
          mixed : BOOLEAN, code : 0 .. MaxCodes, id : Ids \cup {None}, to : {"form", "page"},
          phase : {"sent", "creating", "answered"}, reply : Replies]
Users == [id : Ids, email : Emails, code : 0 .. MaxCodes, verified : BOOLEAN,
          by : {None} \cup {<<b>> : b \in Browsers}]

\* The variables keep to their types.
TypeOK ==
    /\ token \in [Browsers -> Ids \cup {None}] /\ user \in [Browsers -> Ids \cup {None}]
    /\ loading \in [Browsers -> BOOLEAN] /\ timer \in [Browsers -> BOOLEAN]
    /\ haste \in [Browsers -> 0 .. MaxHaste]
    /\ page \in [Browsers -> {"away", "login", "register", "admin"}]
    /\ form \in [Browsers -> Forms]
    /\ calls \subseteq Calls /\ accounts \subseteq Users
    /\ codes \in 0 .. MaxCodes /\ restarts \in 0 .. MaxRestarts /\ admins \subseteq Emails

\* Whoever waits for the answers before signing in or out is shown as the account that
\* the token is for, or as nobody, and as that account when the answers have come
\* (fetchUser, whose answer is applied whatever has happened since).
ShownIsSignedIn ==
    \A b \in Browsers : haste[b] = 0 =>
        /\ user[b] \in {token[b], None}
        /\ Settled(b) => user[b] = token[b]

\* A code that an answer has put into the box is accepted, unless a later code was made
\* for somebody else or in an answer that was lost, by Login or by Register, for whoever
\* waits for the answers (what the server stores, what it answers, what the form keeps).
Prompted(b) == Shown(b) # "none" /\ form[b].step = "code" /\ form[b].given

PromptedCodeWorks ==
    \A b \in Browsers : haste[b] = 0 /\ Settled(b) /\ Prompted(b) =>
        LET kind == IF Shown(b) = "login" THEN "verifyOtp" ELSE "verifyEmail"
        IN  \A a \in Of(form[b].email) : a.by = <<b>> =>
                a \in Matching(kind, form[b].email, form[b].mixed, form[b].code)

\* However registrations and first logins overlap, an email has one account, where the storage
\* holds emails unique (UniqueEmails).
OneAccount == \A a1, a2 \in accounts : a1.email = a2.email => a1 = a2

\* No button waits for ever, and no page, unless its person loads it again and again
\* (the finally blocks).
WaitingEnds ==
    \A b \in Browsers :
        /\ (loading[b] ~> ~loading[b]) \/ []<><<Reload(b)>>_vars
        /\ \A flag \in {"submit", "verify"} : flag \in form[b].busy ~> flag \notin form[b].busy

\* Nobody is taken from a page by a form that they have left.  The code does not have
\* this: answers and Register's timer navigate wherever the person is by then.
NobodyIsMoved ==
    [][\A b \in Browsers : page'[b] # page[b] =>
        \/ \E to \in {"away", "login", "register", "admin"} : Go(b, to)
        \/ form[b].busy # {} \/ form[b].done]_vars

\* ShownIsSignedIn for everybody.  The code does not have this: the answer of fetchUser
\* is applied after its token has been dropped or replaced.
ShownIsAlwaysSignedIn == \A b \in Browsers : user[b] \in {token[b], None}
=============================================================================
