---------------------------- MODULE RateLimiter ----------------------------
(***************************************************************************)
(* The login rate limiter (backend/middleware/ratelimit.go): per client    *)
(* address, a window of time that begins with an attempt and in which      *)
(* Limit attempts are let through.  RateLimitLogin reads the clock and the *)
(* record under one mutex, so an attempt is one step.                      *)
(*                                                                         *)
(* record.attempts is represented by the set of attempts it has counted;   *)
(* a record exists when that set is not empty.                             *)
(***************************************************************************)
EXTENDS Naturals, FiniteSets

CONSTANTS
    Attempts,    \* login attempts; each happens at most once
    AddressOf,   \* c.ClientIP() of an attempt
    Limit,       \* LoginRateLimiter.limit, 5 in the code
    Window,      \* LoginRateLimiter.window, 1 minute in the code
    MaxTime      \* bound of the model: time stops here

ASSUME AttemptsAssumption == IsFiniteSet(Attempts)
ASSUME LimitAssumption == Limit \in Nat \ {0}
ASSUME WindowAssumption == Window \in Nat /\ MaxTime \in Nat

Addresses == {AddressOf[a] : a \in Attempts}

VARIABLES
    now,         \* time.Now()
    counted,     \* record.attempts of each address
    firstSeen,   \* record.firstSeen of each address that has a record
    outcome,     \* "none", "admitted" or "refused" (429)
    when         \* history: the time of each attempt

limiterVars == <<now, counted, firstSeen, outcome, when>>

LimiterInit ==
    /\ now = 0
    /\ counted = [ip \in Addresses |-> {}]
    /\ firstSeen = [ip \in Addresses |-> 0]
    /\ outcome = [a \in Attempts |-> "none"]
    /\ when = [a \in Attempts |-> 0]

\* Mutant of Expired: the window ends one tick early.
ExpiredEarly(ip) == counted[ip] = {} \/ now >= firstSeen[ip] + Window

\* Mutant of Expired: the clock is not consulted, a record lives for ever.
NeverExpired(ip) == counted[ip] = {}

\* There is no record, or its window is over.
Expired(ip) == counted[ip] = {} \/ now > firstSeen[ip] + Window

Decide(a, result) ==
    /\ outcome[a] = "none"
    /\ outcome' = [outcome EXCEPT ![a] = result]
    /\ when' = [when EXCEPT ![a] = now]
    /\ UNCHANGED now

\* Mutant of BeginWindow: the record keeps the end of the window.
BeginWindowAtEnd(a) ==
    LET ip == AddressOf[a]
    IN  /\ Expired(ip)
        /\ counted' = [counted EXCEPT ![ip] = {a}]
        /\ firstSeen' = [firstSeen EXCEPT ![ip] = now + Window]
        /\ Decide(a, "admitted")

\* A new window begins with this attempt.
BeginWindow(a) ==
    LET ip == AddressOf[a]
    IN  /\ Expired(ip)
        /\ counted' = [counted EXCEPT ![ip] = {a}]
        /\ firstSeen' = [firstSeen EXCEPT ![ip] = now]
        /\ Decide(a, "admitted")

\* Mutant of Full: all addresses share one limit.
FullForAll(ip) == Cardinality(UNION {counted[x] : x \in Addresses}) >= Limit

Full(ip) == Cardinality(counted[ip]) >= Limit

CountAttempt(a) ==
    LET ip == AddressOf[a]
    IN  /\ ~Expired(ip) /\ ~Full(ip)
        /\ counted' = [counted EXCEPT ![ip] = @ \cup {a}]
        /\ UNCHANGED firstSeen
        /\ Decide(a, "admitted")

Refuse(a) ==
    LET ip == AddressOf[a]
    IN  /\ ~Expired(ip) /\ Full(ip)
        /\ UNCHANGED <<counted, firstSeen>>
        /\ Decide(a, "refused")

RateLimitLogin(a) == BeginWindow(a) \/ CountAttempt(a) \/ Refuse(a)

Tick ==
    /\ now < MaxTime
    /\ now' = now + 1
    /\ UNCHANGED <<counted, firstSeen, outcome, when>>

LimiterNext == Tick \/ \E a \in Attempts : RateLimitLogin(a)

LimiterSpec == LimiterInit /\ [][LimiterNext]_limiterVars

-----------------------------------------------------------------------------
(* Properties.                                                             *)

LimiterTypeOK ==
    /\ now \in 0..MaxTime
    /\ counted \in [Addresses -> SUBSET Attempts]
    /\ firstSeen \in [Addresses -> 0..now]
    /\ outcome \in [Attempts -> {"none", "admitted", "refused"}]
    /\ when \in [Attempts -> 0..now]

\* The attempts of an address that were let through from one time to another.
Admitted(ip, from, to) ==
    {a \in Attempts : /\ AddressOf[a] = ip /\ outcome[a] = "admitted"
                      /\ from <= when[a] /\ when[a] <= to}

\* However attempts are spread, no stretch of time as long as the window sees
\* twice the limit: two windows may meet in it, but not the attempt that began
\* the first of them.
LessThanTwiceTheLimit ==
    \A a \in Attempts :
        Cardinality(Admitted(AddressOf[a], when[a], when[a] + Window)) < 2 * Limit

\* An attempt is refused only when as many attempts as the limit, all of the
\* same address, were let through within the window before it.
RefusedOnlyWhenFull ==
    \A a \in Attempts : outcome[a] = "refused" =>
        \E from \in 0..when[a] :
            /\ when[a] <= from + Window
            /\ Cardinality(Admitted(AddressOf[a], from, when[a])) >= Limit

\* "Please wait 1 minute before trying again" is advice that works: a client
\* refused again more than a window after a refusal was let through up to the
\* limit in between.
WaitingHelps ==
    \A a, b \in Attempts :
        /\ outcome[a] = "refused" /\ outcome[b] = "refused"
        /\ AddressOf[a] = AddressOf[b]
        /\ when[b] > when[a] + Window
        => Cardinality(Admitted(AddressOf[a], when[a] + 1, when[b])) >= Limit

\* "IP-based sliding window rate limiter": no stretch of time as long as the
\* window sees more attempts of an address let through than the limit.
SlidingWindow ==
    \A a \in Attempts :
        Cardinality(Admitted(AddressOf[a], when[a], when[a] + Window)) <= Limit
=============================================================================
