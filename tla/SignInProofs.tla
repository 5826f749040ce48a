------------------------------ MODULE SignInProofs ------------------------------
(***************************************************************************)
(* What holds of signing in.                                               *)
(*                                                                         *)
(* Two parts: the limiter in front of the login, for any number of         *)
(* attempts and addresses, any limit, any window and any length of time;   *)
(* and sessions, forms and accounts behind it, for any number of browsers  *)
(* and emails, and any number of calls at a time.                          *)
(***************************************************************************)
EXTENDS SignIn, RateLimiter, FiniteSetTheorems, TLAPS

-----------------------------------------------------------------------------
(* The limiter: its types.                                                 *)

\* A step keeps the types.
LEMMA LimiterTypeKept == LimiterTypeOK /\ [LimiterNext]_limiterVars => LimiterTypeOK'
<1> SUFFICES ASSUME LimiterTypeOK, [LimiterNext]_limiterVars
             PROVE  LimiterTypeOK'
  OBVIOUS
<1> USE WindowAssumption DEF LimiterTypeOK, Addresses
<1>1. CASE Tick
  BY <1>1 DEF Tick
<1>2. ASSUME NEW a \in Attempts, BeginWindow(a)
      PROVE  LimiterTypeOK'
  BY <1>2 DEF BeginWindow, Decide
<1>3. ASSUME NEW a \in Attempts, CountAttempt(a)
      PROVE  LimiterTypeOK'
  BY <1>3 DEF CountAttempt, Decide
<1>4. ASSUME NEW a \in Attempts, Refuse(a)
      PROVE  LimiterTypeOK'
  BY <1>4 DEF Refuse, Decide
<1>5. CASE UNCHANGED limiterVars
  BY <1>5 DEF limiterVars
<1> QED
  BY <1>1, <1>2, <1>3, <1>4, <1>5 DEF LimiterNext, RateLimitLogin

\* The variables keep to their types; no record or answer is from the future.
THEOREM LimiterTypeCorrect == LimiterSpec => []LimiterTypeOK
<1>1. LimiterInit => LimiterTypeOK
  BY WindowAssumption DEF LimiterInit, LimiterTypeOK
<1> QED
  BY <1>1, LimiterTypeKept, PTL DEF LimiterSpec

-----------------------------------------------------------------------------
(* How a step changes the attempts let through.                            *)

\* Admitted(ip, from, to), of the state a step leads to.
AdmittedAfter(ip, from, to) ==
    {a \in Attempts : /\ AddressOf[a] = ip /\ outcome'[a] = "admitted"
                      /\ from <= when'[a] /\ when'[a] <= to}

\* A set of attempts is finite, and a smaller one has no more members.
LEMMA AttemptsFinite ==
    ASSUME NEW S \in SUBSET Attempts, NEW T \in SUBSET S
    PROVE  /\ IsFiniteSet(S) /\ Cardinality(S) \in Nat
           /\ IsFiniteSet(T) /\ Cardinality(T) \in Nat
           /\ Cardinality(T) <= Cardinality(S)
  BY AttemptsAssumption, FS_Subset, FS_CardinalityType

\* An attempt let through stays so, at the time it was made.
LEMMA AdmittedGrows ==
    ASSUME LimiterTypeOK, [LimiterNext]_limiterVars, NEW ip, NEW from \in Nat, NEW to \in Nat
    PROVE  Admitted(ip, from, to) \subseteq AdmittedAfter(ip, from, to)
  <1> USE DEF LimiterTypeOK, Admitted, AdmittedAfter
  <1>1. ASSUME NEW a \in Attempts, RateLimitLogin(a)
        PROVE  Admitted(ip, from, to) \subseteq AdmittedAfter(ip, from, to)
    BY <1>1 DEF RateLimitLogin, BeginWindow, CountAttempt, Refuse, Decide
  <1>2. CASE Tick \/ UNCHANGED limiterVars
    BY <1>2 DEF Tick, limiterVars
  <1> QED
    BY <1>1, <1>2 DEF LimiterNext

\* The only attempt a step can add is its own, made at this time.
LEMMA AdmittedByStep ==
    ASSUME LimiterTypeOK, NEW a \in Attempts, NEW result, Decide(a, result),
           NEW ip, NEW from \in Nat, NEW to \in Nat
    PROVE  /\ AdmittedAfter(ip, from, to) \subseteq Admitted(ip, from, to) \cup {a}
           /\ a \in AdmittedAfter(ip, from, to)
                => ip = AddressOf[a] /\ result = "admitted" /\ from <= now /\ now <= to
  BY DEF LimiterTypeOK, Admitted, AdmittedAfter, Decide

\* An answered attempt keeps its answer and its time.
LEMMA AnswersStay ==
    ASSUME LimiterTypeOK, [LimiterNext]_limiterVars, NEW a \in Attempts, outcome[a] # "none"
    PROVE  outcome'[a] = outcome[a] /\ when'[a] = when[a]
  BY DEF LimiterTypeOK, LimiterNext, Tick, RateLimitLogin, BeginWindow, CountAttempt, Refuse, Decide, limiterVars

-----------------------------------------------------------------------------
(* The windows.                                                            *)

\* A record holds attempts let through since its window began, the first of
\* them among these, and never more than the limit.
Windows ==
    \A ip \in Addresses :
        /\ counted[ip] \subseteq Admitted(ip, firstSeen[ip], now)
        /\ Cardinality(counted[ip]) <= Limit
        /\ counted[ip] # {} => \E f \in counted[ip] : when[f] = firstSeen[ip]
        /\ counted[ip] = {} => \A a \in Attempts :
                                   AddressOf[a] = ip => outcome[a] # "admitted"

\* The state of a record: what BeginWindow, CountAttempt and Refuse keep.
LEMMA WindowsKept == LimiterTypeOK /\ Windows /\ [LimiterNext]_limiterVars => Windows'
<1> SUFFICES ASSUME LimiterTypeOK, Windows, [LimiterNext]_limiterVars, NEW ip \in Addresses
             PROVE  /\ counted'[ip] \subseteq Admitted(ip, firstSeen[ip], now)'
                    /\ Cardinality(counted'[ip]) <= Limit
                    /\ counted'[ip] # {} =>
                           \E f \in counted'[ip] : when'[f] = firstSeen'[ip]
                    /\ counted'[ip] = {} =>
                           \A a \in Attempts : AddressOf[a] = ip => outcome'[a] # "admitted"
  BY DEF Windows
<1> USE DEF LimiterTypeOK, Admitted, Addresses
<1>1. ASSUME NEW a \in Attempts, BeginWindow(a), ip = AddressOf[a]
      PROVE  /\ counted'[ip] \subseteq Admitted(ip, firstSeen[ip], now)'
             /\ Cardinality(counted'[ip]) <= Limit
             /\ \E f \in counted'[ip] : when'[f] = firstSeen'[ip]
  <2>1. counted'[ip] = {a} /\ firstSeen'[ip] = now /\ when'[a] = now /\ now' = now
        /\ outcome'[a] = "admitted"
    BY <1>1 DEF BeginWindow, Decide
  <2>2. Cardinality({a}) = 1
    BY FS_Singleton
  <2> QED
    BY <1>1, <2>1, <2>2, LimitAssumption
<1>2. ASSUME NEW a \in Attempts, CountAttempt(a), ip = AddressOf[a]
      PROVE  /\ counted'[ip] \subseteq Admitted(ip, firstSeen[ip], now)'
             /\ Cardinality(counted'[ip]) <= Limit
             /\ \E f \in counted'[ip] : when'[f] = firstSeen'[ip]
  <2>1. /\ counted'[ip] = counted[ip] \cup {a} /\ firstSeen'[ip] = firstSeen[ip]
        /\ outcome[a] = "none" /\ outcome' = [outcome EXCEPT ![a] = "admitted"]
        /\ when' = [when EXCEPT ![a] = now] /\ now' = now
    BY <1>2 DEF CountAttempt, Decide
  <2>2. counted[ip] # {} /\ Cardinality(counted[ip]) < Limit
    <3>1. counted[ip] # {} /\ ~(Cardinality(counted[ip]) >= Limit)
      BY <1>2 DEF CountAttempt, Expired, Full
    <3>2. Cardinality(counted[ip]) \in Nat
      BY AttemptsFinite
    <3> QED
      BY <3>1, <3>2, LimitAssumption
  <2>3. Cardinality(counted'[ip]) <= Limit
    BY <2>1, <2>2, FS_AddElement, AttemptsFinite, LimitAssumption
  <2>4. counted[ip] \subseteq Admitted(ip, firstSeen[ip], now)
    BY DEF Windows
  <2>5. counted'[ip] \subseteq Admitted(ip, firstSeen[ip], now)'
    BY <2>1, <2>4, <1>2
  <2>6. PICK f \in counted[ip] : when[f] = firstSeen[ip]
    BY <2>2 DEF Windows
  <2>7. f # a /\ f \in Attempts
    BY <2>1, <2>4
  <2> QED
    BY <2>1, <2>3, <2>5, <2>6, <2>7
<1>3. ASSUME counted'[ip] = counted[ip], firstSeen'[ip] = firstSeen[ip], now <= now',
             \A b \in Attempts : outcome'[b] = "admitted" /\ AddressOf[b] = ip
                                     => outcome[b] = "admitted"
      PROVE  /\ counted'[ip] \subseteq Admitted(ip, firstSeen[ip], now)'
             /\ Cardinality(counted'[ip]) <= Limit
             /\ counted'[ip] # {} =>
                    \E f \in counted'[ip] : when'[f] = firstSeen'[ip]
             /\ counted'[ip] = {} =>
                    \A a \in Attempts : AddressOf[a] = ip => outcome'[a] # "admitted"
  <2>1. \A c \in counted[ip] : /\ c \in Attempts /\ AddressOf[c] = ip
                               /\ outcome[c] = "admitted"
                               /\ firstSeen[ip] <= when[c] /\ when[c] <= now
    BY DEF Windows
  <2>2. \A c \in counted[ip] : outcome'[c] = "admitted" /\ when'[c] = when[c]
    BY <2>1, AnswersStay
  <2>3. now' \in Nat /\ firstSeen[ip] \in Nat
    BY LimiterTypeKept, WindowAssumption
  <2> QED
    BY <1>3, <2>1, <2>2, <2>3 DEF Windows
<1>4. ASSUME NEW a \in Attempts, RateLimitLogin(a), ip # AddressOf[a] \/ Refuse(a)
      PROVE  /\ counted'[ip] = counted[ip] /\ firstSeen'[ip] = firstSeen[ip] /\ now' = now
             /\ \A b \in Attempts : outcome'[b] = "admitted" /\ AddressOf[b] = ip
                                        => outcome[b] = "admitted"
  BY <1>4 DEF RateLimitLogin, BeginWindow, CountAttempt, Refuse, Decide
<1>5. ASSUME Tick \/ UNCHANGED limiterVars
      PROVE  counted' = counted /\ firstSeen' = firstSeen /\ outcome' = outcome /\ now <= now'
  BY <1>5, WindowAssumption DEF Tick, limiterVars
<1>6. CASE Tick \/ UNCHANGED limiterVars
  BY <1>6, <1>3, <1>5
<1>7. ASSUME NEW a \in Attempts, RateLimitLogin(a)
      PROVE  /\ counted'[ip] \subseteq Admitted(ip, firstSeen[ip], now)'
             /\ Cardinality(counted'[ip]) <= Limit
             /\ counted'[ip] # {} =>
                    \E f \in counted'[ip] : when'[f] = firstSeen'[ip]
             /\ counted'[ip] = {} =>
                    \A b \in Attempts : AddressOf[b] = ip => outcome'[b] # "admitted"
  <2>1. CASE ip # AddressOf[a] \/ Refuse(a)
    BY <1>7, <2>1, <1>4, <1>3, WindowAssumption
  <2>2. CASE ip = AddressOf[a] /\ BeginWindow(a)
    BY <2>2, <1>1
  <2>3. CASE ip = AddressOf[a] /\ CountAttempt(a)
    BY <2>3, <1>2
  <2> QED
    BY <1>7, <2>1, <2>2, <2>3 DEF RateLimitLogin
<1> QED
  BY <1>6, <1>7 DEF LimiterNext

\* Windows holds in every state.
LEMMA WindowsInvariant == LimiterSpec => [](LimiterTypeOK /\ Windows)
<1>1. LimiterInit => LimiterTypeOK /\ Windows
  <2> SUFFICES ASSUME LimiterInit
               PROVE  LimiterTypeOK /\ Windows
    OBVIOUS
  <2>1. Cardinality({}) = 0
    BY FS_EmptySet
  <2> QED
    BY <2>1, LimitAssumption, WindowAssumption DEF LimiterInit, LimiterTypeOK, Windows
<1> QED
  BY <1>1, LimiterTypeKept, WindowsKept, PTL DEF LimiterSpec

-----------------------------------------------------------------------------
(* Refusals.                                                               *)

\* A refusal finds as many attempts as the limit let through since the window
\* of its address began, and that window is not over.
LEMMA RefusalFindsFull ==
    ASSUME LimiterTypeOK, Windows, NEW a \in Attempts, Refuse(a)
    PROVE  /\ firstSeen[AddressOf[a]] \in 0..now /\ now <= firstSeen[AddressOf[a]] + Window
           /\ \A from \in 0..firstSeen[AddressOf[a]] :
                  Cardinality(Admitted(AddressOf[a], from, now)) >= Limit
<1> DEFINE ip == AddressOf[a]
<1>1. ip \in Addresses /\ firstSeen[ip] \in 0..now /\ now \in Nat
  BY WindowAssumption DEF LimiterTypeOK, Addresses
<1>2. now <= firstSeen[ip] + Window /\ Cardinality(counted[ip]) >= Limit
  BY <1>1, WindowAssumption DEF Refuse, Expired, Full
<1>3. ASSUME NEW from \in 0..firstSeen[ip]
      PROVE  Cardinality(Admitted(ip, from, now)) >= Limit
  <2>1. counted[ip] \subseteq Admitted(ip, from, now)
    BY <1>1, <1>3 DEF Windows, Admitted, LimiterTypeOK
  <2>2. Admitted(ip, from, now) \subseteq Attempts
    BY DEF Admitted
  <2>3. /\ Cardinality(counted[ip]) <= Cardinality(Admitted(ip, from, now))
        /\ Cardinality(counted[ip]) \in Nat /\ Cardinality(Admitted(ip, from, now)) \in Nat
    BY <2>1, <2>2, AttemptsFinite
  <2> QED
    BY <2>3, <1>2, LimitAssumption
<1> QED
  BY <1>1, <1>2, <1>3

\* A refused attempt either was refused before the step, and keeps its time, or
\* is refused now.
LEMMA RefusedCases ==
    ASSUME LimiterTypeOK, [LimiterNext]_limiterVars, NEW a \in Attempts, outcome'[a] = "refused"
    PROVE  \/ outcome[a] = "refused" /\ when'[a] = when[a]
           \/ Refuse(a) /\ when'[a] = now
  BY DEF LimiterTypeOK, LimiterNext, Tick, RateLimitLogin, BeginWindow, CountAttempt, Refuse, Decide, limiterVars

\* What was let through up to some time is let through after the step too.
LEMMA AtLeastLimitStays ==
    ASSUME LimiterTypeOK, [LimiterNext]_limiterVars, NEW ip, NEW from \in Nat, NEW to \in Nat,
           Cardinality(Admitted(ip, from, to)) >= Limit
    PROVE  Cardinality(AdmittedAfter(ip, from, to)) >= Limit
<1>1. Admitted(ip, from, to) \subseteq AdmittedAfter(ip, from, to)
  BY AdmittedGrows
<1>2. AdmittedAfter(ip, from, to) \subseteq Attempts
  BY DEF Admitted, AdmittedAfter
<1>3. /\ Cardinality(Admitted(ip, from, to)) <= Cardinality(AdmittedAfter(ip, from, to))
      /\ Cardinality(Admitted(ip, from, to)) \in Nat
      /\ Cardinality(AdmittedAfter(ip, from, to)) \in Nat
  BY <1>1, <1>2, AttemptsFinite
<1> QED
  BY <1>3, LimitAssumption

\* A 429 is never unjustified: as many attempts as the limit, all of the same
\* address, were let through within the window before it.
THEOREM RefusalsJustified == LimiterSpec => []RefusedOnlyWhenFull
<1>1. LimiterInit => RefusedOnlyWhenFull
  BY DEF LimiterInit, RefusedOnlyWhenFull
<1>2. LimiterTypeOK /\ Windows /\ RefusedOnlyWhenFull /\ [LimiterNext]_limiterVars => RefusedOnlyWhenFull'
  <2> SUFFICES ASSUME LimiterTypeOK, Windows, RefusedOnlyWhenFull, [LimiterNext]_limiterVars,
                      NEW a \in Attempts, outcome'[a] = "refused"
               PROVE  \E from \in 0..when'[a] :
                          /\ when'[a] <= from + Window
                          /\ Cardinality(AdmittedAfter(AddressOf[a], from, when'[a])) >= Limit
    BY DEF RefusedOnlyWhenFull, Admitted, AdmittedAfter
  <2>1. CASE outcome[a] = "refused" /\ when'[a] = when[a]
    <3>1. PICK from \in 0..when[a] :
              /\ when[a] <= from + Window
              /\ Cardinality(Admitted(AddressOf[a], from, when[a])) >= Limit
      BY <2>1 DEF RefusedOnlyWhenFull
    <3>2. from \in Nat /\ when[a] \in Nat
      BY <3>1, WindowAssumption DEF LimiterTypeOK
    <3>3. Cardinality(AdmittedAfter(AddressOf[a], from, when[a])) >= Limit
      BY <3>1, <3>2, AtLeastLimitStays
    <3> QED
      BY <2>1, <3>1, <3>3
  <2>2. CASE Refuse(a) /\ when'[a] = now
    <3> DEFINE from == firstSeen[AddressOf[a]]
    <3>1. /\ from \in 0..now /\ now <= from + Window
          /\ Cardinality(Admitted(AddressOf[a], from, now)) >= Limit
      BY <2>2, RefusalFindsFull
    <3>2. from \in Nat /\ now \in Nat
      BY <3>1, WindowAssumption DEF LimiterTypeOK
    <3>3. Cardinality(AdmittedAfter(AddressOf[a], from, now)) >= Limit
      BY <3>1, <3>2, AtLeastLimitStays
    <3> QED
      BY <2>2, <3>1, <3>3
  <2> QED
    BY <2>1, <2>2, RefusedCases
<1> QED
  BY <1>1, <1>2, WindowsInvariant, PTL DEF LimiterSpec

\* Waiting as long as the window is always enough: whoever is refused again
\* later than that was let through up to the limit in between.
THEOREM WaitingSuffices == LimiterSpec => []WaitingHelps
<1>1. LimiterInit => WaitingHelps
  BY DEF LimiterInit, WaitingHelps
<1>2. LimiterTypeOK /\ Windows /\ WaitingHelps /\ [LimiterNext]_limiterVars => WaitingHelps'
  <2> SUFFICES ASSUME LimiterTypeOK, Windows, WaitingHelps, [LimiterNext]_limiterVars,
                      NEW a \in Attempts, NEW b \in Attempts,
                      outcome'[a] = "refused", outcome'[b] = "refused",
                      AddressOf[a] = AddressOf[b], when'[b] > when'[a] + Window
               PROVE  Cardinality(AdmittedAfter(AddressOf[a], when'[a] + 1, when'[b])) >= Limit
    BY DEF WaitingHelps, Admitted, AdmittedAfter
  <2>1. when[a] \in 0..now /\ when[b] \in 0..now /\ now \in Nat /\ Window \in Nat
    BY WindowAssumption DEF LimiterTypeOK
  <2>2. CASE outcome[b] = "refused" /\ when'[b] = when[b]
    <3>1. outcome[a] = "refused" /\ when'[a] = when[a]
      <4>1. CASE Refuse(a) /\ when'[a] = now
        BY <2>1, <2>2, <4>1
      <4> QED
        BY <4>1, RefusedCases
    <3>2. Cardinality(Admitted(AddressOf[a], when[a] + 1, when[b])) >= Limit
      BY <2>2, <3>1 DEF WaitingHelps
    <3>3. Cardinality(AdmittedAfter(AddressOf[a], when[a] + 1, when[b])) >= Limit
      <4>1. when[a] + 1 \in Nat /\ when[b] \in Nat
        BY <2>1
      <4> QED
        BY <3>2, <4>1, AtLeastLimitStays
    <3> QED
      BY <2>2, <3>1, <3>3
  <2>3. CASE Refuse(b) /\ when'[b] = now
    <3> DEFINE ip == AddressOf[b]
    <3>1. outcome[a] = "refused" /\ when'[a] = when[a]
      <4>1. CASE Refuse(a) /\ when'[a] = now
        BY <2>1, <2>3, <4>1
      <4> QED
        BY <4>1, RefusedCases
    <3>2. /\ firstSeen[ip] \in 0..now /\ now <= firstSeen[ip] + Window
          /\ \A from \in 0..firstSeen[ip] : Cardinality(Admitted(ip, from, now)) >= Limit
      BY <2>3, RefusalFindsFull
    <3>3. when[a] + 1 \in 0..firstSeen[ip]
      BY <2>1, <2>3, <3>1, <3>2
    <3>4. Cardinality(Admitted(ip, when[a] + 1, now)) >= Limit
      BY <3>2, <3>3
    <3>5. Cardinality(AdmittedAfter(ip, when[a] + 1, now)) >= Limit
      <4>1. when[a] + 1 \in Nat
        BY <2>1
      <4> QED
        BY <2>1, <3>4, <4>1, AtLeastLimitStays
    <3> QED
      BY <2>3, <3>1, <3>5
  <2> QED
    BY <2>2, <2>3, RefusedCases
<1> QED
  BY <1>1, <1>2, WindowsInvariant, PTL DEF LimiterSpec

-----------------------------------------------------------------------------
(* Two windows meeting.                                                    *)

\* The stretch of time as long as the window that begins at t, seen from the
\* window that is current: one that began before t has let through at least one
\* attempt that t does not see; one that began within the stretch follows at
\* most one other, of which the stretch misses the first attempt; after one that
\* began later the stretch is closed.
Stretches ==
    \A ip \in Addresses, t \in Nat :
        /\ firstSeen[ip] < t =>
               Admitted(ip, t, t + Window)
                   \subseteq {c \in counted[ip] : when[c] # firstSeen[ip]}
        /\ t <= firstSeen[ip] /\ firstSeen[ip] <= t + Window =>
               \E earlier \in SUBSET Attempts :
                   /\ Cardinality(earlier) < Limit
                   /\ Admitted(ip, t, t + Window) \subseteq earlier \cup counted[ip]
        /\ t + Window < firstSeen[ip] =>
               Cardinality(Admitted(ip, t, t + Window)) < 2 * Limit

\* A record without its first attempt holds fewer than the limit.
LEMMA AllButTheFirst ==
    ASSUME LimiterTypeOK, Windows, NEW ip \in Addresses
    PROVE  LET rest == {c \in counted[ip] : when[c] # firstSeen[ip]}
           IN  rest \subseteq Attempts /\ Cardinality(rest) < Limit
<1> DEFINE rest == {c \in counted[ip] : when[c] # firstSeen[ip]}
<1>1. rest \subseteq Attempts /\ counted[ip] \subseteq Attempts
  BY DEF LimiterTypeOK
<1>2. CASE counted[ip] = {}
  <2>1. rest = {}
    BY <1>2
  <2> QED
    BY <1>1, <2>1, FS_EmptySet, LimitAssumption
<1>3. CASE counted[ip] # {}
  <2>1. PICK f \in counted[ip] : when[f] = firstSeen[ip]
    BY <1>3 DEF Windows
  <2>2. rest \subseteq counted[ip] \ {f}
    BY <2>1
  <2>3. Cardinality(counted[ip] \ {f}) = Cardinality(counted[ip]) - 1
    BY <1>1, <2>1, AttemptsFinite, FS_RemoveElement
  <2>4. /\ Cardinality(rest) <= Cardinality(counted[ip] \ {f})
        /\ Cardinality(rest) \in Nat /\ Cardinality(counted[ip]) \in Nat
    BY <1>1, <2>2, AttemptsFinite
  <2>5. Cardinality(counted[ip]) <= Limit
    BY DEF Windows
  <2> HIDE DEF rest
  <2>6. Cardinality(rest) < Limit
    BY <2>3, <2>4, <2>5, LimitAssumption
  <2> QED
    BY <1>1, <2>6 DEF rest
<1> QED
  BY <1>2, <1>3

\* In every state no stretch sees twice the limit.
LEMMA StretchBound ==
    ASSUME LimiterTypeOK, Windows, Stretches, NEW ip \in Addresses, NEW t \in Nat
    PROVE  Cardinality(Admitted(ip, t, t + Window)) < 2 * Limit
<1> DEFINE seen == Admitted(ip, t, t + Window)
           rest == {c \in counted[ip] : when[c] # firstSeen[ip]}
<1>1. firstSeen[ip] \in Nat /\ counted[ip] \in SUBSET Attempts /\ Cardinality(counted[ip]) <= Limit
  BY WindowAssumption DEF LimiterTypeOK, Windows
<1>2. CASE firstSeen[ip] < t
  <2>1. seen \subseteq rest
    BY <1>2 DEF Stretches
  <2>2. rest \subseteq Attempts /\ Cardinality(rest) < Limit
    BY AllButTheFirst
  <2>3. Cardinality(seen) \in Nat /\ Cardinality(rest) \in Nat /\ Cardinality(seen) <= Cardinality(rest)
    BY <2>1, <2>2, AttemptsFinite
  <2> HIDE DEF seen, rest
  <2>4. Cardinality(seen) < 2 * Limit
    BY <2>2, <2>3, LimitAssumption
  <2> QED
    BY <2>4 DEF seen
<1>3. CASE t <= firstSeen[ip] /\ firstSeen[ip] <= t + Window
  <2>1. PICK earlier \in SUBSET Attempts :
            Cardinality(earlier) < Limit /\ seen \subseteq earlier \cup counted[ip]
    BY <1>3 DEF Stretches
  <2>2. /\ IsFiniteSet(earlier) /\ Cardinality(earlier) \in Nat
        /\ IsFiniteSet(counted[ip]) /\ Cardinality(counted[ip]) \in Nat
    BY <1>1, AttemptsFinite
  <2>3. Cardinality(earlier \cup counted[ip]) <= Cardinality(earlier) + Cardinality(counted[ip])
    <3>1. /\ Cardinality(earlier \cup counted[ip])
                 = Cardinality(earlier) + Cardinality(counted[ip])
                       - Cardinality(earlier \cap counted[ip])
          /\ Cardinality(earlier \cap counted[ip]) \in Nat
      <4>1. earlier \cap counted[ip] \in SUBSET Attempts
        OBVIOUS
      <4> QED
        BY <2>2, <4>1, AttemptsFinite, FS_Union
    <3> QED
      BY <3>1, <2>2
  <2>4. /\ Cardinality(seen) <= Cardinality(earlier \cup counted[ip])
        /\ Cardinality(seen) \in Nat /\ Cardinality(earlier \cup counted[ip]) \in Nat
    <3>1. earlier \cup counted[ip] \in SUBSET Attempts
      BY <1>1
    <3> QED
      BY <2>1, <3>1, AttemptsFinite
  <2> HIDE DEF seen
  <2>5. Cardinality(seen) < 2 * Limit
    BY <1>1, <2>1, <2>2, <2>3, <2>4, LimitAssumption
  <2> QED
    BY <2>5 DEF seen
<1>4. CASE t + Window < firstSeen[ip]
  BY <1>4 DEF Stretches
<1> QED
  BY <1>1, <1>2, <1>3, <1>4, WindowAssumption

\* What is seen of a stretch when the step adds nothing to it.
LEMMA NothingSeen ==
    ASSUME NEW ip, NEW t \in Nat,
           AdmittedAfter(ip, t, t + Window) \subseteq Admitted(ip, t, t + Window)
    PROVE  /\ Cardinality(AdmittedAfter(ip, t, t + Window))
                  <= Cardinality(Admitted(ip, t, t + Window))
           /\ Cardinality(AdmittedAfter(ip, t, t + Window)) \in Nat
           /\ Cardinality(Admitted(ip, t, t + Window)) \in Nat
<1>1. Admitted(ip, t, t + Window) \subseteq Attempts
  BY DEF Admitted
<1> QED
  BY <1>1, AttemptsFinite

\* Every attempt keeps Stretches, for any address and any stretch.
LEMMA StretchesKept == LimiterTypeOK /\ Windows /\ Stretches /\ [LimiterNext]_limiterVars => Stretches'
<1> SUFFICES ASSUME LimiterTypeOK, Windows, Stretches, [LimiterNext]_limiterVars, NEW ip \in Addresses, NEW t \in Nat
             PROVE  /\ firstSeen'[ip] < t =>
                           AdmittedAfter(ip, t, t + Window)
                               \subseteq {c \in counted'[ip] : when'[c] # firstSeen'[ip]}
                    /\ t <= firstSeen'[ip] /\ firstSeen'[ip] <= t + Window =>
                           \E earlier \in SUBSET Attempts :
                               /\ Cardinality(earlier) < Limit
                               /\ AdmittedAfter(ip, t, t + Window)
                                      \subseteq earlier \cup counted'[ip]
                    /\ t + Window < firstSeen'[ip] =>
                           Cardinality(AdmittedAfter(ip, t, t + Window)) < 2 * Limit
  BY DEF Stretches, Admitted, AdmittedAfter
<1> DEFINE seen == Admitted(ip, t, t + Window)
           seenAfter == AdmittedAfter(ip, t, t + Window)
           Goal == /\ firstSeen'[ip] < t =>
                          seenAfter \subseteq {c \in counted'[ip] : when'[c] # firstSeen'[ip]}
                   /\ t <= firstSeen'[ip] /\ firstSeen'[ip] <= t + Window =>
                          \E earlier \in SUBSET Attempts :
                              /\ Cardinality(earlier) < Limit
                              /\ seenAfter \subseteq earlier \cup counted'[ip]
                   /\ t + Window < firstSeen'[ip] => Cardinality(seenAfter) < 2 * Limit
<1>1. /\ firstSeen[ip] \in 0..now /\ now \in Nat /\ Window \in Nat /\ t + Window \in Nat
      /\ counted[ip] \subseteq Attempts
  BY WindowAssumption DEF LimiterTypeOK
<1>2. seen \subseteq Attempts /\ Cardinality(seen) < 2 * Limit
  BY StretchBound DEF Admitted
<1>3. \A c \in seen \cup counted[ip] : c \in Attempts /\ outcome[c] = "admitted" /\ when'[c] = when[c]
  BY AnswersStay DEF Admitted, Windows
<1>4. ASSUME NEW a \in Attempts, BeginWindow(a), ip = AddressOf[a]
      PROVE  Goal
  <2>1. counted'[ip] = {a} /\ firstSeen'[ip] = now /\ Decide(a, "admitted") /\ Expired(ip)
    BY <1>4 DEF BeginWindow, LimiterTypeOK
  <2>2. seenAfter \subseteq seen \cup {a} /\ (a \in seenAfter => t <= now /\ now <= t + Window)
    BY <1>1, <2>1, AdmittedByStep
  <2>3. \A c \in seen : t <= when[c] /\ when[c] <= now
    BY WindowAssumption DEF Admitted, LimiterTypeOK
  <2>4. CASE now < t
    <3>1. seen = {}
      BY <1>1, <1>2, <2>3, <2>4, WindowAssumption DEF LimiterTypeOK
    <3>2. seenAfter = {}
      BY <1>1, <2>2, <2>4, <3>1
    <3> HIDE DEF seen, seenAfter
    <3> QED
      BY <1>1, <2>1, <2>4, <3>2
  <2>5. CASE t <= now /\ now <= t + Window
    <3>1. Cardinality(seen) < Limit
      <4>1. CASE counted[ip] = {}
        <5>1. seen = {}
          BY <4>1 DEF Windows, Admitted
        <5> QED
          BY <5>1, FS_EmptySet, LimitAssumption
      <4>2. CASE counted[ip] # {}
        <5> DEFINE rest == {c \in counted[ip] : when[c] # firstSeen[ip]}
        <5>1. firstSeen[ip] < t
          BY <1>1, <2>1, <2>5, <4>2 DEF Expired
        <5>2. seen \subseteq rest
          BY <5>1 DEF Stretches
        <5>3. rest \subseteq Attempts /\ Cardinality(rest) < Limit
          BY AllButTheFirst
        <5>4. /\ Cardinality(seen) <= Cardinality(rest)
              /\ Cardinality(seen) \in Nat /\ Cardinality(rest) \in Nat
          BY <5>2, <5>3, AttemptsFinite
        <5> HIDE DEF seen, rest
        <5> QED
          BY <5>3, <5>4, LimitAssumption
      <4> QED
        BY <4>1, <4>2
    <3> HIDE DEF seen, seenAfter
    <3> QED
      BY <1>1, <1>2, <2>1, <2>2, <2>5, <3>1
  <2>6. CASE t + Window < now
    <3>1. seenAfter \subseteq seen
      BY <1>1, <2>2, <2>6
    <3>2. Cardinality(seenAfter) < 2 * Limit
      BY <1>2, <3>1, NothingSeen, LimitAssumption
    <3> HIDE DEF seen, seenAfter
    <3> QED
      BY <1>1, <2>1, <2>6, <3>2
  <2> QED
    BY <1>1, <2>4, <2>5, <2>6
<1>5. ASSUME NEW a \in Attempts, CountAttempt(a), ip = AddressOf[a]
      PROVE  Goal
  <2>1. /\ counted'[ip] = counted[ip] \cup {a} /\ firstSeen'[ip] = firstSeen[ip]
        /\ Decide(a, "admitted") /\ when'[a] = now /\ outcome[a] = "none"
    BY <1>5 DEF CountAttempt, LimiterTypeOK, Decide
  <2>2. seenAfter \subseteq seen \cup {a} /\ (a \in seenAfter => t <= now /\ now <= t + Window)
    BY <1>1, <2>1, AdmittedByStep
  <2>3. CASE firstSeen[ip] < t
    <3>1. seen \subseteq {c \in counted[ip] : when[c] # firstSeen[ip]}
      BY <2>3 DEF Stretches
    <3>2. a \in seenAfter => when'[a] # firstSeen'[ip]
      BY <1>1, <2>1, <2>2, <2>3
    <3> HIDE DEF seen, seenAfter
    <3> QED
      BY <1>1, <1>3, <2>1, <2>2, <2>3, <3>1, <3>2
  <2>4. CASE t <= firstSeen[ip] /\ firstSeen[ip] <= t + Window
    <3>1. PICK earlier \in SUBSET Attempts :
              Cardinality(earlier) < Limit /\ seen \subseteq earlier \cup counted[ip]
      BY <2>4 DEF Stretches
    <3> HIDE DEF seen, seenAfter
    <3> QED
      BY <1>1, <2>1, <2>2, <2>4, <3>1
  <2>5. CASE t + Window < firstSeen[ip]
    <3>1. seenAfter \subseteq seen
      BY <1>1, <2>2, <2>5
    <3>2. Cardinality(seenAfter) < 2 * Limit
      BY <1>2, <3>1, NothingSeen, LimitAssumption
    <3> HIDE DEF seen, seenAfter
    <3> QED
      BY <1>1, <2>1, <2>5, <3>2
  <2> QED
    BY <1>1, <2>3, <2>4, <2>5
<1>6. ASSUME counted'[ip] = counted[ip], firstSeen'[ip] = firstSeen[ip], seenAfter \subseteq seen
      PROVE  Goal
  <2>1. CASE firstSeen[ip] < t
    <3>1. seen \subseteq {c \in counted[ip] : when[c] # firstSeen[ip]}
      BY <2>1 DEF Stretches
    <3> HIDE DEF seen, seenAfter
    <3> QED
      BY <1>1, <1>3, <1>6, <2>1, <3>1
  <2>2. CASE t <= firstSeen[ip] /\ firstSeen[ip] <= t + Window
    <3>1. PICK earlier \in SUBSET Attempts :
              Cardinality(earlier) < Limit /\ seen \subseteq earlier \cup counted[ip]
      BY <2>2 DEF Stretches
    <3> HIDE DEF seen, seenAfter
    <3> QED
      BY <1>1, <1>6, <2>2, <3>1
  <2>3. CASE t + Window < firstSeen[ip]
    <3>1. Cardinality(seenAfter) < 2 * Limit
      BY <1>2, <1>6, NothingSeen, LimitAssumption
    <3> HIDE DEF seen, seenAfter
    <3> QED
      BY <1>1, <1>6, <2>3, <3>1
  <2> QED
    BY <1>1, <2>1, <2>2, <2>3
<1>7. ASSUME NEW a \in Attempts, RateLimitLogin(a), ip # AddressOf[a] \/ Refuse(a)
      PROVE  Goal
  <2>1. counted'[ip] = counted[ip] /\ firstSeen'[ip] = firstSeen[ip]
    BY <1>7 DEF RateLimitLogin, BeginWindow, CountAttempt, Refuse, LimiterTypeOK
  <2>2. seenAfter \subseteq seen
    BY <1>7 DEF RateLimitLogin, BeginWindow, CountAttempt, Refuse, Decide, LimiterTypeOK,
                Admitted, AdmittedAfter
  <2> HIDE DEF seen, seenAfter, Goal
  <2> QED
    BY <2>1, <2>2, <1>6
<1>8. ASSUME Tick \/ UNCHANGED limiterVars
      PROVE  Goal
  <2>1. counted'[ip] = counted[ip] /\ firstSeen'[ip] = firstSeen[ip] /\ seenAfter \subseteq seen
    BY <1>8 DEF Tick, limiterVars, Admitted, AdmittedAfter
  <2> HIDE DEF seen, seenAfter, Goal
  <2> QED
    BY <2>1, <1>6
<1>9. Goal
  <2> HIDE DEF Goal, seen, seenAfter
  <2> QED
    BY <1>4, <1>5, <1>7, <1>8 DEF LimiterNext, RateLimitLogin
<1> QED
  BY <1>9

\* No client gets twice the limit through in a stretch as long as the window,
\* however its attempts are spread over two windows.
THEOREM NeverTwiceTheLimit == LimiterSpec => []LessThanTwiceTheLimit
<1>1. LimiterInit => Stretches
  <2> SUFFICES ASSUME LimiterInit, NEW ip \in Addresses, NEW t \in Nat
               PROVE  /\ Admitted(ip, t, t + Window) = {}
                      /\ firstSeen[ip] = 0 /\ Cardinality({}) < Limit
                      /\ {} \in SUBSET Attempts /\ t + Window \in Nat
    BY WindowAssumption DEF Stretches
  <2> QED
    BY FS_EmptySet, LimitAssumption, WindowAssumption DEF LimiterInit, Admitted
<1>2. LimiterTypeOK /\ Windows /\ Stretches => LessThanTwiceTheLimit
  <2> SUFFICES ASSUME LimiterTypeOK, Windows, Stretches, NEW a \in Attempts
               PROVE  Cardinality(Admitted(AddressOf[a], when[a], when[a] + Window)) < 2 * Limit
    BY DEF LessThanTwiceTheLimit
  <2>1. AddressOf[a] \in Addresses /\ when[a] \in Nat
    BY WindowAssumption DEF LimiterTypeOK, Addresses
  <2> QED
    BY <2>1, StretchBound
<1> QED
  BY <1>1, <1>2, WindowsInvariant, StretchesKept, PTL DEF LimiterSpec

-----------------------------------------------------------------------------
(* The records: forms, calls and users after each of their changes.        *)

\* Nobody is nobody's account.
LEMMA NoneIsNoId == None \notin Ids
  BY DEF None, Ids

\* A form begins on its first step.
LEMMA NewFormType == NewForm \in Forms /\ NewForm.step = "first"
  BY SignInAssumption DEF NewForm, Forms, None

\* A new call of a page or of a form is one.
LEMMA CallType ==
  ASSUME NEW b \in Browsers, NEW n \in 1 .. Slots, NEW kind \in Kinds
  PROVE  /\ Call(b, n, kind) \in Calls
         /\ Call(b, n, kind).b = b /\ Call(b, n, kind).n = n /\ Call(b, n, kind).kind = kind
         /\ Call(b, n, kind).to = "form" /\ Call(b, n, kind).phase = "sent"
  BY SignInAssumption DEF Call, Calls, Replies, NoReply

\* The call of fetchUser, for the account whose token localStorage holds.
LEMMA MeType ==
  ASSUME NEW b \in Browsers, NEW n \in 1 .. Slots, NEW id \in Ids \cup {None}
  PROVE  /\ Me(b, n, id) \in Calls
         /\ Me(b, n, id).b = b /\ Me(b, n, id).kind = "me" /\ Me(b, n, id).id = id
         /\ Me(b, n, id).to = "page" /\ Me(b, n, id).phase = "sent"
<1>1. Call(b, n, "me") \in Calls /\ Call(b, n, "me").b = b /\ Call(b, n, "me").kind = "me"
      /\ Call(b, n, "me").phase = "sent"
  BY CallType DEF Kinds
<1>2. Me(b, n, id) \in Calls
  BY <1>1, Zenon DEF Me, Calls
<1> QED BY <1>1, <1>2 DEF Me, Calls

\* A call whose form is gone differs in nothing but where its answer goes.
LEMMA LeftType ==
  ASSUME NEW c \in Calls
  PROVE  /\ Left(c) \in Calls /\ Left(c).to = "page"
         /\ Left(c).b = c.b /\ Left(c).n = c.n /\ Left(c).kind = c.kind
         /\ Left(c).email = c.email /\ Left(c).id = c.id
         /\ Left(c).phase = c.phase /\ Left(c).reply = c.reply
  BY DEF Left, Calls

\* A call that a form sends carries the form's email.
LEMMA SentFields ==
  ASSUME NEW b, NEW n, NEW kind, NEW f
  PROVE  /\ Sent(b, n, kind, f).b = b /\ Sent(b, n, kind, f).kind = kind
         /\ Sent(b, n, kind, f).email = f.email
         /\ Sent(b, n, kind, f).to = "form" /\ Sent(b, n, kind, f).phase = "sent"
  BY DEF Sent, Call

\* A call that a form sends is a call.
LEMMA SentType ==
  ASSUME NEW b \in Browsers, NEW n \in 1 .. Slots, NEW kind \in Kinds, NEW f \in Forms
  PROVE  Sent(b, n, kind, f) \in Calls
<1>1. Call(b, n, kind) \in Calls
  BY CallType
<1>2. f.email \in Emails \cup {None} /\ f.mixed \in BOOLEAN /\ f.code \in 0 .. MaxCodes
  BY DEF Forms
<1> QED BY <1>1, <1>2, Zenon DEF Sent, Calls

\* A call that was answered keeps who made it and what for.
LEMMA AnsweredType ==
  ASSUME NEW c \in Calls, NEW r \in Replies
  PROVE  /\ Answered(c, r) \in Calls
         /\ Answered(c, r).b = c.b /\ Answered(c, r).kind = c.kind /\ Answered(c, r).to = c.to
         /\ Answered(c, r).phase = "answered" /\ Answered(c, r).reply = r
<1> DEFINE d == Call(c.b, c.n, c.kind)
<1>1. c.b \in Browsers /\ c.n \in 1 .. Slots /\ c.kind \in Kinds /\ c.to \in {"form", "page"}
  BY DEF Calls
<1>2. d \in Calls /\ d.b = c.b /\ d.kind = c.kind
  BY <1>1, CallType
<1>3. Answered(c, r) \in Calls
  BY <1>1, <1>2, Zenon DEF Answered, Calls
<1> QED BY <1>1, <1>2, <1>3 DEF Answered, Calls

\* A user with a new code, an activated one, and one whose code nobody is told of.
LEMMA UserType ==
  ASSUME NEW a \in Users, NEW code \in 0 .. MaxCodes,
         NEW by \in {None} \cup {<<b>> : b \in Browsers}
  PROVE  /\ [a EXCEPT !.code = code, !.by = by] \in Users
         /\ [a EXCEPT !.code = code, !.by = by].email = a.email
         /\ [a EXCEPT !.code = code, !.by = by].code = code
         /\ [a EXCEPT !.code = code, !.by = by].by = by
<1>1. [a EXCEPT !.code = code, !.by = by] \in Users
  BY Zenon DEF Users
<1> QED BY <1>1 DEF Users

\* Verifying an account (VerifyOTP, VerifyEmail) keeps everything else of it.
LEMMA VerifiedType ==
  ASSUME NEW a \in Users
  PROVE  LET v == [a EXCEPT !.verified = TRUE]
         IN  v \in Users /\ v.id = a.id /\ v.email = a.email /\ v.code = a.code /\ v.by = a.by
  BY DEF Users

\* An account whose code its browser was not told (the answer was lost) is an account still.
LEMMA UntoldType ==
  ASSUME NEW a \in Users
  PROVE  LET u == [a EXCEPT !.by = None]
         IN  u \in Users /\ u.email = a.email /\ u.code = a.code /\ u.by = None
  BY DEF Users

\* A user as it is created, and the users when the server starts.
LEMMA AccountType ==
  ASSUME NEW email \in Emails, NEW n \in 0 .. MaxCodes, NEW code \in 0 .. MaxCodes,
         NEW v \in BOOLEAN, NEW by \in {None} \cup {<<b>> : b \in Browsers}
  PROVE  /\ Account(email, n, code, v, by) \in Users
         /\ Account(email, n, code, v, by).email = email
         /\ Account(email, n, code, v, by).code = code
         /\ Account(email, n, code, v, by).by = by
<1>1. <<email, n>> \in Ids
  BY DEF Ids
<1> QED BY <1>1 DEF Account, Users

\* SeedAdminUser makes accounts.
LEMMA SeededType ==
  ASSUME NEW n \in 0 .. MaxCodes, admins \subseteq Emails
  PROVE  Seeded(n) \subseteq Users
<1>1. 0 \in 0 .. MaxCodes
  BY SignInAssumption
<1>2. \A email \in admins : Account(email, n, 0, TRUE, None) \in Users
  BY <1>1, AccountType
<1> QED BY <1>2 DEF Seeded

-----------------------------------------------------------------------------
(* Types.                                                                  *)

\* Login and Register know the email until they answer, and nobody else creates users.
CallsInv ==
    \A c \in calls :
        /\ c.phase # "answered" /\ c.kind \in {"login", "register"} => c.email \in Emails
        /\ c.phase = "creating" => c.kind \in {"login", "register"}

TypeInv == TypeOK /\ CallsInv

\* What a step of a form leaves.
LEMMA UpdateType ==
  ASSUME form \in [Browsers -> Forms], CallsInv,
         NEW b \in Browsers, NEW f \in Forms, NEW cs \in SUBSET Calls,
         \A c \in cs : c \in calls \/ (c.kind = "me" /\ c.phase = "sent"),
         Update(b, f, cs)
  PROVE  form' \in [Browsers -> Forms] /\ calls' \subseteq Calls /\ CallsInv'
<1>1. form' \in [Browsers -> Forms]
  BY NewFormType DEF Update
<1>2. \A d \in calls' : d \in cs \/ \E c \in cs : d = Left(c)
  BY DEF Update
<1>3. calls' \subseteq Calls
  BY <1>2, LeftType
<1>4. CallsInv'
  BY <1>2, LeftType DEF CallsInv
<1> QED BY <1>1, <1>3, <1>4

\* What a call from a form leaves.
LEMMA AskType ==
  ASSUME TypeInv, NEW b \in Browsers, NEW f \in Forms, NEW kind \in Kinds,
         kind \in {"login", "register"} => f.email \in Emails,
         Ask(b, f, kind)
  PROVE  TypeInv'
<1>1. form' \in [Browsers -> Forms] /\ haste' \in [Browsers -> 0 .. MaxHaste]
  BY SignInAssumption DEF TypeInv, TypeOK, Ask, GoOn
<1>2. PICK n \in 1 .. Slots : calls' = calls \cup {Sent(b, n, kind, f)}
  BY DEF Ask, FreeSlots
<1>3. calls' \subseteq Calls /\ CallsInv'
  BY <1>2, SentFields, SentType DEF TypeInv, TypeOK, CallsInv
<1> QED BY <1>1, <1>3 DEF TypeInv, TypeOK, Ask, session, server

\* What a change of a form alone leaves.
LEMMA AlterType ==
  ASSUME TypeInv, NEW b \in Browsers, NEW f \in Forms, Alter(b, f),
         haste' \in [Browsers -> 0 .. MaxHaste]
  PROVE  TypeInv'
  BY DEF TypeInv, TypeOK, CallsInv, Alter, session, server

\* The parts of the types that steps which only update forms and calls leave to others.
LEMMA SessionType ==
  ASSUME TypeInv, NEW b \in Browsers, NEW f \in Forms, NEW cs \in SUBSET Calls,
         \A c \in cs : c \in calls \/ (c.kind = "me" /\ c.phase = "sent"),
         Update(b, f, cs), UNCHANGED <<haste, server>>,
         token' \in [Browsers -> Ids \cup {None}], user' \in [Browsers -> Ids \cup {None}],
         loading' \in [Browsers -> BOOLEAN], timer' \in [Browsers -> BOOLEAN],
         page' \in [Browsers -> {"away", "login", "register", "admin"}]
  PROVE  TypeInv'
<1>1. form' \in [Browsers -> Forms] /\ calls' \subseteq Calls /\ CallsInv'
  BY UpdateType DEF TypeInv, TypeOK
<1> QED BY <1>1 DEF TypeInv, TypeOK, server

\* Steps of a person.
LEMMA ActType ==
  ASSUME TypeInv, NEW b \in Browsers, Act(b)
  PROVE  TypeInv'
<1> DEFINE f == form[b]
<1>0. f \in Forms
  BY DEF TypeInv, TypeOK
<1>1. ASSUME NEW e \in Emails, SubmitCredentials(b, e)
      PROVE  TypeInv'
  <2> DEFINE g == [f EXCEPT !.email = e, !.busy = @ \cup {"submit"}]
  <2>1. g \in Forms
    BY <1>0, Zenon DEF Forms
  <2>2. g.email = e
    BY <1>0 DEF Forms
  <2> QED BY <1>1, <2>1, <2>2, AskType DEF SubmitCredentials, Kinds
<1>2. ASSUME NEW e \in Emails, NEW mixed \in {FALSE, MixedCase}, SubmitRegistration(b, e, mixed)
      PROVE  TypeInv'
  <2> DEFINE g == [f EXCEPT !.email = e, !.mixed = mixed, !.busy = @ \cup {"submit"}]
  <2>1. mixed \in BOOLEAN
    BY SignInAssumption
  <2>2. g \in Forms
    BY <1>0, <2>1, Zenon DEF Forms
  <2>3. g.email = e
    BY <1>0 DEF Forms
  <2> QED BY <1>2, <2>2, <2>3, AskType DEF SubmitRegistration, Kinds
<1>3. ASSUME NEW e \in Emails, EditEmail(b, e)
      PROVE  TypeInv'
  <2>1. [f EXCEPT !.email = e] \in Forms
    BY <1>0 DEF Forms
  <2>2. haste' \in [Browsers -> 0 .. MaxHaste]
    BY <1>3, SignInAssumption DEF EditEmail, GoOn, TypeInv, TypeOK
  <2> QED BY <1>3, <2>1, <2>2, AlterType DEF EditEmail
<1>4. ASSUME NEW code \in AtHand(b), SubmitOtp(b, code) \/ SubmitActivation(b, code)
      PROVE  TypeInv'
  <2>1. code \in 0 .. MaxCodes
    BY <1>0 DEF AtHand, Forms, Users, TypeInv, TypeOK
  <2>2. WithBox(f, code) \in Forms
    BY <1>0, <2>1, Zenon DEF WithBox, Forms
  <2>3. ASSUME NEW flag \in {"submit", "verify"}
        PROVE  [WithBox(f, code) EXCEPT !.busy = @ \cup {flag}] \in Forms
    BY <2>2 DEF Forms
  <2> QED BY <1>4, <2>3, AskType DEF SubmitOtp, SubmitActivation, Kinds
<1>5. CASE ResendOtp(b) \/ ResendActivation(b)
  BY <1>0, <1>5, AskType DEF ResendOtp, ResendActivation, Kinds
<1>6. CASE TimerEnds(b) \/ ChangeEmail(b) \/ EditDetails(b)
  <2>1. [f EXCEPT !.wait = FALSE] \in Forms /\ [f EXCEPT !.step = "first"] \in Forms
    BY <1>0 DEF Forms
  <2>2. haste' \in [Browsers -> 0 .. MaxHaste]
    BY <1>6 DEF TimerEnds, ChangeEmail, EditDetails, FirstStep, TypeInv, TypeOK
  <2> QED BY <1>6, <2>1, <2>2, AlterType DEF TimerEnds, ChangeEmail, EditDetails, FirstStep
<1>7. ASSUME NEW to \in {"away", "login", "register", "admin"}, Go(b, to)
      PROVE  TypeInv'
  BY <1>7, NewFormType, SessionType DEF Go, TypeInv, TypeOK, session
<1>8. CASE Logout(b)
  <2>1. haste' \in [Browsers -> 0 .. MaxHaste]
    BY <1>8, SignInAssumption DEF Logout, GoOn, TypeInv, TypeOK
  <2>2. form' \in [Browsers -> Forms] /\ calls' \subseteq Calls /\ CallsInv'
    BY <1>0, <1>8, UpdateType DEF Logout, TypeInv, TypeOK
  <2> QED BY <1>8, <2>1, <2>2 DEF Logout, TypeInv, TypeOK, server
<1>9. CASE Reload(b)
  <2>1. 1 \in 1 .. Slots /\ token[b] \in Ids \cup {None}
    BY SignInAssumption DEF TypeInv, TypeOK
  <2>2. calls' \subseteq Calls /\ CallsInv'
    BY <1>9, <2>1, MeType DEF Reload, TypeInv, TypeOK, CallsInv
  <2>3. haste' \in [Browsers -> 0 .. MaxHaste]
    BY <1>9, SignInAssumption DEF Reload, TypeInv, TypeOK
  <2> QED BY <1>9, <2>2, <2>3, NewFormType DEF Reload, TypeInv, TypeOK, server
<1>10. CASE TimerNavigates(b)
  BY <1>0, <1>10, SessionType DEF TimerNavigates, TypeInv, TypeOK, session
<1> QED BY <1>1, <1>2, <1>3, <1>4, <1>5, <1>6, <1>7, <1>8, <1>9, <1>10 DEF Act

\* A reply that the server gives, or that is given for it.
LEMMA ReplyType ==
  ASSUME TypeInv, NEW c \in calls, NEW r \in Replies,
         calls' = (calls \ {c}) \cup {Answered(c, r)}
  PROVE  calls' \subseteq Calls /\ CallsInv'
  BY AnsweredType DEF TypeInv, TypeOK, CallsInv

\* A new code, whosever it is.
LEMMA RenewType ==
  ASSUME TypeInv, NEW email \in Emails, NEW by \in {None} \cup {<<b>> : b \in Browsers},
         Renew(email, by)
  PROVE  accounts' \subseteq Users /\ codes' \in 0 .. MaxCodes /\ codes + 1 \in 0 .. MaxCodes
<1>1. codes' = codes + 1 /\ codes + 1 \in 0 .. MaxCodes
  BY SignInAssumption DEF Renew, TypeInv, TypeOK
<1>2. WithCode(email, by) \subseteq Users
  <2>1. \A a \in accounts : a \in Users /\ [a EXCEPT !.code = codes + 1, !.by = by] \in Users
    BY <1>1, UserType DEF TypeInv, TypeOK
  <2> QED BY <2>1 DEF WithCode
<1> QED BY <1>1, <1>2 DEF Renew, TypeInv, TypeOK

\* An activated account.
LEMMA VerifyType ==
  ASSUME TypeInv, NEW a \in accounts,
         accounts' = (accounts \ {a}) \cup {[a EXCEPT !.verified = TRUE]}
  PROVE  accounts' \subseteq Users
  BY VerifiedType DEF TypeInv, TypeOK

\* A new account.
LEMMA CreateType ==
  ASSUME TypeInv, NEW email \in Emails, NEW by \in {None} \cup {<<b>> : b \in Browsers},
         codes < MaxCodes, accounts' = accounts \cup {Account(email, codes, codes + 1, FALSE, by)}
  PROVE  accounts' \subseteq Users /\ codes + 1 \in 0 .. MaxCodes
<1>1. codes \in 0 .. MaxCodes /\ codes + 1 \in 0 .. MaxCodes
  BY SignInAssumption DEF TypeInv, TypeOK
<1>2. Account(email, codes, codes + 1, FALSE, by) \in Users
  BY <1>1, AccountType
<1> QED BY <1>1, <1>2 DEF TypeInv, TypeOK

\* Steps of the server.
LEMMA HandleType ==
  ASSUME TypeInv, NEW c \in calls, Handle(c)
  PROVE  TypeInv'
<1>0. c \in Calls /\ c.b \in Browsers /\ For(c) \in {None} \cup {<<b>> : b \in Browsers}
  BY DEF TypeInv, TypeOK, Calls, For
<1>1. accounts' \subseteq Users /\ codes' \in 0 .. MaxCodes /\ restarts' \in 0 .. MaxRestarts
      /\ admins' \subseteq Emails /\ calls' \subseteq Calls /\ CallsInv'
  <2>1. ASSUME NEW what \in {"none", "failed", "unverified", "code", "token", "done"},
               NEW code \in 0 .. MaxCodes, NEW id \in Ids \cup {None}, Reply(c, what, code, id)
        PROVE  calls' \subseteq Calls /\ CallsInv'
    <3>1. [what |-> what, code |-> code, id |-> id] \in Replies
      BY DEF Replies
    <3> QED BY <2>1, <3>1, ReplyType DEF Reply
  <2>2. 0 \in 0 .. MaxCodes
    BY SignInAssumption
  <2>3. \A a \in accounts : a \in Users /\ a.id \in Ids /\ a.email \in Emails
    BY DEF TypeInv, TypeOK, Users
  <2>4. CASE FindNobody(c)
    <3>1. [c EXCEPT !.phase = "creating"] \in Calls
      BY <1>0 DEF Calls
    <3>2. LET d == [c EXCEPT !.phase = "creating"]
          IN  d.phase = "creating" /\ d.kind = c.kind /\ d.email = c.email
      BY <1>0 DEF Calls
    <3> QED BY <2>4, <3>1, <3>2 DEF FindNobody, TypeInv, TypeOK, CallsInv, server
  <2>5. CASE Create(c)
    <3>1. c.email \in Emails
      BY <2>5 DEF Create, TypeInv, CallsInv
    <3>2. accounts' \subseteq Users /\ codes + 1 \in 0 .. MaxCodes
      BY <1>0, <2>5, <3>1, CreateType DEF Create
    <3>3. <<c.email, codes>> \in Ids
      BY <3>1 DEF Ids, TypeInv, TypeOK
    <3> QED BY <2>1, <2>5, <3>2, <3>3 DEF Create, TypeInv, TypeOK
  <2>6. CASE LoginAdmin(c)
    <3>1. PICK a \in Of(c.email) : Reply(c, "token", 0, a.id)
      BY <2>6 DEF LoginAdmin
    <3> QED BY <2>1, <2>2, <2>3, <2>6, <3>1 DEF LoginAdmin, Of, TypeInv, TypeOK, server
  <2>7. CASE LoginUnverified(c) \/ Fail(c)
    BY <2>1, <2>2, <2>7 DEF LoginUnverified, Fail, TypeInv, TypeOK, server
  <2>8. CASE Login(c) \/ ResendBy(c)
    <3>1. c.email \in Emails
      BY <2>3, <2>8 DEF Login, ResendBy, Of
    <3>2. Renew(c.email, For(c)) /\ UNCHANGED <<admins, restarts>>
      BY <2>8 DEF Login, ResendBy, Renew
    <3>3. accounts' \subseteq Users /\ codes' \in 0 .. MaxCodes /\ codes + 1 \in 0 .. MaxCodes
      BY <1>0, <3>1, <3>2, RenewType
    <3> QED BY <2>1, <2>2, <2>8, <3>2, <3>3 DEF Login, ResendBy, TypeInv, TypeOK
  <2>9. CASE Verify(c)
    <3>1. PICK a \in accounts : /\ accounts' = (accounts \ {a}) \cup {[a EXCEPT !.verified = TRUE]}
                                /\ Reply(c, "token", 0, a.id)
      BY <2>9 DEF Verify, Matching, Of
    <3> QED BY <2>1, <2>2, <2>3, <2>9, <3>1, VerifyType DEF Verify, TypeInv, TypeOK
  <2>10. CASE GetMe(c)
    BY <1>0, <2>1, <2>2, <2>10 DEF GetMe, Calls, TypeInv, TypeOK, server
  <2>11. CASE Lose(c)
    <3>1. accounts' \subseteq Users
      BY <2>11, UntoldType DEF Lose, TypeInv, TypeOK
    <3> QED BY <2>1, <2>2, <2>11, <3>1 DEF Lose, TypeInv, TypeOK
  <2> QED
    BY <2>4, <2>5, <2>6, <2>7, <2>8, <2>9, <2>10, <2>11 DEF Handle
<1> QED BY <1>1 DEF Handle, TypeInv, TypeOK, session

\* Steps of others, and of the server as a whole.
LEMMA ElsewhereType ==
  ASSUME TypeInv, NEW email \in Emails, Elsewhere(email)
  PROVE  TypeInv'
<1>1. accounts' \subseteq Users /\ codes' \in 0 .. MaxCodes /\ UNCHANGED <<admins, restarts>>
  <2>1. CASE CreateElsewhere(email)
    BY <2>1, CreateType DEF CreateElsewhere
  <2>2. CASE RenewElsewhere(email)
    BY <2>2, RenewType DEF RenewElsewhere, Renew
  <2>3. CASE VerifyElsewhere(email)
    BY <2>3, VerifyType DEF VerifyElsewhere, Of, TypeInv, TypeOK
  <2> QED BY <2>1, <2>2, <2>3 DEF Elsewhere
<1> QED BY <1>1 DEF Elsewhere, TypeInv, TypeOK, CallsInv, session

\* A restart keeps the types: calls under way fail, and the administrators are there again.
LEMMA RestartType == TypeInv /\ Restart => TypeInv'
<1> SUFFICES ASSUME TypeInv, Restart
             PROVE  TypeInv'
  OBVIOUS
<1>1. codes \in 0 .. MaxCodes /\ codes' \in 0 .. MaxCodes /\ restarts' \in 0 .. MaxRestarts
  BY SignInAssumption DEF Restart, TypeInv, TypeOK
<1>2. accounts' \subseteq Users
  BY <1>1, SeededType DEF Restart, TypeInv, TypeOK
<1>3. Failed \in Replies
  BY SignInAssumption DEF Failed, NoReply, Replies
<1>4. calls' \subseteq Calls /\ CallsInv'
  BY <1>3, AnsweredType DEF Restart, TypeInv, TypeOK, CallsInv
<1> QED BY <1>1, <1>2, <1>4 DEF Restart, TypeInv, TypeOK, session

\* The forms that answers leave.
LEMMA AnswerForms ==
  ASSUME NEW f \in Forms, NEW code \in 0 .. MaxCodes
  PROVE  /\ \A c \in Calls : Idle(f, c) \in Forms
         /\ Second(f, code) \in Forms /\ [f EXCEPT !.done = TRUE] \in Forms
         /\ [f EXCEPT !.step = "code", !.code = code, !.given = TRUE, !.wait = TRUE] \in Forms
         /\ [f EXCEPT !.code = code, !.given = TRUE] \in Forms
         /\ [f EXCEPT !.step = "code", !.given = FALSE, !.wait = TRUE] \in Forms
         /\ [f EXCEPT !.given = FALSE, !.wait = TRUE] \in Forms
<1>1. \A c \in Calls : Idle(f, c) \in Forms
  BY DEF Idle, Forms
<1>2. [f EXCEPT !.done = TRUE] \in Forms
  BY DEF Forms
<1>3. Second(f, code) \in Forms
  BY Zenon DEF Second, Forms
<1>4. [f EXCEPT !.step = "code", !.code = code, !.given = TRUE, !.wait = TRUE] \in Forms
  BY Zenon DEF Forms
<1>5. [f EXCEPT !.code = code, !.given = TRUE] \in Forms
  BY Zenon DEF Forms
<1>6. [f EXCEPT !.step = "code", !.given = FALSE, !.wait = TRUE] \in Forms
  BY Zenon DEF Forms
<1>7. [f EXCEPT !.given = FALSE, !.wait = TRUE] \in Forms
  BY Zenon DEF Forms
<1> QED BY <1>1, <1>2, <1>3, <1>4, <1>5, <1>6, <1>7

\* An answer with a token.
LEMMA KeepType ==
  ASSUME TypeInv, NEW c \in calls, NEW f \in Forms, Keep(c, f),
         timer' \in [Browsers -> BOOLEAN],
         page' \in [Browsers -> {"away", "login", "register", "admin"}]
  PROVE  TypeInv'
<1> DEFINE me == Me(c.b, c.n, c.reply.id)
<1>1. c \in Calls /\ c.b \in Browsers /\ c.n \in 1 .. Slots /\ c.reply.id \in Ids \cup {None}
  BY DEF TypeInv, TypeOK, Calls, Replies
<1>2. me \in Calls /\ me.kind = "me" /\ me.phase = "sent"
  BY <1>1, MeType
<1>3. Onward(c, Idle(f, c)) \in Forms
  BY <1>1, AnswerForms, SignInAssumption DEF Onward, TypeInv, TypeOK
<1>4. (calls \ {c}) \cup {me} \in SUBSET Calls
  BY <1>2 DEF TypeInv, TypeOK
<1>5. Update(c.b, Onward(c, Idle(f, c)), (calls \ {c}) \cup {me})
  BY DEF Keep
<1>6. /\ token' \in [Browsers -> Ids \cup {None}] /\ user' \in [Browsers -> Ids \cup {None}]
      /\ UNCHANGED <<loading, haste, server>>
  BY <1>1 DEF Keep, TypeInv, TypeOK
<1> QED BY <1>1, <1>2, <1>3, <1>4, <1>5, <1>6, SessionType DEF TypeInv, TypeOK

\* An answer without.
LEMMA FormAnsweredType ==
  ASSUME TypeInv, NEW c \in calls, NEW f \in Forms, FormAnswered(c, f)
  PROVE  TypeInv'
<1>1. c \in Calls /\ c.b \in Browsers
  BY DEF TypeInv, TypeOK, Calls
<1>2. Onward(c, IF Submits(c.kind) THEN Idle(f, c) ELSE f) \in Forms
  BY <1>1, AnswerForms, SignInAssumption DEF Onward, TypeInv, TypeOK
<1> QED BY <1>1, <1>2, SessionType DEF FormAnswered, TypeInv, TypeOK, session

\* Steps of the pages when an answer has come.
LEMMA AnswerType ==
  ASSUME TypeInv, NEW c \in calls, Answer(c)
  PROVE  TypeInv'
<1> DEFINE f == form[c.b]
<1>0. /\ c \in Calls /\ c.b \in Browsers /\ f \in Forms
      /\ c.reply.id \in Ids \cup {None} /\ c.reply.code \in 0 .. MaxCodes
  BY DEF TypeInv, TypeOK, Calls, Replies
<1>1. CASE ShowUser(c) \/ Forget(c)
  <2>1. /\ token' \in [Browsers -> Ids \cup {None}] /\ user' \in [Browsers -> Ids \cup {None}]
        /\ loading' \in [Browsers -> BOOLEAN] /\ UNCHANGED <<page, timer, haste, server>>
    BY <1>0, <1>1 DEF ShowUser, Forget, TypeInv, TypeOK
  <2>2. Update(c.b, f, calls \ {c}) /\ calls \ {c} \in SUBSET Calls
    BY <1>1 DEF ShowUser, Forget, TypeInv, TypeOK
  <2> QED BY <1>0, <2>1, <2>2, SessionType DEF TypeInv, TypeOK
<1>2. CASE LoggedIn(c)
  BY <1>0, <1>2, KeepType DEF LoggedIn, Destination, TypeInv, TypeOK
<1>3. CASE Registered(c)
  BY <1>0, <1>3, AnswerForms, KeepType DEF Registered, TypeInv, TypeOK
<1>4. CASE Activated(c)
  BY <1>0, <1>4, AnswerForms, KeepType DEF Activated, TypeInv, TypeOK
<1>5. CASE PromptOtp(c) \/ PromptAgain(c) \/ AskForMailed(c) \/ OtpResent(c) \/ ShowError(c)
  BY <1>0, <1>5, AnswerForms, FormAnsweredType
  DEF PromptOtp, PromptAgain, AskForMailed, OtpResent, ShowError
<1> QED BY <1>1, <1>2, <1>3, <1>4, <1>5 DEF Answer

\* The first state.
LEMMA InitType == Init => TypeInv
<1> SUFFICES ASSUME Init
             PROVE  TypeInv
  OBVIOUS
<1>1. accounts \subseteq Users
  BY SignInAssumption, SeededType DEF Init
<1> QED BY <1>1, SignInAssumption, NewFormType DEF Init, TypeInv, TypeOK, CallsInv

\* Every step keeps the types.
LEMMA TypeKept == TypeInv /\ [Next]_vars => TypeInv'
<1> SUFFICES ASSUME TypeInv, [Next]_vars
             PROVE  TypeInv'
  OBVIOUS
<1>1. CASE UNCHANGED vars
  BY <1>1 DEF vars, TypeInv, TypeOK, CallsInv
<1> QED BY <1>1, ActType, HandleType, AnswerType, ElsewhereType, RestartType DEF Next

\* The types hold in every state.
LEMMA TypeInvHolds == Spec => []TypeInv
  BY InitType, TypeKept, PTL DEF Spec

\* The variables keep to their types, whatever answers come in which order.
THEOREM TypeCorrect == Spec => []TypeOK
<1>1. TypeInv => TypeOK
  BY DEF TypeInv
<1> QED BY <1>1, TypeInvHolds, PTL

-----------------------------------------------------------------------------
(* One account for an email.                                               *)

\* Neither people nor answers touch the server.
LEMMA PagesLeaveServer ==
  /\ \A b \in Browsers : Act(b) => UNCHANGED server
  /\ \A c \in calls : Answer(c) => UNCHANGED server
<1>1. ASSUME NEW b \in Browsers, Act(b)
      PROVE  UNCHANGED server
  BY <1>1 DEF Act, SubmitCredentials, SubmitRegistration, EditEmail, SubmitOtp, SubmitActivation,
    ResendOtp, ResendActivation, TimerEnds, ChangeEmail, EditDetails, FirstStep, Go, Logout,
    Reload, TimerNavigates, Ask, Alter
<1>2. ASSUME NEW c \in calls, Answer(c)
      PROVE  UNCHANGED server
  BY <1>2 DEF Answer, ShowUser, Forget, LoggedIn, Registered, Activated, PromptOtp, PromptAgain,
    AskForMailed, OtpResent, ShowError, Keep, FormAnswered
<1> QED BY <1>1, <1>2

\* How the users may change.
Changes(email) ==
    \/ UNCHANGED accounts
    \/ \E n, code \in 0 .. MaxCodes, by \in {None} \cup {<<b>> : b \in Browsers} :
        Vacant(email) /\ accounts' = accounts \cup {Account(email, n, code, FALSE, by)}
    \/ \E by \in {None} \cup {<<b>> : b \in Browsers} :
        codes + 1 \in 0 .. MaxCodes /\ accounts' = WithCode(email, by)
    \/ \E a \in accounts : accounts' = (accounts \ {a}) \cup {[a EXCEPT !.verified = TRUE]}
    \/ \E lost \in SUBSET accounts :
        accounts' = {IF a \in lost THEN [a EXCEPT !.by = None] ELSE a : a \in accounts}

\* No change makes a second account for an email.
LEMMA ChangesKeepOne ==
  ASSUME UniqueEmails, TypeInv, OneAccount, NEW email \in Emails, Changes(email)
  PROVE  OneAccount'
<1>0. accounts \subseteq Users
  BY DEF TypeInv, TypeOK
<1>1. ASSUME NEW n \in 0 .. MaxCodes, NEW code \in 0 .. MaxCodes,
             NEW by \in {None} \cup {<<b>> : b \in Browsers}, Vacant(email),
             accounts' = accounts \cup {Account(email, n, code, FALSE, by)}
      PROVE  OneAccount'
  <2>1. Account(email, n, code, FALSE, by).email = email
    BY DEF Account
  <2> QED BY <1>1, <2>1 DEF Vacant, Of, OneAccount
<1>2. ASSUME NEW by \in {None} \cup {<<b>> : b \in Browsers}, codes + 1 \in 0 .. MaxCodes,
             accounts' = WithCode(email, by)
      PROVE  OneAccount'
  <2> DEFINE new(a) == IF a.email = email THEN [a EXCEPT !.code = codes + 1, !.by = by] ELSE a
  <2>1. accounts' = {new(a) : a \in accounts}
    BY <1>2 DEF WithCode
  <2>2. \A a \in accounts : new(a).email = a.email
    BY <1>0 DEF Users
  <2> HIDE DEF new
  <2> QED BY <2>1, <2>2 DEF OneAccount
<1>3. ASSUME NEW a \in accounts,
             accounts' = (accounts \ {a}) \cup {[a EXCEPT !.verified = TRUE]}
      PROVE  OneAccount'
  <2>1. [a EXCEPT !.verified = TRUE].email = a.email
    BY <1>0, VerifiedType
  <2> QED BY <1>3, <2>1 DEF OneAccount
<1>4. ASSUME NEW lost \in SUBSET accounts,
             accounts' = {IF a \in lost THEN [a EXCEPT !.by = None] ELSE a : a \in accounts}
      PROVE  OneAccount'
  <2> DEFINE new(a) == IF a \in lost THEN [a EXCEPT !.by = None] ELSE a
  <2>1. accounts' = {new(a) : a \in accounts}
    BY <1>4
  <2>2. \A a \in accounts : new(a).email = a.email
    BY <1>0, UntoldType
  <2> HIDE DEF new
  <2> QED BY <2>1, <2>2 DEF OneAccount
<1> QED BY <1>1, <1>2, <1>3, <1>4 DEF Changes, OneAccount

\* What the server does for a call or for others is one of these changes.
LEMMA HandleChanges ==
  ASSUME TypeInv, NEW c \in calls, Handle(c)
  PROVE  UNCHANGED accounts \/ \E email \in Emails : Changes(email)
<1>0. /\ c \in Calls /\ For(c) \in {None} \cup {<<b>> : b \in Browsers}
      /\ \A a \in accounts : a.email \in Emails
      /\ codes < MaxCodes => codes + 1 \in 0 .. MaxCodes
  BY SignInAssumption DEF TypeInv, TypeOK, Calls, For, Users
<1>1. CASE Create(c)
  <2>1. c.email \in Emails /\ codes \in 0 .. MaxCodes /\ codes + 1 \in 0 .. MaxCodes
    BY <1>0, <1>1 DEF Create, TypeInv, TypeOK, CallsInv
  <2> QED BY <1>0, <1>1, <2>1 DEF Create, Changes
<1>2. CASE Login(c) \/ ResendBy(c)
  <2>1. c.email \in Emails
    BY <1>0, <1>2 DEF Login, ResendBy, Of
  <2> QED BY <1>0, <1>2, <2>1 DEF Login, ResendBy, Renew, Changes
<1>3. CASE Verify(c)
  BY <1>0, <1>3 DEF Verify, Matching, Of, Changes
<1>4. CASE Lose(c)
  <2> DEFINE lost == {a \in accounts :
                        (c.reply.what \in {"code", "done"} \/ c.kind = "register") /\ a.by = <<c.b>>}
  <2>1. accounts' = {IF a \in lost THEN [a EXCEPT !.by = None] ELSE a : a \in accounts}
    BY <1>4 DEF Lose
  <2>2. CASE accounts = {}
    BY <2>1, <2>2
  <2>3. CASE accounts # {}
    BY <1>0, <2>1, <2>3 DEF Changes
  <2> QED BY <2>2, <2>3
<1>5. CASE FindNobody(c) \/ LoginAdmin(c) \/ LoginUnverified(c) \/ GetMe(c) \/ Fail(c)
  BY <1>5 DEF FindNobody, LoginAdmin, LoginUnverified, GetMe, Fail, server
<1> QED BY <1>1, <1>2, <1>3, <1>4, <1>5 DEF Handle

\* What another device does changes the accounts of one email, as Changes allows.
LEMMA ElsewhereChanges ==
  ASSUME TypeInv, NEW email \in Emails, Elsewhere(email)
  PROVE  Changes(email)
<1>1. codes < MaxCodes => codes \in 0 .. MaxCodes /\ codes + 1 \in 0 .. MaxCodes
  BY SignInAssumption DEF TypeInv, TypeOK
<1> QED BY <1>1 DEF Elsewhere, CreateElsewhere, RenewElsewhere, Renew, VerifyElsewhere, Of, Changes

\* The server starts with one account for each administrator.
LEMMA SeededOne ==
  ASSUME admins \subseteq Emails, NEW n \in 0 .. MaxCodes
  PROVE  \A a1, a2 \in Seeded(n) : a1.email = a2.email => a1 = a2
<1>1. \A e \in admins : Account(e, n, 0, TRUE, None).email = e
  BY DEF Account
<1> QED BY <1>1 DEF Seeded

\* However registrations, first logins and restarts overlap, an email has one account, if the
\* storage holds emails unique (in Mongo, if its index could be made).
THEOREM OneAccountHolds ==
  ASSUME UniqueEmails
  PROVE  Spec => []OneAccount
<1>1. Init => OneAccount
  BY SignInAssumption, SeededOne DEF Init, OneAccount
<1>2. TypeInv /\ OneAccount /\ [Next]_vars => OneAccount'
  <2> SUFFICES ASSUME TypeInv, OneAccount, [Next]_vars
               PROVE  OneAccount'
    OBVIOUS
  <2>1. ASSUME NEW c \in calls, Handle(c)
        PROVE  OneAccount'
    BY <2>1, HandleChanges, ChangesKeepOne DEF OneAccount
  <2>2. ASSUME NEW email \in Emails, Elsewhere(email)
        PROVE  OneAccount'
    BY <2>2, ElsewhereChanges, ChangesKeepOne
  <2>3. CASE Restart
    <3>1. accounts' = Seeded(codes) /\ codes \in 0 .. MaxCodes /\ admins \subseteq Emails
      BY <2>3 DEF Restart, TypeInv, TypeOK
    <3> QED BY <3>1, SeededOne DEF OneAccount
  <2> QED
    BY <2>1, <2>2, <2>3, PagesLeaveServer DEF Next, vars, server, OneAccount
<1> QED BY <1>1, <1>2, TypeInvHolds, PTL DEF Spec

-----------------------------------------------------------------------------
(* The account that is shown.                                              *)

\* With token t and user u, browser x has at most the one call that its person waits for;
\* fetchUser asks for the account of the token, and during other calls nothing is amiss.
Told(x, cs, t, u) ==
    /\ \A c1, c2 \in cs : c1.b = x /\ c2.b = x => c1 = c2
    /\ u \in {t, None}
    /\ (\A c \in cs : c.b # x) => u = t
    /\ \A c \in cs : c.b = x =>
        IF c.kind = "me"
        THEN IF c.phase = "answered"
             THEN c.reply.what = "failed" \/ (c.reply.what = "token" /\ c.reply.id = t)
             ELSE c.id = t
        ELSE u = t

SessionInv == \A x \in Browsers : haste[x] = 0 => Told(x, calls, token[x], user[x])

\* An unmounted form changes nothing about it.
LEMMA UpdateTold ==
  ASSUME NEW b \in Browsers, NEW f, NEW cs \in SUBSET Calls, Update(b, f, cs),
         NEW x \in Browsers, NEW t, NEW u, Told(x, cs, t, u)
  PROVE  Told(x, calls', t, u)
<1> DEFINE g(c) == IF c.b = b /\ c.to = "form" THEN Left(c) ELSE c
<1>1. CASE calls' = cs
  BY <1>1
<1>2. CASE calls' = {g(c) : c \in cs}
  <2>1. \A c \in cs : /\ g(c).b = c.b /\ g(c).kind = c.kind /\ g(c).id = c.id
                      /\ g(c).phase = c.phase /\ g(c).reply = c.reply
    BY LeftType
  <2> HIDE DEF g
  <2> QED BY <1>2, <2>1 DEF Told
<1> QED BY <1>1, <1>2 DEF Update

\* What the server makes of a call.
LEMMA HandleCalls ==
  ASSUME TypeInv, NEW c \in calls, Handle(c)
  PROVE  \E d \in Calls :
            /\ calls' = (calls \ {c}) \cup {d} /\ d.b = c.b /\ d.kind = c.kind
            /\ c.kind = "me" => /\ d.phase = "answered"
                                /\ \/ d.reply.what = "failed"
                                   \/ c.phase = "sent" /\ d.reply.what = "token" /\ d.reply.id = c.id
<1>0. c \in Calls /\ 0 \in 0 .. MaxCodes
  BY SignInAssumption DEF TypeInv, TypeOK
<1>1. ASSUME NEW what \in {"none", "failed", "unverified", "code", "token", "done"},
             NEW code \in 0 .. MaxCodes, NEW id \in Ids \cup {None}, Reply(c, what, code, id),
             c.kind = "me" => what = "failed" \/ (c.phase = "sent" /\ what = "token" /\ id = c.id)
      PROVE  \E d \in Calls :
                /\ calls' = (calls \ {c}) \cup {d} /\ d.b = c.b /\ d.kind = c.kind
                /\ c.kind = "me" => /\ d.phase = "answered"
                                    /\ \/ d.reply.what = "failed"
                                       \/ c.phase = "sent" /\ d.reply.what = "token" /\ d.reply.id = c.id
  <2> DEFINE r == [what |-> what, code |-> code, id |-> id]
  <2>1. r \in Replies /\ r.what = what /\ r.id = id
    BY DEF Replies
  <2>2. calls' = (calls \ {c}) \cup {Answered(c, r)}
    BY <1>1 DEF Reply
  <2> HIDE DEF r
  <2>3. /\ Answered(c, r) \in Calls /\ Answered(c, r).b = c.b /\ Answered(c, r).kind = c.kind
        /\ Answered(c, r).phase = "answered" /\ Answered(c, r).reply = r
    BY <1>0, <2>1, AnsweredType
  <2> QED BY <1>1, <2>1, <2>2, <2>3
<1>2. \A a \in accounts : a.id \in Ids \cup {None}
  BY DEF TypeInv, TypeOK, Users
<1>3. codes < MaxCodes => /\ codes + 1 \in 0 .. MaxCodes
                          /\ c.email \in Emails => <<c.email, codes>> \in Ids
  BY SignInAssumption DEF TypeInv, TypeOK, Ids
<1>4. CASE FindNobody(c)
  <2> DEFINE d == [c EXCEPT !.phase = "creating"]
  <2>1. d \in Calls /\ d.b = c.b /\ d.kind = c.kind
    BY <1>0 DEF Calls
  <2> QED BY <1>4, <2>1 DEF FindNobody
<1>5. CASE Create(c)
  <2>1. c.email \in Emails /\ c.kind # "me"
    BY <1>5 DEF Create, TypeInv, CallsInv
  <2> QED BY <1>1, <1>3, <1>5, <2>1 DEF Create
<1>6. CASE LoginAdmin(c) \/ LoginUnverified(c) \/ Fail(c) \/ Lose(c)
  BY <1>0, <1>1, <1>2, <1>6 DEF LoginAdmin, LoginUnverified, Fail, Lose, Of
<1>7. CASE Login(c) \/ ResendBy(c)
  BY <1>0, <1>1, <1>3, <1>7 DEF Login, ResendBy, Renew
<1>8. CASE Verify(c)
  BY <1>0, <1>1, <1>2, <1>8 DEF Verify, Matching, Of
<1>9. CASE GetMe(c)
  BY <1>0, <1>1, <1>9 DEF GetMe, Calls
<1> QED BY <1>4, <1>5, <1>6, <1>7, <1>8, <1>9 DEF Handle

\* A person who does not go on before the answers sends no second call.
LEMMA AskTold ==
  ASSUME TypeInv, SessionInv, NEW b \in Browsers, NEW f, NEW kind \in Kinds \ {"me"},
         Ask(b, f, kind)
  PROVE  SessionInv'
<1>1. PICK n \in 1 .. Slots : calls' = calls \cup {Sent(b, n, kind, f)}
  BY DEF Ask, FreeSlots
<1>2. Sent(b, n, kind, f).b = b /\ Sent(b, n, kind, f).kind = kind
  BY SentFields
<1>3. /\ UNCHANGED <<token, user>>
      /\ \/ Settled(b) /\ UNCHANGED haste
         \/ haste' = [haste EXCEPT ![b] = @ + 1]
  BY DEF Ask, GoOn, session
<1>4. ASSUME NEW x \in Browsers, haste'[x] = 0
      PROVE  Told(x, calls', token'[x], user'[x])
  <2>1. haste[x] = 0 /\ (x = b => Settled(b))
    BY <1>3, <1>4, SignInAssumption DEF TypeInv, TypeOK
  <2>2. Told(x, calls, token[x], user[x])
    BY <2>1 DEF SessionInv
  <2> QED BY <1>1, <1>2, <1>3, <2>1, <2>2 DEF Told, Settled
<1> QED BY <1>4 DEF SessionInv

\* Steps of a person.
LEMMA ActTold ==
  ASSUME TypeInv, SessionInv, NEW b \in Browsers, Act(b)
  PROVE  SessionInv'
<1>1. ASSUME NEW kind \in Kinds \ {"me"}, NEW f, Ask(b, f, kind)
      PROVE  SessionInv'
  BY <1>1, AskTold
<1>2. CASE \E e \in Emails : \/ SubmitCredentials(b, e)
                            \/ \E mixed \in {FALSE, MixedCase} : SubmitRegistration(b, e, mixed)
  BY <1>1, <1>2 DEF SubmitCredentials, SubmitRegistration, Kinds
<1>3. CASE \E code \in AtHand(b) : SubmitOtp(b, code) \/ SubmitActivation(b, code)
  BY <1>1, <1>3 DEF SubmitOtp, SubmitActivation, Kinds
<1>4. CASE ResendOtp(b) \/ ResendActivation(b)
  BY <1>1, <1>4 DEF ResendOtp, ResendActivation, Kinds
<1>5. CASE TimerEnds(b) \/ ChangeEmail(b) \/ EditDetails(b)
  BY <1>5 DEF TimerEnds, ChangeEmail, EditDetails, FirstStep, Alter, session, SessionInv
<1>6. ASSUME NEW e \in Emails, EditEmail(b, e)
      PROVE  SessionInv'
  <2>1. ASSUME NEW x \in Browsers, haste'[x] = 0
        PROVE  haste[x] = 0
    BY <1>6, <2>1, SignInAssumption DEF EditEmail, GoOn, TypeInv, TypeOK
  <2> QED BY <1>6, <2>1 DEF EditEmail, Alter, session, SessionInv
<1>7. CASE (\E to \in {"away", "login", "register", "admin"} : Go(b, to)) \/ TimerNavigates(b)
  <2>1. PICK f : Update(b, f, calls)
    BY <1>7 DEF Go, TimerNavigates
  <2>2. UNCHANGED <<token, user, haste>>
    BY <1>7 DEF Go, TimerNavigates, session
  <2> QED BY <2>1, <2>2, UpdateTold DEF SessionInv, TypeInv, TypeOK
<1>8. CASE Logout(b)
  <2>1. Update(b, form[b], calls)
    BY <1>8 DEF Logout
  <2>2. ASSUME NEW x \in Browsers, haste'[x] = 0
        PROVE  Told(x, calls, token'[x], user'[x])
    <3>1. haste[x] = 0 /\ (x = b => Settled(b))
      BY <1>8, <2>2, SignInAssumption DEF Logout, GoOn, TypeInv, TypeOK
    <3> QED BY <1>8, <3>1 DEF Logout, Settled, SessionInv, Told, TypeInv, TypeOK
  <2> QED BY <2>1, <2>2, UpdateTold DEF SessionInv, TypeInv, TypeOK
<1>9. CASE Reload(b)
  <2>1. 1 \in 1 .. Slots /\ token[b] \in Ids \cup {None}
    BY SignInAssumption DEF TypeInv, TypeOK
  <2>2. LET me == Me(b, 1, token[b])
        IN  me.b = b /\ me.kind = "me" /\ me.id = token[b] /\ me.phase = "sent"
    BY <2>1, MeType
  <2>3. ASSUME NEW x \in Browsers \ {b}, haste'[x] = 0
        PROVE  Told(x, calls', token'[x], user'[x])
    BY <1>9, <2>2, <2>3 DEF Reload, SessionInv, Told, TypeInv, TypeOK
  <2>4. Told(b, calls', token'[b], user'[b])
    BY <1>9, <2>2 DEF Reload, Told, TypeInv, TypeOK
  <2> QED BY <2>3, <2>4 DEF SessionInv
<1> QED BY <1>2, <1>3, <1>4, <1>5, <1>6, <1>7, <1>8, <1>9 DEF Act

\* Steps of the server.
LEMMA HandleTold ==
  ASSUME TypeInv, SessionInv, NEW c \in calls, Handle(c)
  PROVE  SessionInv'
<1>1. PICK d \in Calls :
        /\ calls' = (calls \ {c}) \cup {d} /\ d.b = c.b /\ d.kind = c.kind
        /\ c.kind = "me" => /\ d.phase = "answered"
                            /\ \/ d.reply.what = "failed"
                               \/ c.phase = "sent" /\ d.reply.what = "token" /\ d.reply.id = c.id
  BY HandleCalls
<1>2. UNCHANGED <<token, user, haste>>
  BY DEF Handle, session
<1>3. ASSUME NEW x \in Browsers, haste[x] = 0
      PROVE  Told(x, calls', token[x], user[x])
  BY <1>1, <1>3 DEF SessionInv, Told
<1> QED BY <1>2, <1>3 DEF SessionInv

\* A restart keeps the session of each browser that waits: its call fails, and tokens stay good.
LEMMA RestartTold == TypeInv /\ SessionInv /\ Restart => SessionInv'
<1> SUFFICES ASSUME TypeInv, SessionInv, Restart
             PROVE  SessionInv'
  OBVIOUS
<1> DEFINE g(c) == IF c.phase = "answered" THEN c ELSE Answered(c, Failed)
<1>1. calls' = {g(c) : c \in calls} /\ UNCHANGED <<token, user, haste>>
  BY DEF Restart, session
<1>2. Failed \in Replies /\ Failed.what = "failed"
  BY SignInAssumption DEF Failed, NoReply, Replies
<1>3. \A c \in calls : /\ g(c).b = c.b /\ g(c).kind = c.kind
                       /\ g(c) = c \/ (g(c).phase = "answered" /\ g(c).reply.what = "failed")
  BY <1>2, AnsweredType DEF TypeInv, TypeOK
<1> HIDE DEF g
<1> QED BY <1>1, <1>3 DEF SessionInv, Told

\* An answer ends its call; a token is followed by fetchUser.
LEMMA AnswerTold ==
  ASSUME TypeInv, SessionInv, NEW c \in calls, Answer(c)
  PROVE  SessionInv'
<1> DEFINE b == c.b
<1>0. c \in Calls /\ b \in Browsers /\ c.n \in 1 .. Slots /\ c.reply.id \in Ids \cup {None}
      /\ c.phase = "answered"
  BY DEF TypeInv, TypeOK, Calls, Replies, Answer
<1>1. ASSUME NEW f, NEW cs \in SUBSET Calls, Update(b, f, cs), UNCHANGED haste,
             \A x \in Browsers : haste[x] = 0 => Told(x, cs, token'[x], user'[x])
      PROVE  SessionInv'
  BY <1>0, <1>1, UpdateTold DEF SessionInv
<1>2. CASE ShowUser(c) \/ Forget(c)
  <2>1. \A x \in Browsers : haste[x] = 0 => Told(x, calls \ {c}, token'[x], user'[x])
    BY <1>0, <1>2 DEF ShowUser, Forget, SessionInv, Told, TypeInv, TypeOK
  <2>2. Update(b, form[b], calls \ {c}) /\ UNCHANGED haste /\ calls \ {c} \in SUBSET Calls
    BY <1>2 DEF ShowUser, Forget, TypeInv, TypeOK
  <2> QED BY <1>1, <2>1, <2>2
<1>3. ASSUME NEW f, Keep(c, f)
      PROVE  SessionInv'
  <2> DEFINE me == Me(b, c.n, c.reply.id)
             cs == (calls \ {c}) \cup {me}
  <2>1. /\ me \in Calls /\ me.b = b /\ me.kind = "me" /\ me.id = c.reply.id /\ me.phase = "sent"
    BY <1>0, MeType
  <2>2. /\ token' = [token EXCEPT ![b] = c.reply.id] /\ user' = [user EXCEPT ![b] = c.reply.id]
        /\ Update(b, Onward(c, Idle(f, c)), cs) /\ UNCHANGED haste
    BY <1>3 DEF Keep
  <2>3. cs \in SUBSET Calls
    BY <2>1 DEF TypeInv, TypeOK
  <2> HIDE DEF me
  <2>4. \A x \in Browsers : haste[x] = 0 => Told(x, cs, token'[x], user'[x])
    BY <1>0, <2>1, <2>2 DEF SessionInv, Told, TypeInv, TypeOK
  <2> QED BY <1>1, <2>2, <2>3, <2>4
<1>4. ASSUME NEW f, FormAnswered(c, f), c.kind # "me"
      PROVE  SessionInv'
  <2>1. PICK g : Update(b, g, calls \ {c})
    BY <1>4 DEF FormAnswered
  <2>2. UNCHANGED <<token, user, haste>> /\ calls \ {c} \in SUBSET Calls
    BY <1>4 DEF FormAnswered, session, TypeInv, TypeOK
  <2>3. \A x \in Browsers : haste[x] = 0 => Told(x, calls \ {c}, token[x], user[x])
    BY <1>0, <1>4 DEF SessionInv, Told
  <2> QED BY <1>1, <2>1, <2>2, <2>3
<1> QED BY <1>2, <1>3, <1>4 DEF Answer, LoggedIn, Registered, Activated, PromptOtp, PromptAgain,
  AskForMailed, OtpResent, ShowError

\* Every step keeps it.
LEMMA SessionInvHolds == Spec => []SessionInv
<1>1. Init => SessionInv
  BY DEF Init, SessionInv, Told
<1>2. TypeInv /\ SessionInv /\ [Next]_vars => SessionInv'
  <2> SUFFICES ASSUME TypeInv, SessionInv, [Next]_vars
               PROVE  SessionInv'
    OBVIOUS
  <2>1. CASE UNCHANGED vars
    BY <2>1 DEF vars, SessionInv
  <2>2. ASSUME NEW email \in Emails, Elsewhere(email)
        PROVE  SessionInv'
    BY <2>2 DEF Elsewhere, session, SessionInv
  <2> QED BY <2>1, <2>2, ActTold, HandleTold, AnswerTold, RestartTold DEF Next
<1> QED BY <1>1, <1>2, TypeInvHolds, PTL DEF Spec

\* Whoever waits for the answers is shown as the account of their token.
THEOREM ShownIsSignedInHolds == Spec => []ShownIsSignedIn
<1>1. SessionInv => ShownIsSignedIn
  BY DEF SessionInv, Told, ShownIsSignedIn, Settled
<1> QED BY <1>1, SessionInvHolds, PTL

-----------------------------------------------------------------------------
(* The codes that are asked for.                                           *)

\* The calls for which the server makes a code, and an answer that follows from one.
Making == {"login", "register", "resendOtp", "resendCode"}
Coded(c) ==
    /\ c.phase = "answered"
    /\ c.reply.what \in {"code", "done"} \/ (c.kind = "register" /\ c.reply.what = "token")

\* The code is that of every account of the email that browser x may be told of.
Good(x, email, code, as) == \A a \in as : a.email = email /\ a.by = <<x>> => a.code = code

\* The code that form f was given is good.
Claim(x, f, as) == f.step = "code" /\ f.given => Good(x, f.email, f.code, as)

\* It is good until the server makes a new one; then the code in the answer is.  A form
\* that has been unmounted since the call was sent is on its first step.
Waiting(x, f, c, as) ==
    IF Coded(c)
    THEN IF c.to = "form" THEN c.reply.what # "done" => Good(x, f.email, c.reply.code, as)
         ELSE f.step = "first"
    ELSE /\ Claim(x, f, as)
         /\ c.phase # "answered" /\ c.kind \in Making =>
            IF c.to = "form" THEN c.email = f.email ELSE f.step = "first"

PromptOk(x, f, cs, as) ==
    /\ f.mixed = FALSE
    /\ (\A c \in cs : c.b # x) => Claim(x, f, as)
    /\ \A c \in cs : c.b = x => Waiting(x, f, c, as)

PromptInv == \A x \in Browsers : haste[x] = 0 => PromptOk(x, form[x], calls, accounts)

\* What others do changes no code that browser x may be told of.
OthersOnly(x) ==
    \A a \in accounts' : a.by = <<x>> =>
        \E o \in accounts : o.by = <<x>> /\ o.email = a.email /\ o.code = a.code

\* What others do leaves every code that a browser may rely on.
LEMMA OthersPrompt ==
  ASSUME NEW x, OthersOnly(x), NEW f, NEW cs, PromptOk(x, f, cs, accounts)
  PROVE  PromptOk(x, f, cs, accounts')
<1>1. ASSUME NEW email, NEW code, Good(x, email, code, accounts)
      PROVE  Good(x, email, code, accounts')
  BY <1>1 DEF Good, OthersOnly
<1>2. Claim(x, f, accounts) => Claim(x, f, accounts')
  BY <1>1 DEF Claim
<1> QED BY <1>1, <1>2 DEF PromptOk, Waiting

\* An unmounted form is on its first step, and its calls have lost it.
LEMMA UpdatePrompt ==
  ASSUME TypeInv, NEW b \in Browsers, NEW f \in Forms, NEW cs \in SUBSET Calls, Update(b, f, cs),
         NEW x \in Browsers, PromptOk(x, IF x = b THEN f ELSE form[x], cs, accounts)
  PROVE  PromptOk(x, form'[x], calls', accounts)
<1> DEFINE g(c) == IF c.b = b /\ c.to = "form" THEN Left(c) ELSE c
<1>1. form \in [Browsers -> Forms]
  BY DEF TypeInv, TypeOK
<1>2. CASE form' = [form EXCEPT ![b] = f] /\ calls' = cs
  BY <1>1, <1>2
<1>3. CASE form' = [form EXCEPT ![b] = NewForm] /\ calls' = {g(c) : c \in cs}
  <2>1. \A c \in cs : g(c).b = c.b /\ (c.b = b => g(c).to = "page") /\ (c.b # b => g(c) = c)
    BY LeftType DEF Calls
  <2>2. NewForm.step = "first" /\ NewForm.mixed = FALSE
    BY DEF NewForm
  <2> HIDE DEF g
  <2>3. CASE x = b
    BY <1>1, <1>3, <2>1, <2>2, <2>3 DEF PromptOk, Waiting, Claim
  <2>4. CASE x # b
    <3>1. form'[x] = form[x] /\ \A c \in calls' : c.b = x => c \in cs
      BY <1>1, <1>3, <2>1, <2>4
    <3>2. (\A c \in calls' : c.b # x) => \A c \in cs : c.b # x
      BY <1>3, <2>1
    <3> QED BY <2>4, <3>1, <3>2 DEF PromptOk
  <2> QED BY <2>3, <2>4
<1> QED BY <1>2, <1>3 DEF Update

\* A call that its person waits for.
LEMMA AskPrompt ==
  ASSUME TypeInv, PromptInv, NEW b \in Browsers, NEW f, NEW kind \in Kinds, Ask(b, f, kind),
         haste[b] = 0 /\ Settled(b) => f.mixed = FALSE /\ Claim(b, f, accounts)
  PROVE  PromptInv'
<1>1. PICK n \in 1 .. Slots : calls' = calls \cup {Sent(b, n, kind, f)}
  BY DEF Ask, FreeSlots
<1>2. /\ Sent(b, n, kind, f).b = b /\ Sent(b, n, kind, f).kind = kind
      /\ Sent(b, n, kind, f).email = f.email
      /\ Sent(b, n, kind, f).to = "form" /\ Sent(b, n, kind, f).phase = "sent"
  BY SentFields
<1>3. /\ form' = [form EXCEPT ![b] = f] /\ form \in [Browsers -> Forms] /\ UNCHANGED accounts
      /\ \/ Settled(b) /\ UNCHANGED haste
         \/ haste' = [haste EXCEPT ![b] = @ + 1]
  BY DEF Ask, GoOn, server, TypeInv, TypeOK
<1>4. ASSUME NEW x \in Browsers, haste'[x] = 0
      PROVE  PromptOk(x, form'[x], calls', accounts)
  <2>1. haste[x] = 0 /\ (x = b => Settled(b))
    BY <1>3, <1>4, SignInAssumption DEF TypeInv, TypeOK
  <2>2. CASE x = b
    BY <1>1, <1>2, <1>3, <2>1, <2>2 DEF PromptOk, Waiting, Coded, Settled
  <2>3. CASE x # b
    BY <1>1, <1>2, <1>3, <2>1, <2>3 DEF PromptInv, PromptOk
  <2> QED BY <2>2, <2>3
<1> QED BY <1>3, <1>4 DEF PromptInv

\* Steps of a person.
LEMMA ActPrompt ==
  ASSUME ~MixedCase, TypeInv, PromptInv, NEW b \in Browsers, Act(b)
  PROVE  PromptInv'
<1> DEFINE f == form[b]
<1>0. /\ f \in Forms /\ form \in [Browsers -> Forms] /\ calls \in SUBSET Calls
  BY DEF TypeInv, TypeOK
<1>1. UNCHANGED accounts
  BY PagesLeaveServer DEF server
<1>2. haste[b] = 0 /\ Settled(b) => f.mixed = FALSE /\ Claim(b, f, accounts)
  BY DEF PromptInv, PromptOk, Settled
<1>3. ASSUME NEW e \in Emails,
             \/ SubmitCredentials(b, e)
             \/ \E mixed \in {FALSE, MixedCase} : SubmitRegistration(b, e, mixed)
      PROVE  PromptInv'
  <2>1. PICK mixed \in BOOLEAN :
             /\ mixed = FALSE
             /\ SubmitCredentials(b, e) \/ SubmitRegistration(b, e, mixed)
    BY <1>3, SignInAssumption
  <2> DEFINE g == [f EXCEPT !.email = e, !.busy = @ \cup {"submit"}]
             h == [f EXCEPT !.email = e, !.mixed = mixed, !.busy = @ \cup {"submit"}]
  <2>2. f.step = "first"
    BY <2>1 DEF SubmitCredentials, SubmitRegistration, CredentialsForm, RegistrationForm
  <2>3. g.step = "first" /\ g.mixed = f.mixed /\ h.step = "first" /\ h.mixed = FALSE
    BY <1>0, <2>1, <2>2 DEF Forms
  <2>4. Claim(b, g, accounts) /\ Claim(b, h, accounts)
    BY <2>3 DEF Claim
  <2> HIDE DEF g, h
  <2>5. Ask(b, g, "login") \/ Ask(b, h, "register")
    BY <2>1 DEF SubmitCredentials, SubmitRegistration, g, h
  <2> QED BY <1>2, <2>3, <2>4, <2>5, AskPrompt DEF Kinds
<1>4. ASSUME NEW code \in AtHand(b), SubmitOtp(b, code) \/ SubmitActivation(b, code)
      PROVE  PromptInv'
  <2> DEFINE g(flag) == [WithBox(f, code) EXCEPT !.busy = @ \cup {flag}]
  <2>1. /\ WithBox(f, code).step = f.step /\ WithBox(f, code).mixed = f.mixed
        /\ WithBox(f, code).email = f.email /\ WithBox(f, code).code = code
        /\ WithBox(f, code).given = (f.given /\ code = f.code)
    BY <1>0, Zenon DEF WithBox, Forms
  <2>2. ASSUME NEW flag \in {"submit", "verify"}
        PROVE  /\ g(flag).step = f.step /\ g(flag).mixed = f.mixed /\ g(flag).email = f.email
               /\ g(flag).code = code /\ g(flag).given = (f.given /\ code = f.code)
    BY <1>0, <2>1 DEF WithBox, Forms
  <2>3. \A flag \in {"submit", "verify"} : Claim(b, f, accounts) => Claim(b, g(flag), accounts)
    BY <2>2 DEF Claim
  <2>4. Ask(b, g("submit"), "verifyOtp") \/ Ask(b, g("verify"), "verifyEmail")
    BY <1>4 DEF SubmitOtp, SubmitActivation
  <2> HIDE DEF g
  <2> QED BY <1>2, <2>2, <2>3, <2>4, AskPrompt DEF Kinds
<1>5. CASE ResendOtp(b) \/ ResendActivation(b)
  BY <1>2, <1>5, AskPrompt DEF ResendOtp, ResendActivation, Kinds
<1>6. CASE TimerEnds(b) \/ ChangeEmail(b) \/ EditDetails(b)
  <2> DEFINE g == [f EXCEPT !.wait = FALSE]
             h == [f EXCEPT !.step = "first"]
  <2>1. /\ g.step = f.step /\ g.mixed = f.mixed /\ g.email = f.email /\ g.code = f.code
        /\ g.given = f.given /\ h.step = "first" /\ h.mixed = f.mixed /\ h.email = f.email
    BY <1>0 DEF Forms
  <2> HIDE DEF g, h
  <2>2. Claim(b, f, accounts) => Claim(b, g, accounts) /\ Claim(b, h, accounts)
    BY <2>1 DEF Claim
  <2>3. \A c \in calls : Waiting(b, f, c, accounts) =>
            Waiting(b, g, c, accounts) /\ Waiting(b, h, c, accounts)
    BY <2>1, <2>2 DEF Waiting
  <2>4. PromptOk(b, f, calls, accounts) =>
            PromptOk(b, g, calls, accounts) /\ PromptOk(b, h, calls, accounts)
    BY <2>1, <2>2, <2>3 DEF PromptOk
  <2>5. /\ form' \in {[form EXCEPT ![b] = g], [form EXCEPT ![b] = h]}
        /\ UNCHANGED <<calls, haste>>
    BY <1>6 DEF TimerEnds, ChangeEmail, EditDetails, FirstStep, Alter, g, h
  <2> QED BY <1>0, <1>1, <2>4, <2>5 DEF PromptInv
<1>7. ASSUME NEW e \in Emails, EditEmail(b, e)
      PROVE  PromptInv'
  <2> DEFINE g == [f EXCEPT !.email = e]
  <2>1. f.step = "first" /\ g.step = f.step /\ g.mixed = f.mixed
    BY <1>0, <1>7 DEF EditEmail, CredentialsForm, RegistrationForm, Forms
  <2> HIDE DEF g
  <2>2. form' = [form EXCEPT ![b] = g] /\ UNCHANGED calls
    BY <1>7 DEF EditEmail, Alter, g
  <2>3. ASSUME NEW x \in Browsers, haste'[x] = 0
        PROVE  haste[x] = 0 /\ (x = b => Settled(b))
    BY <1>7, <2>3, SignInAssumption DEF EditEmail, GoOn, TypeInv, TypeOK
  <2>4. ASSUME NEW x \in Browsers, haste'[x] = 0
        PROVE  PromptOk(x, form'[x], calls', accounts')
    <3>1. CASE x = b
      BY <1>0, <1>1, <1>2, <2>1, <2>2, <2>3, <2>4, <3>1 DEF PromptOk, Claim, Settled
    <3>2. CASE x # b
      BY <1>0, <1>1, <2>2, <2>3, <2>4, <3>2 DEF PromptInv
    <3> QED BY <3>1, <3>2
  <2> QED BY <2>4 DEF PromptInv
<1>8. ASSUME Update(b, f, calls), \A x \in Browsers : haste'[x] = 0 => haste[x] = 0
      PROVE  PromptInv'
  <2>1. ASSUME NEW x \in Browsers, haste'[x] = 0
        PROVE  PromptOk(x, form'[x], calls', accounts)
    <3>1. PromptOk(x, IF x = b THEN f ELSE form[x], calls, accounts)
      BY <1>8, <2>1 DEF PromptInv
    <3> QED BY <1>0, <1>8, <3>1, UpdatePrompt
  <2> QED BY <1>1, <2>1 DEF PromptInv
<1>9. CASE \E to \in {"away", "login", "register", "admin"} : Go(b, to)
  <2>1. page'[b] # page[b] /\ Update(b, NewForm, calls) /\ UNCHANGED haste
    BY <1>9 DEF Go, TypeInv, TypeOK
  <2>2. Update(b, f, calls)
    BY <2>1 DEF Update
  <2> QED BY <1>8, <2>1, <2>2
<1>10. CASE TimerNavigates(b)
  BY <1>8, <1>10 DEF TimerNavigates
<1>11. CASE Logout(b)
  <2>1. \A x \in Browsers : haste'[x] = 0 => haste[x] = 0
    BY <1>11, SignInAssumption DEF Logout, GoOn, TypeInv, TypeOK
  <2> QED BY <1>8, <1>11, <2>1 DEF Logout
<1>12. CASE Reload(b)
  <2> DEFINE me == Me(b, 1, token[b])
  <2>1. 1 \in 1 .. Slots /\ token[b] \in Ids \cup {None}
    BY SignInAssumption DEF TypeInv, TypeOK
  <2>2. me.b = b /\ me.kind = "me" /\ me.phase = "sent"
    BY <2>1, MeType
  <2>3. NewForm.step = "first" /\ NewForm.mixed = FALSE
    BY DEF NewForm
  <2> HIDE DEF me
  <2>4. /\ form' = [form EXCEPT ![b] = NewForm] /\ haste' = [haste EXCEPT ![b] = 0]
        /\ calls' \in {{c \in calls : c.b # b}, {c \in calls : c.b # b} \cup {me}}
    BY <1>12 DEF Reload, me
  <2>5. ASSUME NEW x \in Browsers, haste'[x] = 0
        PROVE  PromptOk(x, form'[x], calls', accounts)
    <3>1. CASE x = b
      BY <1>0, <2>2, <2>3, <2>4, <3>1 DEF PromptOk, Claim, Waiting, Coded, Making
    <3>2. CASE x # b
      <4>1. form'[x] = form[x] /\ haste[x] = 0
        BY <1>0, <2>4, <2>5, <3>2 DEF TypeInv, TypeOK
      <4> QED BY <2>2, <2>4, <3>2, <4>1 DEF PromptInv, PromptOk
    <3> QED BY <3>1, <3>2
  <2> QED BY <1>1, <2>5 DEF PromptInv
<1> QED BY <1>3, <1>4, <1>5, <1>6, <1>7, <1>9, <1>10, <1>11, <1>12 DEF Act

\* Two browsers are not told of each other's codes.
LEMMA Teller ==
  /\ \A x, y : <<x>> = <<y>> => x = y
  /\ \A x : <<x>> # None
  BY DEF None

\* What the server does for the calls of others, or for others.
LEMMA ServerOthers ==
  ASSUME TypeInv, NEW x \in Browsers
  PROVE  /\ \A c \in calls : Handle(c) /\ (c.b # x \/ c.to = "page") => OthersOnly(x)
         /\ \A e \in Emails : Elsewhere(e) => OthersOnly(x)
         /\ Restart => OthersOnly(x)
<1>0. /\ accounts \subseteq Users /\ codes \in 0 .. MaxCodes /\ calls \subseteq Calls
      /\ codes < MaxCodes => codes + 1 \in 0 .. MaxCodes
  BY SignInAssumption DEF TypeInv, TypeOK
<1>1. ASSUME UNCHANGED accounts
      PROVE  OthersOnly(x)
  BY <1>1 DEF OthersOnly
<1>2. ASSUME NEW e, NEW by, by # <<x>>,
             accounts' = accounts \cup {Account(e, codes, codes + 1, FALSE, by)}
      PROVE  OthersOnly(x)
  <2>1. Account(e, codes, codes + 1, FALSE, by).by = by
    BY DEF Account
  <2> QED BY <1>2, <2>1 DEF OthersOnly
<1>3. ASSUME NEW e, NEW by, by # <<x>>, Renew(e, by)
      PROVE  OthersOnly(x)
  <2>1. ASSUME accounts' = WithCode(e, by)
        PROVE  OthersOnly(x)
    <3>1. \A a \in accounts : [a EXCEPT !.code = codes + 1, !.by = by].by = by
      BY <1>0 DEF Users
    <3> QED BY <1>3, <2>1, <3>1 DEF WithCode, OthersOnly
  <2> QED BY <1>1, <1>3, <2>1 DEF Renew
<1>4. ASSUME NEW a \in accounts, accounts' = (accounts \ {a}) \cup {[a EXCEPT !.verified = TRUE]}
      PROVE  OthersOnly(x)
  <2>1. LET v == [a EXCEPT !.verified = TRUE]
        IN  v.by = a.by /\ v.email = a.email /\ v.code = a.code
    BY <1>0, VerifiedType
  <2> QED BY <1>4, <2>1 DEF OthersOnly
<1>5. ASSUME NEW c \in calls, Handle(c), c.b # x \/ c.to = "page"
      PROVE  OthersOnly(x)
  <2>1. For(c) # <<x>>
    BY <1>5, Teller DEF For
  <2>2. CASE Create(c)
    BY <1>2, <2>1, <2>2 DEF Create
  <2>3. CASE Login(c) \/ ResendBy(c)
    BY <1>3, <2>1, <2>3 DEF Login, ResendBy
  <2>4. CASE Verify(c)
    BY <1>4, <2>4 DEF Verify, Matching, Of
  <2>5. CASE Lose(c)
    <3>1. \A a \in accounts : [a EXCEPT !.by = None].by = None
      BY <1>0, UntoldType
    <3> QED BY <2>5, <3>1, Teller DEF Lose, OthersOnly
  <2>6. CASE FindNobody(c) \/ LoginAdmin(c) \/ LoginUnverified(c) \/ GetMe(c) \/ Fail(c)
    BY <1>1, <2>6 DEF FindNobody, LoginAdmin, LoginUnverified, GetMe, Fail, server
  <2> QED BY <1>5, <2>2, <2>3, <2>4, <2>5, <2>6 DEF Handle
<1>6. ASSUME NEW e \in Emails, Elsewhere(e)
      PROVE  OthersOnly(x)
  BY <1>2, <1>3, <1>4, <1>6, Teller
  DEF Elsewhere, CreateElsewhere, RenewElsewhere, VerifyElsewhere, Of
<1>7. ASSUME Restart
      PROVE  OthersOnly(x)
  <2>1. \A a \in Seeded(codes) : a.by = None
    BY DEF Seeded, Account
  <2> QED BY <1>7, <2>1, Teller DEF Restart, OthersOnly
<1> QED BY <1>5, <1>6, <1>7

\* The server answers the call that its person waits for.
LEMMA HandleOwn ==
  ASSUME ~StoreFails, UniqueEmails, TypeInv, NEW c \in calls, Handle(c), NEW f,
         \A e \in calls : e.b = c.b => e = c,
         PromptOk(c.b, f, calls, accounts)
  PROVE  PromptOk(c.b, f, calls', accounts')
<1> DEFINE x == c.b
<1>0. /\ accounts \subseteq Users /\ codes \in 0 .. MaxCodes /\ c \in Calls /\ x \in Browsers
      /\ 0 \in 0 .. MaxCodes /\ c.to \in {"form", "page"}
      /\ codes < MaxCodes => codes + 1 \in 0 .. MaxCodes
      /\ c.to = "form" => For(c) = <<x>>
  BY SignInAssumption DEF TypeInv, TypeOK, Calls, For
<1>1. f.mixed = FALSE /\ Waiting(x, f, c, accounts)
  BY DEF PromptOk
<1>2. ASSUME NEW d, calls' = (calls \ {c}) \cup {d}, d.b = x, Waiting(x, f, d, accounts')
      PROVE  PromptOk(x, f, calls', accounts')
  BY <1>1, <1>2 DEF PromptOk
<1>3. ASSUME OthersOnly(x)
      PROVE  Waiting(x, f, c, accounts')
  <2>1. PromptOk(x, f, calls, accounts')
    BY <1>3, OthersPrompt
  <2> QED BY <2>1 DEF PromptOk
<1>4. ASSUME NEW what \in {"failed", "unverified", "code", "token", "done"},
             NEW code \in 0 .. MaxCodes, NEW id \in Ids \cup {None}, Reply(c, what, code, id),
             IF what \in {"code", "done"} \/ (c.kind = "register" /\ what = "token")
             THEN IF c.to = "form" THEN what # "done" => Good(x, f.email, code, accounts')
                  ELSE f.step = "first"
             ELSE Claim(x, f, accounts')
      PROVE  PromptOk(x, f, calls', accounts')
  <2> DEFINE r == [what |-> what, code |-> code, id |-> id]
             d == Answered(c, r)
  <2>1. r \in Replies /\ r.what = what /\ r.code = code
    BY DEF Replies
  <2> HIDE DEF r
  <2>2. d.b = x /\ d.kind = c.kind /\ d.to = c.to /\ d.phase = "answered" /\ d.reply = r
    BY <1>0, <2>1, AnsweredType
  <2>3. calls' = (calls \ {c}) \cup {d}
    BY <1>4 DEF Reply, r
  <2> HIDE DEF d
  <2>4. Waiting(x, f, d, accounts')
    BY <1>4, <2>1, <2>2 DEF Waiting, Coded
  <2> QED BY <1>2, <2>2, <2>3, <2>4
<1>5. c.phase # "answered" => ~Coded(c)
  BY DEF Coded
<1>6. ASSUME Create(c) \/ Login(c) \/ ResendBy(c)
      PROVE  /\ c.phase # "answered" /\ c.kind \in Making /\ codes + 1 \in 0 .. MaxCodes
             /\ c.to = "page" => f.step = "first"
             /\ c.to = "form" => Good(x, f.email, codes + 1, accounts')
  <2>1. c.phase # "answered" /\ c.kind \in Making /\ codes + 1 \in 0 .. MaxCodes
    <3>1. CASE Create(c)
      BY <1>0, <3>1 DEF Create, Making, TypeInv, CallsInv
    <3>2. CASE Login(c) \/ ResendBy(c)
      BY <1>0, <3>2 DEF Login, ResendBy, Renew, Making
    <3> QED BY <1>6, <3>1, <3>2
  <2>2. IF c.to = "form" THEN c.email = f.email ELSE f.step = "first"
    BY <1>1, <1>5, <2>1 DEF Waiting
  <2>3. ASSUME c.to = "form", Create(c)
        PROVE  Good(x, f.email, codes + 1, accounts')
    <3>1. Account(c.email, codes, codes + 1, FALSE, For(c)).code = codes + 1
      BY DEF Account
    <3>2. \A a \in accounts : a.email # f.email
      BY <2>2, <2>3 DEF Create, Vacant, Of
    <3> QED BY <2>3, <3>1, <3>2 DEF Create, Good
  <2>4. ASSUME c.to = "form", Renew(c.email, For(c))
        PROVE  Good(x, f.email, codes + 1, accounts')
    <3> DEFINE new(a) == [a EXCEPT !.code = codes + 1, !.by = For(c)]
    <3>1. \A a \in accounts : new(a).code = codes + 1
      BY <1>0 DEF Users
    <3> HIDE DEF new
    <3>2. accounts' = {IF a.email = c.email THEN new(a) ELSE a : a \in accounts}
      BY <2>4 DEF Renew, WithCode, new
    <3> QED BY <2>2, <2>4, <3>1, <3>2 DEF Good
  <2> QED BY <1>0, <1>6, <2>1, <2>2, <2>3, <2>4 DEF Login, ResendBy
<1>7. CASE Create(c)
  <2> DEFINE id == <<c.email, codes>>
  <2>1. id \in Ids \cup {None}
    BY <1>0, <1>7 DEF Create, TypeInv, CallsInv, Ids
  <2>2. CASE c.kind = "register"
    <3>1. Reply(c, "token", codes + 1, id)
      BY <1>7, <2>2 DEF Create
    <3> HIDE DEF id
    <3> QED BY <1>0, <1>4, <1>6, <1>7, <2>1, <2>2, <3>1
  <2>3. CASE c.kind # "register"
    <3>1. Reply(c, "code", codes + 1, None)
      BY <1>7, <2>3 DEF Create
    <3> QED BY <1>0, <1>4, <1>6, <1>7, <3>1
  <2> QED BY <2>2, <2>3
<1>8. CASE Login(c) \/ ResendBy(c)
  BY <1>0, <1>4, <1>6, <1>8 DEF Login, ResendBy
<1>9. CASE FindNobody(c)
  <2> DEFINE d == [c EXCEPT !.phase = "creating"]
  <2>1. /\ d.b = x /\ d.kind = c.kind /\ d.to = c.to /\ d.email = c.email
        /\ d.phase = "creating"
    BY <1>0 DEF Calls
  <2>2. c.phase = "sent" /\ calls' = (calls \ {c}) \cup {d} /\ UNCHANGED accounts
    BY <1>9 DEF FindNobody, server
  <2> HIDE DEF d
  <2>3. Waiting(x, f, d, accounts)
    BY <1>1, <1>5, <2>1, <2>2 DEF Waiting, Coded
  <2> QED BY <1>2, <2>1, <2>2, <2>3
<1>10. ASSUME LoginAdmin(c) \/ LoginUnverified(c) \/ Verify(c) \/ GetMe(c) \/ Fail(c)
       PROVE  Claim(x, f, accounts')
  <2>1. Claim(x, f, accounts)
    BY <1>1, <1>5, <1>10 DEF LoginAdmin, LoginUnverified, Verify, GetMe, Fail, Waiting
  <2>2. OthersOnly(x)
    <3>1. CASE UNCHANGED accounts
      BY <3>1 DEF OthersOnly
    <3>2. ASSUME NEW a \in accounts,
                 accounts' = (accounts \ {a}) \cup {[a EXCEPT !.verified = TRUE]}
          PROVE  OthersOnly(x)
      <4>1. LET v == [a EXCEPT !.verified = TRUE]
            IN  v.by = a.by /\ v.email = a.email /\ v.code = a.code
        BY <1>0, VerifiedType
      <4> QED BY <3>2, <4>1 DEF OthersOnly
    <3> QED BY <1>10, <3>1, <3>2
        DEF LoginAdmin, LoginUnverified, Verify, Matching, Of, GetMe, Fail, server
  <2> QED BY <2>1, <2>2 DEF Claim, Good, OthersOnly
<1>11. CASE LoginAdmin(c) \/ LoginUnverified(c) \/ Verify(c) \/ GetMe(c) \/ Fail(c)
  <2>1. \A a \in accounts : a.id \in Ids \cup {None}
    BY <1>0 DEF Users
  <2> QED BY <1>0, <1>4, <1>10, <1>11, <2>1
      DEF LoginAdmin, LoginUnverified, Verify, Matching, Of, GetMe, Fail, Calls
<1>12. CASE Lose(c)
  <2> DEFINE lost == c.reply.what \in {"code", "done"} \/ c.kind = "register"
  <2>1. accounts' = {IF lost /\ a.by = <<x>> THEN [a EXCEPT !.by = None] ELSE a : a \in accounts}
    BY <1>12 DEF Lose
  <2>2. \A a \in accounts : [a EXCEPT !.by = None].by = None
    BY <1>0, UntoldType
  <2>3. CASE lost
    <3>1. \A a \in accounts' : a.by # <<x>>
      BY <2>1, <2>2, <2>3, Teller
    <3> QED BY <1>0, <1>4, <1>12, <3>1 DEF Lose, Claim, Good
  <2>4. CASE ~lost
    <3>1. accounts' = accounts /\ ~Coded(c)
      BY <2>1, <2>4 DEF Coded
    <3> QED BY <1>0, <1>1, <1>4, <1>12, <3>1 DEF Lose, Waiting
  <2> QED BY <2>3, <2>4
<1> QED BY <1>7, <1>8, <1>9, <1>11, <1>12 DEF Handle

\* The server's handlers keep the codes in the boxes working.
LEMMA HandlePrompt ==
  ASSUME ~StoreFails, UniqueEmails, TypeInv, SessionInv, PromptInv, NEW c \in calls, Handle(c)
  PROVE  PromptInv'
<1>1. UNCHANGED <<form, haste>>
  BY DEF Handle
<1>2. ASSUME NEW x \in Browsers, haste[x] = 0
      PROVE  PromptOk(x, form[x], calls', accounts')
  <2>1. CASE x = c.b
    <3>1. \A e \in calls : e.b = c.b => e = c
      BY <1>2, <2>1 DEF SessionInv, Told
    <3> QED BY <1>2, <2>1, <3>1, HandleOwn DEF PromptInv
  <2>2. CASE x # c.b
    <3>1. PICK d \in Calls : calls' = (calls \ {c}) \cup {d} /\ d.b = c.b
      BY HandleCalls
    <3>2. PromptOk(x, form[x], calls, accounts')
      BY <1>2, <2>2, ServerOthers, OthersPrompt DEF PromptInv
    <3> QED BY <2>2, <3>1, <3>2 DEF PromptOk
  <2> QED BY <2>1, <2>2
<1> QED BY <1>1, <1>2 DEF PromptInv

\* Steps of others, and of the server as a whole: nothing has come of the calls.
LEMMA ElsewherePrompt ==
  ASSUME TypeInv, PromptInv, NEW email \in Emails, Elsewhere(email)
  PROVE  PromptInv'
<1>1. UNCHANGED <<form, haste, calls>>
  BY DEF Elsewhere
<1>2. \A x \in Browsers : OthersOnly(x)
  BY ServerOthers
<1> QED BY <1>1, <1>2, OthersPrompt DEF PromptInv

\* A restart keeps them working: it leaves no account that a browser registered, and fails its calls.
LEMMA RestartPrompt ==
  ASSUME TypeInv, PromptInv, Restart
  PROVE  PromptInv'
<1> DEFINE g(c) == IF c.phase = "answered" THEN c ELSE Answered(c, Failed)
<1>1. calls' = {g(c) : c \in calls} /\ UNCHANGED <<form, haste>> /\ accounts' = Seeded(codes)
  BY DEF Restart
<1>2. Failed \in Replies /\ Failed.what = "failed"
  BY SignInAssumption DEF Failed, NoReply, Replies
<1>3. \A c \in calls : /\ g(c).b = c.b
                       /\ \/ g(c) = c
                          \/ /\ g(c).phase = "answered" /\ g(c).reply.what = "failed"
                             /\ c.phase # "answered"
  BY <1>2, AnsweredType DEF TypeInv, TypeOK
<1> HIDE DEF g
<1>4. \A a \in accounts' : \A x \in Browsers : a.by # <<x>>
  BY <1>1, Teller DEF Seeded, Account
<1>5. \A x \in Browsers : \A f, code : Good(x, f.email, code, accounts') /\ Claim(x, f, accounts')
  BY <1>4 DEF Good, Claim
<1>6. ASSUME NEW x \in Browsers, haste[x] = 0
      PROVE  PromptOk(x, form[x], calls', accounts')
  <2>1. PromptOk(x, form[x], calls, accounts)
    BY <1>6 DEF PromptInv
  <2>2. \A c \in calls : c.b = x => Waiting(x, form[x], g(c), accounts')
    BY <1>3, <1>5, <2>1 DEF PromptOk, Waiting, Coded
  <2> QED BY <1>1, <1>3, <1>5, <2>1, <2>2 DEF PromptOk
<1> QED BY <1>1, <1>6 DEF PromptInv

\* An answer touches neither the forms nor the calls of other browsers.
LEMMA AnswerStep ==
  ASSUME TypeInv, PromptInv, NEW b \in Browsers, NEW g \in Forms, NEW cs \in SUBSET Calls,
         Update(b, g, cs), UNCHANGED <<haste, accounts>>,
         \A d \in Calls : d.b # b => (d \in cs <=> d \in calls),
         haste[b] = 0 => PromptOk(b, g, cs, accounts)
  PROVE  PromptInv'
<1>1. ASSUME NEW x \in Browsers, haste[x] = 0
      PROVE  PromptOk(x, IF x = b THEN g ELSE form[x], cs, accounts)
  <2>1. CASE x = b
    BY <1>1, <2>1
  <2>2. CASE x # b
    <3>1. PromptOk(x, form[x], calls, accounts) /\ calls \subseteq Calls
      BY <1>1 DEF PromptInv, TypeInv, TypeOK
    <3> QED BY <2>2, <3>1 DEF PromptOk
  <2> QED BY <2>1, <2>2
<1> QED BY <1>1, UpdatePrompt DEF PromptInv

\* What the answers of a form leave of its code.
LEMMA AnswerFields ==
  ASSUME NEW f \in Forms, NEW c, NEW code
  PROVE  /\ LET g == Idle(f, c)
            IN  /\ g.step = f.step /\ g.given = f.given /\ g.code = f.code
                /\ g.email = f.email /\ g.mixed = f.mixed
         /\ LET g == Second(f, code)
            IN  g.code = code /\ g.email = f.email /\ g.mixed = f.mixed
         /\ LET g == [f EXCEPT !.done = TRUE]
            IN  /\ g.step = f.step /\ g.given = f.given /\ g.code = f.code
                /\ g.email = f.email /\ g.mixed = f.mixed
         /\ LET g == [f EXCEPT !.step = "code", !.code = code, !.given = TRUE, !.wait = TRUE]
            IN  g.code = code /\ g.email = f.email /\ g.mixed = f.mixed
         /\ LET g == [f EXCEPT !.code = code, !.given = TRUE]
            IN  g.code = code /\ g.email = f.email /\ g.mixed = f.mixed
         /\ LET g == [f EXCEPT !.step = "code", !.given = FALSE, !.wait = TRUE]
            IN  g.given = FALSE /\ g.mixed = f.mixed
         /\ LET g == [f EXCEPT !.given = FALSE, !.wait = TRUE]
            IN  g.given = FALSE /\ g.mixed = f.mixed
  BY DEF Idle, Second, Forms

\* An answer that its person waits for leaves a good code, or none.
LEMMA AnswerPrompt ==
  ASSUME TypeInv, SessionInv, PromptInv, NEW c \in calls, Answer(c)
  PROVE  PromptInv'
<1> DEFINE b == c.b
           f == form[b]
<1>0. /\ c \in Calls /\ calls \subseteq Calls /\ b \in Browsers /\ f \in Forms /\ c.n \in 1 .. Slots
      /\ c.reply.id \in Ids \cup {None} /\ c.reply.code \in 0 .. MaxCodes
      /\ c.to \in {"form", "page"} /\ c.phase = "answered"
  BY DEF TypeInv, TypeOK, Calls, Replies, Answer
<1>1. UNCHANGED <<haste, accounts>>
  <2>1. UNCHANGED accounts
    BY PagesLeaveServer DEF server
  <2>2. UNCHANGED haste
    BY DEF Answer, ShowUser, Forget, LoggedIn, Registered, Activated, PromptOtp, PromptAgain,
      AskForMailed, OtpResent, ShowError, Keep, FormAnswered
  <2> QED BY <2>1, <2>2
<1>2. haste[b] = 0 => /\ f.mixed = FALSE /\ Waiting(b, f, c, accounts)
                      /\ \A e \in calls : e.b = b => e = c
  BY <1>0 DEF SessionInv, Told, PromptInv, PromptOk
\* What a form may become: one whose code is good.
<1>3. ASSUME NEW g \in Forms, NEW cs \in SUBSET Calls, Update(b, g, cs),
             \/ cs = calls \ {c}
             \/ cs = (calls \ {c}) \cup {Me(b, c.n, c.reply.id)},
             haste[b] = 0 => g.mixed = FALSE /\ Claim(b, g, accounts)
      PROVE  PromptInv'
  <2> DEFINE me == Me(b, c.n, c.reply.id)
  <2>1. me \in Calls /\ me.b = b /\ me.kind = "me" /\ me.phase = "sent"
    BY <1>0, MeType
  <2> HIDE DEF me
  <2>2. cs = calls \ {c} \/ cs = (calls \ {c}) \cup {me}
    BY <1>3 DEF me
  <2>3. haste[b] = 0 => PromptOk(b, g, cs, accounts)
    BY <1>2, <1>3, <2>1, <2>2 DEF PromptOk, Waiting, Coded, Making
  <2>4. \A d \in Calls : d.b # b => (d \in cs <=> d \in calls)
    BY <2>1, <2>2
  <2> QED BY <1>0, <1>1, <1>3, <2>3, <2>4, AnswerStep
<1>4. ASSUME ~Coded(c), haste[b] = 0
      PROVE  Claim(b, f, accounts)
  BY <1>2, <1>4 DEF Waiting
<1>5. ASSUME Coded(c), c.to = "page", haste[b] = 0
      PROVE  Claim(b, f, accounts)
  BY <1>2, <1>5 DEF Waiting, Claim
<1>6. ASSUME Coded(c), c.to = "form", haste[b] = 0, c.reply.what # "done"
      PROVE  Good(b, f.email, c.reply.code, accounts)
  BY <1>2, <1>6 DEF Waiting
<1>7. ASSUME NEW g \in Forms, Keep(c, g),
             haste[b] = 0 /\ c.to = "form" => g.mixed = FALSE /\ Claim(b, g, accounts),
             haste[b] = 0 /\ c.to = "page" => Claim(b, f, accounts)
      PROVE  PromptInv'
  <2> DEFINE h == Onward(c, Idle(g, c))
             cs == (calls \ {c}) \cup {Me(b, c.n, c.reply.id)}
  <2>1. Idle(g, c) \in Forms /\ h \in Forms
    BY <1>0, <1>7, AnswerForms, SignInAssumption DEF Onward
  <2>2. haste[b] = 0 => h.mixed = FALSE /\ Claim(b, h, accounts)
    BY <1>0, <1>2, <1>7, AnswerFields DEF Onward, Claim
  <2>3. cs \in SUBSET Calls
    BY <1>0, MeType
  <2>4. Update(b, h, cs)
    BY <1>7 DEF Keep
  <2> HIDE DEF h
  <2> QED BY <1>3, <2>1, <2>2, <2>3, <2>4
<1>8. ASSUME NEW g \in Forms, FormAnswered(c, g),
             haste[b] = 0 /\ c.to = "form" => g.mixed = FALSE /\ Claim(b, g, accounts),
             haste[b] = 0 /\ c.to = "page" => Claim(b, f, accounts)
      PROVE  PromptInv'
  <2> DEFINE k == IF Submits(c.kind) THEN Idle(g, c) ELSE g
             h == Onward(c, k)
  <2>1. k \in Forms /\ h \in Forms
    BY <1>0, <1>8, AnswerForms, SignInAssumption DEF Onward
  <2>2. haste[b] = 0 => h.mixed = FALSE /\ Claim(b, h, accounts)
    BY <1>0, <1>2, <1>8, AnswerFields DEF Onward, Claim
  <2>3. calls \ {c} \in SUBSET Calls
    BY <1>0
  <2>4. Update(b, h, calls \ {c})
    BY <1>8 DEF FormAnswered
  <2> HIDE DEF h
  <2> QED BY <1>3, <2>1, <2>2, <2>3, <2>4
<1>9. CASE ShowUser(c) \/ Forget(c)
  <2>1. ~Coded(c) /\ Update(b, f, calls \ {c})
    BY <1>9 DEF ShowUser, Forget, Coded
  <2> QED BY <1>0, <1>2, <1>3, <1>4, <2>1
<1>10. CASE LoggedIn(c)
  <2>1. ~Coded(c) /\ Keep(c, f)
    BY <1>10 DEF LoggedIn, Keep, Coded
  <2> QED BY <1>0, <1>2, <1>4, <1>7, <2>1
<1>11. CASE Registered(c)
  <2> DEFINE g == Second(f, c.reply.code)
  <2>1. Coded(c) /\ Keep(c, g) /\ c.reply.what # "done"
    BY <1>0, <1>11 DEF Registered, Keep, Coded
  <2>2. g \in Forms /\ g.code = c.reply.code /\ g.email = f.email /\ g.mixed = f.mixed
    BY <1>0, AnswerForms, AnswerFields
  <2> HIDE DEF g
  <2> QED BY <1>2, <1>5, <1>6, <1>7, <2>1, <2>2 DEF Claim
<1>12. CASE Activated(c)
  <2> DEFINE g == [f EXCEPT !.done = TRUE]
  <2>1. ~Coded(c) /\ Keep(c, g)
    BY <1>12 DEF Activated, Keep, Coded
  <2>2. g \in Forms
    BY <1>0, AnswerForms
  <2>3. /\ g.step = f.step /\ g.given = f.given /\ g.code = f.code
        /\ g.email = f.email /\ g.mixed = f.mixed
    BY <1>0, AnswerFields
  <2> HIDE DEF g
  <2> QED BY <1>2, <1>4, <1>7, <2>1, <2>2, <2>3 DEF Claim
<1>13. ASSUME NEW g \in Forms, FormAnswered(c, g), Coded(c), c.reply.what # "done",
              g.code = c.reply.code, g.email = f.email, g.mixed = f.mixed
       PROVE  PromptInv'
  BY <1>2, <1>5, <1>6, <1>8, <1>13 DEF Claim
<1>14. CASE PromptOtp(c)
  <2> DEFINE g == [f EXCEPT !.step = "code", !.code = c.reply.code, !.given = TRUE, !.wait = TRUE]
  <2>1. g \in Forms
    BY <1>0, AnswerForms
  <2>2. g.code = c.reply.code /\ g.email = f.email /\ g.mixed = f.mixed
    BY <1>0, AnswerFields
  <2>3. FormAnswered(c, g) /\ Coded(c) /\ c.reply.what # "done"
    BY <1>0, <1>14 DEF PromptOtp, Coded
  <2> HIDE DEF g
  <2> QED BY <1>13, <2>1, <2>2, <2>3
<1>15. CASE PromptAgain(c)
  <2> DEFINE g == [f EXCEPT !.code = c.reply.code, !.given = TRUE]
  <2>1. g \in Forms
    BY <1>0, AnswerForms
  <2>2. g.code = c.reply.code /\ g.email = f.email /\ g.mixed = f.mixed
    BY <1>0, AnswerFields
  <2>3. FormAnswered(c, g) /\ Coded(c) /\ c.reply.what # "done"
    BY <1>0, <1>15 DEF PromptAgain, Coded
  <2> HIDE DEF g
  <2> QED BY <1>13, <2>1, <2>2, <2>3
<1>16. ASSUME NEW g \in Forms, FormAnswered(c, g), g.given = FALSE, g.mixed = f.mixed
       PROVE  PromptInv'
  BY <1>0, <1>2, <1>4, <1>5, <1>8, <1>16 DEF Claim
<1>17. CASE AskForMailed(c)
  <2> DEFINE g == [f EXCEPT !.step = "code", !.given = FALSE, !.wait = TRUE]
  <2>1. g \in Forms /\ FormAnswered(c, g)
    BY <1>0, <1>17, AnswerForms DEF AskForMailed
  <2>2. g.given = FALSE /\ g.mixed = f.mixed
    BY <1>0, AnswerFields
  <2> HIDE DEF g
  <2> QED BY <1>16, <2>1, <2>2
<1>18. CASE OtpResent(c)
  <2> DEFINE g == [f EXCEPT !.given = FALSE, !.wait = TRUE]
  <2>1. g \in Forms /\ FormAnswered(c, g)
    BY <1>0, <1>18, AnswerForms DEF OtpResent
  <2>2. g.given = FALSE /\ g.mixed = f.mixed
    BY <1>0, AnswerFields
  <2> HIDE DEF g
  <2> QED BY <1>16, <2>1, <2>2
<1>19. CASE ShowError(c)
  <2>1. ~Coded(c) /\ FormAnswered(c, f)
    BY <1>19 DEF ShowError, Coded
  <2> QED BY <1>0, <1>2, <1>4, <1>8, <2>1
<1> QED BY <1>9, <1>10, <1>11, <1>12, <1>14, <1>15, <1>17, <1>18, <1>19 DEF Answer

\* A code that an answer has put into the box is accepted, if nobody types capitals and the
\* storage takes the codes and holds emails unique.
THEOREM PromptedCodeHolds ==
  ASSUME ~MixedCase, ~StoreFails, UniqueEmails
  PROVE  Spec => []PromptedCodeWorks
<1>1. Init => PromptInv
  BY DEF Init, PromptInv, PromptOk, Claim, NewForm
<1>2. TypeInv /\ SessionInv /\ PromptInv /\ [Next]_vars => PromptInv'
  <2> SUFFICES ASSUME TypeInv, SessionInv, PromptInv, [Next]_vars
               PROVE  PromptInv'
    OBVIOUS
  <2>1. CASE UNCHANGED vars
    BY <2>1 DEF vars, PromptInv
  <2> QED BY <2>1, ActPrompt, HandlePrompt, AnswerPrompt, ElsewherePrompt, RestartPrompt DEF Next
<1>3. TypeInv /\ PromptInv => PromptedCodeWorks
  <2> SUFFICES ASSUME TypeInv, PromptInv,
                      NEW b \in Browsers, haste[b] = 0, Settled(b), Prompted(b),
                      NEW a \in Of(form[b].email), a.by = <<b>>
               PROVE  a.code = form[b].code /\ form[b].mixed = FALSE
    BY DEF PromptedCodeWorks, Matching
  <2> QED BY DEF PromptInv, PromptOk, Claim, Good, Settled, Prompted, Of
<1> QED BY <1>1, <1>2, <1>3, TypeInvHolds, SessionInvHolds, PTL DEF Spec
=============================================================================
