--------------------------- MODULE CommentsProofs ---------------------------
(***************************************************************************)
(* What holds of the comments on any number of pages, for any polls, any   *)
(* number of comments and any number of calls at a time.                   *)
(***************************************************************************)
EXTENDS Comments, FiniteSetTheorems, SequenceTheorems, WellFoundedInduction, TLAPS

-----------------------------------------------------------------------------
(* Sequences: the elements at some places, and the texts of the elements.  *)

\* The rank of a place is the number of places up to it: the k-th of n has rank k.
RankIn(I, i) == Cardinality({j \in I : j <= i})

\* Places are ranked from 1 on in their order.
LEMMA Ranks ==
  ASSUME NEW m \in Nat, NEW I \in SUBSET (1 .. m)
  PROVE  /\ Cardinality(I) \in Nat
         /\ \A i \in I : RankIn(I, i) \in 1 .. Cardinality(I)
         /\ \A i, l \in I : i < l => RankIn(I, i) < RankIn(I, l)
         /\ \A k \in 1 .. Cardinality(I) : \E i \in I : RankIn(I, i) = k
<1>1. IsFiniteSet(I) /\ Cardinality(I) \in Nat
  <2>1. IsFiniteSet(1 .. m)
    BY FS_Interval
  <2>2. IsFiniteSet(I)
    BY <2>1, FS_Subset
  <2> QED BY <2>2, FS_CardinalityType
<1> DEFINE n == Cardinality(I)
           U(i) == {j \in I : j <= i}
<1>2. ASSUME NEW i \in I
      PROVE  /\ IsFiniteSet(U(i)) /\ Cardinality(U(i)) \in 1 .. n
  <2>1. U(i) \in SUBSET I /\ i \in U(i)
    OBVIOUS
  <2>2. IsFiniteSet(U(i)) /\ Cardinality(U(i)) <= n
    BY <1>1, <2>1, FS_Subset
  <2>3. Cardinality(U(i)) \in Nat /\ Cardinality(U(i)) # 0
    BY <2>1, <2>2, FS_CardinalityType, FS_EmptySet
  <2> QED BY <1>1, <2>2, <2>3
<1>3. ASSUME NEW i \in I, NEW l \in I, i < l
      PROVE  Cardinality(U(i)) < Cardinality(U(l))
  <2>1. U(i) \in SUBSET U(l) /\ l \in U(l) /\ l \notin U(i)
    <3>1. i \in Int /\ l \in Int /\ \A j \in I : j \in Int
      OBVIOUS
    <3>2. \A j \in I : j <= i => j <= l
      BY <1>3, <3>1
    <3>3. l <= l /\ ~(l <= i)
      BY <1>3, <3>1
    <3>4. U(i) \in SUBSET U(l)
      BY <3>2
    <3> QED BY <3>3, <3>4
  <2>2. Cardinality(U(i)) <= Cardinality(U(l)) /\ Cardinality(U(i)) # Cardinality(U(l))
    BY <1>2, <2>1, FS_Subset
  <2> QED BY <1>2, <2>2
<1> DEFINE Rank(i) == RankIn(I, i)
           r == [i \in I |-> Rank(i)]
<1>4. r \in Injection(I, 1 .. n)
  <2>1. \A i \in I : Rank(i) \in 1 .. n
    BY <1>2 DEF RankIn
  <2>2. \A i, l \in I : i < l => Rank(i) < Rank(l)
    BY <1>3 DEF RankIn
  <2>3. ASSUME NEW i \in I, NEW l \in I, Rank(i) = Rank(l)
        PROVE  i = l
    <3>1. Rank(i) \in Nat /\ i \in Nat /\ l \in Nat
      BY <2>1
    <3> QED BY <2>2, <2>3, <3>1
  <2> QED BY <2>1, <2>3 DEF Injection, IsInjective
<1>5. IsFiniteSet(1 .. n) /\ Cardinality(1 .. n) = n
  BY <1>1, FS_Interval
<1>6. r \in Surjection(I, 1 .. n)
  BY <1>1, <1>4, <1>5, FS_Injection
<1>7. \A k \in 1 .. n : \E i \in I : Rank(i) = k
  BY <1>6 DEF Surjection
<1> QED BY <1>1, <1>2, <1>3, <1>7 DEF RankIn

\* Picked takes each of the places once, and in their order (the loops of GetPollComments and
\* DeleteComment in mongo.go, the filters of the pages).
LEMMA PickedPlaces ==
  ASSUME NEW S, NEW s \in Seq(S), NEW I \in SUBSET DOMAIN s
  PROVE  /\ Cardinality(I) \in Nat
         /\ \E f \in [1 .. Cardinality(I) -> I] :
            /\ Picked(s, I) = [k \in 1 .. Cardinality(I) |-> s[f[k]]]
            /\ \A k, l \in 1 .. Cardinality(I) : k < l => f[k] < f[l]
            /\ \A i \in I : \E k \in 1 .. Cardinality(I) : f[k] = i
<1> DEFINE Rank(i) == RankIn(I, i)
           n == Cardinality(I)
           f == [k \in 1 .. n |-> CHOOSE i \in I : Rank(i) = k]
<1>1. Len(s) \in Nat /\ I \in SUBSET (1 .. Len(s))
  OBVIOUS
<1>2. /\ n \in Nat
      /\ \A i \in I : Rank(i) \in 1 .. n
      /\ \A i, l \in I : i < l => Rank(i) < Rank(l)
      /\ \A k \in 1 .. n : \E i \in I : Rank(i) = k
  BY <1>1, Ranks
<1>3. Picked(s, I) = [k \in 1 .. n |-> s[f[k]]]
  BY DEF Picked, RankIn
<1> HIDE DEF Rank
<1>4. ASSUME NEW k \in 1 .. n
      PROVE  f[k] \in I /\ Rank(f[k]) = k
  BY <1>2
<1>5. f \in [1 .. n -> I]
  BY <1>4
<1> HIDE DEF f
<1>6. \A i, l \in I : Rank(i) = Rank(l) => i = l
  <2> TAKE i \in I, l \in I
  <2>1. i \in Nat /\ l \in Nat /\ Rank(i) \in Nat /\ Rank(l) \in Nat
    BY <1>1, <1>2
  <2> QED BY <1>2, <2>1
<1>7. \A k, l \in 1 .. n : k < l => f[k] < f[l]
  <2> SUFFICES ASSUME NEW k \in 1 .. n, NEW l \in 1 .. n, k < l, ~(f[k] < f[l])
               PROVE  FALSE
    OBVIOUS
  <2>1. /\ f[k] \in I /\ f[l] \in I /\ Rank(f[k]) = k /\ Rank(f[l]) = l
        /\ f[k] \in Nat /\ f[l] \in Nat /\ k \in Nat /\ l \in Nat
    BY <1>1, <1>2, <1>4
  <2>2. f[k] = f[l] \/ f[l] < f[k]
    BY <2>1
  <2> QED BY <1>2, <2>1, <2>2
<1>8. \A i \in I : \E k \in 1 .. n : f[k] = i
  <2> TAKE i \in I
  <2>1. Rank(i) \in 1 .. n /\ f[Rank(i)] = i
    BY <1>2, <1>4, <1>6
  <2> QED BY <2>1
<1> QED BY <1>2, <1>3, <1>5, <1>7, <1>8

\* The texts of a list, and a list that has each once.
TextsOf(s) == {s[i].text : i \in DOMAIN s}
Distinct(s) == \A i, j \in DOMAIN s : s[i].text = s[j].text => i = j

\* Picking keeps the elements at the places, their texts, and no text twice.
LEMMA PickedKeeps ==
  ASSUME NEW S, NEW s \in Seq(S), NEW I \in SUBSET DOMAIN s
  PROVE  /\ Picked(s, I) \in Seq(S)
         /\ \A k \in DOMAIN Picked(s, I) : \E i \in I : Picked(s, I)[k] = s[i]
         /\ \A i \in I : \E k \in DOMAIN Picked(s, I) : Picked(s, I)[k] = s[i]
         /\ TextsOf(Picked(s, I)) = {s[i].text : i \in I}
         /\ Distinct(s) => Distinct(Picked(s, I))
<1> DEFINE n == Cardinality(I)
<1>1. n \in Nat
  BY PickedPlaces
<1>2. PICK f \in [1 .. n -> I] :
            /\ Picked(s, I) = [k \in 1 .. n |-> s[f[k]]]
            /\ \A k, l \in 1 .. n : k < l => f[k] < f[l]
            /\ \A i \in I : \E k \in 1 .. n : f[k] = i
  BY PickedPlaces
<1> HIDE DEF n
<1> DEFINE p == Picked(s, I)
<1>3. DOMAIN p = 1 .. n /\ \A k \in 1 .. n : p[k] = s[f[k]]
  BY <1>2
<1>4. p \in Seq(S)
  <2>1. \A k \in 1 .. n : s[f[k]] \in S
    BY <1>2
  <2> QED BY <1>1, <1>2, <2>1
<1>5. \A k, l \in 1 .. n : f[k] = f[l] => k = l
  <2> SUFFICES ASSUME NEW k \in 1 .. n, NEW l \in 1 .. n, f[k] = f[l], k # l
               PROVE  FALSE
    OBVIOUS
  <2>1. f[k] \in Nat /\ f[l] \in Nat /\ (k < l \/ l < k)
    BY <1>1, <1>2
  <2> QED BY <1>2, <2>1
<1> HIDE DEF p
<1>6. \A k \in DOMAIN p : \E i \in I : p[k] = s[i]
  BY <1>2, <1>3
<1>7. \A i \in I : \E k \in DOMAIN p : p[k] = s[i]
  BY <1>2, <1>3
<1>8. TextsOf(p) = {s[i].text : i \in I}
  BY <1>6, <1>7 DEF TextsOf
<1>9. Distinct(s) => Distinct(p)
  BY <1>2, <1>3, <1>5 DEF Distinct
<1> QED BY <1>4, <1>6, <1>7, <1>8, <1>9 DEF p

\* An element more at the end, as the server adds a comment.
LEMMA AppendTexts ==
  ASSUME NEW S, NEW s \in Seq(S), NEW e \in S
  PROVE  /\ Append(s, e) \in Seq(S)
         /\ \A k \in DOMAIN Append(s, e) : Append(s, e)[k] = e \/ \E i \in DOMAIN s : Append(s, e)[k] = s[i]
         /\ TextsOf(Append(s, e)) = TextsOf(s) \cup {e.text}
         /\ Distinct(s) /\ e.text \notin TextsOf(s) => Distinct(Append(s, e))
<1> DEFINE t == Append(s, e)
           n == Len(s)
<1>1. n \in Nat /\ DOMAIN s = 1 .. n /\ t \in Seq(S) /\ DOMAIN t = 1 .. n + 1
  OBVIOUS
<1>2. t[n + 1] = e /\ \A k \in 1 .. n : t[k] = s[k]
  OBVIOUS
<1> HIDE DEF t, n
<1>3. \A k \in DOMAIN t : k = n + 1 \/ k \in 1 .. n
  BY <1>1
<1>4. TextsOf(t) = TextsOf(s) \cup {e.text}
  <2>1. n + 1 \in DOMAIN t /\ \A k \in 1 .. n : k \in DOMAIN t
    BY <1>1
  <2>2. \A k \in DOMAIN t : t[k].text \in TextsOf(s) \cup {e.text}
    BY <1>1, <1>2, <1>3 DEF TextsOf
  <2> QED BY <1>1, <1>2, <2>1, <2>2 DEF TextsOf
<1>5. Distinct(s) /\ e.text \notin TextsOf(s) => Distinct(t)
  BY <1>1, <1>2, <1>3 DEF Distinct, TextsOf
<1> QED BY <1>1, <1>2, <1>3, <1>4, <1>5 DEF t

\* The same on top, as the pages add their own.
LEMMA TopTexts ==
  ASSUME NEW S, NEW s \in Seq(S), NEW e \in S
  PROVE  LET t == <<e>> \o s
         IN  /\ t \in Seq(S)
             /\ \A k \in DOMAIN t : t[k] = e \/ \E i \in DOMAIN s : t[k] = s[i]
             /\ TextsOf(t) = TextsOf(s) \cup {e.text}
             /\ Distinct(s) /\ e.text \notin TextsOf(s) => Distinct(t)
<1> DEFINE t == <<e>> \o s
           n == Len(s)
<1>1. n \in Nat /\ DOMAIN s = 1 .. n /\ t \in Seq(S) /\ DOMAIN t = 1 .. n + 1
  OBVIOUS
<1>2. t[1] = e /\ \A k \in 1 .. n : t[k + 1] = s[k]
  OBVIOUS
<1> HIDE DEF t, n
<1>3. \A k \in DOMAIN t : k = 1 \/ (k - 1 \in 1 .. n /\ t[k] = s[k - 1])
  <2> TAKE k \in DOMAIN t
  <2>1. k = 1 \/ k - 1 \in 1 .. n
    BY <1>1
  <2>2. k - 1 \in 1 .. n => (k - 1) + 1 = k
    BY <1>1
  <2> QED BY <1>2, <2>1, <2>2
<1>4. TextsOf(t) = TextsOf(s) \cup {e.text}
  <2>1. 1 \in DOMAIN t /\ \A k \in 1 .. n : k + 1 \in DOMAIN t
    BY <1>1
  <2>2. \A k \in DOMAIN t : t[k].text \in TextsOf(s) \cup {e.text}
    BY <1>1, <1>2, <1>3 DEF TextsOf
  <2>3. \A i \in DOMAIN s : s[i].text \in TextsOf(t)
    BY <1>1, <1>2, <2>1 DEF TextsOf
  <2> QED BY <1>2, <2>1, <2>2, <2>3 DEF TextsOf
<1>5. ASSUME Distinct(s), e.text \notin TextsOf(s)
      PROVE  Distinct(t)
  <2>1. \A k \in DOMAIN t : k # 1 => t[k].text # e.text
    BY <1>1, <1>3, <1>5 DEF TextsOf
  <2>2. \A k, l \in DOMAIN t : k # 1 /\ l # 1 /\ t[k].text = t[l].text => k - 1 = l - 1
    BY <1>1, <1>3, <1>5 DEF Distinct
  <2>3. \A k, l \in DOMAIN t : k - 1 = l - 1 => k = l
    BY <1>1
  <2> QED BY <1>2, <2>1, <2>2, <2>3 DEF Distinct
<1>6. \A k \in DOMAIN t : t[k] = e \/ \E i \in DOMAIN s : t[k] = s[i]
  BY <1>1, <1>2, <1>3
<1> QED BY <1>1, <1>4, <1>5, <1>6 DEF t

\* An element less.
LEMMA RemovedTexts ==
  ASSUME NEW S, NEW s \in Seq(S), NEW i \in DOMAIN s
  PROVE  /\ RemoveAt(s, i) \in Seq(S)
         /\ \A k \in DOMAIN RemoveAt(s, i) : \E j \in DOMAIN s : RemoveAt(s, i)[k] = s[j]
         /\ TextsOf(RemoveAt(s, i)) \subseteq TextsOf(s)
         /\ Distinct(s) => Distinct(RemoveAt(s, i))
<1> DEFINE a == SubSeq(s, 1, i - 1)
           b == SubSeq(s, i + 1, Len(s))
           t == RemoveAt(s, i)
           n == Len(s)
<1>1. n \in Nat /\ DOMAIN s = 1 .. n /\ i \in 1 .. n
  OBVIOUS
<1>2. a \in Seq(S) /\ Len(a) = i - 1 /\ \A k \in 1 .. i - 1 : a[k] = s[k]
  BY <1>1
<1>3. b \in Seq(S) /\ Len(b) = n - i /\ \A k \in 1 .. n - i : b[k] = s[i + k]
  BY <1>1
<1> HIDE DEF a, b
<1>4. t = a \o b
  BY DEF RemoveAt, a, b
<1>5. /\ t \in Seq(S) /\ Len(t) = n - 1
      /\ \A k \in 1 .. n - 1 : t[k] = IF k < i THEN s[k] ELSE s[k + 1]
  <2>0. i \in Int /\ n \in Int /\ (i - 1) + (n - i) = n - 1
    BY <1>1
  <2>1. t \in Seq(S) /\ Len(t) = n - 1
    <3>0. a \in Seq(S) /\ b \in Seq(S)
      BY <1>2, <1>3
    <3> HIDE DEF t, n
    <3>1. a \o b \in Seq(S) /\ Len(a \o b) = Len(a) + Len(b)
      BY <3>0, ConcatProperties
    <3>2. t \in Seq(S) /\ Len(t) = Len(a) + Len(b)
      BY <1>4, <3>1
    <3> QED BY <1>2, <1>3, <2>0, <3>2
  <2>2. ASSUME NEW k \in 1 .. n - 1
        PROVE  t[k] = IF k < i THEN s[k] ELSE s[k + 1]
    <3>1. CASE k < i
      BY <1>1, <1>2, <1>3, <1>4, <3>1
    <3>2. CASE ~(k < i)
      <4>1. k - (i - 1) \in 1 .. n - i /\ i + (k - (i - 1)) = k + 1
        BY <1>1, <3>2
      <4>2. t[k] = b[k - (i - 1)]
        BY <1>1, <1>2, <1>3, <1>4, <3>2
      <4> QED BY <1>3, <3>2, <4>1, <4>2
    <3> QED BY <3>1, <3>2
  <2> QED BY <2>1, <2>2
<1> HIDE DEF t, n
<1>6. DOMAIN t = 1 .. n - 1
  BY <1>1, <1>5
<1> DEFINE place(k) == IF k < i THEN k ELSE k + 1
<1>7. \A k \in DOMAIN t : place(k) \in DOMAIN s /\ t[k] = s[place(k)]
  BY <1>1, <1>5, <1>6
<1>8. \A k, l \in DOMAIN t : place(k) = place(l) => k = l
  BY <1>1, <1>6
<1> HIDE DEF place
<1>9. TextsOf(t) \subseteq TextsOf(s)
  BY <1>7 DEF TextsOf
<1>10. Distinct(s) => Distinct(t)
  BY <1>7, <1>8 DEF Distinct
<1> QED BY <1>5, <1>7, <1>9, <1>10 DEF t

-----------------------------------------------------------------------------
(* The types of the calls, and what a step makes of the calls under way.   *)

CommentType == [text : Texts, poll : Polls, by : Pages \cup {None}]
ReplyType == [ok : BOOLEAN, list : Seq(Entries)]
CallFields ==
    [page : Pages, n : 1 .. MaxCalls, kind : CallKinds, poll : Polls,
     text : 0 .. MaxTexts, alone : BOOLEAN, gone : BOOLEAN,
     phase : {"sent", "answered"}, reply : ReplyType]

\* The calls that end in another list, and those that come to be such calls.
Loading == {"load", "details"}
Asking == {"load", "details", "reset"}

\* What is posted or deleted is a text.
CallType == {c \in CallFields : c.kind \notin Asking => c.text \in Texts}

\* TypeOK, with calls that are records of these fields and no others.
TypeInv ==
    /\ comments \in Seq(CommentType)
    /\ texts \in 0 .. MaxTexts
    /\ kind \in [Pages -> Kinds]
    /\ poll \in [Pages -> Polls \cup {None}] /\ list \in [Pages -> Seq(Entries)]
    /\ posting \in [Pages -> BOOLEAN] /\ calm \in [Pages -> BOOLEAN]
    /\ removed \in [Pages -> SUBSET Texts]
    /\ calls \subseteq CallType

\* The calls' types are those of TypeOK.
LEMMA TypesGiveTypeOK ==
  ASSUME TypeInv
  PROVE  TypeOK
<1>1. ASSUME NEW c \in calls
      PROVE  /\ c.page \in Pages /\ c.n \in 1 .. MaxCalls /\ c.kind \in CallKinds
             /\ c.poll \in Polls /\ c.text \in 0 .. MaxTexts /\ {c.alone, c.gone} \subseteq BOOLEAN
             /\ c.phase \in {"sent", "answered"} /\ c.reply \in [ok : BOOLEAN, list : Seq(Entries)]
  <2>1. c \in CallType
    BY DEF TypeInv
  <2> QED BY <2>1 DEF CallType, CallFields, ReplyType
<1> QED BY <1>1 DEF TypeInv, TypeOK, CommentType

\* The posts that wait for the server, and their texts.
PendingIn(C) == {c \in C : c.kind = "post" /\ c.phase = "sent"}
WaitingIn(C) == {c.text : c \in PendingIn(C)}
Unique(C) == \A c, d \in PendingIn(C) : c.text = d.text => c = d

\* A call after a step that leaves it what it was.
Like(e, c) ==
    /\ e \in CallType
    /\ e.page = c.page /\ e.kind = c.kind /\ e.poll = c.poll /\ e.text = c.text
    /\ e.phase = c.phase /\ e.reply = c.reply
    /\ e.alone => c.alone
    /\ c.kind \in Asking => e.gone = c.gone

\* The calls D come from the calls C, but for those in N.
From(D, C, N) ==
    /\ D \subseteq CallType
    /\ \A e \in D : e \in N \/ \E c \in C : Like(e, c)
    /\ Unique(C) => \A e, f \in PendingIn(D) \ N : e.text = f.text => e = f

\* The calls of other pages than g stay.
Aside(D, C, g) == \A h \in Pages \ {g} : {c \in D : c.page = h} = {c \in C : c.page = h}

\* No page that is loading is not any more on the way from C to D.
LoadsIn(D, C) ==
    \A c \in C : c.kind \in Loading => \E e \in D : e.page = c.page /\ e.kind \in Loading

\* A call is like itself.
LEMMA LikeItself ==
  ASSUME NEW c \in CallType
  PROVE  Like(c, c)
  BY DEF Like

\* Calls that stay, or some of them.
LEMMA FromSubset ==
  ASSUME NEW C \in SUBSET CallType, NEW D \in SUBSET C
  PROVE  From(D, C, {})
  BY LikeItself DEF From, Unique, PendingIn

\* Some calls stay, and one takes its place among them.
LEMMA FromOneMore ==
  ASSUME NEW C \in SUBSET CallType, NEW D \in SUBSET C, NEW a \in CallType
  PROVE  From(D \cup {a}, C, {a})
  BY LikeItself DEF From, Unique, PendingIn

\* A call as it is sent.
NewCall(d, g, what, p, text) ==
    /\ d \in CallType
    /\ d.page = g /\ d.kind = what /\ d.poll = p /\ d.text = text
    /\ d.alone = ({c \in calls : c.page = g} = {})
    /\ d.gone = FALSE /\ d.phase = "sent" /\ d.reply = NoReply

\* The first free number of a page is one.
LEMMA SlotType ==
  ASSUME NEW g, Slots(g) # {}
  PROVE  (CHOOSE n \in Slots(g) : \A m \in Slots(g) : n <= m) \in 1 .. MaxCalls
<1> DEFINE Less == {ss \in Nat \X Nat : ss[1] < ss[2]}
<1>1. IsWellFoundedOn(Less, Nat) /\ Slots(g) \subseteq 1 .. MaxCalls
  BY NatLessThanWellFounded DEF OpToRel, Slots
<1>2. Slots(g) \subseteq Nat
  BY <1>1, PagesAssumption
<1> HIDE DEF Less
<1>3. PICK n \in Slots(g) : \A m \in Slots(g) : <<m, n>> \notin Less
  BY <1>1, <1>2, WFMin
<1>4. \A m \in Slots(g) : n <= m
  <2> TAKE m \in Slots(g)
  <2>1. <<m, n>> \notin Less /\ m \in Nat /\ n \in Nat
    BY <1>2, <1>3
  <2>2. ~(m < n)
    BY <2>1 DEF Less
  <2> QED BY <2>1, <2>2
<1> QED BY <1>1, <1>4

\* No answer is one of the answers.
LEMMA NoReplyType == NoReply \in ReplyType /\ TextsOf(NoReply.list) = {} /\ Distinct(NoReply.list)
<1>1. <<>> \in Seq(Entries) /\ DOMAIN <<>> = {}
  OBVIOUS
<1> QED BY <1>1 DEF NoReply, ReplyType, TextsOf, Distinct

\* Ask: one call more, and the others of the page are not alone any more.
LEMMA Asked ==
  ASSUME TypeInv, NEW g \in Pages, NEW what \in CallKinds, NEW p \in Polls,
         NEW text \in 0 .. MaxTexts, what \notin Asking => text \in Texts, Ask(g, what, p, text)
  PROVE  \E d : /\ NewCall(d, g, what, p, text) /\ d \in calls'
                /\ From(calls', calls, {d}) /\ Aside(calls', calls, g) /\ LoadsIn(calls', calls)
                /\ \A e \in calls' : e.page = g /\ e # d => ~e.alone
<1> DEFINE n == CHOOSE n \in Slots(g) : \A m \in Slots(g) : n <= m
           d == Call(g, n, what, p, text, CallsOf(g) = {})
           q == [c \in calls |-> IF c.page = g THEN [c EXCEPT !.alone = FALSE] ELSE c]
<1>1. calls \subseteq CallType
  BY DEF TypeInv
<1>2. n \in 1 .. MaxCalls
  BY SlotType DEF Ask
<1>3. calls' = {q[c] : c \in calls} \cup {d}
  BY DEF Ask
<1> HIDE DEF n
<1>4. NewCall(d, g, what, p, text)
  BY <1>2, NoReplyType DEF NewCall, Call, CallType, CallFields, CallsOf
<1> HIDE DEF d
<1>5. ASSUME NEW c \in calls
      PROVE  Like(q[c], c) /\ (c.page = g => ~q[c].alone) /\ (c.page # g => q[c] = c)
  <2>1. c \in CallType
    BY <1>1
  <2>2. CASE c.page = g
    <3>1. q[c] = [c EXCEPT !.alone = FALSE]
      BY <2>2
    <3> HIDE DEF q
    <3> QED BY <2>1, <2>2, <3>1 DEF Like, CallType, CallFields
  <2>3. CASE c.page # g
    <3>1. q[c] = c
      BY <2>3
    <3> HIDE DEF q
    <3> QED BY <2>1, <2>3, <3>1, LikeItself
  <2> QED BY <2>2, <2>3
<1> HIDE DEF q
<1>6. d \in CallType /\ d.page = g
  BY <1>4 DEF NewCall
<1>7. \A e \in calls' : e = d \/ \E c \in calls : e = q[c] /\ Like(e, c)
  BY <1>3, <1>5
<1>8. From(calls', calls, {d})
  <2>1. calls' \subseteq CallType
    BY <1>6, <1>7 DEF Like
  <2>2. ASSUME Unique(calls), NEW e \in PendingIn(calls') \ {d}, NEW f \in PendingIn(calls') \ {d},
               e.text = f.text
        PROVE  e = f
    <3>1. PICK c \in calls : e = q[c] /\ Like(e, c)
      BY <1>7 DEF PendingIn
    <3>2. PICK b \in calls : f = q[b] /\ Like(f, b)
      BY <1>7 DEF PendingIn
    <3>3. c \in PendingIn(calls) /\ b \in PendingIn(calls) /\ c.text = b.text
      BY <2>2, <3>1, <3>2 DEF PendingIn, Like
    <3> QED BY <2>2, <3>1, <3>2, <3>3 DEF Unique
  <2> QED BY <1>7, <2>1, <2>2 DEF From
<1>9. Aside(calls', calls, g)
  <2>1. \A e \in calls' : e.page # g => e \in calls
    BY <1>5, <1>6, <1>7 DEF Like
  <2>2. \A c \in calls : c.page # g => c \in calls'
    BY <1>3, <1>5
  <2> QED BY <2>1, <2>2 DEF Aside
<1>10. LoadsIn(calls', calls)
  BY <1>3, <1>5 DEF LoadsIn, Like
<1>11. \A e \in calls' : e.page = g /\ e # d => ~e.alone
  BY <1>5, <1>7 DEF Like
<1> QED BY <1>3, <1>4, <1>8, <1>9, <1>10, <1>11

\* Leave: what was sent is still handled, if it is a post or a deletion.
LEMMA Left ==
  ASSUME TypeInv, NEW g \in Pages, Leave(g)
  PROVE  /\ From(calls', calls, {}) /\ Aside(calls', calls, g)
         /\ \A e \in calls' : e.page = g => e.kind \notin Asking
<1> DEFINE q == [c \in calls |-> [c EXCEPT !.gone = TRUE]]
           L == {d \in CallsOf(g) : d.phase = "sent" /\ d.kind \in {"post", "delete"}}
           O == calls \ CallsOf(g)
<1>1. calls \subseteq CallType
  BY DEF TypeInv
<1>2. calls' = O \cup {q[c] : c \in L} /\ O \subseteq calls /\ L \subseteq calls
  BY DEF Leave, CallsOf
<1>3. (\A c \in O : c.page # g) /\ (\A c \in calls : c.page # g => c \in O)
      /\ \A c \in L : c.page = g /\ c.kind \notin Asking
  BY DEF CallsOf, Asking
<1>4. ASSUME NEW c \in L
      PROVE  Like(q[c], c)
  <2>1. c \in CallType /\ q[c] = [c EXCEPT !.gone = TRUE] /\ c.kind \notin Asking
    BY <1>1, <1>2, <1>3
  <2> HIDE DEF q
  <2> QED BY <2>1 DEF Like, CallType, CallFields
<1> HIDE DEF q, L, O
<1>5. \A e \in calls' : e \in O \/ \E c \in L : e = q[c] /\ Like(e, c)
  BY <1>2, <1>4
<1>6. From(calls', calls, {})
  <2>1. calls' \subseteq CallType
    BY <1>1, <1>2, <1>5 DEF Like
  <2>2. \A e \in calls' : \E c \in calls : Like(e, c)
    BY <1>1, <1>2, <1>5, LikeItself
  <2>3. ASSUME Unique(calls), NEW e \in PendingIn(calls'), NEW f \in PendingIn(calls'),
               e.text = f.text
        PROVE  e = f
    <3>1. PICK c \in calls : Like(e, c) /\ ((e \in O /\ e = c) \/ (c \in L /\ e = q[c]))
      BY <1>1, <1>2, <1>5, LikeItself DEF PendingIn
    <3>2. PICK b \in calls : Like(f, b) /\ ((f \in O /\ f = b) \/ (b \in L /\ f = q[b]))
      BY <1>1, <1>2, <1>5, LikeItself DEF PendingIn
    <3>3. c \in PendingIn(calls) /\ b \in PendingIn(calls) /\ c.text = b.text
      BY <2>3, <3>1, <3>2 DEF PendingIn, Like
    <3>4. c = b
      BY <2>3, <3>3 DEF Unique
    <3> QED BY <1>3, <3>1, <3>2, <3>4
  <2> QED BY <2>1, <2>2, <2>3 DEF From
<1>7. Aside(calls', calls, g)
  <2>1. \A e \in calls' : e.page # g => e \in calls
    BY <1>2, <1>3, <1>5 DEF Like
  <2>2. \A c \in calls : c.page # g => c \in calls'
    BY <1>2, <1>3
  <2> QED BY <2>1, <2>2 DEF Aside
<1>8. \A e \in calls' : e.page = g => e.kind \notin Asking
  BY <1>3, <1>5 DEF Like
<1> QED BY <1>6, <1>7, <1>8

\* A call as it is answered.
AnsweredCall(a, c, reply) ==
    /\ a \in CallType
    /\ a.page = c.page /\ a.kind = c.kind /\ a.poll = c.poll /\ a.text = c.text
    /\ a.alone = c.alone /\ a.gone = c.gone
    /\ a.phase = "answered" /\ a.reply \in {reply, NoReply}

\* Reply: the answered call takes the place of the call, unless the page was left.
LEMMA Replied ==
  ASSUME TypeInv, NEW c \in calls, NEW reply \in ReplyType, Reply(c, reply)
  PROVE  \E a : /\ AnsweredCall(a, c, reply)
                /\ calls' = (calls \ {c}) \cup {a} \/ (c.gone /\ calls' = calls \ {c})
<1>1. c \in CallType
  BY DEF TypeInv
<1>2. PICK r \in {reply, NoReply} :
        calls' = (calls \ {c}) \cup IF c.gone THEN {}
                                    ELSE {[c EXCEPT !.phase = "answered", !.reply = r]}
  BY DEF Reply
<1> DEFINE a == [c EXCEPT !.phase = "answered", !.reply = r]
<1>3. r \in ReplyType
  BY <1>2, NoReplyType
<1>4. AnsweredCall(a, c, reply)
  BY <1>1, <1>2, <1>3 DEF AnsweredCall, CallType, CallFields
<1>5. calls' = (calls \ {c}) \cup {a} \/ (c.gone /\ calls' = calls \ {c})
  BY <1>2
<1> QED BY <1>4, <1>5

-----------------------------------------------------------------------------
(* The lists of the pages.                                                 *)

\* List l takes the place of the list of page g.
ListNow(g, l) == l \in Seq(Entries) /\ list' = [list EXCEPT ![g] = l]

\* OnTop: the new text is on top, for the poll that is shown.
LEMMA Topped ==
  ASSUME TypeInv, NEW g \in Pages, OnTop(g)
  PROVE  /\ texts' = texts + 1 /\ texts' \in 1 .. MaxTexts /\ poll[g] \in Polls
         /\ \E l : /\ ListNow(g, l)
                   /\ TextsOf(l) = TextsOf(list[g]) \cup {texts'}
                   /\ Distinct(list[g]) /\ texts' \notin TextsOf(list[g]) => Distinct(l)
                   /\ \A k \in DOMAIN l : \/ l[k].text = texts' /\ l[k].poll = poll[g]
                                          \/ \E i \in DOMAIN list[g] : l[k] = list[g][i]
<1> DEFINE e == Entry(g, texts', TRUE)
           s == list[g]
           l == <<e>> \o s
<1>1. texts' = texts + 1 /\ texts' \in 1 .. MaxTexts /\ poll[g] \in Polls
  BY PagesAssumption DEF OnTop, TypeInv
<1>2. e \in Entries /\ e.text = texts' /\ e.poll = poll[g]
  BY <1>1 DEF Entry, Entries, Texts
<1>3. s \in Seq(Entries)
  BY DEF TypeInv
<1>4. list' = [list EXCEPT ![g] = l]
  BY DEF OnTop
<1> HIDE DEF e, s
<1>5. /\ l \in Seq(Entries)
      /\ \A k \in DOMAIN l : l[k] = e \/ \E i \in DOMAIN s : l[k] = s[i]
      /\ TextsOf(l) = TextsOf(s) \cup {e.text}
      /\ Distinct(s) /\ e.text \notin TextsOf(s) => Distinct(l)
  BY <1>2, <1>3, TopTexts
<1> HIDE DEF l
<1>6. ListNow(g, l)
  BY <1>4, <1>5 DEF ListNow
<1>7. \A k \in DOMAIN l : \/ l[k].text = texts' /\ l[k].poll = poll[g]
                          \/ \E i \in DOMAIN s : l[k] = s[i]
  BY <1>2, <1>5
<1> QED BY <1>1, <1>2, <1>5, <1>6, <1>7 DEF s

\* ToggleLike: the texts and polls of the list stay.
LEMMA Toggled ==
  ASSUME TypeInv, NEW g \in Pages, NEW i \in DOMAIN list[g], ToggleLike(g, i)
  PROVE  \E l : /\ ListNow(g, l)
                /\ DOMAIN l = DOMAIN list[g]
                /\ \A k \in DOMAIN l : l[k].text = list[g][k].text /\ l[k].poll = list[g][k].poll
<1> DEFINE s == list[g]
           e == [s[i] EXCEPT !.liked = ~@]
           l == [s EXCEPT ![i] = e]
<1>1. s \in Seq(Entries) /\ i \in DOMAIN s /\ s[i] \in Entries
  BY DEF TypeInv
<1>2. list' = [list EXCEPT ![g] = l]
  BY DEF ToggleLike
<1> HIDE DEF s
<1>3. e \in Entries /\ e.text = s[i].text /\ e.poll = s[i].poll
  BY <1>1 DEF Entries
<1> HIDE DEF e
<1>4. l \in Seq(Entries) /\ DOMAIN l = DOMAIN s
  BY <1>1, <1>3
<1>5. \A k \in DOMAIN l : l[k] = IF k = i THEN e ELSE s[k]
  BY <1>1, <1>4
<1> HIDE DEF l
<1> QED BY <1>2, <1>3, <1>4, <1>5 DEF ListNow, s

\* GetComments: the comments of the poll, each once, without likes.
LEMMA Listed ==
  ASSUME TypeInv, NEW p \in Polls
  PROVE  LET l == [i \in DOMAIN OfPoll(p) |-> [text |-> OfPoll(p)[i].text, poll |-> p, liked |-> FALSE]]
         IN  /\ l \in Seq(Entries)
             /\ TextsOf(l) = {comments[i].text : i \in {j \in DOMAIN comments : comments[j].poll = p}}
             /\ Distinct(comments) => Distinct(l)
             /\ \A i \in DOMAIN l : l[i].poll = p
<1> DEFINE I == {i \in DOMAIN comments : comments[i].poll = p}
           s == OfPoll(p)
           l == [i \in DOMAIN s |-> [text |-> s[i].text, poll |-> p, liked |-> FALSE]]
<1>1. comments \in Seq(CommentType) /\ I \in SUBSET DOMAIN comments
  BY DEF TypeInv
<1>2. s = Picked(comments, I)
  BY DEF OfPoll
<1> HIDE DEF I, s
<1>3. /\ s \in Seq(CommentType)
      /\ TextsOf(s) = {comments[i].text : i \in I}
      /\ Distinct(comments) => Distinct(s)
  BY <1>1, <1>2, PickedKeeps
<1>4. \A i \in DOMAIN s : s[i].text \in Texts
  <2>1. \A i \in DOMAIN s : s[i] \in CommentType
    BY <1>3
  <2> QED BY <2>1 DEF CommentType
<1>5. \A i \in DOMAIN s : l[i] = [text |-> s[i].text, poll |-> p, liked |-> FALSE]
  OBVIOUS
<1>6. l \in Seq(Entries)
  <2>1. Len(s) \in Nat /\ DOMAIN s = 1 .. Len(s)
    BY <1>3
  <2>2. \A i \in 1 .. Len(s) : l[i] \in Entries
    BY <1>4, <2>1 DEF Entries
  <2>3. l \in [1 .. Len(s) -> Entries]
    BY <2>1, <2>2
  <2> HIDE DEF l
  <2> QED BY <2>1, <2>3
<1>7. DOMAIN l = DOMAIN s /\ \A i \in DOMAIN s : l[i].text = s[i].text /\ l[i].poll = p
  BY <1>5
<1> HIDE DEF l
<1>8. TextsOf(l) = TextsOf(s) /\ (Distinct(s) => Distinct(l))
  BY <1>7 DEF TextsOf, Distinct
<1> QED BY <1>3, <1>6, <1>7, <1>8 DEF l, I, s

\* Without: the entries of one text are gone.
LEMMA Cleared ==
  ASSUME NEW s \in Seq(Entries), NEW text
  PROVE  /\ Without(s, text) \in Seq(Entries)
         /\ \A k \in DOMAIN Without(s, text) : \E i \in DOMAIN s : Without(s, text)[k] = s[i] /\ s[i].text # text
         /\ TextsOf(Without(s, text)) \subseteq TextsOf(s)
         /\ Distinct(s) => Distinct(Without(s, text))
<1> DEFINE I == {i \in DOMAIN s : s[i].text # text}
<1>1. I \in SUBSET DOMAIN s /\ Without(s, text) = Picked(s, I)
  BY DEF Without
<1>2. \A i \in I : i \in DOMAIN s /\ s[i].text # text
  OBVIOUS
<1> HIDE DEF I
<1> QED BY <1>1, <1>2, PickedKeeps DEF TextsOf

-----------------------------------------------------------------------------
(* The types hold after every step.                                        *)

\* At first.
LEMMA TypeFirst ==
  ASSUME Init
  PROVE  TypeInv
<1>1. <<>> \in Seq(CommentType) /\ <<>> \in Seq(Entries) /\ {} \in SUBSET Texts
  OBVIOUS
<1> QED BY <1>1, PagesAssumption DEF Init, TypeInv

\* A comment more, at the end.
LEMMA StoredType ==
  ASSUME TypeInv, NEW t \in Texts, NEW p \in Polls, NEW g \in Pages \cup {None},
         comments' = Append(comments, [text |-> t, poll |-> p, by |-> g])
  PROVE  /\ comments' \in Seq(CommentType)
         /\ TextsOf(comments') = TextsOf(comments) \cup {t}
         /\ Distinct(comments) /\ t \notin TextsOf(comments) => Distinct(comments')
         /\ \A k \in DOMAIN comments' :
                \/ comments'[k] = [text |-> t, poll |-> p, by |-> g]
                \/ \E i \in DOMAIN comments : comments'[k] = comments[i]
<1> DEFINE e == [text |-> t, poll |-> p, by |-> g]
<1>1. e \in CommentType /\ e.text = t
  BY DEF CommentType
<1>2. comments \in Seq(CommentType) /\ comments' = Append(comments, e)
  BY DEF TypeInv
<1> HIDE DEF e
<1>3. /\ Append(comments, e) \in Seq(CommentType)
      /\ TextsOf(Append(comments, e)) = TextsOf(comments) \cup {e.text}
      /\ Distinct(comments) /\ e.text \notin TextsOf(comments) => Distinct(Append(comments, e))
      /\ \A k \in DOMAIN Append(comments, e) :
            Append(comments, e)[k] = e \/ \E i \in DOMAIN comments : Append(comments, e)[k] = comments[i]
  BY <1>1, <1>2, AppendTexts
<1>4. /\ comments' \in Seq(CommentType)
      /\ TextsOf(comments') = TextsOf(comments) \cup {t}
      /\ Distinct(comments) /\ t \notin TextsOf(comments) => Distinct(comments')
      /\ \A k \in DOMAIN comments' : comments'[k] = e \/ \E i \in DOMAIN comments : comments'[k] = comments[i]
  BY <1>1, <1>2, <1>3
<1> QED BY <1>4 DEF e

\* s is what is left of the comments t.
Fewer(s, t) ==
    /\ s \in Seq(CommentType)
    /\ \A k \in DOMAIN s : \E i \in DOMAIN t : s[k] = t[i]
    /\ Distinct(t) => Distinct(s)

\* DeleteComment: the comments of a text are gone.
LEMMA DeletedType ==
  ASSUME TypeInv, NEW text,
         comments' = Picked(comments, {i \in DOMAIN comments : comments[i].text # text})
  PROVE  Fewer(comments', comments) /\ text \notin TextsOf(comments')
<1> DEFINE I == {i \in DOMAIN comments : comments[i].text # text}
<1>1. comments \in Seq(CommentType) /\ I \in SUBSET DOMAIN comments /\ comments' = Picked(comments, I)
  BY DEF TypeInv
<1>2. \A i \in I : i \in DOMAIN comments /\ comments[i].text # text
  OBVIOUS
<1> HIDE DEF I
<1>3. /\ Picked(comments, I) \in Seq(CommentType)
      /\ \A k \in DOMAIN Picked(comments, I) : \E i \in I : Picked(comments, I)[k] = comments[i]
      /\ TextsOf(Picked(comments, I)) = {comments[i].text : i \in I}
      /\ Distinct(comments) => Distinct(Picked(comments, I))
  BY <1>1, PickedKeeps
<1>4. /\ comments' \in Seq(CommentType)
      /\ \A k \in DOMAIN comments' : \E i \in I : comments'[k] = comments[i]
      /\ TextsOf(comments') = {comments[i].text : i \in I}
      /\ Distinct(comments) => Distinct(comments')
  BY <1>1, <1>3
<1> QED BY <1>2, <1>4 DEF Fewer

\* DeleteElsewhere: any comment is gone.
LEMMA RemovedType ==
  ASSUME TypeInv, NEW i \in DOMAIN comments, comments' = RemoveAt(comments, i)
  PROVE  Fewer(comments', comments)
<1>1. comments \in Seq(CommentType)
  BY DEF TypeInv
<1> QED BY <1>1, RemovedTexts DEF Fewer

\* The calls under way keep their types in every step.
LEMMA FromType ==
  ASSUME NEW D, NEW C, NEW N, From(D, C, N)
  PROVE  D \subseteq CallType
  BY DEF From

\* Shows, Select, Reset, Post, React, Leave, ToggleLike and Delete keep the types.
LEMMA PageTypes ==
  ASSUME TypeInv, NEW g \in Pages, Act(g)
  PROVE  TypeInv'
<1>1. ASSUME NEW p \in Polls, Shows(g, p) \/ Select(g, p)
      PROVE  TypeInv'
  <2>1. 0 \in 0 .. MaxTexts /\ \E what \in Loading : Ask(g, what, p, 0)
    BY <1>1, PagesAssumption DEF Shows, Select, Loading
  <2>2. calls' \subseteq CallType
    <3>1. \A what \in Loading : what \in CallKinds /\ what \in Asking
      BY DEF Loading, CallKinds, Asking
    <3> QED BY <2>1, <3>1, Asked, FromType
  <2> QED BY <1>1, <2>2 DEF Shows, Select, TypeInv, ghosts
<1>2. CASE Post(g)
  <2>1. OnTop(g) /\ Ask(g, "post", poll[g], texts')
    BY <1>2 DEF Post
  <2>2. texts' \in 1 .. MaxTexts /\ poll[g] \in Polls /\ \E l : ListNow(g, l)
    BY <2>1, Topped
  <2>3. calls' \subseteq CallType
    <3>1. texts' \in 0 .. MaxTexts /\ texts' \in Texts
      BY <2>2, PagesAssumption DEF Texts
    <3> QED BY <2>1, <2>2, <3>1, Asked, FromType DEF CallKinds
  <2>4. posting' \in [Pages -> BOOLEAN]
    BY <1>2 DEF Post, TypeInv
  <2> QED BY <1>2, <2>2, <2>3, <2>4, PagesAssumption DEF Post, TypeInv, ghosts, ListNow
<1>3. CASE React(g)
  <2>1. texts' \in 1 .. MaxTexts /\ \E l : ListNow(g, l)
    BY <1>3, Topped DEF React
  <2> QED BY <1>3, <2>1, PagesAssumption DEF React, TypeInv, ghosts, ListNow
<1>4. CASE Leave(g)
  <2>1. calls' \subseteq CallType
    BY <1>4, Left, FromType
  <2>2. <<>> \in Seq(Entries)
    OBVIOUS
  <2> QED BY <1>4, <2>1, <2>2 DEF Leave, TypeInv
<1>5. ASSUME NEW i \in DOMAIN list[g], ToggleLike(g, i)
      PROVE  TypeInv'
  <2>1. \E l : ListNow(g, l)
    BY <1>5, Toggled
  <2> QED BY <1>5, <2>1 DEF ToggleLike, TypeInv, ghosts, ListNow
<1>6. ASSUME NEW i \in DOMAIN list[g], Delete(g, i)
      PROVE  TypeInv'
  <2>1. list[g][i] \in Entries
    BY DEF TypeInv
  <2>2. list[g][i].poll \in Polls /\ list[g][i].text \in 0 .. MaxTexts /\ list[g][i].text \in Texts
    BY <2>1, PagesAssumption DEF Entries, Texts
  <2>3. calls' \subseteq CallType
    BY <1>6, <2>2, Asked, FromType DEF Delete, CallKinds
  <2> QED BY <1>6, <2>3 DEF Delete, TypeInv, ghosts, pageVars
<1>7. CASE Reset(g)
  <2>1. 0 \in 0 .. MaxTexts /\ Ask(g, "reset", poll[g], 0) /\ poll[g] \in Polls
    BY <1>7, PagesAssumption DEF Reset, TypeInv
  <2>2. "reset" \in CallKinds /\ "reset" \in Asking
    BY DEF CallKinds, Asking
  <2>3. calls' \subseteq CallType
    BY <2>1, <2>2, Asked, FromType
  <2> QED BY <1>7, <2>3 DEF Reset, TypeInv, pageVars, ghosts
<1> QED BY <1>1, <1>2, <1>3, <1>4, <1>5, <1>6, <1>7 DEF Act

\* What a call asks for is answered: the calls under way after any of the server's steps.
LEMMA HandledCalls ==
  ASSUME TypeInv, NEW c \in calls, NEW reply \in ReplyType, Reply(c, reply)
  PROVE  calls' \subseteq CallType
<1>1. PICK a : /\ AnsweredCall(a, c, reply)
               /\ calls' = (calls \ {c}) \cup {a} \/ (c.gone /\ calls' = calls \ {c})
  BY Replied
<1> QED BY <1>1 DEF AnsweredCall, TypeInv

\* The answer to a load.
LoadReply(p) ==
    LET found == OfPoll(p)
    IN  [ok |-> TRUE, list |-> [i \in DOMAIN found |->
            [text |-> found[i].text, poll |-> p, liked |-> FALSE]]]

\* The answers of the server are answers.
LEMMA ReplyTypes ==
  ASSUME TypeInv
  PROVE  Ok \in ReplyType /\ NoReply \in ReplyType /\ \A p \in Polls : LoadReply(p) \in ReplyType
<1>1. Ok \in ReplyType
  BY NoReplyType DEF Ok, ReplyType
<1>2. ASSUME NEW p \in Polls
      PROVE  LoadReply(p) \in ReplyType
  <2>1. [i \in DOMAIN OfPoll(p) |-> [text |-> OfPoll(p)[i].text, poll |-> p, liked |-> FALSE]] \in Seq(Entries)
    BY <1>2, Listed
  <2> QED BY <2>1 DEF LoadReply, ReplyType
<1> QED BY <1>1, <1>2, NoReplyType

\* The server keeps the types.
LEMMA HandleTypes ==
  ASSUME TypeInv, NEW c \in calls, Handle(c)
  PROVE  TypeInv'
<1>1. c \in CallType
  BY DEF TypeInv
<1>2. c.page \in Pages /\ c.poll \in Polls /\ c.text \in 0 .. MaxTexts
  BY <1>1 DEF CallType, CallFields
<1>3. calls' \subseteq CallType
  <2>1. CASE AddComment(c) \/ DeleteComment(c) \/ OtherRequest(c)
    BY <2>1, ReplyTypes, HandledCalls DEF AddComment, DeleteComment, OtherRequest
  <2>2. CASE GetComments(c)
    <3>1. Reply(c, LoadReply(c.poll))
      BY <2>2 DEF GetComments, LoadReply
    <3> QED BY <1>2, <3>1, ReplyTypes, HandledCalls
  <2>3. CASE Fail(c)
    BY <2>3, ReplyTypes, HandledCalls DEF Fail
  <2> QED BY <2>1, <2>2, <2>3 DEF Handle
<1>4. comments' \in Seq(CommentType)
  <2>1. CASE AddComment(c)
    <3>1. comments' = Append(comments, [text |-> c.text, poll |-> c.poll, by |-> c.page])
      BY <2>1 DEF AddComment
    <3>2. c.text \in Texts
      BY <1>1, <2>1 DEF CallType, CallFields, AddComment, Asking
    <3> QED BY <1>2, <3>1, <3>2, StoredType
  <2>2. CASE DeleteComment(c)
    BY <2>2, DeletedType DEF DeleteComment, Fewer
  <2>3. CASE GetComments(c) \/ OtherRequest(c) \/ Fail(c)
    BY <2>3 DEF GetComments, OtherRequest, Fail, TypeInv
  <2> QED BY <2>1, <2>2, <2>3 DEF Handle
<1> QED BY <1>3, <1>4 DEF Handle, TypeInv, pageVars, ghosts

\* An answer keeps the types.
LEMMA AnswerTypes ==
  ASSUME TypeInv, NEW c \in calls, Answer(c)
  PROVE  TypeInv'
<1>0. c \in CallType
  BY DEF TypeInv
<1>1. c \in CallType /\ calls' \subseteq CallType
  <2>1. CASE DetailsAnswered(c) \/ ResetAnswered(c)
    <3>1. ASSUME NEW what \in Loading
          PROVE  Call(c.page, c.n, what, c.poll, 0, c.alone) \in CallType
      <4>1. what \in CallKinds /\ what \in Asking /\ 0 \in 0 .. MaxTexts
        BY PagesAssumption DEF Loading, CallKinds, Asking
      <4> QED BY <1>0, <4>1, NoReplyType DEF Call, CallType, CallFields
    <3>2. "load" \in Loading /\ "details" \in Loading
      BY DEF Loading
    <3> QED BY <1>0, <2>1, <3>1, <3>2 DEF DetailsAnswered, ResetAnswered, TypeInv
  <2>2. CASE ~(DetailsAnswered(c) \/ ResetAnswered(c))
    BY <1>0, <2>2 DEF Answer, DetailsFailed, TypeInv
  <2> QED BY <2>1, <2>2
<1>2. c.page \in Pages /\ c.alone \in BOOLEAN /\ c.reply.list \in Seq(Entries)
      /\ (c.kind \notin Asking => c.text \in Texts)
  BY <1>1 DEF CallType, CallFields, ReplyType
<1>3. list[c.page] \in Seq(Entries)
  BY <1>2 DEF TypeInv
<1>4. Without(list[c.page], c.text) \in Seq(Entries)
  BY <1>3, Cleared
<1>5. list' \in [Pages -> Seq(Entries)]
  <2>1. CASE ListAnswered(c)
    BY <1>2, <2>1 DEF ListAnswered, Loaded, TypeInv
  <2>2. CASE DeleteAnswered(c)
    BY <1>2, <1>4, <2>2 DEF DeleteAnswered, TypeInv
  <2>3. CASE ListFailed(c) \/ PostAnswered(c) \/ DeleteFailed(c)
    BY <2>3 DEF ListFailed, PostAnswered, DeleteFailed, TypeInv
  <2>4. CASE DetailsAnswered(c) \/ DetailsFailed(c) \/ ResetAnswered(c)
    BY <2>4 DEF DetailsAnswered, DetailsFailed, ResetAnswered, TypeInv
  <2> QED BY <2>1, <2>2, <2>3, <2>4 DEF Answer
<1>6. calm' \in [Pages -> BOOLEAN]
  BY <1>2 DEF Answer, ListAnswered, ListFailed, PostAnswered, DeleteAnswered, DeleteFailed,
        DetailsAnswered, DetailsFailed, ResetAnswered, ghosts, TypeInv
<1>7. posting' \in [Pages -> BOOLEAN]
  BY DEF Answer, ListAnswered, ListFailed, PostAnswered, DeleteAnswered, DeleteFailed,
        DetailsAnswered, DetailsFailed, ResetAnswered, TypeInv
<1>8. removed' \in [Pages -> SUBSET Texts]
  <2>1. CASE DeleteAnswered(c)
    <3>1. removed[c.page] \cup {c.text} \in SUBSET Texts
      BY <1>2, <2>1 DEF DeleteAnswered, TypeInv, Asking
    <3> QED BY <2>1, <3>1 DEF DeleteAnswered, TypeInv
  <2>2. CASE ~DeleteAnswered(c)
    BY <2>2 DEF Answer, ListAnswered, ListFailed, PostAnswered, DeleteFailed,
        DetailsAnswered, DetailsFailed, ResetAnswered, ghosts, TypeInv
  <2> QED BY <2>1, <2>2
<1> QED BY <1>1, <1>5, <1>6, <1>7, <1>8 DEF Answer, TypeInv

\* What others do keeps the types.
LEMMA ElsewhereTypes ==
  ASSUME TypeInv,
         (\E p \in Polls : CommentElsewhere(p)) \/ (\E i \in DOMAIN comments : DeleteElsewhere(i))
  PROVE  TypeInv'
<1>1. ASSUME NEW p \in Polls, CommentElsewhere(p)
      PROVE  TypeInv'
  <2>1. texts' \in Texts /\ texts' \in 0 .. MaxTexts
    BY <1>1, PagesAssumption DEF CommentElsewhere, TypeInv, Texts
  <2>2. comments' = Append(comments, [text |-> texts', poll |-> p, by |-> None])
    BY <1>1 DEF CommentElsewhere
  <2>3. comments' \in Seq(CommentType)
    BY <2>1, <2>2, StoredType
  <2> QED BY <1>1, <2>1, <2>3 DEF CommentElsewhere, TypeInv, pageVars, ghosts
<1>2. ASSUME NEW i \in DOMAIN comments, DeleteElsewhere(i)
      PROVE  TypeInv'
  <2>1. comments' \in Seq(CommentType)
    BY <1>2, RemovedType DEF DeleteElsewhere, Fewer
  <2> QED BY <1>2, <2>1 DEF DeleteElsewhere, TypeInv, pageVars, ghosts
<1> QED BY <1>1, <1>2

\* The types are kept by every step.
LEMMA TypeKept ==
  ASSUME TypeInv, [Next]_vars
  PROVE  TypeInv'
<1>1. CASE UNCHANGED vars
  BY <1>1 DEF vars, TypeInv
<1>2. CASE Next
  BY <1>2, PageTypes, HandleTypes, AnswerTypes, ElsewhereTypes DEF Next
<1> QED BY <1>1, <1>2

\* The variables keep to their types, whatever the pages, polls and bounds.
THEOREM TypeCorrect == Spec => []TypeOK
<1>1. Spec => []TypeInv
  <2>1. TypeInv /\ [Next]_vars => TypeInv'
    BY TypeKept
  <2> QED BY <2>1, TypeFirst, PTL DEF Spec
<1>2. TypeInv => TypeOK
  BY TypesGiveTypeOK
<1> QED BY <1>1, <1>2, PTL

-----------------------------------------------------------------------------
(* The inductive invariant.                                                *)

\* The texts of page g for poll p that the server has, or is going to have if it takes them.
Claims(s, C, g, p) ==
    {s[i].text : i \in {j \in DOMAIN s : s[j].by = g /\ s[j].poll = p}} \cup
    {c.text : c \in {d \in PendingIn(C) : d.page = g /\ d.poll = p}}

\* A stored comment is there once, no page posts a text twice or one that is stored, and
\* dashboards post nothing.
StoreOk ==
    /\ Distinct(comments) /\ TextsOf(comments) \subseteq 1 .. texts
    /\ WaitingIn(calls) \subseteq 1 .. texts /\ TextsOf(comments) \cap WaitingIn(calls) = {}
    /\ Unique(calls)
    /\ \A i \in DOMAIN comments : comments[i].by \in Pages => kind[comments[i].by] # "dashboard"

\* A list that was read shows comments of its poll once, and none that still waits; what
\* a dashboard deletes does not wait, and is not stored once the server has answered so.
CallOk(c, n, stored, waiting, k) ==
    /\ c.kind \in Asking => c.gone = FALSE
    /\ c.kind = "load" => \A i \in DOMAIN c.reply.list : c.reply.list[i].poll = c.poll
    /\ Distinct(c.reply.list) /\ TextsOf(c.reply.list) \subseteq 1 .. n
    /\ TextsOf(c.reply.list) \cap waiting = {}
    /\ c.kind = "post" => k[c.page] # "dashboard"
    /\ c.kind = "delete" => k[c.page] = "dashboard" /\ c.text \in 1 .. n /\ c.text \notin waiting
    /\ c.kind = "delete" /\ c.phase = "answered" /\ c.reply.ok => c.text \notin stored

CallsOk == \A c \in calls : CallOk(c, texts, TextsOf(comments), WaitingIn(calls), kind)

\* A page shows a text once, a dashboard none that waits, and what is removed is gone for good.
ListOk(l, r, k, n, stored, waiting) ==
    /\ Distinct(l) /\ TextsOf(l) \subseteq 1 .. n
    /\ k = "dashboard" => TextsOf(l) \cap waiting = {}
    /\ r \subseteq 1 .. n /\ r \cap (stored \cup waiting) = {}

ListsOk ==
    \A g \in Pages : ListOk(list[g], removed[g], kind[g], texts, TextsOf(comments), WaitingIn(calls))

\* The page shows what is its own, of its poll, and nothing removed.
TrueList(l, p, r, claims) ==
    claims \subseteq TextsOf(l) /\ \A k \in DOMAIN l : l[k].poll = p /\ l[k].text \notin r

\* A page that has settled, or has had no list asked for since.
CalmAt(g, cm, pl, l, r, s, C) ==
    cm[g] /\ pl[g] # None /\ (\A c \in C : c.page = g => c.kind \notin Loading) =>
        TrueList(l[g], pl[g], r[g], Claims(s, C, g, pl[g]))

CalmOk == \A g \in Pages : CalmAt(g, calm, poll, list, removed, comments, calls)

\* A load that is alone, or is going to come of the call, is the only call of its page, for the
\* poll that the page shows; its answer has what is the page's own, and nothing removed.
AloneAt(c, pl, r, s, C) ==
    c.kind \in Asking /\ c.alone =>
        /\ \A d \in C : d.page = c.page => d = c
        /\ pl[c.page] = c.poll
        /\ c.kind = "load" /\ c.phase = "answered" /\ c.reply.ok =>
            /\ Claims(s, C, c.page, c.poll) \subseteq TextsOf(c.reply.list)
            /\ TextsOf(c.reply.list) \cap r[c.page] = {}

AloneOk == \A c \in calls : AloneAt(c, poll, removed, comments, calls)

IInv == TypeInv /\ StoreOk /\ CallsOk /\ ListsOk /\ CalmOk /\ AloneOk

\* The invariant holds at first.
LEMMA InvFirst ==
  ASSUME Init
  PROVE  IInv
<1>1. TypeInv
  BY TypeFirst
<1>2. calls = {} /\ PendingIn(calls) = {} /\ WaitingIn(calls) = {} /\ comments = <<>> /\ TextsOf(comments) = {}
  BY DEF Init, PendingIn, WaitingIn, TextsOf
<1>3. StoreOk
  BY <1>2 DEF StoreOk, Unique, Distinct
<1>4. CallsOk /\ AloneOk
  BY <1>2 DEF CallsOk, AloneOk
<1>5. ListsOk
  BY <1>2 DEF Init, ListsOk, ListOk, Distinct, TextsOf
<1>6. CalmOk
  BY DEF Init, CalmOk, CalmAt
<1> QED BY <1>1, <1>3, <1>4, <1>5, <1>6 DEF IInv

\* A page that has settled is calm, so the two properties follow.
LEMMA InvGivesProperties ==
  ASSUME IInv
  PROVE  OwnIsShown /\ ListIsTrue
<1>1. ASSUME NEW g \in Pages, Settled(g)
      PROVE  TrueList(list[g], poll[g], removed[g], Claims(comments, calls, g, poll[g]))
  BY <1>1 DEF IInv, CalmOk, CalmAt, Settled, CallsOf
<1>2. \A g \in Pages : Distinct(list[g])
  BY DEF IInv, ListsOk, ListOk
<1>3. OwnIsShown
  <2>1. ASSUME NEW g \in Pages, Settled(g), NEW i \in DOMAIN comments,
               comments[i].by = g, comments[i].poll = poll[g]
        PROVE  \E j \in DOMAIN list[g] : list[g][j].text = comments[i].text
    <3>1. comments[i].text \in Claims(comments, calls, g, poll[g])
      BY <2>1 DEF Claims
    <3>2. comments[i].text \in TextsOf(list[g])
      BY <1>1, <2>1, <3>1 DEF TrueList
    <3> QED BY <3>2 DEF TextsOf
  <2> QED BY <1>2, <2>1 DEF OwnIsShown, Distinct
<1>4. ListIsTrue
  BY <1>1 DEF ListIsTrue, TrueList
<1> QED BY <1>3, <1>4

-----------------------------------------------------------------------------
(* What the parts of the invariant need of a step.                         *)

\* Texts only get more: what waits or is stored after a step did so before it or is new,
\* and what is stored may have waited.
Forward ==
    /\ texts \in Nat /\ texts' \in Nat /\ texts <= texts' /\ kind' = kind
    /\ \A t \in WaitingIn(calls') : t \in WaitingIn(calls) \/ t \notin 1 .. texts
    /\ \A t \in TextsOf(comments') :
        t \in TextsOf(comments) \/ t \in WaitingIn(calls) \/ t \notin 1 .. texts

\* The texts of comments that stay.
LEMMA FewerTexts ==
  ASSUME NEW s, NEW t, Fewer(s, t)
  PROVE  TextsOf(s) \subseteq TextsOf(t)
  BY DEF Fewer, TextsOf

\* What waits after a step is what waited, or new.
LEMMA WaitingFrom ==
  ASSUME NEW D, NEW C, NEW N, From(D, C, N)
  PROVE  \A t \in WaitingIn(D) : t \in WaitingIn(C) \/ \E e \in PendingIn(N) : e.text = t
<1> TAKE t \in WaitingIn(D)
<1>1. PICK e \in PendingIn(D) : e.text = t
  BY DEF WaitingIn
<1>2. CASE e \in N
  BY <1>1, <1>2 DEF PendingIn
<1>3. ASSUME NEW c \in C, Like(e, c)
      PROVE  t \in WaitingIn(C)
  <2>1. c \in PendingIn(C) /\ c.text = t
    BY <1>1, <1>3 DEF PendingIn, Like
  <2> QED BY <2>1 DEF WaitingIn
<1> QED BY <1>1, <1>2, <1>3 DEF From, PendingIn

\* No text waits twice after a step, if the new one did not wait before.
LEMMA UniqueFrom ==
  ASSUME NEW D, NEW C, NEW d, From(D, C, {d}), Unique(C),
         d \in PendingIn(D) => d.text \notin WaitingIn(C)
  PROVE  Unique(D)
<1>1. ASSUME NEW e \in PendingIn(D), e # d
      PROVE  e.text \in WaitingIn(C)
  <2>1. PICK c \in C : Like(e, c)
    BY <1>1 DEF From, PendingIn
  <2>2. c \in PendingIn(C) /\ c.text = e.text
    BY <2>1 DEF PendingIn, Like
  <2> QED BY <2>2 DEF WaitingIn
<1>2. \A e, f \in PendingIn(D) \ {d} : e.text = f.text => e = f
  BY DEF From
<1> QED BY <1>1, <1>2 DEF Unique

\* A page's claims do not grow but with a post of the page.
LEMMA ClaimsFrom ==
  ASSUME NEW D, NEW C, NEW N, From(D, C, N), NEW g, NEW p, NEW s,
         \A e \in PendingIn(N) : e.page # g
  PROVE  Claims(s, D, g, p) \subseteq Claims(s, C, g, p)
<1> DEFINE P == {d \in PendingIn(D) : d.page = g /\ d.poll = p}
           Q == {d \in PendingIn(C) : d.page = g /\ d.poll = p}
<1>1. ASSUME NEW e \in P
      PROVE  \E c \in Q : c.text = e.text
  <2>1. e \notin N
    BY DEF PendingIn
  <2>2. PICK c \in C : Like(e, c)
    BY <2>1 DEF From, PendingIn
  <2>3. c \in Q /\ c.text = e.text
    BY <2>2 DEF PendingIn, Like
  <2> QED BY <2>3
<1> HIDE DEF P, Q
<1>2. {e.text : e \in P} \subseteq {c.text : c \in Q}
  BY <1>1
<1> QED BY <1>2 DEF Claims, P, Q

\* A call that stays what it was is as calls have to be.
LEMMA CallForward ==
  ASSUME Forward, NEW c, NEW e, Like(e, c),
         CallOk(c, texts, TextsOf(comments), WaitingIn(calls), kind)
  PROVE  CallOk(e, texts', TextsOf(comments'), WaitingIn(calls'), kind')
<1>1. 1 .. texts \subseteq 1 .. texts'
  BY DEF Forward
<1>2. /\ e.page = c.page /\ e.kind = c.kind /\ e.poll = c.poll /\ e.text = c.text
      /\ e.phase = c.phase /\ e.reply = c.reply /\ (c.kind \in Asking => e.gone = c.gone)
  BY DEF Like
<1> DEFINE l == c.reply.list
<1>3. TextsOf(l) \subseteq 1 .. texts' /\ TextsOf(l) \cap WaitingIn(calls') = {}
  BY <1>1 DEF CallOk, Forward
<1>4. c.kind = "delete" => c.text \in 1 .. texts' /\ c.text \notin WaitingIn(calls')
  BY <1>1 DEF CallOk, Forward
<1>5. c.kind = "delete" /\ c.phase = "answered" /\ c.reply.ok => c.text \notin TextsOf(comments')
  BY DEF CallOk, Forward
<1>6. kind' = kind
  BY DEF Forward
<1> HIDE DEF l
<1> QED BY <1>2, <1>3, <1>4, <1>5, <1>6 DEF CallOk, l

\* So are all calls, if the new ones are.
LEMMA CallsForward ==
  ASSUME Forward, CallsOk, NEW N, From(calls', calls, N),
         \A e \in N : CallOk(e, texts', TextsOf(comments'), WaitingIn(calls'), kind')
  PROVE  CallsOk'
<1>1. ASSUME NEW e \in calls'
      PROVE  CallOk(e, texts', TextsOf(comments'), WaitingIn(calls'), kind')
  <2>1. CASE e \in N
    BY <2>1
  <2>2. CASE e \notin N
    <3>1. PICK c \in calls : Like(e, c)
      BY <2>2 DEF From
    <3> QED BY <3>1, CallForward DEF CallsOk
  <2> QED BY <2>1, <2>2
<1> QED BY <1>1 DEF CallsOk

\* A list that loses texts is as lists have to be.
LEMMA ListForward ==
  ASSUME Forward, NEW l, NEW m, NEW r, NEW k,
         ListOk(l, r, k, texts, TextsOf(comments), WaitingIn(calls)),
         TextsOf(m) \subseteq TextsOf(l), Distinct(m)
  PROVE  ListOk(m, r, k, texts', TextsOf(comments'), WaitingIn(calls'))
<1>1. 1 .. texts \subseteq 1 .. texts'
  BY DEF Forward
<1>2. TextsOf(m) \subseteq 1 .. texts' /\ r \subseteq 1 .. texts'
  BY <1>1 DEF ListOk
<1>3. k = "dashboard" => TextsOf(m) \cap WaitingIn(calls') = {}
  BY DEF ListOk, Forward
<1>4. r \cap (TextsOf(comments') \cup WaitingIn(calls')) = {}
  BY DEF ListOk, Forward
<1> QED BY <1>2, <1>3, <1>4 DEF ListOk

\* What is the same for page g after a step, as far as its list goes.
Quiet(g) ==
    /\ poll'[g] = poll[g] /\ removed'[g] = removed[g] /\ (calm'[g] => calm[g])
    /\ \A c \in calls : c.page = g /\ c.kind \in Loading =>
            \E e \in calls' : e.page = g /\ e.kind \in Loading
    /\ \A p \in Polls : Claims(comments', calls', g, p) \subseteq Claims(comments, calls, g, p)

\* And as far as its loads go.
Still(g) ==
    /\ poll'[g] = poll[g] /\ removed'[g] = removed[g]
    /\ \A e \in calls' : e.page = g => e \in calls
    /\ \A p \in Polls : Claims(comments', calls', g, p) \subseteq Claims(comments, calls, g, p)

\* A calm page stays so if it is quiet and shows what it did.
LEMMA CalmKept ==
  ASSUME TypeInv, NEW g \in Pages, Quiet(g), list'[g] = list[g],
         CalmAt(g, calm, poll, list, removed, comments, calls)
  PROVE  CalmAt(g, calm', poll', list', removed', comments', calls')
<1> SUFFICES ASSUME calm'[g] /\ poll'[g] # None /\ \A e \in calls' : e.page = g => e.kind \notin Loading
             PROVE  TrueList(list'[g], poll'[g], removed'[g], Claims(comments', calls', g, poll'[g]))
  BY DEF CalmAt
<1>1. calm[g] /\ poll[g] # None /\ \A c \in calls : c.page = g => c.kind \notin Loading
  BY DEF Quiet
<1>2. poll[g] \in Polls
  BY <1>1 DEF TypeInv
<1>3. TrueList(list[g], poll[g], removed[g], Claims(comments, calls, g, poll[g]))
  BY <1>1 DEF CalmAt
<1>4. Claims(comments', calls', g, poll[g]) \subseteq Claims(comments, calls, g, poll[g])
  BY <1>2 DEF Quiet
<1> QED BY <1>3, <1>4 DEF Quiet, TrueList

\* The loads of a page that is still stay what they are.
LEMMA AloneKept ==
  ASSUME TypeInv, AloneOk, NEW e \in calls', Still(e.page)
  PROVE  AloneAt(e, poll', removed', comments', calls')
<1> DEFINE g == e.page
<1>1. e \in calls /\ e \in CallType
  BY DEF Still, TypeInv
<1>2. AloneAt(e, poll, removed, comments, calls)
  BY <1>1 DEF AloneOk
<1>3. e.poll \in Polls
  BY <1>1 DEF CallType, CallFields
<1>4. Claims(comments', calls', e.page, e.poll) \subseteq Claims(comments, calls, e.page, e.poll)
  BY <1>3 DEF Still
<1> QED BY <1>2, <1>4 DEF Still, AloneAt

\* What a step at page g is for another page.
LEMMA OtherPage ==
  ASSUME NEW g \in Pages, NEW h \in Pages \ {g}, Aside(calls', calls, g),
         comments' = comments, poll'[h] = poll[h], removed'[h] = removed[h], calm'[h] = calm[h]
  PROVE  Quiet(h) /\ Still(h)
<1>1. {c \in calls' : c.page = h} = {c \in calls : c.page = h}
  BY DEF Aside
<1>2. \A c : (c \in calls' /\ c.page = h) <=> (c \in calls /\ c.page = h)
  BY <1>1
<1>3. ASSUME NEW p \in Polls
      PROVE  Claims(comments', calls', h, p) = Claims(comments, calls, h, p)
  <2>1. {d \in PendingIn(calls') : d.page = h /\ d.poll = p} = {d \in PendingIn(calls) : d.page = h /\ d.poll = p}
    BY <1>2 DEF PendingIn
  <2> QED BY <2>1 DEF Claims
<1> QED BY <1>2, <1>3 DEF Quiet, Still

\* A step at page g, so that only what it does there remains to be seen.
LEMMA PageStep ==
  ASSUME IInv, TypeInv', NEW g \in Pages, Aside(calls', calls, g), comments' = comments,
         \A h \in Pages \ {g} :
            poll'[h] = poll[h] /\ removed'[h] = removed[h] /\ calm'[h] = calm[h] /\ list'[h] = list[h],
         CalmAt(g, calm', poll', list', removed', comments', calls'),
         \A e \in calls' : e.page = g => AloneAt(e, poll', removed', comments', calls')
  PROVE  CalmOk' /\ AloneOk'
<1>1. ASSUME NEW h \in Pages
      PROVE  CalmAt(h, calm', poll', list', removed', comments', calls')
  <2>1. CASE h = g
    BY <2>1
  <2>2. CASE h # g
    <3>1. Quiet(h) /\ list'[h] = list[h]
      BY <2>2, OtherPage
    <3> QED BY <3>1, CalmKept DEF IInv, CalmOk
  <2> QED BY <2>1, <2>2
<1>2. ASSUME NEW e \in calls'
      PROVE  AloneAt(e, poll', removed', comments', calls')
  <2>1. CASE e.page = g
    BY <2>1
  <2>2. CASE e.page # g
    <3>1. e.page \in Pages
      BY DEF TypeInv, CallType, CallFields
    <3>2. Still(e.page)
      BY <2>2, <3>1, OtherPage
    <3> QED BY <3>2, AloneKept DEF IInv
  <2> QED BY <2>1, <2>2
<1> QED BY <1>1, <1>2 DEF CalmOk, AloneOk

\* Lists that stay are as lists have to be: nothing waits but what is new.
LEMMA SameLists ==
  ASSUME ListsOk, Forward, UNCHANGED <<list, removed>>
  PROVE  ListsOk'
<1>1. ASSUME NEW g \in Pages
      PROVE  ListOk(list[g], removed[g], kind[g], texts', TextsOf(comments'), WaitingIn(calls'))
  <2>1. ListOk(list[g], removed[g], kind[g], texts, TextsOf(comments), WaitingIn(calls))
    BY DEF ListsOk
  <2>2. Distinct(list[g])
    BY <2>1 DEF ListOk
  <2> QED BY <2>1, <2>2, ListForward
<1> QED BY <1>1 DEF ListsOk, Forward

-----------------------------------------------------------------------------
(* The calls that a page sends.                                            *)

\* A call that is just sent.
LEMMA NewOkay ==
  ASSUME NEW g \in Pages, NEW what \in CallKinds, NEW p, NEW text, NEW d,
         NewCall(d, g, what, p, text), NEW n, NEW stored, NEW waiting, NEW k,
         what = "post" => k[g] # "dashboard",
         what = "delete" => k[g] = "dashboard" /\ text \in 1 .. n /\ text \notin waiting
  PROVE  CallOk(d, n, stored, waiting, k)
<1>1. TextsOf(NoReply.list) = {} /\ Distinct(NoReply.list) /\ \A i \in DOMAIN NoReply.list : FALSE
  BY NoReplyType DEF NoReply
<1> QED BY <1>1 DEF NewCall, CallOk

\* Shows and Delete send a call that is not a post: nothing else waits, and texts stay.
LEMMA AskForward ==
  ASSUME IInv, NEW d, From(calls', calls, {d}), d.kind # "post", UNCHANGED <<comments, texts, kind>>
  PROVE  Forward /\ StoreOk' /\ WaitingIn(calls') \subseteq WaitingIn(calls)
<1>1. PendingIn({d}) = {}
  BY DEF PendingIn
<1>2. WaitingIn(calls') \subseteq WaitingIn(calls)
  BY <1>1, WaitingFrom
<1>3. texts \in Nat
  BY PagesAssumption DEF IInv, TypeInv
<1>4. Forward
  BY <1>2, <1>3 DEF Forward
<1>5. Unique(calls')
  BY UniqueFrom DEF PendingIn, IInv, StoreOk
<1> QED BY <1>2, <1>4, <1>5 DEF IInv, StoreOk

\* A page that has got a poll asks for its comments, or for its analytics first: whatever its
\* list shows until the comments come, the page has not settled.
LEMMA ShowsInv ==
  ASSUME IInv, TypeInv', NEW g \in Pages, NEW p \in Polls, Shows(g, p) \/ Select(g, p)
  PROVE  IInv'
<1>0. PICK what \in Loading : Ask(g, what, p, 0)
  BY DEF Shows, Select, Loading
<1>1. 0 \in 0 .. MaxTexts /\ what \in CallKinds /\ what \in Asking /\ what \notin {"post", "delete"}
  BY PagesAssumption DEF Loading, Asking, CallKinds
<1>2. PICK d : /\ NewCall(d, g, what, p, 0) /\ d \in calls'
               /\ From(calls', calls, {d}) /\ Aside(calls', calls, g) /\ LoadsIn(calls', calls)
               /\ \A e \in calls' : e.page = g /\ e # d => ~e.alone
  BY <1>0, <1>1, Asked DEF IInv
<1>3. d.kind = what /\ d.kind \in Loading /\ d.page = g /\ d.poll = p /\ d.phase = "sent"
      /\ d.alone = ({c \in calls : c.page = g} = {})
  BY <1>2 DEF NewCall
<1>4. UNCHANGED <<comments, texts, kind, list, removed, calm>> /\ poll' = [poll EXCEPT ![g] = p]
  BY DEF Shows, Select, ghosts
<1>5. Forward /\ StoreOk'
  BY <1>1, <1>2, <1>3, <1>4, AskForward
<1>6. ListsOk'
  BY <1>4, <1>5, SameLists DEF IInv
<1>7. CallsOk'
  <2>1. CallOk(d, texts', TextsOf(comments'), WaitingIn(calls'), kind')
    BY <1>1, <1>2, NewOkay
  <2> QED BY <1>2, <1>5, <2>1, CallsForward DEF IInv
<1>8. CalmAt(g, calm', poll', list', removed', comments', calls')
  BY <1>2, <1>3 DEF CalmAt
<1>9. poll'[g] = p /\ \A h \in Pages \ {g} : poll'[h] = poll[h]
  BY <1>4 DEF IInv, TypeInv
<1>10. ASSUME NEW e \in calls', e.page = g
       PROVE  AloneAt(e, poll', removed', comments', calls')
  <2> SUFFICES ASSUME e.alone
               PROVE  AloneAt(e, poll', removed', comments', calls')
    BY DEF AloneAt
  <2>1. e = d
    BY <1>2, <1>10
  <2>2. \A c \in calls : c.page # g
    BY <1>3, <2>1
  <2>3. \A f \in calls' : f.page = g => f = d
    BY <1>2, <2>2 DEF From, Like
  <2> QED BY <1>1, <1>3, <1>9, <2>1, <2>3 DEF AloneAt
<1>11. CalmOk' /\ AloneOk'
  BY <1>2, <1>4, <1>8, <1>9, <1>10, PageStep
<1> QED BY <1>5, <1>6, <1>7, <1>11 DEF IInv

\* What a dashboard deletes is on its list, so that it does not wait.
LEMMA DeleteInv ==
  ASSUME IInv, TypeInv', NEW g \in Pages, NEW i \in DOMAIN list[g], Delete(g, i)
  PROVE  IInv'
<1> DEFINE p == list[g][i].poll
           text == list[g][i].text
<1>1. list[g][i] \in Entries
  BY DEF IInv, TypeInv
<1>2. p \in Polls /\ text \in 0 .. MaxTexts /\ text \in Texts
  BY <1>1, PagesAssumption DEF Entries, Texts
<1>3. Ask(g, "delete", p, text) /\ kind[g] = "dashboard"
      /\ UNCHANGED <<comments, texts, kind, poll, list, removed, calm>>
  BY DEF Delete, ghosts, pageVars
<1>4. text \in TextsOf(list[g])
  BY DEF TextsOf
<1>5. text \in 1 .. texts /\ text \notin WaitingIn(calls)
  BY <1>3, <1>4 DEF IInv, ListsOk, ListOk
<1> HIDE DEF p, text
<1>0. "delete" \in CallKinds /\ "delete" \notin Asking
  BY DEF CallKinds, Asking
<1>6. PICK d : /\ NewCall(d, g, "delete", p, text) /\ d \in calls'
               /\ From(calls', calls, {d}) /\ Aside(calls', calls, g) /\ LoadsIn(calls', calls)
               /\ \A e \in calls' : e.page = g /\ e # d => ~e.alone
  BY <1>0, <1>2, <1>3, Asked DEF IInv
<1>7. d.kind = "delete" /\ d.page = g
  BY <1>6 DEF NewCall
<1>8. Forward /\ StoreOk' /\ WaitingIn(calls') \subseteq WaitingIn(calls)
  BY <1>3, <1>6, <1>7, AskForward
<1>9. ListsOk'
  BY <1>3, <1>8, SameLists DEF IInv
<1>10. CallsOk'
  <2>1. CallOk(d, texts', TextsOf(comments'), WaitingIn(calls'), kind')
    BY <1>0, <1>3, <1>5, <1>6, <1>8, NewOkay
  <2> QED BY <1>6, <1>8, <2>1, CallsForward DEF IInv
<1>11. CalmAt(g, calm', poll', list', removed', comments', calls')
  <2>1. PendingIn({d}) = {}
    BY <1>7 DEF PendingIn
  <2>2. \A q \in Polls : Claims(comments, calls', g, q) \subseteq Claims(comments, calls, g, q)
    BY <1>6, <2>1, ClaimsFrom
  <2>3. Quiet(g)
    BY <1>3, <1>6, <2>2 DEF Quiet, LoadsIn
  <2> QED BY <1>3, <2>3, CalmKept DEF IInv, CalmOk
<1>12. \A e \in calls' : e.page = g => AloneAt(e, poll', removed', comments', calls')
  BY <1>6, <1>7 DEF AloneAt, Asking
<1>13. CalmOk' /\ AloneOk'
  BY <1>3, <1>6, <1>11, <1>12, PageStep
<1> QED BY <1>8, <1>9, <1>10, <1>13 DEF IInv

\* A reset is asked for: the list stays, and what it leads to is for the poll that is selected.
LEMMA ResetInv ==
  ASSUME IInv, TypeInv', NEW g \in Pages, Reset(g)
  PROVE  IInv'
<1>1. 0 \in 0 .. MaxTexts /\ poll[g] \in Polls /\ "reset" \in CallKinds /\ "reset" \in Asking
  BY PagesAssumption DEF Reset, IInv, TypeInv, CallKinds, Asking
<1>2. Ask(g, "reset", poll[g], 0) /\ UNCHANGED <<comments, texts, kind, poll, list, removed, calm>>
  BY DEF Reset, ghosts, pageVars
<1>3. PICK d : /\ NewCall(d, g, "reset", poll[g], 0) /\ d \in calls'
               /\ From(calls', calls, {d}) /\ Aside(calls', calls, g) /\ LoadsIn(calls', calls)
               /\ \A e \in calls' : e.page = g /\ e # d => ~e.alone
  BY <1>1, <1>2, Asked DEF IInv
<1>4. d.kind = "reset" /\ d.page = g /\ d.poll = poll[g] /\ d.phase = "sent"
      /\ d.alone = ({c \in calls : c.page = g} = {})
  BY <1>3 DEF NewCall
<1>5. Forward /\ StoreOk' /\ WaitingIn(calls') \subseteq WaitingIn(calls)
  BY <1>2, <1>3, <1>4, AskForward
<1>6. ListsOk'
  BY <1>2, <1>5, SameLists DEF IInv
<1>7. CallsOk'
  <2>1. CallOk(d, texts', TextsOf(comments'), WaitingIn(calls'), kind')
    BY <1>1, <1>3, NewOkay
  <2> QED BY <1>3, <1>5, <2>1, CallsForward DEF IInv
<1>8. CalmAt(g, calm', poll', list', removed', comments', calls')
  <2>1. PendingIn({d}) = {}
    BY <1>4 DEF PendingIn
  <2>2. \A q \in Polls : Claims(comments, calls', g, q) \subseteq Claims(comments, calls, g, q)
    BY <1>3, <2>1, ClaimsFrom
  <2>3. Quiet(g)
    BY <1>2, <1>3, <2>2 DEF Quiet, LoadsIn
  <2> QED BY <1>2, <2>3, CalmKept DEF IInv, CalmOk
<1>9. ASSUME NEW e \in calls', e.page = g
      PROVE  AloneAt(e, poll', removed', comments', calls')
  <2> SUFFICES ASSUME e.alone
               PROVE  AloneAt(e, poll', removed', comments', calls')
    BY DEF AloneAt
  <2>1. e = d
    BY <1>3, <1>9
  <2>2. \A c \in calls : c.page # g
    BY <1>4, <2>1
  <2>3. \A f \in calls' : f.page = g => f = d
    BY <1>3, <2>2 DEF From, Like
  <2> QED BY <1>2, <1>4, <2>1, <2>3 DEF AloneAt
<1>10. CalmOk' /\ AloneOk'
  BY <1>2, <1>3, <1>8, <1>9, PageStep
<1> QED BY <1>5, <1>6, <1>7, <1>10 DEF IInv

-----------------------------------------------------------------------------
(* What a page shows at once.                                              *)

\* A new text on a voter's page is neither stored nor waiting nor removed, and the list
\* shows it besides what it showed.
LEMMA OnTopLists ==
  ASSUME IInv, NEW g \in Pages, OnTop(g), kind[g] # "dashboard", Forward, UNCHANGED removed
  PROVE  /\ ListsOk'
         /\ \A h \in Pages \ {g} : list'[h] = list[h]
         /\ \A claims : TrueList(list[g], poll[g], removed[g], claims) =>
                TrueList(list'[g], poll[g], removed[g], claims \cup {texts'})
<1>1. texts' = texts + 1 /\ texts \in Nat /\ texts' \in 1 .. texts' /\ texts' \notin 1 .. texts
      /\ 1 .. texts \subseteq 1 .. texts'
  BY PagesAssumption DEF OnTop, IInv, TypeInv
<1>2. PICK l : /\ ListNow(g, l)
               /\ TextsOf(l) = TextsOf(list[g]) \cup {texts'}
               /\ Distinct(list[g]) /\ texts' \notin TextsOf(list[g]) => Distinct(l)
               /\ \A k \in DOMAIN l : \/ l[k].text = texts' /\ l[k].poll = poll[g]
                                      \/ \E i \in DOMAIN list[g] : l[k] = list[g][i]
  BY Topped DEF IInv
<1>3. list'[g] = l /\ \A h \in Pages \ {g} : list'[h] = list[h]
  BY <1>2 DEF ListNow, IInv, TypeInv
<1>4. \A h \in Pages : ListOk(list[h], removed[h], kind[h], texts, TextsOf(comments), WaitingIn(calls))
  BY DEF IInv, ListsOk
<1>5. removed[g] \subseteq 1 .. texts /\ Distinct(l) /\ TextsOf(l) \subseteq 1 .. texts'
  BY <1>1, <1>2, <1>4 DEF ListOk
<1>6. ListOk(l, removed[g], kind[g], texts', TextsOf(comments'), WaitingIn(calls'))
  <2>1. ListOk(list[g], removed[g], kind[g], texts', TextsOf(comments'), WaitingIn(calls'))
    BY <1>4, ListForward DEF ListOk
  <2> QED BY <1>5, <2>1 DEF ListOk
<1>7. ASSUME NEW h \in Pages
      PROVE  ListOk(list'[h], removed[h], kind[h], texts', TextsOf(comments'), WaitingIn(calls'))
  <2>1. CASE h = g
    BY <1>3, <1>6, <2>1
  <2>2. CASE h # g
    <3>1. Distinct(list[h])
      BY <1>4 DEF ListOk
    <3>2. ListOk(list[h], removed[h], kind[h], texts', TextsOf(comments'), WaitingIn(calls'))
      BY <1>4, <3>1, ListForward
    <3> QED BY <1>3, <2>2, <3>2
  <2> QED BY <2>1, <2>2
<1>8. ListsOk'
  BY <1>7 DEF ListsOk, Forward
<1>9. ASSUME NEW claims, TrueList(list[g], poll[g], removed[g], claims)
      PROVE  TrueList(l, poll[g], removed[g], claims \cup {texts'})
  <2>1. claims \cup {texts'} \subseteq TextsOf(l)
    BY <1>2, <1>9 DEF TrueList
  <2>2. \A k \in DOMAIN l : l[k].poll = poll[g] /\ l[k].text \notin removed[g]
    BY <1>1, <1>2, <1>5, <1>9 DEF TrueList
  <2> QED BY <2>1, <2>2 DEF TrueList
<1> QED BY <1>3, <1>8, <1>9

\* A page that stays on its poll with the same loads, and shows more than it did.
LEMMA CalmMore ==
  ASSUME TypeInv, NEW g \in Pages, NEW more,
         poll'[g] = poll[g], removed'[g] = removed[g], calm'[g] = calm[g],
         \A c \in calls : c.page = g /\ c.kind \in Loading =>
            \E e \in calls' : e.page = g /\ e.kind \in Loading,
         \A p \in Polls : Claims(comments', calls', g, p) \subseteq Claims(comments, calls, g, p) \cup more,
         \A claims : TrueList(list[g], poll[g], removed[g], claims) =>
            TrueList(list'[g], poll[g], removed[g], claims \cup more),
         CalmAt(g, calm, poll, list, removed, comments, calls)
  PROVE  CalmAt(g, calm', poll', list', removed', comments', calls')
<1> SUFFICES ASSUME calm'[g] /\ poll'[g] # None /\ \A e \in calls' : e.page = g => e.kind \notin Loading
             PROVE  TrueList(list'[g], poll'[g], removed'[g], Claims(comments', calls', g, poll'[g]))
  BY DEF CalmAt
<1>1. calm[g] /\ poll[g] # None /\ \A c \in calls : c.page = g => c.kind \notin Loading
  OBVIOUS
<1>2. poll[g] \in Polls
  BY <1>1 DEF TypeInv
<1>3. TrueList(list[g], poll[g], removed[g], Claims(comments, calls, g, poll[g]))
  BY <1>1 DEF CalmAt
<1>4. TrueList(list'[g], poll[g], removed[g], Claims(comments, calls, g, poll[g]) \cup more)
  BY <1>3
<1> QED BY <1>2, <1>4 DEF TrueList

\* Calls that stay are calls that come from themselves.
LEMMA SameCalls ==
  ASSUME TypeInv, calls' \subseteq calls
  PROVE  From(calls', calls, {})
  BY FromSubset DEF TypeInv

\* A reaction is on top of a list that was as it should be, and never sent.
LEMMA ReactInv ==
  ASSUME IInv, TypeInv', NEW g \in Pages, React(g)
  PROVE  IInv'
<1>1. /\ UNCHANGED <<comments, kind, poll, calls, calm, removed>> /\ kind[g] # "dashboard" /\ OnTop(g)
      /\ texts' = texts + 1 /\ texts \in Nat
  BY PagesAssumption DEF React, OnTop, ghosts, IInv, TypeInv
<1>2. 1 .. texts \subseteq 1 .. texts'
  BY <1>1
<1>3. Forward
  BY <1>1 DEF Forward
<1>4. StoreOk'
  BY <1>1, <1>2 DEF IInv, StoreOk
<1>5. CallsOk'
  BY <1>1, <1>3, SameCalls, CallsForward DEF IInv
<1>6. /\ ListsOk'
      /\ \A h \in Pages \ {g} : list'[h] = list[h]
      /\ \A claims : TrueList(list[g], poll[g], removed[g], claims) =>
            TrueList(list'[g], poll[g], removed[g], claims \cup {texts'})
  BY <1>1, <1>3, OnTopLists
<1>7. CalmAt(g, calm', poll', list', removed', comments', calls')
  <2>1. CalmAt(g, calm, poll, list, removed, comments, calls)
    BY DEF IInv, CalmOk
  <2> QED BY <1>1, <1>6, <2>1, CalmMore DEF IInv
<1>8. \A e \in calls' : e.page = g => AloneAt(e, poll', removed', comments', calls')
  BY <1>1, AloneKept DEF IInv, Still
<1>9. CalmOk' /\ AloneOk'
  BY <1>1, <1>6, <1>7, <1>8, PageStep DEF Aside
<1> QED BY <1>3, <1>4, <1>5, <1>6, <1>9 DEF IInv

\* A comment is shown before it is sent: what the page claims more is what it shows more.
LEMMA PostInv ==
  ASSUME IInv, TypeInv', NEW g \in Pages, Post(g)
  PROVE  IInv'
<1>1. /\ UNCHANGED <<comments, kind, poll, calm, removed>> /\ kind[g] # "dashboard" /\ OnTop(g)
      /\ Ask(g, "post", poll[g], texts')
  BY DEF Post, ghosts
<1>2. texts' = texts + 1 /\ texts \in Nat /\ texts' \in 1 .. MaxTexts /\ poll[g] \in Polls
  BY <1>1, Topped, PagesAssumption DEF IInv, TypeInv
<1>3. 1 .. texts \subseteq 1 .. texts' /\ texts' \notin 1 .. texts /\ texts' \in 1 .. texts'
      /\ texts' \in 0 .. MaxTexts /\ texts' \in Texts
  BY <1>2, PagesAssumption DEF Texts
<1>0. "post" \in CallKinds /\ "post" \notin Asking
  BY DEF CallKinds, Asking
<1>4. PICK d : /\ NewCall(d, g, "post", poll[g], texts') /\ d \in calls'
               /\ From(calls', calls, {d}) /\ Aside(calls', calls, g) /\ LoadsIn(calls', calls)
               /\ \A e \in calls' : e.page = g /\ e # d => ~e.alone
  BY <1>0, <1>1, <1>2, <1>3, Asked DEF IInv
<1>5. d.kind = "post" /\ d.page = g /\ d.text = texts' /\ d.poll = poll[g]
  BY <1>4 DEF NewCall
<1>6. \A t \in WaitingIn(calls') : t \in WaitingIn(calls) \/ t = texts'
  BY <1>4, <1>5, WaitingFrom DEF PendingIn
<1>7. Forward
  BY <1>1, <1>2, <1>3, <1>6 DEF Forward
<1>8. StoreOk'
  <2>1. WaitingIn(calls) \subseteq 1 .. texts /\ TextsOf(comments) \subseteq 1 .. texts
        /\ TextsOf(comments) \cap WaitingIn(calls) = {}
    BY DEF IInv, StoreOk
  <2>2. Unique(calls')
    BY <1>3, <1>4, <1>5, <2>1, UniqueFrom DEF IInv, StoreOk
  <2>3. WaitingIn(calls') \subseteq 1 .. texts' /\ TextsOf(comments) \cap WaitingIn(calls') = {}
        /\ TextsOf(comments) \subseteq 1 .. texts'
    BY <1>3, <1>6, <2>1
  <2> QED BY <1>1, <2>2, <2>3 DEF IInv, StoreOk
<1>9. CallsOk'
  <2>1. CallOk(d, texts', TextsOf(comments'), WaitingIn(calls'), kind')
    BY <1>0, <1>1, <1>4, NewOkay
  <2> QED BY <1>4, <1>7, <2>1, CallsForward DEF IInv
<1>10. /\ ListsOk'
       /\ \A h \in Pages \ {g} : list'[h] = list[h]
       /\ \A claims : TrueList(list[g], poll[g], removed[g], claims) =>
            TrueList(list'[g], poll[g], removed[g], claims \cup {texts'})
  BY <1>1, <1>7, OnTopLists
<1>11. ASSUME NEW p \in Polls
       PROVE  Claims(comments, calls', g, p) \subseteq Claims(comments, calls, g, p) \cup {texts'}
  <2> DEFINE P == {e \in PendingIn(calls') : e.page = g /\ e.poll = p}
             Q == {c \in PendingIn(calls) : c.page = g /\ c.poll = p}
  <2>1. ASSUME NEW e \in P
        PROVE  e.text = texts' \/ \E c \in Q : c.text = e.text
    <3>1. CASE e = d
      BY <1>5, <3>1
    <3>2. CASE e # d
      <4>1. PICK c \in calls : Like(e, c)
        BY <1>4, <3>2 DEF From, PendingIn
      <4>2. c \in Q /\ c.text = e.text
        BY <4>1 DEF Like, PendingIn
      <4> QED BY <4>2
    <3> QED BY <3>1, <3>2
  <2> HIDE DEF P, Q
  <2>2. {e.text : e \in P} \subseteq {c.text : c \in Q} \cup {texts'}
    BY <2>1
  <2> QED BY <2>2 DEF Claims, P, Q
<1>12. CalmAt(g, calm', poll', list', removed', comments', calls')
  <2>1. CalmAt(g, calm, poll, list, removed, comments, calls)
    BY DEF IInv, CalmOk
  <2> QED BY <1>1, <1>4, <1>10, <1>11, <2>1, CalmMore DEF IInv, LoadsIn
<1>13. \A e \in calls' : e.page = g => AloneAt(e, poll', removed', comments', calls')
  BY <1>4, <1>5 DEF AloneAt, Asking
<1>14. CalmOk' /\ AloneOk'
  BY <1>1, <1>4, <1>10, <1>12, <1>13, PageStep
<1> QED BY <1>7, <1>8, <1>9, <1>10, <1>14 DEF IInv

\* A like changes no text and no poll.
LEMMA ToggleInv ==
  ASSUME IInv, TypeInv', NEW g \in Pages, NEW i \in DOMAIN list[g], ToggleLike(g, i)
  PROVE  IInv'
<1>1. UNCHANGED <<comments, texts, kind, poll, calls, calm, removed>> /\ texts \in Nat
  BY PagesAssumption DEF ToggleLike, ghosts, IInv, TypeInv
<1>2. PICK l : /\ ListNow(g, l)
               /\ DOMAIN l = DOMAIN list[g]
               /\ \A k \in DOMAIN l : l[k].text = list[g][k].text /\ l[k].poll = list[g][k].poll
  BY Toggled DEF IInv
<1>3. list'[g] = l /\ \A h \in Pages \ {g} : list'[h] = list[h]
  BY <1>2 DEF ListNow, IInv, TypeInv
<1>4. TextsOf(l) = TextsOf(list[g]) /\ (Distinct(list[g]) => Distinct(l))
  BY <1>2 DEF TextsOf, Distinct
<1>5. StoreOk' /\ CallsOk'
  BY <1>1 DEF IInv, StoreOk, CallsOk
<1>6. ListsOk'
  <2>1. \A h \in Pages : ListOk(list[h], removed[h], kind[h], texts, TextsOf(comments), WaitingIn(calls))
    BY DEF IInv, ListsOk
  <2>2. ListOk(l, removed[g], kind[g], texts, TextsOf(comments), WaitingIn(calls))
    BY <1>4, <2>1 DEF ListOk
  <2> QED BY <1>1, <1>3, <2>1, <2>2 DEF ListsOk
<1>7. CalmAt(g, calm', poll', list', removed', comments', calls')
  <2>1. \A claims : TrueList(list[g], poll[g], removed[g], claims) => TrueList(l, poll[g], removed[g], claims)
    BY <1>2, <1>4 DEF TrueList
  <2>2. CalmAt(g, calm, poll, list, removed, comments, calls)
    BY DEF IInv, CalmOk
  <2> QED BY <1>1, <1>3, <2>1, <2>2 DEF CalmAt
<1>8. \A e \in calls' : e.page = g => AloneAt(e, poll', removed', comments', calls')
  BY <1>1 DEF IInv, AloneOk
<1>9. CalmOk' /\ AloneOk'
  BY <1>1, <1>3, <1>7, <1>8, PageStep DEF Aside
<1> QED BY <1>5, <1>6, <1>9 DEF IInv

\* A page that is left shows nothing, and has no loads.
LEMMA LeaveInv ==
  ASSUME IInv, TypeInv', NEW g \in Pages, Leave(g)
  PROVE  IInv'
<1>1. UNCHANGED <<comments, texts, kind, removed>> /\ texts \in Nat
  BY PagesAssumption DEF Leave, IInv, TypeInv
<1>2. /\ list'[g] = <<>> /\ calm'[g] = FALSE
      /\ \A h \in Pages \ {g} : poll'[h] = poll[h] /\ list'[h] = list[h] /\ calm'[h] = calm[h]
  BY DEF Leave, IInv, TypeInv
<1>3. /\ From(calls', calls, {}) /\ Aside(calls', calls, g)
      /\ \A e \in calls' : e.page = g => e.kind \notin Asking
  BY Left DEF IInv
<1>4. WaitingIn(calls') \subseteq WaitingIn(calls)
  BY <1>3, WaitingFrom DEF PendingIn
<1>5. Forward
  BY <1>1, <1>4 DEF Forward
<1>6. StoreOk'
  <2>1. Unique(calls')
    BY <1>3 DEF From, Unique, IInv, StoreOk
  <2> QED BY <1>1, <1>4, <2>1 DEF IInv, StoreOk
<1>7. CallsOk'
  BY <1>3, <1>5, CallsForward DEF IInv
<1>8. ListsOk'
  <2>1. ASSUME NEW h \in Pages
        PROVE  ListOk(list'[h], removed[h], kind[h], texts', TextsOf(comments'), WaitingIn(calls'))
    <3>1. ListOk(list[h], removed[h], kind[h], texts, TextsOf(comments), WaitingIn(calls))
      BY DEF IInv, ListsOk
    <3>2. TextsOf(list'[h]) \subseteq TextsOf(list[h]) /\ Distinct(list'[h])
      <4>1. CASE h = g
        BY <1>2, <4>1 DEF TextsOf, Distinct
      <4>2. CASE h # g
        BY <1>2, <3>1, <4>2 DEF ListOk
      <4> QED BY <4>1, <4>2
    <3> QED BY <1>5, <3>1, <3>2, ListForward
  <2> QED BY <1>1, <2>1 DEF ListsOk
<1>9. CalmAt(g, calm', poll', list', removed', comments', calls')
  BY <1>2 DEF CalmAt
<1>10. \A e \in calls' : e.page = g => AloneAt(e, poll', removed', comments', calls')
  BY <1>3 DEF AloneAt
<1>11. CalmOk' /\ AloneOk'
  BY <1>1, <1>2, <1>3, <1>9, <1>10, PageStep
<1> QED BY <1>6, <1>7, <1>8, <1>11 DEF IInv

-----------------------------------------------------------------------------
(* The server.                                                             *)

\* What becomes of the calls when one that was sent is answered.
LEMMA RepliedCalls ==
  ASSUME IInv, NEW c \in calls, c.phase = "sent", NEW reply \in ReplyType, Reply(c, reply)
  PROVE  \E a : /\ AnsweredCall(a, c, reply)
                /\ From(calls', calls, {a}) /\ LoadsIn(calls', calls)
                /\ \A e \in calls' : e = a \/ (e \in calls /\ e # c)
                /\ PendingIn(calls') \subseteq PendingIn(calls) \ {c}
<1>1. PICK a : /\ AnsweredCall(a, c, reply)
               /\ calls' = (calls \ {c}) \cup {a} \/ (c.gone /\ calls' = calls \ {c})
  BY Replied DEF IInv
<1>2. calls \in SUBSET CallType /\ calls \ {c} \in SUBSET calls /\ a \in CallType
  BY <1>1 DEF AnsweredCall, IInv, TypeInv
<1>3. From(calls', calls, {a})
  <2>1. From((calls \ {c}) \cup {a}, calls, {a})
    BY <1>2, FromOneMore
  <2>2. From(calls \ {c}, calls, {})
    BY <1>2, FromSubset
  <2>3. From(calls \ {c}, calls, {a})
    BY <2>2 DEF From
  <2> QED BY <1>1, <2>1, <2>3
<1>4. LoadsIn(calls', calls)
  <2>1. c.kind \in Loading => ~c.gone
    BY DEF IInv, CallsOk, CallOk, Loading, Asking
  <2> QED BY <1>1, <2>1 DEF LoadsIn, AnsweredCall
<1>5. a.phase = "answered" /\ \A e \in calls' : e = a \/ (e \in calls /\ e # c)
  BY <1>1 DEF AnsweredCall
<1>6. PendingIn(calls') \subseteq PendingIn(calls) \ {c}
  BY <1>5 DEF PendingIn
<1> QED BY <1>1, <1>3, <1>4, <1>5, <1>6

\* Less waits, so that no page claims more but for the comments.
LEMMA ClaimsFewer ==
  ASSUME NEW D, NEW C, PendingIn(D) \subseteq PendingIn(C), NEW s, NEW t,
         \A k \in DOMAIN s : \E i \in DOMAIN t : s[k] = t[i], NEW g, NEW p
  PROVE  Claims(s, D, g, p) \subseteq Claims(t, C, g, p)
  BY DEF Claims

\* A step of the server, so that only the answered call remains to be seen.
LEMMA ServerStep ==
  ASSUME IInv, TypeInv', NEW c \in calls, NEW a,
         From(calls', calls, {a}), LoadsIn(calls', calls),
         \A e \in calls' : e = a \/ (e \in calls /\ e # c), a.page = c.page,
         UNCHANGED <<texts, pageVars, ghosts>>, Forward,
         \A g \in Pages, p \in Polls : Claims(comments', calls', g, p) \subseteq Claims(comments, calls, g, p),
         CallOk(a, texts', TextsOf(comments'), WaitingIn(calls'), kind'),
         AloneAt(a, poll', removed', comments', calls')
  PROVE  CallsOk' /\ ListsOk' /\ CalmOk' /\ AloneOk'
<1>1. UNCHANGED <<kind, poll, list, calm, removed>>
  BY DEF pageVars, ghosts
<1>2. CallsOk'
  BY CallsForward DEF IInv
<1>3. ListsOk'
  BY <1>1, SameLists DEF IInv
<1>4. ASSUME NEW g \in Pages
      PROVE  CalmAt(g, calm', poll', list', removed', comments', calls')
  <2>1. Quiet(g)
    BY <1>1 DEF Quiet, LoadsIn
  <2>2. CalmAt(g, calm, poll, list, removed, comments, calls)
    BY DEF IInv, CalmOk
  <2> QED BY <1>1, <2>1, <2>2, CalmKept DEF IInv
<1>5. ASSUME NEW e \in calls'
      PROVE  AloneAt(e, poll', removed', comments', calls')
  <2>1. CASE e = a
    BY <2>1
  <2>2. CASE e # a /\ e.kind \in Asking /\ e.alone
    <3>1. e \in calls /\ e # c /\ AloneAt(e, poll, removed, comments, calls)
      BY <2>2 DEF IInv, AloneOk
    <3>2. e.page # c.page
      BY <2>2, <3>1 DEF AloneAt
    <3>3. e.page \in Pages
      BY DEF TypeInv, CallType, CallFields
    <3>4. Still(e.page)
      BY <1>1, <3>2, <3>3 DEF Still
    <3> QED BY <3>4, AloneKept DEF IInv
  <2>3. CASE ~(e.kind \in Asking /\ e.alone)
    BY <2>3 DEF AloneAt
  <2> QED BY <2>1, <2>2, <2>3
<1> QED BY <1>2, <1>3, <1>4, <1>5 DEF CalmOk, AloneOk

\* A call that was answered without a list.
LEMMA BareOkay ==
  ASSUME IInv, Forward, NEW c \in calls, NEW a, NEW reply \in {Ok, NoReply}, AnsweredCall(a, c, reply),
         c.kind = "delete" => c.text \notin TextsOf(comments') \/ reply = NoReply
  PROVE  CallOk(a, texts', TextsOf(comments'), WaitingIn(calls'), kind')
<1>1. a.page = c.page /\ a.kind = c.kind /\ a.poll = c.poll /\ a.text = c.text /\ a.gone = c.gone
      /\ a.reply \in {reply, NoReply}
  BY DEF AnsweredCall
<1>2. Ok.list = NoReply.list /\ NoReply.ok = FALSE
  BY DEF Ok, NoReply
<1>3. TextsOf(a.reply.list) = {} /\ Distinct(a.reply.list) /\ DOMAIN a.reply.list = {}
  BY <1>1, <1>2, NoReplyType DEF NoReply
<1>4. CallOk(c, texts, TextsOf(comments), WaitingIn(calls), kind)
  BY DEF IInv, CallsOk
<1>5. 1 .. texts \subseteq 1 .. texts' /\ kind' = kind
  BY DEF Forward
<1>6. c.kind \in Asking => c.gone = FALSE
  BY <1>4 DEF CallOk
<1>7. c.kind = "post" => kind'[c.page] # "dashboard"
  BY <1>4, <1>5 DEF CallOk
<1>8. c.kind = "delete" => kind'[c.page] = "dashboard" /\ c.text \in 1 .. texts' /\ c.text \notin WaitingIn(calls')
  BY <1>4, <1>5 DEF CallOk, Forward
<1>9. c.kind = "delete" /\ a.reply.ok => c.text \notin TextsOf(comments')
  BY <1>1, <1>2
<1> QED BY <1>1, <1>3, <1>6, <1>7, <1>8, <1>9 DEF CallOk

\* A call that came back without a list is still the only call of its page, if it was.
LEMMA FailedAlone ==
  ASSUME IInv, NEW c \in calls, NEW a, NEW reply, AnsweredCall(a, c, reply),
         a.reply.ok = FALSE \/ c.kind # "load",
         \A e \in calls' : e = a \/ (e \in calls /\ e # c), poll' = poll
  PROVE  AloneAt(a, poll', removed', comments', calls')
<1> SUFFICES ASSUME a.kind \in Asking, a.alone
             PROVE  (\A d \in calls' : d.page = a.page => d = a) /\ poll'[a.page] = a.poll
  BY DEF AloneAt, AnsweredCall
<1>1. a.page = c.page /\ a.kind = c.kind /\ a.poll = c.poll /\ a.alone = c.alone
  BY DEF AnsweredCall
<1>2. (\A d \in calls : d.page = c.page => d = c) /\ poll[c.page] = c.poll
  BY <1>1 DEF IInv, AloneOk, AloneAt
<1> QED BY <1>1, <1>2

\* A comment that waited is stored: what its page claims stays.
LEMMA AddInv ==
  ASSUME IInv, TypeInv', NEW c \in calls, c.phase = "sent", AddComment(c),
         UNCHANGED <<texts, pageVars, ghosts>>
  PROVE  IInv'
<1>1. c \in CallType
  BY DEF IInv, TypeInv
<1>2. /\ c.kind = "post" /\ Reply(c, Ok) /\ c.text \in Texts /\ c.poll \in Polls /\ c.page \in Pages
      /\ comments' = Append(comments, [text |-> c.text, poll |-> c.poll, by |-> c.page])
      /\ Ok \in ReplyType /\ texts \in Nat /\ UNCHANGED <<kind, poll>>
  BY <1>1, ReplyTypes, PagesAssumption DEF AddComment, CallType, CallFields, Asking, IInv, TypeInv, pageVars
<1>3. PICK a : /\ AnsweredCall(a, c, Ok)
               /\ From(calls', calls, {a}) /\ LoadsIn(calls', calls)
               /\ \A e \in calls' : e = a \/ (e \in calls /\ e # c)
               /\ PendingIn(calls') \subseteq PendingIn(calls) \ {c}
  BY <1>2, RepliedCalls
<1>4. c \in PendingIn(calls) /\ c.text \in WaitingIn(calls)
  BY <1>2 DEF PendingIn, WaitingIn
<1>5. StoreOk
  BY DEF IInv
<1>6. WaitingIn(calls') \subseteq WaitingIn(calls) \ {c.text}
  BY <1>3, <1>4, <1>5 DEF WaitingIn, StoreOk, Unique
<1>7. /\ TextsOf(comments') = TextsOf(comments) \cup {c.text}
      /\ Distinct(comments) /\ c.text \notin TextsOf(comments) => Distinct(comments')
      /\ \A k \in DOMAIN comments' :
            \/ comments'[k] = [text |-> c.text, poll |-> c.poll, by |-> c.page]
            \/ \E i \in DOMAIN comments : comments'[k] = comments[i]
  BY <1>2, StoredType DEF IInv
<1>8. Forward
  BY <1>2, <1>4, <1>6, <1>7 DEF Forward
<1>9. kind[c.page] # "dashboard"
  BY <1>2 DEF IInv, CallsOk, CallOk
<1>10. StoreOk'
  <2>1. Distinct(comments') /\ TextsOf(comments') \subseteq 1 .. texts
    BY <1>4, <1>5, <1>7 DEF StoreOk
  <2>2. TextsOf(comments') \cap WaitingIn(calls') = {} /\ WaitingIn(calls') \subseteq 1 .. texts
    BY <1>5, <1>6, <1>7 DEF StoreOk
  <2>3. Unique(calls')
    BY <1>3, <1>5 DEF Unique, StoreOk
  <2>4. \A i \in DOMAIN comments' : comments'[i].by \in Pages => kind[comments'[i].by] # "dashboard"
    BY <1>5, <1>7, <1>9 DEF StoreOk
  <2> QED BY <1>2, <2>1, <2>2, <2>3, <2>4 DEF StoreOk
<1>11. ASSUME NEW g \in Pages, NEW p \in Polls
       PROVE  Claims(comments', calls', g, p) \subseteq Claims(comments, calls, g, p)
  <2>1. ASSUME NEW k \in DOMAIN comments', comments'[k].by = g, comments'[k].poll = p
        PROVE  comments'[k].text \in Claims(comments, calls, g, p)
    <3>1. CASE comments'[k] = [text |-> c.text, poll |-> c.poll, by |-> c.page]
      BY <1>4, <2>1, <3>1 DEF Claims
    <3>2. CASE \E i \in DOMAIN comments : comments'[k] = comments[i]
      BY <2>1, <3>2 DEF Claims
    <3> QED BY <1>7, <3>1, <3>2
  <2>2. ASSUME NEW e \in PendingIn(calls'), e.page = g, e.poll = p
        PROVE  e.text \in Claims(comments, calls, g, p)
    BY <1>3, <2>2 DEF Claims
  <2> QED BY <2>1, <2>2 DEF Claims
<1>12. CallOk(a, texts', TextsOf(comments'), WaitingIn(calls'), kind')
  BY <1>2, <1>3, <1>8, BareOkay
<1>13. a.page = c.page /\ AloneAt(a, poll', removed', comments', calls')
  BY <1>2, <1>3 DEF AnsweredCall, AloneAt, Asking
<1>14. CallsOk' /\ ListsOk' /\ CalmOk' /\ AloneOk'
  BY <1>3, <1>8, <1>11, <1>12, <1>13, ServerStep
<1> QED BY <1>10, <1>14 DEF IInv

\* Nothing new is stored: what waits and what is claimed gets less.
LEMMA LessStored ==
  ASSUME IInv, TypeInv', PendingIn(calls') \subseteq PendingIn(calls),
         Fewer(comments', comments) \/ comments' = comments, UNCHANGED <<texts, kind>>
  PROVE  /\ Forward /\ StoreOk'
         /\ \A g \in Pages, p \in Polls :
                Claims(comments', calls', g, p) \subseteq Claims(comments, calls, g, p)
<1>1. StoreOk /\ texts \in Nat
  BY PagesAssumption DEF IInv, TypeInv
<1>2. WaitingIn(calls') \subseteq WaitingIn(calls)
  BY DEF WaitingIn
<1>3. TextsOf(comments') \subseteq TextsOf(comments)
  BY FewerTexts
<1>4. \A k \in DOMAIN comments' : \E i \in DOMAIN comments : comments'[k] = comments[i]
  BY DEF Fewer
<1>5. Forward
  BY <1>1, <1>2, <1>3 DEF Forward
<1>6. StoreOk'
  <2>1. Distinct(comments') /\ Unique(calls')
    BY <1>1 DEF StoreOk, Fewer, Unique
  <2>2. \A i \in DOMAIN comments' : comments'[i].by \in Pages => kind[comments'[i].by] # "dashboard"
    BY <1>1, <1>4 DEF StoreOk
  <2> QED BY <1>1, <1>2, <1>3, <2>1, <2>2 DEF StoreOk
<1> QED BY <1>4, <1>5, <1>6, ClaimsFewer

\* The list of a load is read: it has what its page claims if there is no other call, and
\* nothing that waits or was removed.
LEMMA GetInv ==
  ASSUME IInv, TypeInv', NEW c \in calls, c.phase = "sent", GetComments(c),
         UNCHANGED <<texts, pageVars, ghosts>>
  PROVE  IInv'
<1> DEFINE reply == LoadReply(c.poll)
           l == reply.list
<1>1. c \in CallType
  BY DEF IInv, TypeInv
<1>2. /\ c.kind = "load" /\ c.poll \in Polls /\ c.page \in Pages
      /\ Reply(c, reply) /\ reply \in ReplyType
      /\ UNCHANGED <<comments, texts, kind, poll, removed>>
  BY <1>1, ReplyTypes DEF GetComments, LoadReply, CallType, CallFields, IInv, pageVars, ghosts
<1>3. /\ TextsOf(l) = {comments[i].text : i \in {j \in DOMAIN comments : comments[j].poll = c.poll}}
      /\ Distinct(comments) => Distinct(l)
      /\ \A i \in DOMAIN l : l[i].poll = c.poll
  BY <1>2, Listed DEF LoadReply, IInv
<1> HIDE DEF reply
<1>4. PICK a : /\ AnsweredCall(a, c, reply)
               /\ From(calls', calls, {a}) /\ LoadsIn(calls', calls)
               /\ \A e \in calls' : e = a \/ (e \in calls /\ e # c)
               /\ PendingIn(calls') \subseteq PendingIn(calls) \ {c}
  BY <1>2, RepliedCalls
<1>5. /\ Forward /\ StoreOk'
      /\ \A g \in Pages, p \in Polls :
            Claims(comments', calls', g, p) \subseteq Claims(comments, calls, g, p)
  BY <1>2, <1>4, LessStored
<1>6. a.page = c.page /\ a.kind = c.kind /\ a.poll = c.poll /\ a.alone = c.alone /\ a.gone = c.gone
      /\ a.phase = "answered" /\ (a.reply = reply \/ a.reply = NoReply)
  BY <1>4 DEF AnsweredCall
<1>7. CASE a.reply = NoReply
  <2>1. NoReply.ok = FALSE
    BY DEF NoReply
  <2>2. AloneAt(a, poll', removed', comments', calls')
    BY <1>2, <1>4, <1>7, <2>1, FailedAlone
  <2>3. AnsweredCall(a, c, NoReply)
    BY <1>4, <1>7 DEF AnsweredCall
  <2>4. CallOk(a, texts', TextsOf(comments'), WaitingIn(calls'), kind')
    BY <1>5, <2>3, BareOkay
  <2>5. CallsOk' /\ ListsOk' /\ CalmOk' /\ AloneOk'
    BY <1>4, <1>5, <1>6, <2>2, <2>4, ServerStep
  <2> QED BY <1>5, <2>5 DEF IInv
<1>8. CASE a.reply = reply
  <2>1. TextsOf(l) \subseteq TextsOf(comments') /\ Distinct(l)
    BY <1>2, <1>3 DEF TextsOf, IInv, StoreOk
  <2>2. CallOk(a, texts', TextsOf(comments'), WaitingIn(calls'), kind')
    <3>1. c.gone = FALSE
      BY <1>2 DEF IInv, CallsOk, CallOk, Asking
    <3>2. TextsOf(l) \subseteq 1 .. texts' /\ TextsOf(l) \cap WaitingIn(calls') = {}
      BY <1>5, <2>1 DEF StoreOk
    <3> QED BY <1>2, <1>3, <1>6, <1>8, <2>1, <3>1, <3>2 DEF CallOk
  <2>3. ASSUME a.alone
        PROVE  AloneAt(a, poll', removed', comments', calls')
    <3>1. (\A d \in calls : d.page = c.page => d = c) /\ poll[c.page] = c.poll
      BY <1>2, <1>6, <2>3 DEF IInv, AloneOk, AloneAt, Asking
    <3>2. \A d \in calls' : d.page = c.page => d = a
      BY <1>4, <3>1
    <3>3. \A d \in PendingIn(calls') : d.page # c.page
      BY <1>6, <3>2 DEF PendingIn
    <3>4. Claims(comments', calls', c.page, c.poll) \subseteq TextsOf(l)
      BY <1>2, <1>3, <3>3 DEF Claims
    <3>5. removed[c.page] \cap TextsOf(comments) = {}
      BY <1>2 DEF IInv, ListsOk, ListOk
    <3>6. TextsOf(l) \cap removed[c.page] = {}
      BY <1>2, <2>1, <3>5
    <3> QED BY <1>2, <1>6, <1>8, <3>1, <3>2, <3>4, <3>6 DEF AloneAt
  <2>4. AloneAt(a, poll', removed', comments', calls')
    BY <2>3 DEF AloneAt
  <2>5. CallsOk' /\ ListsOk' /\ CalmOk' /\ AloneOk'
    BY <1>4, <1>5, <1>6, <2>2, <2>4, ServerStep
  <2> QED BY <1>5, <2>5 DEF IInv
<1> QED BY <1>6, <1>7, <1>8

\* A comment that a dashboard deletes is not stored when the dashboard hears of it.
LEMMA DeletedInv ==
  ASSUME IInv, TypeInv', NEW c \in calls, c.phase = "sent", DeleteComment(c),
         UNCHANGED <<texts, pageVars, ghosts>>
  PROVE  IInv'
<1>1. /\ c.kind = "delete" /\ Reply(c, Ok) /\ Ok \in ReplyType
      /\ UNCHANGED <<texts, kind, poll>>
  BY ReplyTypes DEF DeleteComment, IInv, pageVars
<1>2. Fewer(comments', comments) /\ c.text \notin TextsOf(comments')
  BY DeletedType DEF DeleteComment, IInv
<1>3. PICK a : /\ AnsweredCall(a, c, Ok)
               /\ From(calls', calls, {a}) /\ LoadsIn(calls', calls)
               /\ \A e \in calls' : e = a \/ (e \in calls /\ e # c)
               /\ PendingIn(calls') \subseteq PendingIn(calls) \ {c}
  BY <1>1, RepliedCalls
<1>4. /\ Forward /\ StoreOk'
      /\ \A g \in Pages, p \in Polls :
            Claims(comments', calls', g, p) \subseteq Claims(comments, calls, g, p)
  BY <1>1, <1>2, <1>3, LessStored
<1>5. CallOk(a, texts', TextsOf(comments'), WaitingIn(calls'), kind')
  BY <1>2, <1>3, <1>4, BareOkay
<1>6. a.page = c.page /\ AloneAt(a, poll', removed', comments', calls')
  BY <1>1, <1>3 DEF AnsweredCall, AloneAt, Asking
<1>7. CallsOk' /\ ListsOk' /\ CalmOk' /\ AloneOk'
  BY <1>3, <1>4, <1>5, <1>6, ServerStep
<1> QED BY <1>4, <1>7 DEF IInv

\* What failed has changed nothing, nor have the requests that leave the comments alone.
LEMMA FailInv ==
  ASSUME IInv, TypeInv', NEW c \in calls, c.phase = "sent", OtherRequest(c) \/ Fail(c),
         UNCHANGED <<texts, pageVars, ghosts>>
  PROVE  IInv'
<1>1. Ok \in ReplyType /\ NoReply \in ReplyType /\ UNCHANGED <<comments, texts, kind, poll>>
  BY ReplyTypes DEF OtherRequest, Fail, IInv, pageVars
<1>2. PICK reply \in {Ok, NoReply} :
        Reply(c, reply) /\ (reply = NoReply \/ c.kind \in {"details", "reset"})
  BY DEF OtherRequest, Fail
<1>3. PICK a : /\ AnsweredCall(a, c, reply)
               /\ From(calls', calls, {a}) /\ LoadsIn(calls', calls)
               /\ \A e \in calls' : e = a \/ (e \in calls /\ e # c)
               /\ PendingIn(calls') \subseteq PendingIn(calls) \ {c}
  BY <1>1, <1>2, RepliedCalls
<1>4. /\ Forward /\ StoreOk'
      /\ \A g \in Pages, p \in Polls :
            Claims(comments', calls', g, p) \subseteq Claims(comments, calls, g, p)
  BY <1>1, <1>3, LessStored
<1>5. CallOk(a, texts', TextsOf(comments'), WaitingIn(calls'), kind')
  BY <1>2, <1>3, <1>4, BareOkay
<1>6. a.page = c.page /\ (a.reply.ok = FALSE \/ c.kind # "load")
  BY <1>2, <1>3 DEF AnsweredCall, NoReply
<1>7. AloneAt(a, poll', removed', comments', calls')
  BY <1>1, <1>3, <1>6, FailedAlone
<1>8. CallsOk' /\ ListsOk' /\ CalmOk' /\ AloneOk'
  BY <1>1, <1>3, <1>4, <1>5, <1>6, <1>7, ServerStep
<1> QED BY <1>4, <1>8 DEF IInv

\* What others store or delete is not a page's own, and nothing that waits.
LEMMA ElsewhereStep ==
  ASSUME IInv, TypeInv', Forward, StoreOk', UNCHANGED <<pageVars, calls, ghosts>>,
         \A g \in Pages, p \in Polls : Claims(comments', calls', g, p) \subseteq Claims(comments, calls, g, p)
  PROVE  IInv'
<1>1. UNCHANGED <<kind, poll, list, calls, calm, removed>>
  BY DEF pageVars, ghosts
<1>2. CallsOk'
  BY <1>1, SameCalls, CallsForward DEF IInv
<1>3. ListsOk'
  BY <1>1, SameLists DEF IInv
<1>4. ASSUME NEW g \in Pages
      PROVE  CalmAt(g, calm', poll', list', removed', comments', calls')
  <2>1. Quiet(g) /\ CalmAt(g, calm, poll, list, removed, comments, calls)
    BY <1>1 DEF Quiet, IInv, CalmOk
  <2> QED BY <1>1, <2>1, CalmKept DEF IInv
<1>5. ASSUME NEW e \in calls'
      PROVE  AloneAt(e, poll', removed', comments', calls')
  <2>1. e.page \in Pages
    BY DEF TypeInv, CallType, CallFields
  <2>2. Still(e.page)
    BY <1>1, <2>1 DEF Still
  <2> QED BY <2>2, AloneKept DEF IInv
<1> QED BY <1>2, <1>3, <1>4, <1>5 DEF IInv, CalmOk, AloneOk

\* Comments of others.
LEMMA ElsewhereInv ==
  ASSUME IInv, TypeInv',
         (\E p \in Polls : CommentElsewhere(p)) \/ (\E i \in DOMAIN comments : DeleteElsewhere(i))
  PROVE  IInv'
<1>1. ASSUME NEW p \in Polls, CommentElsewhere(p)
      PROVE  IInv'
  <2>1. /\ texts' = texts + 1 /\ texts \in Nat /\ texts' \in Texts
        /\ comments' = Append(comments, [text |-> texts', poll |-> p, by |-> None])
        /\ UNCHANGED <<pageVars, calls, ghosts, kind>> /\ None \notin Pages
    BY <1>1, PagesAssumption DEF CommentElsewhere, IInv, TypeInv, Texts, pageVars
  <2>2. texts' \notin 1 .. texts /\ 1 .. texts \subseteq 1 .. texts' /\ texts' \in 1 .. texts'
    BY <2>1
  <2>3. /\ TextsOf(comments') = TextsOf(comments) \cup {texts'}
        /\ Distinct(comments) /\ texts' \notin TextsOf(comments) => Distinct(comments')
        /\ \A k \in DOMAIN comments' :
              \/ comments'[k] = [text |-> texts', poll |-> p, by |-> None]
              \/ \E i \in DOMAIN comments : comments'[k] = comments[i]
    BY <2>1, StoredType DEF IInv
  <2>4. Forward
    BY <2>1, <2>2, <2>3 DEF Forward
  <2>5. StoreOk'
    <3>1. StoreOk
      BY DEF IInv
    <3>2. \A i \in DOMAIN comments' : comments'[i].by \in Pages => kind[comments'[i].by] # "dashboard"
      BY <2>1, <2>3, <3>1 DEF StoreOk
    <3> QED BY <2>1, <2>2, <2>3, <3>1, <3>2 DEF StoreOk
  <2>6. ASSUME NEW g \in Pages, NEW q \in Polls
        PROVE  Claims(comments', calls', g, q) \subseteq Claims(comments, calls, g, q)
    <3>1. \A k \in DOMAIN comments' : comments'[k].by = g =>
            \E i \in DOMAIN comments : comments'[k] = comments[i]
      BY <2>1, <2>3
    <3> QED BY <2>1, <3>1 DEF Claims
  <2> QED BY <2>1, <2>4, <2>5, <2>6, ElsewhereStep
<1>2. ASSUME NEW i \in DOMAIN comments, DeleteElsewhere(i)
      PROVE  IInv'
  <2>1. UNCHANGED <<texts, pageVars, calls, ghosts, kind>> /\ PendingIn(calls') \subseteq PendingIn(calls)
    BY <1>2 DEF DeleteElsewhere, pageVars
  <2>2. Fewer(comments', comments)
    BY <1>2, RemovedType DEF DeleteElsewhere, IInv
  <2>3. /\ Forward /\ StoreOk'
        /\ \A g \in Pages, p \in Polls :
              Claims(comments', calls', g, p) \subseteq Claims(comments, calls, g, p)
    BY <2>1, <2>2, LessStored
  <2> QED BY <2>1, <2>3, ElsewhereStep
<1> QED BY <1>1, <1>2

-----------------------------------------------------------------------------
(* The answers.                                                            *)

\* A call less: the store and the other calls are as they were.
LEMMA OneCallLess ==
  ASSUME IInv, NEW c \in calls, Answer(c), calls' = calls \ {c}
  PROVE  /\ UNCHANGED <<comments, texts, kind, poll>> /\ calls' = calls \ {c}
         /\ c \in CallType /\ c.page \in Pages
         /\ Forward /\ StoreOk' /\ CallsOk' /\ Aside(calls', calls, c.page)
         /\ \A p \in Polls : Claims(comments', calls', c.page, p) \subseteq Claims(comments, calls, c.page, p)
         /\ \A e \in calls' : e.page = c.page => ~(e.kind \in Asking /\ e.alone)
<1>1. UNCHANGED <<comments, texts, kind, poll>> /\ calls' = calls \ {c} /\ texts \in Nat
  BY PagesAssumption DEF Answer, IInv, TypeInv
<1>2. c \in CallType /\ c.page \in Pages
  BY DEF IInv, TypeInv, CallType, CallFields
<1>3. PendingIn(calls') \subseteq PendingIn(calls)
  BY <1>1 DEF PendingIn
<1>4. WaitingIn(calls') \subseteq WaitingIn(calls)
  BY <1>3 DEF WaitingIn
<1>5. Forward
  BY <1>1, <1>4 DEF Forward
<1>6. StoreOk'
  BY <1>1, <1>3, <1>4 DEF IInv, StoreOk, Unique
<1>7. CallsOk'
  BY <1>1, <1>5, SameCalls, CallsForward DEF IInv
<1>8. Aside(calls', calls, c.page)
  BY <1>1 DEF Aside
<1>9. \A p \in Polls : Claims(comments', calls', c.page, p) \subseteq Claims(comments, calls, c.page, p)
  BY <1>1, <1>3 DEF Claims
<1>10. \A e \in calls' : e.page = c.page => ~(e.kind \in Asking /\ e.alone)
  BY <1>1 DEF IInv, AloneOk, AloneAt
<1> QED BY <1>1, <1>2, <1>5, <1>6, <1>7, <1>8, <1>9, <1>10

\* An answer, so that only the list of the page remains to be seen.
LEMMA AnswerStep ==
  ASSUME IInv, TypeInv', NEW c \in calls, Answer(c), calls' = calls \ {c},
         \A h \in Pages \ {c.page} :
            removed'[h] = removed[h] /\ calm'[h] = calm[h] /\ list'[h] = list[h],
         ListOk(list'[c.page], removed'[c.page], kind[c.page], texts', TextsOf(comments'), WaitingIn(calls')),
         CalmAt(c.page, calm', poll', list', removed', comments', calls')
  PROVE  IInv'
<1> DEFINE g == c.page
<1>1. /\ UNCHANGED <<comments, texts, kind, poll>> /\ calls' = calls \ {c} /\ g \in Pages
      /\ Forward /\ StoreOk' /\ CallsOk' /\ Aside(calls', calls, g)
      /\ \A e \in calls' : e.page = g => ~(e.kind \in Asking /\ e.alone)
  BY OneCallLess
<1>2. ListsOk'
  <2>1. ASSUME NEW h \in Pages
        PROVE  ListOk(list'[h], removed'[h], kind[h], texts', TextsOf(comments'), WaitingIn(calls'))
    <3>1. CASE h = g
      BY <3>1
    <3>2. CASE h # g
      <4>1. ListOk(list[h], removed[h], kind[h], texts, TextsOf(comments), WaitingIn(calls))
        BY DEF IInv, ListsOk
      <4>2. Distinct(list[h])
        BY <4>1 DEF ListOk
      <4>3. ListOk(list[h], removed[h], kind[h], texts', TextsOf(comments'), WaitingIn(calls'))
        BY <1>1, <4>1, <4>2, ListForward
      <4> QED BY <3>2, <4>3
    <3> QED BY <3>1, <3>2
  <2> QED BY <1>1, <2>1 DEF ListsOk
<1>3. \A e \in calls' : e.page = g => AloneAt(e, poll', removed', comments', calls')
  BY <1>1 DEF AloneAt
<1>4. CalmOk' /\ AloneOk'
  BY <1>1, <1>3, PageStep
<1> QED BY <1>1, <1>2, <1>4 DEF IInv

\* The list of a load that was alone all the time is what the page has to show; any other
\* leaves the page not calm.
LEMMA ListAnsweredInv ==
  ASSUME IInv, TypeInv', NEW c \in calls, Answer(c), calls' = calls \ {c},
         ListAnswered(c)
  PROVE  IInv'
<1> DEFINE g == c.page
           l == c.reply.list
<1>1. /\ UNCHANGED <<comments, texts, kind, poll>> /\ calls' = calls \ {c}
      /\ c \in CallType /\ g \in Pages /\ Forward
      /\ \A p \in Polls : Claims(comments', calls', g, p) \subseteq Claims(comments, calls, g, p)
  BY OneCallLess
<1>2. c.kind = "load" /\ c.reply.ok /\ c.phase = "answered" /\ c.poll \in Polls /\ removed' = removed
  BY <1>1 DEF Answer, ListAnswered, CallType, CallFields
<1>3. /\ list'[g] = l /\ calm'[g] = c.alone
      /\ \A h \in Pages \ {g} : list'[h] = list[h] /\ calm'[h] = calm[h]
  BY <1>1 DEF ListAnswered, Loaded, IInv, TypeInv
<1>4. CallOk(c, texts, TextsOf(comments), WaitingIn(calls), kind)
  BY DEF IInv, CallsOk
<1>5. ListOk(l, removed[g], kind[g], texts', TextsOf(comments'), WaitingIn(calls'))
  <2>1. ListOk(list[g], removed[g], kind[g], texts, TextsOf(comments), WaitingIn(calls))
    BY <1>1 DEF IInv, ListsOk
  <2>2. ListOk(l, removed[g], kind[g], texts, TextsOf(comments), WaitingIn(calls))
    BY <1>4, <2>1 DEF CallOk, ListOk
  <2>3. Distinct(l)
    BY <1>4 DEF CallOk
  <2> QED BY <1>1, <2>2, <2>3, ListForward
<1>6. ASSUME c.alone
      PROVE  TrueList(l, poll[g], removed[g], Claims(comments', calls', g, poll[g]))
  <2>1. /\ poll[g] = c.poll /\ TextsOf(l) \cap removed[g] = {}
        /\ Claims(comments, calls, g, c.poll) \subseteq TextsOf(l)
    BY <1>2, <1>6 DEF IInv, AloneOk, AloneAt, Asking
  <2>2. \A i \in DOMAIN l : l[i].poll = c.poll
    BY <1>2, <1>4 DEF CallOk
  <2>3. \A i \in DOMAIN l : l[i].text \notin removed[g]
    BY <2>1 DEF TextsOf
  <2> QED BY <1>1, <1>2, <2>1, <2>2, <2>3 DEF TrueList
<1>7. CalmAt(g, calm', poll', list', removed', comments', calls')
  BY <1>1, <1>2, <1>3, <1>6 DEF CalmAt
<1> QED BY <1>2, <1>3, <1>5, <1>7, AnswerStep

\* A load that failed, or the analytics before it, leaves the page not calm.
LEMMA ListFailedInv ==
  ASSUME IInv, TypeInv', NEW c \in calls, Answer(c), calls' = calls \ {c},
         ListFailed(c) \/ DetailsFailed(c)
  PROVE  IInv'
<1> DEFINE g == c.page
<1>1. g \in Pages /\ Forward
  BY OneCallLess
<1>2. /\ UNCHANGED <<list, removed>> /\ calm'[g] = FALSE /\ \A h \in Pages \ {g} : calm'[h] = calm[h]
  BY <1>1 DEF ListFailed, DetailsFailed, IInv, TypeInv
<1>3. ListOk(list[g], removed[g], kind[g], texts, TextsOf(comments), WaitingIn(calls))
  BY <1>1 DEF IInv, ListsOk
<1>4. ListOk(list[g], removed[g], kind[g], texts', TextsOf(comments'), WaitingIn(calls'))
  <2>1. Distinct(list[g])
    BY <1>3 DEF ListOk
  <2> QED BY <1>1, <1>3, <2>1, ListForward
<1>5. CalmAt(g, calm', poll', list', removed', comments', calls')
  BY <1>2 DEF CalmAt
<1> QED BY <1>2, <1>4, <1>5, AnswerStep

\* Any other answer leaves the list, or takes from it.
LEMMA OtherAnsweredInv ==
  ASSUME IInv, TypeInv', NEW c \in calls, Answer(c), calls' = calls \ {c},
         PostAnswered(c) \/ DeleteFailed(c) \/ ResetAnswered(c)
  PROVE  IInv'
<1> DEFINE g == c.page
<1>1. /\ UNCHANGED <<comments, texts, kind, poll>> /\ calls' = calls \ {c} /\ g \in Pages /\ Forward
      /\ \A p \in Polls : Claims(comments', calls', g, p) \subseteq Claims(comments, calls, g, p)
  BY OneCallLess
<1>2. UNCHANGED <<list, removed, calm>> /\ c.kind \notin Loading
  BY DEF PostAnswered, DeleteFailed, ResetAnswered, ghosts, Loading
<1>3. ListOk(list[g], removed[g], kind[g], texts, TextsOf(comments), WaitingIn(calls))
  BY <1>1 DEF IInv, ListsOk
<1>4. ListOk(list[g], removed[g], kind[g], texts', TextsOf(comments'), WaitingIn(calls'))
  <2>1. Distinct(list[g])
    BY <1>3 DEF ListOk
  <2> QED BY <1>1, <1>3, <2>1, ListForward
<1>5. CalmAt(g, calm', poll', list', removed', comments', calls')
  <2>1. Quiet(g) /\ CalmAt(g, calm, poll, list, removed, comments, calls)
    BY <1>1, <1>2 DEF Quiet, IInv, CalmOk
  <2> QED BY <1>1, <1>2, <2>1, CalmKept DEF IInv
<1> QED BY <1>2, <1>4, <1>5, AnswerStep

\* One call takes the place of another, for the same poll and as alone as it was.
LEMMA TurnedInv ==
  ASSUME IInv, TypeInv', NEW c \in calls, Answer(c), NEW what \in Loading,
         c.kind \in {"details", "reset"},
         calls' = (calls \ {c}) \cup {Call(c.page, c.n, what, c.poll, 0, c.alone)},
         UNCHANGED <<list, posting, ghosts>>
  PROVE  IInv'
<1> DEFINE a == Call(c.page, c.n, what, c.poll, 0, c.alone)
<1>1. /\ a.page = c.page /\ a.kind = what /\ a.poll = c.poll /\ a.alone = c.alone
      /\ a.gone = FALSE /\ a.phase = "sent" /\ a.reply = NoReply
  BY DEF Call
<1>2. calls' = (calls \ {c}) \cup {a}
  OBVIOUS
<1> HIDE DEF a
<1>3. UNCHANGED <<comments, texts, kind, poll, list, pageVars, ghosts>>
  BY DEF Answer, pageVars, ghosts
<1>4. a \in CallType /\ calls \in SUBSET CallType /\ calls \ {c} \in SUBSET calls
  BY <1>2 DEF TypeInv, IInv
<1>5. what \in Asking /\ what \in CallKinds /\ what \notin {"post", "delete"} /\ c.kind \in Asking
  BY DEF Loading, Asking, CallKinds
<1>6. From(calls', calls, {a})
  BY <1>2, <1>4, FromOneMore
<1>7. LoadsIn(calls', calls)
  BY <1>1, <1>2 DEF LoadsIn
<1>8. PendingIn(calls') \subseteq PendingIn(calls)
  BY <1>1, <1>2, <1>5 DEF PendingIn
<1>9. /\ Forward /\ StoreOk'
      /\ \A g \in Pages, p \in Polls :
            Claims(comments', calls', g, p) \subseteq Claims(comments, calls, g, p)
  BY <1>3, <1>8, LessStored
<1>10. CallOk(a, texts', TextsOf(comments'), WaitingIn(calls'), kind')
  <2>1. TextsOf(NoReply.list) = {} /\ Distinct(NoReply.list) /\ \A i \in DOMAIN NoReply.list : FALSE
    BY NoReplyType DEF NoReply
  <2> QED BY <1>1, <1>5, <2>1 DEF CallOk
<1>11. AloneAt(a, poll', removed', comments', calls')
  <2>1. c.alone => (\A d \in calls : d.page = c.page => d = c) /\ poll[c.page] = c.poll
    BY <1>5 DEF IInv, AloneOk, AloneAt
  <2> QED BY <1>1, <1>2, <1>3, <2>1 DEF AloneAt
<1>12. CallsOk' /\ ListsOk' /\ CalmOk' /\ AloneOk'
  <2>1. \A e \in calls' : e = a \/ (e \in calls /\ e # c)
    BY <1>2
  <2> QED BY <1>1, <1>3, <1>6, <1>7, <1>9, <1>10, <1>11, <2>1, ServerStep
<1> QED BY <1>9, <1>12 DEF IInv

\* The analytics have come, or the reset: what is asked for next is for the poll that is
\* selected, if no other call was under way.
LEMMA DetailsAnsweredInv ==
  ASSUME IInv, TypeInv', NEW c \in calls, Answer(c), DetailsAnswered(c) \/ ResetAnswered(c)
  PROVE  IInv'
<1>1. "load" \in Loading /\ "details" \in Loading
  BY DEF Loading
<1>2. CASE DetailsAnswered(c)
  BY <1>1, <1>2, TurnedInv DEF DetailsAnswered
<1>3. CASE ResetAnswered(c) /\ c.reply.ok
  BY <1>1, <1>3, TurnedInv DEF ResetAnswered
<1>4. CASE ResetAnswered(c) /\ ~c.reply.ok
  <2>1. calls' = calls \ {c}
    BY <1>4 DEF ResetAnswered
  <2> QED BY <1>4, <2>1, OtherAnsweredInv
<1> QED BY <1>2, <1>3, <1>4

\* A dashboard has no comments of its own, so that it may take any from its list; the one
\* that it deleted is not stored, and was never going to be.
LEMMA DeleteAnsweredInv ==
  ASSUME IInv, TypeInv', NEW c \in calls, Answer(c), calls' = calls \ {c},
         DeleteAnswered(c)
  PROVE  IInv'
<1> DEFINE g == c.page
           l == Without(list[g], c.text)
           r == removed[g] \cup {c.text}
<1>1. /\ UNCHANGED <<comments, texts, kind, poll>> /\ calls' = calls \ {c} /\ g \in Pages /\ Forward
  BY OneCallLess
<1>2. c.kind = "delete" /\ c.reply.ok /\ c.phase = "answered" /\ calm' = calm
  BY DEF Answer, DeleteAnswered
<1>3. /\ list'[g] = l /\ removed'[g] = r
      /\ \A h \in Pages \ {g} : list'[h] = list[h] /\ removed'[h] = removed[h]
  BY <1>1 DEF DeleteAnswered, IInv, TypeInv
<1>4. list[g] \in Seq(Entries)
  BY <1>1 DEF IInv, TypeInv
<1>5. /\ \A k \in DOMAIN l : \E i \in DOMAIN list[g] : l[k] = list[g][i] /\ list[g][i].text # c.text
      /\ TextsOf(l) \subseteq TextsOf(list[g])
      /\ Distinct(list[g]) => Distinct(l)
  BY <1>4, Cleared
<1> HIDE DEF l
<1>6. /\ kind[g] = "dashboard" /\ c.text \in 1 .. texts /\ c.text \notin WaitingIn(calls)
      /\ c.text \notin TextsOf(comments)
  BY <1>2 DEF IInv, CallsOk, CallOk
<1>7. ListOk(l, r, kind[g], texts', TextsOf(comments'), WaitingIn(calls'))
  <2>1. ListOk(list[g], removed[g], kind[g], texts, TextsOf(comments), WaitingIn(calls))
    BY <1>1 DEF IInv, ListsOk
  <2>2. ListOk(list[g], r, kind[g], texts, TextsOf(comments), WaitingIn(calls))
    BY <1>6, <2>1 DEF ListOk
  <2>3. Distinct(l)
    BY <1>5, <2>1 DEF ListOk
  <2> QED BY <1>1, <1>5, <2>2, <2>3, ListForward
<1>8. ASSUME NEW p
      PROVE  Claims(comments, calls', g, p) = {}
  <2>1. \A i \in DOMAIN comments : comments[i].by # g
    BY <1>1, <1>6 DEF IInv, StoreOk
  <2>2. \A e \in PendingIn(calls') : e.page # g
    BY <1>1, <1>6 DEF IInv, CallsOk, CallOk, PendingIn
  <2> QED BY <2>1, <2>2 DEF Claims
<1>9. CalmAt(g, calm', poll', list', removed', comments', calls')
  <2> SUFFICES ASSUME calm[g] /\ poll[g] # None /\ \A e \in calls' : e.page = g => e.kind \notin Loading
               PROVE  TrueList(l, poll[g], r, Claims(comments, calls', g, poll[g]))
    BY <1>1, <1>2, <1>3 DEF CalmAt
  <2>1. \A e \in calls : e.page = g => e.kind \notin Loading
    BY <1>1, <1>2 DEF Loading
  <2>2. TrueList(list[g], poll[g], removed[g], Claims(comments, calls, g, poll[g]))
    BY <1>1, <2>1 DEF IInv, CalmOk, CalmAt
  <2>3. \A k \in DOMAIN l : l[k].poll = poll[g] /\ l[k].text \notin r
    BY <1>5, <2>2 DEF TrueList
  <2> QED BY <1>8, <2>3 DEF TrueList
<1> QED BY <1>2, <1>3, <1>7, <1>9, AnswerStep

-----------------------------------------------------------------------------
(* The theorems.                                                           *)

\* The invariant is kept by every step.
LEMMA InvKept ==
  ASSUME IInv, [Next]_vars
  PROVE  IInv'
<1>1. TypeInv'
  BY TypeKept DEF IInv
<1>2. ASSUME NEW g \in Pages, Act(g)
      PROVE  IInv'
  <2>1. CASE \E p \in Polls : Shows(g, p) \/ Select(g, p)
    BY <1>1, <2>1, ShowsInv
  <2>2. CASE Post(g)
    BY <1>1, <2>2, PostInv
  <2>3. CASE React(g)
    BY <1>1, <2>3, ReactInv
  <2>4. CASE Leave(g)
    BY <1>1, <2>4, LeaveInv
  <2>5. CASE \E i \in DOMAIN list[g] : ToggleLike(g, i) \/ Delete(g, i)
    BY <1>1, <2>5, ToggleInv, DeleteInv
  <2>6. CASE Reset(g)
    BY <1>1, <2>6, ResetInv
  <2> QED BY <1>2, <2>1, <2>2, <2>3, <2>4, <2>5, <2>6 DEF Act
<1>3. ASSUME NEW c \in calls, Handle(c)
      PROVE  IInv'
  BY <1>1, <1>3, AddInv, GetInv, DeletedInv, FailInv DEF Handle
<1>4. ASSUME NEW c \in calls, Answer(c)
      PROVE  IInv'
  <2>1. CASE /\ ListAnswered(c) \/ ListFailed(c) \/ PostAnswered(c) \/ DeleteAnswered(c) \/ DeleteFailed(c)
             /\ calls' = calls \ {c}
    BY <1>1, <1>4, <2>1, ListAnsweredInv, ListFailedInv, OtherAnsweredInv, DeleteAnsweredInv
  <2>2. CASE DetailsFailed(c)
    BY <1>1, <1>4, <2>2, ListFailedInv DEF DetailsFailed
  <2>3. CASE DetailsAnswered(c) \/ ResetAnswered(c)
    BY <1>1, <1>4, <2>3, DetailsAnsweredInv
  <2> QED BY <1>4, <2>1, <2>2, <2>3 DEF Answer
<1>5. CASE UNCHANGED vars
  BY <1>1, <1>5 DEF vars, IInv, StoreOk, CallsOk, ListsOk, CalmOk, AloneOk
<1>6. CASE Next
  BY <1>1, <1>2, <1>3, <1>4, <1>6, ElsewhereInv DEF Next
<1> QED BY <1>5, <1>6

\* The invariant holds in every state that is reached.
LEMMA InvHolds == Spec => []IInv
<1>1. IInv /\ [Next]_vars => IInv'
  BY InvKept
<1> QED BY <1>1, InvFirst, PTL DEF Spec

\* A page shows no text twice; and once it has settled, it shows every stored comment of its
\* own for the poll it shows (handlePostComment and fetchComments in PollView.jsx, AddComment).
THEOREM OwnIsShownHolds == Spec => []OwnIsShown
<1>1. IInv => OwnIsShown
  BY InvGivesProperties
<1> QED BY <1>1, InvHolds, PTL

\* Once a page has settled, it shows comments of its poll only, and none that it was told
\* is deleted (fetchComments in PollView.jsx, handleDeleteComment in Dashboard.jsx).
THEOREM ListIsTrueHolds == Spec => []ListIsTrue
<1>1. IInv => ListIsTrue
  BY InvGivesProperties
<1> QED BY <1>1, InvHolds, PTL

\* What a moderator was told is deleted is stored nowhere, and comes back from no post that was
\* on its way (DeleteComment in admin_controller.go, handleDeleteComment in Dashboard.jsx).
RemovedIsGone == \A g \in Pages : \A i \in DOMAIN comments : comments[i].text \notin removed[g]

\* It holds of any pages, polls, texts and calls.
THEOREM RemovedStaysGone == Spec => []RemovedIsGone
<1>1. ASSUME IInv
      PROVE  RemovedIsGone
  <2>1. \A g \in Pages : removed[g] \cap TextsOf(comments) = {}
    BY <1>1 DEF IInv, ListsOk, ListOk
  <2> QED BY <2>1 DEF RemovedIsGone, TextsOf
<1>2. IInv => RemovedIsGone
  BY <1>1
<1> QED BY <1>2, InvHolds, PTL
=============================================================================
