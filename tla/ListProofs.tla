------------------------------ MODULE ListProofs ------------------------------
(* For any number of users, calls and entries, however the calls overlap and *)
(* whatever fails: lists are well formed, changes stay and answers are true   *)
(* but for what the excuses name, and the pages of a list cover it.           *)
EXTENDS UserLists, FunctionTheorems, FiniteSetTheorems, SequenceTheorems,
        WellFoundedInduction, TLAPS

\* A call's list is one of the lists.
LEMMA ListOfCall ==
  ASSUME NEW c \in Call
  PROVE  ListOf(c) \in List
  BY ListAssumption DEF ListOf, List

\* The types at the start and after each step.
LEMMA TypeInit == Init => TypeOK
  BY ListAssumption DEF Init, TypeOK

LEMMA TypeStep ==
  ASSUME TypeOK, [Next]_vars
  PROVE  TypeOK'
<1>0. MaxTime \in Nat /\ 0 \in 0..MaxTime
  BY ListAssumption
<1>1. ASSUME NEW c \in Call, Request(c) PROVE TypeOK'
  BY <1>1 DEF Request, Goto, TypeOK
<1>2. ASSUME NEW c \in Call, Read(c) PROVE TypeOK'
  BY <1>2 DEF Read, Goto, TypeOK
<1>3. ASSUME NEW c \in Call, Write(c) PROVE TypeOK'
  <2>1. /\ list' = [l \in List |-> list'[l]]
        /\ pc' \in [Call -> {"idle", "read", "write", "check",
                             "done", "unsure", "failed", "dead", "cut"}]
        /\ snap' = [d \in Call |-> snap'[d]]
        /\ UNCHANGED <<now, answer>>
    BY <1>3 DEF Write, Goto, TypeOK
  <2>2. stamp' \in [Call -> 0..MaxTime]
    BY <1>0, <1>3 DEF Write, TypeOK
  <2>3. missed' \in [Call -> SUBSET Call]
    <3>1. \A d \in Call : missed[d] \subseteq Call
      BY DEF TypeOK
    <3> QED BY <1>3, <3>1 DEF Write
  <2>4. undone' \subseteq Call
    BY <1>3 DEF Write, TakenBack, SameList, TypeOK
  <2> QED BY <2>1, <2>2, <2>3, <2>4 DEF TypeOK
<1>4. ASSUME NEW c \in Call, Check(c) PROVE TypeOK'
  BY <1>4 DEF Check, Goto, TypeOK, A!Has
<1>5. ASSUME NEW c \in Call, Crash(c) PROVE TypeOK'
  BY <1>0, <1>5 DEF Crash, Goto, TypeOK
<1>6. CASE Tick
  BY <1>0, <1>6 DEF Tick, TypeOK
<1>7. CASE UNCHANGED vars
  BY <1>7 DEF vars, TypeOK
<1> QED BY <1>1, <1>2, <1>3, <1>4, <1>5, <1>6, <1>7 DEF Next

-----------------------------------------------------------------------------
(* Induction and recursion on the natural numbers, for sets and functions.    *)

Less == {p \in Nat \X Nat : p[1] < p[2]}

\* A set of natural numbers that is not empty has a least member.
LEMMA Least ==
  ASSUME NEW T, T \subseteq Nat, T # {}
  PROVE  \E x \in T : \A y \in T : x <= y
<1>1. IsWellFoundedOn(Less, Nat)
  BY NatLessThanWellFounded DEF OpToRel, Less
<1>2. PICK x \in T : \A y \in T : ~ (<<y, x>> \in Less)
  BY <1>1, WFMin
<1>3. ASSUME NEW y \in T PROVE x <= y
  <2>1. x \in Nat /\ y \in Nat /\ <<y, x>> \notin Less
    BY <1>2
  <2> QED BY <2>1 DEF Less
<1> QED BY <1>2, <1>3

\* Induction, with the set of the numbers for which the claim holds.
LEMMA SetInduction ==
  ASSUME NEW S, 0 \in S, \A n \in Nat : n \in S => n + 1 \in S
  PROVE  Nat \subseteq S
<1>1. SUFFICES ASSUME Nat \ S # {} PROVE FALSE
  OBVIOUS
<1>2. PICK x \in Nat \ S : \A y \in Nat \ S : x <= y
  BY <1>1, Least
<1>3. x # 0 /\ x - 1 \in Nat /\ x - 1 \notin Nat \ S
  BY <1>2
<1>4. (x - 1) + 1 = x
  BY <1>2
<1> QED BY <1>2, <1>3, <1>4

\* Recursion on the numbers up to N, from a by g: what the i-th step makes of
\* the result of the one before.
Step(T, N) == [(1..N) \X T -> T]

Iterates(f, T, N, a, g) ==
  f \in [0..N -> T] /\ f[0] = a /\ \A i \in 1..N : f[i] = g[<<i, f[i - 1]>>]

\* There is a function defined that way.
LEMMA Iteration ==
  ASSUME NEW T, NEW N \in Nat, NEW a \in T, NEW g \in Step(T, N)
  PROVE  \E f : Iterates(f, T, N, a, g)
<1> DEFINE S == {n \in Nat : n <= N => \E f : Iterates(f, T, n, a, g)}
<1>0. g \in [(1..N) \X T -> T]
  BY DEF Step
<1>1. 0 \in S
  <2> DEFINE f == [i \in 0..0 |-> a]
  <2>1. Iterates(f, T, 0, a, g)
    BY DEF Iterates
  <2> QED BY <2>1
<1>2. ASSUME NEW n \in Nat, n \in S PROVE n + 1 \in S
  <2> SUFFICES ASSUME n + 1 <= N PROVE \E f : Iterates(f, T, n + 1, a, g)
    OBVIOUS
  <2>1. PICK f : Iterates(f, T, n, a, g)
    BY <1>2
  <2>f. f \in [0..n -> T] /\ f[0] = a /\ \A i \in 1..n : f[i] = g[<<i, f[i - 1]>>]
    BY <2>1 DEF Iterates
  <2> DEFINE h == [i \in 0..(n + 1) |-> IF i = n + 1 THEN g[<<n + 1, f[n]>>] ELSE f[i]]
  <2>2. g[<<n + 1, f[n]>>] \in T
    <3>1. <<n + 1, f[n]>> \in (1..N) \X T
      BY <2>f
    <3> QED BY <1>0, <3>1
  <2>3. h \in [0..(n + 1) -> T]
    BY <2>f, <2>2
  <2>4. h[0] = a
    BY <2>f
  <2>5. \A i \in 1..(n + 1) : h[i] = g[<<i, h[i - 1]>>]
    <3> TAKE i \in 1..(n + 1)
    <3>1. CASE i = n + 1
      <4>1. h[i] = g[<<n + 1, f[n]>>] /\ h[i - 1] = f[n]
        BY <3>1
      <4> QED BY <3>1, <4>1
    <3>2. CASE i # n + 1
      <4>1. i \in 1..n
        BY <3>2
      <4>2. h[i] = f[i] /\ h[i - 1] = f[i - 1]
        BY <4>1
      <4> QED BY <2>f, <4>1, <4>2
    <3> QED BY <3>1, <3>2
  <2> HIDE DEF h
  <2> QED BY <2>3, <2>4, <2>5 DEF Iterates
<1> HIDE DEF S
<1>3. N \in S
  BY <1>1, <1>2, SetInduction
<1> QED BY <1>3 DEF S

-----------------------------------------------------------------------------
(* What the operators make of a list. *)

\* k[i] is what is kept of the first i entries.
Scans(k, E, s, x) ==
  /\ k \in [0..Len(s) -> Seq(E)]
  /\ k[0] = <<>>
  /\ \A i \in 1..Len(s) : k[i] = IF s[i].id = x THEN k[i - 1] ELSE Append(k[i - 1], s[i])

\* Without goes through the list entry by entry (favorites.go:56-61, 70-77).
LEMMA WithoutSteps ==
  ASSUME NEW E, NEW s \in Seq(E), NEW x
  PROVE  \E k : Scans(k, E, s, x) /\ A!Without(s, x) = k[Len(s)]
<1> DEFINE N == Len(s)
           g == [p \in (1..N) \X Seq(E) |-> IF s[p[1]].id = x THEN p[2] ELSE Append(p[2], s[p[1]])]
           D(k) == [i \in 0..N |-> IF i = 0 THEN <<>>
                      ELSE IF s[i].id = x THEN k[i - 1] ELSE Append(k[i - 1], s[i])]
           kk == CHOOSE k : k = D(k)
<1>1. N \in Nat /\ <<>> \in Seq(E)
  OBVIOUS
<1>2. g \in Step(Seq(E), N)
  <2> SUFFICES ASSUME NEW p \in (1..N) \X Seq(E)
               PROVE  (IF s[p[1]].id = x THEN p[2] ELSE Append(p[2], s[p[1]])) \in Seq(E)
    BY DEF Step
  <2>1. p[1] \in 1..N /\ p[2] \in Seq(E) /\ s[p[1]] \in E
    OBVIOUS
  <2> QED BY <2>1
<1>3. PICK f \in [0..N -> Seq(E)] : f[0] = <<>> /\ \A i \in 1..N : f[i] = g[<<i, f[i - 1]>>]
  <2>1. PICK f : Iterates(f, Seq(E), N, <<>>, g)
    <3> HIDE DEF g, N
    <3> QED BY <1>1, <1>2, Iteration
  <2> HIDE DEF g, N
  <2> QED BY <2>1 DEF Iterates
<1>4. \A i \in 1..N : f[i] = IF s[i].id = x THEN f[i - 1] ELSE Append(f[i - 1], s[i])
  <2> TAKE i \in 1..N
  <2>1. f[i - 1] \in Seq(E)
    BY <1>1
  <2>2. f[i] = g[<<i, f[i - 1]>>]
    BY <1>3
  <2> QED BY <2>1, <2>2
<1>5. f = D(f)
  <2>1. ASSUME NEW i \in 0..N
        PROVE  f[i] = IF i = 0 THEN <<>>
                      ELSE IF s[i].id = x THEN f[i - 1] ELSE Append(f[i - 1], s[i])
    <3>1. CASE i = 0
      BY <1>3, <3>1
    <3>2. CASE i # 0
      <4>1. i \in 1..N
        BY <1>1, <3>2
      <4> QED BY <1>4, <3>2, <4>1
    <3> QED BY <3>1, <3>2
  <2>2. f = [i \in 0..N |-> f[i]]
    BY <1>3
  <2> QED BY <2>1, <2>2
<1>6. kk = D(kk)
  <2> HIDE DEF D
  <2> QED BY <1>5
<1>7. A!Without(s, x) = kk[N]
  BY DEF A!Without
<1>8. kk = f
  <2> DEFINE S == {n \in Nat : n <= N => kk[n] = f[n]}
  <2>1. \A i \in 0..N : kk[i] = IF i = 0 THEN <<>>
                      ELSE IF s[i].id = x THEN kk[i - 1] ELSE Append(kk[i - 1], s[i])
    <3> HIDE DEF kk
    <3> QED BY <1>6
  <2> HIDE DEF kk
  <2>2. 0 \in S
    BY <2>1, <1>1, <1>3
  <2>3. ASSUME NEW n \in Nat, n \in S PROVE n + 1 \in S
    <3> SUFFICES ASSUME n + 1 <= N PROVE kk[n + 1] = f[n + 1]
      OBVIOUS
    <3>1. kk[n] = f[n] /\ n + 1 \in 1..N /\ (n + 1) - 1 = n
      BY <2>3
    <3> QED BY <3>1, <2>1, <1>4
  <2>4. Nat \subseteq S
    <3> HIDE DEF S
    <3> QED BY <2>2, <2>3, SetInduction
  <2>5. \A i \in 0..N : kk[i] = f[i]
    BY <2>4, <1>1
  <2>6. kk = [i \in 0..N |-> kk[i]]
    BY <1>6
  <2> QED BY <2>5, <2>6, <1>3
<1>9. Scans(f, E, s, x)
  BY <1>3, <1>4 DEF Scans
<1>10. A!Without(s, x) = f[Len(s)]
  BY <1>7, <1>8
<1> QED BY <1>9, <1>10

\* t holds entries of the first n of s, in their order, and none about x.
Picks(t, s, n, x) ==
  /\ \A p \in DOMAIN t : t[p].id # x /\ \E q \in 1..n : t[p] = s[q]
  /\ \A p, r \in DOMAIN t : p < r =>
       \E q, v \in 1..n : q < v /\ t[p] = s[q] /\ t[r] = s[v]

\* Without removes entries and nothing else.
LEMMA WithoutPicks ==
  ASSUME NEW E, NEW s \in Seq(E), NEW x
  PROVE  A!Without(s, x) \in Seq(E) /\ Picks(A!Without(s, x), s, Len(s), x)
<1>0. PICK k : Scans(k, E, s, x) /\ A!Without(s, x) = k[Len(s)]
  BY WithoutSteps
<1>1. /\ k \in [0..Len(s) -> Seq(E)]
      /\ k[0] = <<>>
      /\ \A i \in 1..Len(s) : k[i] = IF s[i].id = x THEN k[i - 1] ELSE Append(k[i - 1], s[i])
  BY <1>0 DEF Scans
<1> DEFINE S == {n \in Nat : n <= Len(s) => Picks(k[n], s, n, x)}
<1>2. 0 \in S
  BY <1>1 DEF Picks
<1>3. ASSUME NEW n \in Nat, n \in S PROVE n + 1 \in S
  <2> SUFFICES ASSUME n + 1 <= Len(s) PROVE Picks(k[n + 1], s, n + 1, x)
    OBVIOUS
  <2>1. Picks(k[n], s, n, x) /\ k[n] \in Seq(E) /\ Len(s) \in Nat /\ s[n + 1] \in E
    BY <1>1, <1>3
  <2>2. k[n + 1] = IF s[n + 1].id = x THEN k[n] ELSE Append(k[n], s[n + 1])
    <3>1. n + 1 \in 1..Len(s) /\ (n + 1) - 1 = n
      BY <2>1
    <3> QED BY <1>1, <3>1
  <2>3. CASE s[n + 1].id = x
    BY <2>1, <2>2, <2>3 DEF Picks
  <2>4. CASE s[n + 1].id # x
    <3> DEFINE t == k[n]
               m == Len(t)
               z == Append(t, s[n + 1])
    <3>1. /\ m \in Nat /\ DOMAIN t = 1..m /\ DOMAIN z = 1..(m + 1)
          /\ z[m + 1] = s[n + 1] /\ \A p \in 1..m : z[p] = t[p]
      BY <2>1
    <3>2. Picks(t, s, n, x)
      BY <2>1
    <3> HIDE DEF t, z, m
    <3>3. \A p \in DOMAIN z : z[p].id # x /\ \E q \in 1..(n + 1) : z[p] = s[q]
      <4> TAKE p \in DOMAIN z
      <4>1. CASE p = m + 1
        BY <3>1, <4>1, <2>4
      <4>2. CASE p # m + 1
        <5>1. p \in DOMAIN t /\ z[p] = t[p]
          BY <3>1, <4>2
        <5>2. PICK q \in 1..n : t[p] = s[q]
          BY <3>2, <5>1 DEF Picks
        <5>3. q \in 1..(n + 1) /\ t[p].id # x
          BY <3>2, <5>1 DEF Picks
        <5> QED BY <5>1, <5>2, <5>3
      <4> QED BY <4>1, <4>2
    <3>4. \A p, r \in DOMAIN z : p < r =>
            \E q, v \in 1..(n + 1) : q < v /\ z[p] = s[q] /\ z[r] = s[v]
      <4> SUFFICES ASSUME NEW p \in DOMAIN z, NEW r \in DOMAIN z, p < r
                   PROVE  \E q, v \in 1..(n + 1) : q < v /\ z[p] = s[q] /\ z[r] = s[v]
        OBVIOUS
      <4>1. p \in DOMAIN t /\ z[p] = t[p]
        BY <3>1
      <4>2. CASE r = m + 1
        <5>1. PICK q \in 1..n : t[p] = s[q]
          BY <3>2, <4>1 DEF Picks
        <5>2. q \in 1..(n + 1) /\ n + 1 \in 1..(n + 1) /\ q < n + 1
          OBVIOUS
        <5> QED BY <3>1, <4>1, <4>2, <5>1, <5>2
      <4>3. CASE r # m + 1
        <5>1. r \in DOMAIN t /\ z[r] = t[r]
          BY <3>1, <4>3
        <5>2. PICK q \in 1..n, v \in 1..n : q < v /\ t[p] = s[q] /\ t[r] = s[v]
          BY <3>2, <4>1, <5>1 DEF Picks
        <5>3. q \in 1..(n + 1) /\ v \in 1..(n + 1)
          OBVIOUS
        <5> QED BY <4>1, <5>1, <5>2, <5>3
      <4> QED BY <4>2, <4>3
    <3>5. Picks(z, s, n + 1, x)
      BY <3>3, <3>4 DEF Picks
    <3> QED BY <2>2, <2>4, <3>5 DEF z, t
  <2> QED BY <2>3, <2>4
<1>4. Len(s) \in S
  <2> HIDE DEF S
  <2>1. Len(s) \in Nat
    OBVIOUS
  <2> QED BY <1>2, <1>3, <2>1, SetInduction
<1>5. k[Len(s)] \in Seq(E)
  BY <1>1
<1> QED BY <1>0, <1>4, <1>5

\* The first entries that fit are the first entries.
LEMMA FrontCuts ==
  ASSUME NEW E, NEW s \in Seq(E)
  PROVE  /\ A!Front(s) \in Seq(E) /\ Len(A!Front(s)) <= Limit
         /\ DOMAIN A!Front(s) \subseteq DOMAIN s
         /\ s # <<>> => 1 \in DOMAIN A!Front(s)
         /\ \A i \in DOMAIN A!Front(s) : A!Front(s)[i] = s[i]
<1> DEFINE m == A!Smaller(Len(s), Limit)
<1>1. Len(s) \in Nat /\ Limit \in Nat \ {0}
  BY ListAssumption
<1>2. m \in Nat /\ m <= Len(s) /\ m <= Limit /\ (s # <<>> => m > 0)
  BY <1>1 DEF A!Smaller
<1>3. A!Front(s) = SubSeq(s, 1, m)
  BY DEF A!Front
<1> HIDE DEF m
<1>4. /\ SubSeq(s, 1, m) \in Seq(E) /\ Len(SubSeq(s, 1, m)) = m
      /\ \A i \in 1..m : SubSeq(s, 1, m)[i] = s[i]
  BY <1>1, <1>2
<1> QED BY <1>1, <1>2, <1>3, <1>4

\* The last entries that fit are the last entries.
LEMMA BackCuts ==
  ASSUME NEW E, NEW s \in Seq(E)
  PROVE  /\ A!Back(s) \in Seq(E) /\ Len(A!Back(s)) <= Limit
         /\ s # <<>> => \E i \in DOMAIN A!Back(s) : A!Back(s)[i] = s[Len(s)]
         /\ \E d \in Nat : \A i \in DOMAIN A!Back(s) :
              i + d \in DOMAIN s /\ A!Back(s)[i] = s[i + d]
<1> DEFINE m == A!Smaller(Len(s), Limit)
           d == Len(s) - m
<1>1. Len(s) \in Nat /\ Limit \in Nat \ {0}
  BY ListAssumption
<1>2. m \in Nat /\ m <= Len(s) /\ m <= Limit /\ (s # <<>> => m > 0)
  BY <1>1 DEF A!Smaller
<1>3. A!Back(s) = SubSeq(s, d + 1, Len(s)) /\ d \in Nat /\ d + m = Len(s)
  BY <1>1, <1>2 DEF A!Back
<1> HIDE DEF m, d
<1>4. /\ SubSeq(s, d + 1, Len(s)) \in Seq(E) /\ Len(SubSeq(s, d + 1, Len(s))) = m
      /\ \A i \in 1..m : SubSeq(s, d + 1, Len(s))[i] = s[i + d]
  BY <1>1, <1>2, <1>3
<1>5. DOMAIN A!Back(s) = 1..m /\ \A i \in 1..m : i + d \in DOMAIN s
  BY <1>1, <1>2, <1>3, <1>4
<1>6. s # <<>> => m \in DOMAIN A!Back(s) /\ A!Back(s)[m] = s[Len(s)]
  BY <1>2, <1>3, <1>4, <1>5
<1> QED BY <1>2, <1>3, <1>4, <1>5, <1>6
-----------------------------------------------------------------------------
(* What is written is in order if what was read is.                           *)

\* Entries taken from a list in order, with their order kept, are in order.
LEMMA PickedInOrder ==
  ASSUME NEW E, NEW s \in Seq(E), NEW t \in Seq(E), NEW x, NEW l,
         Picks(t, s, Len(s), x), InOrder(l, s)
  PROVE  InOrder(l, t)
<1> SUFFICES ASSUME NEW p \in DOMAIN t, NEW r \in DOMAIN t, p < r
             PROVE  /\ t[p].id # t[r].id
                    /\ IF l[1] = "owned" THEN t[p].at <= t[r].at ELSE t[p].at >= t[r].at
  BY DEF InOrder
<1>1. PICK q \in 1..Len(s), v \in 1..Len(s) : q < v /\ t[p] = s[q] /\ t[r] = s[v]
  BY DEF Picks
<1>2. q \in DOMAIN s /\ v \in DOMAIN s
  OBVIOUS
<1> QED BY <1>1, <1>2 DEF InOrder

\* An entry in front of a list without its id is the newest.
LEMMA AddedInOrder ==
  ASSUME NEW s \in Seq(A!Entry), NEW e \in A!Entry, NEW l, l[1] # "owned",
         InOrder(l, s), NoYounger(s, e.at), e.id \notin Ids(s)
  PROVE  <<e>> \o s \in Seq(A!Entry) /\ InOrder(l, <<e>> \o s)
<1> DEFINE z == <<e>> \o s
<1>1. /\ z \in Seq(A!Entry) /\ Len(s) \in Nat /\ DOMAIN s = 1..Len(s)
      /\ DOMAIN z = 1..(Len(s) + 1)
      /\ z[1] = e /\ \A i \in 2..(Len(s) + 1) : z[i] = s[i - 1]
  OBVIOUS
<1> HIDE DEF z
<1>2. ASSUME NEW i \in DOMAIN z, NEW j \in DOMAIN z, i < j
      PROVE  z[i].id # z[j].id /\ z[i].at >= z[j].at
  <2>1. j - 1 \in DOMAIN s /\ z[j] = s[j - 1]
    BY <1>1, <1>2
  <2>2. CASE i = 1
    BY <1>1, <2>1, <2>2 DEF NoYounger, Ids
  <2>3. CASE i # 1
    <3>1. i - 1 \in DOMAIN s /\ z[i] = s[i - 1] /\ i - 1 < j - 1
      BY <1>1, <1>2, <2>3
    <3> QED BY <2>1, <3>1 DEF InOrder
  <2> QED BY <2>2, <2>3
<1> QED BY <1>1, <1>2 DEF InOrder, z

\* An entry behind a list without its id is the newest.
LEMMA AppendedInOrder ==
  ASSUME NEW s \in Seq(A!Entry), NEW e \in A!Entry, NEW l, l[1] = "owned",
         InOrder(l, s), NoYounger(s, e.at), e.id \notin Ids(s)
  PROVE  Append(s, e) \in Seq(A!Entry) /\ InOrder(l, Append(s, e))
<1> DEFINE z == Append(s, e)
<1>1. /\ z \in Seq(A!Entry) /\ Len(s) \in Nat /\ DOMAIN s = 1..Len(s)
      /\ DOMAIN z = 1..(Len(s) + 1)
      /\ z[Len(s) + 1] = e /\ \A i \in 1..Len(s) : z[i] = s[i]
  OBVIOUS
<1> HIDE DEF z
<1>2. ASSUME NEW i \in DOMAIN z, NEW j \in DOMAIN z, i < j
      PROVE  z[i].id # z[j].id /\ z[i].at <= z[j].at
  <2>1. i \in DOMAIN s /\ z[i] = s[i]
    BY <1>1, <1>2
  <2>2. CASE j = Len(s) + 1
    BY <1>1, <2>1, <2>2 DEF NoYounger, Ids
  <2>3. CASE j # Len(s) + 1
    <3>1. j \in DOMAIN s /\ z[j] = s[j]
      BY <1>1, <1>2, <2>3
    <3> QED BY <1>2, <2>1, <3>1 DEF InOrder
  <2> QED BY <2>2, <2>3
<1> QED BY <1>1, <1>2 DEF InOrder, z

\* A list that is part of another, from some entry on, takes its order and ids.
Part(t, s) == \E d \in Nat : \A i \in DOMAIN t : i + d \in DOMAIN s /\ t[i] = s[i + d]

LEMMA PartInOrder ==
  ASSUME NEW s \in Seq(A!Entry), NEW t \in Seq(A!Entry), NEW l, NEW n \in Nat,
         Part(t, s), InOrder(l, s), NoYounger(s, n)
  PROVE  InOrder(l, t) /\ NoYounger(t, n) /\ Ids(t) \subseteq Ids(s)
<1>1. PICK d \in Nat : \A i \in DOMAIN t : i + d \in DOMAIN s /\ t[i] = s[i + d]
  BY DEF Part
<1>2. InOrder(l, t)
  <2> SUFFICES ASSUME NEW i \in DOMAIN t, NEW j \in DOMAIN t, i < j
               PROVE  /\ t[i].id # t[j].id
                      /\ IF l[1] = "owned" THEN t[i].at <= t[j].at ELSE t[i].at >= t[j].at
    BY DEF InOrder
  <2>1. i + d \in DOMAIN s /\ j + d \in DOMAIN s /\ i + d < j + d
    BY <1>1
  <2> QED BY <1>1, <2>1 DEF InOrder
<1>3. NoYounger(t, n)
  BY <1>1 DEF NoYounger
<1>4. Ids(t) \subseteq Ids(s)
  BY <1>1 DEF Ids
<1> QED BY <1>2, <1>3, <1>4

\* The list that is written after s was read is in order and fits, it is no
\* younger than the clock, and its ids were on s or are the entry's.
Fits(l, t, s, e, n) ==
  /\ t \in Seq(A!Entry) /\ Len(t) <= Limit
  /\ InOrder(l, t) /\ NoYounger(t, n) /\ Ids(t) \subseteq Ids(s) \cup {e.id}

LEMMA WithoutInOrder ==
  ASSUME NEW s \in Seq(A!Entry), NEW x, NEW l, NEW n \in Nat,
         InOrder(l, s), NoYounger(s, n)
  PROVE  LET t == A!Without(s, x)
         IN  /\ t \in Seq(A!Entry) /\ InOrder(l, t) /\ NoYounger(t, n)
             /\ Ids(t) \subseteq Ids(s) \ {x}
<1> DEFINE t == A!Without(s, x)
<1>1. t \in Seq(A!Entry) /\ Picks(t, s, Len(s), x)
  BY WithoutPicks
<1> HIDE DEF t
<1>2. InOrder(l, t)
  BY <1>1, PickedInOrder
<1>3. \A p \in DOMAIN t : t[p].id # x /\ \E q \in DOMAIN s : t[p] = s[q]
  BY <1>1 DEF Picks
<1>4. NoYounger(t, n)
  BY <1>3 DEF NoYounger
<1>5. Ids(t) \subseteq Ids(s) \ {x}
  BY <1>3 DEF Ids
<1> QED BY <1>1, <1>2, <1>4, <1>5 DEF t

LEMMA FrontFits ==
  ASSUME NEW s, NEW z \in Seq(A!Entry), NEW e, NEW l, NEW n \in Nat,
         InOrder(l, z), NoYounger(z, n), Ids(z) \subseteq Ids(s) \cup {e.id}
  PROVE  Fits(l, A!Front(z), s, e, n)
<1> DEFINE t == A!Front(z)
<1>1. /\ t \in Seq(A!Entry) /\ Len(t) <= Limit
      /\ DOMAIN t \subseteq DOMAIN z /\ \A i \in DOMAIN t : t[i] = z[i]
  BY FrontCuts
<1> HIDE DEF t
<1>2. Part(t, z)
  <2>1. \A i \in DOMAIN t : i + 0 \in DOMAIN z /\ t[i] = z[i + 0]
    BY <1>1
  <2> QED BY <2>1 DEF Part
<1>3. InOrder(l, t) /\ NoYounger(t, n) /\ Ids(t) \subseteq Ids(z)
  BY <1>1, <1>2, PartInOrder
<1> QED BY <1>1, <1>3 DEF Fits, t


LEMMA BackFits ==
  ASSUME NEW s, NEW z \in Seq(A!Entry), NEW e, NEW l, NEW n \in Nat,
         InOrder(l, z), NoYounger(z, n), Ids(z) \subseteq Ids(s) \cup {e.id}
  PROVE  Fits(l, A!Back(z), s, e, n)
<1> DEFINE t == A!Back(z)
<1>1. t \in Seq(A!Entry) /\ Len(t) <= Limit /\ Part(t, z)
  BY BackCuts DEF Part
<1> HIDE DEF t
<1>2. InOrder(l, t) /\ NoYounger(t, n) /\ Ids(t) \subseteq Ids(z)
  BY <1>1, PartInOrder
<1> QED BY <1>1, <1>2 DEF Fits, t

\* The ids and times of a list with one entry more.
LEMMA OneMore ==
  ASSUME NEW s \in Seq(A!Entry), NEW e \in A!Entry, NEW n \in Nat,
         NoYounger(s, n), e.at <= n
  PROVE  /\ NoYounger(Append(s, e), n) /\ Ids(Append(s, e)) = Ids(s) \cup {e.id}
         /\ NoYounger(<<e>> \o s, n) /\ Ids(<<e>> \o s) = Ids(s) \cup {e.id}
<1> DEFINE b == Append(s, e)
           f == <<e>> \o s
<1>1. /\ Len(s) \in Nat /\ DOMAIN s = 1..Len(s)
      /\ DOMAIN b = 1..(Len(s) + 1) /\ DOMAIN f = 1..(Len(s) + 1)
      /\ b[Len(s) + 1] = e /\ \A i \in DOMAIN s : b[i] = s[i]
      /\ f[1] = e /\ \A i \in DOMAIN s : f[i + 1] = s[i]
  OBVIOUS
<1> HIDE DEF b, f
<1>2. \A i \in DOMAIN b : i = Len(s) + 1 \/ i \in DOMAIN s
  BY <1>1
<1>3. \A i \in DOMAIN f : i = 1 \/ (i - 1 \in DOMAIN s /\ f[i] = s[i - 1])
  <2> TAKE i \in DOMAIN f
  <2>1. i # 1 => i - 1 \in DOMAIN s /\ (i - 1) + 1 = i
    BY <1>1
  <2> QED BY <1>1, <2>1
<1>4. \A i \in DOMAIN s : i \in DOMAIN b /\ i + 1 \in DOMAIN f
  BY <1>1
<1>5. Len(s) + 1 \in DOMAIN b /\ 1 \in DOMAIN f
  BY <1>1
<1>6. NoYounger(b, n)
  BY <1>1, <1>2 DEF NoYounger
<1>7. NoYounger(f, n)
  BY <1>1, <1>3 DEF NoYounger
<1>8. Ids(b) = Ids(s) \cup {e.id}
  BY <1>1, <1>2, <1>4, <1>5 DEF Ids
<1>9. Ids(f) = Ids(s) \cup {e.id}
  BY <1>1, <1>3, <1>4, <1>5 DEF Ids
<1> QED BY <1>6, <1>7, <1>8, <1>9 DEF b, f

\* What each call writes.
LEMMA UpdateFits ==
  ASSUME OrderInv, NEW c \in Call, pc[c] = "write"
  PROVE  Fits(ListOf(c), Updated(c), snap[c], [id |-> IdOf[c], at |-> stamp[c]], now)
<1> DEFINE s == snap[c]
           e == [id |-> IdOf[c], at |-> stamp[c]]
           l == ListOf(c)
           w == A!Without(s, e.id)
<1>1. /\ KindOf[c] \in {"view", "post", "delete", "create"}
      /\ now \in Nat /\ e \in A!Entry /\ e.id = IdOf[c] /\ e.at = stamp[c]
      /\ stamp[c] <= now /\ stamp[c] \in Nat
  BY ListAssumption DEF OrderInv, TypeOK, ReadInOrder, A!Entry
<1>2. s \in Seq(A!Entry) /\ InOrder(l, s) /\ NoYounger(s, e.at)
  BY <1>1 DEF OrderInv, ReadInOrder
<1>3. NoYounger(s, now)
  <2>1. ASSUME NEW i \in DOMAIN s PROVE s[i].at <= now
    <3>1. s[i] \in A!Entry
      BY <1>2
    <3>2. s[i].at \in Nat /\ s[i].at <= stamp[c]
      BY <1>1, <1>2, <3>1, ListAssumption DEF NoYounger, A!Entry
    <3> QED BY <1>1, <3>2
  <2> QED BY <2>1 DEF NoYounger
<1>4. l[1] = "owned" <=> KindOf[c] = "create"
  BY <1>1 DEF ListOf
<1>5. /\ w \in Seq(A!Entry) /\ InOrder(l, w) /\ NoYounger(w, e.at) /\ NoYounger(w, now)
      /\ Ids(w) \subseteq Ids(s) \ {e.id}
  BY <1>1, <1>2, <1>3, WithoutInOrder
<1>6. CASE KindOf[c] = "create"
  <2> DEFINE z == Append(s, e)
  <2>1. e.id \notin Ids(s)
    BY <1>1, <1>6 DEF OrderInv, NotYetRecorded
  <2>2. Updated(c) = A!Back(z)
    BY <1>6 DEF Updated, Recorded
  <2> HIDE DEF e, s, l, w
  <2>3. z \in Seq(A!Entry) /\ InOrder(l, z)
    BY <1>1, <1>2, <1>4, <1>6, <2>1, AppendedInOrder
  <2>4. NoYounger(z, now) /\ Ids(z) = Ids(s) \cup {e.id}
    BY <1>1, <1>2, <1>3, OneMore
  <2> HIDE DEF z
  <2>5. Fits(l, A!Back(z), s, e, now)
    BY <1>1, <2>3, <2>4, BackFits
  <2> QED BY <2>2, <2>5 DEF e, s, l
<1>7. CASE KindOf[c] # "create"
  <2> DEFINE z == <<e>> \o w
  <2>1. Updated(c) \in {A!Front(z), A!Front(w)}
    BY <1>1, <1>7 DEF Updated, Viewed, Toggled
  <2> HIDE DEF e, s, l, w
  <2>2. l[1] # "owned" /\ e.id \notin Ids(w)
    BY <1>4, <1>5, <1>7
  <2>3. z \in Seq(A!Entry) /\ InOrder(l, z)
    BY <1>1, <1>5, <2>2, AddedInOrder
  <2>4. NoYounger(z, now) /\ Ids(z) = Ids(w) \cup {e.id}
    BY <1>1, <1>5, OneMore
  <2>5. Ids(z) \subseteq Ids(s) \cup {e.id} /\ Ids(w) \subseteq Ids(s) \cup {e.id}
    BY <1>5, <2>4
  <2> HIDE DEF z
  <2>6. Fits(l, A!Front(z), s, e, now)
    BY <1>1, <2>3, <2>4, <2>5, FrontFits
  <2>7. Fits(l, A!Front(w), s, e, now)
    BY <1>1, <1>5, <2>5, FrontFits
  <2> QED BY <2>1, <2>6, <2>7 DEF e, s, l
<1> QED BY <1>6, <1>7

-----------------------------------------------------------------------------
(* Lists are well formed however the calls overlap.                           *)

\* The lists of earlier calls hold no id twice: as many ids as entries.
LEMMA AsManyIds ==
  ASSUME NEW s \in Seq(A!Entry), Cardinality(Ids(s)) = Len(s),
         NEW i \in DOMAIN s, NEW j \in DOMAIN s, i < j
  PROVE  s[i].id # s[j].id
<1> DEFINE D == DOMAIN s \ {j}
<1>1. Len(s) \in Nat /\ DOMAIN s = 1..Len(s) /\ i \in D
  OBVIOUS
<1>2. IsFiniteSet(DOMAIN s) /\ Cardinality(DOMAIN s) = Len(s)
  <2>1. /\ IsFiniteSet(1..Len(s))
        /\ Cardinality(1..Len(s)) = IF 1 > Len(s) THEN 0 ELSE Len(s) - 1 + 1
    BY <1>1, FS_Interval
  <2> QED BY <1>1, <2>1
<1>3. IsFiniteSet(D) /\ Cardinality(D) = Len(s) - 1
  BY <1>2, FS_RemoveElement
<1>4. SUFFICES ASSUME s[i].id = s[j].id PROVE FALSE
  OBVIOUS
<1> DEFINE f == [k \in D |-> s[k].id]
<1>5. Ids(s) = {f[k] : k \in D}
  <2>1. \A k \in DOMAIN s : \E m \in D : s[k].id = s[m].id
    BY <1>1, <1>4
  <2> QED BY <2>1 DEF Ids
<1>6. IsFiniteSet(Ids(s)) /\ Cardinality(Ids(s)) <= Cardinality(D)
  <2>1. f \in Surjection(D, Ids(s))
    BY <1>5 DEF Surjection
  <2> QED BY <1>3, <2>1, FS_Surjection
<1> QED BY <1>1, <1>3, <1>6

LEMMA OrderInit == Init => OrderInv
<1> SUFFICES ASSUME Init PROVE OrderInv
  OBVIOUS
<1>1. TypeOK
  BY TypeInit
<1>2. \A l \in List : /\ list[l] \in Seq(A!Entry) /\ Len(list[l]) <= Limit
                      /\ \A i \in DOMAIN list[l] : list[l][i].at = 0
                      /\ InOrder(l, list[l])
  <2> TAKE l \in List
  <2>1. /\ list[l] \in Seq([id : Id, at : {0}]) /\ Len(list[l]) <= Limit
        /\ Cardinality(Ids(list[l])) = Len(list[l])
    BY ListAssumption DEF Init
  <2>0. \A i \in DOMAIN list[l] : list[l][i] \in [id : Id, at : {0}] /\ list[l][i].at = 0
    <3>1. \A i \in DOMAIN list[l] : list[l][i] \in [id : Id, at : {0}]
      <4>1. \A R : \A q \in Seq(R) : \A i \in DOMAIN q : q[i] \in R
        OBVIOUS
      <4> QED BY <2>1, <4>1, Zenon
    <3>2. \A r \in [id : Id, at : {0}] : r.at = 0
      OBVIOUS
    <3> QED BY <3>1, <3>2
  <2>2. list[l] \in Seq(A!Entry)
    <3>1. \A i \in DOMAIN list[l] : list[l][i] \in A!Entry
      BY <2>0, <2>1, ListAssumption DEF A!Entry
    <3>2. list[l] \in [1..Len(list[l]) -> A!Entry] /\ Len(list[l]) \in Nat
      BY <2>1, <3>1
    <3> QED BY <3>2
  <2>3. \A i \in DOMAIN list[l] : list[l][i].at = 0
    BY <2>0
  <2>4. InOrder(l, list[l])
    <3>1. \A i, j \in DOMAIN list[l] : i < j => list[l][i].id # list[l][j].id
      BY <2>1, <2>2, AsManyIds
    <3> QED BY <2>3, <3>1 DEF InOrder
  <2> QED BY <2>1, <2>2, <2>3, <2>4
<1>3. \A l \in List : NoYounger(list[l], now)
  BY <1>2 DEF NoYounger, Init
<1>4. ReadInOrder
  BY ListAssumption DEF ReadInOrder, Init, InOrder, NoYounger
<1>5. NotYetRecorded
  <2>1. \A c \in Call : snap[c] = <<>>
    BY DEF Init
  <2> QED BY <2>1, ListAssumption DEF NotYetRecorded, Init, Ids
<1> QED BY <1>1, <1>2, <1>3, <1>4, <1>5 DEF OrderInv, WellFormed

\* A step of one call keeps the order invariant if what it writes fits, what it
\* has read is in order, and it records only its own ticket.
LEMMA OrderStep ==
  ASSUME OrderInv, [Next]_vars
  PROVE  OrderInv'
<1>0. /\ TypeOK /\ WellFormed /\ ReadInOrder /\ NotYetRecorded
      /\ \A l \in List : NoYounger(list[l], now)
      /\ \A c \in Call : ListOf(c) \in List
      /\ now \in Nat /\ MaxTime \in Nat /\ 0 \in 0..MaxTime
  BY ListOfCall, ListAssumption DEF OrderInv, TypeOK
<1>e. \A l : <<>> \in Seq(A!Entry) /\ Len(<<>>) <= Limit /\ InOrder(l, <<>>) /\ NoYounger(<<>>, 0) /\ Ids(<<>>) = {}
  BY ListAssumption DEF InOrder, NoYounger, Ids
<1>1. ASSUME NEW c \in Call, Request(c) PROVE OrderInv'
  <2>1. TypeOK'
    BY <1>0, TypeStep
  <2>2. UNCHANGED <<list, snap, stamp, now>> /\ pc[c] = "idle"
        /\ \A d \in Call \ {c} : pc'[d] = pc[d]
    BY <1>0, <1>1 DEF Request, Goto, TypeOK
  <2> QED BY <1>0, <2>1, <2>2 DEF OrderInv, WellFormed, ReadInOrder, NotYetRecorded, ListOf
<1>2. ASSUME NEW c \in Call, Read(c) PROVE OrderInv'
  <2>1. TypeOK'
    BY <1>0, TypeStep
  <2>2. /\ UNCHANGED <<list, now>> /\ pc[c] = "read" /\ stamp'[c] = now
        /\ snap'[c] \in {list[ListOf(c)], <<>>}
        /\ \A d \in Call \ {c} : pc'[d] = pc[d] /\ snap'[d] = snap[d] /\ stamp'[d] = stamp[d]
    BY <1>0, <1>2 DEF Read, Goto, TypeOK
  <2>3. ReadInOrder'
    <3>1. ASSUME NEW d \in Call
          PROVE  /\ snap'[d] \in Seq(A!Entry) /\ Len(snap'[d]) <= Limit /\ InOrder(ListOf(d), snap'[d])
                 /\ NoYounger(snap'[d], stamp'[d]) /\ stamp'[d] <= now
      <4>1. CASE d = c
        <5>1. NoYounger(<<>>, now) /\ now <= now
          BY <1>0 DEF NoYounger
        <5>2. /\ list[ListOf(d)] \in Seq(A!Entry) /\ Len(list[ListOf(d)]) <= Limit
              /\ InOrder(ListOf(d), list[ListOf(d)])
              /\ NoYounger(list[ListOf(d)], now)
          BY <1>0 DEF WellFormed
        <5> QED BY <1>e, <2>2, <4>1, <5>1, <5>2
      <4>2. CASE d # c
        BY <1>0, <2>2, <4>2 DEF ReadInOrder
      <4> QED BY <4>1, <4>2
    <3> QED BY <2>2, <3>1 DEF ReadInOrder, ListOf
  <2>4. NotYetRecorded'
    <3>1. \A d \in Call : Ids(snap'[d]) \subseteq Ids(snap[d]) \cup Ids(list[ListOf(d)])
      BY <1>e, <2>2
    <3>2. \A b \in Call : pc'[b] \in {"idle", "read", "write"} => pc[b] \in {"idle", "read", "write"}
      BY <2>2
    <3>3. ASSUME NEW b \in Call, KindOf[b] = "create", pc'[b] \in {"idle", "read", "write"}
          PROVE  /\ IdOf[b] \notin Ids(list[ListOf(b)])
                 /\ \A d \in Call : ListOf(d) = ListOf(b) => IdOf[b] \notin Ids(snap'[d])
      BY <1>0, <3>1, <3>2, <3>3 DEF NotYetRecorded
    <3> QED BY <2>2, <3>3 DEF NotYetRecorded, ListOf, Ids
  <2>5. WellFormed' /\ \A l \in List : NoYounger(list'[l], now')
    BY <1>0, <2>2 DEF WellFormed
  <2> QED BY <2>1, <2>3, <2>4, <2>5 DEF OrderInv
<1>3. ASSUME NEW c \in Call, Write(c) PROVE OrderInv'
  <2> DEFINE k == ListOf(c)
             e == [id |-> IdOf[c], at |-> stamp[c]]
  <2>1. TypeOK'
    BY <1>0, TypeStep
  <2>2. /\ UNCHANGED now /\ pc[c] = "write" /\ pc'[c] \in {"check", "done"}
        /\ snap'[c] = <<>> /\ stamp'[c] = 0
        /\ \A d \in Call \ {c} : pc'[d] = pc[d] /\ snap'[d] = snap[d] /\ stamp'[d] = stamp[d]
        /\ \A l \in List \ {k} : list'[l] = list[l]
        /\ list'[k] \in {list[k], Updated(c)}
    BY <1>0, <1>3 DEF Write, Goto, TypeOK
  <2>3. Fits(k, Updated(c), snap[c], e, now)
    BY <2>2, UpdateFits
  <2>4. /\ Updated(c) \in Seq(A!Entry) /\ Len(Updated(c)) <= Limit
        /\ InOrder(k, Updated(c)) /\ NoYounger(Updated(c), now)
        /\ Ids(Updated(c)) \subseteq Ids(snap[c]) \cup {IdOf[c]}
    BY <2>3 DEF Fits
  <2> HIDE DEF e, k
  <2>5. /\ WellFormed'
        /\ \A l \in List : NoYounger(list'[l], now')
    <3>1. ASSUME NEW l \in List
          PROVE  /\ list'[l] \in Seq(A!Entry) /\ Len(list'[l]) <= Limit /\ InOrder(l, list'[l])
                 /\ NoYounger(list'[l], now')
      <4>1. CASE list'[l] = list[l]
        BY <1>0, <2>2, <4>1 DEF WellFormed
      <4>2. CASE l = k /\ list'[k] = Updated(c)
        BY <2>2, <2>4, <4>2
      <4> QED BY <2>2, <4>1, <4>2
    <3> QED BY <3>1 DEF WellFormed
  <2>6. ReadInOrder'
    <3>1. ASSUME NEW d \in Call
          PROVE  /\ snap'[d] \in Seq(A!Entry) /\ Len(snap'[d]) <= Limit /\ InOrder(ListOf(d), snap'[d])
                 /\ NoYounger(snap'[d], stamp'[d]) /\ stamp'[d] <= now
      <4>1. CASE d = c
        <5>1. snap'[d] = <<>> /\ stamp'[d] = 0 /\ 0 <= now
          BY <1>0, <2>2, <4>1
        <5> QED BY <1>e, <5>1
      <4>2. CASE d # c
        BY <1>0, <2>2, <4>2 DEF ReadInOrder
      <4> QED BY <4>1, <4>2
    <3> QED BY <2>2, <3>1 DEF ReadInOrder, ListOf
  <2>7. NotYetRecorded'
    <3>1. ASSUME NEW b \in Call, KindOf[b] = "create", pc'[b] \in {"idle", "read", "write"}
          PROVE  /\ IdOf[b] \notin Ids(list'[ListOf(b)])
                 /\ \A d \in Call : ListOf(d) = ListOf(b) => IdOf[b] \notin Ids(snap'[d])
      <4>1. b # c /\ pc[b] \in {"idle", "read", "write"}
        BY <2>2, <3>1
      <4>2. /\ IdOf[b] \notin Ids(list[ListOf(b)])
            /\ \A d \in Call : ListOf(d) = ListOf(b) => IdOf[b] \notin Ids(snap[d])
        BY <1>0, <3>1, <4>1 DEF NotYetRecorded
      <4>3. ListOf(b) = k => IdOf[b] # IdOf[c]
        <5>1. ListOf(b) = k => KindOf[c] = "create"
          BY <3>1, ListAssumption DEF ListOf, k
        <5> QED BY <3>1, <4>1, <5>1, ListAssumption
      <4>4. ListOf(b) = k => IdOf[b] \notin Ids(Updated(c))
        BY <2>4, <4>2, <4>3 DEF k
      <4>5. IdOf[b] \notin Ids(list'[ListOf(b)])
        BY <1>0, <2>2, <4>2, <4>4
      <4>6. \A d \in Call : Ids(snap'[d]) \subseteq Ids(snap[d])
        BY <1>e, <2>2
      <4> QED BY <4>2, <4>5, <4>6
    <3> QED BY <3>1 DEF NotYetRecorded, ListOf, Ids
  <2> QED BY <2>1, <2>5, <2>6, <2>7 DEF OrderInv
<1>4. ASSUME NEW c \in Call, Check(c) PROVE OrderInv'
  <2>1. TypeOK'
    BY <1>0, TypeStep
  <2>2. UNCHANGED <<list, snap, stamp, now>> /\ pc'[c] \in {"done", "unsure"}
        /\ \A d \in Call \ {c} : pc'[d] = pc[d]
    BY <1>0, <1>4 DEF Check, Goto, TypeOK
  <2> QED BY <1>0, <2>1, <2>2 DEF OrderInv, WellFormed, ReadInOrder, NotYetRecorded, ListOf
<1>5. ASSUME NEW c \in Call, Crash(c) PROVE OrderInv'
  <2>1. TypeOK'
    BY <1>0, TypeStep
  <2>2. /\ UNCHANGED <<list, now>> /\ pc'[c] \in {"cut", "dead"} /\ snap'[c] = <<>> /\ stamp'[c] = 0
        /\ \A d \in Call \ {c} : pc'[d] = pc[d] /\ snap'[d] = snap[d] /\ stamp'[d] = stamp[d]
    BY <1>0, <1>5 DEF Crash, Goto, TypeOK
  <2>3. ReadInOrder'
    <3>1. ASSUME NEW d \in Call
          PROVE  /\ snap'[d] \in Seq(A!Entry) /\ Len(snap'[d]) <= Limit /\ InOrder(ListOf(d), snap'[d])
                 /\ NoYounger(snap'[d], stamp'[d]) /\ stamp'[d] <= now
      <4>1. CASE d = c
        <5>1. snap'[d] = <<>> /\ stamp'[d] = 0 /\ 0 <= now
          BY <1>0, <2>2, <4>1
        <5> QED BY <1>e, <5>1
      <4>2. CASE d # c
        BY <1>0, <2>2, <4>2 DEF ReadInOrder
      <4> QED BY <4>1, <4>2
    <3> QED BY <2>2, <3>1 DEF ReadInOrder, ListOf
  <2>4. NotYetRecorded'
    <3>1. \A d \in Call : Ids(snap'[d]) \subseteq Ids(snap[d])
      BY <1>e, <2>2
    <3>2. \A b \in Call : pc'[b] \in {"idle", "read", "write"} => pc[b] \in {"idle", "read", "write"}
      BY <2>2
    <3>3. ASSUME NEW b \in Call, KindOf[b] = "create", pc'[b] \in {"idle", "read", "write"}
          PROVE  /\ IdOf[b] \notin Ids(list'[ListOf(b)])
                 /\ \A d \in Call : ListOf(d) = ListOf(b) => IdOf[b] \notin Ids(snap'[d])
      BY <1>0, <2>2, <3>1, <3>2, <3>3 DEF NotYetRecorded
    <3> QED BY <3>3 DEF NotYetRecorded, ListOf, Ids
  <2>5. WellFormed' /\ \A l \in List : NoYounger(list'[l], now')
    BY <1>0, <2>2 DEF WellFormed
  <2> QED BY <2>1, <2>3, <2>4, <2>5 DEF OrderInv
<1>6. CASE Tick
  <2>1. TypeOK' /\ UNCHANGED <<list, pc, snap, stamp>> /\ now' = now + 1
    BY <1>0, <1>6, TypeStep DEF Tick
  <2>2. \A l \in List : NoYounger(list'[l], now')
    <3> SUFFICES ASSUME NEW l \in List, NEW i \in DOMAIN list[l] PROVE list[l][i].at <= now + 1
      BY <2>1 DEF NoYounger
    <3>1. list[l][i] \in A!Entry
      BY <1>0 DEF WellFormed
    <3>2. list[l][i].at \in Nat /\ list[l][i].at <= now
      BY <1>0, <3>1 DEF NoYounger, A!Entry
    <3> QED BY <1>0, <3>2
  <2>3. \A c \in Call : stamp[c] <= now + 1
    BY <1>0 DEF ReadInOrder, TypeOK
  <2> QED BY <1>0, <2>1, <2>2, <2>3 DEF OrderInv, WellFormed, ReadInOrder, NotYetRecorded, ListOf
<1>7. CASE UNCHANGED vars
  BY <1>0, <1>7 DEF vars, TypeOK, OrderInv, WellFormed, ReadInOrder, NotYetRecorded, ListOf
<1> QED BY <1>1, <1>2, <1>3, <1>4, <1>5, <1>6, <1>7 DEF Next

\* However calls overlap, fail or crash, what is read and written stays in
\* order, because an entry is stamped after the list under it was read and a
\* ticket is recorded once (favorites.go:49-81, mapping.go:18-35).
THEOREM OrderInvariant == Spec => []OrderInv
<1> QED BY OrderInit, OrderStep, PTL DEF Spec

\* Lost updates included, a list holds an id once, keeps within its limit and
\* is in order (favorites.go:12-13, mapping.go:28-31 and 37-38).
THEOREM ListsAreWellFormed == Spec => []WellFormed
<1>1. OrderInv => WellFormed
  BY DEF OrderInv
<1> QED BY <1>1, OrderInvariant, PTL

-----------------------------------------------------------------------------
(* What a write keeps of the others' changes.                                 *)

\* t is the first n entries of s without those about x: none is missing, and
\* there are n of them only if none was about x.
Keeps(t, s, n, x) ==
  /\ \A q \in 1..n : s[q].id # x => \E p \in DOMAIN t : t[p] = s[q]
  /\ Len(t) <= n
  /\ (\E q \in 1..n : s[q].id = x) => Len(t) < n
  /\ (\A q \in 1..n : s[q].id # x) => Len(t) = n /\ \A q \in 1..n : t[q] = s[q]

\* Without keeps the entries of all other ids (favorites.go:56-61, 70-77).
LEMMA WithoutKeeps ==
  ASSUME NEW E, NEW s \in Seq(E), NEW x
  PROVE  Keeps(A!Without(s, x), s, Len(s), x)
<1>0. PICK k : Scans(k, E, s, x) /\ A!Without(s, x) = k[Len(s)]
  BY WithoutSteps
<1>1. /\ k \in [0..Len(s) -> Seq(E)]
      /\ k[0] = <<>>
      /\ \A i \in 1..Len(s) : k[i] = IF s[i].id = x THEN k[i - 1] ELSE Append(k[i - 1], s[i])
  BY <1>0 DEF Scans
<1> DEFINE S == {n \in Nat : n <= Len(s) => Keeps(k[n], s, n, x)}
<1>2. 0 \in S
  BY <1>1 DEF Keeps
<1>3. ASSUME NEW n \in Nat, n \in S PROVE n + 1 \in S
  <2> SUFFICES ASSUME n + 1 <= Len(s) PROVE Keeps(k[n + 1], s, n + 1, x)
    OBVIOUS
  <2> DEFINE t == k[n]
             z == k[n + 1]
  <2>1. Keeps(t, s, n, x) /\ t \in Seq(E) /\ Len(s) \in Nat /\ s[n + 1] \in E
    BY <1>1, <1>3
  <2>2. z = IF s[n + 1].id = x THEN t ELSE Append(t, s[n + 1])
    <3>1. n + 1 \in 1..Len(s) /\ (n + 1) - 1 = n
      BY <2>1
    <3> QED BY <1>1, <3>1
  <2> HIDE DEF t, z
  <2>3. n + 1 \in 1..(n + 1) /\ \A q \in 1..(n + 1) : q = n + 1 \/ q \in 1..n
    OBVIOUS
  <2>4. ASSUME s[n + 1].id = x PROVE Keeps(z, s, n + 1, x)
    <3>1. z = t /\ Len(t) \in Nat
      BY <2>1, <2>2, <2>4
    <3>2. \A q \in 1..(n + 1) : s[q].id # x => \E p \in DOMAIN z : z[p] = s[q]
      BY <2>1, <2>3, <2>4, <3>1 DEF Keeps
    <3>3. Len(z) <= n + 1 /\ Len(z) < n + 1
      BY <2>1, <3>1 DEF Keeps
    <3>4. ~ \A q \in 1..(n + 1) : s[q].id # x
      BY <2>3, <2>4
    <3> QED BY <3>2, <3>3, <3>4 DEF Keeps
  <2>5. ASSUME s[n + 1].id # x PROVE Keeps(z, s, n + 1, x)
    <3>1. /\ Len(t) \in Nat /\ Len(z) = Len(t) + 1
          /\ DOMAIN t = 1..Len(t) /\ DOMAIN z = 1..(Len(t) + 1)
          /\ z[Len(t) + 1] = s[n + 1] /\ \A p \in DOMAIN t : z[p] = t[p]
      BY <2>1, <2>2, <2>5
    <3>2. \A q \in 1..(n + 1) : s[q].id # x => \E p \in DOMAIN z : z[p] = s[q]
      <4> SUFFICES ASSUME NEW q \in 1..(n + 1), s[q].id # x PROVE \E p \in DOMAIN z : z[p] = s[q]
        OBVIOUS
      <4>1. CASE q = n + 1
        BY <3>1, <4>1
      <4>2. CASE q \in 1..n
        <5>1. PICK p \in DOMAIN t : t[p] = s[q]
          BY <2>1, <4>2 DEF Keeps
        <5>2. p \in DOMAIN z /\ z[p] = s[q]
          BY <3>1, <5>1
        <5> QED BY <5>2
      <4> QED BY <2>3, <4>1, <4>2
    <3>3. Len(t) <= n
      BY <2>1 DEF Keeps
    <3>4. (\E q \in 1..(n + 1) : s[q].id = x) => Len(t) < n
      BY <2>1, <2>3, <2>5 DEF Keeps
    <3>5. ASSUME \A q \in 1..(n + 1) : s[q].id # x
          PROVE  Len(t) = n /\ \A q \in 1..(n + 1) : z[q] = s[q]
      <4>1. Len(t) = n /\ \A q \in 1..n : t[q] = s[q]
        BY <2>1, <3>5 DEF Keeps
      <4>2. ASSUME NEW q \in 1..(n + 1) PROVE z[q] = s[q]
        <5>1. CASE q = n + 1
          BY <3>1, <4>1, <5>1
        <5>2. CASE q \in 1..n
          <6>1. q \in DOMAIN t /\ t[q] = s[q]
            BY <3>1, <4>1, <5>2
          <6> QED BY <3>1, <6>1
        <5> QED BY <2>3, <5>1, <5>2
      <4> QED BY <4>1, <4>2
    <3>6. Len(z) <= n + 1 /\ (Len(t) < n => Len(z) < n + 1) /\ (Len(t) = n => Len(z) = n + 1)
      BY <3>1, <3>3
    <3>7. (\E q \in 1..(n + 1) : s[q].id = x) => Len(z) < n + 1
      BY <3>4, <3>6
    <3>8. (\A q \in 1..(n + 1) : s[q].id # x) => Len(z) = n + 1 /\ \A q \in 1..(n + 1) : z[q] = s[q]
      BY <3>5, <3>6
    <3> QED BY <3>2, <3>6, <3>7, <3>8 DEF Keeps
  <2> QED BY <2>4, <2>5 DEF z
<1>4. Len(s) \in S
  <2> HIDE DEF S
  <2>1. Len(s) \in Nat
    OBVIOUS
  <2> QED BY <1>2, <1>3, <2>1, SetInduction
<1> QED BY <1>0, <1>4

\* A list that fits is not cut.
LEMMA FitsUncut ==
  ASSUME NEW E, NEW s \in Seq(E), Len(s) <= Limit
  PROVE  A!Front(s) = s /\ A!Back(s) = s
<1>1. Len(s) \in Nat /\ Limit \in Nat \ {0}
  BY ListAssumption
<1>2. A!Smaller(Len(s), Limit) = Len(s)
  BY <1>1 DEF A!Smaller
<1>3. Len(s) - Len(s) + 1 = 1 /\ SubSeq(s, 1, Len(s)) = s
  BY <1>1, SubSeqFull
<1> QED BY <1>2, <1>3 DEF A!Front, A!Back

\* What a call writes, put down in terms of what it has read.
LEMMA WhatIsWritten ==
  ASSUME OrderInv, NEW d \in Call, pc[d] = "write"
  PROVE  LET s == snap[d]
             e == [id |-> IdOf[d], at |-> stamp[d]]
             w == A!Without(s, e.id)
             add == KindOf[d] = "view" \/ (KindOf[d] = "post" /\ ~ A!Has(s, e.id))
         IN  /\ e \in A!Entry /\ e.id = IdOf[d] /\ s \in Seq(A!Entry) /\ Len(s) <= Limit
             /\ w \in Seq(A!Entry) /\ ~ A!Has(w, e.id)
             /\ KindOf[d] = "create" => Updated(d) = A!Back(Append(s, e))
             /\ add => Updated(d) = A!Front(<<e>> \o w)
             /\ KindOf[d] # "create" /\ ~ add => Updated(d) = A!Front(w)
<1> DEFINE s == snap[d]
           e == [id |-> IdOf[d], at |-> stamp[d]]
           w == A!Without(s, e.id)
           add == KindOf[d] = "view" \/ (KindOf[d] = "post" /\ ~ A!Has(s, e.id))
<1>1. /\ KindOf[d] \in {"view", "post", "delete", "create"}
      /\ e \in A!Entry /\ e.id = IdOf[d] /\ s \in Seq(A!Entry) /\ Len(s) <= Limit
  BY ListAssumption DEF OrderInv, TypeOK, ReadInOrder, A!Entry
<1>2. w \in Seq(A!Entry) /\ ~ A!Has(w, e.id)
  BY <1>1, WithoutPicks DEF Picks, A!Has
<1>3. KindOf[d] = "create" => Updated(d) = A!Back(Append(s, e))
  BY <1>1 DEF Updated, Recorded
<1>4. add => Updated(d) = A!Front(<<e>> \o w)
  BY <1>1 DEF Updated, Viewed, Toggled
<1>5. KindOf[d] # "create" /\ ~ add => Updated(d) = A!Front(w)
  BY <1>1 DEF Updated, Toggled
<1> QED BY <1>1, <1>2, <1>3, <1>4, <1>5

\* What a call writes is what it was asked for, unless it posts a favorite
\* that it has found.
LEMMA OwnHolds ==
  ASSUME OrderInv, NEW c \in Call, pc[c] = "write",
         ~ (KindOf[c] = "post" /\ A!Has(snap[c], IdOf[c]))
  PROVE  Holds(c, Updated(c))
<1> DEFINE s == snap[c]
           e == [id |-> IdOf[c], at |-> stamp[c]]
           w == A!Without(s, e.id)
           f == <<e>> \o w
           b == Append(s, e)
<1>1. /\ e \in A!Entry /\ e.id = IdOf[c] /\ s \in Seq(A!Entry)
      /\ w \in Seq(A!Entry) /\ ~ A!Has(w, e.id)
  BY WhatIsWritten
<1>4. /\ KindOf[c] \in {"view", "post", "delete", "create"}
      /\ KindOf[c] = "create" => Updated(c) = A!Back(b)
      /\ KindOf[c] \in {"view", "post"} => Updated(c) = A!Front(f)
      /\ KindOf[c] = "delete" => Updated(c) = A!Front(w)
  BY WhatIsWritten, ListAssumption
<1> HIDE DEF e, w, s
<1>5. A!Has(A!Front(f), e.id)
  <2>1. f \in Seq(A!Entry) /\ f # <<>> /\ f[1] = e
    BY <1>1
  <2> HIDE DEF f
  <2>2. 1 \in DOMAIN A!Front(f) /\ A!Front(f)[1] = e
    BY <2>1, FrontCuts
  <2> QED BY <2>2 DEF A!Has
<1>6. A!Has(A!Back(b), e.id)
  <2>1. b \in Seq(A!Entry) /\ b # <<>> /\ b[Len(b)] = e
    BY <1>1
  <2> HIDE DEF b
  <2> QED BY <2>1, BackCuts DEF A!Has
<1>7. ~ A!Has(A!Front(w), e.id)
  BY <1>1, FrontCuts DEF A!Has
<1> QED BY <1>1, <1>4, <1>5, <1>6, <1>7 DEF Holds

\* An entry stays when another is put in front of the list or behind it, if it
\* is not the oldest of a full list.
LEMMA RoomInFront ==
  ASSUME NEW s \in Seq(A!Entry), NEW e \in A!Entry, NEW x, A!Has(s, x), Len(s) <= Limit,
         Len(s) = Limit => x # s[Limit].id
  PROVE  A!Has(A!Front(<<e>> \o s), x)
<1> DEFINE z == <<e>> \o s
<1>1. /\ z \in Seq(A!Entry) /\ Len(s) \in Nat /\ Len(z) = Len(s) + 1
      /\ Limit \in Nat \ {0}
      /\ \A i \in DOMAIN s : z[i + 1] = s[i]
  BY ListAssumption
<1>2. PICK i \in DOMAIN s : s[i].id = x
  BY DEF A!Has
<1>3. i \in 1..Len(s) /\ i + 1 <= Limit
  BY <1>1, <1>2
<1>4. i + 1 \in 1..A!Smaller(Len(z), Limit) /\ A!Smaller(Len(z), Limit) \in Nat
      /\ A!Smaller(Len(z), Limit) <= Len(z)
  BY <1>1, <1>3 DEF A!Smaller
<1> HIDE DEF z
<1>5. i + 1 \in DOMAIN A!Front(z) /\ A!Front(z)[i + 1] = z[i + 1]
  BY <1>1, <1>4 DEF A!Front
<1> QED BY <1>1, <1>2, <1>5 DEF A!Has, z

LEMMA RoomBehind ==
  ASSUME NEW s \in Seq(A!Entry), NEW e \in A!Entry, NEW x, A!Has(s, x), Len(s) <= Limit,
         Len(s) = Limit => x # s[1].id
  PROVE  A!Has(A!Back(Append(s, e)), x)
<1> DEFINE z == Append(s, e)
<1>1. /\ z \in Seq(A!Entry) /\ Len(s) \in Nat /\ Len(z) = Len(s) + 1
      /\ DOMAIN z = 1..Len(z)
      /\ Limit \in Nat \ {0}
      /\ \A i \in DOMAIN s : z[i] = s[i]
  BY ListAssumption
<1>2. PICK i \in DOMAIN s : s[i].id = x
  BY DEF A!Has
<1>3. i \in 1..Len(s)
  BY <1>1, <1>2
<1> HIDE DEF z
<1>4. CASE Len(s) < Limit
  <2>1. A!Back(z) = z
    BY <1>1, <1>4, FitsUncut
  <2>2. i \in DOMAIN z /\ z[i].id = x
    BY <1>1, <1>2, <1>3
  <2> QED BY <2>1, <2>2 DEF A!Has, z
<1>5. CASE Len(s) = Limit
  <2>1. i >= 2
    BY <1>1, <1>2, <1>3, <1>5
  <2>2. A!Back(z) = SubSeq(z, 2, Len(z))
    BY <1>1, <1>5 DEF A!Back, A!Smaller
  <2>3. /\ DOMAIN SubSeq(z, 2, Len(z)) = 1..Limit
        /\ \A j \in 1..Limit : SubSeq(z, 2, Len(z))[j] = z[j + 1]
    BY <1>1, <1>5
  <2>4. i - 1 \in 1..Limit /\ (i - 1) + 1 = i
    BY <1>1, <1>3, <1>5, <2>1
  <2>5. SubSeq(z, 2, Len(z))[i - 1].id = x
    BY <1>1, <1>2, <2>3, <2>4
  <2> QED BY <2>2, <2>3, <2>4, <2>5 DEF A!Has, z
<1> QED BY <1>1, <1>4, <1>5

\* A write keeps the change of another call that it has read, unless it is
\* asked for the opposite or has no room for it.
LEMMA OthersHold ==
  ASSUME OrderInv, NEW c \in Call, NEW d \in Call, ListOf(c) = ListOf(d), pc[d] = "write",
         ~ Opposes(d, c), ~ PushesOut(d, c), Holds(c, snap[d])
  PROVE  Holds(c, Updated(d))
<1> DEFINE s == snap[d]
           x == IdOf[c]
           e == [id |-> IdOf[d], at |-> stamp[d]]
           w == A!Without(s, e.id)
           add == KindOf[d] = "view" \/ (KindOf[d] = "post" /\ ~ A!Has(s, e.id))
<1>1. /\ e \in A!Entry /\ e.id = IdOf[d] /\ s \in Seq(A!Entry) /\ Len(s) <= Limit
      /\ w \in Seq(A!Entry) /\ ~ A!Has(w, e.id)
      /\ KindOf[d] = "create" => Updated(d) = A!Back(Append(s, e))
      /\ add => Updated(d) = A!Front(<<e>> \o w)
      /\ KindOf[d] # "create" /\ ~ add => Updated(d) = A!Front(w)
  BY WhatIsWritten
<1>2. /\ KindOf[c] \in {"view", "post", "delete", "create"}
      /\ KindOf[d] \in {"view", "post", "delete", "create"}
      /\ Limit \in Nat \ {0}
  BY ListAssumption
<1>3. IsToggle(c) <=> IsToggle(d)
  BY <1>2 DEF ListOf, IsToggle
<1>4. CASE KindOf[c] = "delete"
  <2>1. ~ A!Has(s, x)
    BY <1>4 DEF Holds
  <2>2. CASE x = IdOf[d]
    <3>1. KindOf[d] = "delete"
      BY <1>3, <1>4, <2>2 DEF Opposes, IsToggle
    <3>2. ~ A!Has(Updated(d), IdOf[d])
      BY <3>1, OwnHolds DEF Holds
    <3> QED BY <1>4, <2>2, <3>2 DEF Holds
  <2>3. CASE x # IdOf[d]
    <3>1. Ids(Updated(d)) \subseteq Ids(s) \cup {IdOf[d]}
      BY <1>1, UpdateFits DEF Fits
    <3>2. x \notin Ids(Updated(d))
      BY <2>1, <2>3, <3>1 DEF Ids, A!Has
    <3> QED BY <1>4, <3>2 DEF Holds, Ids, A!Has
  <2> QED BY <2>2, <2>3
<1>5. CASE KindOf[c] # "delete"
  <2>1. A!Has(s, x)
    BY <1>5 DEF Holds
  <2> SUFFICES A!Has(Updated(d), x)
    BY <1>5 DEF Holds
  <2>2. CASE x = IdOf[d]
    <3>1. KindOf[d] \in {"view", "create"}
      BY <1>2, <1>5, <2>2 DEF Opposes, IsToggle
    <3> QED BY <2>2, <3>1, OwnHolds DEF Holds
  <2>3. CASE x # IdOf[d]
    <3>0. Keeps(w, s, Len(s), e.id) /\ Len(w) \in Nat /\ Len(s) \in Nat
      BY <1>1, WithoutKeeps
    <3> HIDE DEF w, e, s
    <3>1. A!Has(w, x)
      <4>1. PICK q \in DOMAIN s : s[q].id = x
        BY <2>1 DEF A!Has
      <4>2. q \in 1..Len(s) /\ s[q].id # e.id
        BY <1>1, <2>3, <4>1
      <4>3. PICK p \in DOMAIN w : w[p] = s[q]
        BY <3>0, <4>2 DEF Keeps
      <4> QED BY <4>1, <4>3 DEF A!Has
    <3>2. Len(w) <= Limit
      BY <1>1, <1>2, <3>0 DEF Keeps
    <3>3. CASE KindOf[d] = "create"
      <4>1. ~ A!Has(s, IdOf[d])
        BY <3>3 DEF OrderInv, NotYetRecorded, Ids, A!Has, s
      <4>2. Len(s) = Limit => x # s[1].id
        BY <3>3, <4>1 DEF PushesOut, s
      <4> QED BY <1>1, <2>1, <3>3, <4>2, RoomBehind
    <3>4. CASE add
      <4>1. Len(w) = Limit => x # w[Limit].id
        <5> SUFFICES ASSUME Len(w) = Limit PROVE x # w[Limit].id
          OBVIOUS
        <5>1. Len(s) = Limit
          BY <1>1, <1>2, <3>0 DEF Keeps
        <5>2. \A q \in 1..Len(s) : s[q].id # e.id
          BY <1>2, <3>0, <5>1 DEF Keeps
        <5>3. \A q \in 1..Len(s) : w[q] = s[q]
          BY <3>0, <5>2 DEF Keeps
        <5>4. w[Limit] = s[Limit]
          BY <1>2, <5>1, <5>3
        <5>5. ~ A!Has(s, IdOf[d])
          BY <1>1, <5>2 DEF A!Has
        <5>6. KindOf[d] \notin {"delete", "create"}
          BY <3>4
        <5>7. x # s[Limit].id
          BY <5>1, <5>5, <5>6 DEF PushesOut, s
        <5> QED BY <5>4, <5>7
      <4>2. A!Has(A!Front(<<e>> \o w), x)
        BY <1>1, <3>1, <3>2, <4>1, RoomInFront
      <4> QED BY <1>1, <3>4, <4>2
    <3>5. CASE KindOf[d] # "create" /\ ~ add
      <4>1. A!Front(w) = w
        BY <1>1, <3>2, FitsUncut
      <4> QED BY <1>1, <3>1, <3>5, <4>1
    <3> QED BY <3>3, <3>4, <3>5
  <2> QED BY <2>2, <2>3
<1> QED BY <1>4, <1>5

-----------------------------------------------------------------------------
(* Changes stay, and answers tell of them.                                    *)

ChangeInv == CopyShowsTheRest /\ KeptUnlessUndone /\ AnswersTell

LEMMA ChangeInit == Init => ChangeInv
  BY DEF Init, ChangeInv, CopyShowsTheRest, KeptUnlessUndone, AnswersTell, Written

\* A step that writes nothing, of a call that reads nothing either.
LEMMA ChangeFrame ==
  ASSUME ChangeInv, UNCHANGED list, undone \subseteq undone',
         \A d \in Call : Written(d)' => Written(d),
         \A d \in Call : pc'[d] = "write" =>
           pc[d] = "write" /\ snap'[d] = snap[d] /\ missed'[d] = missed[d],
         \A d \in Call : pc'[d] = "done" => pc[d] = "done" /\ answer'[d] = answer[d]
  PROVE  ChangeInv'
<1>1. CopyShowsTheRest'
  BY DEF ChangeInv, CopyShowsTheRest, SameList, ListOf, Holds, A!Has
<1>2. KeptUnlessUndone'
  BY DEF ChangeInv, KeptUnlessUndone, ListOf, Holds, A!Has
<1>3. AnswersTell'
  BY DEF ChangeInv, AnswersTell, IsToggle
<1> QED BY <1>1, <1>2, <1>3 DEF ChangeInv

LEMMA ChangeStep ==
  ASSUME OrderInv, ChangeInv, [Next]_vars
  PROVE  ChangeInv'
<1>0. /\ TypeOK /\ CopyShowsTheRest /\ KeptUnlessUndone /\ AnswersTell
      /\ \A c \in Call : ListOf(c) \in List
  BY ListOfCall DEF OrderInv, ChangeInv
<1>1. ASSUME NEW c \in Call, Request(c) PROVE ChangeInv'
  <2>1. /\ UNCHANGED <<list, snap, answer, missed, undone>>
        /\ pc'[c] \in {"read", "failed"} /\ \A d \in Call \ {c} : pc'[d] = pc[d]
    BY <1>0, <1>1 DEF Request, Goto, TypeOK
  <2>2. \A d \in Call : pc'[d] \in {"write", "check", "done", "unsure", "cut"} => pc'[d] = pc[d]
    BY <2>1
  <2> QED BY <2>1, <2>2, ChangeFrame DEF Written
<1>2. ASSUME NEW c \in Call, Read(c) PROVE ChangeInv'
  <2>1. /\ UNCHANGED <<list, answer, undone>> /\ pc[c] = "read" /\ pc'[c] = "write"
        /\ \A d \in Call \ {c} : /\ pc'[d] = pc[d] /\ snap'[d] = snap[d]
                                 /\ missed'[d] = missed[d]
        /\ snap'[c] = list[ListOf(c)] \/ missed'[c] = Call
    BY <1>0, <1>2 DEF Read, Goto, TypeOK
  <2>2. \A d \in Call : Written(d)' => Written(d)
    BY <2>1 DEF Written
  <2>3. CopyShowsTheRest'
    <3> SUFFICES ASSUME NEW d \in Call, pc'[d] = "write", NEW b \in Call, ListOf(b) = ListOf(d),
                        Written(b), b \notin missed'[d] \cup undone
                 PROVE  Holds(b, snap'[d])
      BY <2>1, <2>2 DEF CopyShowsTheRest, SameList, ListOf, Holds, A!Has
    <3>1. CASE d = c
      <4>1. snap'[c] = list[ListOf(b)]
        BY <2>1, <3>1
      <4>2. Holds(b, list[ListOf(b)])
        BY <1>0 DEF KeptUnlessUndone
      <4> QED BY <3>1, <4>1, <4>2
    <3>2. CASE d # c
      BY <1>0, <2>1, <3>2 DEF CopyShowsTheRest, SameList
    <3> QED BY <3>1, <3>2
  <2>4. KeptUnlessUndone'
    BY <1>0, <2>1, <2>2 DEF KeptUnlessUndone, ListOf, Holds, A!Has
  <2>5. AnswersTell'
    BY <1>0, <2>1 DEF AnswersTell, IsToggle
  <2> QED BY <2>3, <2>4, <2>5 DEF ChangeInv
<1>3. ASSUME NEW c \in Call, Write(c) PROVE ChangeInv'
  <2>1. /\ pc[c] = "write" /\ UNCHANGED answer
        /\ pc'[c] = IF IsToggle(c) THEN "check" ELSE "done"
        /\ \A d \in Call \ {c} : pc'[d] = pc[d] /\ snap'[d] = snap[d]
    BY <1>0, <1>3 DEF Write, Goto, TypeOK
  <2>2. \A d \in Call \ {c} : (Written(d)' <=> Written(d)) /\ missed[d] \subseteq missed'[d]
    BY <1>0, <1>3, <2>1 DEF Write, Written, TypeOK
  <2>3. \A d \in Call \ {c} : ListOf(d) = ListOf(c) /\ pc[d] = "write" => c \in missed'[d]
    BY <1>0, <1>3 DEF Write, SameList, TypeOK
  <2>4. undone \subseteq undone'
    BY <1>3 DEF Write
  <2>5. \/ UNCHANGED list /\ c \in undone'
        \/ /\ list'[ListOf(c)] = Updated(c)
           /\ \A l \in List \ {ListOf(c)} : list'[l] = list[l]
           /\ TakenBack(c) \subseteq undone'
           /\ KindOf[c] = "post" /\ A!Has(snap[c], IdOf[c]) => c \in undone'
    BY <1>0, <1>3 DEF Write, TypeOK
  <2>6. CopyShowsTheRest'
    <3> SUFFICES ASSUME NEW d \in Call, pc'[d] = "write", NEW b \in Call, ListOf(b) = ListOf(d),
                        Written(b)', b \notin missed'[d] \cup undone'
                 PROVE  Holds(b, snap'[d])
      BY DEF CopyShowsTheRest, SameList, ListOf, Holds, A!Has
    <3>1. d # c /\ pc[d] = "write" /\ snap'[d] = snap[d]
      BY <2>1
    <3>2. b # c
      BY <2>3, <3>1
    <3>3. Written(b) /\ b \notin missed[d] \cup undone
      BY <2>2, <2>4, <3>1, <3>2
    <3>4. Holds(b, snap[d])
      BY <1>0, <3>1, <3>3 DEF CopyShowsTheRest, SameList
    <3> QED BY <3>1, <3>4
  <2>7. KeptUnlessUndone'
    <3> SUFFICES ASSUME NEW b \in Call, Written(b)', b \notin undone'
                 PROVE  Holds(b, list'[ListOf(b)])
      BY DEF KeptUnlessUndone, ListOf, Holds, A!Has
    <3>1. CASE b = c
      BY <2>1, <2>5, <3>1, OwnHolds
    <3>2. CASE b # c
      <4>1. Written(b) /\ b \notin undone
        BY <2>2, <2>4, <3>2
      <4>2. Holds(b, list[ListOf(b)])
        BY <1>0, <4>1 DEF KeptUnlessUndone
      <4>3. CASE list'[ListOf(b)] = list[ListOf(b)]
        BY <4>2, <4>3
      <4>4. CASE ListOf(b) = ListOf(c) /\ list'[ListOf(c)] = Updated(c) /\ TakenBack(c) \subseteq undone'
        <5>1. b \notin missed[c] /\ ~ Opposes(c, b) /\ ~ PushesOut(c, b)
          BY <3>2, <4>1, <4>4 DEF TakenBack, SameList
        <5>2. Holds(b, snap[c])
          BY <1>0, <2>1, <4>1, <4>4, <5>1 DEF CopyShowsTheRest, SameList
        <5>3. Holds(b, Updated(c))
          BY <2>1, <4>4, <5>1, <5>2, OthersHold
        <5> QED BY <4>4, <5>3
      <4> QED BY <1>0, <2>5, <4>3, <4>4
    <3> QED BY <3>1, <3>2
  <2>8. AnswersTell'
    <3> SUFFICES ASSUME NEW d \in Call, IsToggle(d), pc'[d] = "done", d \notin undone'
                 PROVE  answer[d] <=> KindOf[d] = "post"
      BY <2>1 DEF AnswersTell, IsToggle
    <3>1. pc[d] = "done" /\ d \notin undone
      BY <2>1, <2>4
    <3> QED BY <1>0, <3>1 DEF AnswersTell
  <2> QED BY <2>6, <2>7, <2>8 DEF ChangeInv
<1>4. ASSUME NEW c \in Call, Check(c) PROVE ChangeInv'
  <2>1. /\ UNCHANGED <<list, snap, missed, undone>> /\ pc[c] = "check"
        /\ pc'[c] \in {"done", "unsure"}
        /\ \A d \in Call \ {c} : pc'[d] = pc[d] /\ answer'[d] = answer[d]
    BY <1>0, <1>4 DEF Check, Goto, TypeOK
  <2>2. pc'[c] = "done" => (answer'[c] <=> A!Has(list[ListOf(c)], IdOf[c]))
    <3>1. CASE /\ answer' = [answer EXCEPT ![c] = A!Has(list[ListOf(c)], IdOf[c])]
      <4>1. answer \in [Call -> BOOLEAN]
        BY <1>0 DEF TypeOK
      <4> QED BY <3>1, <4>1, Zenon
    <3>2. CASE Goto(c, "unsure")
      BY <1>0, <3>2 DEF Goto, TypeOK
    <3> QED BY <1>4, <3>1, <3>2 DEF Check
  <2>3. \A d \in Call : Written(d)' <=> Written(d)
    BY <2>1 DEF Written
  <2>4. CopyShowsTheRest' /\ KeptUnlessUndone'
    <3>1. \A d \in Call : pc'[d] = "write" => pc[d] = "write"
      BY <2>1
    <3> QED BY <1>0, <2>1, <2>3, <3>1
            DEF CopyShowsTheRest, KeptUnlessUndone, SameList, ListOf, Holds, A!Has
  <2>5. AnswersTell'
    <3> SUFFICES ASSUME NEW d \in Call, IsToggle(d), pc'[d] = "done", d \notin undone
                 PROVE  answer'[d] <=> KindOf[d] = "post"
      BY <2>1 DEF AnswersTell, IsToggle
    <3>1. CASE d = c
      <4>1. Holds(c, list[ListOf(c)])
        BY <1>0, <2>1, <3>1 DEF KeptUnlessUndone, Written
      <4>2. KindOf[c] # "delete" <=> KindOf[c] = "post"
        BY <3>1 DEF IsToggle
      <4> QED BY <2>2, <3>1, <4>1, <4>2 DEF Holds
    <3>2. CASE d # c
      <4>1. pc[d] = "done" /\ answer'[d] = answer[d]
        BY <2>1, <3>2
      <4>2. answer[d] <=> KindOf[d] = "post"
        BY <1>0, <4>1 DEF AnswersTell
      <4> QED BY <4>1, <4>2
    <3> QED BY <3>1, <3>2
  <2> QED BY <2>4, <2>5 DEF ChangeInv
<1>5. ASSUME NEW c \in Call, Crash(c) PROVE ChangeInv'
  <2>1. /\ UNCHANGED <<list, answer, undone>>
        /\ pc'[c] = IF pc[c] = "check" THEN "cut" ELSE "dead"
        /\ \A d \in Call \ {c} : pc'[d] = pc[d] /\ snap'[d] = snap[d] /\ missed'[d] = missed[d]
    BY <1>0, <1>5 DEF Crash, Goto, TypeOK
  <2>2. \A d \in Call : Written(d)' => Written(d)
    BY <2>1 DEF Written
  <2> QED BY <2>1, <2>2, ChangeFrame
<1>6. CASE Tick
  BY <1>6, ChangeFrame DEF Tick, Written
<1>7. CASE UNCHANGED vars
  BY <1>7, ChangeFrame DEF vars, Written
<1> QED BY <1>1, <1>2, <1>3, <1>4, <1>5, <1>6, <1>7 DEF Next

\* The invariant of the copies, the changes and the answers.
THEOREM ChangeInvariant == Spec => []ChangeInv
<1> QED BY ChangeInit, ChangeStep, OrderInvariant, PTL DEF Spec

\* The types, and that what a handler has read shows every change made before
\* its KVGet that was not undone (favorites.go:49-81, mapping.go:18-35).
THEOREM ListInvariant == Spec => []ListInv
<1>1. OrderInv /\ ChangeInv => ListInv
  BY DEF OrderInv, ChangeInv, ListInv
<1> QED BY <1>1, OrderInvariant, ChangeInvariant, PTL

\* A change stays on its list until a call that could not see it, opposes it or
\* has no room for it writes (favorites.go:49-81, mapping.go:18-35).
THEOREM ChangesStay == Spec => []KeptUnlessUndone
<1>1. ChangeInv => KeptUnlessUndone
  BY DEF ChangeInv
<1> QED BY <1>1, ChangeInvariant, PTL

\* The answer to a toggle that looked at the list tells what was asked for,
\* unless that had been undone (favorites.go:147-148).
THEOREM AnswersAreTrue == Spec => []AnswersTell
<1>1. ChangeInv => AnswersTell
  BY DEF ChangeInv
<1> QED BY <1>1, ChangeInvariant, PTL

-----------------------------------------------------------------------------
(* The pages of My Tickets cover the tickets.                                 *)

\* f[i] is the first i sequences of ps, one after the other.
Chains(f, E, ps) ==
  /\ f \in [1..Len(ps) -> Seq(E)]
  /\ f[1] = ps[1]
  /\ \A i \in 2..Len(ps) : f[i] = f[i - 1] \o ps[i]

\* FlattenSeq puts them together one by one.
LEMMA FlattenChains ==
  ASSUME NEW E, NEW ps \in Seq(Seq(E)), ps # <<>>, NEW f, Chains(f, E, ps)
  PROVE  FlattenSeq(ps) = f[Len(ps)]
<1> DEFINE N == Len(ps)
           D(k) == [i \in 1..N |-> IF i = 1 THEN ps[i] ELSE k[i - 1] \o ps[i]]
           kk == CHOOSE k : k = D(k)
<1>1. N \in Nat \ {0}
  OBVIOUS
<1>2. f \in [1..N -> Seq(E)] /\ f[1] = ps[1] /\ \A i \in 2..N : f[i] = f[i - 1] \o ps[i]
  BY DEF Chains
<1>3. FlattenSeq(ps) = kk[N]
  <2>1. Len(ps) # 0
    BY <1>1
  <2> QED BY <2>1 DEF FlattenSeq
<1>4. f = D(f)
  <2>1. ASSUME NEW i \in 1..N
        PROVE  f[i] = IF i = 1 THEN ps[i] ELSE f[i - 1] \o ps[i]
    <3>1. i # 1 => i \in 2..N
      BY <1>1
    <3> QED BY <1>2, <3>1
  <2>2. f = [i \in 1..N |-> f[i]]
    BY <1>2
  <2> QED BY <2>1, <2>2
<1>5. kk = D(kk)
  <2> HIDE DEF D
  <2> QED BY <1>4
<1>6. \A i \in 1..N : kk[i] = IF i = 1 THEN ps[i] ELSE kk[i - 1] \o ps[i]
  <2> HIDE DEF kk
  <2> QED BY <1>5
<1> HIDE DEF kk
<1> DEFINE S == {n \in Nat : n \in 1..N => kk[n] = f[n]}
<1>7. 0 \in S
  OBVIOUS
<1>8. ASSUME NEW n \in Nat, n \in S PROVE n + 1 \in S
  <2> SUFFICES ASSUME n + 1 \in 1..N PROVE kk[n + 1] = f[n + 1]
    OBVIOUS
  <2>1. CASE n = 0
    <3>1. kk[1] = ps[1]
      BY <1>1, <1>6
    <3> QED BY <1>2, <2>1, <3>1
  <2>2. CASE n # 0
    <3>1. n \in 1..N /\ n + 1 \in 2..N /\ (n + 1) - 1 = n
      BY <1>1, <2>2
    <3>2. kk[n + 1] = kk[n] \o ps[n + 1] /\ f[n + 1] = f[n] \o ps[n + 1]
      <4>1. n + 1 # 1
        BY <3>1
      <4> QED BY <1>2, <1>6, <3>1, <4>1
    <3> QED BY <1>8, <3>1, <3>2
  <2> QED BY <2>1, <2>2
<1>9. N \in S
  <2> HIDE DEF S, N
  <2> QED BY <1>1, <1>7, <1>8, SetInduction
<1> QED BY <1>1, <1>3, <1>9

\* The first a entries, and the page of k that follows them.
FirstOf(O, a) == SubSeq(O, 1, A!Smaller(a, Len(O)))

PageAfter(O, a, k) ==
  IF a > Len(O) THEN <<>> ELSE SubSeq(O, a + 1, A!Smaller(a + k, Len(O)))

\* A page continues where the pages before it end.
LEMMA NextPart ==
  ASSUME NEW E, NEW O \in Seq(E), NEW k \in Nat \ {0}, NEW a \in Nat
  PROVE  /\ PageAfter(O, a, k) \in Seq(E)
         /\ FirstOf(O, a + k) = FirstOf(O, a) \o PageAfter(O, a, k)
<1> DEFINE p == PageAfter(O, a, k)
           L == Len(O)
           b == A!Smaller(a + k, L)
<1>1. L \in Nat
  OBVIOUS
<1>3. CASE a > L
  <2>1. A!Smaller(a + k, L) = L /\ A!Smaller(a, L) = L /\ p = <<>>
    BY <1>1, <1>3 DEF A!Smaller, PageAfter
  <2>2. SubSeq(O, 1, L) = O
    BY SubSeqFull
  <2>3. O \o p = O
    BY <2>1, ConcatEmptySeq
  <2>4. p \in Seq(E)
    BY <2>1
  <2>5. FirstOf(O, a + k) = O /\ FirstOf(O, a) = O
    BY <2>1, <2>2 DEF FirstOf
  <2> QED BY <2>3, <2>4, <2>5, Zenon
<1>4. CASE a <= L
  <2>1. A!Smaller(a, L) = a /\ b \in Nat /\ a <= b /\ b <= L
    BY <1>1, <1>4 DEF A!Smaller
  <2>2. p = SubSeq(O, a + 1, b)
    <3>1. ~ (a > Len(O))
      BY <1>1, <1>4
    <3> QED BY <3>1, Zenon DEF PageAfter
  <2>0. FirstOf(O, a + k) = SubSeq(O, 1, b) /\ FirstOf(O, a) = SubSeq(O, 1, a)
    BY <2>1 DEF FirstOf
  <2> HIDE DEF b, L
  <2>3. SubSeq(O, a + 1, b) \in Seq(E)
    <3>1. \A i \in (a + 1)..b : O[i] \in E
      BY <1>1, <2>1 DEF L
    <3> QED BY <2>1, <3>1, SubSeqProperties
  <2>4. SubSeq(O, 1, a) \o SubSeq(O, a + 1, b) = SubSeq(O, 1, b)
    <3>1. 1 \in 1..(Len(O) + 1) /\ a \in (1 - 1)..Len(O) /\ b \in a..Len(O)
      BY <1>1, <1>4, <2>1 DEF L
    <3> QED BY <3>1, ConcatAdjacentSubSeq
  <2> QED BY <2>0, <2>2, <2>3, <2>4, Zenon
<1> QED BY <1>1, <1>3, <1>4

\* The pages together are the whole list, if there are enough of them.
LEMMA PagesTogether ==
  ASSUME NEW E, NEW O \in Seq(E), NEW k \in Nat \ {0}, NEW N \in Nat, N >= Len(O), N > 0
  PROVE  FlattenSeq([i \in 1..N |-> PageAfter(O, (i - 1) * k, k)]) = O
<1> DEFINE ps == [i \in 1..N |-> PageAfter(O, (i - 1) * k, k)]
           f == [i \in 1..N |-> FirstOf(O, i * k)]
<1>1. Len(O) \in Nat
  OBVIOUS
<1>2. \A i \in Nat \ {0} : i * k \in Nat /\ (i - 1) * k \in Nat /\ (i - 1) * k + k = i * k
  OBVIOUS
<1>3. ASSUME NEW i \in 1..N
      PROVE  ps[i] \in Seq(E) /\ FirstOf(O, i * k) = FirstOf(O, (i - 1) * k) \o ps[i]
  <2> DEFINE a == (i - 1) * k
  <2>1. a \in Nat /\ a + k = i * k
    BY <1>2
  <2>2. ps[i] = PageAfter(O, a, k)
    OBVIOUS
  <2> HIDE DEF a, ps
  <2>3. PageAfter(O, a, k) \in Seq(E) /\ FirstOf(O, a + k) = FirstOf(O, a) \o PageAfter(O, a, k)
    BY <2>1, NextPart
  <2> QED BY <2>1, <2>2, <2>3 DEF a
<1>4. ps \in [1..N -> Seq(E)]
  BY <1>3
<1>5. ps \in Seq(Seq(E)) /\ Len(ps) = N /\ ps # <<>>
  <2>1. \A T : \A q \in [1..N -> T] : q \in Seq(T) /\ Len(q) = N
    OBVIOUS
  <2>2. ps \in Seq(Seq(E)) /\ Len(ps) = N
    BY <1>4, <2>1, Zenon
  <2>3. 1 \in DOMAIN ps
    BY <1>4
  <2> HIDE DEF ps
  <2>4. ps # <<>>
    BY <2>3
  <2> QED BY <2>2, <2>4
<1>6. f \in [1..N -> Seq(E)]
  <2> SUFFICES ASSUME NEW i \in 1..N PROVE FirstOf(O, i * k) \in Seq(E)
    OBVIOUS
  <2> DEFINE a == i * k
  <2>1. a \in Nat
    BY <1>2
  <2> HIDE DEF a
  <2>2. A!Smaller(a, Len(O)) \in Nat /\ A!Smaller(a, Len(O)) <= Len(O)
    BY <1>1, <2>1 DEF A!Smaller
  <2>3. \A j \in 1..A!Smaller(a, Len(O)) : O[j] \in E
    BY <2>2
  <2>4. FirstOf(O, a) \in Seq(E)
    BY <2>2, <2>3, SubSeqProperties DEF FirstOf
  <2> QED BY <2>4 DEF a
<1>7. f[1] = ps[1]
  <2>1. 1 \in 1..N /\ (1 - 1) * k = 0 /\ A!Smaller(0, Len(O)) = 0
    BY <1>1 DEF A!Smaller
  <2>2. ps[1] \in Seq(E) /\ FirstOf(O, 1 * k) = FirstOf(O, 0) \o ps[1]
    BY <1>3, <2>1
  <2>3. FirstOf(O, 0) = <<>>
    BY <2>1, SubSeqEmpty DEF FirstOf
  <2> HIDE DEF ps
  <2>4. <<>> \o ps[1] = ps[1]
    BY <2>2, ConcatEmptySeq
  <2> QED BY <2>1, <2>2, <2>3, <2>4
<1>8. \A i \in 2..N : f[i] = f[i - 1] \o ps[i]
  <2> TAKE i \in 2..N
  <2>1. i \in 1..N /\ i - 1 \in 1..N
    OBVIOUS
  <2>2. FirstOf(O, i * k) = FirstOf(O, (i - 1) * k) \o ps[i]
    BY <1>3, <2>1
  <2> QED BY <2>1, <2>2
<1>9. f[N] = O
  <2> DEFINE a == N * k
  <2>1. a \in Nat /\ a >= N
    OBVIOUS
  <2>2. f[N] = FirstOf(O, a)
    <3>1. N \in 1..N
      OBVIOUS
    <3> QED BY <3>1, Zenon
  <2> HIDE DEF a, f
  <2>3. A!Smaller(a, Len(O)) = Len(O)
    BY <1>1, <2>1 DEF A!Smaller
  <2> QED BY <2>2, <2>3, SubSeqFull DEF FirstOf
<1> HIDE DEF f, ps
<1>10. Chains(f, E, ps)
  BY <1>5, <1>6, <1>7, <1>8 DEF Chains
<1>11. FlattenSeq(ps) = f[N]
  BY <1>5, <1>10, FlattenChains
<1> QED BY <1>9, <1>11 DEF ps

\* Whatever the size of a page, the pages show every ticket once and newest
\* first: the cut at one page's end is where the next begins, and the page that
\* starts past the end is empty (mapping.go:58-92).
THEOREM PagesCover == Spec => []PagesCoverOwned
<1>1. ASSUME WellFormed PROVE PagesCoverOwned
  <2> SUFFICES ASSUME NEW u \in User, NEW perPage \in 1..Limit
               PROVE  FlattenSeq([p \in 1..(Limit + 1) |-> OwnedPage(u, p, perPage)]) = OwnedIDs(u)
    BY DEF PagesCoverOwned
  <2> DEFINE O == OwnedIDs(u)
             N == Limit + 1
  <2>1. Limit \in Nat \ {0} /\ perPage \in Nat \ {0}
    BY ListAssumption
  <2>2. list[<<"owned", u>>] \in Seq(A!Entry) /\ Len(list[<<"owned", u>>]) <= Limit
    BY <1>1 DEF WellFormed, List
  <2>3. O \in Seq(A!Entry) /\ Len(O) <= Limit
    BY <2>2 DEF OwnedIDs, Reverse
  <2>4. \A i \in 1..N : OwnedPage(u, i, perPage) = PageAfter(O, (i - 1) * perPage, perPage)
    BY DEF OwnedPage, PageAfter
  <2>5. [p \in 1..N |-> OwnedPage(u, p, perPage)]
          = [i \in 1..N |-> PageAfter(O, (i - 1) * perPage, perPage)]
    BY <2>4
  <2>6. N \in Nat /\ N >= Len(O) /\ N > 0
    BY <2>1, <2>3
  <2> HIDE DEF O
  <2>7. FlattenSeq([i \in 1..N |-> PageAfter(O, (i - 1) * perPage, perPage)]) = O
    <3> HIDE DEF N
    <3> QED BY <2>1, <2>3, <2>6, PagesTogether
  <2> QED BY <2>5, <2>7, Zenon DEF O, N
<1> QED BY <1>1, ListsAreWellFormed, PTL
=============================================================================
