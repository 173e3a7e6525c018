---------------------------- MODULE TimelineProofs ----------------------------
(* For any events, page sizes and limits: a page of the timeline is that     *)
(* page of the whole, as merging the newest of each source is enough; and    *)
(* turning the pages misses an event only for one that was removed.          *)
EXTENDS Timeline, FiniteSetTheorems, TLAPS

\* Newer is a strict total order.
LEMMA NewerOrder ==
  ASSUME NEW e \in Event, NEW f \in Event, NEW g \in Event
  PROVE  /\ ~ Newer(e, e)
         /\ Newer(e, f) /\ Newer(f, g) => Newer(e, g)
         /\ e # f => Newer(e, f) \/ Newer(f, e)
<1>1. \A x \in Event : x.kind \in Kind /\ x.id \in Nat /\ x.date \in Nat
  BY TimelineAssumption
<1>2. Kind = {"followup", "solution", "validation", "history"}
  BY DEF Kind, Source
<1>3. \A k, l \in Kind : Spelling[k] \in Nat /\ (Spelling[k] = Spelling[l] => k = l)
  BY <1>2 DEF Spelling
<1>4. e.kind = f.kind /\ e.id = f.id => e = f
  BY TimelineAssumption
<1> QED BY <1>1, <1>3, <1>4 DEF Newer

\* Sets of events are finite, and so is what is ahead of one.
LEMMA Finite ==
  ASSUME NEW S \in SUBSET Event
  PROVE  /\ IsFiniteSet(S) /\ Cardinality(S) \in Nat
         /\ \A T \in SUBSET S : /\ IsFiniteSet(T) /\ Cardinality(T) \in Nat
                                /\ Cardinality(T) <= Cardinality(S)
                                /\ Cardinality(T) = Cardinality(S) => T = S
<1>1. IsFiniteSet(S)
  BY TimelineAssumption, FS_Subset
<1> QED BY <1>1, FS_Subset, FS_CardinalityType

\* The later of two events has more ahead of it.
LEMMA AheadGrows ==
  ASSUME NEW S \in SUBSET Event, NEW e \in Event, NEW f \in S, Newer(f, e)
  PROVE  /\ Ahead(S, f) \subseteq Ahead(S, e)
         /\ Cardinality(Ahead(S, f)) < Cardinality(Ahead(S, e))
<1>1. Ahead(S, f) \subseteq Ahead(S, e)
  BY NewerOrder DEF Ahead
<1>2. f \in Ahead(S, e) /\ f \notin Ahead(S, f)
  BY NewerOrder DEF Ahead
<1>3. Ahead(S, e) \in SUBSET Event
  BY DEF Ahead
<1> QED BY <1>1, <1>2, <1>3, Finite

\* Of a set with n events or more, n are among the n newest.
LEMMA EnoughFirst ==
  ASSUME NEW A \in SUBSET Event, NEW n \in Nat, Cardinality(A) >= n
  PROVE  Cardinality(First(A, n)) >= n
<1> DEFINE m == Cardinality(A)
           r == [f \in A |-> Cardinality(Ahead(A, f))]
<1>1. m \in Nat /\ IsFiniteSet(A)
  BY Finite
<1>2. \A f \in A : r[f] \in 0..(m - 1)
  <2> TAKE f \in A
  <2>1. Ahead(A, f) \in SUBSET A /\ f \notin Ahead(A, f)
    BY NewerOrder DEF Ahead
  <2> QED BY <1>1, <2>1, Finite
<1>3. \A f, g \in A : r[f] = r[g] => f = g
  <2> SUFFICES ASSUME NEW f \in A, NEW g \in A, f # g PROVE r[f] # r[g]
    OBVIOUS
  <2>1. Newer(f, g) \/ Newer(g, f)
    BY NewerOrder
  <2>2. r[f] \in Nat /\ r[g] \in Nat
    BY <1>2
  <2> QED BY <2>1, <2>2, AheadGrows
<1>4. r \in Injection(A, 0..(m - 1))
  BY <1>2, <1>3 DEF Injection, IsInjective
<1>5. IsFiniteSet(0..(m - 1)) /\ Cardinality(0..(m - 1)) = m
  <2>1. 0 \in Int /\ m - 1 \in Int
    BY <1>1
  <2>2. m = IF 0 > m - 1 THEN 0 ELSE (m - 1) - 0 + 1
    BY <1>1
  <2> HIDE DEF m
  <2> QED BY <2>1, <2>2, FS_Interval
<1>6. r \in Surjection(A, 0..(m - 1))
  BY <1>4, <1>5, FS_Injection
<1>7. \A i \in 0..(n - 1) : \E f \in A : r[f] = i
  <2> TAKE i \in 0..(n - 1)
  <2>1. i \in 0..(m - 1) BY <1>1
  <2> QED BY <1>6, <2>1 DEF Surjection
<1> DEFINE h == [i \in 0..(n - 1) |-> CHOOSE f \in A : r[f] = i]
<1>8. \A i \in 0..(n - 1) : h[i] \in A /\ r[h[i]] = i
  BY <1>7
<1>9. \A i \in 0..(n - 1) : h[i] \in First(A, n)
  <2> TAKE i \in 0..(n - 1)
  <2>1. h[i] \in A /\ r[h[i]] = i
    BY <1>8
  <2>2. Cardinality(Ahead(A, h[i])) < n
    BY <2>1
  <2> HIDE DEF h
  <2> QED BY <2>1, <2>2 DEF First, Ahead
<1>10. h \in Injection(0..(n - 1), First(A, n))
  BY <1>8, <1>9 DEF Injection, IsInjective
<1>11. First(A, n) \in SUBSET Event
  BY DEF First
<1>12. Cardinality(0..(n - 1)) = n
  BY FS_Interval
<1> QED BY <1>10, <1>11, <1>12, Finite, FS_Injection

\* All of a set are among its n newest when it has no more.
LEMMA FewAreFirst ==
  ASSUME NEW S \in SUBSET Event, NEW n \in Nat, Cardinality(S) <= n
  PROVE  First(S, n) = S
<1> SUFFICES ASSUME NEW e \in S PROVE Cardinality(Ahead(S, e)) < n
  BY DEF First, Ahead
<1>1. Ahead(S, e) \in SUBSET S /\ e \notin Ahead(S, e)
  BY NewerOrder DEF Ahead
<1> QED BY <1>1, Finite

\* The n newest of a set are the m newest of any part that holds those.
LEMMA PrefixDecides ==
  ASSUME NEW S \in SUBSET Event, NEW n \in Nat, NEW P,
         First(S, n) \subseteq P, P \subseteq S
  PROVE  First(P, n) = First(S, n)
<1>1. ASSUME NEW e \in First(S, n) PROVE e \in First(P, n)
  <2>1. Ahead(P, e) \in SUBSET Ahead(S, e) /\ Ahead(S, e) \in SUBSET Event
    BY DEF Ahead
  <2>2. e \in P /\ Cardinality(Ahead(S, e)) < n
    BY DEF First, Ahead
  <2> QED BY <2>1, <2>2, Finite DEF First, Ahead
<1>2. ASSUME NEW e \in First(P, n) PROVE e \in First(S, n)
  <2> DEFINE A == Ahead(S, e)
  <2>1. e \in S /\ e \in Event /\ A \in SUBSET Event
    BY DEF First, Ahead
  <2>2. SUFFICES ASSUME Cardinality(A) >= n PROVE FALSE
    BY <2>1, Finite DEF First, Ahead
  <2>3. ASSUME NEW f \in First(A, n) PROVE f \in Ahead(P, e)
    <3>1. f \in S /\ f \in Event /\ Newer(f, e) /\ Cardinality(Ahead(A, f)) < n
      BY DEF First, Ahead
    <3>2. Ahead(A, f) = Ahead(S, f)
      BY <2>1, <3>1, NewerOrder DEF Ahead
    <3> QED BY <3>1, <3>2 DEF First, Ahead
  <2>4. First(A, n) \in SUBSET Ahead(P, e) /\ Ahead(P, e) \in SUBSET Event
    BY <2>3 DEF Ahead
  <2>5. Cardinality(First(A, n)) >= n
    BY <2>1, <2>2, EnoughFirst
  <2>6. Cardinality(Ahead(P, e)) < n
    BY DEF First, Ahead
  <2> QED BY <2>4, <2>5, <2>6, Finite
<1> QED BY <1>1, <1>2

\* The n newest of two sets together are among those of each.
LEMMA MergeKeepsFirst ==
  ASSUME NEW A \in SUBSET Event, NEW B \in SUBSET Event, NEW n \in Nat
  PROVE  First(A \cup B, n) \subseteq First(A, n) \cup First(B, n)
<1> SUFFICES ASSUME NEW e \in First(A \cup B, n) PROVE e \in First(A, n) \cup First(B, n)
  OBVIOUS
<1>1. Ahead(A \cup B, e) \in SUBSET Event /\ Cardinality(Ahead(A \cup B, e)) < n
  BY DEF First, Ahead
<1>2. Ahead(A, e) \in SUBSET Ahead(A \cup B, e) /\ Ahead(B, e) \in SUBSET Ahead(A \cup B, e)
  BY DEF Ahead
<1>3. Cardinality(Ahead(A, e)) < n /\ Cardinality(Ahead(B, e)) < n
  <2> DEFINE W == Ahead(A \cup B, e)
  <2>1. Cardinality(W) \in Nat /\ \A T \in SUBSET W : Cardinality(T) \in Nat /\ Cardinality(T) <= Cardinality(W)
    BY <1>1, Finite
  <2>2. Cardinality(Ahead(A, e)) \in Nat /\ Cardinality(Ahead(A, e)) <= Cardinality(W)
    BY <1>2, <2>1
  <2>3. Cardinality(Ahead(B, e)) \in Nat /\ Cardinality(Ahead(B, e)) <= Cardinality(W)
    BY <1>2, <2>1
  <2> QED BY <1>1, <2>1, <2>2, <2>3
<1> QED BY <1>3 DEF First, Ahead

\* Fewer are among the m newest than among the n newest.
LEMMA FirstGrows ==
  ASSUME NEW S \in SUBSET Event, NEW m \in Nat, NEW n \in Nat, m <= n
  PROVE  First(S, m) \subseteq First(S, n)
<1> SUFFICES ASSUME NEW e \in First(S, m) PROVE e \in First(S, n)
  OBVIOUS
<1>1. Ahead(S, e) \in SUBSET Event
  BY DEF Ahead
<1> QED BY <1>1, Finite DEF First, Ahead

-----------------------------------------------------------------------------
(* The invariant. *)

Asked(S, n) == {e \in Exposed(S) : \E i \in 1..(n - 1) : e.kind = Source[i]}

\* What GLPI and the reader's sizes give the types of.
LEMMA Sizing ==
  ASSUME TypeOK, pc = "fetch" => page > 0
  PROVE  /\ FetchCount \in Nat
         /\ pc = "fetch" => Offset \in Nat /\ Offset + perPage = FetchCount
         /\ pc = "fetch" => FetchCount = page * perPage /\ FetchCount > Offset
<1> QED BY TimelineAssumption DEF TypeOK, FetchCount, Offset

\* At first nothing is made.
LEMMA TimelineInit == Init => TimelineInv
  BY TimelineAssumption DEF Init, TimelineInv, TypeOK, MergesPrefixes

\* A page is made from nothing.
LEMMA MakeKeeps ==
  ASSUME TimelineInv, NEW p \in Nat \ {0}, NEW size \in 1..MaxPageSize, MakePage(p, size),
         start' \subseteq Event, removed' \subseteq Event, shown' \subseteq Event
  PROVE  TimelineInv'
<1>1. TypeOK' /\ page' > 0
  BY TimelineAssumption DEF TimelineInv, TypeOK, MakePage, Forget
<1>2. MergesPrefixes'
  <2>1. next' = 1 /\ events' = {} /\ total' = 0
    BY DEF MakePage, Forget
  <2>2. Cardinality({}) = 0
    BY FS_EmptySet
  <2>3. {e \in Exposed(held') : \E i \in 1..(next' - 1) : e.kind = Source[i]} = {}
    BY <2>1
  <2> QED BY <2>1, <2>2, <2>3 DEF MergesPrefixes, First
<1> QED BY <1>1, <1>2 DEF TimelineInv

\* A source adds its newest and its number.
LEMMA FetchKeeps ==
  ASSUME TimelineInv, Fetch
  PROVE  TimelineInv'
<1> DEFINE k == Source[next]
           B == OfKind(held, k)
           n == FetchCount
<1>1. TypeOK /\ pc = "fetch" /\ page > 0 /\ next \in 1..4 /\ n \in Nat /\ n = page * perPage
  BY Sizing DEF TimelineInv, Fetch, Source
<1>2. held \in SUBSET Event /\ B \in SUBSET Event /\ Rows(k, n) \subseteq B /\ Cardinality(B) \in Nat
  BY <1>1, Finite DEF TypeOK, OfKind, Rows, First
<1>3. TypeOK' /\ page' > 0
  <2>1. events' = events \cup Rows(k, n) /\ next' = next + 1
    BY DEF Fetch
  <2>2. events' \subseteq Event /\ next' \in 1..5
    BY <1>1, <1>2, <2>1 DEF TypeOK
  <2>3. total' \in Nat /\ totalKnown' \in BOOLEAN
    <3>1. \/ total' = total + Cardinality(B) /\ totalKnown' = totalKnown
          \/ total' = total /\ totalKnown' = FALSE
      BY DEF Fetch
    <3>2. total \in Nat /\ totalKnown \in BOOLEAN
      BY <1>1 DEF TypeOK
    <3> HIDE DEF B
    <3>3. total' \in Nat
      BY <1>2, <3>1, <3>2
    <3>4. totalKnown' \in BOOLEAN
      BY <3>1, <3>2, Zenon
    <3> QED BY <3>3, <3>4
  <2> QED BY <1>1, <2>2, <2>3 DEF TypeOK, Fetch
<1>4. SUFFICES ASSUME calm PROVE MergesPrefixes'
  BY <1>1, <1>3 DEF TimelineInv, Fetch, MergesPrefixes
<1> DEFINE A == Asked(held, next)
<1>5. /\ events \subseteq A /\ First(A, n) \subseteq events
      /\ totalKnown => total = Cardinality(A)
  BY <1>1, <1>4 DEF TimelineInv, MergesPrefixes, Asked
<1>6. Asked(held, next + 1) = A \cup B /\ A \cap B = {}
  <2>1. \A i \in 1..4 : Source[i] = k => i = next
    BY <1>1 DEF Source
  <2>2. k \notin Unsupported
    BY DEF Fetch
  <2>3. 1..((next + 1) - 1) = 1..(next - 1) \cup {next} /\ 1..(next - 1) \subseteq 1..4
    BY <1>1
  <2> QED BY <1>1, <2>1, <2>2, <2>3 DEF Asked, OfKind, Exposed
<1>7. A \in SUBSET Event
  BY <1>2 DEF Asked, Exposed
<1>8. Cardinality(A \cup B) = Cardinality(A) + Cardinality(B)
  <2>1. IsFiniteSet(A) /\ IsFiniteSet(B) /\ Cardinality(A) \in Nat /\ Cardinality(B) \in Nat
    BY <1>2, <1>7, Finite
  <2>2. Cardinality(A \cap B) = 0
    BY <1>6, FS_EmptySet
  <2> HIDE DEF A, B
  <2>3. Cardinality(A \cup B) = Cardinality(A) + Cardinality(B) - Cardinality(A \cap B)
    BY <2>1, FS_Union
  <2> QED BY <2>1, <2>2, <2>3
<1>9. events' = events \cup First(B, n) /\ next' = next + 1 /\ held' = held
  BY DEF Fetch, Rows
<1>10. events' \subseteq A \cup B
  BY <1>5, <1>9, <1>2 DEF Rows
<1>11. First(A \cup B, n) \subseteq events'
  <2> HIDE DEF A, B, n
  <2> QED BY <1>1, <1>2, <1>5, <1>7, <1>9, MergeKeepsFirst
<1>12. totalKnown' => total' = Cardinality(A \cup B)
  BY <1>5, <1>8 DEF Fetch
<1>13. page' * perPage' = n
  BY <1>1 DEF Fetch
<1> QED
  <2>1. {e \in Exposed(held') : \E i \in 1..(next' - 1) : e.kind = Source[i]} = A \cup B
    BY <1>6, <1>9 DEF Asked, Exposed
  <2> HIDE DEF A, B, n
  <2> QED BY <2>1, <1>10, <1>11, <1>12, <1>13 DEF MergesPrefixes

\* A source that is left out has nothing to add.
LEMMA SkipKeeps ==
  ASSUME TimelineInv, Skip
  PROVE  TimelineInv'
<1>1. TypeOK' /\ (pc' = "fetch" => page' > 0)
  BY DEF TimelineInv, TypeOK, Skip, Source
<1>2. next \in 1..4 /\ 1..((next + 1) - 1) = 1..(next - 1) \cup {next}
  BY DEF Skip, Source
<1>3. Asked(held, next + 1) = Asked(held, next)
  BY <1>2 DEF Asked, Exposed, Skip
<1>4. MergesPrefixes'
  BY <1>3 DEF TimelineInv, MergesPrefixes, Asked, Exposed, Skip
<1> QED BY <1>1, <1>4 DEF TimelineInv

\* What is shown is an event that was fetched.
LEMMA AnswerKeeps ==
  ASSUME TimelineInv, Answer
  PROVE  TimelineInv'
<1>1. TypeOK /\ pc = "fetch" /\ page > 0
  BY DEF TimelineInv, Answer
<1>2. Visible(ThePage) \in SUBSET Event /\ events \in SUBSET Event
  BY <1>1 DEF Visible, ThePage, First, TypeOK
<1>3. Cardinality(Visible(ThePage)) \in Nat /\ Cardinality(events) \in Nat
  BY <1>2, Finite
<1>4. answer' \in [events : SUBSET Event, total : Nat, more : BOOLEAN]
  <2>1. (admin /\ HasMore) \in BOOLEAN
    BY <1>1 DEF TypeOK, HasMore
  <2> QED BY <1>1, <1>2, <1>3, <2>1 DEF Answer, TypeOK
<1>5. TypeOK' /\ pc' = "idle"
  BY <1>1, <1>2, <1>4 DEF TypeOK, Answer, Forget
<1> QED BY <1>5 DEF TimelineInv, MergesPrefixes

\* Every step keeps the invariant.
LEMMA TimelineStep == TimelineInv /\ [Next]_vars => TimelineInv'
<1> SUFFICES ASSUME TimelineInv, [Next]_vars PROVE TimelineInv'
  OBVIOUS
<1>1. ASSUME NEW e \in Event \ held, Arrive(e) PROVE TimelineInv'
  BY <1>1 DEF Arrive, TimelineInv, TypeOK, MergesPrefixes, call
<1>2. ASSUME NEW e \in held, Remove(e) PROVE TimelineInv'
  BY <1>2 DEF Remove, TimelineInv, TypeOK, MergesPrefixes, call
<1>3. ASSUME NEW asked \in Sizes, Open(asked) PROVE TimelineInv'
  <2>1. PerPage(asked) \in 1..MaxPageSize
    BY TimelineAssumption DEF PerPage
  <2>2. start' \subseteq Event /\ removed' \subseteq Event /\ shown' \subseteq Event
    BY <1>3 DEF Open, TimelineInv, TypeOK
  <2> QED BY <1>3, <2>1, <2>2, MakeKeeps DEF Open
<1>4. CASE Turn
  <2>1. page + 1 \in Nat \ {0} /\ perPage \in 1..MaxPageSize
    BY DEF TimelineInv, TypeOK
  <2>2. start' \subseteq Event /\ removed' \subseteq Event /\ shown' \subseteq Event
    BY <1>4 DEF Turn, TimelineInv, TypeOK
  <2> QED BY <1>4, <2>1, <2>2, MakeKeeps DEF Turn
<1>5. CASE Fail
  BY <1>5, TimelineAssumption DEF Fail, Forget, TimelineInv, TypeOK, MergesPrefixes
<1>6. CASE UNCHANGED vars
  BY <1>6 DEF vars, call, TimelineInv, TypeOK, MergesPrefixes, Exposed, First, Newer
<1> QED BY <1>1, <1>2, <1>3, <1>4, <1>5, <1>6, FetchKeeps, SkipKeeps, AnswerKeeps DEF Next

\* While GLPI does not change, the sources asked so far have answered with
\* their newest events and have been counted in full.
THEOREM TimelineInvariant == Spec => []TimelineInv
  BY TimelineInit, TimelineStep, PTL DEF Spec

-----------------------------------------------------------------------------
(* The page. *)

\* If nothing changed meanwhile, the answer is the page of the whole.
LEMMA ExactAnswer ==
  ASSUME TimelineInv, Answer, calm
  PROVE  LET whole == Exposed(held)
             upto  == page * perPage
         IN  /\ answer'.events = Visible(First(whole, upto) \ First(whole, upto - perPage))
             /\ admin /\ totalKnown =>
                  /\ answer'.total = Cardinality(whole)
                  /\ (answer'.more <=> Cardinality(whole) > upto)
<1> DEFINE whole == Exposed(held)
           upto  == page * perPage
<1>1. /\ TypeOK /\ pc = "fetch" /\ page > 0 /\ next = 5
      /\ upto \in Nat /\ Offset \in Nat /\ Offset = upto - perPage /\ Offset + perPage = upto /\ Offset < upto
  BY Sizing DEF TimelineInv, Answer, TypeOK
<1>2. whole \in SUBSET Event /\ events \in SUBSET Event
  BY <1>1 DEF TypeOK, Exposed
<1>3. Asked(held, 5) = whole
  <2>1. \A e \in whole : \E i \in 1..(5 - 1) : e.kind = Source[i]
    BY <1>2, TimelineAssumption DEF Kind
  <2> QED BY <2>1 DEF Asked
<1>4. /\ events \subseteq whole /\ First(whole, upto) \subseteq events
      /\ totalKnown => total = Cardinality(whole)
  BY <1>1, <1>3 DEF TimelineInv, MergesPrefixes, Asked
<1> HIDE DEF whole, upto
<1>5. First(events, upto) = First(whole, upto)
  BY <1>1, <1>2, <1>4, PrefixDecides
<1>6. First(events, Offset) = First(whole, Offset)
  <2>1. First(whole, Offset) \subseteq First(whole, upto)
    BY <1>1, <1>2, FirstGrows
  <2> QED BY <1>1, <1>2, <1>4, <2>1, PrefixDecides
<1>7. ThePage = First(whole, upto) \ First(whole, upto - perPage)
  BY <1>1, <1>5, <1>6 DEF ThePage
<1>8. Cardinality(whole) \in Nat /\ Cardinality(events) \in Nat
  BY <1>2, Finite
<1>9. ASSUME totalKnown PROVE HasMore <=> Cardinality(whole) > upto
  <2>1. CASE Cardinality(events) >= upto
    <3>1. HasMore <=> total > upto
      BY <1>1, <1>8, <1>9, <2>1 DEF HasMore
    <3> QED BY <1>4, <1>9, <3>1
  <2>2. CASE Cardinality(events) < upto
    <3>1. First(whole, upto) \in SUBSET events
      BY <1>4
    <3>2. Cardinality(First(whole, upto)) < upto
      BY <1>2, <1>1, <1>8, <2>2, <3>1, Finite
    <3>3. Cardinality(whole) < upto
      BY <1>1, <1>2, <1>8, <3>1, <3>2, EnoughFirst, Finite
    <3>4. First(whole, upto) = whole
      BY <1>1, <1>2, <1>8, <3>3, FewAreFirst
    <3>5. events = whole
      BY <1>4, <3>4
    <3>6. total = Cardinality(events) /\ ~ (Cardinality(whole) > upto)
      BY <1>1, <1>4, <1>8, <1>9, <3>3, <3>5
    <3>7. ~ HasMore
      BY <1>1, <1>8, <2>2, <3>6 DEF HasMore
    <3> QED BY <3>6, <3>7
  <2> QED BY <1>1, <1>8, <2>1, <2>2
<1>10. /\ answer'.events = Visible(ThePage)
       /\ admin /\ totalKnown => answer'.total = total /\ answer'.more = HasMore
  BY <1>1 DEF Answer, TypeOK, HasMore
<1> QED BY <1>4, <1>7, <1>9, <1>10 DEF whole, upto

\* If GLPI does not change while a page is made, the page is that page of the
\* whole timeline, and an administrator is told its length and whether more
\* follows.
THEOREM PagesAreExact == Spec => PageIsExact
<1>1. TimelineInv /\ [Next]_vars =>
        [Answer /\ calm =>
           LET whole == Exposed(held)
               upto  == page * perPage
           IN  /\ answer'.events = Visible(First(whole, upto) \ First(whole, upto - perPage))
               /\ admin /\ totalKnown =>
                    /\ answer'.total = Cardinality(whole)
                    /\ (answer'.more <=> Cardinality(whole) > upto)]_vars
  BY ExactAnswer
<1> QED BY <1>1, TimelineInvariant, PTL DEF Spec, PageIsExact

-----------------------------------------------------------------------------
(* What the pages pass unseen.                                                *)

\* No more than n are among the n newest.
LEMMA FirstBound ==
  ASSUME NEW S \in SUBSET Event, NEW n \in Nat
  PROVE  Cardinality(First(S, n)) <= n
<1> DEFINE F == First(S, n)
           r == [f \in F |-> Cardinality(Ahead(S, f))]
<1>1. F \in SUBSET Event /\ \A f \in F : Ahead(S, f) \in SUBSET Event
  BY DEF First, Ahead
<1>2. \A f \in F : r[f] \in 0..(n - 1)
  BY <1>1, Finite DEF First
<1>3. \A f, g \in F : r[f] = r[g] => f = g
  <2> SUFFICES ASSUME NEW f \in F, NEW g \in F, f # g PROVE r[f] # r[g]
    OBVIOUS
  <2>1. Newer(f, g) \/ Newer(g, f)
    BY <1>1, NewerOrder
  <2>2. r[f] \in Nat /\ r[g] \in Nat /\ f \in S /\ g \in S
    BY <1>2 DEF First
  <2> QED BY <1>1, <2>1, <2>2, AheadGrows
<1> HIDE DEF F
<1>4. r \in Injection(F, 0..(n - 1))
  BY <1>2, <1>3 DEF Injection, IsInjective
<1>5. IsFiniteSet(0..(n - 1)) /\ Cardinality(0..(n - 1)) = n
  <2>1. 0 \in Int /\ n - 1 \in Int /\ n = IF 0 > n - 1 THEN 0 ELSE (n - 1) - 0 + 1
    OBVIOUS
  <2> QED BY <2>1, FS_Interval
<1> HIDE DEF r
<1>6. Cardinality(F) <= Cardinality(0..(n - 1))
  BY <1>4, <1>5, FS_Injection
<1> QED BY <1>5, <1>6 DEF F

\* A set that is not empty has a newest member.
LEMMA Newest ==
  ASSUME NEW S \in SUBSET Event, S # {}
  PROVE  \E e \in S : Ahead(S, e) = {}
<1>1. IsFiniteSet(S) /\ Cardinality(S) \in Nat /\ Cardinality(S) # 0
  BY Finite, FS_EmptySet
<1>2. Cardinality(First(S, 1)) >= 1
  BY <1>1, EnoughFirst
<1>3. First(S, 1) # {}
  BY <1>2, FS_EmptySet
<1>4. PICK e \in First(S, 1) : TRUE
  BY <1>3
<1>5. e \in S /\ Cardinality(Ahead(S, e)) < 1 /\ Ahead(S, e) \in SUBSET Event
  BY <1>4 DEF First, Ahead
<1>6. Cardinality(Ahead(S, e)) = 0 /\ IsFiniteSet(Ahead(S, e))
  BY <1>5, Finite
<1>7. Ahead(S, e) = {}
  BY <1>6, FS_EmptySet
<1> QED BY <1>5, <1>7

\* The events of two disjoint sets are counted one after the other.
LEMMA CountBoth ==
  ASSUME NEW A \in SUBSET Event, NEW B \in SUBSET Event
  PROVE  /\ Cardinality(A \cup B) <= Cardinality(A) + Cardinality(B)
         /\ A \cap B = {} => Cardinality(A \cup B) = Cardinality(A) + Cardinality(B)
<1>1. /\ IsFiniteSet(A) /\ IsFiniteSet(B) /\ Cardinality(A) \in Nat /\ Cardinality(B) \in Nat
      /\ Cardinality(A \cap B) \in Nat
  BY Finite
<1>2. Cardinality(A \cup B) = Cardinality(A) + Cardinality(B) - Cardinality(A \cap B)
  BY <1>1, FS_Union
<1>3. A \cap B = {} => Cardinality(A \cap B) = 0
  BY FS_EmptySet
<1> QED BY <1>1, <1>2, <1>3

\* When the events of N had n or more ahead of them on one answer and are among
\* the n newest of the next, as many are gone from ahead of them.
LEMMA MadeUp ==
  ASSUME NEW E \in SUBSET Event, NEW F \in SUBSET Event, NEW n \in Nat,
         NEW N \in SUBSET First(F, n), N # {},
         \A e \in N : Cardinality(Ahead(E, e)) >= n
  PROVE  \E e \in N : Cardinality(Ahead(E, e) \ F) >= Cardinality(N)
<1>1. First(F, n) \in SUBSET Event /\ N \in SUBSET Event
  BY DEF First
<1>2. PICK e \in N : Ahead(N, e) = {}
  BY <1>1, Newest
<1>3. e \in F /\ e \in Event /\ Cardinality(Ahead(F, e)) < n /\ Ahead(F, e) \in SUBSET Event
  BY <1>1 DEF First, Ahead
<1>4. Ahead(F, e) \subseteq First(F, n)
  <2> SUFFICES ASSUME NEW f \in Ahead(F, e) PROVE f \in First(F, n)
    OBVIOUS
  <2>1. f \in F /\ Newer(f, e)
    BY DEF Ahead
  <2>2. Cardinality(Ahead(F, f)) < Cardinality(Ahead(F, e))
    BY <1>3, <2>1, AheadGrows
  <2>3. Cardinality(Ahead(F, f)) \in Nat /\ Cardinality(Ahead(F, e)) \in Nat
    <3>1. Ahead(F, f) \in SUBSET Event
      BY DEF Ahead
    <3> QED BY <1>3, <3>1, Finite
  <2> QED BY <1>3, <2>1, <2>2, <2>3 DEF First
<1>5. Ahead(F, e) \cap N = {}
  BY <1>2 DEF Ahead
<1> DEFINE A == Ahead(F, e)
           B == Ahead(E, e)
           G == B \ F
<1>6. A \in SUBSET Event /\ B \in SUBSET Event /\ G \in SUBSET Event /\ B \in SUBSET (A \cup G)
  BY DEF Ahead
<1>7. Cardinality(B) >= n
  OBVIOUS
<1> HIDE DEF A, B, G
<1>8. Cardinality(A \cup N) = Cardinality(A) + Cardinality(N)
  BY <1>1, <1>5, <1>6, CountBoth DEF A
<1>9. Cardinality(A \cup N) <= n
  <2>1. A \cup N \in SUBSET First(F, n)
    BY <1>4 DEF A
  <2>2. Cardinality(First(F, n)) <= n /\ Cardinality(First(F, n)) \in Nat
    BY <1>1, FirstBound, Finite
  <2>3. Cardinality(A \cup N) \in Nat /\ Cardinality(A \cup N) <= Cardinality(First(F, n))
    BY <1>1, <2>1, Finite
  <2> QED BY <2>2, <2>3
<1>10. Cardinality(B) <= Cardinality(A) + Cardinality(G)
  <2>1. Cardinality(A \cup G) <= Cardinality(A) + Cardinality(G)
    BY <1>6, CountBoth
  <2>2. A \cup G \in SUBSET Event
    BY <1>6
  <2>3. Cardinality(B) <= Cardinality(A \cup G)
    BY <1>6, <2>2, Finite
  <2> QED BY <1>6, <2>1, <2>2, <2>3, Finite
<1>11. Cardinality(A) \in Nat /\ Cardinality(B) \in Nat /\ Cardinality(G) \in Nat /\ Cardinality(N) \in Nat
  BY <1>1, <1>6, Finite
<1>12. Cardinality(G) >= Cardinality(N)
  BY <1>7, <1>8, <1>9, <1>10, <1>11
<1> QED BY <1>12 DEF G, B

\* An event that is not among the n newest of its source has n of them ahead.
LEMMA RowsReach ==
  ASSUME NEW B \in SUBSET Event, NEW n \in Nat, NEW f \in B, f \notin First(B, n)
  PROVE  Cardinality(Ahead(First(B, n), f)) >= n
<1> DEFINE A == Ahead(B, f)
           W == Ahead(First(B, n), f)
<1>1. A \in SUBSET Event /\ W \in SUBSET Event /\ f \in Event
  BY DEF Ahead, First
<1>2. Cardinality(A) >= n
  BY <1>1, Finite DEF First
<1>3. First(A, n) \subseteq W
  <2> SUFFICES ASSUME NEW g \in First(A, n) PROVE g \in W
    OBVIOUS
  <2>1. g \in B /\ g \in Event /\ Newer(g, f) /\ Cardinality(Ahead(A, g)) < n
    BY DEF First, Ahead
  <2>2. Ahead(A, g) = Ahead(B, g)
    BY <1>1, <2>1, NewerOrder DEF Ahead
  <2> QED BY <2>1, <2>2 DEF First, Ahead
<1> HIDE DEF A, W
<1>4. Cardinality(First(A, n)) >= n
  BY <1>1, <1>2, EnoughFirst
<1>5. Cardinality(First(A, n)) \in Nat /\ Cardinality(W) \in Nat
      /\ Cardinality(First(A, n)) <= Cardinality(W)
  BY <1>1, <1>3, Finite
<1>6. Cardinality(W) >= n
  BY <1>4, <1>5
<1> QED BY <1>6 DEF W

\* What the account is made of.
LEMMA AccountTypes ==
  ASSUME TimelineInv, SkipInv, NEW last \in SUBSET Exposed(held \cup removed),
         NEW gone \in SUBSET removed
  PROVE  /\ last \in SUBSET Event /\ gone \in SUBSET Event /\ events \in SUBSET Event
         /\ Unseen \in SUBSET Event /\ Skipped(last) \in SUBSET Unseen
         /\ AskedFor(last) \in SUBSET Event
         /\ AskedFor(last) \in SUBSET (Exposed(held) \cap Exposed(start \cup last))
  BY DEF TimelineInv, TypeOK, SkipInv, Exposed, Unseen, Skipped, AskedFor

\* Nothing is skipped before the first page.
LEMMA SkipInit == Init => SkipInv
<1> SUFFICES ASSUME Init PROVE SkipInv
  OBVIOUS
<1>1. Accounts({}, {})
  <2>1. Skipped({}) = {} /\ Unseen = {} /\ Cardinality({}) = 0
    BY FS_EmptySet DEF Init, Skipped, Unseen, Exposed
  <2> QED BY <2>1 DEF Init, Accounts
<1> QED BY <1>1 DEF Init, SkipInv, Exposed

\* The first page: the account is opened.
LEMMA SkipOpen ==
  ASSUME TimelineInv, SkipInv, NEW asked \in Sizes, Open(asked)
  PROVE  SkipInv'
<1>1. /\ held' = held /\ start' = held /\ removed' = {} /\ events' = {} /\ shown' = {}
      /\ pc' = "fetch" /\ page' = 1 /\ next' = 1 /\ total' = 0
      /\ answer'.more = TRUE /\ perPage' = PerPage(asked)
  BY DEF Open, MakePage, Forget
<1>2. Passed' = 0 /\ page' * perPage' \in Nat
  BY <1>1, TimelineAssumption DEF Passed, PerPage
<1>3. Skipped({})' = {}
  <2>1. \A e : Ahead({}, e) = {} /\ Cardinality({}) = 0
    BY FS_EmptySet DEF Ahead
  <2> QED BY <1>2, <2>1 DEF Skipped
<1>4. AskedFor({})' = {} /\ Cardinality({}) = 0
  BY <1>1, FS_EmptySet DEF AskedFor
<1>5. Accounts({}, {})'
  BY <1>1, <1>3, <1>4 DEF Accounts
<1> QED BY <1>1, <1>5 DEF SkipInv, Exposed

\* The next page: the account goes on.
LEMMA SkipTurn ==
  ASSUME TimelineInv, SkipInv, Turn
  PROVE  SkipInv'
<1>1. /\ UNCHANGED <<held, start, removed, shown, admin>> /\ events' = {}
      /\ pc = "idle" /\ pc' = "fetch" /\ page' = page + 1 /\ perPage' = perPage
      /\ next' = 1 /\ total' = 0 /\ answer'.more = TRUE
  BY DEF Turn, MakePage, Forget
<1>2. Passed' = Passed
  BY <1>1 DEF Passed, TimelineInv, TypeOK
<1>3. ASSUME NEW last, NEW gone, Accounts(last, gone) PROVE Accounts(last, gone)'
  <2>1. Skipped(last)' = Skipped(last)
    BY <1>1, <1>2 DEF Skipped, Unseen, Exposed
  <2>2. AskedFor(last)' = {} /\ Cardinality({}) = 0
    BY <1>1, FS_EmptySet DEF AskedFor
  <2> QED BY <1>1, <1>3, <2>1, <2>2 DEF Accounts
<1> QED BY <1>1, <1>3 DEF SkipInv, Exposed

\* An event that is removed was skipped no more.
LEMMA SkipRemove ==
  ASSUME TimelineInv, SkipInv, NEW e \in held, Remove(e)
  PROVE  SkipInv'
<1>1. /\ held' = held \ {e} /\ removed' = removed \cup {e}
      /\ UNCHANGED <<admin, call, answer, start, shown>>
  BY DEF Remove
<1>2. Passed' = Passed
  BY <1>1 DEF Passed, call
<1>3. ASSUME NEW last \in SUBSET Exposed(held \cup removed), NEW gone \in SUBSET removed,
             Accounts(last, gone)
      PROVE  Accounts(last, gone)'
  <2>0. UNCHANGED <<pc, page, perPage, next, events, total, totalKnown, answer>>
    BY <1>1 DEF call
  <2>1. Unseen' = Unseen \ {e} /\ Skipped(last)' = Skipped(last) \ {e}
    BY <1>1, <1>2 DEF Skipped, Unseen, Exposed
  <2>2. AskedFor(last)' = AskedFor(last) \ {e}
    BY <1>1, <2>0 DEF AskedFor, Exposed
  <2>3. /\ Skipped(last) \in SUBSET Event /\ gone \in SUBSET Event
        /\ events \cup AskedFor(last) \in SUBSET Event
    BY AccountTypes
  <2>4. Cardinality(Skipped(last)') <= Cardinality(gone)
    <3>1. Cardinality(Skipped(last)) <= Cardinality(gone)
      BY <1>3 DEF Accounts
    <3>2. Cardinality(Skipped(last) \ {e}) <= Cardinality(Skipped(last))
      BY <2>3, Finite
    <3>3. /\ Cardinality(Skipped(last) \ {e}) \in Nat /\ Cardinality(Skipped(last)) \in Nat
          /\ Cardinality(gone) \in Nat
      BY <2>3, Finite
    <3> QED BY <2>1, <3>1, <3>2, <3>3
  <2>5. Cardinality((events \cup AskedFor(last))') <= Cardinality(events \cup AskedFor(last))
        /\ Cardinality((events \cup AskedFor(last))') \in Nat
        /\ Cardinality(events \cup AskedFor(last)) \in Nat
    <3>1. (events \cup AskedFor(last))' \in SUBSET (events \cup AskedFor(last))
      BY <2>0, <2>2
    <3> HIDE DEF AskedFor
    <3> QED BY <2>3, <3>1, Finite
  <2>6. total \in Nat
    BY DEF TimelineInv, TypeOK
  <2>7. pc = "fetch" /\ totalKnown => total >= Cardinality((events \cup AskedFor(last))')
    BY <1>3, <2>5, <2>6 DEF Accounts
  <2>8. pc = "fetch" => \A f \in AskedFor(last)' \ events :
          Cardinality(Ahead(OfKind(events, f.kind), f)) >= page * perPage
    BY <1>3, <2>2 DEF Accounts
  <2>9. pc = "idle" /\ page > 0 /\ totalKnown /\ ~ answer.more => Skipped(last)' = Unseen'
    BY <1>3, <2>1 DEF Accounts
  <2>10. gone \cap (last \cup events) = {}
    BY <1>3 DEF Accounts
  <2> QED BY <2>0, <2>4, <2>7, <2>8, <2>9, <2>10 DEF Accounts, Ahead, OfKind
<1>4. held' \cup removed' = held \cup removed /\ held' \cap removed' = {} /\ removed \subseteq removed'
  BY <1>1 DEF SkipInv
<1>5. UNCHANGED <<start, events, pc, answer, admin>>
  BY <1>1 DEF call
<1> QED BY <1>3, <1>4, <1>5 DEF SkipInv

\* A source that answers adds its rows to what was asked for, all of which are
\* there or have a whole page ahead of them.
LEMMA SkipFetch ==
  ASSUME TimelineInv, SkipInv, Fetch
  PROVE  SkipInv'
<1> DEFINE k == Source[next]
           B == OfKind(held, k)
           n == FetchCount
           R == First(B, n)
<1>1. TypeOK /\ pc = "fetch" /\ page > 0 /\ next \in 1..4 /\ n \in Nat /\ n = page * perPage
  BY Sizing DEF TimelineInv, Fetch, Source
<1>2. /\ held \in SUBSET Event /\ B \in SUBSET Event /\ B \subseteq held /\ R \subseteq B
      /\ events \in SUBSET Event
  BY <1>1 DEF TypeOK, OfKind, First
<1>3. /\ events' = events \cup R /\ next' = next + 1 /\ k \notin Unsupported
      /\ UNCHANGED <<held, removed, admin, pc, page, perPage, answer, start, shown>>
  BY DEF Fetch, Rows
<1>4. totalKnown' => totalKnown /\ total' = total + Cardinality(B)
  BY DEF Fetch
<1>5. R \subseteq Exposed(held)
  BY <1>2, <1>3 DEF Exposed, OfKind
<1>6. ASSUME NEW last \in SUBSET Exposed(held \cup removed), NEW gone \in SUBSET removed,
             Accounts(last, gone)
      PROVE  Accounts(last, gone)'
  <2> DEFINE Q == AskedFor(last)
  <2>1. /\ Q \in SUBSET Event /\ Q \subseteq Exposed(held)
        /\ Q \subseteq Exposed(start \cup last)
    BY AccountTypes
  <2>2. Q' \subseteq Q \cup B /\ \A e \in Q' : e \in Q \/ (e \in B /\ e.kind = k)
    <3> SUFFICES ASSUME NEW e \in Q' PROVE e \in Q \/ (e \in B /\ e.kind = k)
      OBVIOUS
    <3>1. e \in Exposed(start \cup last) \ removed
      BY <1>3 DEF AskedFor, Exposed
    <3>2. PICK i \in 1..((next + 1) - 1) : e.kind = Source[i]
      BY <1>3 DEF AskedFor
    <3>3. e \in held
      <4>1. start \cup last \subseteq held \cup removed
        BY DEF SkipInv, Exposed
      <4> QED BY <3>1, <4>1 DEF Exposed
    <3>4. CASE i \in 1..(next - 1)
      BY <3>1, <3>2, <3>4 DEF AskedFor
    <3>5. CASE i \notin 1..(next - 1)
      <4>1. i = next
        BY <1>1, <3>5
      <4> QED BY <3>2, <3>3, <4>1 DEF OfKind
    <3> QED BY <3>4, <3>5
  <2>3. gone \cap (last \cup events') = {}
    <3>1. gone \cap R = {}
      BY <1>2 DEF SkipInv
    <3>2. gone \cap (last \cup events) = {}
      BY <1>6 DEF Accounts
    <3> HIDE DEF R
    <3> QED BY <1>3, <3>1, <3>2
  <2>4. Skipped(last)' = Skipped(last)
    BY <1>3 DEF Skipped, Unseen, Passed, Exposed
  <2>5. \A e \in Q' \ events' : Cardinality(Ahead(OfKind(events', e.kind), e)) >= n
    <3> SUFFICES ASSUME NEW e \in Q', e \notin events'
                 PROVE  Cardinality(Ahead(OfKind(events', e.kind), e)) >= n
      OBVIOUS
    <3> DEFINE W == Ahead(OfKind(events', e.kind), e)
    <3>0. W \in SUBSET Event
      BY <1>2, <1>3 DEF Ahead, OfKind
    <3>1. CASE e \in Q
      <4> DEFINE V == Ahead(OfKind(events, e.kind), e)
      <4>1. Cardinality(V) >= n
        BY <1>1, <1>3, <1>6, <3>1 DEF Accounts
      <4>2. V \in SUBSET W
        BY <1>3 DEF Ahead, OfKind
      <4> HIDE DEF V, W, n
      <4>3. Cardinality(W) >= n
        BY <1>1, <3>0, <4>1, <4>2, Finite
      <4> QED BY <4>3 DEF W
    <3>2. CASE e \in B /\ e.kind = k
      <4> DEFINE V == Ahead(R, e)
      <4>1. e \notin R
        BY <1>3
      <4>2. Cardinality(V) >= n
        <5> HIDE DEF B, n
        <5> QED BY <1>1, <1>2, <3>2, <4>1, RowsReach
      <4>3. V \in SUBSET W
        BY <1>2, <1>3, <3>2 DEF Ahead, OfKind
      <4> HIDE DEF V, W, n
      <4>4. Cardinality(W) >= n
        BY <1>1, <3>0, <4>2, <4>3, Finite
      <4> QED BY <4>4 DEF W
    <3> QED BY <2>2, <3>1, <3>2
  <2>6. totalKnown' => total' >= Cardinality(events' \cup Q')
    <3> SUFFICES ASSUME totalKnown' PROVE total' >= Cardinality(events' \cup Q')
      OBVIOUS
    <3>1. totalKnown /\ total' = total + Cardinality(B) /\ total \in Nat
      BY <1>1, <1>4 DEF TypeOK
    <3>2. total >= Cardinality(events \cup Q)
      BY <1>1, <1>6, <3>1 DEF Accounts
    <3>3. events' \cup Q' \in SUBSET ((events \cup Q) \cup B)
      BY <1>2, <1>3, <2>2
    <3>4. events \cup Q \in SUBSET Event /\ (events \cup Q) \cup B \in SUBSET Event
      BY <1>2, <2>1
    <3> DEFINE X == events \cup Q
               Y == events' \cup Q'
    <3> HIDE DEF B, Q, X, Y
    <3>5. Cardinality(X \cup B) <= Cardinality(X) + Cardinality(B)
      BY <1>2, <3>4, CountBoth DEF X
    <3>6. Cardinality(Y) <= Cardinality(X \cup B) /\ Cardinality(Y) \in Nat
      BY <3>3, <3>4, Finite DEF X, Y
    <3>7. Cardinality(X) \in Nat /\ Cardinality(B) \in Nat /\ Cardinality(X \cup B) \in Nat
      BY <1>2, <3>4, Finite DEF X
    <3> QED BY <3>1, <3>2, <3>5, <3>6, <3>7 DEF X, Y
  <2>7. Cardinality(Skipped(last)') <= Cardinality(gone)
    BY <1>6, <2>4 DEF Accounts
  <2>8. page' * perPage' = n /\ pc' = "fetch"
    BY <1>1, <1>3
  <2> HIDE DEF n, B, R, Q, k
  <2> QED BY <2>3, <2>5, <2>6, <2>7, <2>8 DEF Accounts, Q
<1>7. events' \subseteq Exposed(held \cup removed)
  BY <1>3, <1>5 DEF SkipInv, Exposed
<1> HIDE DEF n, B, R, k
<1> QED BY <1>3, <1>6, <1>7 DEF SkipInv, Exposed

\* A source that is left out has nothing the pages could miss.
LEMMA SkipLeavesOut ==
  ASSUME TimelineInv, SkipInv, Skip
  PROVE  SkipInv'
<1>1. /\ UNCHANGED <<held, removed, admin, pc, page, perPage, events, total, totalKnown,
                     answer, start, shown>>
      /\ next' = next + 1 /\ next \in 1..4 /\ Source[next] \in Unsupported /\ pc = "fetch"
  BY DEF Skip, Source
<1>2. ASSUME NEW last, NEW gone, Accounts(last, gone) PROVE Accounts(last, gone)'
  <2>1. AskedFor(last)' = AskedFor(last)
    <3>1. 1..((next + 1) - 1) = 1..(next - 1) \cup {next}
      BY <1>1
    <3> QED BY <1>1, <3>1 DEF AskedFor, Exposed
  <2>2. Skipped(last)' = Skipped(last)
    BY <1>1 DEF Skipped, Unseen, Passed, Exposed
  <2> QED BY <1>1, <1>2, <2>1, <2>2 DEF Accounts, OfKind, Ahead
<1> QED BY <1>1, <1>2 DEF SkipInv, Exposed

\* A page that failed is as if it had not been asked for.
LEMMA SkipFail ==
  ASSUME TimelineInv, SkipInv, Fail
  PROVE  SkipInv'
<1>1. /\ UNCHANGED <<held, removed, admin, perPage, answer, start, shown>>
      /\ pc = "fetch" /\ pc' = "idle" /\ page' = page - 1 /\ events' = {} /\ answer.more
  BY DEF Fail, Forget, SkipInv
<1>2. ASSUME NEW last, NEW gone, Accounts(last, gone) PROVE Accounts(last, gone)'
  <2>1. Skipped(last)' = Skipped(last)
    BY <1>1 DEF Skipped, Unseen, Passed, Exposed
  <2> QED BY <1>1, <1>2, <2>1 DEF Accounts
<1> QED BY <1>1, <1>2 DEF SkipInv, Exposed

\* What arrives was not there at the beginning.
LEMMA SkipArrive ==
  ASSUME TimelineInv, SkipInv, NEW e \in Event \ held, Arrive(e)
  PROVE  SkipInv'
<1>1. /\ held' = held \cup {e} /\ e \notin removed
      /\ UNCHANGED <<removed, admin, call, answer, start, shown>>
  BY DEF Arrive
<1>2. ASSUME NEW last, NEW gone, Accounts(last, gone) PROVE Accounts(last, gone)'
  <2>1. Skipped(last)' = Skipped(last) /\ Unseen' = Unseen /\ AskedFor(last)' = AskedFor(last)
    BY <1>1 DEF Skipped, Unseen, Passed, Exposed, AskedFor, call
  <2> QED BY <1>1, <1>2, <2>1 DEF Accounts, call, OfKind, Ahead
<1>3. held' \cap removed' = {} /\ held \cup removed \subseteq held' \cup removed'
  BY <1>1 DEF SkipInv
<1> QED BY <1>1, <1>2, <1>3 DEF SkipInv, Exposed, call

\* What an answer leaves unseen is behind its page, or was skipped before, or
\* has moved up past the page because events ahead of it are gone.
LEMMA AnswerMadeUp ==
  ASSUME TimelineInv, SkipInv, Answer, admin,
         NEW last \in SUBSET Exposed(held \cup removed), NEW gone \in SUBSET removed,
         Accounts(last, gone), NEW F, F = events
  PROVE  \E more \in SUBSET removed : Accounts(F, more)'
<1> DEFINE n == Offset
           m == FetchCount
           U == {e \in Unseen \ ThePage : Cardinality(Ahead(F, e)) < m}
           N == {e \in U : ~ (Cardinality(Ahead(last, e)) < n)}
           G == (last \ F) \cap removed
<1>1. /\ TypeOK /\ pc = "fetch" /\ next = 5 /\ page > 0
      /\ m \in Nat /\ n \in Nat /\ n + perPage = m /\ m = page * perPage /\ n < m
  BY Sizing DEF TimelineInv, Answer
<1>2. /\ pc' = "idle" /\ events' = {} /\ shown' = shown \cup ThePage
      /\ answer'.more = (admin /\ HasMore)
      /\ UNCHANGED <<held, removed, admin, page, perPage, totalKnown, start>>
  <2>1. Visible(ThePage) = ThePage
    BY DEF Visible
  <2>2. pc' = "idle" /\ events' = {} /\ shown' = shown \cup ThePage
        /\ UNCHANGED <<held, removed, admin, page, perPage, totalKnown, start>>
    BY <2>1 DEF Answer, Forget
  <2>3. answer'.more = (admin /\ HasMore)
    BY DEF Answer
  <2> QED BY <2>2, <2>3, Zenon
<1>3. /\ last \in SUBSET Event /\ F \in SUBSET Event /\ gone \in SUBSET Event
      /\ Unseen \in SUBSET Event /\ Skipped(last) \in SUBSET Unseen
      /\ AskedFor(last) \in SUBSET Event
  BY AccountTypes
<1>4. U \in SUBSET Event /\ N \in SUBSET U /\ G \in SUBSET Event /\ U \in SUBSET Unseen
  BY <1>3
<1>5. AskedFor(last) = Exposed(start \cup last) \ removed
  <2>1. \A e \in Exposed(start \cup last) : \E i \in 1..(5 - 1) : e.kind = Source[i]
    BY <1>1, <1>3, TimelineAssumption DEF TypeOK, Exposed, Kind
  <2> QED BY <1>1, <2>1 DEF AskedFor
<1>6. ASSUME NEW f \in Event, f \in AskedFor(last), f \notin F
      PROVE  Cardinality(Ahead(F, f)) >= m
  <2> DEFINE V == Ahead(OfKind(F, f.kind), f)
             W == Ahead(F, f)
  <2>1. Cardinality(V) >= m
    BY <1>1, <1>6 DEF Accounts
  <2>2. V \in SUBSET W /\ W \in SUBSET Event
    BY <1>3 DEF Ahead, OfKind
  <2> HIDE DEF V, W, m
  <2>3. Cardinality(W) >= m
    BY <1>1, <2>1, <2>2, Finite
  <2> QED BY <2>3 DEF W
<1>7. \A e \in Unseen : e \in AskedFor(last)
  BY <1>5 DEF Unseen, Exposed
<1>8. ASSUME NEW e \in U PROVE e \in First(F, n)
  <2>1. e \in Event /\ e \in AskedFor(last) /\ Cardinality(Ahead(F, e)) < m
    BY <1>3, <1>7
  <2>2. Ahead(F, e) \in SUBSET Event
    BY <1>3 DEF Ahead
  <2>3. Cardinality(Ahead(F, e)) \in Nat
    BY <2>2, Finite
  <2> HIDE DEF m
  <2>4. e \in F
    BY <1>1, <1>6, <2>1, <2>3
  <2>5. e \in First(F, m) /\ e \notin ThePage
    BY <2>1, <2>4 DEF First
  <2> QED BY <1>1, <2>5 DEF ThePage, m
<1>9. Skipped(F)' = U /\ Unseen' = Unseen \ ThePage
  <2>1. Passed' = m
    BY <1>1, <1>2 DEF Passed
  <2>2. Unseen' = Unseen \ ThePage
    BY <1>2 DEF Unseen, Exposed
  <2> HIDE DEF m
  <2>3. Skipped(F)' = {e \in Unseen' : Cardinality(Ahead(F, e)) < Passed'}
    BY DEF Skipped, Ahead
  <2> QED BY <2>1, <2>2, <2>3
<1>10. Cardinality(N) <= Cardinality(G)
  <2>0. Cardinality({}) = 0 /\ Cardinality(G) \in Nat /\ Cardinality(N) \in Nat
    BY <1>3, <1>4, Finite, FS_EmptySet
  <2>1. CASE N = {}
    <3> HIDE DEF N, G
    <3> QED BY <2>0, <2>1
  <2>2. CASE N # {}
    <3>1. N \in SUBSET First(F, n)
      BY <1>8
    <3>2. \A e \in N : Cardinality(Ahead(last, e)) >= n
      <4> TAKE e \in N
      <4>1. Ahead(last, e) \in SUBSET Event
        BY <1>3 DEF Ahead
      <4>2. Cardinality(Ahead(last, e)) \in Nat
        BY <4>1, Finite
      <4> QED BY <1>1, <4>2
    <3>3. PICK e \in N : Cardinality(Ahead(last, e) \ F) >= Cardinality(N)
      <4> HIDE DEF N, n
      <4> QED BY <1>1, <1>3, <2>2, <3>1, <3>2, MadeUp
    <3>4. e \in Event /\ Ahead(F, e) \in SUBSET Event /\ Cardinality(Ahead(F, e)) < n
      BY <3>1, <1>3 DEF First, Ahead
    <3>5. ASSUME NEW f \in Ahead(last, e) \ F PROVE f \in G
      <4>1. f \in last /\ Newer(f, e) /\ f \in Event
        BY <1>3 DEF Ahead
      <4>2. SUFFICES ASSUME f \notin removed PROVE FALSE
        BY <4>1
      <4>3. f \in AskedFor(last)
        BY <1>5, <4>1, <4>2 DEF Exposed
      <4>4. Cardinality(Ahead(F, f)) >= m
        BY <1>6, <4>1, <4>3
      <4>5. Ahead(F, f) \in SUBSET Ahead(F, e)
        BY <1>3, <3>4, <4>1, NewerOrder DEF Ahead
      <4> DEFINE V == Ahead(F, f)
                 W == Ahead(F, e)
      <4> HIDE DEF V, W, m, n
      <4>6. Cardinality(V) <= Cardinality(W) /\ Cardinality(V) \in Nat /\ Cardinality(W) \in Nat
        BY <3>4, <4>5, Finite DEF V, W
      <4> QED BY <1>1, <3>4, <4>4, <4>6 DEF V, W
    <3>6. Ahead(last, e) \ F \in SUBSET G
      BY <3>5
    <3> DEFINE D == Ahead(last, e) \ F
    <3> HIDE DEF D, G, N
    <3>7. Cardinality(D) <= Cardinality(G) /\ Cardinality(D) \in Nat
      BY <1>4, <3>6, Finite DEF D
    <3>8. Cardinality(D) >= Cardinality(N)
      BY <3>3 DEF D
    <3> QED BY <2>0, <3>7, <3>8
  <2> QED BY <2>1, <2>2
<1>11. Cardinality(U) <= Cardinality(gone \cup G)
  <2>1. U \in SUBSET (Skipped(last) \cup N)
    <3>1. Passed = n
      BY <1>1 DEF Passed, Offset
    <3> QED BY <1>4, <3>1 DEF Skipped
  <2>2. gone \cap G = {}
    BY DEF Accounts
  <2>3. Cardinality(Skipped(last)) <= Cardinality(gone)
    BY DEF Accounts
  <2> DEFINE S == Skipped(last)
  <2> HIDE DEF U, N, G, S
  <2>4. S \in SUBSET Event /\ S \cup N \in SUBSET Event /\ N \in SUBSET Event
    BY <1>3, <1>4 DEF S
  <2>5. Cardinality(U) <= Cardinality(S \cup N) /\ Cardinality(U) \in Nat
    BY <2>1, <2>4, Finite DEF S
  <2>6. Cardinality(S \cup N) <= Cardinality(S) + Cardinality(N)
    BY <2>4, CountBoth
  <2>7. Cardinality(gone \cup G) = Cardinality(gone) + Cardinality(G)
    BY <1>3, <1>4, <2>2, CountBoth
  <2>8. /\ Cardinality(S) \in Nat /\ Cardinality(N) \in Nat /\ Cardinality(S \cup N) \in Nat
        /\ Cardinality(gone) \in Nat /\ Cardinality(G) \in Nat
    BY <1>3, <1>4, <2>4, Finite
  <2> QED BY <1>10, <2>3, <2>5, <2>6, <2>7, <2>8 DEF S
<1>12. ASSUME totalKnown, ~ HasMore PROVE Unseen \ ThePage \subseteq U
  <2> SUFFICES ASSUME NEW e \in Unseen \ ThePage, ~ (Cardinality(Ahead(F, e)) < m)
               PROVE  FALSE
    OBVIOUS
  <2> DEFINE V == Ahead(F, e)
             Y == F \cup AskedFor(last)
  <2>1. V \in SUBSET F /\ V \in SUBSET (Y \ {e}) /\ e \in Y /\ Y \in SUBSET Event
    BY <1>3, <1>7, NewerOrder DEF Ahead
  <2>2. total >= Cardinality(Y) /\ total \in Nat
    BY <1>1, <1>12 DEF Accounts, TypeOK
  <2>3. Cardinality(V) \in Nat /\ ~ (Cardinality(V) < m)
    BY <1>3, <2>1, Finite
  <2> HIDE DEF V, Y, m, n
  <2>4. Cardinality(Y \ {e}) = Cardinality(Y) - 1 /\ Cardinality(Y) \in Nat
    <3>1. IsFiniteSet(Y) /\ Cardinality(Y) \in Nat
      BY <2>1, Finite
    <3> QED BY <2>1, <3>1, FS_RemoveElement
  <2>5. Cardinality(V) <= Cardinality(Y \ {e})
    <3>1. Y \ {e} \in SUBSET Event
      BY <2>1
    <3> QED BY <2>1, <3>1, Finite
  <2>6. Cardinality(V) <= Cardinality(F) /\ Cardinality(F) \in Nat
    BY <1>3, <2>1, Finite
  <2>7. total > m /\ Cardinality(F) >= m
    BY <1>1, <2>2, <2>3, <2>4, <2>5, <2>6
  <2>8. HasMore
    <3>1. Offset + perPage = m /\ Offset < m /\ Offset \in Nat
      BY <1>1 DEF n
    <3> QED BY <1>1, <1>12, <2>6, <2>7, <3>1 DEF HasMore
  <2> QED BY <1>12, <2>8
<1>13. PICK more : more = gone \cup G
  OBVIOUS
<1>14. Accounts(F, more)'
  <2>1. more \cap (F \cup events') = {}
    BY <1>2, <1>13 DEF Accounts
  <2>2. totalKnown' /\ ~ answer'.more => U = Unseen \ ThePage
    BY <1>2, <1>4, <1>12
  <2>3. Cardinality(U) <= Cardinality(more)
    BY <1>11, <1>13
  <2> HIDE DEF G, U
  <2> QED BY <1>2, <1>9, <2>1, <2>2, <2>3 DEF Accounts
<1>15. more \in SUBSET removed
  BY <1>13
<1> QED BY <1>14, <1>15

\* A page is answered: what was fetched for it is the last answer.
LEMMA SkipAnswer ==
  ASSUME TimelineInv, SkipInv, Answer
  PROVE  SkipInv'
<1>1. /\ UNCHANGED <<held, removed, admin, start>> /\ pc' = "idle" /\ events' = {}
  BY DEF Answer, Forget
<1>2. PICK F : F = events
  OBVIOUS
<1>3. F \in SUBSET Exposed(held \cup removed)
  BY <1>2 DEF SkipInv
<1>4. ASSUME admin PROVE \E more \in SUBSET removed : Accounts(F, more)'
  <2>1. PICK last \in SUBSET Exposed(held \cup removed), gone \in SUBSET removed :
          Accounts(last, gone)
    BY <1>4 DEF SkipInv
  <2> QED BY <1>2, <1>4, <2>1, AnswerMadeUp
<1> QED BY <1>1, <1>3, <1>4 DEF SkipInv, Exposed

LEMMA SkipStep ==
  ASSUME TimelineInv, SkipInv, [Next]_vars
  PROVE  SkipInv'
<1>1. CASE UNCHANGED vars
  <2>1. ASSUME NEW last, NEW gone, Accounts(last, gone) PROVE Accounts(last, gone)'
    <3>1. /\ Skipped(last)' = Skipped(last) /\ Unseen' = Unseen
          /\ AskedFor(last)' = AskedFor(last)
      BY <1>1 DEF vars, call, Skipped, Unseen, Passed, Exposed, AskedFor
    <3> QED BY <1>1, <2>1, <3>1 DEF vars, call, Accounts, OfKind, Ahead
  <2> QED BY <1>1, <2>1 DEF vars, call, SkipInv, Exposed
<1> QED BY <1>1, SkipArrive, SkipRemove, SkipOpen, SkipTurn, SkipFetch, SkipLeavesOut, SkipFail,
           SkipAnswer DEF Next

\* While an administrator turns pages, what they have passed unseen is made up
\* for by events that were on one answer and had been removed by the next
\* (timeline.go:71-89, 107-120).
THEOREM SkipInvariant == Spec => []SkipInv
<1>1. TimelineInv /\ SkipInv /\ [Next]_vars => SkipInv'
  BY SkipStep
<1> QED BY SkipInit, <1>1, TimelineInvariant, PTL DEF Spec

\* An administrator who turns pages until has_more is false has been shown all
\* that was there at the beginning, but for one event, at most, for each that
\* was removed, whatever arrived meanwhile and whatever pages failed.
THEOREM SkipsAreMadeUpFor == Spec => []SkipsOnlyForRemoved
<1>1. ASSUME TimelineInv, SkipInv PROVE SkipsOnlyForRemoved
  <2> SUFFICES ASSUME pc = "idle", page > 0, admin, totalKnown, ~ answer.more
               PROVE  Cardinality(Unseen) <= Cardinality(removed)
    BY DEF SkipsOnlyForRemoved, Unseen
  <2>1. PICK last \in SUBSET Exposed(held \cup removed), gone \in SUBSET removed :
          Accounts(last, gone)
    BY <1>1 DEF SkipInv
  <2>2. Cardinality(Unseen) <= Cardinality(gone)
    BY <2>1 DEF Accounts
  <2>3. removed \in SUBSET Event /\ Unseen \in SUBSET Event
    BY <1>1, <2>1, AccountTypes DEF TimelineInv, TypeOK
  <2>4. Cardinality(gone) <= Cardinality(removed) /\ Cardinality(gone) \in Nat
        /\ Cardinality(removed) \in Nat /\ Cardinality(Unseen) \in Nat
    BY <2>3, Finite
  <2> QED BY <2>2, <2>4
<1> QED BY <1>1, TimelineInvariant, SkipInvariant, PTL
=============================================================================
