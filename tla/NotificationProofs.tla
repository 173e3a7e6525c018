------------------------- MODULE NotificationProofs -------------------------
(* What an answer of the notification center promised holds from then on, or *)
(* the call or recorder that broke it is known: for any number of users,     *)
(* calls and recorders, however they overlap and whatever KV calls fail.     *)
EXTENDS NotificationCenter, TLAPS

\* Nothing has been read, dismissed or named at the start.
LEMMA CInit == Init => CInv
<1> SUFFICES ASSUME Init PROVE CInv
  OBVIOUS
<1>1. 1 \in 1..MaxTime /\ 0 \in 0..MaxTime
  BY CenterAssumption
<1>2. TypeOK
  <2>1. (CHOOSE n \in Note : TRUE) \in Note
    BY CenterAssumption
  <2>2. about \in [Call -> Note] /\ seen \in [Call -> SUBSET Note]
    BY <2>1 DEF Init
  <2>3. <<>> \in Seq(Note)
    OBVIOUS
  <2>4. store \in Seq(Note) /\ rsnap \in [Note -> Seq(Note)]
    BY <2>3 DEF Init
  <2> QED BY <1>1, <2>2, <2>4 DEF Init, TypeOK
<1>3. OnlyStampedAreNamed /\ CallKnows
  BY DEF Init, OnlyStampedAreNamed, CallKnows
<1>4. RecorderKnows
  BY CenterAssumption DEF Init, RecorderKnows, NewestFirst
<1> QED BY <1>2, <1>3, <1>4 DEF CInv

\* recordNotification puts the new notification before those it has read, and
\* cuts off the last one of a full list.
LEMMA CappedIs ==
  ASSUME NEW n \in Note, NEW list \in Seq(Note), Len(list) <= MaxStored
  PROVE  LET capped == Capped(<<n>> \o list) IN
         /\ capped \in Seq(Note) /\ DOMAIN capped = 1..Len(capped)
         /\ Len(capped) = IF Len(list) < MaxStored THEN Len(list) + 1 ELSE MaxStored
         /\ 1 \in DOMAIN capped /\ capped[1] = n
         /\ \A i \in DOMAIN capped \ {1} : i - 1 \in DOMAIN list /\ capped[i] = list[i - 1]
<1> DEFINE longer == <<n>> \o list
           last   == IF Len(longer) < MaxStored THEN Len(longer) ELSE MaxStored
<1>1. longer \in Seq(Note) /\ Len(longer) = Len(list) + 1
  OBVIOUS
<1>2. last \in 1..Len(longer)
  BY <1>1, CenterAssumption
<1>3. \A i \in 1..Len(longer) : longer[i] = IF i = 1 THEN n ELSE list[i - 1]
  OBVIOUS
<1>0. last = IF Len(list) < MaxStored THEN Len(list) + 1 ELSE MaxStored
  BY <1>1, CenterAssumption
<1> HIDE DEF longer
<1>4. Capped(longer) = SubSeq(longer, 1, last)
  BY DEF Capped
<1>5. /\ Capped(longer) \in Seq(Note)
      /\ Len(Capped(longer)) = last /\ DOMAIN Capped(longer) = 1..last
      /\ \A i \in 1..last : Capped(longer)[i] = longer[i]
  <2> HIDE DEF last
  <2> QED BY <1>1, <1>2, <1>4
<1>6. \A i \in 1..last : i = 1 \/ i - 1 \in DOMAIN list
  BY <1>1, <1>2
<1>8. \A i \in 1..last : i \in 1..Len(longer)
  BY <1>1, <1>2
<1> HIDE DEF last
<1>9. \A i \in DOMAIN Capped(longer) \ {1} :
        i - 1 \in DOMAIN list /\ Capped(longer)[i] = list[i - 1]
  BY <1>3, <1>5, <1>6, <1>8
<1>10. 1 \in DOMAIN Capped(longer) /\ Capped(longer)[1] = n
  BY <1>2, <1>3, <1>5, <1>8
<1> QED BY <1>0, <1>5, <1>9, <1>10 DEF longer

-----------------------------------------------------------------------------
(* Types, and what may be named. *)

\* Every step keeps the types.
LEMMA CType ==
  ASSUME CInv, Next
  PROVE  TypeOK'
<1> USE DEF recVars, callVars
<1>0. TypeOK
  BY DEF CInv
<1>t. 0 \in 0..MaxTime /\ <<>> \in Seq(Note)
  BY CenterAssumption
<1>1. CASE Tick
  <2>1. now' \in 1..MaxTime
    BY <1>0, <1>1, CenterAssumption DEF TypeOK, Tick
  <2> QED BY <1>0, <1>1, <2>1 DEF TypeOK, Tick
<1>2. ASSUME NEW n \in Note, RecordNext(n) PROVE TypeOK'
  <2>1. CASE Stamp(n)
    <3>1. now \in 0..MaxTime
      BY <1>0, CenterAssumption DEF TypeOK
    <3> QED BY <1>0, <2>1, <3>1 DEF TypeOK, Stamp
  <2>2. CASE RecordGet(n)
    <3>1. PICK list \in KVGet(store, <<>>) : rsnap' = [rsnap EXCEPT ![n] = list]
      BY <2>2 DEF RecordGet
    <3>2. list \in Seq(Note)
      BY <1>0, <1>t, <3>1 DEF KVGet, TypeOK
    <3>3. \A m \in Note : losers[m] \cup {n} \in SUBSET Note /\ losers[m] \in SUBSET Note
      BY <1>0 DEF TypeOK
    <3>4. losers' \in [Note -> SUBSET Note]
      BY <2>2, <3>3 DEF RecordGet
    <3> QED BY <1>0, <2>2, <3>1, <3>2, <3>4 DEF TypeOK, RecordGet
  <2>3. CASE RecordSet(n)
    <3>1. rsnap[n] \in Seq(Note) /\ Len(rsnap[n]) <= MaxStored
      BY <1>0 DEF TypeOK, CInv, RecorderKnows, NewestFirst
    <3>2. store' \in Seq(Note)
      BY <2>3, <3>1, CappedIs DEF RecordSet
    <3> QED BY <1>0, <2>3, <3>2 DEF TypeOK, RecordSet, Recorded
  <2>4. CASE RecordFails(n)
    BY <1>0, <2>4 DEF TypeOK, RecordFails
  <2> QED BY <1>2, <2>1, <2>2, <2>3, <2>4 DEF RecordNext
<1>3. ASSUME NEW c \in Call, CallNext(c) PROVE TypeOK'
  <2>0. CallerOf[c] \in User /\ created[about[c]] \in 0..MaxTime
    BY <1>0, CenterAssumption DEF TypeOK
  <2>1. CASE \E n \in Note : Request(c, n)
    BY <1>0, <2>1 DEF TypeOK, Request
  <2>2. CASE ReadFind(c)
    BY <1>0, <2>2 DEF TypeOK, ReadFind
  <2>3. CASE ReadGet(c)
    <3>1. PICK current \in KVGet(readAt[CallerOf[c]], 0) :
            /\ mark' = [mark EXCEPT ![c] = current]
            /\ undoers' = [d \in Call |->
                 IF current # readAt[CallerOf[c]] /\ d \in Others(c, "read") /\ Older(c, d)
                 THEN undoers[d] \cup {c} ELSE undoers[d]]
      BY <2>3 DEF ReadGet
    <3>2. current \in 0..MaxTime
      BY <1>0, <1>t, <2>0, <3>1 DEF TypeOK, KVGet
    <3>3. undoers' \in [Call -> SUBSET Call]
      BY <1>0, <3>1 DEF TypeOK
    <3> QED BY <1>0, <2>3, <3>1, <3>2, <3>3 DEF TypeOK, ReadGet
  <2>4. CASE ReadIsDone(c)
    BY <1>0, <2>4 DEF TypeOK, ReadIsDone, ReadRivals, Others
  <2>5. CASE ReadSet(c)
    <3>1. ReadRivals(c) \in SUBSET Call /\ {c} \in SUBSET Call
      BY DEF ReadRivals, Others
    <3>2. undoers' \in [Call -> SUBSET Call] /\ readAt' \in [User -> 0..MaxTime]
      BY <1>0, <2>0, <2>5, <3>1 DEF TypeOK, ReadSet
    <3> QED BY <1>0, <2>5, <3>2 DEF TypeOK, ReadSet
  <2>6. CASE DismissGet(c)
    <3>1. PICK ids \in KVGet(dismissed[CallerOf[c]], {}) :
            /\ seen' = [seen EXCEPT ![c] = ids]
            /\ undoers' = [d \in Call |->
                 IF ids # dismissed[CallerOf[c]] /\ d \in Others(c, "gone") /\ about[d] # about[c]
                 THEN undoers[d] \cup {c} ELSE undoers[d]]
      BY <2>6 DEF DismissGet
    <3>2. ids \in SUBSET Note
      BY <1>0, <2>0, <3>1 DEF TypeOK, KVGet
    <3>3. undoers' \in [Call -> SUBSET Call]
      BY <1>0, <3>1 DEF TypeOK
    <3> QED BY <1>0, <2>6, <3>1, <3>2, <3>3 DEF TypeOK, DismissGet
  <2>7. CASE DismissIsDone(c)
    BY <1>0, <2>7 DEF TypeOK, DismissIsDone, DismissRivals, Others
  <2>8. CASE DismissSet(c)
    <3>1. DismissRivals(c) \in SUBSET Call /\ {c} \in SUBSET Call
      BY DEF DismissRivals, Others
    <3>2. /\ undoers' \in [Call -> SUBSET Call]
          /\ dismissed' \in [User -> SUBSET Note]
      BY <1>0, <2>0, <2>8, <3>1 DEF TypeOK, DismissSet
    <3> QED BY <1>0, <2>8, <3>2 DEF TypeOK, DismissSet
  <2> QED BY <1>3, <2>1, <2>2, <2>3, <2>4, <2>5, <2>6, <2>7, <2>8 DEF CallNext
<1> QED BY <1>1, <1>2, <1>3 DEF Next

\* What a recorder does to the lists, and to the notifications others refer to.
LEMMA CRecordFrame ==
  ASSUME CInv, NEW n \in Note, RecordNext(n)
  PROVE  /\ UNCHANGED <<now, readAt, dismissed, callVars>>
         /\ \A m \in Note : rpc[m] = "done" => rpc'[m] = "done"
         /\ \A m \in Note : rpc[m] = "done" => created'[m] = created[m]
  BY DEF CInv, TypeOK, RecordNext, Stamp, RecordGet, RecordSet, RecordFails

\* Only notifications that have been recorded are named anywhere.
LEMMA CNamed ==
  ASSUME CInv, Next
  PROVE  OnlyStampedAreNamed'
<1>0. /\ TypeOK /\ OnlyStampedAreNamed
      /\ \A i \in DOMAIN store : store[i] \in Note
      /\ \A m \in Note : \A i \in DOMAIN rsnap[m] : rsnap[m][i] \in Note
      /\ \A c \in Call : about[c] \in Note
  BY DEF CInv, TypeOK
<1>1. CASE Tick
  BY <1>0, <1>1 DEF Tick, recVars, callVars, OnlyStampedAreNamed
<1>2. ASSUME NEW n \in Note, RecordNext(n) PROVE OnlyStampedAreNamed'
  <2>0. /\ \A m \in Note : rpc[m] = "done" => rpc'[m] = "done"
        /\ UNCHANGED <<cpc, about>>
    BY <1>2, CRecordFrame DEF callVars
  <2>1. \A c \in Call : cpc'[c] # "none" => rpc'[about'[c]] = "done"
    BY <1>0, <2>0 DEF OnlyStampedAreNamed
  <2>2. \A i \in DOMAIN store' : rpc'[store'[i]] = "done"
    <3>1. CASE RecordSet(n)
      <4>1. rsnap[n] \in Seq(Note) /\ Len(rsnap[n]) <= MaxStored /\ rpc'[n] = "done"
        BY <1>0, <3>1 DEF TypeOK, CInv, RecorderKnows, NewestFirst, RecordSet
      <4>2. \A i \in DOMAIN store' : \/ store'[i] = n
                                     \/ i - 1 \in DOMAIN rsnap[n] /\ store'[i] = rsnap[n][i - 1]
        BY <3>1, <4>1, CappedIs DEF RecordSet
      <4> QED BY <1>0, <2>0, <4>1, <4>2 DEF OnlyStampedAreNamed
    <3>2. CASE ~ RecordSet(n)
      <4>1. store' = store
        BY <1>2, <3>2 DEF RecordNext, Stamp, RecordGet, RecordFails
      <4> QED BY <1>0, <2>0, <4>1 DEF OnlyStampedAreNamed
    <3> QED BY <3>1, <3>2
  <2>3. \A m \in Note : \A i \in DOMAIN rsnap'[m] : rpc'[rsnap'[m][i]] = "done"
    <3>1. CASE RecordGet(n)
      <4>1. \A m \in Note : rsnap'[m] = rsnap[m] \/ rsnap'[m] = store \/ rsnap'[m] = <<>>
        BY <1>0, <3>1 DEF RecordGet, KVGet, TypeOK
      <4> QED BY <1>0, <2>0, <4>1 DEF OnlyStampedAreNamed
    <3>2. CASE ~ RecordGet(n)
      <4>1. rsnap' = rsnap
        BY <1>2, <3>2 DEF RecordNext, Stamp, RecordSet, RecordFails
      <4> QED BY <1>0, <2>0, <4>1 DEF OnlyStampedAreNamed
    <3> QED BY <3>1, <3>2
  <2> QED BY <2>1, <2>2, <2>3 DEF OnlyStampedAreNamed
<1>3. ASSUME NEW c \in Call, CallNext(c) PROVE OnlyStampedAreNamed'
  <2>1. UNCHANGED <<store, rpc, rsnap>>
    BY <1>3 DEF CallNext, Request, ReadFind, ReadGet, ReadIsDone, ReadSet, DismissGet,
         DismissIsDone, DismissSet, recVars
  <2>2. \A d \in Call : cpc'[d] # "none" => rpc[about'[d]] = "done"
    <3>1. CASE \E n \in Note : Request(c, n)
      BY <1>0, <3>1 DEF Request, InStore, OnlyStampedAreNamed, TypeOK
    <3>2. CASE ~ \E n \in Note : Request(c, n)
      <4>1. about' = about /\ \A d \in Call : cpc'[d] # "none" => cpc[d] # "none"
        BY <1>0, <1>3, <3>2 DEF CallNext, ReadFind, ReadGet, ReadIsDone, ReadSet, DismissGet,
             DismissIsDone, DismissSet, TypeOK
      <4> QED BY <1>0, <4>1 DEF OnlyStampedAreNamed
    <3> QED BY <3>1, <3>2
  <2> QED BY <1>0, <2>1, <2>2 DEF OnlyStampedAreNamed
<1> QED BY <1>1, <1>2, <1>3 DEF Next

-----------------------------------------------------------------------------
(* The calls of a user. *)

\* A step of another call leaves an undone call undone.
LEMMA UndoneStays ==
  ASSUME TypeOK, NEW c \in Call, cpc[c] \notin {"read", "gone"},
         \A d \in Call \ {c} : cpc'[d] = cpc[d],
         NEW e \in Call, Undone(e), undoers[e] \subseteq undoers'[e]
  PROVE  Undone(e)'
<1>1. PICK d \in undoers[e] : cpc[d] \in {"read", "gone"}
  BY DEF Undone
<1>2. d \in Call \ {c}
  BY <1>1 DEF TypeOK
<1> QED BY <1>1, <1>2 DEF Undone

\* Steps of a call that neither answer it nor bring it before a write.
LEMMA CQuietCall ==
  ASSUME CInv, NEW c \in Call, (\E n \in Note : Request(c, n)) \/ ReadFind(c)
  PROVE  CallKnows'
<1>0. TypeOK /\ CallKnows /\ CallNext(c)
  BY DEF CInv, CallNext
<1>1. /\ UNCHANGED <<created, readAt, dismissed, mark, seen, undoers>>
      /\ \A d \in Call \ {c} : cpc'[d] = cpc[d] /\ about'[d] = about[d]
      /\ cpc[c] \in {"none", "find"} /\ cpc'[c] \in {"find", "getSet", "getMark", "notFound"}
  BY <1>0 DEF Request, ReadFind, TypeOK, recVars
<1> SUFFICES ASSUME NEW e \in Call \ {c}
             PROVE  /\ cpc[e] = "read" => ReadRivals(e)' = ReadRivals(e)
                    /\ cpc[e] = "gone" => DismissRivals(e)' = DismissRivals(e)
                    /\ Undone(e) => Undone(e)'
  BY <1>0, <1>1 DEF CallKnows
<1>2. ReadRivals(e)' = ReadRivals(e)
  BY <1>1 DEF ReadRivals, Others, Older
<1>3. DismissRivals(e)' = DismissRivals(e)
  BY <1>1 DEF DismissRivals, Others
<1>4. Undone(e) => Undone(e)'
  BY <1>0, <1>1 DEF Undone, TypeOK
<1> QED BY <1>2, <1>3, <1>4

\* A call that has read the marker before its write.
LEMMA CReadGet ==
  ASSUME CInv, NEW c \in Call, ReadGet(c)
  PROVE  CallKnows'
<1>0. TypeOK /\ CallKnows
  BY DEF CInv
<1>1. PICK current \in KVGet(readAt[CallerOf[c]], 0) :
        /\ created[about[c]] > current
        /\ mark' = [mark EXCEPT ![c] = current]
        /\ undoers' = [d \in Call |->
             IF current # readAt[CallerOf[c]] /\ d \in Others(c, "read") /\ Older(c, d)
             THEN undoers[d] \cup {c} ELSE undoers[d]]
  BY DEF ReadGet
<1>2. /\ UNCHANGED <<created, readAt, dismissed, about, seen>>
      /\ cpc[c] = "getMark" /\ cpc'[c] = "setMark"
      /\ \A d \in Call \ {c} : cpc'[d] = cpc[d] /\ mark'[d] = mark[d]
      /\ mark'[c] = current
      /\ \A d \in Call : undoers[d] \subseteq undoers'[d]
  BY <1>0, <1>1 DEF ReadGet, TypeOK, recVars
<1>3. \A e \in Call : created[about[e]] \in Nat /\ readAt[CallerOf[e]] \in Nat
  BY <1>0, CenterAssumption DEF TypeOK
<1>u. ASSUME NEW e \in Call, Undone(e) PROVE Undone(e)'
  <2>1. cpc[c] \notin {"read", "gone"} /\ undoers[e] \subseteq undoers'[e]
    BY <1>2, <1>u
  <2> QED BY <1>0, <1>2, <1>u, <2>1, UndoneStays
<1>4. ASSUME NEW e \in Call, cpc'[e] = "setMark" PROVE created'[about'[e]] > mark'[e]
  <2>1. CASE e = c
    BY <1>1, <1>2, <2>1
  <2>2. CASE e # c
    BY <1>0, <1>2, <1>4, <2>2 DEF CallKnows
  <2> QED BY <2>1, <2>2
<1>5. ASSUME NEW e \in Call, cpc'[e] = "read"
      PROVE  /\ created'[about'[e]] <= readAt'[CallerOf[e]] \/ Undone(e)'
             /\ ReadRivals(e)' \subseteq undoers'[e] \/ Undone(e)'
  <2>1. e # c /\ cpc[e] = "read"
    BY <1>2, <1>5
  <2>2. CASE Undone(e)
    BY <1>u, <2>2
  <2>3. CASE ~ Undone(e)
    <3>1. created[about[e]] <= readAt[CallerOf[e]] /\ ReadRivals(e) \subseteq undoers[e]
      BY <1>0, <2>1, <2>3 DEF CallKnows
    <3>2. ReadRivals(e)' \subseteq ReadRivals(e) \cup {c}
      BY <1>2 DEF ReadRivals, Others, Older
    <3>3. c \in ReadRivals(e)' => c \in undoers'[e]
      <4>1. HAVE c \in ReadRivals(e)'
      <4>2. CallerOf[c] = CallerOf[e] /\ created[about[c]] < created[about[e]]
        BY <1>2, <4>1 DEF ReadRivals, Others, Older
      <4>3. current # readAt[CallerOf[c]]
        BY <1>1, <1>3, <3>1, <4>2
      <4>4. e \in Others(c, "read") /\ Older(c, e)
        BY <2>1, <4>2 DEF Others, Older
      <4> QED BY <1>1, <4>3, <4>4
    <3> QED BY <1>2, <3>1, <3>2, <3>3
  <2> QED BY <2>2, <2>3
<1>6. ASSUME NEW e \in Call, cpc'[e] = "gone"
      PROVE  /\ about'[e] \in dismissed'[CallerOf[e]] \/ Undone(e)'
             /\ DismissRivals(e)' \subseteq undoers'[e] \/ Undone(e)'
  <2>1. e # c /\ cpc[e] = "gone"
    BY <1>2, <1>6
  <2>2. DismissRivals(e)' \subseteq DismissRivals(e)
    BY <1>2 DEF DismissRivals, Others
  <2> QED BY <1>0, <1>2, <1>u, <2>1, <2>2 DEF CallKnows
<1> QED BY <1>4, <1>5, <1>6 DEF CallKnows

\* A call that answers on a marker it has found moved already, or has moved.
LEMMA CReadAnswer ==
  ASSUME CInv, NEW c \in Call, ReadIsDone(c) \/ ReadSet(c)
  PROVE  CallKnows'
<1>0. TypeOK /\ CallKnows /\ CallerOf[c] \in User
  BY CenterAssumption DEF CInv
<1>3. \A e \in Call : created[about[e]] \in Nat /\ readAt[CallerOf[e]] \in Nat
  BY <1>0, CenterAssumption DEF TypeOK
<1>2. /\ UNCHANGED <<created, dismissed, about, mark, seen>>
      /\ cpc[c] \in {"getMark", "setMark"} /\ cpc'[c] = "read"
      /\ \A d \in Call \ {c} : cpc'[d] = cpc[d] /\ undoers'[d] = undoers[d]
      /\ \A u \in User \ {CallerOf[c]} : readAt'[u] = readAt[u]
  BY <1>0 DEF ReadIsDone, ReadSet, TypeOK, recVars
\* Unless it failed to write, the marker is where the answer says.
<1>1. \/ undoers'[c] = {c} /\ readAt' = readAt
      \/ /\ undoers'[c] = ReadRivals(c)
         /\ created[about[c]] <= readAt'[CallerOf[c]]
         /\ \/ readAt' = readAt
            \/ readAt'[CallerOf[c]] = created[about[c]] /\ cpc[c] = "setMark"
  <2>1. CASE ReadIsDone(c)
    <3>1. PICK current \in KVGet(readAt[CallerOf[c]], 0) : created[about[c]] <= current
      BY <2>1 DEF ReadIsDone
    <3>2. created[about[c]] <= readAt[CallerOf[c]]
      BY <1>3, <3>1 DEF KVGet
    <3> QED BY <1>0, <2>1, <3>2 DEF ReadIsDone, TypeOK
  <2>2. CASE ReadSet(c)
    <3>1. PICK ok \in KVWrites :
            /\ readAt' = IF ok THEN [readAt EXCEPT ![CallerOf[c]] = created[about[c]]] ELSE readAt
            /\ undoers' = [undoers EXCEPT ![c] = IF ok THEN ReadRivals(c) ELSE {c}]
      BY <2>2 DEF ReadSet
    <3>2. cpc[c] = "setMark"
      BY <2>2 DEF ReadSet
    <3>3. CASE ok
      <4>1. readAt'[CallerOf[c]] = created[about[c]] /\ undoers'[c] = ReadRivals(c)
        BY <1>0, <3>1, <3>3 DEF TypeOK
      <4> QED BY <1>3, <3>2, <4>1
    <3>4. CASE ~ ok
      BY <1>0, <3>1, <3>4 DEF TypeOK
    <3> QED BY <3>3, <3>4
  <2> QED BY <2>1, <2>2
<1>u. ASSUME NEW e \in Call \ {c}, Undone(e) PROVE Undone(e)'
  <2>1. cpc[c] \notin {"read", "gone"} /\ undoers[e] \subseteq undoers'[e]
    BY <1>2, <1>u
  <2> QED BY <1>0, <1>2, <1>u, <2>1, UndoneStays
<1>r. \A e \in Call : ReadRivals(e)' \subseteq ReadRivals(e)
  BY <1>2 DEF ReadRivals, Others, Older
<1>d. \A e \in Call : DismissRivals(e)' \subseteq DismissRivals(e)
  BY <1>2 DEF DismissRivals, Others
<1>4. ASSUME NEW e \in Call, cpc'[e] = "setMark" PROVE created'[about'[e]] > mark'[e]
  BY <1>0, <1>2, <1>4 DEF CallKnows
<1>5. ASSUME NEW e \in Call, cpc'[e] = "read"
      PROVE  /\ created'[about'[e]] <= readAt'[CallerOf[e]] \/ Undone(e)'
             /\ ReadRivals(e)' \subseteq undoers'[e] \/ Undone(e)'
  <2>1. CASE e = c
    <3>1. CASE undoers'[c] = {c}
      BY <1>2, <2>1, <3>1 DEF Undone
    <3>2. CASE undoers'[c] # {c}
      BY <1>1, <1>2, <1>r, <2>1, <3>2
    <3>3. CASE undoers'[c] = ReadRivals(c) /\ created[about[c]] <= readAt'[CallerOf[c]]
      BY <1>2, <1>r, <2>1, <3>3
    <3> QED BY <3>1, <3>2, <3>3
  <2>2. CASE e # c /\ Undone(e)
    BY <1>u, <2>2
  <2>3. CASE e # c /\ ~ Undone(e)
    <3>1. /\ created[about[e]] <= readAt[CallerOf[e]] /\ ReadRivals(e) \subseteq undoers[e]
          /\ CallerOf[e] \in User
      BY <1>0, <1>2, <1>5, <2>3, CenterAssumption DEF CallKnows
    <3>2. created[about[e]] <= readAt'[CallerOf[e]] \/ Undone(e)'
      <4>1. CASE readAt'[CallerOf[e]] = readAt[CallerOf[e]]
        BY <3>1, <4>1
      <4>2. CASE readAt'[CallerOf[e]] # readAt[CallerOf[e]]
        <5>1. /\ CallerOf[e] = CallerOf[c] /\ cpc[c] = "setMark"
              /\ readAt'[CallerOf[e]] = created[about[c]]
          BY <1>1, <1>2, <3>1, <4>2
        <5>2. CASE Older(c, e)
          <6>1. c \in ReadRivals(e)
            BY <2>3, <5>1, <5>2 DEF ReadRivals, Others
          <6> QED BY <1>2, <2>3, <3>1, <6>1 DEF Undone
        <5>3. CASE ~ Older(c, e)
          BY <1>3, <5>1, <5>3 DEF Older
        <5> QED BY <5>2, <5>3
      <4> QED BY <4>1, <4>2
    <3> QED BY <1>2, <1>r, <2>3, <3>1, <3>2
  <2> QED BY <2>1, <2>2, <2>3
<1>6. ASSUME NEW e \in Call, cpc'[e] = "gone"
      PROVE  /\ about'[e] \in dismissed'[CallerOf[e]] \/ Undone(e)'
             /\ DismissRivals(e)' \subseteq undoers'[e] \/ Undone(e)'
  <2>1. e # c /\ cpc[e] = "gone"
    BY <1>2, <1>6
  <2> QED BY <1>0, <1>2, <1>u, <1>d, <2>1 DEF CallKnows
<1> QED BY <1>4, <1>5, <1>6 DEF CallKnows

\* A call that has read the dismissed ids before its write.
LEMMA CDismissGet ==
  ASSUME CInv, NEW c \in Call, DismissGet(c)
  PROVE  CallKnows'
<1>0. TypeOK /\ CallKnows
  BY DEF CInv
<1>1. PICK ids \in KVGet(dismissed[CallerOf[c]], {}) :
        /\ seen' = [seen EXCEPT ![c] = ids]
        /\ undoers' = [d \in Call |->
             IF ids # dismissed[CallerOf[c]] /\ d \in Others(c, "gone") /\ about[d] # about[c]
             THEN undoers[d] \cup {c} ELSE undoers[d]]
  BY DEF DismissGet
<1>2. /\ UNCHANGED <<created, readAt, dismissed, about, mark>>
      /\ cpc[c] = "getSet" /\ cpc'[c] = "putSet"
      /\ \A d \in Call \ {c} : cpc'[d] = cpc[d] /\ seen'[d] = seen[d]
      /\ seen'[c] = ids
      /\ \A d \in Call : undoers[d] \subseteq undoers'[d]
  BY <1>0, <1>1 DEF DismissGet, TypeOK, recVars
<1>u. ASSUME NEW e \in Call, Undone(e) PROVE Undone(e)'
  <2>1. cpc[c] \notin {"read", "gone"} /\ undoers[e] \subseteq undoers'[e]
    BY <1>2, <1>u
  <2> QED BY <1>0, <1>2, <1>u, <2>1, UndoneStays
<1>4. ASSUME NEW e \in Call, cpc'[e] = "setMark" PROVE created'[about'[e]] > mark'[e]
  BY <1>0, <1>2, <1>4 DEF CallKnows
<1>5. ASSUME NEW e \in Call, cpc'[e] = "read"
      PROVE  /\ created'[about'[e]] <= readAt'[CallerOf[e]] \/ Undone(e)'
             /\ ReadRivals(e)' \subseteq undoers'[e] \/ Undone(e)'
  <2>1. e # c /\ cpc[e] = "read"
    BY <1>2, <1>5
  <2>2. ReadRivals(e)' \subseteq ReadRivals(e)
    BY <1>2 DEF ReadRivals, Others, Older
  <2> QED BY <1>0, <1>2, <1>u, <2>1, <2>2 DEF CallKnows
<1>6. ASSUME NEW e \in Call, cpc'[e] = "gone"
      PROVE  /\ about'[e] \in dismissed'[CallerOf[e]] \/ Undone(e)'
             /\ DismissRivals(e)' \subseteq undoers'[e] \/ Undone(e)'
  <2>1. e # c /\ cpc[e] = "gone"
    BY <1>2, <1>6
  <2>2. CASE Undone(e)
    BY <1>u, <2>2
  <2>3. CASE ~ Undone(e)
    <3>1. about[e] \in dismissed[CallerOf[e]] /\ DismissRivals(e) \subseteq undoers[e]
      BY <1>0, <2>1, <2>3 DEF CallKnows
    <3>2. DismissRivals(e)' \subseteq DismissRivals(e) \cup {c}
      BY <1>2 DEF DismissRivals, Others
    <3>3. c \in DismissRivals(e)' => c \in undoers'[e]
      <4>1. HAVE c \in DismissRivals(e)'
      <4>2. CallerOf[c] = CallerOf[e] /\ about[e] \notin ids \cup {about[c]}
        BY <1>2, <4>1 DEF DismissRivals, Others
      <4>3. ids # dismissed[CallerOf[c]]
        BY <3>1, <4>2
      <4>4. e \in Others(c, "gone") /\ about[e] # about[c]
        BY <2>1, <4>2 DEF Others
      <4> QED BY <1>1, <4>3, <4>4
    <3> QED BY <1>2, <3>1, <3>2, <3>3
  <2> QED BY <2>2, <2>3
<1> QED BY <1>4, <1>5, <1>6 DEF CallKnows

\* A call that answers on an id it has found dismissed already, or has put there.
LEMMA CDismissAnswer ==
  ASSUME CInv, NEW c \in Call, DismissIsDone(c) \/ DismissSet(c)
  PROVE  CallKnows'
<1>0. TypeOK /\ CallKnows /\ CallerOf[c] \in User
  BY CenterAssumption DEF CInv
<1>2. /\ UNCHANGED <<created, readAt, about, mark, seen>>
      /\ cpc[c] \in {"getSet", "putSet"} /\ cpc'[c] = "gone"
      /\ \A d \in Call \ {c} : cpc'[d] = cpc[d] /\ undoers'[d] = undoers[d]
      /\ \A u \in User \ {CallerOf[c]} : dismissed'[u] = dismissed[u]
  BY <1>0 DEF DismissIsDone, DismissSet, TypeOK, recVars
<1>1. \/ undoers'[c] = {c} /\ dismissed' = dismissed
      \/ /\ undoers'[c] = DismissRivals(c)
         /\ about[c] \in dismissed'[CallerOf[c]]
         /\ \/ dismissed' = dismissed
            \/ /\ dismissed'[CallerOf[c]] = seen[c] \cup {about[c]} /\ cpc[c] = "putSet"
  <2>1. CASE DismissIsDone(c)
    <3>1. about[c] \in dismissed[CallerOf[c]]
      BY <2>1 DEF DismissIsDone, KVGet
    <3> QED BY <1>0, <2>1, <3>1 DEF DismissIsDone, TypeOK
  <2>2. CASE DismissSet(c)
    <3>1. PICK ok \in KVWrites :
            /\ dismissed' = IF ok THEN [dismissed EXCEPT ![CallerOf[c]] = seen[c] \cup {about[c]}]
                            ELSE dismissed
            /\ undoers' = [undoers EXCEPT ![c] = IF ok THEN DismissRivals(c) ELSE {c}]
      BY <2>2 DEF DismissSet
    <3>2. cpc[c] = "putSet"
      BY <2>2 DEF DismissSet
    <3>3. CASE ok
      BY <1>0, <3>1, <3>2, <3>3 DEF TypeOK
    <3>4. CASE ~ ok
      BY <1>0, <3>1, <3>4 DEF TypeOK
    <3> QED BY <3>3, <3>4
  <2> QED BY <2>1, <2>2
<1>u. ASSUME NEW e \in Call \ {c}, Undone(e) PROVE Undone(e)'
  <2>1. cpc[c] \notin {"read", "gone"} /\ undoers[e] \subseteq undoers'[e]
    BY <1>2, <1>u
  <2> QED BY <1>0, <1>2, <1>u, <2>1, UndoneStays
<1>r. \A e \in Call : ReadRivals(e)' \subseteq ReadRivals(e)
  BY <1>2 DEF ReadRivals, Others, Older
<1>d. \A e \in Call : DismissRivals(e)' \subseteq DismissRivals(e)
  BY <1>2 DEF DismissRivals, Others
<1>4. ASSUME NEW e \in Call, cpc'[e] = "setMark" PROVE created'[about'[e]] > mark'[e]
  BY <1>0, <1>2, <1>4 DEF CallKnows
<1>5. ASSUME NEW e \in Call, cpc'[e] = "read"
      PROVE  /\ created'[about'[e]] <= readAt'[CallerOf[e]] \/ Undone(e)'
             /\ ReadRivals(e)' \subseteq undoers'[e] \/ Undone(e)'
  <2>1. e # c /\ cpc[e] = "read"
    BY <1>2, <1>5
  <2> QED BY <1>0, <1>2, <1>u, <1>r, <2>1 DEF CallKnows
<1>6. ASSUME NEW e \in Call, cpc'[e] = "gone"
      PROVE  /\ about'[e] \in dismissed'[CallerOf[e]] \/ Undone(e)'
             /\ DismissRivals(e)' \subseteq undoers'[e] \/ Undone(e)'
  <2>1. CASE e = c
    <3>1. CASE undoers'[c] = {c}
      BY <1>2, <2>1, <3>1 DEF Undone
    <3>3. CASE undoers'[c] = DismissRivals(c) /\ about[c] \in dismissed'[CallerOf[c]]
      BY <1>2, <1>d, <2>1, <3>3
    <3> QED BY <1>1, <3>1, <3>3
  <2>2. CASE e # c /\ Undone(e)
    BY <1>u, <2>2
  <2>3. CASE e # c /\ ~ Undone(e)
    <3>1. /\ about[e] \in dismissed[CallerOf[e]] /\ DismissRivals(e) \subseteq undoers[e]
          /\ CallerOf[e] \in User
      BY <1>0, <1>2, <1>6, <2>3, CenterAssumption DEF CallKnows
    <3>2. about[e] \in dismissed'[CallerOf[e]] \/ Undone(e)'
      <4>1. CASE dismissed'[CallerOf[e]] = dismissed[CallerOf[e]]
        BY <3>1, <4>1
      <4>2. CASE dismissed'[CallerOf[e]] # dismissed[CallerOf[e]]
        <5>1. /\ CallerOf[e] = CallerOf[c] /\ cpc[c] = "putSet"
              /\ dismissed'[CallerOf[e]] = seen[c] \cup {about[c]}
          BY <1>1, <1>2, <3>1, <4>2
        <5>2. CASE about[e] \notin seen[c] \cup {about[c]}
          <6>1. c \in DismissRivals(e)
            BY <2>3, <5>1, <5>2 DEF DismissRivals, Others
          <6> QED BY <1>2, <2>3, <3>1, <6>1 DEF Undone
        <5> QED BY <5>1, <5>2
      <4> QED BY <4>1, <4>2
    <3> QED BY <1>2, <1>d, <2>3, <3>1, <3>2
  <2> QED BY <2>1, <2>2, <2>3
<1> QED BY <1>4, <1>5, <1>6 DEF CallKnows
\* Neither the clock nor a recorder touches what a call has read or done.
LEMMA CCallsUntouched ==
  ASSUME CInv, Tick \/ \E n \in Note : RecordNext(n)
  PROVE  CallKnows'
<1>0. /\ TypeOK /\ CallKnows /\ OnlyStampedAreNamed
      /\ \A c \in Call : about[c] \in Note
  BY DEF CInv, TypeOK
<1>1. /\ UNCHANGED <<readAt, dismissed, cpc, about, mark, seen, undoers>>
      /\ \A m \in Note : rpc[m] = "done" => created'[m] = created[m]
  <2>1. CASE Tick
    BY <2>1 DEF Tick, recVars, callVars
  <2>2. CASE \E n \in Note : RecordNext(n)
    BY <2>2, CRecordFrame DEF callVars
  <2> QED BY <2>1, <2>2
<1>2. \A c \in Call : cpc[c] # "none" => created'[about[c]] = created[about[c]]
  BY <1>0, <1>1 DEF OnlyStampedAreNamed
<1> SUFFICES ASSUME NEW c \in Call
             PROVE  /\ cpc[c] = "read" => ReadRivals(c)' = ReadRivals(c)
                    /\ DismissRivals(c)' = DismissRivals(c)
                    /\ Undone(c)' <=> Undone(c)
  BY <1>0, <1>1, <1>2 DEF CallKnows
<1>3. cpc[c] = "read" => ReadRivals(c)' = ReadRivals(c)
  BY <1>1, <1>2 DEF ReadRivals, Others, Older
<1>4. DismissRivals(c)' = DismissRivals(c)
  BY <1>1 DEF DismissRivals, Others
<1>5. Undone(c)' <=> Undone(c)
  BY <1>1 DEF Undone
<1> QED BY <1>3, <1>4, <1>5

\* Every step keeps what the calls know.
LEMMA CCalls ==
  ASSUME CInv, Next
  PROVE  CallKnows'
<1>1. ASSUME NEW c \in Call, CallNext(c) PROVE CallKnows'
  BY <1>1, CQuietCall, CReadGet, CReadAnswer, CDismissGet, CDismissAnswer DEF CallNext
<1> QED BY <1>1, CCallsUntouched DEF Next

-----------------------------------------------------------------------------
(* The list of notifications. *)

\* What recorders may lose stays known to be lost, and stays recorded before.
LEMMA LossStays ==
  ASSUME TypeOK, NEW n \in Note, RecordNext(n), NEW m \in Note, rpc[m] = "done"
  PROVE  /\ rpc'[m] = "done" /\ losers[m] \subseteq losers'[m]
         /\ earlier'[m] = earlier[m]
         /\ Lost(m) => Lost(m)'
<1>1. m # n /\ rpc'[m] = "done" /\ losers[m] \subseteq losers'[m] /\ earlier'[m] = earlier[m]
  BY DEF TypeOK, RecordNext, Stamp, RecordGet, RecordSet, RecordFails
<1>2. \A k \in Note : rpc[k] = "done" => rpc'[k] = "done"
  BY DEF TypeOK, RecordNext, Stamp, RecordGet, RecordSet, RecordFails
<1>3. losers[m] \subseteq Note
  BY DEF TypeOK
<1> QED BY <1>1, <1>2, <1>3 DEF Lost

\* What a list of recorded notifications lacks stays accounted for.
LEMMA AccountStays ==
  ASSUME TypeOK, NEW n \in Note, RecordNext(n), NEW list \in Seq(Note),
         \A i \in DOMAIN list : rpc[list[i]] = "done",
         NEW m \in Note, rpc[m] = "done", Accounted(m, list)
  PROVE  Accounted(m, list)'
<1>1. \A i \in DOMAIN list : earlier'[list[i]] = earlier[list[i]]
  BY LossStays
<1>2. Lost(m) => Lost(m)'
  BY LossStays
<1>3. Later(m, list) => Later(m, list)'
  BY <1>1 DEF Later
<1> QED BY <1>2, <1>3 DEF Accounted, InStore

\* The list a recorder writes is in order, and lacks what it had lacked before, or
\* what it has cut off: the oldest of a full list.
LEMMA WrittenList ==
  ASSUME CInv, NEW n \in Note, RecordSet(n)
  PROVE  /\ NewestFirst(store)'
         /\ InStore(n, store)'
         /\ \A m \in Note : rpc[m] = "done" => Accounted(m, store)'
<1>0. /\ TypeOK /\ OnlyStampedAreNamed /\ RecorderKnows
      /\ rsnap[n] \in Seq(Note) /\ Len(rsnap[n]) <= MaxStored
      /\ RecordNext(n) /\ rpc[n] = "set"
  BY DEF CInv, TypeOK, RecorderKnows, NewestFirst, RecordNext, RecordSet
<1> DEFINE old == rsnap[n]
<1>1. /\ store' \in Seq(Note) /\ DOMAIN store' = 1..Len(store')
      /\ Len(store') = IF Len(old) < MaxStored THEN Len(old) + 1 ELSE MaxStored
      /\ 1 \in DOMAIN store' /\ store'[1] = n
      /\ \A i \in DOMAIN store' \ {1} : i - 1 \in DOMAIN old /\ store'[i] = old[i - 1]
  BY <1>0, CappedIs DEF RecordSet
<1>2. /\ earlier'[n] = {m \in Note : rpc[m] = "done"}
      /\ \A m \in Note : rpc[m] = "done" => earlier'[m] = earlier[m]
      /\ losers'[n] = {m \in Note \ {n} : rpc[m] = "set"}
      /\ rpc'[n] = "done" /\ \A m \in Note \ {n} : rpc'[m] = rpc[m]
  BY <1>0 DEF RecordSet, TypeOK, Recorded
<1>3. /\ Len(old) \in Nat /\ Len(old) <= MaxStored /\ DOMAIN old = 1..Len(old)
      /\ MaxStored \in Nat \ {0}
      /\ \A i \in DOMAIN old : old[i] \in Note /\ rpc[old[i]] = "done"
      /\ \A i, j \in DOMAIN old : i < j => old[j] \in earlier[old[i]]
  BY <1>0, CenterAssumption DEF OnlyStampedAreNamed, RecorderKnows, NewestFirst
<1> HIDE DEF old
<1>4. NewestFirst(store)'
  <2>1. Len(store') <= MaxStored
    BY <1>1, <1>3
  <2>2. ASSUME NEW i \in DOMAIN store', NEW j \in DOMAIN store', i < j
        PROVE  store'[j] \in earlier'[store'[i]]
    <3>1. j # 1 /\ j - 1 \in DOMAIN old /\ store'[j] = old[j - 1]
      BY <1>1, <2>2
    <3>2. CASE i = 1
      BY <1>1, <1>2, <1>3, <3>1, <3>2
    <3>3. CASE i # 1
      <4>1. i - 1 \in DOMAIN old /\ store'[i] = old[i - 1] /\ i - 1 < j - 1
        BY <1>1, <1>3, <2>2, <3>1, <3>3
      <4>2. old[j - 1] \in earlier[old[i - 1]]
        BY <1>3, <3>1, <4>1
      <4>3. earlier'[old[i - 1]] = earlier[old[i - 1]]
        BY <1>2, <1>3, <4>1
      <4> QED BY <3>1, <4>1, <4>2, <4>3
    <3> QED BY <3>2, <3>3
  <2> QED BY <2>1, <2>2 DEF NewestFirst
<1>5. InStore(n, store)'
  BY <1>1 DEF InStore
<1>6. ASSUME NEW m \in Note, rpc[m] = "done" PROVE Accounted(m, store)'
  <2>0. /\ Accounted(m, old) \/ n \in losers[m]
        /\ m # n /\ (Lost(m) => Lost(m)') /\ losers[m] \subseteq losers'[m]
        /\ m \in earlier'[n]
    BY <1>0, <1>2, <1>6, LossStays DEF RecorderKnows, old
  <2>1. CASE n \in losers[m] \/ Lost(m)
    BY <1>2, <2>0, <2>1 DEF Accounted, Lost
  <2>2. CASE InStore(m, old)
    <3>1. PICK i \in DOMAIN old : old[i] = m
      BY <2>2 DEF InStore
    <3>2. CASE i + 1 \in DOMAIN store'
      <4>1. i + 1 # 1 /\ (i + 1) - 1 = i
        BY <1>3, <3>1
      <4>2. store'[i + 1] = m
        BY <1>1, <3>1, <3>2, <4>1
      <4> QED BY <3>2, <4>2 DEF Accounted, InStore
    \* The last of a full list: everything before it was recorded later.
    <3>3. CASE i + 1 \notin DOMAIN store'
      <4>1. i = Len(store') /\ Len(store') = MaxStored
        BY <1>1, <1>3, <3>1, <3>3
      <4>2. ASSUME NEW k \in DOMAIN store' PROVE m \in earlier'[store'[k]]
        <5>1. CASE k = 1
          BY <1>1, <2>0, <5>1
        <5>2. CASE k # 1
          <6>1. k - 1 \in DOMAIN old /\ store'[k] = old[k - 1] /\ k - 1 < i
            BY <1>1, <1>3, <4>1, <4>2, <5>2
          <6> QED BY <1>2, <1>3, <3>1, <6>1
        <5> QED BY <5>1, <5>2
      <4> QED BY <4>1, <4>2 DEF Accounted, Later
    <3> QED BY <3>2, <3>3
  <2>3. CASE Len(old) = MaxStored /\ Later(m, old)
    <3>1. ASSUME NEW k \in DOMAIN store' PROVE m \in earlier'[store'[k]]
      <4>1. CASE k = 1
        BY <1>1, <2>0, <4>1
      <4>2. CASE k # 1
        <5>1. k - 1 \in DOMAIN old /\ store'[k] = old[k - 1]
          BY <1>1, <3>1, <4>2
        <5>2. m \in earlier[old[k - 1]]
          BY <2>3, <5>1 DEF Later
        <5> QED BY <1>2, <1>3, <5>1, <5>2
      <4> QED BY <4>1, <4>2
    <3>2. Len(store') = MaxStored
      BY <1>1, <1>3, <2>3
    <3> QED BY <3>1, <3>2 DEF Accounted, Later
  <2> QED BY <2>0, <2>1, <2>2, <2>3 DEF Accounted
<1> QED BY <1>4, <1>5, <1>6

\* Every step keeps what the recorders know.
LEMMA CRecorders ==
  ASSUME CInv, Next
  PROVE  RecorderKnows'
<1>0. /\ TypeOK /\ OnlyStampedAreNamed /\ RecorderKnows
      /\ store \in Seq(Note) /\ \A m \in Note : rsnap[m] \in Seq(Note)
      /\ \A m \in Note : \A i \in DOMAIN rsnap[m] : rpc[rsnap[m][i]] = "done"
      /\ \A i \in DOMAIN store : rpc[store[i]] = "done"
  BY DEF CInv, TypeOK, OnlyStampedAreNamed
<1>1. CASE UNCHANGED <<store, recVars>>
  BY <1>0, <1>1 DEF recVars, RecorderKnows, NewestFirst, Accounted, InStore, Lost, Later
<1>2. ASSUME NEW n \in Note, RecordNext(n) PROVE RecorderKnows'
  <2>0. \A m \in Note : rpc[m] = "done" => /\ rpc'[m] = "done" /\ earlier'[m] = earlier[m]
                                          /\ losers[m] \subseteq losers'[m]
    BY <1>0, <1>2, LossStays
  <2>s. /\ \A i \in DOMAIN store : store[i] \in Note
        /\ \A m \in Note : \A i \in DOMAIN rsnap[m] : rsnap[m][i] \in Note
    BY <1>0
  <2>1. NewestFirst(store)'
    <3>1. CASE store' = store
      <4>1. \A i \in DOMAIN store : earlier'[store[i]] = earlier[store[i]]
        BY <1>0, <2>0, <2>s
      <4> QED BY <1>0, <3>1, <4>1 DEF RecorderKnows, NewestFirst
    <3>2. CASE RecordSet(n)
      BY <3>2, WrittenList
    <3> QED BY <1>2, <3>1, <3>2 DEF RecordNext, Stamp, RecordGet, RecordFails
  <2>2. ASSUME NEW m \in Note PROVE NewestFirst(rsnap[m])'
    <3>1. rsnap'[m] = rsnap[m] \/ rsnap'[m] = store \/ rsnap'[m] = <<>>
      BY <1>0, <1>2 DEF TypeOK, RecordNext, Stamp, RecordGet, RecordSet, RecordFails, KVGet
    <3>2. CASE rsnap'[m] = rsnap[m]
      <4>1. \A i \in DOMAIN rsnap[m] : earlier'[rsnap[m][i]] = earlier[rsnap[m][i]]
        BY <1>0, <2>0, <2>s
      <4> QED BY <1>0, <3>2, <4>1 DEF RecorderKnows, NewestFirst
    <3>3. CASE rsnap'[m] = store
      <4>1. \A i \in DOMAIN store : earlier'[store[i]] = earlier[store[i]]
        BY <1>0, <2>0, <2>s
      <4> QED BY <1>0, <3>3, <4>1 DEF RecorderKnows, NewestFirst
    <3>4. CASE rsnap'[m] = <<>>
      BY <3>4, CenterAssumption DEF NewestFirst
    <3> QED BY <3>1, <3>2, <3>3, <3>4
  <2>3. ASSUME NEW k \in Note, NEW m \in earlier'[k] PROVE rpc'[m] = "done"
    <3>1. earlier'[k] = earlier[k] \/ earlier'[k] = Recorded
      BY <1>0, <1>2 DEF TypeOK, RecordNext, Stamp, RecordGet, RecordSet, RecordFails
    <3>2. m \in Note /\ rpc[m] = "done"
      BY <1>0, <2>3, <3>1 DEF RecorderKnows, Recorded, TypeOK
    <3> QED BY <2>0, <3>2
  <2>4. ASSUME NEW m \in Note, rpc'[m] = "done" PROVE Accounted(m, store)'
    <3>1. CASE RecordSet(n)
      <4>1. m = n \/ rpc[m] = "done"
        BY <1>0, <2>4, <3>1 DEF RecordSet, TypeOK
      <4> QED BY <3>1, <4>1, WrittenList DEF Accounted
    <3>2. CASE ~ RecordSet(n)
      <4>1. store' = store /\ rpc[m] = "done"
        BY <1>0, <1>2, <2>4, <3>2 DEF TypeOK, RecordNext, Stamp, RecordGet, RecordFails
      <4>2. PICK list \in Seq(Note) : list = store
        BY <1>0
      <4>3. Accounted(m, list)'
        BY <1>0, <1>2, <4>1, <4>2, AccountStays DEF RecorderKnows
      <4> QED BY <4>1, <4>2, <4>3 DEF Accounted, InStore, Later
    <3> QED BY <3>1, <3>2
  <2>5. ASSUME NEW m \in Note, rpc'[m] = "done", NEW k \in Note, rpc'[k] = "set",
               k \notin losers'[m]
        PROVE  Accounted(m, rsnap[k])'
    <3>1. CASE rpc[m] = "done" /\ rpc[k] = "set" /\ rsnap'[k] = rsnap[k]
      <4>2. PICK list \in Seq(Note) : list = rsnap[k]
        BY <1>0
      <4>3. k \notin losers[m] /\ Accounted(m, list)
        BY <1>0, <2>0, <2>5, <3>1, <4>2 DEF RecorderKnows
      <4>4. Accounted(m, list)'
        BY <1>0, <1>2, <3>1, <4>2, <4>3, AccountStays
      <4> QED BY <3>1, <4>2, <4>4 DEF Accounted, InStore, Later
    <3>2. CASE RecordGet(n) /\ k = n
      <4>1. PICK list \in KVGet(store, <<>>) :
              /\ rsnap' = [rsnap EXCEPT ![n] = list]
              /\ losers' = [j \in Note |-> IF list # store /\ rpc[j] = "done"
                                          THEN losers[j] \cup {n} ELSE losers[j]]
        BY <3>2 DEF RecordGet
      <4>2. rpc[m] = "done" /\ list = store /\ rsnap'[k] = list /\ list \in Seq(Note)
        BY <1>0, <2>5, <3>2, <4>1 DEF RecordGet, TypeOK
      <4>3. Accounted(m, list)'
        BY <1>0, <1>2, <4>2, AccountStays DEF RecorderKnows
      <4> QED BY <4>2, <4>3 DEF Accounted, InStore, Later
    <3>3. CASE RecordSet(n) /\ m = n
      BY <1>0, <2>5, <3>3 DEF RecordSet, TypeOK
    <3> QED BY <1>0, <1>2, <2>5, <3>1, <3>2, <3>3
            DEF TypeOK, RecordNext, Stamp, RecordGet, RecordSet, RecordFails
  <2> QED BY <2>1, <2>2, <2>3, <2>4, <2>5 DEF RecorderKnows
<1>3. ASSUME NEW c \in Call, CallNext(c) PROVE UNCHANGED <<store, recVars>>
  BY <1>3 DEF CallNext, Request, ReadFind, ReadGet, ReadIsDone, ReadSet, DismissGet,
       DismissIsDone, DismissSet
<1>4. Tick => UNCHANGED <<store, recVars>>
  BY DEF Tick
<1> QED BY <1>1, <1>2, <1>3, <1>4 DEF Next

-----------------------------------------------------------------------------
(* The theorems. *)

\* CInv, the conjunction of the types and of what the calls and the recorders
\* know of each other, is inductive.
LEMMA CStep == CInv /\ [Next]_vars => CInv'
<1> SUFFICES ASSUME CInv, [Next]_vars PROVE CInv'
  OBVIOUS
<1>1. CASE Next
  BY <1>1, CType, CNamed, CCalls, CRecorders DEF CInv
<1>2. CASE UNCHANGED vars
  BY <1>2 DEF vars, recVars, callVars, CInv, TypeOK, OnlyStampedAreNamed, CallKnows, Undone,
       ReadRivals, DismissRivals, Others, Older, RecorderKnows, NewestFirst, Accounted,
       InStore, Lost, Later
<1> QED BY <1>1, <1>2

\* Overlapping calls and recorders, and failing KV calls, never leave a state in
\* which a call or a recorder could undo another unknown to it
\* (notifications.go:35-49, 241-272).
THEOREM CenterInvariant == Spec => []CInv
BY CInit, CStep, PTL DEF Spec

\* A notification that was marked read or dismissed with the answer "ok" stays so
\* unless the call's own write failed, or one that had read before it, or read
\* nothing, has written after it (notifications.go:241-272).
THEOREM AnswersAreKept == Spec => []AnswersHold
<1>1. CInv => AnswersHold
  <2> SUFFICES ASSUME CInv, NEW c \in Call
               PROVE  /\ cpc[c] = "read" /\ about[c] \in Unread(CallerOf[c]) => Undone(c)
                      /\ cpc[c] = "gone" /\ about[c] \in Listed(CallerOf[c]) => Undone(c)
    BY DEF AnswersHold
  <2>1. created[about[c]] \in Nat /\ readAt[CallerOf[c]] \in Nat
    BY CenterAssumption DEF CInv, TypeOK
  <2> QED BY <2>1 DEF CInv, CallKnows, Unread, Listed
<1> QED BY <1>1, CenterInvariant, PTL

\* A recorded notification that has left the list was pushed out by MaxStored
\* later ones, or overwritten by a recorder that had read before it was written,
\* or had read nothing (notifications.go:35-49).
THEOREM OnlyTheOldestDropOut == Spec => []OnlyOldOnesDropOut
<1>1. CInv => OnlyOldOnesDropOut
  BY DEF CInv, RecorderKnows, Accounted, OnlyOldOnesDropOut
<1> QED BY <1>1, CenterInvariant, PTL

\* The read marker of a user goes back only by the write of a call that had read
\* another marker than the one it overwrites (notifications.go:241-256).
THEOREM MarkerAdvances == Spec => ReadStaysRead
<1>1. ASSUME CInv, [Next]_vars, NEW u \in User, readAt'[u] < readAt[u]
      PROVE  \E c \in Call : /\ CallerOf[c] = u
                             /\ cpc[c] = "setMark" /\ cpc'[c] = "read"
                             /\ mark[c] # readAt[u]
  <2>0. /\ TypeOK /\ CallKnows /\ readAt[u] \in Nat
        /\ \A c \in Call : created[about[c]] \in Nat /\ mark[c] \in Nat
    BY <1>1, CenterAssumption DEF CInv, TypeOK
  <2>1. PICK c \in Call : ReadSet(c)
    <3>1. readAt' # readAt
      BY <1>1, <2>0
    <3>2. \A n \in Note : ~ RecordNext(n)
      BY <1>1, <3>1, CRecordFrame
    <3> QED BY <1>1, <3>1, <3>2 DEF Next, vars, Tick, CallNext, Request, ReadFind, ReadGet,
            ReadIsDone, DismissGet, DismissIsDone, DismissSet
  <2>2. /\ cpc[c] = "setMark" /\ cpc'[c] = "read"
        /\ CallerOf[c] = u /\ readAt'[u] = created[about[c]]
    BY <1>1, <2>0, <2>1 DEF ReadSet, TypeOK
  <2>3. created[about[c]] > mark[c]
    BY <2>0, <2>2 DEF CallKnows
  <2> QED BY <1>1, <2>0, <2>2, <2>3
<1>2. CInv /\ [Next]_vars => [\A u \in User : readAt'[u] < readAt[u] =>
       \E c \in Call : /\ CallerOf[c] = u
                       /\ cpc[c] = "setMark" /\ cpc'[c] = "read"
                       /\ mark[c] # readAt[u]]_vars
  BY <1>1
<1> QED BY <1>2, CenterInvariant, PTL DEF Spec, ReadStaysRead
=============================================================================
