---------------------------- MODULE IdentityProofs ----------------------------
(* Where the keys of the identity service disagree, a call that failed, died, *)
(* or had looked before another one wrote, has made them: for any number of   *)
(* users, accounts and calls, however they overlap, and under every fault.    *)
EXTENDS Identity, TLAPS

States == {"none"} \cup Running \cup Ended

\* Nothing is stored at the start, and the known accounts have their own
\* addresses.
LEMMA IdInitially == Init => IdInv
<1> SUFFICES ASSUME Init PROVE IdInv
  OBVIOUS
<1> USE IdentityAssumption DEF Init, Running, Checked, Saving, Clearing, Removing, Ended
<1>1. TypeOK
  <2>1. \A a \in Known : MailOfKnown[a] \in Mail
    OBVIOUS
  <2>2. mail \in [Account -> Mail \cup {None}]
    BY <2>1
  <2> QED BY <2>2 DEF TypeOK
<1>2. SaversKnown /\ KnownExist /\ \A c \in Call : StageOf(c)
  BY DEF SaversKnown, KnownExist, StageOf
<1>3. DuplicatesAreBlind
  BY DEF DuplicatesAreBlind, Exists
<1> QED BY <1>1, <1>2, <1>3 DEF IdInv

\* What a step of a call leaves alone in the others.
Aside(c) ==
  \A d \in Call \ {c} :
    /\ UNCHANGED <<pc[d], kind[d], user[d], found[d], snap[d], todo[d], knew[d], spared[d]>>
    /\ d \in outdated' <=> d \in outdated

\* A step of one call that stores, deletes and makes nothing keeps what the others
\* know.
LEMMA OthersStand ==
  ASSUME IdInv, NEW c \in Call, Aside(c), UNCHANGED <<mapping, mail, maker>>
  PROVE  \A d \in Call \ {c} : StageOf(d)'
BY DEF IdInv, Aside, StageOf, Stored

\* GLPI's accounts are as before, and so is what their makers had seen.
LEMMA NothingMade ==
  ASSUME IdInv, UNCHANGED <<mail, maker>>,
         \A a \in Account : maker[a] # None => knew'[maker[a]] = knew[maker[a]]
  PROVE  DuplicatesAreBlind'
BY DEF IdInv, DuplicatesAreBlind, Exists, MadeBlind

\* The steps that store, delete and make nothing, but for the search.
Plain(c) ==
  \/ \E k \in {"discover", "provision", "clear"}, u \in User : Begin(c, k, u)
  \/ Check(c) \/ ByName(c) \/ AddRead(c) \/ AddWrite(c)
  \/ ListIndex(c) \/ Loaded(c) \/ CutRead(c) \/ CutWrite(c) \/ DropIndex(c)
  \/ \E u \in User : LoadNext(c, u) \/ RemoveNext(c, u)
  \/ Crash(c)

\* What they leave alone.
LEMMA PlainFrame ==
  ASSUME IdInv, NEW c \in Call, Plain(c)
  PROVE  UNCHANGED <<mapping, mail, maker, knew, saver>> /\ Aside(c)
<1> USE DEF IdInv, TypeOK, Aside, Goto, callVars, histVars
<1>1. CASE \E k \in {"discover", "provision", "clear"}, u \in User : Begin(c, k, u)
  BY <1>1 DEF Begin
<1>2. CASE Check(c) \/ ByName(c) \/ AddRead(c) \/ AddWrite(c)
  BY <1>2 DEF Check, ByName, AddRead, AddWrite
<1>3. CASE ListIndex(c) \/ Loaded(c) \/ CutRead(c) \/ CutWrite(c) \/ DropIndex(c)
  BY <1>3 DEF ListIndex, Loaded, CutRead, CutWrite, DropIndex
<1>4. CASE \E u \in User : LoadNext(c, u) \/ RemoveNext(c, u)
  BY <1>4 DEF LoadNext, RemoveNext
<1>5. CASE Crash(c)
  BY <1>5 DEF Crash
<1> QED BY <1>1, <1>2, <1>3, <1>4, <1>5 DEF Plain

\* They keep the types.
LEMMA PlainTypes ==
  ASSUME IdInv, NEW c \in Call, Plain(c)
  PROVE  TypeOK'
<1> USE IdentityAssumption DEF IdInv, TypeOK, Goto, callVars, histVars, Running, Checked, Saving,
       Clearing, Removing, Ended, IndexRead
<1>1. CASE \E k \in {"discover", "provision", "clear"}, u \in User : Begin(c, k, u)
  BY <1>1 DEF Begin
<1>2. CASE Check(c)
  BY <1>2 DEF Check
<1>3. CASE ByName(c)
  <2>0. pc[c] = "name" /\ StageOf(c)
    BY <1>3 DEF ByName
  <2>1. user[c] \in User
    BY <2>0 DEF StageOf
  <2>2. Namesakes[user[c]] \subseteq Account
    BY <2>1
  <2>3. found' \in [Call -> Account \cup {None}]
    BY <1>3, <2>2 DEF ByName
  <2> QED BY <1>3, <2>3 DEF ByName
<1>4. CASE AddRead(c)
  BY <1>4 DEF AddRead
<1>5. CASE AddWrite(c)
  <2>1. user[c] \in User
    BY <1>5 DEF AddWrite, StageOf
  <2> QED BY <1>5, <2>1 DEF AddWrite
<1>6. CASE ListIndex(c)
  BY <1>6 DEF ListIndex
<1>7. CASE Loaded(c) \/ Crash(c)
  BY <1>7 DEF Loaded, Crash
<1>10. CASE CutRead(c)
  BY <1>10 DEF CutRead
<1>11. CASE CutWrite(c) \/ DropIndex(c)
  BY <1>11 DEF CutWrite, DropIndex
<1>8. CASE \E u \in User : LoadNext(c, u)
  BY <1>8 DEF LoadNext
<1>9. CASE \E u \in User : RemoveNext(c, u)
  BY <1>9 DEF RemoveNext
<1> QED BY <1>1, <1>2, <1>3, <1>4, <1>5, <1>6, <1>7, <1>8, <1>9, <1>10, <1>11
       DEF Plain

\* The call itself knows what its next stage says, and stays the one that stored
\* the mappings it has stored.
LEMMA PlainStage ==
  ASSUME IdInv, NEW c \in Call, Plain(c)
  PROVE  /\ StageOf(c)'
         /\ \A u \in User : saver[u] = c => /\ user'[c] = user[c] /\ kind'[c] = kind[c]
                                           /\ pc'[c] \in Saving \cup Ended
<1> USE IdentityAssumption DEF Goto, callVars, histVars, Running, Checked, Saving,
       Clearing, Removing, Ended, IndexRead
<1>0. /\ TypeOK /\ StageOf(c) /\ user[c] \in User \cup {None}
      /\ \A u \in User : saver[u] = c => pc[c] \in Saving \cup Ended
      /\ UNCHANGED <<mapping, mail, maker, knew, saver>>
  BY PlainFrame DEF IdInv, TypeOK, SaversKnown
<1>1. CASE \E k \in {"discover", "provision", "clear"}, u \in User : Begin(c, k, u)
  BY <1>0, <1>1 DEF Begin, StageOf, TypeOK
<1>2. CASE Check(c)
  BY <1>0, <1>2 DEF Check, StageOf, TypeOK
<1>3. CASE ByName(c)
  BY <1>0, <1>3 DEF ByName, StageOf, TypeOK
<1>4. CASE AddRead(c) \/ AddWrite(c)
  BY <1>0, <1>4 DEF AddRead, AddWrite, StageOf, TypeOK
<1>6. CASE ListIndex(c)
  BY <1>0, <1>6 DEF ListIndex, StageOf, TypeOK, Stored
<1>7. CASE Loaded(c)
  BY <1>0, <1>7 DEF Loaded, StageOf, TypeOK, Stored
<1>8. CASE \E u \in User : LoadNext(c, u)
  BY <1>0, <1>8 DEF LoadNext, StageOf, TypeOK, Stored
<1>9. CASE \E u \in User : RemoveNext(c, u)
  BY <1>0, <1>9 DEF RemoveNext, StageOf, TypeOK, Stored
<1>10. CASE CutRead(c)
  BY <1>0, <1>10 DEF CutRead, StageOf, TypeOK, Stored
<1>11. CASE CutWrite(c)
  BY <1>0, <1>11 DEF CutWrite, StageOf, TypeOK, Stored
<1>12. CASE DropIndex(c) \/ Crash(c)
  BY <1>0, <1>12 DEF DropIndex, Crash, StageOf, TypeOK
<1> QED BY <1>1, <1>2, <1>3, <1>4, <1>6, <1>7, <1>8, <1>9, <1>10, <1>11, <1>12 DEF Plain

\* They keep the invariant.
LEMMA PlainKeeps ==
  ASSUME IdInv, NEW c \in Call, Plain(c)
  PROVE  IdInv'
<1>0. /\ UNCHANGED <<mapping, mail, maker, knew, saver>> /\ Aside(c) /\ StageOf(c)' /\ TypeOK'
  BY PlainFrame, PlainStage, PlainTypes
<1>1. \A d \in Call : StageOf(d)'
  BY <1>0, OthersStand
<1>2. DuplicatesAreBlind'
  BY <1>0, NothingMade
<1>3. ASSUME NEW u \in User
      PROVE  /\ mapping'[u] # None => saver'[u] # None
             /\ saver'[u] # None => /\ user'[saver'[u]] = u /\ kind'[saver'[u]] # "clear"
                                  /\ pc'[saver'[u]] \in Saving \cup Ended
  <2>1. saver[u] # None => saver[u] \in Call
    BY DEF IdInv, TypeOK
  <2> QED BY <1>0, <2>1, PlainStage DEF IdInv, SaversKnown, Aside
<1> QED BY <1>0, <1>1, <1>2, <1>3 DEF IdInv, SaversKnown, KnownExist, Exists

\* Whoever stored a mapping has gone past the saving; a call short of it stored none.
LEMMA SaversAreOthers ==
  ASSUME IdInv, NEW c \in Call, pc[c] \notin Saving \cup Ended
  PROVE  \A u \in User : saver[u] # None => saver[u] \in Call \ {c}
<1> SUFFICES ASSUME NEW u \in User, saver[u] # None
             PROVE  saver[u] \in Call \ {c}
  OBVIOUS
<1>1. saver[u] \in Call
  BY DEF IdInv, TypeOK
<1>2. pc[saver[u]] \in Saving \cup Ended
  BY DEF IdInv, SaversKnown
<1> QED BY <1>1, <1>2

\* The search for an address: either its first hit is taken, or all it can see is
\* known to have another address.
LEMMA ByEmailKeeps ==
  ASSUME IdInv, NEW c \in Call, ByEmail(c)
  PROVE  IdInv'
<1> USE IdentityAssumption DEF Goto, Running, Checked, Saving, Clearing, Removing, Ended
<1>0. TypeOK /\ StageOf(c) /\ user[c] \in User
  BY DEF IdInv, TypeOK, StageOf, ByEmail
<1>1. PICK s \in {"save", "create", "name"} :
        /\ Goto(c, s)
        /\ s = "save" => \E a \in Account : found' = [found EXCEPT ![c] = a]
        /\ s # "save" => found' = found
        /\ \/ knew' = knew
           \/ /\ Hits(c) = {} /\ s # "save"
              /\ knew' = [knew EXCEPT ![c] = {a \in Account : Exists(a)}]
  <2>1. CASE \E a \in Hits(c) : found' = [found EXCEPT ![c] = a] /\ Goto(c, "save") /\ knew' = knew
    BY <2>1 DEF Hits
  <2>2. CASE ~ \E a \in Hits(c) : found' = [found EXCEPT ![c] = a] /\ Goto(c, "save") /\ knew' = knew
    BY <2>2 DEF ByEmail
  <2> QED BY <2>1, <2>2
<1>u. /\ pc[c] = "email"
      /\ UNCHANGED <<mapping, index, mail, kind, user, snap, todo, maker, outdated, saver, spared>>
  BY DEF ByEmail
<1>2. TypeOK'
  <2>1. found' \in [Call -> Account \cup {None}] /\ knew' \in [Call -> SUBSET Account]
    BY <1>0, <1>1 DEF TypeOK
  <2>2. pc' \in [Call -> {"none"} \cup Running \cup Ended]
    BY <1>0, <1>1 DEF TypeOK
  <2> QED BY <1>0, <1>u, <2>1, <2>2 DEF TypeOK
<1>3. Aside(c) /\ pc[c] = "email" /\ pc'[c] = s
  BY <1>0, <1>1, <1>u DEF Aside, TypeOK
<1>4. \A d \in Call \ {c} : StageOf(d)'
  BY <1>3, <1>u, OthersStand
<1>5. ASSUME MailOf[user[c]] # NoMail, NEW a \in knew'[c], knew' # knew
      PROVE  mail[a] # MailOf[user[c]]
  <2>1. MailOf[user[c]] \in Matches[MailOf[user[c]]] /\ MailOf[user[c]] # None
    BY <1>0, <1>5
  <2>2. a \in Account /\ Exists(a) /\ Hits(c) = {}
    BY <1>0, <1>1, <1>5 DEF TypeOK
  <2> QED BY <2>1, <2>2 DEF Hits
<1>6. s = "save" => found'[c] # None
  BY <1>0, <1>1 DEF TypeOK
<1>8. StageOf(c)'
  BY <1>0, <1>1, <1>3, <1>5, <1>6, <1>u DEF StageOf
<1>9. DuplicatesAreBlind'
  <2>1. \A a \in Account : maker[a] # c
    BY <1>0, <1>3 DEF StageOf
  <2> QED BY <1>0, <1>1, <1>u, <2>1, NothingMade DEF TypeOK
<1>10. SaversKnown'
  <2>1. \A u \in User : saver[u] # c
    BY <1>3 DEF IdInv, SaversKnown
  <2>2. \A u \in User : saver[u] # None => saver[u] \in Call \ {c}
    BY <1>0, <2>1 DEF TypeOK
  <2> QED BY <1>3, <1>u, <2>2 DEF IdInv, SaversKnown, Aside
<1>11. KnownExist'
  <2>1. \A d \in Call : knew'[d] = knew[d] \/ knew'[d] = {a \in Account : Exists(a)}
    BY <1>0, <1>1 DEF TypeOK
  <2> QED BY <1>u, <2>1 DEF IdInv, KnownExist, Exists
<1> QED BY <1>2, <1>4, <1>8, <1>9, <1>10, <1>11 DEF IdInv
\* A new account: whoever has one with its address was not seen by its maker.
LEMMA CreateKeeps ==
  ASSUME IdInv, NEW c \in Call, Create(c)
  PROVE  IdInv'
<1> USE IdentityAssumption DEF Goto, Running, Checked, Saving, Clearing, Removing, Ended
<1>0. /\ TypeOK /\ StageOf(c) /\ user[c] \in User /\ pc[c] = "create"
      /\ UNCHANGED <<mapping, index, kind, user, snap, todo, knew, outdated, saver, spared>>
  BY DEF IdInv, TypeOK, StageOf, Create
<1>1. PICK s \in {"save", "error"} :
        /\ Goto(c, s)
        /\ \/ \E a \in Account : /\ ~Exists(a)
                                /\ mail' = [mail EXCEPT ![a] = MailOf[user[c]]]
                                /\ maker' = [maker EXCEPT ![a] = c]
           \/ UNCHANGED <<mail, maker>>
        /\ \/ \E a \in Account : found' = [found EXCEPT ![c] = a]
           \/ found' = found /\ s = "error"
  BY DEF Create
<1>2. TypeOK'
  <2>1. pc' \in [Call -> {"none"} \cup Running \cup Ended] /\ found' \in [Call -> Account \cup {None}]
    BY <1>0, <1>1 DEF TypeOK
  <2>2. mail' \in [Account -> Mail \cup {None}] /\ maker' \in [Account -> Call \cup {None}]
    <3>1. MailOf[user[c]] \in Mail
      BY <1>0
    <3>2. CASE UNCHANGED <<mail, maker>>
      BY <1>0, <3>2 DEF TypeOK
    <3>3. CASE ~ UNCHANGED <<mail, maker>>
      <4>1. PICK a \in Account : /\ mail' = [mail EXCEPT ![a] = MailOf[user[c]]]
                               /\ maker' = [maker EXCEPT ![a] = c]
        BY <1>1, <3>3
      <4> QED BY <1>0, <3>1, <4>1 DEF TypeOK
    <3> QED BY <3>2, <3>3
  <2> QED BY <1>0, <2>1, <2>2 DEF TypeOK
<1>3. /\ pc'[c] = s /\ (s = "save" => found'[c] # None)
      /\ \A d \in Call \ {c} : pc'[d] = pc[d] /\ found'[d] = found[d]
      /\ MailOf[user[c]] # None
  BY <1>0, <1>1 DEF TypeOK
<1>4. ASSUME NEW d \in Call, NEW a \in knew[d] PROVE Exists(a) /\ a \in Account
  BY <1>4 DEF IdInv, TypeOK, KnownExist
<1>5. ASSUME NEW a \in Account, Exists(a) PROVE mail'[a] = mail[a] /\ maker'[a] = maker[a]
  BY <1>0, <1>1, <1>5 DEF TypeOK, Exists
<1>6. KnownExist'
  BY <1>0, <1>4, <1>5 DEF KnownExist, Exists
<1>7. ASSUME NEW d \in Call \ {c} PROVE StageOf(d)'
  <2>1. \A a \in knew[d] : mail'[a] = mail[a]
    BY <1>4, <1>5
  <2>2. \A a \in Account : maker[a] # d => maker'[a] # d
    BY <1>0, <1>1 DEF TypeOK
  <2> QED BY <1>0, <1>3, <2>1, <2>2 DEF IdInv, StageOf, Stored
<1>8. StageOf(c)'
  BY <1>0, <1>3 DEF StageOf
<1>9. SaversKnown'
  <2>1. \A u \in User : saver[u] # None => saver[u] \in Call \ {c}
    <3>1. pc[c] \notin Saving \cup Ended
      BY <1>0
    <3> QED BY <3>1, SaversAreOthers
  <2> QED BY <1>0, <1>3, <2>1 DEF IdInv, SaversKnown
<1>10. ASSUME NEW a \in Account, NEW b \in Account, Exists(a)', Exists(b)', a # b,
              mail'[a] = mail'[b], mail'[a] # NoMail
       PROVE  MadeBlind(a, b)' \/ MadeBlind(b, a)'
  <2>1. CASE Exists(a) /\ Exists(b)
    BY <1>0, <1>5, <1>10, <2>1 DEF IdInv, DuplicatesAreBlind, MadeBlind
  <2>2. ASSUME NEW x \in Account, NEW y \in Account, {x, y} = {a, b}, ~Exists(x) PROVE MadeBlind(x, y)'
    <3>0. mail'[x] # None /\ mail[x] = None /\ mail' # mail
      BY <1>10, <2>2 DEF Exists
    <3>a. PICK n \in Account : mail' = [mail EXCEPT ![n] = MailOf[user[c]]]
                              /\ maker' = [maker EXCEPT ![n] = c]
      BY <1>1, <3>0
    <3>1. n = x
      BY <1>0, <3>0, <3>a DEF TypeOK
    <3>2. maker'[x] = c /\ mail'[x] = MailOf[user[c]] /\ mail'[y] = mail[y]
      BY <1>0, <1>10, <2>2, <3>a, <3>1 DEF TypeOK
    <3>3. y \notin knew[c]
      BY <1>0, <1>10, <2>2, <3>2 DEF StageOf
    <3> QED BY <1>0, <3>2, <3>3 DEF MadeBlind
  <2> QED BY <2>1, <2>2
<1> QED BY <1>2, <1>6, <1>7, <1>8, <1>9, <1>10 DEF IdInv, DuplicatesAreBlind

\* A mapping is stored: whoever has checked or listed before is marked.
LEMMA SaveKeeps ==
  ASSUME IdInv, NEW c \in Call, SaveMapping(c)
  PROVE  IdInv'
<1> USE IdentityAssumption DEF Goto, Running, Checked, Saving, Clearing, Removing, Ended
<1>0. /\ TypeOK /\ StageOf(c) /\ user[c] \in User /\ pc[c] = "save" /\ found[c] \in Account
      /\ UNCHANGED <<index, mail, kind, user, found, snap, todo, maker, knew>>
  BY DEF IdInv, TypeOK, StageOf, SaveMapping, callVars
<1>1. CASE ~ (/\ mapping' = [mapping EXCEPT ![user[c]] = found[c]]
              /\ saver' = [saver EXCEPT ![user[c]] = c]
              /\ Goto(c, "indexGet"))
  <2>1. Goto(c, "error") /\ UNCHANGED <<mapping, saver, outdated, spared>>
    BY <1>1 DEF SaveMapping
  <2>2. TypeOK'
    BY <1>0, <2>1 DEF TypeOK
  <2>3. Aside(c) /\ pc'[c] = "error"
    BY <1>0, <2>1 DEF Aside, TypeOK
  <2>4. \A d \in Call \ {c} : StageOf(d)'
    BY <1>0, <2>1, <2>3, OthersStand
  <2>5. StageOf(c)'
    BY <1>0, <2>1, <2>3 DEF StageOf
  <2>6. \A u \in User : saver[u] # None => saver[u] \in Call \ {c}
    <3>1. pc[c] \notin Saving \cup Ended
      BY <1>0
    <3> QED BY <3>1, SaversAreOthers
  <2>7. SaversKnown'
    BY <1>0, <2>1, <2>3, <2>6 DEF IdInv, SaversKnown, Aside
  <2> QED BY <1>0, <2>2, <2>4, <2>5, <2>7, NothingMade DEF IdInv, KnownExist, Exists
<1>2. CASE /\ mapping' = [mapping EXCEPT ![user[c]] = found[c]]
           /\ saver' = [saver EXCEPT ![user[c]] = c]
           /\ Goto(c, "indexGet")
  <2>1. /\ outdated' = outdated \cup {d \in Call : pc[d] \in Checked /\ user[d] = user[c]}
        /\ spared' = [d \in Call |-> IF pc[d] \in Clearing THEN spared[d] \cup {user[c]}
                                     ELSE spared[d]]
    BY <1>0, <1>2 DEF SaveMapping, TypeOK
  <2>2. TypeOK'
    BY <1>0, <1>2, <2>1 DEF TypeOK
  <2>3. /\ pc'[c] = "indexGet" /\ \A d \in Call \ {c} : pc'[d] = pc[d]
        /\ mapping'[user[c]] = found[c] /\ \A u \in User \ {user[c]} : mapping'[u] = mapping[u]
        /\ saver'[user[c]] = c /\ \A u \in User \ {user[c]} : saver'[u] = saver[u]
    BY <1>0, <1>2 DEF TypeOK
  <2>4. ASSUME NEW d \in Call \ {c} PROVE StageOf(d)'
    <3>1. CASE pc[d] \in Checked
      <4>1. d \notin outdated' => d \notin outdated /\ user[d] # user[c]
        BY <2>1, <3>1
      <4>2. user[d] \in User
        BY <1>0, <3>1 DEF IdInv, TypeOK, StageOf
      <4> QED BY <1>0, <2>3, <3>1, <4>1, <4>2 DEF IdInv, StageOf
    <3>2. CASE pc[d] \in Clearing
      <4>1. \A u \in Stored' : u \in Stored \/ u \in spared'[d]
        BY <1>0, <2>1, <2>3, <3>2 DEF Stored
      <4>2. spared[d] \subseteq spared'[d]
        BY <2>1
      <4> QED BY <1>0, <2>3, <3>2, <4>1, <4>2 DEF IdInv, StageOf
    <3>3. CASE pc[d] \notin Checked \cup Clearing
      BY <1>0, <2>3, <3>3 DEF IdInv, StageOf
    <3> QED BY <3>1, <3>2, <3>3
  <2>5. StageOf(c)'
    BY <1>0, <2>3 DEF StageOf
  <2>6. SaversKnown'
    <3>1. \A u \in User : saver[u] # None => saver[u] \in Call \ {c}
      <4>1. pc[c] \notin Saving \cup Ended
        BY <1>0
      <4> QED BY <4>1, SaversAreOthers
    <3> QED BY <1>0, <2>3, <3>1 DEF IdInv, SaversKnown, StageOf
  <2> QED BY <1>0, <2>2, <2>4, <2>5, <2>6, NothingMade DEF IdInv, KnownExist, Exists
<1> QED BY <1>1, <1>2

\* A mapping is deleted, or marked as left.
LEMMA DeleteKeeps ==
  ASSUME IdInv, NEW c \in Call, DeleteMapping(c)
  PROVE  IdInv'
<1> USE IdentityAssumption DEF Goto, Running, Checked, Saving, Clearing, Removing, Ended
<1>0. /\ TypeOK /\ StageOf(c) /\ user[c] \in User /\ pc[c] = "delete" /\ Goto(c, "cutGet")
      /\ UNCHANGED <<index, mail, kind, user, found, snap, todo, maker, knew, outdated, saver>>
  BY DEF IdInv, TypeOK, StageOf, DeleteMapping, callVars
<1>1. /\ \/ mapping' = [mapping EXCEPT ![user[c]] = None] /\ spared' = spared
         \/ mapping' = mapping /\ spared' = [spared EXCEPT ![c] = @ \cup {user[c]}]
  BY DEF DeleteMapping
<1>2. TypeOK'
  BY <1>0, <1>1 DEF TypeOK
<1>3. /\ pc'[c] = "cutGet" /\ \A d \in Call \ {c} : pc'[d] = pc[d] /\ spared'[d] = spared[d]
      /\ spared[c] \subseteq spared'[c]
      /\ mapping'[user[c]] = None \/ user[c] \in spared'[c]
      /\ \A u \in User : mapping'[u] = mapping[u] \/ mapping'[u] = None
  BY <1>0, <1>1 DEF TypeOK
<1>4. Stored' \subseteq Stored
  BY <1>3 DEF Stored
<1>5. ASSUME NEW d \in Call \ {c} PROVE StageOf(d)'
  <2>1. pc[d] \in Checked => user[d] \in User
    BY <1>0 DEF IdInv, TypeOK, StageOf
  <2>2. \A u \in User : mapping[u] = None => mapping'[u] = None
    BY <1>3
  <2> QED BY <1>0, <1>3, <1>4, <2>1, <2>2 DEF IdInv, StageOf
<1>6. StageOf(c)'
  <2>1. \A u \in Stored' : u \in todo[c] \cup spared'[c]
    BY <1>0, <1>3, <1>4 DEF StageOf, Stored
  <2> QED BY <1>0, <1>3, <2>1 DEF StageOf
<1>7. SaversKnown'
  <2>0. pc[c] \notin Saving \cup Ended
    BY <1>0
  <2>1. \A u \in User : saver[u] # None => saver[u] \in Call \ {c}
    BY <2>0, SaversAreOthers
  <2> QED BY <1>0, <1>3, <2>1 DEF IdInv, SaversKnown
<1> QED BY <1>0, <1>2, <1>5, <1>6, <1>7, NothingMade DEF IdInv, KnownExist, Exists

-----------------------------------------------------------------------------
(* The theorems. *)

\* IdInv is inductive.
LEMMA IdStep == IdInv /\ [Next]_vars => IdInv'
<1> SUFFICES ASSUME IdInv, [Next]_vars PROVE IdInv'
  OBVIOUS
<1>1. ASSUME NEW c \in Call,
             \/ \E k \in {"discover", "provision", "clear"}, u \in User : Begin(c, k, u)
             \/ Find(c) \/ Save(c) \/ Clear(c) \/ Crash(c)
      PROVE  IdInv'
  BY <1>1, PlainKeeps, ByEmailKeeps, CreateKeeps, SaveKeeps, DeleteKeeps DEF Find, Save, Clear, Plain
<1>2. CASE UNCHANGED vars
  BY <1>2 DEF vars, callVars, histVars, IdInv, TypeOK, DuplicatesAreBlind, MadeBlind, Exists,
       KnownExist, SaversKnown, StageOf, Stored
<1> QED BY <1>1, <1>2 DEF Next

\* However discovery, provisioning and clearing overlap (cache.go:83-198,
\* resolver.go:17-153), the types hold, and the state every call has read is the
\* state of now unless a call marked by the history has changed it.
THEOREM IdentityInvariant == Spec => []IdInv
BY IdInitially, IdStep, PTL DEF Spec

\* Two accounts have one address only if the maker of one could not see the other
\* (resolver.go:120-138).
THEOREM NoDuplicateUnseen == Spec => []DuplicatesAreBlind
<1>1. IdInv => DuplicatesAreBlind
  BY DEF IdInv
<1> QED BY <1>1, IdentityInvariant, PTL

\* A mapping moves only by the save of a call that could not see it, and goes away
\* only by a clearing (resolver.go:14).
THEOREM MappingsAreStable == Spec => MappingIsPermanent
<1>1. ASSUME IdInv, [Next]_vars, NEW u \in User, mapping[u] # None, mapping'[u] # mapping[u]
      PROVE  \E c \in Call :
               /\ user[c] = u
               /\ \/ pc[c] = "save" /\ c \in outdated /\ mapping'[u] # None
                  \/ kind[c] = "clear" /\ pc[c] = "delete" /\ mapping'[u] = None
  <2>1. PICK c \in Call : SaveMapping(c) \/ DeleteMapping(c)
    <3>1. PICK c \in Call : \/ Plain(c) \/ ByEmail(c) \/ Create(c)
                            \/ SaveMapping(c) \/ DeleteMapping(c)
      BY <1>1 DEF Next, vars, Find, Save, Clear, Plain
    <3>2. ~ Plain(c) /\ ~ ByEmail(c) /\ ~ Create(c)
      BY <1>1, PlainFrame DEF ByEmail, Create
    <3> QED BY <3>1, <3>2
  <2>2. TypeOK /\ StageOf(c)
    BY <1>1 DEF IdInv
  <2>3. CASE SaveMapping(c)
    <3>1. /\ pc[c] = "save" /\ user[c] = u /\ mapping'[u] = found[c] /\ found[c] # None
      BY <1>1, <2>2, <2>3 DEF SaveMapping, TypeOK, StageOf
    <3>2. c \in outdated
      BY <1>1, <2>2, <3>1 DEF StageOf, Checked
    <3> QED BY <3>1, <3>2
  <2>4. CASE DeleteMapping(c)
    BY <1>1, <2>2, <2>4 DEF DeleteMapping, TypeOK, StageOf, Clearing, Removing
  <2> QED BY <2>1, <2>3, <2>4
<1>2. IdInv /\ [Next]_vars => [\A u \in User : mapping[u] # None /\ mapping'[u] # mapping[u] =>
       \E c \in Call :
         /\ user[c] = u
         /\ \/ pc[c] = "save" /\ c \in outdated /\ mapping'[u] # None
            \/ kind[c] = "clear" /\ pc[c] = "delete" /\ mapping'[u] = None]_vars
  BY <1>1
<1> QED BY <1>2, IdentityInvariant, PTL DEF Spec, MappingIsPermanent

\* A clearing that has been reported leaves a mapping only where it could not list,
\* read or delete it, or where it was stored since (cache.go:142-154).
THEOREM ClearingIsComplete == Spec => ClearLeavesNothing
<1>1. ASSUME IdInv, [Next]_vars, NEW c \in Call, pc[c] # "cleared", pc'[c] = "cleared",
             NEW u \in User, mapping'[u] # None
      PROVE  u \in spared'[c]
  <2>1. DropIndex(c)
    <3>1. PICK d \in Call : \/ Plain(d) \/ ByEmail(d) \/ Create(d)
                            \/ SaveMapping(d) \/ DeleteMapping(d)
      BY <1>1 DEF Next, vars, Find, Save, Clear, Plain
    <3>2. pc \in [Call -> {"none"} \cup Running \cup Ended]
      BY <1>1 DEF IdInv, TypeOK
    <3>3. ASSUME NEW s \in {"none"} \cup Running \cup Ended, Goto(d, s), s # "cleared" PROVE FALSE
      BY <1>1, <3>2, <3>3 DEF Goto
    <3>4. ~ ByEmail(d) /\ ~ Create(d) /\ ~ SaveMapping(d) /\ ~ DeleteMapping(d)
      BY <3>3 DEF ByEmail, Create, SaveMapping, DeleteMapping, Running, Checked, Saving, Clearing,
           Removing, Ended
    <3>5. DropIndex(d)
      BY <1>1, <3>1, <3>3, <3>4 DEF Plain, Begin, Check, ByName, AddRead, AddWrite, ListIndex, Loaded,
           CutRead, CutWrite, LoadNext, RemoveNext, Crash, Running, Checked, Saving, Clearing,
           Removing, Ended
    <3> QED BY <1>1, <3>2, <3>5 DEF DropIndex, Goto
  <2>2. /\ pc[c] = "remove" /\ todo[c] = {} /\ mapping' = mapping /\ spared' = spared
    BY <2>1 DEF DropIndex, histVars
  <2> QED BY <1>1, <2>2 DEF IdInv, StageOf, Stored
<1>2. IdInv /\ [Next]_vars =>
        [\A c \in Call : pc[c] # "cleared" /\ pc'[c] = "cleared" =>
           \A u \in User : mapping'[u] # None => u \in spared'[c]]_vars
  BY <1>1
<1> QED BY <1>2, IdentityInvariant, PTL DEF Spec, ClearLeavesNothing

\* The entry of a stored mapping is lost only by the write of a call that had not
\* seen it, or by a clearing that has left the mapping (cache.go:129-198).
THEOREM ListingKeepsUp == Spec => MappingsStayListed
<1> DEFINE Reason(u, c) ==
      \/ pc[c] = "indexSet" /\ pc'[c] = "mapped" /\ u \notin snap[c] \cup {user[c]}
      \/ pc[c] = "cutSet" /\ pc'[c] = "remove" /\ (u \notin snap[c] \/ u \in spared[c])
      \/ pc[c] = "remove" /\ pc'[c] = "cleared" /\ u \in spared[c]
<1>1. ASSUME IdInv, [Next]_vars, NEW u \in User, ~Unlisted(u), Unlisted(u)'
      PROVE  \E c \in Call : Reason(u, c)
  <2>0. TypeOK /\ TypeOK' /\ SaversKnown /\ SaversKnown'
    BY <1>1, IdStep DEF IdInv
  <2>a. ~ UNCHANGED vars
    BY <1>1 DEF vars, histVars, Unlisted
  <2>1. PICK c \in Call : \/ Plain(c) \/ ByEmail(c) \/ Create(c)
                          \/ SaveMapping(c) \/ DeleteMapping(c)
    BY <1>1, <2>a DEF Next, Find, Save, Clear, Plain
  <2>2. /\ mapping'[u] # None /\ u \notin index' /\ pc'[saver'[u]] = "mapped" /\ saver'[u] \in Call
    BY <1>1, <2>0 DEF Unlisted, SaversKnown, TypeOK
  <2>3. StageOf(c)
    BY <1>1 DEF IdInv
  <2>4. ASSUME mapping[u] # None, saver'[u] = saver[u], pc'[saver[u]] = pc[saver[u]], index' = index
        PROVE  FALSE
    BY <1>1, <2>2, <2>4 DEF Unlisted
  \* A step that does not write the index, nor answers the call that stored u.
  <2>5. CASE ByEmail(c) \/ Create(c) \/ SaveMapping(c) \/ DeleteMapping(c)
    <3>1. /\ pc[c] \in {"email", "create", "save", "delete"} /\ index' = index
          /\ \A d \in Call \ {c} : pc'[d] = pc[d]
      BY <2>0, <2>5 DEF ByEmail, Create, SaveMapping, DeleteMapping, Goto, TypeOK
    <3>2. saver[u] # c
      BY <2>0, <3>1, IdentityAssumption DEF SaversKnown, Saving, Ended
    <3>3. mapping'[u] = mapping[u] /\ saver'[u] = saver[u]
      <4>1. CASE ByEmail(c) \/ Create(c)
        BY <4>1 DEF ByEmail, Create
      <4>2. CASE SaveMapping(c)
        <5>1. pc'[c] # "mapped"
          BY <2>0, <4>2 DEF SaveMapping, Goto, TypeOK
        <5> QED BY <2>0, <2>2, <4>2, <5>1 DEF SaveMapping, TypeOK
      <4>3. CASE DeleteMapping(c)
        BY <2>0, <2>2, <4>3 DEF DeleteMapping, TypeOK
      <4> QED BY <2>5, <4>1, <4>2, <4>3
    <3> QED BY <2>2, <2>4, <3>1, <3>2, <3>3
  <2>6. CASE Plain(c)
    <3>1. /\ mapping' = mapping /\ saver' = saver
          /\ \A d \in Call \ {c} : pc'[d] = pc[d]
      BY <1>1, <2>6, PlainFrame DEF Aside
    <3>2. CASE saver[u] = c /\ pc[c] # "mapped"
      <4>1. /\ pc[c] \in Saving \cup Ended /\ user[c] = u /\ pc'[c] = "mapped"
        BY <2>0, <2>2, <3>1, <3>2 DEF SaversKnown
      <4>2. AddRead(c) \/ AddWrite(c)
        BY <2>0, <2>6, <3>2, <4>1 DEF Plain, Begin, Check, ByName, ListIndex, Loaded, CutRead, CutWrite,
             DropIndex, LoadNext, RemoveNext, Crash, Goto, TypeOK, Saving, Ended, Running
      <4>3. CASE AddRead(c)
        <5>1. u \in index /\ index' = index
          BY <2>0, <4>1, <4>3 DEF AddRead, Goto, TypeOK, IndexRead
        <5> QED BY <2>2, <5>1
      <4>4. CASE AddWrite(c)
        <5>1. u \in index'
          BY <2>0, <4>1, <4>4 DEF AddWrite, Goto, TypeOK
        <5> QED BY <2>2, <5>1
      <4> QED BY <4>2, <4>3, <4>4
    <3>3. CASE saver[u] # c \/ pc[c] = "mapped"
      <4>0. pc[c] # "mapped"
        BY <2>6 DEF Plain, Begin, Check, ByName, AddRead, AddWrite, ListIndex, Loaded, CutRead, CutWrite,
             DropIndex, LoadNext, RemoveNext, Crash, Running, Checked, Saving, Clearing, Removing
      <4>1. u \in index /\ mapping[u] # None /\ u \in Stored
        BY <1>1, <2>2, <3>1, <3>3, <4>0 DEF Unlisted, Stored
      <4>2. AddWrite(c) \/ CutWrite(c) \/ DropIndex(c)
        BY <2>2, <2>6, <4>1 DEF Plain, Begin, Check, ByName, AddRead, ListIndex, Loaded, CutRead,
             LoadNext, RemoveNext, Crash
      <4>3. CASE AddWrite(c)
        BY <2>0, <2>2, <4>1, <4>3 DEF AddWrite, Goto, TypeOK
      <4>4. CASE CutWrite(c)
        <5>1. u \in todo[c] \cup spared[c] /\ user[c] \notin todo[c]
          BY <2>3, <4>1, <4>4 DEF CutWrite, StageOf, Removing
        <5> QED BY <2>0, <2>2, <4>1, <4>4, <5>1 DEF CutWrite, Goto, TypeOK
      <4>5. CASE DropIndex(c)
        <5>1. u \in todo[c] \cup spared[c] /\ todo[c] = {}
          BY <2>3, <4>1, <4>5 DEF DropIndex, StageOf
        <5> QED BY <2>0, <2>2, <4>1, <4>5, <5>1 DEF DropIndex, Goto, TypeOK
      <4> QED BY <4>2, <4>3, <4>4, <4>5
    <3> QED BY <3>2, <3>3
  <2> QED BY <2>1, <2>5, <2>6
<1>2. IdInv /\ [Next]_vars =>
        [\A u \in User : ~Unlisted(u) /\ Unlisted(u)' => \E c \in Call : Reason(u, c)]_vars
  BY <1>1
<1> QED BY <1>2, IdentityInvariant, PTL DEF Spec, MappingsStayListed
=============================================================================
