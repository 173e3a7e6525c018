----------------------------- MODULE DeskProofs -----------------------------
(***************************************************************************)
(* Proofs about TicketDesk, for any users, accounts, tickets, calls and    *)
(* profiles.  The inductive invariant adds to the properties what a        *)
(* handler has established by the point where it stands (Prepared), what   *)
(* the lists that were read hold, and how far from its end a list holds a  *)
(* ticket (InReach).                                                       *)
(***************************************************************************)
EXTENDS TicketDesk, TLAPS

\* What a handler knows of its call by the point where it stands.
Ready(c) ==
  /\ pc[c] \in {"record", "write"} => OpOf[c] = "create"
  /\ pc[c] = "alert" => c \in told
  /\ pc[c] = "look" => c \in Slash
  /\ pc[c] = "role" => REST(c)
  /\ pc[c] = "scope" => OpOf[c] = "view"
  /\ pc[c] = "map" => found[c] # None
  /\ Running(c) \/ pc[c] = "idle" => answer[c] = {}
  /\ pc[c] \in {"resolve", "find", "map"} =>
       OpOf[c] \notin StaffOps /\ (OpOf[c] = "search" => REST(c))
  /\ pc[c] = "all" => OpOf[c] = "search" /\ (REST(c) => WasStaff(UserOf[c]))
  /\ pc[c] = "send" /\ REST(c) /\ OpOf[c] \in StaffOps => WasStaff(UserOf[c])
  /\ pc[c] = "send" /\ ~ REST(c) /\ OpOf[c] = "reopen" =>
       status[TicketOf[c]] \in {"solved", "closed"} \/ c \in moved
  /\ pc[c] = "send" /\ REST(c) /\ OpOf[c] = "view" =>
       TicketOf[c] \in Theirs(UserOf[c]) \/ WasStaff(UserOf[c]) \/ account[c] # None

Prepared == \A c \in Call : Ready(c)

\* The lists that were read hold tickets the user has created, and what is yet
\* to be created is filed for nobody.
CopiesAreOfCreations ==
  /\ \A c \in Call : Tickets(copy[c]) \subseteq
                       {TicketOf[d] : d \in {e \in CreatedBy(UserOf[c]) : Created(e)}}
  /\ \A c \in Call : OpOf[c] = "create" /\ carried[c] = 0 => requester[TicketOf[c]] = None

\* List s holds ticket t with at most n others behind it.
Within(s, t, n) == \E i \in 1..Len(s) : s[i] = t /\ Len(s) - i <= n

\* What is recorded and not yet pushed out stands in the list of its user, and
\* in the copies of it that were read since, with no more behind it than have
\* been recorded after it.
InReach ==
  \A d \in listed :
    /\ OpOf[d] = "create"
    /\ newer[d] < OwnedLimit => Within(owned[UserOf[d]], TicketOf[d], newer[d])
    /\ \A e \in Call :
         pc[e] = "write" /\ UserOf[e] = UserOf[d] /\ d \notin unseen[e] /\ newer[d] < OwnedLimit =>
           Within(copy[e], TicketOf[d], newer[d])

DeskIInv == DeskInv /\ StaffOnly /\ ShownIsTheirs /\ Prepared /\ CopiesAreOfCreations /\ InReach

-----------------------------------------------------------------------------
(* Roles and lists. *)

\* The highest role of a set of profiles is a role.
LEMMA HighestRoleIsRole ==
  ASSUME NEW ps \in SUBSET Profile
  PROVE  HighestRole(ps) \in Role
<1> DEFINE roles == {"employee"} \cup {RoleOfProfile[p] : p \in ps}
<1>1. roles \subseteq Role
  BY DEF Role, Profile, RoleOfProfile
<1>2. \E r \in roles : \A p \in ps : Rank[RoleOfProfile[p]] <= Rank[r]
  <2>1. CASE "Super-Admin" \in ps
    BY <2>1 DEF Role, Profile, RoleOfProfile, Rank
  <2>2. CASE "Super-Admin" \notin ps /\ "Manager" \in ps
    BY <2>2 DEF Role, Profile, RoleOfProfile, Rank
  <2>3. CASE ps \cap {"Super-Admin", "Manager"} = {} /\ "Supervisor" \in ps
    BY <2>3 DEF Role, Profile, RoleOfProfile, Rank
  <2>4. CASE ps \cap {"Super-Admin", "Manager", "Supervisor"} = {} /\ "Technician" \in ps
    BY <2>4 DEF Role, Profile, RoleOfProfile, Rank
  <2>5. CASE ps \cap {"Super-Admin", "Manager", "Supervisor", "Technician"} = {}
    BY <2>5 DEF Role, Profile, RoleOfProfile, Rank
  <2> QED BY <2>1, <2>2, <2>3, <2>4, <2>5
<1> QED BY <1>1, <1>2 DEF HighestRole

\* Only who has been staff is read to be staff.
LEMMA RolesReadWereHad ==
  ASSUME RoleWasHad, NEW u \in User, NEW r \in RolesRead(u), IsStaff(r)
  PROVE  WasStaff(u)
BY DEF RoleWasHad, OfTheirs, IsStaff, RolesRead, WasStaff

\* What discovery finds is an account found for the user, with one of its roles.
LEMMA FoundIsTheirs ==
  ASSUME TypeOK, RoleWasHad, NEW u \in User, NEW f \in Found(u)
  PROVE  f \in Mapping /\ OfTheirs(u, f)
<1>0. PICK a \in AccountsFor[u] :
        \E r \in {"employee", HighestRole(profiles[a])} : f = [account |-> a, role |-> r]
  BY DEF Found
<1>1. PICK r \in {"employee", HighestRole(profiles[a])} : f = [account |-> a, role |-> r]
  BY <1>0
<1>2. a \in Account /\ profiles[a] \in SUBSET Profile
  BY DeskAssumption DEF TypeOK
<1>3. r \in Role
  BY <1>1, <1>2, HighestRoleIsRole DEF Role
<1> QED BY <1>1, <1>2, <1>3 DEF Mapping, OfTheirs, RoleWasHad

\* No account is None.
LEMMA MappingsAreNotNone == ASSUME NEW m \in Mapping PROVE m.account \in Account /\ m.account # None
BY DeskAssumption DEF Mapping

\* The user and the ticket of a call.
LEMMA CallTypes == \A c \in Call : UserOf[c] \in User /\ TicketOf[c] \in Ticket
BY DeskAssumption

\* No two calls create the same ticket.
LEMMA OneTicketEach ==
  \A c, d \in Call : OpOf[c] = "create" /\ OpOf[d] = "create" /\ TicketOf[c] = TicketOf[d] => c = d
BY DeskAssumption

\* A list with a ticket appended, cut to its newest, is a list of the same
\* tickets and that one.
LEMMA NewestIsList ==
  ASSUME NEW s \in Seq(Ticket), NEW t \in Ticket
  PROVE  /\ Newest(Append(s, t)) \in Seq(Ticket)
         /\ Tickets(Newest(Append(s, t))) \subseteq Tickets(s) \cup {t}
         /\ Within(Newest(Append(s, t)), t, 0)
<1> DEFINE a == Append(s, t)
           lo == Len(a) - OwnedLimit + 1
<1>1. a \in Seq(Ticket) /\ Len(a) = Len(s) + 1 /\ Len(s) \in Nat /\ OwnedLimit \in Nat \ {0}
  BY DeskAssumption
<1>2. \A i \in 1..Len(a) : a[i] = IF i = Len(a) THEN t ELSE s[i]
  OBVIOUS
<1>3. Tickets(a) \subseteq Tickets(s) \cup {t}
  BY <1>1, <1>2 DEF Tickets
<1>4. CASE Len(a) <= OwnedLimit
  <2>1. Newest(a) = a
    BY <1>1, <1>4 DEF Newest
  <2>2. a[Len(a)] = t /\ Len(a) \in 1..Len(a)
    BY <1>1, <1>2
  <2> QED BY <1>1, <1>3, <2>1, <2>2 DEF Within
<1>5. CASE Len(a) > OwnedLimit
  <2>1. Newest(a) = SubSeq(a, lo, Len(a)) /\ lo \in 1..Len(a)
    BY <1>1, <1>5 DEF Newest
  <2>2. /\ Newest(a) \in Seq(Ticket) /\ Len(Newest(a)) = OwnedLimit
        /\ \A i \in 1..OwnedLimit : Newest(a)[i] = a[lo + i - 1] /\ lo + i - 1 \in 1..Len(a)
    <3>1. \A i \in lo..Len(a) : a[i] \in Ticket
      BY <1>1, <2>1
    <3>2. Len(a) - lo + 1 = OwnedLimit
      BY <1>1
    <3> HIDE DEF a, lo
    <3> QED BY <1>1, <2>1, <3>1, <3>2
  <2>3. Tickets(Newest(a)) \subseteq Tickets(a)
    <3> HIDE DEF a
    <3> QED BY <1>1, <2>2 DEF Tickets
  <2>4. Newest(a)[OwnedLimit] = t /\ OwnedLimit \in 1..OwnedLimit
    BY <1>1, <1>2, <2>2
  <2>5. Within(Newest(a), t, 0)
    BY <1>1, <2>2, <2>4 DEF Within
  <2> QED BY <1>3, <2>2, <2>3, <2>5
<1> QED BY <1>1, <1>4, <1>5

\* One more behind it, a ticket is kept unless OwnedLimit are.
LEMMA NewestKeeps ==
  ASSUME NEW s \in Seq(Ticket), NEW t \in Ticket, NEW u \in Ticket, NEW n \in Nat,
         Within(s, u, n), n + 1 < OwnedLimit
  PROVE  Within(Newest(Append(s, t)), u, n + 1)
<1> DEFINE a == Append(s, t)
           lo == Len(a) - OwnedLimit + 1
<1>1. a \in Seq(Ticket) /\ Len(a) = Len(s) + 1 /\ Len(s) \in Nat /\ OwnedLimit \in Nat \ {0}
  BY DeskAssumption
<1>2. PICK i \in 1..Len(s) : s[i] = u /\ Len(s) - i <= n
  BY DEF Within
<1>3. a[i] = u /\ i \in 1..Len(a) /\ Len(a) - i <= n + 1
  BY <1>1, <1>2
<1>4. CASE Len(a) <= OwnedLimit
  <2>1. Newest(a) = a
    BY <1>1, <1>4 DEF Newest
  <2> QED BY <1>3, <2>1 DEF Within
<1>5. CASE Len(a) > OwnedLimit
  <2>1. Newest(a) = SubSeq(a, lo, Len(a)) /\ lo \in 1..Len(a)
    BY <1>1, <1>5 DEF Newest
  <2>2. i - lo + 1 \in 1..OwnedLimit /\ lo + (i - lo + 1) - 1 = i
    BY <1>1, <1>3
  <2>3. /\ Len(Newest(a)) = OwnedLimit
        /\ Newest(a)[i - lo + 1] = a[i]
    <3>1. \A j \in lo..Len(a) : a[j] \in Ticket
      <4> HIDE DEF a, lo
      <4> QED BY <1>1, <2>1
    <3>2. Len(a) - lo + 1 = OwnedLimit
      BY <1>1
    <3> HIDE DEF a, lo
    <3> QED BY <1>1, <2>1, <2>2, <3>1, <3>2
  <2>4. OwnedLimit - (i - lo + 1) <= n + 1
    BY <1>1, <1>3
  <2> QED BY <1>3, <2>2, <2>3, <2>4 DEF Within
<1> QED BY <1>1, <1>4, <1>5

-----------------------------------------------------------------------------
(* Steps. *)

\* Every step keeps the types.
LEMMA TypeStep ==
  ASSUME TypeOK, RoleWasHad, Prepared, [Next]_vars
  PROVE  TypeOK'
<1> USE CallTypes DEF TypeOK, Goto, userVars, findVars, listVars, glpiVars, showVars, outVars
<1>1. ASSUME NEW c \in Call, Begin(c) PROVE TypeOK'
  BY <1>1 DEF Begin
<1>2. ASSUME NEW c \in Call, CheckRole(c) PROVE TypeOK'
  BY <1>2 DEF CheckRole
<1>3. ASSUME NEW c \in Call, Scope(c) PROVE TypeOK'
  <2>1. pc' = [pc EXCEPT ![c] = "send"] \/ pc' = [pc EXCEPT ![c] = "resolve"]
    BY <1>3 DEF Scope
  <2>2. TypeOK' \/ ~ UNCHANGED <<userVars, findVars, listVars, glpiVars, showVars, carried, outVars, moved>>
    BY <2>1
  <2> QED BY <1>3, <2>2 DEF Scope
<1>4. ASSUME NEW c \in Call, Resolve(c) PROVE TypeOK'
  <2>1. mapping[UserOf[c]] # None => mapping[UserOf[c]].account \in Account
    BY MappingsAreNotNone
  <2> QED BY <1>4, <2>1 DEF Resolve, Resolved
<1>5. ASSUME NEW c \in Call, Find(c) PROVE TypeOK'
  <2>1. found' \in [Call -> Mapping \cup {None}]
    <3>1. \A f \in Found(UserOf[c]) : f \in Mapping
      BY FoundIsTheirs
    <3> QED BY <1>5, <3>1 DEF Find
  <2>2. account' \in [Call -> Account \cup {None}]
    BY <1>5 DEF Find, Resolved
  <2> QED BY <1>5, <2>1, <2>2 DEF Find, Resolved
<1>6. ASSUME NEW c \in Call, Map(c) PROVE TypeOK'
  <2>1. found[c] \in Mapping /\ found[c].account \in Account
    BY <1>6, MappingsAreNotNone DEF Map, Prepared, Ready
  <2> QED BY <1>6, <2>1 DEF Map, Resolved
<1>7. ASSUME NEW c \in Call, Look(c) PROVE TypeOK'
  BY <1>7 DEF Look
<1>8. ASSUME NEW c \in Call, Carry(c) PROVE TypeOK'
  <2>1. carried' \in [Call -> 0..2]
    <3>1. carried[c] \in 0..2 /\ carried[c] < 2
      BY <1>8 DEF Carry
    <3>2. carried[c] + 1 \in 0..2
      BY <3>1
    <3>3. carried' = [carried EXCEPT ![c] = carried[c] + 1]
      BY <1>8 DEF Carry
    <3> QED BY <3>2, <3>3
  <2>2. status' \in [Ticket -> {"none", "open", "solved", "closed"}] /\ moved' \subseteq Call
    BY <1>8 DEF Carry, Leaves, Overtaken
  <2>3. trash' \subseteq Ticket /\ requester' \in [Ticket -> Account \cup {None}]
    BY <1>8 DEF Carry
  <2> QED BY <1>8, <2>1, <2>2, <2>3 DEF Carry
<1>9. ASSUME NEW c \in Call, Miss(c) PROVE TypeOK'
  BY <1>9 DEF Miss
<1>10. ASSUME NEW c \in Call, Show(c) PROVE TypeOK'
  <2>1. \A u \in User : Tickets(owned[u]) \subseteq Ticket
    BY DEF Tickets
  <2>2. Listed(c) \subseteq Ticket
    BY <2>1 DEF Listed, Own
  <2>3. answer' \in [Call -> SUBSET Ticket] /\ partial' \subseteq Call
    <3>1. PICK some \in SUBSET Ticket : answer' = [answer EXCEPT ![c] = some]
      <4>1. CASE answer' = [answer EXCEPT ![c] = IF OpOf[c] = "view" THEN {TicketOf[c]} ELSE Listed(c)]
        BY <2>2, <4>1
      <4>2. CASE \E some \in SUBSET Tickets(owned[UserOf[c]]) : answer' = [answer EXCEPT ![c] = some]
        BY <2>1, <4>2
      <4> QED BY <1>10, <4>1, <4>2 DEF Show
    <3> QED BY <1>10, <3>1 DEF Show
  <2> QED BY <1>10, <2>3 DEF Show
<1>11. ASSUME NEW c \in Call, RecordGet(c) PROVE TypeOK'
  <2>1. copy' \in [Call -> Seq(Ticket)]
    BY <1>11 DEF RecordGet
  <2>2. unseen' \in [Call -> SUBSET Call]
    <3>1. CreatedBy(UserOf[c]) \subseteq Call
      BY DEF CreatedBy
    <3> QED BY <1>11, <3>1 DEF RecordGet
  <2> QED BY <1>11, <2>1, <2>2 DEF RecordGet
<1>12. ASSUME NEW c \in Call, RecordSet(c) PROVE TypeOK'
  <2>1. Newest(Append(copy[c], TicketOf[c])) \in Seq(Ticket)
    BY NewestIsList
  <2>2. owned' \in [User -> Seq(Ticket)] /\ copy' \in [Call -> Seq(Ticket)]
    <3>1. \/ owned' = [owned EXCEPT ![UserOf[c]] = Newest(Append(copy[c], TicketOf[c]))]
          \/ owned' = owned
      BY <1>12 DEF RecordSet
    <3>2. owned' \in [User -> Seq(Ticket)]
      BY <2>1, <3>1
    <3>3. copy' = [copy EXCEPT ![c] = <<>>]
      BY <1>12 DEF RecordSet
    <3> QED BY <3>2, <3>3
  <2>3. unseen' \in [Call -> SUBSET Call]
    <3>1. \/ unseen' = [d \in Call |->
               IF d = c THEN {}
               ELSE IF pc[d] = "write" /\ UserOf[d] = UserOf[c] THEN unseen[d] \cup {c} ELSE unseen[d]]
          \/ unseen' = [unseen EXCEPT ![c] = {}]
      BY <1>12 DEF RecordSet
    <3>2. unseen \in [Call -> SUBSET Call]
      OBVIOUS
    <3> HIDE DEF TypeOK
    <3>3. ASSUME unseen' = [unseen EXCEPT ![c] = {}] PROVE unseen' \in [Call -> SUBSET Call]
      BY <3>2, <3>3
    <3> QED BY <3>1, <3>2, <3>3
  <2>4. listed' \subseteq Call
    BY <1>12 DEF RecordSet
  <2>5. newer' \in [Call -> Nat]
    <3>1. \/ newer' = [d \in Call |->
               IF d \in (listed' \ {c}) \cap CreatedBy(UserOf[c]) THEN newer[d] + 1 ELSE newer[d]]
          \/ newer' = newer
      BY <1>12 DEF RecordSet
    <3>2. newer \in [Call -> Nat]
      OBVIOUS
    <3> HIDE DEF TypeOK
    <3> QED BY <3>1, <3>2
  <2> QED BY <1>12, <2>2, <2>3, <2>4, <2>5 DEF RecordSet
<1>13. ASSUME NEW c \in Call, Notify(c) PROVE TypeOK'
  BY <1>13 DEF Notify
<1>14. ASSUME NEW c \in Call, Alert(c) PROVE TypeOK'
  BY <1>14 DEF Alert
<1>15. ASSUME NEW c \in Call, Crash(c) PROVE TypeOK'
  BY <1>15 DEF Crash
<1>16. ASSUME NEW on \in Modes, Configure(on) PROVE TypeOK'
  BY <1>16 DEF Configure, otherVars, Turn
<1>17. ASSUME NEW u \in User, AdminMaps(u) PROVE TypeOK'
  BY <1>17, FoundIsTheirs DEF AdminMaps, otherVars, Turn
<1>18. ASSUME NEW u \in User, RemoveMapping(u) PROVE TypeOK'
  BY <1>18 DEF RemoveMapping, otherVars, Turn
<1>19. ASSUME NEW a \in Account, NEW ps \in ProfilesOf[a], Assign(a, ps) PROVE TypeOK'
  <2>1. ps \in SUBSET Profile /\ HighestRole(ps) \in Role
    BY DeskAssumption, HighestRoleIsRole
  <2> QED BY <1>19, <2>1 DEF Assign, otherVars, Turn
<1>20. ASSUME NEW t \in Worked, NEW s \in {"open", "solved", "closed"}, Elsewhere(t, s) PROVE TypeOK'
  BY <1>20 DEF Elsewhere, Overtaken, otherVars, Turn
<1>21. CASE UNCHANGED vars
  BY <1>21 DEF vars
<1> QED BY <1>1, <1>2, <1>3, <1>4, <1>5, <1>6, <1>7, <1>8, <1>9, <1>10, <1>11, <1>12, <1>13, <1>14,
           <1>15, <1>16, <1>17, <1>18, <1>19, <1>20, <1>21 DEF Next

\* Every step keeps mappings among the accounts and roles that were found.
LEMMA RoleStep ==
  ASSUME TypeOK, RoleWasHad, Prepared, [Next]_vars
  PROVE  RoleWasHad'
<1> USE CallTypes DEF TypeOK, userVars, findVars
<1>1. ASSUME NEW c \in Call, Resolve(c) PROVE RoleWasHad'
  <2>1. \A d \in Call : account'[d] \in {None, account[d]} \/ (d = c /\ mapping[UserOf[c]] # None
                                      /\ account'[d] = mapping[UserOf[c]].account)
    BY <1>1 DEF Resolve, Resolved
  <2> QED BY <1>1, <2>1 DEF Resolve, RoleWasHad, OfTheirs
<1>2. ASSUME NEW c \in Call, Find(c) PROVE RoleWasHad'
  <2>1. \A d \in Call : account'[d] \in {None, account[d]}
    BY <1>2 DEF Find, Resolved
  <2>2. \A d \in Call : found'[d] = found[d] \/ (d = c /\ found'[d] \in Found(UserOf[c]))
    BY <1>2 DEF Find
  <2>3. \A f \in Found(UserOf[c]) : OfTheirs(UserOf[c], f)
    BY FoundIsTheirs
  <2> QED BY <1>2, <2>1, <2>2, <2>3 DEF Find, RoleWasHad, OfTheirs
<1>3. ASSUME NEW c \in Call, Map(c) PROVE RoleWasHad'
  <2>1. found[c] # None /\ OfTheirs(UserOf[c], found[c])
    BY <1>3 DEF Map, Prepared, Ready, RoleWasHad
  <2>2. \A d \in Call : account'[d] \in {None, account[d]} \/ (d = c /\ account'[d] = found[c].account)
    BY <1>3 DEF Map, Resolved
  <2>3. \A d \in Call : found'[d] \in {None, found[d]}
    BY <1>3 DEF Map
  <2>4. \A u \in User : mapping'[u] = mapping[u] \/ (u = UserOf[c] /\ mapping'[u] = found[c])
    BY <1>3 DEF Map
  <2> QED BY <1>3, <2>1, <2>2, <2>3, <2>4 DEF Map, RoleWasHad, OfTheirs
<1>4. ASSUME NEW c \in Call, Crash(c) PROVE RoleWasHad'
  BY <1>4 DEF Crash, RoleWasHad, OfTheirs
<1>5. ASSUME NEW u \in User, AdminMaps(u) PROVE RoleWasHad'
  <2>1. \A v \in User : mapping'[v] = mapping[v] \/ (v = u /\ mapping'[v] \in Found(u))
    BY <1>5 DEF AdminMaps
  <2>2. \A f \in Found(u) : OfTheirs(u, f)
    BY FoundIsTheirs
  <2> QED BY <1>5, <2>1, <2>2 DEF AdminMaps, otherVars, RoleWasHad, OfTheirs
<1>6. ASSUME NEW u \in User, RemoveMapping(u) PROVE RoleWasHad'
  BY <1>6 DEF RemoveMapping, otherVars, RoleWasHad, OfTheirs
<1>7. ASSUME NEW a \in Account, NEW ps \in ProfilesOf[a], Assign(a, ps) PROVE RoleWasHad'
  BY <1>7 DEF Assign, otherVars, RoleWasHad, OfTheirs
<1>8. ASSUME UNCHANGED <<profiles, had, findVars>> PROVE RoleWasHad'
  BY <1>8 DEF RoleWasHad, OfTheirs
<1> QED BY <1>1, <1>2, <1>3, <1>4, <1>5, <1>6, <1>7, <1>8 DEF Next, vars, Begin, CheckRole, Scope, Look,
           Carry, Miss, Show, RecordGet, RecordSet, Notify, Alert, Configure, Elsewhere, otherVars

\* Carrying a call out counts.
LEMMA CarryCounts ==
  ASSUME TypeOK, NEW c \in Call, Carry(c), NEW d \in Call
  PROVE  carried[d] \in Nat /\ carried'[d] = (IF d = c THEN carried[d] + 1 ELSE carried[d])
<1>1. carried \in [Call -> 0..2]
  BY DEF TypeOK
<1>2. carried' = [carried EXCEPT ![c] = carried[c] + 1]
  BY DEF Carry
<1> QED BY <1>1, <1>2

\* Every step keeps what is told and announced to what was done.
LEMMA ToldStep ==
  ASSUME TypeOK, Prepared, DoneIsTold, [Next]_vars
  PROVE  DoneIsTold'
<1> DEFINE Past == {"record", "write", "notify", "alert"}
<1>1. ASSUME NEW c \in Call, Carry(c) PROVE DoneIsTold'
  <2>1. \A d \in Call : carried[d] \in Nat /\ carried'[d] \in Nat /\ carried'[d] >= carried[d]
                          /\ (d = c => carried'[d] > 0)
    BY <1>1, CarryCounts
  <2>2. pc'[c] = "done" => ~ REST(c)
    BY <1>1 DEF Carry, Goto, TypeOK
  <2>3. \A d \in Call \ {c} : pc'[d] = pc[d]
    BY <1>1 DEF Carry, Goto, TypeOK
  <2>4. UNCHANGED <<told, alerted>>
    BY <1>1 DEF Carry, outVars
  <2>5. told \subseteq Call
    BY DEF TypeOK
  <2> QED BY <2>1, <2>2, <2>3, <2>4, <2>5 DEF DoneIsTold
<1>2. ASSUME NEW c \in Call, Notify(c) PROVE DoneIsTold'
  BY <1>2 DEF Notify, Goto, DoneIsTold, TypeOK
<1>3. ASSUME NEW c \in Call, Alert(c) PROVE DoneIsTold'
  <2>1. c \in told /\ UNCHANGED <<told, carried>>
    BY <1>3 DEF Alert, Prepared, Ready
  <2>2. c \in alerted' \ alerted /\ OpOf[c] = "followup" => UserOf[c] \notin SysAdmin
    BY <1>3 DEF Alert, Announces, RolesRead, IsStaff
  <2>3. alerted' \subseteq alerted \cup {c}
    BY <1>3 DEF Alert
  <2>4. \A d \in Call : pc'[d] = pc[d] \/ (d = c /\ pc'[d] = "done")
    BY <1>3 DEF Alert, Goto, TypeOK
  <2> QED BY <2>1, <2>2, <2>3, <2>4 DEF DoneIsTold
<1>4. ASSUME UNCHANGED <<carried, told, alerted>>,
             \A d \in Call : pc'[d] \in Past => pc[d] \in Past,
             \A d \in Call : pc'[d] = "done" => pc[d] = "done" \/ OpOf[d] \in Reads
      PROVE  DoneIsTold'
  BY <1>4 DEF DoneIsTold
<1>5. ASSUME NEW c \in Call,
             \/ Begin(c) \/ CheckRole(c) \/ Scope(c) \/ Resolve(c) \/ Find(c) \/ Map(c) \/ Look(c)
             \/ Miss(c) \/ Show(c) \/ RecordGet(c) \/ RecordSet(c) \/ Crash(c)
      PROVE  DoneIsTold'
  <2>1. UNCHANGED <<carried, told, alerted>>
    BY <1>5 DEF Begin, CheckRole, Scope, Resolve, Find, Map, Look, Miss, Show, RecordGet, RecordSet,
                Crash, outVars
  <2>2. \A d \in Call \ {c} : pc'[d] = pc[d]
    BY <1>5 DEF Begin, CheckRole, Scope, Resolve, Find, Map, Look, Miss, Show, RecordGet, RecordSet,
                Crash, Resolved, Goto, TypeOK
  <2>3. pc'[c] \in Past => pc[c] \in Past
    BY <1>5 DEF Begin, CheckRole, Scope, Resolve, Find, Map, Look, Miss, Show, RecordGet, RecordSet,
                Crash, Resolved, Goto, TypeOK
  <2>4. pc'[c] = "done" => OpOf[c] \in Reads
    BY <1>5 DEF Begin, CheckRole, Scope, Resolve, Find, Map, Look, Miss, Show, RecordGet, RecordSet,
                Crash, Resolved, Goto, TypeOK
  <2> QED BY <1>4, <2>1, <2>2, <2>3, <2>4
<1>6. ASSUME UNCHANGED <<pc, carried, told, alerted>> PROVE DoneIsTold'
  BY <1>6 DEF DoneIsTold
<1> QED BY <1>1, <1>2, <1>3, <1>5, <1>6
        DEF Next, vars, Configure, AdminMaps, RemoveMapping, Assign, Elsewhere, otherVars, outVars

\* A step that does not disturb the lists: it leaves them, the histories of
\* what they hold, what has been created and for whom it is filed.
ListsStay ==
  /\ UNCHANGED <<owned, listed, newer, requester, carried>>
  /\ \A c \in Call : copy'[c] \in {copy[c], <<>>}
  /\ \A c \in Call : pc'[c] = "write" => pc[c] = "write" /\ copy'[c] = copy[c] /\ unseen'[c] = unseen[c]

\* The steps that do not carry a call out, and do not read or write a list.
LEMMA MostStepsLeaveLists ==
  ASSUME TypeOK, [Next]_vars
  PROVE  ListsStay \/ \E c \in Call : Carry(c) \/ RecordGet(c) \/ RecordSet(c)
<1>1. ASSUME NEW c \in Call,
             \/ Begin(c) \/ CheckRole(c) \/ Scope(c) \/ Resolve(c) \/ Find(c) \/ Map(c) \/ Look(c)
             \/ Miss(c) \/ Show(c) \/ Notify(c) \/ Alert(c)
      PROVE  ListsStay
  <2>1. UNCHANGED <<owned, copy, unseen, listed, newer, requester, carried>>
    BY <1>1 DEF Begin, CheckRole, Scope, Resolve, Find, Map, Look, Miss, Show, Notify, Alert,
                listVars, glpiVars
  <2>2. \A d \in Call \ {c} : pc'[d] = pc[d]
    BY <1>1 DEF Begin, CheckRole, Scope, Resolve, Find, Map, Look, Miss, Show, Notify, Alert,
                Resolved, Goto, TypeOK
  <2>3. pc'[c] # "write"
    BY <1>1 DEF Begin, CheckRole, Scope, Resolve, Find, Map, Look, Miss, Show, Notify, Alert,
                Resolved, Goto, TypeOK
  <2> QED BY <2>1, <2>2, <2>3 DEF ListsStay
<1>2. ASSUME NEW c \in Call, Crash(c) PROVE ListsStay
  <2>1. UNCHANGED <<owned, listed, newer, requester, carried>>
    BY <1>2 DEF Crash, glpiVars
  <2>2. \A d \in Call \ {c} : pc'[d] = pc[d] /\ copy'[d] = copy[d] /\ unseen'[d] = unseen[d]
    BY <1>2 DEF Crash, Goto, TypeOK
  <2>3. pc'[c] # "write" /\ copy'[c] = <<>>
    BY <1>2 DEF Crash, Goto, TypeOK
  <2> QED BY <2>1, <2>2, <2>3 DEF ListsStay
<1>3. ASSUME UNCHANGED <<owned, copy, unseen, listed, newer, requester, carried, pc>> PROVE ListsStay
  BY <1>3 DEF ListsStay
<1> QED BY <1>1, <1>2, <1>3 DEF Next, vars, Configure, AdminMaps, RemoveMapping, Assign, Elsewhere,
        otherVars, listVars, glpiVars

\* What creations have been carried out stays so, and filed as they are.
LEMMA CreationsStay ==
  ASSUME TypeOK, [Next]_vars
  PROVE  \A d \in Call : Created(d) => Created(d)' /\ requester'[TicketOf[d]] = requester[TicketOf[d]]
<1>1. ASSUME NEW c \in Call, Carry(c), NEW d \in Call, Created(d)
      PROVE  Created(d)' /\ requester'[TicketOf[d]] = requester[TicketOf[d]]
  <2>1. carried[d] \in Nat /\ carried'[d] \in Nat /\ carried'[d] >= carried[d]
    BY <1>1, CarryCounts
  <2>2. OpOf[c] = "create" => c # d
    BY <1>1, <2>1 DEF Carry, Created
  <2>3. requester'[TicketOf[d]] = requester[TicketOf[d]]
    BY <1>1, <2>2, CallTypes, OneTicketEach DEF Carry, Created, TypeOK
  <2> QED BY <1>1, <2>1, <2>3 DEF Created
<1>2. ASSUME NEW c \in Call, RecordGet(c) \/ RecordSet(c) PROVE UNCHANGED <<carried, requester>>
  BY <1>2 DEF RecordGet, RecordSet, glpiVars
<1> QED BY <1>1, <1>2, MostStepsLeaveLists DEF ListsStay, Created

\* Every step keeps the lists, and the copies of them, to tickets created.
LEMMA ListStep ==
  ASSUME TypeOK, RoleWasHad, Prepared, DoneIsTold, ListsAreOfCreations, CopiesAreOfCreations, InReach,
         [Next]_vars, InReach'
  PROVE  ListsAreOfCreations' /\ CopiesAreOfCreations'
<1> DEFINE Creations(u) == {TicketOf[c] : c \in {d \in CreatedBy(u) : Created(d)}}
<1>1. \A u \in User : Creations(u) \subseteq Creations(u)'
  BY CreationsStay DEF CreatedBy
<1>2. \A u \in User : Tickets(owned'[u]) \subseteq Creations(u)'
  <2>1. ASSUME NEW c \in Call, RecordSet(c) PROVE \A u \in User : Tickets(owned'[u]) \subseteq Creations(u)'
    <3>1. c \in CreatedBy(UserOf[c]) /\ Created(c)
      BY <2>1 DEF RecordSet, Prepared, Ready, DoneIsTold, CreatedBy, Created
    <3>2. Tickets(Newest(Append(copy[c], TicketOf[c]))) \subseteq Creations(UserOf[c])
      <4>1. copy[c] \in Seq(Ticket) /\ TicketOf[c] \in Ticket
        BY CallTypes DEF TypeOK
      <4> QED BY <3>1, <4>1, NewestIsList DEF CopiesAreOfCreations
    <3>3. \A u \in User :
           owned'[u] = owned[u] \/ (u = UserOf[c] /\ owned'[u] = Newest(Append(copy[c], TicketOf[c])))
      <4>1. \/ owned' = [owned EXCEPT ![UserOf[c]] = Newest(Append(copy[c], TicketOf[c]))]
            \/ owned' = owned
        BY <2>1 DEF RecordSet
      <4>2. owned \in [User -> Seq(Ticket)]
        BY DEF TypeOK
      <4> QED BY <4>1, <4>2
    <3> QED BY <1>1, <3>2, <3>3 DEF ListsAreOfCreations
  <2>2. ASSUME NEW c \in Call, Carry(c) \/ RecordGet(c) PROVE owned' = owned
    BY <2>2 DEF Carry, RecordGet, listVars
  <2> QED BY <1>1, <2>1, <2>2, MostStepsLeaveLists DEF ListsStay, ListsAreOfCreations
<1>3. \A d \in Call : Tickets(copy'[d]) \subseteq Creations(UserOf[d])'
  <2>1. \A d \in Call : copy'[d] \in {copy[d], owned[UserOf[d]], <<>>}
    <3>1. ASSUME NEW c \in Call, RecordGet(c) \/ RecordSet(c)
          PROVE  \A d \in Call : copy'[d] \in {copy[d], owned[UserOf[d]], <<>>}
      BY <3>1 DEF RecordGet, RecordSet, TypeOK
    <3>2. ASSUME NEW c \in Call, Carry(c) PROVE copy' = copy
      BY <3>2 DEF Carry, listVars
    <3> QED BY <3>1, <3>2, MostStepsLeaveLists DEF ListsStay
  <2>2. Tickets(<<>>) = {}
    BY DEF Tickets
  <2> QED BY <1>1, <2>1, <2>2, CallTypes DEF CopiesAreOfCreations, ListsAreOfCreations
<1>4. \A d \in Call : Created(d)' => requester'[TicketOf[d]] \in AccountsFor[UserOf[d]] \cup {None}
  <2>1. ASSUME NEW d \in Call, Created(d)', ~ Created(d)
        PROVE  requester'[TicketOf[d]] \in AccountsFor[UserOf[d]] \cup {None}
    <3>1. carried'[d] # carried[d]
      BY <2>1 DEF Created
    <3>2. Carry(d)
      <4>1. PICK c \in Call : Carry(c)
        BY <3>1, MostStepsLeaveLists DEF ListsStay, RecordGet, RecordSet
      <4> QED BY <3>1, <4>1 DEF Carry, TypeOK
    <3> QED BY <2>1, <3>2, CallTypes DEF Carry, Created, RoleWasHad, TypeOK
  <2> QED BY <2>1, CreationsStay DEF ListsAreOfCreations
<1>5. \A d \in Call : OpOf[d] = "create" /\ carried'[d] = 0 => requester'[TicketOf[d]] = None
  <2>1. ASSUME NEW c \in Call, Carry(c), NEW d \in Call, OpOf[d] = "create", carried'[d] = 0
        PROVE  requester'[TicketOf[d]] = None
    <3>1. c # d /\ carried[d] = 0
      BY <2>1, CarryCounts
    <3> QED BY <2>1, <3>1, CallTypes, OneTicketEach DEF Carry, CopiesAreOfCreations, TypeOK
  <2>2. ASSUME NEW c \in Call, RecordGet(c) \/ RecordSet(c) PROVE UNCHANGED <<carried, requester>>
    BY <2>2 DEF RecordGet, RecordSet, glpiVars
  <2> QED BY <2>1, <2>2, MostStepsLeaveLists DEF ListsStay, CopiesAreOfCreations
<1>6. \A d \in listed' : newer'[d] < OwnedLimit => TicketOf[d] \in Tickets(owned'[UserOf[d]])
  BY DEF InReach, Within, Tickets
<1> QED BY <1>2, <1>3, <1>4, <1>5, <1>6 DEF ListsAreOfCreations, CopiesAreOfCreations

\* Every step keeps what is recorded within reach.
LEMMA ReachStep ==
  ASSUME TypeOK, Prepared, InReach, [Next]_vars
  PROVE  InReach'
<1>1. ASSUME ListsStay PROVE InReach'
  BY <1>1 DEF ListsStay, InReach, Within
<1>2. ASSUME NEW c \in Call, Carry(c) PROVE InReach'
  <2>1. UNCHANGED <<owned, copy, unseen, listed, newer>> /\ \A e \in Call : pc'[e] = "write" => pc[e] = "write"
    BY <1>2 DEF Carry, listVars, Goto, TypeOK
  <2> QED BY <2>1 DEF InReach, Within
<1>3. ASSUME NEW c \in Call, RecordGet(c) PROVE InReach'
  <2>1. UNCHANGED <<owned, listed, newer>>
    BY <1>3 DEF RecordGet
  <2>2. \A e \in Call \ {c} : copy'[e] = copy[e] /\ unseen'[e] = unseen[e] /\ pc'[e] = pc[e]
    BY <1>3 DEF RecordGet, Goto, TypeOK
  <2>3. copy'[c] = owned[UserOf[c]] \/ CreatedBy(UserOf[c]) \subseteq unseen'[c]
    BY <1>3 DEF RecordGet, TypeOK
  <2>4. \A d \in listed : d \in Call
    BY DEF TypeOK
  <2>5. ASSUME NEW d \in listed, NEW e \in Call, pc'[e] = "write", UserOf[e] = UserOf[d],
               d \notin unseen'[e], newer[d] < OwnedLimit
        PROVE  Within(copy'[e], TicketOf[d], newer[d])
    <3>1. CASE e = c
      BY <2>3, <2>4, <2>5, <3>1 DEF InReach, CreatedBy
    <3>2. CASE e # c
      BY <2>2, <2>5, <3>2 DEF InReach
    <3> QED BY <3>1, <3>2
  <2> QED BY <2>1, <2>5 DEF InReach, Within
<1>4. ASSUME NEW c \in Call, RecordSet(c) PROVE InReach'
  <2> DEFINE s == Newest(Append(copy[c], TicketOf[c]))
  <2>1. /\ pc[c] = "write" /\ OpOf[c] = "create" /\ copy[c] \in Seq(Ticket) /\ TicketOf[c] \in Ticket
        /\ \A e \in Call : pc'[e] = "write" => e # c /\ pc[e] = "write" /\ copy'[e] = copy[e]
    BY <1>4, CallTypes DEF RecordSet, Prepared, Ready, Goto, TypeOK
  <2>2. CASE UNCHANGED <<owned, listed, newer>> /\ unseen' = [unseen EXCEPT ![c] = {}]
    <3>1. \A e \in Call \ {c} : unseen'[e] = unseen[e]
      BY <2>2 DEF TypeOK
    <3> QED BY <2>1, <2>2, <3>1 DEF InReach, Within
  <2>3. CASE /\ owned' = [owned EXCEPT ![UserOf[c]] = s]
             /\ listed' = (listed \ unseen[c]) \cup {c}
             /\ newer' = [d \in Call |->
                  IF d \in (listed' \ {c}) \cap CreatedBy(UserOf[c]) THEN newer[d] + 1 ELSE newer[d]]
             /\ unseen' = [d \in Call |->
                  IF d = c THEN {}
                  ELSE IF pc[d] = "write" /\ UserOf[d] = UserOf[c] THEN unseen[d] \cup {c} ELSE unseen[d]]
    <3>1. ASSUME NEW d \in listed' PROVE d \in Call /\ OpOf[d] = "create" /\ newer[d] \in Nat
      BY <2>1, <2>3, <3>1 DEF InReach, TypeOK
    <3>2. ASSUME NEW d \in listed', newer'[d] < OwnedLimit
          PROVE  Within(owned'[UserOf[d]], TicketOf[d], newer'[d])
      <4>1. CASE d = c
        <5>1. newer'[d] \in Nat /\ owned'[UserOf[d]] = s
          BY <2>3, <3>1, <4>1, CallTypes DEF TypeOK
        <5>2. Within(s, TicketOf[d], 0)
          BY <2>1, <4>1, NewestIsList
        <5>3. Len(s) \in Nat
          BY <2>1, NewestIsList
        <5> HIDE DEF s
        <5> QED BY <5>1, <5>2, <5>3 DEF Within
      <4>2. CASE d # c /\ UserOf[d] = UserOf[c]
        <5>1. newer'[d] = newer[d] + 1 /\ owned'[UserOf[d]] = s /\ d \in listed /\ d \notin unseen[c]
          BY <2>3, <3>1, <4>2, CallTypes DEF CreatedBy, TypeOK
        <5>2. newer[d] < OwnedLimit
          BY <3>1, <3>2, <5>1, DeskAssumption
        <5>3. Within(copy[c], TicketOf[d], newer[d])
          BY <2>1, <4>2, <5>1, <5>2 DEF InReach
        <5>4. Within(s, TicketOf[d], newer[d] + 1)
          BY <2>1, <3>1, <3>2, <5>1, <5>3, CallTypes, NewestKeeps
        <5> QED BY <5>1, <5>4
      <4>3. CASE UserOf[d] # UserOf[c]
        <5>1. newer'[d] = newer[d] /\ owned'[UserOf[d]] = owned[UserOf[d]] /\ d \in listed
          BY <2>3, <3>1, <4>3, CallTypes DEF CreatedBy, TypeOK
        <5> QED BY <3>2, <5>1 DEF InReach
      <4> QED BY <4>1, <4>2, <4>3
    <3>3. ASSUME NEW d \in listed', NEW e \in Call, pc'[e] = "write", UserOf[e] = UserOf[d],
                 d \notin unseen'[e], newer'[d] < OwnedLimit
          PROVE  Within(copy'[e], TicketOf[d], newer'[d])
      <4>1. e # c /\ pc[e] = "write" /\ copy'[e] = copy[e] /\ copy[e] \in Seq(Ticket)
        BY <2>1, <3>3 DEF TypeOK
      <4>2. d # c /\ d \notin unseen[e] /\ d \in listed
        BY <2>3, <3>3, <4>1
      <4>3. newer'[d] \in {newer[d], newer[d] + 1} /\ newer[d] \in Nat
        BY <2>3, <3>1
      <4>4. newer[d] < OwnedLimit
        BY <3>3, <4>3, DeskAssumption
      <4>5. Within(copy[e], TicketOf[d], newer[d])
        BY <3>3, <4>1, <4>2, <4>4 DEF InReach
      <4> QED BY <4>1, <4>3, <4>5 DEF Within
    <3> QED BY <3>1, <3>2, <3>3 DEF InReach
  <2> QED BY <1>4, <2>2, <2>3 DEF RecordSet
<1> QED BY <1>1, <1>2, <1>3, <1>4, MostStepsLeaveLists

\* Who has been staff has been, whatever happens.
LEMMA StaffStays ==
  ASSUME TypeOK, [Next]_vars
  PROVE  \A u \in User : WasStaff(u) => WasStaff(u)'
<1>1. ASSUME NEW a \in Account, NEW ps \in ProfilesOf[a], Assign(a, ps)
      PROVE  \A b \in Account : had[b] \subseteq had'[b]
  BY <1>1 DEF Assign, TypeOK
<1>2. had' = had \/ \A b \in Account : had[b] \subseteq had'[b]
  BY <1>1 DEF Next, vars, userVars, Begin, CheckRole, Scope, Resolve, Find, Map, Look, Carry, Miss, Show,
     RecordGet, RecordSet, Notify, Alert, Crash, Configure, AdminMaps, RemoveMapping, Elsewhere
<1> QED BY <1>2, DeskAssumption DEF WasStaff

\* What is a user's stays his.
LEMMA TheirsStay ==
  ASSUME TypeOK, CopiesAreOfCreations, [Next]_vars
  PROVE  \A u \in User : Theirs(u) \subseteq Theirs(u)'
<1>1. ASSUME NEW t \in Ticket, requester'[t] # requester[t] PROVE requester[t] = None
  <2>1. PICK c \in Call : Carry(c)
    BY <1>1, MostStepsLeaveLists DEF ListsStay, RecordGet, RecordSet, glpiVars
  <2>2. OpOf[c] = "create" /\ t = TicketOf[c] /\ carried[c] < 1
    BY <1>1, <2>1 DEF Carry, TypeOK
  <2>3. carried[c] \in Nat
    BY <2>1, CarryCounts
  <2> QED BY <2>2, <2>3 DEF CopiesAreOfCreations
<1>2. \A u \in User : None \notin AccountsFor[u]
  BY DeskAssumption
<1> QED BY <1>1, <1>2, CreationsStay DEF Theirs, CreatedBy

\* Every step keeps staff operations to staff.
LEMMA StaffStep ==
  ASSUME TypeOK, Prepared, StaffOnly, [Next]_vars
  PROVE  StaffOnly'
<1>1. ASSUME NEW c \in Call, Carry(c) PROVE StaffOnly'
  <2>1. ASSUME NEW d \in Call, REST(d), OpOf[d] \in StaffOps, carried'[d] > 0 PROVE WasStaff(UserOf[d])
    <3>1. CASE d = c
      BY <1>1, <2>1, <3>1 DEF Carry, Prepared, Ready
    <3>2. CASE d # c
      BY <1>1, <2>1, <3>2, CarryCounts DEF StaffOnly
    <3> QED BY <3>1, <3>2
  <2> QED BY <2>1, StaffStays, CallTypes DEF StaffOnly, REST
<1>2. ASSUME carried' = carried PROVE StaffOnly'
  BY <1>2, StaffStays, CallTypes DEF StaffOnly, REST
<1> QED BY <1>1, <1>2, MostStepsLeaveLists DEF ListsStay, RecordGet, RecordSet

\* Only Show shows anything.
LEMMA OnlyShowAnswers ==
  ASSUME [Next]_vars
  PROVE  answer' = answer \/ \E c \in Call : Show(c)
BY DEF Next, vars, showVars, Begin, CheckRole, Scope, Resolve, Find, Map, Look, Carry, Miss,
   RecordGet, RecordSet, Notify, Alert, Crash, Configure, AdminMaps, RemoveMapping, Assign, Elsewhere,
   otherVars

\* Only what resolves or maps a user changes the account a call goes by.
LEMMA AccountsAreResolved ==
  ASSUME TypeOK, [Next]_vars, NEW c \in Call, account'[c] # account[c]
  PROVE  pc[c] \in {"resolve", "find", "map"}
<1>1. PICK d \in Call : Resolve(d) \/ Find(d) \/ Map(d)
  BY DEF Next, vars, findVars, Begin, CheckRole, Scope, Look, Carry, Miss, Show,
     RecordGet, RecordSet, Notify, Alert, Crash, Configure, AdminMaps, RemoveMapping, Assign, Elsewhere,
     otherVars
<1>2. account' = account \/ \E a : account' = [account EXCEPT ![d] = a]
  BY <1>1 DEF Resolve, Find, Map, Resolved
<1>3. d = c
  BY <1>2 DEF TypeOK
<1> QED BY <1>1, <1>3 DEF Resolve, Find, Map

\* What a handler shows is its user's, if he has not been staff.
LEMMA ShownByShow ==
  ASSUME TypeOK, RoleWasHad, Prepared, ListsAreOfCreations, NEW c \in Call, Show(c)
  PROVE  /\ OpOf[c] = "my" => answer'[c] \subseteq Theirs(UserOf[c])
         /\ REST(c) /\ OpOf[c] = "search" => answer'[c] \subseteq Theirs(UserOf[c]) \/ WasStaff(UserOf[c])
         /\ REST(c) /\ OpOf[c] = "view" =>
              answer'[c] \subseteq Theirs(UserOf[c]) \/ WasStaff(UserOf[c]) \/ account[c] # None
<1>1. Own(c) \subseteq Theirs(UserOf[c]) /\ Tickets(owned[UserOf[c]]) \subseteq Theirs(UserOf[c])
  BY CallTypes DEF Own, Theirs, RoleWasHad, ListsAreOfCreations
<1>2. OpOf[c] = "view" \/ answer'[c] = Listed(c) \/ answer'[c] \subseteq Tickets(owned[UserOf[c]])
  BY DEF Show, TypeOK
<1>3. OpOf[c] = "view" => pc[c] = "send" /\ answer'[c] = {TicketOf[c]}
  BY DEF Show, Prepared, Ready, TypeOK
<1>4. pc[c] = "send" => Listed(c) = Own(c)
  BY DEF Listed
<1>5. pc[c] \in {"send", "all"} /\ (pc[c] = "all" => OpOf[c] = "search")
  BY DEF Show, Prepared, Ready
<1>6. CASE pc[c] = "all"
  BY <1>5, <1>6 DEF Prepared, Ready
<1>7. CASE pc[c] = "send" /\ OpOf[c] # "view"
  BY <1>1, <1>2, <1>4, <1>7
<1>8. CASE OpOf[c] = "view"
  BY <1>3, <1>8 DEF Prepared, Ready
<1> QED BY <1>5, <1>6, <1>7, <1>8

\* Every step keeps what is shown to whose it is.
LEMMA ShownStep ==
  ASSUME TypeOK, RoleWasHad, Prepared, ListsAreOfCreations, CopiesAreOfCreations, ShownIsTheirs, [Next]_vars
  PROVE  ShownIsTheirs'
<1> DEFINE Shown(a, c) ==
      /\ OpOf[c] = "my" => a \subseteq Theirs(UserOf[c])
      /\ REST(c) /\ OpOf[c] = "search" => a \subseteq Theirs(UserOf[c]) \/ WasStaff(UserOf[c])
      /\ REST(c) /\ OpOf[c] = "view" =>
           a \subseteq Theirs(UserOf[c]) \/ WasStaff(UserOf[c]) \/ account[c] # None
<1>1. \A c \in Call : Shown(answer'[c], c)
  <2>1. ASSUME NEW d \in Call, Show(d), NEW c \in Call PROVE Shown(answer'[c], c)
    <3>1. CASE d = c
      BY <2>1, <3>1, ShownByShow
    <3>2. CASE d # c
      <4>1. answer'[c] = answer[c]
        BY <2>1, <3>2 DEF Show, TypeOK
      <4> QED BY <4>1 DEF ShownIsTheirs
    <3> QED BY <3>1, <3>2
  <2>2. ASSUME answer' = answer, NEW c \in Call PROVE Shown(answer'[c], c)
    BY <2>2 DEF ShownIsTheirs
  <2> HIDE DEF Shown
  <2> QED BY <2>1, <2>2, OnlyShowAnswers
<1>2. ASSUME NEW c \in Call, OpOf[c] = "view", account'[c] # account[c]
      PROVE  answer'[c] = {}
  <2>1. pc[c] \in {"resolve", "find", "map"}
    BY <1>2, AccountsAreResolved
  <2>2. answer[c] = {}
    BY <2>1 DEF Prepared, Ready, Running
  <2>3. answer'[c] = answer[c]
    BY <2>1, OnlyShowAnswers DEF Show, TypeOK
  <2> QED BY <2>2, <2>3
<1>3. ASSUME NEW c \in Call
      PROVE  /\ OpOf[c] = "my" => answer'[c] \subseteq Theirs(UserOf[c])'
             /\ REST(c) /\ OpOf[c] = "search" =>
                  answer'[c] \subseteq Theirs(UserOf[c])' \/ WasStaff(UserOf[c])'
             /\ REST(c) /\ OpOf[c] = "view" =>
                  answer'[c] \subseteq Theirs(UserOf[c])' \/ WasStaff(UserOf[c])' \/ account'[c] # None
  <2>1. Theirs(UserOf[c]) \subseteq Theirs(UserOf[c])' /\ (WasStaff(UserOf[c]) => WasStaff(UserOf[c])')
    BY TheirsStay, StaffStays, CallTypes
  <2>2. OpOf[c] = "view" => account'[c] = account[c] \/ answer'[c] = {}
    BY <1>2
  <2>3. Shown(answer'[c], c)
    BY <1>1
  <2> QED BY <2>1, <2>2, <2>3
<1> QED BY <1>3 DEF ShownIsTheirs, REST

\* A reopening command either stands before what is finished or is overtaken.
LEMMA OvertakenIsMoved ==
  ASSUME TypeOK, [Next]_vars, NEW d \in Call, pc[d] = "send", OpOf[d] = "reopen",
         status[TicketOf[d]] \in {"solved", "closed"} \/ d \in moved
  PROVE  status'[TicketOf[d]] \in {"solved", "closed"} \/ d \in moved'
<1>1. CASE UNCHANGED <<status, moved>>
  BY <1>1
<1>2. CASE \E t \in Ticket, s \in {"open", "solved", "closed"} :
             status' = [status EXCEPT ![t] = s] /\ moved' = moved \cup Overtaken(t, s)
  BY <1>2, CallTypes DEF Overtaken, TypeOK
<1>3. ASSUME NEW c \in Call, Carry(c), ~ UNCHANGED <<status, moved>>
      PROVE  \E t \in Ticket, s \in {"open", "solved", "closed"} :
               status' = [status EXCEPT ![t] = s] /\ moved' = moved \cup Overtaken(t, s)
  <2>1. PICK s \in Leaves(OpOf[c], status[TicketOf[c]]) :
          status' = [status EXCEPT ![TicketOf[c]] = s] /\ moved' = moved \cup Overtaken(TicketOf[c], s)
    BY <1>3 DEF Carry
  <2>2. s = status[TicketOf[c]] => UNCHANGED <<status, moved>>
    BY <2>1, CallTypes DEF Overtaken, TypeOK
  <2>3. s \in {"open", "solved", "closed", status[TicketOf[c]]}
    BY <2>1 DEF Leaves
  <2> QED BY <1>3, <2>1, <2>2, <2>3, CallTypes
<1>4. ASSUME NEW t \in Worked, NEW s \in {"open", "solved", "closed"}, Elsewhere(t, s)
      PROVE  \E u \in Ticket, v \in {"open", "solved", "closed"} :
               status' = [status EXCEPT ![u] = v] /\ moved' = moved \cup Overtaken(u, v)
  BY <1>4, DeskAssumption DEF Elsewhere
<1> QED BY <1>1, <1>2, <1>3, <1>4 DEF Next, vars, glpiVars, Begin, CheckRole, Scope, Resolve, Find, Map,
        Look, Miss, Show, RecordGet, RecordSet, Notify, Alert, Crash, Configure, AdminMaps,
        RemoveMapping, Assign

\* What is told stays told.
LEMMA ToldStays == ASSUME [Next]_vars PROVE told \subseteq told'
BY DEF Next, vars, outVars, Begin, CheckRole, Scope, Resolve, Find, Map, Look, Carry, Miss, Show,
   RecordGet, RecordSet, Notify, Alert, Crash, Configure, AdminMaps, RemoveMapping, Assign, Elsewhere,
   otherVars

\* A handler that does not move on stays ready.
LEMMA StaysReady ==
  ASSUME TypeOK, CopiesAreOfCreations, [Next]_vars, NEW d \in Call, Ready(d),
         pc'[d] = pc[d], found'[d] = found[d], account'[d] = account[d], answer'[d] = answer[d]
  PROVE  Ready(d)'
<1>1. Theirs(UserOf[d]) \subseteq Theirs(UserOf[d])' /\ (WasStaff(UserOf[d]) => WasStaff(UserOf[d])')
  BY TheirsStay, StaffStays, CallTypes
<1>2. told \subseteq told'
  BY ToldStays
<1>3. pc[d] = "send" /\ OpOf[d] = "reopen" /\ (status[TicketOf[d]] \in {"solved", "closed"} \/ d \in moved) =>
        status'[TicketOf[d]] \in {"solved", "closed"} \/ d \in moved'
  BY OvertakenIsMoved
<1> QED BY <1>1, <1>2, <1>3 DEF Ready, REST, Running

\* Every step keeps what the handlers have established.
LEMMA PreparedStep ==
  ASSUME TypeOK, RoleWasHad, Prepared, ListsAreOfCreations, CopiesAreOfCreations, [Next]_vars
  PROVE  Prepared'
<1> DEFINE Stays(d) == /\ pc'[d] = pc[d] /\ found'[d] = found[d]
                       /\ account'[d] = account[d] /\ answer'[d] = answer[d]
<1>1. ASSUME NEW c \in Call, \A d \in Call \ {c} : Stays(d), Ready(c)' PROVE Prepared'
  <2>1. \A d \in Call \ {c} : Ready(d)'
    BY <1>1, StaysReady DEF Prepared
  <2> QED BY <1>1, <2>1 DEF Prepared
<1>2. ASSUME NEW c \in Call,
             \/ Begin(c) \/ CheckRole(c) \/ Scope(c) \/ Resolve(c) \/ Find(c) \/ Map(c) \/ Look(c)
             \/ Carry(c) \/ Miss(c) \/ Show(c) \/ RecordGet(c) \/ RecordSet(c)
             \/ Notify(c) \/ Alert(c) \/ Crash(c)
      PROVE  \A d \in Call \ {c} : Stays(d)
  <2> TAKE d \in Call \ {c}
  <2>1. pc'[d] = pc[d]
    BY <1>2 DEF Begin, CheckRole, Scope, Resolve, Find, Map, Look, Carry, Miss, Show, RecordGet,
                RecordSet, Notify, Alert, Crash, Resolved, Goto, TypeOK
  <2>2. found'[d] = found[d] /\ account'[d] = account[d]
    BY <1>2 DEF Begin, CheckRole, Scope, Resolve, Find, Map, Look, Carry, Miss, Show, RecordGet,
                RecordSet, Notify, Alert, Crash, Resolved, findVars, TypeOK
  <2>3. answer'[d] = answer[d]
    BY <1>2 DEF Begin, CheckRole, Scope, Resolve, Find, Map, Look, Carry, Miss, Show, RecordGet,
                RecordSet, Notify, Alert, Crash, showVars, TypeOK
  <2> QED BY <2>1, <2>2, <2>3
<1>3. \A c \in Call : c \in Call /\ Ready(c) /\ UserOf[c] \in User /\ TicketOf[c] \in Ticket
  BY CallTypes DEF Prepared
<1>4. ASSUME NEW c \in Call, Begin(c) PROVE Ready(c)'
  BY <1>3, <1>4 DEF Begin, Ready, Goto, REST, Running, StaffOps, TypeOK, showVars
<1>5. ASSUME NEW c \in Call, CheckRole(c) PROVE Ready(c)'
  <2>1. PICK r \in RolesRead(UserOf[c]) :
          /\ IsStaff(r) => pc'[c] = (IF OpOf[c] = "search" THEN "all" ELSE "send")
          /\ ~ IsStaff(r) => pc'[c] \in {"send", "scope", "refused"}
                             /\ (pc'[c] = "send" => OpOf[c] = "search")
                             /\ (pc'[c] = "scope" => OpOf[c] = "view")
    BY <1>5 DEF CheckRole, Goto, TypeOK
  <2>2. IsStaff(r) => WasStaff(UserOf[c])'
    BY <1>3, <2>1, RolesReadWereHad, StaffStays
  <2>3. pc[c] = "role" /\ UNCHANGED answer
    BY <1>5 DEF CheckRole, showVars
  <2> QED BY <1>3, <2>1, <2>2, <2>3 DEF Ready, REST, Running, StaffOps
<1>6. ASSUME NEW c \in Call, Scope(c) PROVE Ready(c)'
  <2>1. pc[c] = "scope" /\ OpOf[c] = "view" /\ UNCHANGED answer
    BY <1>3, <1>6 DEF Scope, Ready, showVars
  <2>2. pc'[c] = "resolve" \/ (pc'[c] = "send" /\ TicketOf[c] \in Tickets(owned[UserOf[c]]))
    BY <1>6 DEF Scope, Goto, TypeOK
  <2>3. Tickets(owned[UserOf[c]]) \subseteq Theirs(UserOf[c])'
    BY <1>3, TheirsStay DEF ListsAreOfCreations, Theirs
  <2> QED BY <1>3, <2>1, <2>2, <2>3 DEF Ready, REST, Running, StaffOps
<1>7. ASSUME NEW c \in Call, NEW a \in Account \cup {None}, Resolved(c, a), UNCHANGED answer,
             pc[c] \in {"resolve", "find", "map"}
      PROVE  Ready(c)'
  <2>1. account'[c] = a /\ OpOf[c] \notin StaffOps /\ answer'[c] = {} /\ (OpOf[c] = "search" => REST(c))
    BY <1>3, <1>7 DEF Resolved, Ready, Running, TypeOK
  <2>2. /\ pc'[c] \in {"send", "role", "refused"}
        /\ pc'[c] = "role" => OpOf[c] = "search"
        /\ pc'[c] = "send" => OpOf[c] # "view" \/ a # None
    BY <1>7 DEF Resolved, Goto, TypeOK
  <2> QED BY <2>1, <2>2 DEF Ready, REST, Running, StaffOps
<1>8. ASSUME NEW c \in Call, Resolve(c) PROVE Ready(c)'
  <2>1. pc[c] = "resolve" /\ UNCHANGED answer
    BY <1>8 DEF Resolve, showVars
  <2>2. CASE pc'[c] = "find"
    BY <1>3, <2>1, <2>2 DEF Ready, REST, Running, StaffOps
  <2>3. CASE \E a \in Account \cup {None} : Resolved(c, a)
    BY <1>7, <2>1, <2>3
  <2>4. mapping[UserOf[c]] # None => mapping[UserOf[c]].account \in Account
    BY <1>3, MappingsAreNotNone DEF TypeOK
  <2> QED BY <1>8, <2>2, <2>3, <2>4 DEF Resolve, Goto, TypeOK
<1>9. ASSUME NEW c \in Call, Find(c) PROVE Ready(c)'
  <2>1. pc[c] = "find" /\ UNCHANGED answer
    BY <1>9 DEF Find, showVars
  <2>2. CASE pc'[c] = "map" /\ found'[c] \in Found(UserOf[c])
    <3>1. found'[c] # None
      <4>1. found'[c] \in Mapping /\ OfTheirs(UserOf[c], found'[c])
        BY <1>3, <2>2, FoundIsTheirs
      <4> QED BY <4>1, DeskAssumption
    <3> QED BY <1>3, <2>1, <2>2, <3>1 DEF Ready, REST, Running, StaffOps
  <2>3. CASE Resolved(c, None)
    BY <1>7, <2>1, <2>3
  <2> QED BY <1>9, <2>2, <2>3 DEF Find, Goto, TypeOK
<1>10. ASSUME NEW c \in Call, Map(c) PROVE Ready(c)'
  <2>1. pc[c] = "map" /\ UNCHANGED answer /\ found[c] # None
    BY <1>3, <1>10 DEF Map, showVars, Ready
  <2>2. found[c].account \in Account
    BY <2>1, MappingsAreNotNone DEF TypeOK
  <2> QED BY <1>7, <1>10, <2>1, <2>2 DEF Map
<1>11. ASSUME NEW c \in Call, Look(c) PROVE Ready(c)'
  <2>1. pc[c] = "look" /\ c \in Slash /\ answer'[c] = {} /\ UNCHANGED status
    BY <1>3, <1>11 DEF Look, Ready, Running, showVars, glpiVars
  <2>2. /\ pc'[c] \in {"send", "refused", "failed"}
        /\ pc'[c] = "send" => status[TicketOf[c]] \in {"solved", "closed"}
    BY <1>11 DEF Look, Goto, TypeOK
  <2> QED BY <2>1, <2>2 DEF Ready, REST, Running
<1>12. ASSUME NEW c \in Call, Carry(c) PROVE Ready(c)'
  <2>1. pc[c] = "send" /\ answer[c] = {} /\ UNCHANGED <<answer, found, account>>
    BY <1>3, <1>12 DEF Carry, Ready, Running, showVars, findVars
  <2>2. CASE pc'[c] = pc[c]
    BY <1>3, <2>1, <2>2, StaysReady
  <2>3. pc'[c] = pc[c] \/ pc'[c] \in {"notify", "done", "failed"} \/ (pc'[c] = "record" /\ OpOf[c] = "create")
    BY <1>12 DEF Carry, Goto, TypeOK
  <2>4. CASE pc'[c] # pc[c]
    BY <2>1, <2>3, <2>4 DEF Ready, Running
  <2> QED BY <2>2, <2>4
<1>13. ASSUME NEW c \in Call, Miss(c) \/ Show(c) \/ Crash(c) \/ RecordGet(c) \/ RecordSet(c) \/ Notify(c) \/ Alert(c)
       PROVE  Ready(c)'
  <2>1. CASE Miss(c) \/ Show(c) \/ Crash(c) \/ Alert(c)
    <3>1. pc'[c] \in {"failed", "done", "dead"}
      BY <2>1 DEF Miss, Show, Crash, Alert, Goto, TypeOK
    <3> QED BY <3>1 DEF Ready, Running
  <2>2. CASE RecordGet(c) \/ RecordSet(c)
    <3>1. pc'[c] \in {"write", "notify"} /\ OpOf[c] = "create" /\ answer'[c] = {}
      BY <1>3, <2>2 DEF RecordGet, RecordSet, Goto, TypeOK, Ready, Running, showVars
    <3> QED BY <3>1 DEF Ready, Running
  <2>3. CASE Notify(c)
    <3>1. pc'[c] \in {"alert", "done"} /\ c \in told' /\ answer'[c] = {}
      BY <1>3, <2>3 DEF Notify, Goto, TypeOK, Ready, Running, showVars
    <3> QED BY <3>1 DEF Ready, Running
  <2> QED BY <1>13, <2>1, <2>2, <2>3
<1>14. ASSUME UNCHANGED <<pc, found, account, answer>> PROVE Prepared'
  BY <1>14, StaysReady DEF Prepared
<1>15. ASSUME NEW c \in Call,
             \/ Begin(c) \/ CheckRole(c) \/ Scope(c) \/ Resolve(c) \/ Find(c) \/ Map(c) \/ Look(c)
             \/ Carry(c) \/ Miss(c) \/ Show(c) \/ RecordGet(c) \/ RecordSet(c)
             \/ Notify(c) \/ Alert(c) \/ Crash(c)
      PROVE  Prepared'
  <2>1. Ready(c)'
    BY <1>4, <1>5, <1>6, <1>8, <1>9, <1>10, <1>11, <1>12, <1>13, <1>15
  <2>2. \A d \in Call \ {c} : Stays(d)
    BY <1>2, <1>15
  <2> QED BY <1>1, <2>1, <2>2
<1> QED BY <1>14, <1>15 DEF Next, vars, findVars, showVars, Configure, AdminMaps, RemoveMapping, Assign,
        Elsewhere, otherVars

-----------------------------------------------------------------------------
(* The theorems. *)

\* The invariant holds at the start.
LEMMA DeskInit == Init => DeskIInv
<1> SUFFICES ASSUME Init PROVE DeskIInv
  OBVIOUS
<1>1. \A a \in Account : profiles[a] \in SUBSET Profile /\ HighestRole(profiles[a]) \in Role
  BY DeskAssumption, HighestRoleIsRole DEF Init
<1>2. TypeOK
  <2>1. requester \in [Ticket -> Account \cup {None}]
    BY DeskAssumption DEF Init
  <2>2. profiles \in [Account -> SUBSET Profile] /\ had \in [Account -> SUBSET Role]
    BY <1>1 DEF Init
  <2> QED BY <2>1, <2>2 DEF Init, TypeOK
<1>3. RoleWasHad
  BY CallTypes DEF Init, RoleWasHad
<1>4. DoneIsTold
  BY DEF Init, DoneIsTold
<1>5. ListsAreOfCreations /\ CopiesAreOfCreations /\ InReach
  <2>1. Tickets(<<>>) = {}
    BY DEF Tickets
  <2>2. \A c \in Call : OpOf[c] = "create" => requester[TicketOf[c]] = None
    BY DeskAssumption, CallTypes DEF Init
  <2>3. \A c \in Call : carried[c] = 0 /\ copy[c] = <<>>
    BY DEF Init
  <2>4. listed = {} /\ \A u \in User : owned[u] = <<>>
    BY DEF Init
  <2> QED BY <2>1, <2>2, <2>3, <2>4 DEF ListsAreOfCreations, CopiesAreOfCreations, InReach, Created
<1>6. StaffOnly /\ ShownIsTheirs /\ Prepared
  BY DEF Init, StaffOnly, ShownIsTheirs, Prepared, Ready
<1> QED BY <1>2, <1>3, <1>4, <1>5, <1>6 DEF DeskIInv, DeskInv

\* Every step keeps it.
LEMMA DeskStep == DeskIInv /\ [Next]_vars => DeskIInv'
<1> SUFFICES ASSUME DeskIInv, [Next]_vars PROVE DeskIInv'
  OBVIOUS
<1>1. /\ TypeOK /\ RoleWasHad /\ DoneIsTold /\ ListsAreOfCreations /\ StaffOnly /\ ShownIsTheirs
      /\ Prepared /\ CopiesAreOfCreations /\ InReach
  BY DEF DeskIInv, DeskInv
<1>2. TypeOK' /\ RoleWasHad' /\ DoneIsTold' /\ InReach'
  BY <1>1, TypeStep, RoleStep, ToldStep, ReachStep
<1>3. ListsAreOfCreations' /\ CopiesAreOfCreations'
  BY <1>1, <1>2, ListStep
<1>4. StaffOnly' /\ ShownIsTheirs' /\ Prepared'
  BY <1>1, StaffStep, ShownStep, PreparedStep
<1> QED BY <1>2, <1>3, <1>4 DEF DeskIInv, DeskInv

LEMMA DeskAlways == Spec => []DeskIInv
BY DeskInit, DeskStep, PTL DEF Spec

\* Types; stored roles are of an account found for the user; what is told and
\* announced was done; lists hold their user's creations, and those recorded
\* that were neither overwritten nor pushed out, for any number of overlapping
\* creations (ownership.go, resolver.go, mapping.go, api.go).
THEOREM DeskInvariant == Spec => []DeskInv
<1>1. DeskIInv => DeskInv
  BY DEF DeskIInv
<1> QED BY <1>1, DeskAlways, PTL

\* Staff operations of the REST API are carried out only for system
\* administrators and those for whom an account of staff is found
\* (CanEditTicket).
THEOREM StaffOperationsAreOfStaff == Spec => []StaffOnly
<1>1. DeskIInv => StaffOnly
  BY DEF DeskIInv
<1> QED BY <1>1, DeskAlways, PTL

\* Who has not been staff is shown in his lists what he created or what is
\* filed for an account found for him (apiListTickets, CanViewTicket).
THEOREM OthersTicketsStayUnseen == Spec => []ShownIsTheirs
<1>1. DeskIInv => ShownIsTheirs
  BY DEF DeskIInv
<1> QED BY <1>1, DeskAlways, PTL

\* A reopening command changes what is solved or closed, or has changed under
\* it (executeReopenTicket).
THEOREM ReopensFinished == Spec => ReopensWhatIsFinished
<1>1. ASSUME DeskIInv, [Next]_vars, NEW c \in Slash, OpOf[c] = "reopen", carried'[c] > carried[c]
      PROVE  status[TicketOf[c]] \in {"solved", "closed"} \/ c \in moved
  <2>1. c \in Call /\ TypeOK /\ Ready(c)
    BY <1>1, DeskAssumption DEF DeskIInv, DeskInv, Prepared
  <2>2. carried[c] \in Nat
    <3>1. carried \in [Call -> 0..2]
      BY <2>1 DEF TypeOK
    <3> QED BY <2>1, <3>1
  <2>3. carried' # carried
    BY <1>1, <2>2
  <2>4. PICK d \in Call : Carry(d)
    BY <1>1, <2>1, <2>3, MostStepsLeaveLists DEF ListsStay, RecordGet, RecordSet
  <2>5. d = c
    BY <1>1, <2>1, <2>2, <2>4, CarryCounts
  <2> QED BY <1>1, <2>1, <2>4, <2>5 DEF Carry, Ready, REST
<1>2. DeskIInv /\ [Next]_vars =>
        [\A c \in Slash : OpOf[c] = "reopen" /\ carried'[c] > carried[c] =>
           status[TicketOf[c]] \in {"solved", "closed"} \/ c \in moved]_vars
  BY <1>1
<1> QED BY <1>2, DeskAlways, PTL DEF Spec, ReopensWhatIsFinished

\* A user finds among his own the tickets he created and was told of, but for
\* those that a record written from an older copy or OwnedLimit newer ones
\* dropped, or that are filed for another account than he goes by
\* (apiListTickets, RecordTicketOwnership).
THEOREM CreatorsFindTheirTickets == Spec => CreatedAreListed
<1> DEFINE Shown(c) ==
      OpOf[c] = "my" /\ pc[c] = "send" /\ pc'[c] = "done" /\ c \notin partial' =>
        \A d \in CreatedBy(UserOf[c]) : Recorded(d) /\ TicketOf[d] \notin trash =>
          \/ TicketOf[d] \in answer'[c]
          \/ account[c] = None /\ (d \notin listed \/ newer[d] >= OwnedLimit)
          \/ account[c] # None /\
               requester[TicketOf[d]] \in (AccountsFor[UserOf[c]] \cup {None}) \ {account[c]}
<1>1. ASSUME DeskIInv, [Next]_vars, NEW c \in Call PROVE Shown(c)
  <2> SUFFICES ASSUME OpOf[c] = "my", pc[c] = "send", pc'[c] = "done", c \notin partial',
                      NEW d \in CreatedBy(UserOf[c]), Recorded(d), TicketOf[d] \notin trash,
                      TicketOf[d] \notin answer'[c]
               PROVE  \/ account[c] = None /\ (d \notin listed \/ newer[d] >= OwnedLimit)
                      \/ account[c] # None /\
                           requester[TicketOf[d]] \in (AccountsFor[UserOf[c]] \cup {None}) \ {account[c]}
    OBVIOUS
  <2>1. TypeOK /\ ListsAreOfCreations /\ DoneIsTold
    BY <1>1 DEF DeskIInv, DeskInv
  <2>2. Show(c)
    <3>1. PICK e \in Call : Show(e) \/ Carry(e) \/ Notify(e) \/ Alert(e)
      <4>1. ASSUME NEW e \in Call,
                   \/ Begin(e) \/ CheckRole(e) \/ Scope(e) \/ Resolve(e) \/ Find(e) \/ Map(e) \/ Look(e)
                   \/ Miss(e) \/ RecordGet(e) \/ RecordSet(e) \/ Crash(e)
            PROVE  pc'[c] # "done"
        BY <2>1, <4>1 DEF TypeOK, Goto, Begin, CheckRole, Scope, Resolve, Find, Map, Look, Miss,
                          RecordGet, RecordSet, Crash, Resolved
      <4> QED BY <1>1, <4>1 DEF Next, vars, Configure, AdminMaps, RemoveMapping, Assign, Elsewhere, otherVars
    <3>2. e = c
      BY <2>1, <3>1 DEF TypeOK, Goto, Carry, Show, Notify, Alert
    <3> QED BY <3>1, <3>2 DEF Carry, Notify, Alert, Reads
  <2>3. answer'[c] = Own(c)
    BY <2>1, <2>2 DEF Show, Listed, TypeOK
  <2>4. d \in Call /\ UserOf[d] = UserOf[c] /\ Created(d)
    <3>1. d \in Call /\ OpOf[d] = "create" /\ UserOf[d] = UserOf[c]
      BY DEF CreatedBy
    <3>2. REST(d)
      BY <3>1, DeskAssumption DEF REST
    <3>3. carried[d] > 0
      BY <2>1, <3>1, <3>2 DEF Recorded, DoneIsTold, Reads
    <3> QED BY <3>1, <3>3 DEF Created
  <2>5. CASE account[c] = None
    <3>1. newer[d] \in Nat /\ OwnedLimit \in Nat
      BY <2>1, <2>4, DeskAssumption DEF TypeOK
    <3> QED BY <2>1, <2>3, <2>4, <2>5, <3>1 DEF ListsAreOfCreations, Own
  <2>6. CASE account[c] # None
    BY <2>1, <2>3, <2>4, <2>6, CallTypes DEF ListsAreOfCreations, Own
  <2> QED BY <2>5, <2>6
<1> HIDE DEF Shown
<1>2. DeskIInv /\ [Next]_vars => [\A c \in Call : Shown(c)]_vars
  BY <1>1
<1> USE DEF Shown
<1> QED BY <1>2, DeskAlways, PTL DEF Spec, CreatedAreListed
=============================================================================
