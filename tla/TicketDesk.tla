------------------------------ MODULE TicketDesk ------------------------------
(***************************************************************************)
(* What users do with tickets, over the REST API (server/api.go) and by    *)
(* slash commands (server/commands): who may (server/ownership.go), what   *)
(* becomes of it at GLPI, whose ticket it is, and who is told.             *)
(*                                                                         *)
(* A call to the GLPI client is carried out or not, and an error does not  *)
(* tell which (GLPIClient).  Every access to the KV store and to GLPI may  *)
(* fail, and the node that serves a call may die at any time.              *)
(***************************************************************************)
EXTENDS Naturals, Sequences

CONSTANTS
  User, Account, Ticket, Call, None,
  OpOf, UserOf, TicketOf,   \* what a call does, for whom, with which ticket
  Slash,        \* the calls made by slash commands
  SysAdmin,     \* the system administrators of Mattermost
  AccountsFor,  \* the accounts GLPI may answer when it is searched for a user
  ProfilesOf,   \* the default profiles an account may be given: none or one
  Modes,        \* the values EnableUserMapping may have
  OwnedLimit,   \* ownedTicketsLimit
  Filed,        \* the tickets that exist at the start, filed by others,
  FiledFor,     \* and for which account
  Worked,       \* bound: the tickets whose status somebody changes in GLPI
  Together,     \* bound: which calls are made in one behaviour
  TurnCap       \* bound: how often administrators or GLPI change something

Role == {"employee", "technician", "supervisor", "manager", "administrator"}
Profile == {"Super-Admin", "Manager", "Supervisor", "Technician", "Self-Service"}

\* What is stored for a user: MappedUser.
Mapping == [account : Account, role : Role]

\* The operations, and those only staff may do over the REST API.
StaffOps == {"update", "close", "reopen", "delete", "solve", "note", "edit", "drop"}
Reads    == {"view", "my", "search"}
Ops      == StaffOps \cup Reads \cup {"create", "followup"}

ASSUME DeskAssumption ==
  /\ None \notin Account \cup Mapping
  /\ OpOf \in [Call -> Ops]
  /\ UserOf \in [Call -> User]
  /\ TicketOf \in [Call -> Ticket]
  /\ Slash \subseteq {c \in Call : OpOf[c] \notin {"create", "edit", "drop"}}
  /\ SysAdmin \subseteq User
  /\ AccountsFor \in [User -> SUBSET Account]
  /\ ProfilesOf \in [Account -> SUBSET SUBSET Profile]
  /\ \A a \in Account : ProfilesOf[a] # {} /\ \A ps \in ProfilesOf[a] : \A p, q \in ps : p = q
  /\ Modes \subseteq BOOLEAN /\ Modes # {}
  /\ OwnedLimit \in Nat \ {0}
  /\ Filed \subseteq Ticket /\ Worked \subseteq Ticket
  /\ \A c, d \in Call : OpOf[c] = "create" /\ OpOf[d] = "create" /\ TicketOf[c] = TicketOf[d] => c = d
  /\ \A c \in Call : OpOf[c] = "create" => TicketOf[c] \notin Filed
  /\ FiledFor \in [Filed -> Account \cup {None}]
  /\ TurnCap \in Nat

VARIABLES
  mappingOn, \* EnableUserMapping
  mapping,   \* KV: the account and role stored for a user, or None
  owned,     \* KV: the tickets recorded as created by a user, oldest first
  status,    \* GLPI: "none" before it is created, "open", "solved", "closed"
  trash,     \* GLPI: the tickets in the trash
  requester, \* GLPI: for which account a ticket is filed, None for the plugin's
  profiles,  \* GLPI: the profiles of an account
  pc,        \* where the handler of a call stands, or how it ended
  account,   \* the account the call goes by, None for the plugin's
  found,     \* the account and role discovery has found
  copy,      \* the list of created tickets a handler has read
  answer,    \* the tickets that are shown
  carried,   \* history: how often GLPI carried a call out
  told,      \* the calls an event is published for, so that open views refresh
  alerted,   \* the calls the administrators' channel is told of
  had,       \* history: the roles an account's profiles have stood for
  moved,     \* history: reopening commands whose ticket changed after they saw it
  partial,   \* history: lists answered without what could not be read
  unseen,    \* history: the creations a handler's copy does not know of
  listed,    \* history: the creations recorded and not since written over unseen
  newer,     \* history: how many have been recorded for the user after those
  turns      \* how often administrators or GLPI have changed something

glpiVars == <<status, trash, requester>>
userVars == <<mappingOn, profiles, had, turns>>
outVars  == <<told, alerted>>
findVars == <<mapping, account, found>>
listVars == <<owned, copy, unseen, listed, newer>>
showVars == <<answer, partial>>
vars == <<userVars, findVars, listVars, glpiVars, pc, showVars, carried, outVars, moved>>

-----------------------------------------------------------------------------
(* Roles. *)

\* MapProfileName and roleRank.
RoleOfProfile ==
  [p \in Profile |-> CASE p = "Super-Admin" -> "administrator" [] p = "Manager" -> "manager"
                       [] p = "Supervisor" -> "supervisor" [] p = "Technician" -> "technician"
                       [] OTHER -> "employee"]
Rank ==
  [r \in Role |-> CASE r = "administrator" -> 5 [] r = "manager" -> 4 [] r = "supervisor" -> 3
                    [] r = "technician" -> 2 [] OTHER -> 1]

HighestRole(ps) ==
  CHOOSE r \in {"employee"} \cup {RoleOfProfile[p] : p \in ps} :
    \A p \in ps : Rank[RoleOfProfile[p]] <= Rank[r]

\* Variant: technicians and everybody above them.
StaffByRank(r) == Rank[r] >= 2

IsStaff(r) == r \in {"administrator", "technician"}

TypeOK ==
  /\ mappingOn \in Modes
  /\ profiles \in [Account -> SUBSET Profile]
  /\ had \in [Account -> SUBSET Role]
  /\ mapping \in [User -> Mapping \cup {None}]
  /\ owned \in [User -> Seq(Ticket)]
  /\ status \in [Ticket -> {"none", "open", "solved", "closed"}]
  /\ trash \subseteq Ticket
  /\ requester \in [Ticket -> Account \cup {None}]
  /\ pc \in [Call -> {"idle", "role", "scope", "resolve", "find", "map", "look", "send", "all",
                      "record", "write", "notify", "alert", "done", "refused", "failed", "dead"}]
  /\ account \in [Call -> Account \cup {None}]
  /\ found \in [Call -> Mapping \cup {None}]
  /\ copy \in [Call -> Seq(Ticket)]
  /\ answer \in [Call -> SUBSET Ticket]
  /\ carried \in [Call -> 0..2]
  /\ told \subseteq Call /\ alerted \subseteq Call
  /\ moved \subseteq Call /\ partial \subseteq Call
  /\ unseen \in [Call -> SUBSET Call]
  /\ listed \subseteq Call
  /\ newer \in [Call -> Nat]
  /\ turns \in Nat

-----------------------------------------------------------------------------
Goto(c, s) == pc' = [pc EXCEPT ![c] = s]
REST(c) == c \notin Slash
Running(c) == pc[c] \notin {"idle", "done", "refused", "failed", "dead"}
Tickets(s) == {s[i] : i \in DOMAIN s}
CreatedBy(u) == {c \in Call : OpOf[c] = "create" /\ UserOf[c] = u}

\* OwnershipService.ResolveRole.  A stored role counts, with the mapping
\* switched off as well.  Only the id of the user is handed on, so one without
\* a mapping is not searched for and is an employee, as is one whose mapping
\* cannot be read.
RolesRead(u) ==
  IF u \in SysAdmin THEN {"administrator"}
  ELSE {"employee"} \cup {m.role : m \in {mapping[u]} \ {None}}

-----------------------------------------------------------------------------
\* A call arrives; a search by command may come too soon after another.
Begin(c) ==
  /\ pc[c] = "idle" /\ \E made \in Together : c \in made /\ \A d \in Call \ made : pc[d] = "idle"
  /\ OpOf[c] \in {"create", "my", "search"} \/ status[TicketOf[c]] # "none"
  /\ \/ Goto(c, IF OpOf[c] \in {"create", "my"} \/ (OpOf[c] = "search" /\ REST(c)) THEN "resolve"
                ELSE IF REST(c) /\ OpOf[c] \in StaffOps \cup {"view"} THEN "role"
                ELSE IF OpOf[c] = "search" THEN "all"
                ELSE IF OpOf[c] = "reopen" THEN "look" ELSE "send")
     \/ OpOf[c] = "search" /\ ~ REST(c) /\ Goto(c, "refused")
  /\ UNCHANGED <<userVars, findVars, listVars, glpiVars, showVars, carried, outVars, moved>>

\* CanEditTicket, CanCloseTicket, CanAddPrivateNote and CanViewTicket; whether
\* a search is of everybody's tickets.
CheckRole(c) ==
  /\ pc[c] = "role"
  /\ \E r \in RolesRead(UserOf[c]) :
       \/ IsStaff(r) /\ Goto(c, IF OpOf[c] = "search" THEN "all" ELSE "send")
       \/ ~ IsStaff(r) /\ Goto(c, CASE OpOf[c] = "search" -> "send"
                                    [] OpOf[c] = "view"   -> "scope"
                                    [] OTHER              -> "refused")
  /\ UNCHANGED <<userVars, findVars, listVars, glpiVars, showVars, carried, outVars, moved>>

\* An employee who views a ticket: it is on his list, or he may have an account.
Scope(c) ==
  /\ pc[c] = "scope"
  /\ \/ TicketOf[c] \in Tickets(owned[UserOf[c]]) /\ Goto(c, "send")
     \/ Goto(c, "resolve")
  /\ UNCHANGED <<userVars, findVars, listVars, glpiVars, showVars, carried, outVars, moved>>

\* The account is known, or that there is none to go by.  With an account any
\* ticket may be viewed, without one only what is on the list.
Resolved(c, a) ==
  /\ account' = [account EXCEPT ![c] = a]
  /\ Goto(c, CASE OpOf[c] = "view" /\ a = None -> "refused"
               [] OpOf[c] = "search"          -> "role"
               [] OTHER                       -> "send")

\* ResolveRequester: the mapping; discovery if it is not there or cannot be
\* read; nothing when discovery is off or the user cannot be loaded.
Resolve(c) ==
  /\ pc[c] = "resolve"
  /\ \/ mapping[UserOf[c]] # None /\ Resolved(c, mapping[UserOf[c]].account)
     \/ mappingOn /\ Goto(c, "find") /\ UNCHANGED account
     \/ Resolved(c, None)
  /\ UNCHANGED <<userVars, mapping, found, listVars, glpiVars, showVars, carried, outVars, moved>>

\* What discovery may find: the first account GLPI answers a search for the
\* user with, be it his own or not, with the role of its profile, or employee
\* if that cannot be looked up.
Found(u) ==
  UNION {{[account |-> a, role |-> r] : r \in {"employee", HighestRole(profiles[a])}} :
           a \in AccountsFor[u]}

Find(c) ==
  /\ pc[c] = "find"
  /\ \/ /\ \E f \in Found(UserOf[c]) : found' = [found EXCEPT ![c] = f]
        /\ Goto(c, "map") /\ UNCHANGED account
     \/ Resolved(c, None) /\ UNCHANGED found
  /\ UNCHANGED <<userVars, mapping, listVars, glpiVars, showVars, carried, outVars, moved>>

\* SaveMapping: the mapping is stored or not, and if its index is not, the call
\* goes on without an account.
Map(c) ==
  /\ pc[c] = "map"
  /\ \/ /\ mapping' = [mapping EXCEPT ![UserOf[c]] = found[c]]
        /\ Resolved(c, found[c].account) \/ Resolved(c, None)
     \/ UNCHANGED mapping /\ Resolved(c, None)
  /\ found' = [found EXCEPT ![c] = None]
  /\ UNCHANGED <<userVars, listVars, glpiVars, showVars, carried, outVars, moved>>

\* Variant: the command does not look.
LookAway(c) ==
  /\ pc[c] = "look" /\ Goto(c, "send")
  /\ UNCHANGED <<userVars, findVars, listVars, glpiVars, showVars, carried, outVars, moved>>

\* executeReopenTicket looks whether the ticket is solved or closed.
Look(c) ==
  /\ pc[c] = "look"
  /\ \/ Goto(c, IF status[TicketOf[c]] \in {"solved", "closed"} THEN "send" ELSE "refused")
     \/ Goto(c, "failed")
  /\ UNCHANGED <<userVars, findVars, listVars, glpiVars, showVars, carried, outVars, moved>>

\* The status an operation leaves; GLPI decides what a solution does.
Leaves(op, s) ==
  CASE op \in {"create", "reopen"} -> {"open"}
    [] op = "close" -> {"closed"}
    [] op = "solve" -> {s, "solved"}
    [] OTHER        -> {s}

\* Commands that have looked at a ticket whose status changes now.
Overtaken(t, s) ==
  {d \in Call : s # status[t] /\ TicketOf[d] = t /\ OpOf[d] = "reopen" /\ pc[d] = "send"}

\* GLPI carries the call out; its answer comes or is lost, and then the client
\* gives up or sends again (a creation once: GLPIClient has its duplicates).
Carry(c) ==
  LET t == TicketOf[c] IN
  /\ pc[c] = "send" /\ OpOf[c] \notin Reads
  /\ carried[c] < (IF OpOf[c] = "create" THEN 1 ELSE 2)
  /\ carried' = [carried EXCEPT ![c] = @ + 1]
  /\ \E s \in Leaves(OpOf[c], status[t]) :
       status' = [status EXCEPT ![t] = s] /\ moved' = moved \cup Overtaken(t, s)
  /\ trash' = IF OpOf[c] = "delete" THEN trash \cup {t} ELSE trash
  /\ requester' = IF OpOf[c] = "create" THEN [requester EXCEPT ![t] = account[c]] ELSE requester
  /\ \/ Goto(c, IF OpOf[c] = "create" THEN "record" ELSE IF REST(c) THEN "notify" ELSE "done")
     \/ Goto(c, "failed")
     \/ UNCHANGED pc
  /\ UNCHANGED <<userVars, findVars, listVars, showVars, outVars>>

\* Variant: the error is not looked at.
MissUnseen(c) ==
  /\ pc[c] \in {"send", "all"} /\ Goto(c, IF REST(c) THEN "notify" ELSE "failed")
  /\ UNCHANGED <<userVars, findVars, listVars, glpiVars, showVars, carried, outVars, moved>>

\* It is not carried out, or not answered.
Miss(c) ==
  /\ pc[c] \in {"send", "all"} /\ Goto(c, "failed")
  /\ UNCHANGED <<userVars, findVars, listVars, glpiVars, showVars, carried, outVars, moved>>

\* Variant: without an account the filter is empty.
OwnUnfiltered(c) ==
  {t \in Ticket \ trash : status[t] # "none" /\ account[c] \in {None, requester[t]}}

\* A list holds the tickets filed for the account the call goes by, or without
\* one those recorded for the user.
Own(c) ==
  IF account[c] # None THEN {t \in Ticket \ trash : requester[t] = account[c]}
                       ELSE Tickets(owned[UserOf[c]])
Listed(c) == IF pc[c] = "all" THEN {t \in Ticket \ trash : status[t] # "none"} ELSE Own(c)

\* apiGetTicket, apiListTickets and the commands.  Recorded tickets that GLPI
\* does not return are left out, and all of them if the list cannot be read.
Show(c) ==
  /\ pc[c] \in {"send", "all"} /\ OpOf[c] \in Reads
  /\ \/ /\ answer' = [answer EXCEPT ![c] = IF OpOf[c] = "view" THEN {TicketOf[c]} ELSE Listed(c)]
        /\ UNCHANGED partial
     \/ /\ pc[c] = "send" /\ OpOf[c] # "view" /\ account[c] = None
        /\ \E some \in SUBSET Tickets(owned[UserOf[c]]) : answer' = [answer EXCEPT ![c] = some]
        /\ partial' = partial \cup {c}
  /\ Goto(c, "done")
  /\ UNCHANGED <<userVars, findVars, listVars, glpiVars, carried, outVars, moved>>

-----------------------------------------------------------------------------
(* RecordTicketOwnership, its errors ignored. *)

\* An error reads as an empty list, whatever has been recorded.
RecordGet(c) ==
  /\ pc[c] = "record" /\ Goto(c, "write")
  /\ \/ copy' = [copy EXCEPT ![c] = owned[UserOf[c]]] /\ UNCHANGED unseen
     \/ UNCHANGED copy /\ unseen' = [unseen EXCEPT ![c] = CreatedBy(UserOf[c])]
  /\ UNCHANGED <<userVars, findVars, owned, listed, newer, glpiVars, showVars, carried, outVars, moved>>

\* Variant: the list keeps one too few.
NewestButOne(s) ==
  IF Len(s) >= OwnedLimit THEN SubSeq(s, Len(s) - OwnedLimit + 2, Len(s)) ELSE s

Newest(s) ==
  IF Len(s) > OwnedLimit THEN SubSeq(s, Len(s) - OwnedLimit + 1, Len(s)) ELSE s

RecordSet(c) ==
  LET u == UserOf[c] IN
  /\ pc[c] = "write" /\ Goto(c, "notify")
  /\ \/ /\ owned' = [owned EXCEPT ![u] = Newest(Append(copy[c], TicketOf[c]))]
        /\ listed' = (listed \ unseen[c]) \cup {c}
        /\ newer' = [d \in Call |->
             IF d \in (listed' \ {c}) \cap CreatedBy(u) THEN newer[d] + 1 ELSE newer[d]]
        /\ unseen' = [d \in Call |->
             IF d = c THEN {}
             ELSE IF pc[d] = "write" /\ UserOf[d] = u THEN unseen[d] \cup {c} ELSE unseen[d]]
     \/ UNCHANGED <<owned, listed, newer>> /\ unseen' = [unseen EXCEPT ![c] = {}]
  /\ copy' = [copy EXCEPT ![c] = <<>>]
  /\ UNCHANGED <<userVars, findVars, glpiVars, showVars, carried, outVars, moved>>

-----------------------------------------------------------------------------
\* The notification service publishes the event, whether it could store the
\* notification or not (NotificationCenter).
Notify(c) ==
  /\ pc[c] = "notify"
  /\ told' = told \cup {c}
  /\ Goto(c, IF OpOf[c] \in {"create", "followup"} THEN "alert" ELSE "done")
  /\ UNCHANGED <<userVars, findVars, listVars, glpiVars, showVars, carried, alerted, moved>>

\* Whether the administrators' channel is to hear of it: of a ticket, and of
\* the reply of one whose role is not staff.
Announces(c) == OpOf[c] = "create" \/ \E r \in RolesRead(UserOf[c]) : ~ IsStaff(r)

\* NotifyAdminsTicketCreated, NotifyEmployeeReplied.  There may be no channel
\* configured or no bot, and the post may fail.
Alert(c) ==
  /\ pc[c] = "alert" /\ Goto(c, "done")
  /\ \/ Announces(c) /\ alerted' = alerted \cup {c}
     \/ UNCHANGED alerted
  /\ UNCHANGED <<userVars, findVars, listVars, glpiVars, showVars, carried, told, moved>>

-----------------------------------------------------------------------------
\* The node that serves the call dies.
Crash(c) ==
  /\ Running(c) /\ Goto(c, "dead")
  /\ found' = [found EXCEPT ![c] = None]
  /\ copy' = [copy EXCEPT ![c] = <<>>]
  /\ unseen' = [unseen EXCEPT ![c] = {}]
  /\ UNCHANGED <<userVars, mapping, account, owned, listed, newer, glpiVars, showVars, carried,
                 outVars, moved>>

otherVars == <<listVars, account, found, pc, showVars, carried, outVars>>
Turn == turns < TurnCap /\ turns' = turns + 1

\* An administrator switches the mapping of users on or off, has a user mapped
\* (apiAdminSync, apiAdminProvision; bound: while a call of his is under way) or
\* clears a stored mapping (ClearCache).
Configure(on) ==
  /\ Turn /\ mappingOn' = on /\ on # mappingOn
  /\ UNCHANGED <<profiles, had, mapping, glpiVars, moved, otherVars>>

AdminMaps(u) ==
  /\ Turn /\ \E c \in Call : Running(c) /\ UserOf[c] = u
  /\ \E f \in Found(u) : mapping' = [mapping EXCEPT ![u] = f]
  /\ UNCHANGED <<mappingOn, profiles, had, glpiVars, moved, otherVars>>

RemoveMapping(u) ==
  /\ Turn /\ mapping[u] # None /\ mapping' = [mapping EXCEPT ![u] = None]
  /\ UNCHANGED <<mappingOn, profiles, had, glpiVars, moved, otherVars>>

\* An account is given another profile, or somebody works on a ticket, in GLPI
\* (bound: on one that a call under way is about).
Assign(a, ps) ==
  /\ Turn /\ ps # profiles[a] /\ profiles' = [profiles EXCEPT ![a] = ps]
  /\ had' = [had EXCEPT ![a] = @ \cup {HighestRole(ps)}]
  /\ UNCHANGED <<mappingOn, mapping, glpiVars, moved, otherVars>>

Elsewhere(t, s) ==
  /\ Turn /\ status[t] \notin {"none", s} /\ \E c \in Call : Running(c) /\ TicketOf[c] = t
  /\ status' = [status EXCEPT ![t] = s]
  /\ moved' = moved \cup Overtaken(t, s)
  /\ UNCHANGED <<mappingOn, profiles, had, mapping, trash, requester, otherVars>>

-----------------------------------------------------------------------------
Init ==
  /\ mappingOn \in Modes
  /\ profiles \in {f \in [Account -> SUBSET Profile] : \A a \in Account : f[a] \in ProfilesOf[a]}
  /\ had = [a \in Account |-> {HighestRole(profiles[a])}]
  /\ mapping = [u \in User |-> None]
  /\ owned = [u \in User |-> <<>>]
  /\ status = [t \in Ticket |-> IF t \in Filed THEN "open" ELSE "none"]
  /\ trash = {}
  /\ requester = [t \in Ticket |-> IF t \in Filed THEN FiledFor[t] ELSE None]
  /\ pc = [c \in Call |-> "idle"]
  /\ account = [c \in Call |-> None]
  /\ found = [c \in Call |-> None]
  /\ copy = [c \in Call |-> <<>>]
  /\ answer = [c \in Call |-> {}]
  /\ carried = [c \in Call |-> 0]
  /\ told = {} /\ alerted = {} /\ moved = {} /\ partial = {}
  /\ unseen = [c \in Call |-> {}]
  /\ listed = {}
  /\ newer = [c \in Call |-> 0]
  /\ turns = 0

Next ==
  \/ \E c \in Call :
       \/ Begin(c) \/ CheckRole(c) \/ Scope(c) \/ Resolve(c) \/ Find(c) \/ Map(c) \/ Look(c)
       \/ Carry(c) \/ Miss(c) \/ Show(c) \/ RecordGet(c) \/ RecordSet(c)
       \/ Notify(c) \/ Alert(c) \/ Crash(c)
  \/ \E on \in Modes : Configure(on)
  \/ \E u \in User : AdminMaps(u) \/ RemoveMapping(u)
  \/ \E a \in Account : \E ps \in ProfilesOf[a] : Assign(a, ps)
  \/ \E t \in Worked, s \in {"open", "solved", "closed"} : Elsewhere(t, s)

Spec == Init /\ [][Next]_vars

-----------------------------------------------------------------------------
(* Properties. *)

Created(c) == OpOf[c] = "create" /\ carried[c] > 0
Recorded(c) == OpOf[c] = "create" /\ pc[c] \in {"notify", "alert", "done"}

\* An account that is found for a user, with a role its profiles have stood for,
\* or employee.
OfTheirs(u, m) ==
  m.account \in AccountsFor[u] /\ m.role \in had[m.account] \cup {"employee"}

\* Stored mappings are such, and those about to be stored.
RoleWasHad ==
  /\ \A a \in Account : HighestRole(profiles[a]) \in had[a]
  /\ \A u \in User : mapping[u] # None => OfTheirs(u, mapping[u])
  /\ \A c \in Call : found[c] # None => OfTheirs(UserOf[c], found[c])
  /\ \A c \in Call : account[c] \in AccountsFor[UserOf[c]] \cup {None}

\* What is recorded, told or announced has been done at GLPI, and what a REST
\* call has done is told.  A system administrator's reply is not announced.
DoneIsTold ==
  /\ \A c \in Call : pc[c] \in {"record", "write", "notify", "alert"} \/ c \in told => carried[c] > 0
  /\ \A c \in Call : pc[c] = "done" /\ OpOf[c] \notin Reads /\ REST(c) => c \in told
  /\ alerted \subseteq told
  /\ \A c \in alerted : OpOf[c] = "followup" => UserOf[c] \notin SysAdmin

\* A user's list holds tickets he has created: those recorded, unless a write
\* that did not know of them came after, or OwnedLimit newer ones.  Tickets are
\* filed for an account found for their creator, or for the plugin's.
ListsAreOfCreations ==
  /\ \A u \in User : Tickets(owned[u]) \subseteq {TicketOf[c] : c \in {d \in CreatedBy(u) : Created(d)}}
  /\ \A c \in listed : newer[c] < OwnedLimit => TicketOf[c] \in Tickets(owned[UserOf[c]])
  /\ \A c \in Call : Created(c) => requester[TicketOf[c]] \in AccountsFor[UserOf[c]] \cup {None}

\* The values of the variables, and what relates roles, calls, lists and
\* announcements (ownership.go, resolver.go, mapping.go, api.go).
DeskInv == TypeOK /\ RoleWasHad /\ DoneIsTold /\ ListsAreOfCreations

\* Who has been staff: a system administrator, or a user for whom an account is
\* found whose profile has stood for administrator or technician.
WasStaff(u) ==
  u \in SysAdmin \/ \E a \in AccountsFor[u] : had[a] \cap {"administrator", "technician"} # {}

\* Staff operations of the REST API are carried out only for those who have
\* been staff: neither a stored role, nor a failed lookup, nor switching the
\* mapping lets anybody else through (CanEditTicket).  It is the account that
\* discovery takes for the user's that counts, and a stored role goes on
\* counting when the mapping is off, where ownership.go:23-24 says employee.
StaffOnly ==
  \A c \in Call : REST(c) /\ OpOf[c] \in StaffOps /\ carried[c] > 0 => WasStaff(UserOf[c])

\* A reopening command changes a ticket that is neither solved nor closed only
\* if its status has changed since the command looked (executeReopenTicket).
ReopensWhatIsFinished ==
  [][\A c \in Slash : OpOf[c] = "reopen" /\ carried'[c] > carried[c] =>
       status[TicketOf[c]] \in {"solved", "closed"} \/ c \in moved]_vars

\* Who has not been staff is shown, in his lists, what he created or what is
\* filed for an account found for him, and never what others have filed for
\* the plugin's account, whatever becomes of his mapping while he asks
\* (apiListTickets).  A ticket he asks for by its number is one of those, or he
\* goes by an account: ownership.go:53-54 says that it is filed for it then,
\* but that is not looked at (ownership.go:75-83).
Theirs(u) ==
  {TicketOf[c] : c \in {d \in CreatedBy(u) : Created(d)}} \cup
  {t \in Ticket : requester[t] \in AccountsFor[u]}

ShownIsTheirs ==
  \A c \in Call :
    /\ OpOf[c] = "my" => answer[c] \subseteq Theirs(UserOf[c])
    /\ REST(c) /\ OpOf[c] = "search" => answer[c] \subseteq Theirs(UserOf[c]) \/ WasStaff(UserOf[c])
    /\ REST(c) /\ OpOf[c] = "view" =>
         answer[c] \subseteq Theirs(UserOf[c]) \/ WasStaff(UserOf[c]) \/ account[c] # None

\* Whatever happens to his mapping, a user sees the tickets he has created and
\* was told of among his own if all of it could be read.  Without an account
\* those are missing that could not be recorded, that a record written from an
\* older or unread copy of the list dropped, or that OwnedLimit newer ones pushed out
\* (mapping.go:23-33); with an account, those filed for another or for the
\* plugin's (apiListTickets).
CreatedAreListed ==
  [][\A c \in Call : OpOf[c] = "my" /\ pc[c] = "send" /\ pc'[c] = "done" /\ c \notin partial' =>
       \A d \in CreatedBy(UserOf[c]) : Recorded(d) /\ TicketOf[d] \notin trash =>
         \/ TicketOf[d] \in answer'[c]
         \/ account[c] = None /\ (d \notin listed \/ newer[d] >= OwnedLimit)
         \/ account[c] # None /\
              requester[TicketOf[d]] \in (AccountsFor[UserOf[c]] \cup {None}) \ {account[c]}]_vars
=============================================================================
