------------------------------- MODULE Identity -------------------------------
(***************************************************************************)
(* The identity service of server/identity: which GLPI account stands for  *)
(* a Mattermost user.  A mapping is found by searching GLPI (discovery, by *)
(* the handlers of every user and the sync of an administrator), or made   *)
(* by creating an account (provisioning), and kept in the KV store under a *)
(* key per user and in an index of the mapped users.  An administrator     *)
(* clears them all.  Calls overlap: each step is one KV or GLPI call.      *)
(*                                                                         *)
(* GLPI is external: a set of accounts, each with an address.  The index   *)
(* is modelled as a set: addToIndex looks before it appends and nothing    *)
(* depends on the order.  The reverse keys by address, account and login,  *)
(* which nothing but the tests reads, are left out.                        *)
(***************************************************************************)
EXTENDS Naturals

CONSTANTS
  User, Account, Mail, Call,
  None,         \* no user, no account, no call
  NoMail,       \* the address of a user or an account that has none
  MailOf,       \* the address of a Mattermost user
  Namesakes,    \* accounts that bear a user's login or display name
  Known,        \* the accounts GLPI has at the start
  MailOfKnown,  \* and their addresses
  Matches,      \* the addresses that a search for an address brings up
  Faults        \* what may go wrong

ASSUME IdentityAssumption ==
  /\ None \notin User \cup Account \cup Mail \cup Call
  /\ NoMail \in Mail
  /\ MailOf \in [User -> Mail]
  /\ Namesakes \in [User -> SUBSET Account]
  /\ Known \subseteq Account
  /\ MailOfKnown \in [Known -> Mail]
  /\ Matches \in [Mail -> SUBSET Mail]
  /\ \A m \in Mail \ {NoMail} : m \in Matches[m]
  /\ Matches[NoMail] = {}
  /\ \A a, b \in Known : MailOfKnown[a] = MailOfKnown[b] /\ a # b => MailOfKnown[a] = NoMail
  /\ Faults \subseteq {"glpi", "kv", "crash"}

VARIABLES
  mapping,   \* glpi_map_id:<user>, the account of a user
  index,     \* glpi_map_index, the users listed as mapped
  mail,      \* GLPI: the address of each account that exists
  pc,        \* where a call stands, or how it ended
  kind,      \* what a call does
  user,      \* the user it is about, or is removing
  found,     \* the account it has found or created
  snap,      \* the index it has read, or has still to load
  todo,      \* the users a clearing call has still to remove
  maker,     \* history: the call that created an account
  knew,      \* history: the accounts the search for an address could see
  outdated,  \* history: calls that have not seen their user's mapping of now
  saver,     \* history: the last call that stored a user's mapping
  spared     \* history: users whose mapping a clearing call may leave

callVars == <<kind, user, found, snap, todo>>
histVars == <<maker, knew, outdated, saver, spared>>
vars == <<mapping, index, mail, pc, callVars, histVars>>

Checked  == {"email", "name", "create", "save"}
Saving   == {"indexGet", "indexSet"}
Removing == {"delete", "cutGet", "cutSet"}
Clearing == {"list", "load", "remove"} \cup Removing
Running  == {"check"} \cup Checked \cup Saving \cup Clearing
Ended    == {"mapped", "unmapped", "error", "cleared", "dead"}

TypeOK ==
  /\ mapping \in [User -> Account \cup {None}]
  /\ index \subseteq User
  /\ mail \in [Account -> Mail \cup {None}]
  /\ pc \in [Call -> {"none"} \cup Running \cup Ended]
  /\ kind \in [Call -> {"discover", "provision", "clear"}]
  /\ user \in [Call -> User \cup {None}]
  /\ found \in [Call -> Account \cup {None}]
  /\ snap \in [Call -> SUBSET User]
  /\ todo \in [Call -> SUBSET User]
  /\ maker \in [Account -> Call \cup {None}]
  /\ knew \in [Call -> SUBSET Account]
  /\ outdated \subseteq Call
  /\ saver \in [User -> Call \cup {None}]
  /\ spared \in [Call -> SUBSET User]

-----------------------------------------------------------------------------
Goto(c, s) == pc' = [pc EXCEPT ![c] = s]
KVFails   == "kv" \in Faults
GLPIFails == "glpi" \in Faults
Exists(a) == mail[a] # None

\* A read of the index: an error is taken for an empty list.
IndexRead == {index} \cup (IF KVFails THEN {{}} ELSE {})

Begin(c, k, u) ==
  /\ pc[c] = "none"
  /\ kind' = [kind EXCEPT ![c] = k]
  /\ user' = [user EXCEPT ![c] = u]
  /\ Goto(c, IF k = "clear" THEN "list" ELSE "check")
  /\ UNCHANGED <<mapping, index, mail, found, snap, todo, histVars>>

-----------------------------------------------------------------------------
(* ResolveRequester and DiscoverAndMap, and ProvisionUser. *)

\* Variant: the stored mapping is not looked for.
CheckBlind(c) ==
  /\ pc[c] = "check" /\ Goto(c, "email")
  /\ UNCHANGED <<mapping, index, mail, callVars, histVars>>

\* A stored mapping wins; an error of the store counts as no mapping.
Check(c) ==
  /\ pc[c] = "check"
  /\ \/ mapping[user[c]] # None /\ Goto(c, "mapped") /\ outdated' = outdated
     \/ mapping[user[c]] = None /\ Goto(c, "email") /\ outdated' = outdated
     \/ KVFails /\ Goto(c, "email") /\ outdated' = outdated \cup {c}
  /\ UNCHANGED <<mapping, index, mail, callVars, maker, knew, saver, spared>>

\* What a search for an address brings up: it searches with "contains".
Hits(c) == {a \in Account : Exists(a) /\ mail[a] \in Matches[MailOf[user[c]]]}

\* Variant: an account that is mapped to another user is not taken.
ByEmailShuns(c) ==
  LET free == {a \in Hits(c) : \A u \in User : mapping[u] # a}
  IN /\ pc[c] = "email"
     /\ knew' = [knew EXCEPT ![c] = {a \in Account : Exists(a)}]
     /\ \/ \E a \in free : found' = [found EXCEPT ![c] = a] /\ Goto(c, "save")
        \/ /\ free = {} /\ found' = found
           /\ Goto(c, IF kind[c] = "provision" THEN "create" ELSE "name")
     /\ UNCHANGED <<mapping, index, mail, kind, user, snap, todo,
                    maker, outdated, saver, spared>>

\* FindUserByEmail: the first row that comes up is taken, and a failed search
\* counts as one that brings up nothing.
ByEmail(c) ==
  /\ pc[c] = "email"
  /\ \/ \E a \in Hits(c) : found' = [found EXCEPT ![c] = a] /\ Goto(c, "save") /\ knew' = knew
     \/ /\ Goto(c, IF kind[c] = "provision" THEN "create" ELSE "name")
        /\ found' = found
        /\ \/ Hits(c) = {} /\ knew' = [knew EXCEPT ![c] = {a \in Account : Exists(a)}]
           \/ GLPIFails /\ knew' = knew
  /\ UNCHANGED <<mapping, index, mail, kind, user, snap, todo,
                 maker, outdated, saver, spared>>

\* FindUserByLogin, then FindUserByName.
ByName(c) ==
  LET hits == {a \in Namesakes[user[c]] : Exists(a)}
  IN /\ pc[c] = "name"
     /\ \/ \E a \in hits : found' = [found EXCEPT ![c] = a] /\ Goto(c, "save")
        \/ (hits = {} \/ GLPIFails) /\ Goto(c, "unmapped") /\ found' = found
     /\ UNCHANGED <<mapping, index, mail, kind, user, snap, todo, histVars>>

\* CreateUser; an error may come after GLPI has created the account.
Create(c) ==
  /\ pc[c] = "create"
  /\ \/ \E a \in Account :
          /\ ~Exists(a)
          /\ mail' = [mail EXCEPT ![a] = MailOf[user[c]]]
          /\ maker' = [maker EXCEPT ![a] = c]
          /\ \/ found' = [found EXCEPT ![c] = a] /\ Goto(c, "save")
             \/ GLPIFails /\ found' = found /\ Goto(c, "error")
     \/ GLPIFails /\ Goto(c, "error") /\ UNCHANGED <<mail, maker, found>>
  /\ UNCHANGED <<mapping, index, kind, user, snap, todo, knew, outdated, saver, spared>>

-----------------------------------------------------------------------------
(* SaveMapping and addToIndex. *)

\* Whoever has checked or listed before does not know of the new mapping.
SaveMapping(c) ==
  /\ pc[c] = "save"
  /\ \/ /\ mapping' = [mapping EXCEPT ![user[c]] = found[c]]
        /\ saver' = [saver EXCEPT ![user[c]] = c]
        /\ outdated' = outdated \cup {d \in Call : pc[d] \in Checked /\ user[d] = user[c]}
        /\ spared' = [d \in Call |-> IF pc[d] \in Clearing THEN spared[d] \cup {user[c]}
                                     ELSE spared[d]]
        /\ Goto(c, "indexGet")
     \/ KVFails /\ Goto(c, "error") /\ UNCHANGED <<mapping, saver, outdated, spared>>
  /\ UNCHANGED <<index, mail, callVars, maker, knew>>

AddRead(c) ==
  /\ pc[c] = "indexGet"
  /\ \E ids \in IndexRead :
       /\ snap' = [snap EXCEPT ![c] = ids]
       /\ Goto(c, IF user[c] \in ids THEN "mapped" ELSE "indexSet")
  /\ UNCHANGED <<mapping, index, mail, kind, user, found, todo, histVars>>

\* Variant: the index is written back without the new id.
AddWriteForgets(c) ==
  /\ pc[c] = "indexSet" /\ Goto(c, "mapped")
  /\ index' = snap[c]
  /\ UNCHANGED <<mapping, mail, callVars, histVars>>

AddWrite(c) ==
  /\ pc[c] = "indexSet"
  /\ \/ index' = snap[c] \cup {user[c]} /\ Goto(c, "mapped")
     \/ KVFails /\ index' = index /\ Goto(c, "error")
  /\ UNCHANGED <<mapping, mail, callVars, histVars>>

-----------------------------------------------------------------------------
(* ClearCache, with RemoveMapping and removeFromIndex for each mapping. *)

\* AllMappings reads the index.
ListIndex(c) ==
  /\ pc[c] = "list" /\ Goto(c, "load")
  /\ \E ids \in IndexRead :
       /\ snap' = [snap EXCEPT ![c] = ids]
       /\ spared' = [spared EXCEPT ![c] = User \ ids]
  /\ UNCHANGED <<mapping, index, mail, kind, user, found, todo, maker, knew, outdated, saver>>

\* Variant: an error of the store ends the listing.
LoadNextGivesUp(c, u) ==
  /\ pc[c] = "load" /\ u \in snap[c]
  /\ \/ /\ \/ mapping[u] # None /\ todo' = [todo EXCEPT ![c] = @ \cup {u}]
           \/ mapping[u] = None /\ todo' = todo
        /\ spared' = spared /\ snap' = [snap EXCEPT ![c] = @ \ {u}]
     \/ /\ KVFails /\ todo' = todo /\ snap' = [snap EXCEPT ![c] = {}]
        /\ spared' = [spared EXCEPT ![c] = @ \cup {u}]
  /\ UNCHANGED <<mapping, index, mail, pc, kind, user, found, maker, knew, outdated, saver>>

\* AllMappings: a listed id whose record cannot be loaded is left out.
LoadNext(c, u) ==
  /\ pc[c] = "load" /\ u \in snap[c]
  /\ snap' = [snap EXCEPT ![c] = @ \ {u}]
  /\ \/ mapping[u] # None /\ todo' = [todo EXCEPT ![c] = @ \cup {u}] /\ spared' = spared
     \/ mapping[u] = None /\ UNCHANGED <<todo, spared>>
     \/ KVFails /\ todo' = todo /\ spared' = [spared EXCEPT ![c] = @ \cup {u}]
  /\ UNCHANGED <<mapping, index, mail, pc, kind, user, found, maker, knew, outdated, saver>>

Loaded(c) ==
  /\ pc[c] = "load" /\ snap[c] = {} /\ Goto(c, "remove")
  /\ UNCHANGED <<mapping, index, mail, callVars, histVars>>

RemoveNext(c, u) ==
  /\ pc[c] = "remove" /\ u \in todo[c]
  /\ user' = [user EXCEPT ![c] = u]
  /\ todo' = [todo EXCEPT ![c] = @ \ {u}]
  /\ \/ mapping[u] # None /\ Goto(c, "delete") /\ spared' = spared
     \/ mapping[u] = None /\ UNCHANGED <<pc, spared>>
     \/ KVFails /\ pc' = pc /\ spared' = [spared EXCEPT ![c] = @ \cup {u}]
  /\ UNCHANGED <<mapping, index, mail, kind, found, snap, maker, knew, outdated, saver>>

DeleteMapping(c) ==
  /\ pc[c] = "delete" /\ Goto(c, "cutGet")
  /\ \/ mapping' = [mapping EXCEPT ![user[c]] = None] /\ spared' = spared
     \/ /\ KVFails /\ mapping' = mapping
        /\ spared' = [spared EXCEPT ![c] = @ \cup {user[c]}]
  /\ UNCHANGED <<index, mail, callVars, maker, knew, outdated, saver>>

CutRead(c) ==
  /\ pc[c] = "cutGet" /\ Goto(c, "cutSet")
  /\ \E ids \in IndexRead : snap' = [snap EXCEPT ![c] = ids]
  /\ UNCHANGED <<mapping, index, mail, kind, user, found, todo, histVars>>

CutWrite(c) ==
  /\ pc[c] = "cutSet" /\ Goto(c, "remove")
  /\ \/ index' = snap[c] \ {user[c]}
     \/ KVFails /\ index' = index
  /\ UNCHANGED <<mapping, mail, callVars, histVars>>

\* Variant: the index is dropped before every mapping is removed.
DropIndexEarly(c) ==
  /\ pc[c] = "remove" /\ Goto(c, "cleared")
  /\ index' = {}
  /\ UNCHANGED <<mapping, mail, callVars, histVars>>

DropIndex(c) ==
  /\ pc[c] = "remove" /\ todo[c] = {} /\ Goto(c, "cleared")
  /\ index' = {} \/ (KVFails /\ index' = index)
  /\ UNCHANGED <<mapping, mail, callVars, histVars>>

\* The node that serves a call dies.
Crash(c) ==
  /\ "crash" \in Faults
  /\ pc[c] \in Running /\ Goto(c, "dead")
  /\ UNCHANGED <<mapping, index, mail, callVars, histVars>>

-----------------------------------------------------------------------------
Init ==
  /\ mapping = [u \in User |-> None]
  /\ index = {}
  /\ mail = [a \in Account |-> IF a \in Known THEN MailOfKnown[a] ELSE None]
  /\ pc = [c \in Call |-> "none"]
  /\ kind = [c \in Call |-> "discover"]
  /\ user = [c \in Call |-> None]
  /\ found = [c \in Call |-> None]
  /\ snap = [c \in Call |-> {}]
  /\ todo = [c \in Call |-> {}]
  /\ maker = [a \in Account |-> None]
  /\ knew = [c \in Call |-> {}]
  /\ outdated = {}
  /\ saver = [u \in User |-> None]
  /\ spared = [c \in Call |-> {}]

Find(c) == Check(c) \/ ByEmail(c) \/ ByName(c) \/ Create(c)
Save(c) == SaveMapping(c) \/ AddRead(c) \/ AddWrite(c)
Clear(c) ==
  \/ ListIndex(c) \/ Loaded(c) \/ DeleteMapping(c)
  \/ CutRead(c) \/ CutWrite(c) \/ DropIndex(c)
  \/ \E u \in User : LoadNext(c, u) \/ RemoveNext(c, u)

Next ==
  \E c \in Call :
    \/ \E k \in {"discover", "provision", "clear"}, u \in User : Begin(c, k, u)
    \/ Find(c) \/ Save(c) \/ Clear(c) \/ Crash(c)

Spec == Init /\ [][Next]_vars

-----------------------------------------------------------------------------
(* Properties. *)

\* An account that a call has made without being able to see the other.
MadeBlind(a, b) == maker[a] # None /\ b \notin knew[maker[a]]

\* Provisioning makes a second account with the address of another only in a
\* call whose search for the address failed, or came before the other account
\* (resolver.go:120-138): an account that discovery or an earlier call has left
\* behind is found and reused, also when the earlier call was told of an error
\* after GLPI had created it.
DuplicatesAreBlind ==
  \A a, b \in Account :
    Exists(a) /\ Exists(b) /\ a # b /\ mail[a] = mail[b] /\ mail[a] # NoMail
      => MadeBlind(a, b) \/ MadeBlind(b, a)

\* A stored mapping is permanent (resolver.go:14): it is moved to another account
\* by nothing but the save of a call about its user whose check failed, or came
\* before the mapping was stored; and it goes away by nothing but a clearing.
MappingIsPermanent ==
  [][\A u \in User : mapping[u] # None /\ mapping'[u] # mapping[u] =>
       \E c \in Call :
         /\ user[c] = u
         /\ \/ pc[c] = "save" /\ c \in outdated /\ mapping'[u] # None
            \/ kind[c] = "clear" /\ pc[c] = "delete" /\ mapping'[u] = None]_vars

\* When an administrator is told that the cache was cleared (cache.go:142-154),
\* the mappings left are of users who were not listed when the index was read,
\* whose record could not be read or deleted, or who were mapped since.
ClearLeavesNothing ==
  [][\A c \in Call : pc[c] # "cleared" /\ pc'[c] = "cleared" =>
       \A u \in User : mapping'[u] # None => u \in spared'[c]]_vars

\* A mapping whose caller was answered is not in the index.
Unlisted(u) == mapping[u] # None /\ u \notin index /\ pc[saver[u]] = "mapped"

\* AllMappings returns every stored mapping (cache.go:129) once the call that
\* stored it has been answered.  An entry is lost by nothing but the write of a
\* call that had not seen it in the index, since its read of the index failed or
\* came before, or by a clearing that has not removed the mapping.
MappingsStayListed ==
  [][\A u \in User : ~Unlisted(u) /\ Unlisted(u)' =>
       \E c \in Call :
         \/ pc[c] = "indexSet" /\ pc'[c] = "mapped" /\ u \notin snap[c] \cup {user[c]}
         \/ pc[c] = "cutSet" /\ pc'[c] = "remove" /\ (u \notin snap[c] \/ u \in spared[c])
         \/ pc[c] = "remove" /\ pc'[c] = "cleared" /\ u \in spared[c]]_vars

-----------------------------------------------------------------------------
(* The inductive invariant behind them. *)

Stored == {u \in User : mapping[u] # None}

\* What a call knows of the state, and what a clearing call has still before it.
StageOf(c) ==
  /\ pc[c] \in {"check"} \cup Checked \cup Saving => user[c] # None /\ kind[c] # "clear"
  /\ pc[c] \in {"none", "check", "email", "create"} => \A a \in Account : maker[a] # c
  /\ pc[c] \in {"none", "check", "email"} => knew[c] = {}
  /\ pc[c] = "create" /\ MailOf[user[c]] # NoMail =>
       \A a \in knew[c] : mail[a] # MailOf[user[c]]
  /\ pc[c] \in Checked /\ c \notin outdated => mapping[user[c]] = None
  /\ pc[c] = "save" => found[c] # None
  /\ pc[c] \in Clearing => kind[c] = "clear"
  /\ pc[c] = "load" => Stored \subseteq snap[c] \cup todo[c] \cup spared[c]
  /\ pc[c] \in {"remove"} \cup Removing =>
       \A u \in Stored : u \in todo[c] \cup spared[c] \/ (pc[c] = "delete" /\ u = user[c])
  /\ pc[c] \in Removing => user[c] # None /\ user[c] \notin todo[c]

\* The call that stored a mapping is one about its user.
SaversKnown ==
  \A u \in User :
    /\ mapping[u] # None => saver[u] # None
    /\ saver[u] # None => /\ user[saver[u]] = u /\ kind[saver[u]] # "clear"
                         /\ pc[saver[u]] \in Saving \cup Ended

\* A search sees accounts that exist.
KnownExist == \A c \in Call : \A a \in knew[c] : Exists(a)

IdInv ==
  TypeOK /\ DuplicatesAreBlind /\ SaversKnown /\ KnownExist /\ \A c \in Call : StageOf(c)
=============================================================================
