-------------------------- MODULE NotificationCenter --------------------------
(***************************************************************************)
(* The notification center of server/notifications.go: one list of         *)
(* notifications for all users, and per user a read marker and a set of    *)
(* dismissed ids, all in the Mattermost KV store.  Every update is a KVGet *)
(* followed by a KVSet, on whatever node the request arrives: recordings   *)
(* overlap, and so do the calls of one user ("Mark all read" sends one for *)
(* every notification at once).  The errors of both are ignored.           *)
(***************************************************************************)
EXTENDS Naturals, Sequences

CONSTANTS
  Note,            \* events to be recorded, one notification each
  User,
  Call,            \* API calls: mark read, or dismiss
  CallerOf,        \* the user who makes a call
  Scope,           \* the notifications of a user's tickets, or created by them
  Admins,          \* users with the administrator role
  MaxStored,       \* maxStoredNotifications
  Faults,          \* what may go wrong: {"kv"}, a KV call returns an error
  MaxTime          \* bound: the clock, in seconds

ASSUME CenterAssumption ==
  /\ Note # {}
  /\ CallerOf \in [Call -> User]
  /\ Scope \in [User -> SUBSET Note]
  /\ Admins \subseteq User
  /\ MaxStored \in Nat \ {0}
  /\ Faults \subseteq {"kv"}
  /\ MaxTime \in Nat \ {0}

VARIABLES
  now,        \* time.Now().Unix()
  store,      \* the list under glpi_notifications, newest first
  readAt,     \* glpi_notif_read_<user>
  dismissed,  \* glpi_notif_dismissed_<user>
  rpc,        \* where the recording of a notification stands
  created,    \* its CreatedAt
  rsnap,      \* the list its recorder has read
  earlier,    \* history: the notifications that were recorded before it
  losers,     \* history: the recorders whose write may lose it
  cpc,        \* where a call stands, or how it was answered
  about,      \* the notification a call names
  mark,       \* the read marker a call has read
  seen,       \* the dismissed ids a call has read
  undoers     \* history: the calls whose write, or failure to write, may undo it

recVars  == <<rpc, created, rsnap, earlier, losers>>
callVars == <<cpc, about, mark, seen, undoers>>
vars == <<now, store, readAt, dismissed, recVars, callVars>>

TypeOK ==
  /\ now \in 1..MaxTime
  /\ store \in Seq(Note)
  /\ readAt \in [User -> 0..MaxTime]
  /\ dismissed \in [User -> SUBSET Note]
  /\ rpc \in [Note -> {"none", "get", "set", "done", "failed"}]
  /\ created \in [Note -> 0..MaxTime]
  /\ rsnap \in [Note -> Seq(Note)]
  /\ earlier \in [Note -> SUBSET Note]
  /\ losers \in [Note -> SUBSET Note]
  /\ cpc \in [Call -> {"none", "find", "getMark", "setMark", "read", "notFound",
                       "getSet", "putSet", "gone"}]
  /\ about \in [Call -> Note]
  /\ mark \in [Call -> 0..MaxTime]
  /\ seen \in [Call -> SUBSET Note]
  /\ undoers \in [Call -> SUBSET Call]

-----------------------------------------------------------------------------
KVGet(value, empty) == {value} \cup (IF "kv" \in Faults THEN {empty} ELSE {})
KVWrites == IF "kv" \in Faults THEN {TRUE, FALSE} ELSE {TRUE}

InStore(n, list) == \E i \in DOMAIN list : list[i] = n
Capped(list) == SubSeq(list, 1, IF Len(list) < MaxStored THEN Len(list) ELSE MaxStored)

Tick ==
  /\ now < MaxTime
  /\ now' = now + 1
  /\ UNCHANGED <<store, readAt, dismissed, recVars, callVars>>

-----------------------------------------------------------------------------
(* recordNotification, from the stamp of the event to the write. *)

Stamp(n) ==
  /\ rpc[n] = "none"
  /\ rpc' = [rpc EXCEPT ![n] = "get"]
  /\ created' = [created EXCEPT ![n] = now]
  /\ UNCHANGED <<now, store, readAt, dismissed, rsnap, earlier, losers, callVars>>

\* A recorder that reads nothing may lose everything recorded so far.
RecordGet(n) ==
  /\ rpc[n] = "get"
  /\ rpc' = [rpc EXCEPT ![n] = "set"]
  /\ \E list \in KVGet(store, <<>>) :
       /\ rsnap' = [rsnap EXCEPT ![n] = list]
       /\ losers' = [m \in Note |-> IF list # store /\ rpc[m] = "done"
                                  THEN losers[m] \cup {n} ELSE losers[m]]
  /\ UNCHANGED <<now, store, readAt, dismissed, created, earlier, callVars>>

Recorded == {m \in Note : rpc[m] = "done"}

\* Variant: a full list is cut at the wrong end.
RecordSetKeepsOld(n) ==
  /\ rpc[n] = "set"
  /\ rpc' = [rpc EXCEPT ![n] = "done"]
  /\ store' = IF Len(rsnap[n]) < MaxStored THEN <<n>> \o rsnap[n] ELSE rsnap[n]
  /\ earlier' = [earlier EXCEPT ![n] = Recorded]
  /\ losers' = [losers EXCEPT ![n] = {m \in Note \ {n} : rpc[m] = "set"}]
  /\ UNCHANGED <<now, readAt, dismissed, created, rsnap, callVars>>

\* A recorder that has read and not written may lose this one.
RecordSet(n) ==
  /\ rpc[n] = "set"
  /\ store' = Capped(<<n>> \o rsnap[n])
  /\ rpc' = [rpc EXCEPT ![n] = "done"]
  /\ earlier' = [earlier EXCEPT ![n] = Recorded]
  /\ losers' = [losers EXCEPT ![n] = {m \in Note \ {n} : rpc[m] = "set"}]
  /\ UNCHANGED <<now, readAt, dismissed, created, rsnap, callVars>>

\* The failure is logged.
RecordFails(n) ==
  /\ "kv" \in Faults
  /\ rpc[n] = "set"
  /\ rpc' = [rpc EXCEPT ![n] = "failed"]
  /\ UNCHANGED <<now, store, readAt, dismissed, created, rsnap, earlier, losers, callVars>>

-----------------------------------------------------------------------------
(* The calls of a user. *)

\* A user asks to mark a notification read, or to dismiss it; the ids come from
\* a list the user has been shown.
Request(c, n) ==
  /\ cpc[c] = "none"
  /\ InStore(n, store)
  /\ n \in Scope[CallerOf[c]] \/ CallerOf[c] \in Admins
  /\ \E s \in {"find", "getSet"} : cpc' = [cpc EXCEPT ![c] = s]
  /\ about' = [about EXCEPT ![c] = n]
  /\ UNCHANGED <<now, store, readAt, dismissed, recVars, mark, seen, undoers>>

\* apiNotificationRead looks the id up among the caller's own notifications.
ReadFind(c) ==
  /\ cpc[c] = "find"
  /\ \E list \in KVGet(store, <<>>) :
       cpc' = [cpc EXCEPT ![c] =
                 IF InStore(about[c], list) /\ about[c] \in Scope[CallerOf[c]]
                 THEN "getMark" ELSE "notFound"]
  /\ UNCHANGED <<now, store, readAt, dismissed, recVars, about, mark, seen, undoers>>

\* The other calls of c's user that stand at s.
Others(c, s) == {d \in Call \ {c} : CallerOf[d] = CallerOf[c] /\ cpc[d] = s}

Older(d, c) == created[about[d]] < created[about[c]]

\* The calls that are about to move the marker back from where c has found or
\* brought it.
ReadRivals(c) == {d \in Others(c, "setMark") : Older(d, c)}

\* Variant: the marker is moved without looking at it.
ReadGetBlind(c) ==
  /\ cpc[c] = "getMark"
  /\ cpc' = [cpc EXCEPT ![c] = "setMark"]
  /\ mark' = [mark EXCEPT ![c] = readAt[CallerOf[c]]]
  /\ UNCHANGED <<now, store, readAt, dismissed, recVars, about, seen, undoers>>

\* The marker is old enough to be moved, as far as the call can see.
ReadGet(c) ==
  /\ cpc[c] = "getMark"
  /\ cpc' = [cpc EXCEPT ![c] = "setMark"]
  /\ \E current \in KVGet(readAt[CallerOf[c]], 0) :
       /\ created[about[c]] > current
       /\ mark' = [mark EXCEPT ![c] = current]
       /\ undoers' = [d \in Call |->
            IF current # readAt[CallerOf[c]] /\ d \in Others(c, "read") /\ Older(c, d)
            THEN undoers[d] \cup {c} ELSE undoers[d]]
  /\ UNCHANGED <<now, store, readAt, dismissed, recVars, about, seen>>

ReadIsDone(c) ==
  /\ cpc[c] = "getMark"
  /\ cpc' = [cpc EXCEPT ![c] = "read"]
  /\ \E current \in KVGet(readAt[CallerOf[c]], 0) : created[about[c]] <= current
  /\ undoers' = [undoers EXCEPT ![c] = ReadRivals(c)]
  /\ UNCHANGED <<now, store, readAt, dismissed, recVars, about, mark, seen>>

\* The answer is "ok", written or not.
ReadSet(c) ==
  /\ cpc[c] = "setMark"
  /\ cpc' = [cpc EXCEPT ![c] = "read"]
  /\ \E ok \in KVWrites :
       /\ readAt' = IF ok THEN [readAt EXCEPT ![CallerOf[c]] = created[about[c]]] ELSE readAt
       /\ undoers' = [undoers EXCEPT ![c] = IF ok THEN ReadRivals(c) ELSE {c}]
  /\ UNCHANGED <<now, store, dismissed, recVars, about, mark, seen>>

\* The calls that are about to write a set without the id c has found or put in it.
DismissRivals(c) == {d \in Others(c, "putSet") : about[c] \notin seen[d] \cup {about[d]}}

\* dismissNotification.
DismissGet(c) ==
  /\ cpc[c] = "getSet"
  /\ cpc' = [cpc EXCEPT ![c] = "putSet"]
  /\ \E ids \in KVGet(dismissed[CallerOf[c]], {}) :
       /\ about[c] \notin ids
       /\ seen' = [seen EXCEPT ![c] = ids]
       /\ undoers' = [d \in Call |->
            IF ids # dismissed[CallerOf[c]] /\ d \in Others(c, "gone") /\ about[d] # about[c]
            THEN undoers[d] \cup {c} ELSE undoers[d]]
  /\ UNCHANGED <<now, store, readAt, dismissed, recVars, about, mark>>

DismissIsDone(c) ==
  /\ cpc[c] = "getSet"
  /\ cpc' = [cpc EXCEPT ![c] = "gone"]
  /\ \E ids \in KVGet(dismissed[CallerOf[c]], {}) : about[c] \in ids
  /\ undoers' = [undoers EXCEPT ![c] = DismissRivals(c)]
  /\ UNCHANGED <<now, store, readAt, dismissed, recVars, about, mark, seen>>

\* Variant: only the new id is stored.
DismissSetOverwrites(c) ==
  /\ cpc[c] = "putSet"
  /\ cpc' = [cpc EXCEPT ![c] = "gone"]
  /\ dismissed' = [dismissed EXCEPT ![CallerOf[c]] = {about[c]}]
  /\ undoers' = [undoers EXCEPT ![c] = DismissRivals(c)]
  /\ UNCHANGED <<now, store, readAt, recVars, about, mark, seen>>

\* Variant: the new id is not added to what is stored.
DismissSetMisses(c) ==
  /\ cpc[c] = "putSet"
  /\ cpc' = [cpc EXCEPT ![c] = "gone"]
  /\ dismissed' = [dismissed EXCEPT ![CallerOf[c]] = seen[c]]
  /\ undoers' = [undoers EXCEPT ![c] = DismissRivals(c)]
  /\ UNCHANGED <<now, store, readAt, recVars, about, mark, seen>>

DismissSet(c) ==
  /\ cpc[c] = "putSet"
  /\ cpc' = [cpc EXCEPT ![c] = "gone"]
  /\ \E ok \in KVWrites :
       /\ dismissed' = IF ok THEN [dismissed EXCEPT ![CallerOf[c]] = seen[c] \cup {about[c]}]
                       ELSE dismissed
       /\ undoers' = [undoers EXCEPT ![c] = IF ok THEN DismissRivals(c) ELSE {c}]
  /\ UNCHANGED <<now, store, readAt, recVars, about, mark, seen>>

-----------------------------------------------------------------------------
Init ==
  /\ now = 1
  /\ store = <<>>
  /\ readAt = [u \in User |-> 0]
  /\ dismissed = [u \in User |-> {}]
  /\ rpc = [n \in Note |-> "none"]
  /\ created = [n \in Note |-> 0]
  /\ rsnap = [n \in Note |-> <<>>]
  /\ earlier = [n \in Note |-> {}]
  /\ losers = [n \in Note |-> {}]
  /\ cpc = [c \in Call |-> "none"]
  /\ about = [c \in Call |-> CHOOSE n \in Note : TRUE]
  /\ mark = [c \in Call |-> 0]
  /\ seen = [c \in Call |-> {}]
  /\ undoers = [c \in Call |-> {}]

RecordNext(n) == Stamp(n) \/ RecordGet(n) \/ RecordSet(n) \/ RecordFails(n)

CallNext(c) ==
  \/ \E n \in Note : Request(c, n)
  \/ ReadFind(c) \/ ReadGet(c) \/ ReadIsDone(c) \/ ReadSet(c)
  \/ DismissGet(c) \/ DismissIsDone(c) \/ DismissSet(c)

Next ==
  \/ Tick
  \/ \E n \in Note : RecordNext(n)
  \/ \E c \in Call : CallNext(c)

Spec == Init /\ [][Next]_vars

-----------------------------------------------------------------------------
(* apiNotifications: what a user is shown, and what counts as unread. *)

Listed(u) ==
  {n \in Note : /\ InStore(n, store)
                /\ n \in Scope[u] \/ u \in Admins
                /\ n \notin dismissed[u]}
Unread(u) == {n \in Listed(u) : created[n] > readAt[u]}

(* Properties. *)

\* What a user has read stays read (notifications.go:241 means the marker to
\* move only forward): the marker goes back by nothing but the write of a call
\* that had read another marker than the one it overwrites, since its KVGet
\* failed or another call of the user has written in between.
ReadStaysRead ==
  [][\A u \in User : readAt'[u] < readAt[u] =>
       \E c \in Call : /\ CallerOf[c] = u
                       /\ cpc[c] = "setMark" /\ cpc'[c] = "read"
                       /\ mark[c] # readAt[u]]_vars

\* One of the calls that could undo an answered one has written, or it is the
\* answered one itself, whose write failed.
Undone(c) == \E d \in undoers[c] : cpc[d] \in {"read", "gone"}

\* A call that was answered "ok" has had its effect and keeps it, however the
\* user's calls overlap and KV calls fail: a notification marked read is no
\* longer counted unread, a dismissed one is no longer listed
\* (notifications.go:241-272).  What undoes it is the failure of its own write,
\* or the write of a call that had read before, or read nothing.
AnswersHold ==
  \A c \in Call :
    /\ cpc[c] = "read" /\ about[c] \in Unread(CallerOf[c]) => Undone(c)
    /\ cpc[c] = "gone" /\ about[c] \in Listed(CallerOf[c]) => Undone(c)

Lost(n) == \E m \in losers[n] : rpc[m] = "done"

Later(n, list) == \A i \in DOMAIN list : n \in earlier[list[i]]

\* A recorded notification drops out of the list only for MaxStored
\* notifications that were all recorded later (notifications.go:41-43), or by
\* the write of a recorder that had read the list before, or read nothing.
OnlyOldOnesDropOut ==
  \A n \in Note : rpc[n] = "done" /\ ~InStore(n, store) =>
    Lost(n) \/ (Len(store) = MaxStored /\ Later(n, store))

-----------------------------------------------------------------------------
(* The inductive invariant behind them. *)

\* A notification has its CreatedAt before anything refers to it.
OnlyStampedAreNamed ==
  /\ \A i \in DOMAIN store : rpc[store[i]] = "done"
  /\ \A n \in Note : \A i \in DOMAIN rsnap[n] : rpc[rsnap[n][i]] = "done"
  /\ \A c \in Call : cpc[c] # "none" => rpc[about[c]] = "done"

\* An answered call had its effect, and who could undo it is known.
CallKnows ==
  \A c \in Call :
    /\ cpc[c] = "setMark" => created[about[c]] > mark[c]
    /\ cpc[c] = "read" =>
         /\ created[about[c]] <= readAt[CallerOf[c]] \/ Undone(c)
         /\ ReadRivals(c) \subseteq undoers[c] \/ Undone(c)
    /\ cpc[c] = "gone" =>
         /\ about[c] \in dismissed[CallerOf[c]] \/ Undone(c)
         /\ DismissRivals(c) \subseteq undoers[c] \/ Undone(c)

\* A list that has been read lacks a recorded notification for a reason.
Accounted(n, list) ==
  InStore(n, list) \/ Lost(n) \/ (Len(list) = MaxStored /\ Later(n, list))

NewestFirst(list) ==
  /\ Len(list) <= MaxStored
  /\ \A i, j \in DOMAIN list : i < j => list[j] \in earlier[list[i]]

RecorderKnows ==
  /\ NewestFirst(store)
  /\ \A m \in Note : NewestFirst(rsnap[m])
  /\ \A n \in Note : \A m \in earlier[n] : rpc[m] = "done"
  /\ \A n \in Note : rpc[n] = "done" =>
       /\ Accounted(n, store)
       /\ \A m \in Note : rpc[m] = "set" => Accounted(n, rsnap[m]) \/ m \in losers[n]

CInv == TypeOK /\ OnlyStampedAreNamed /\ CallKnows /\ RecorderKnows
=============================================================================
