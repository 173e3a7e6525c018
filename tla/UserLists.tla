------------------------------ MODULE UserLists ------------------------------
(***************************************************************************)
(* The lists the plugin keeps for each user in the KV store: favorite and  *)
(* recently viewed articles (server/favorites.go) and the tickets the user *)
(* created (server/identity/mapping.go).  Every change is a KVGet and a    *)
(* KVSet with errors ignored; any nodes may serve the calls.               *)
(***************************************************************************)
EXTENDS Naturals, Sequences, SequencesExt, FiniteSets

CONSTANTS
  Call, User, Id,
  KindOf,    \* what a call does: "view", "post", "delete" or "create"
  UserOf,    \* who makes it
  IdOf,      \* the article or ticket it is about
  Limit,     \* entries per list: kbPersonalLimit, ownedTicketsLimit
  Stored,    \* the lists as earlier calls left them
  CallCap,   \* bound: calls that are made
  MaxTime    \* bound: seconds that pass

List == {"recent", "favorites", "owned"} \X User

ListOf(c) == << CASE KindOf[c] = "view"   -> "recent"
                  [] KindOf[c] = "create" -> "owned"
                  [] OTHER                -> "favorites", UserOf[c] >>

Ids(s) == {s[i].id : i \in DOMAIN s}

ASSUME ListAssumption ==
  /\ KindOf \in [Call -> {"view", "post", "delete", "create"}]
  /\ UserOf \in [Call -> User]
  /\ IdOf \in [Call -> Id]
  /\ \A c, d \in Call :   \* GLPI numbers its tickets; each is recorded once
       KindOf[c] = "create" /\ KindOf[d] = "create" /\ c # d => IdOf[c] # IdOf[d]
  /\ Stored \in [List -> Seq([id : Id, at : {0}])]
  /\ \A l \in List : Len(Stored[l]) <= Limit /\ Cardinality(Ids(Stored[l])) = Len(Stored[l])
  /\ \A c \in Call : KindOf[c] = "create" => IdOf[c] \notin Ids(Stored[ListOf(c)])
  /\ Limit \in Nat \ {0}
  /\ CallCap \in Nat /\ MaxTime \in Nat

VARIABLES
  list,    \* glpi_kb_recent_, glpi_kb_fav_, glpi_owned_ (oldest first)
  now,     \* the clock in seconds
  pc,      \* where the handler of a call stands
  snap,    \* the list it has read
  stamp,   \* the second it stamps its entry with (for tickets: history)
  answer,  \* "favorite" in the answer to a post or delete
  missed,  \* history: the calls whose writes a call's copy cannot show
  undone   \* history: the calls whose change was not made or was taken back

vars == <<list, now, pc, snap, stamp, answer, missed, undone>>

\* What is done to one list.
A == INSTANCE ListOps

TypeOK ==
  /\ list = [l \in List |-> list[l]]
  /\ now \in 0..MaxTime
  /\ pc \in [Call -> {"idle", "read", "write", "check",
                      "done", "unsure", "failed", "dead", "cut"}]
  /\ snap = [c \in Call |-> snap[c]]
  /\ stamp \in [Call -> 0..MaxTime]
  /\ answer \in [Call -> BOOLEAN]
  /\ missed \in [Call -> SUBSET Call]
  /\ undone \subseteq Call

Running(c) == pc[c] \in {"read", "write", "check"}
Goto(c, s) == pc' = [pc EXCEPT ![c] = s]
IsToggle(c) == KindOf[c] \in {"post", "delete"}

\* The handler has come past its KVSet.
Written(c) == pc[c] \in {"check", "done", "unsure", "cut"}
SameList(c) == {d \in Call : ListOf(d) = ListOf(c)}

-----------------------------------------------------------------------------
(* What is written, given the list that was read. *)

\* Variant: the earlier entry of the article stays.
ViewedAgain(s, e) == A!Front(<<e>> \o s)

\* recordKBView.
Viewed(s, e) == A!Front(<<e>> \o A!Without(s, e.id))

\* Variant: a favorite is appended.
ToggledLast(s, e, add) ==
  A!Front(IF add /\ ~ A!Has(s, e.id) THEN Append(A!Without(s, e.id), e)
                                     ELSE A!Without(s, e.id))

\* toggleFavorite: adding what is there already removes it.
Toggled(s, e, add) ==
  A!Front(IF add /\ ~ A!Has(s, e.id) THEN <<e>> \o A!Without(s, e.id)
                                     ELSE A!Without(s, e.id))

\* RecordTicketOwnership.
Recorded(s, e) == A!Back(Append(s, e))

Updated(c) ==
  LET e == [id |-> IdOf[c], at |-> stamp[c]] IN
  CASE KindOf[c] = "view"   -> Viewed(snap[c], e)
    [] KindOf[c] = "create" -> Recorded(snap[c], e)
    [] OTHER                -> Toggled(snap[c], e, KindOf[c] = "post")

\* ListOwnedTicketIDs reverses what is stored; ListOwnedTickets cuts a page.
OwnedIDs(u) == Reverse(list[<<"owned", u>>])

\* Variant: pages counted from zero.
OwnedPageFromZero(u, page, perPage) ==
  SubSeq(OwnedIDs(u), page * perPage + 1, A!Smaller((page + 1) * perPage, Len(OwnedIDs(u))))

OwnedPage(u, page, perPage) ==
  LET start == (page - 1) * perPage IN
  IF start > Len(OwnedIDs(u)) THEN <<>>
  ELSE SubSeq(OwnedIDs(u), start + 1, A!Smaller(start + perPage, Len(OwnedIDs(u))))

-----------------------------------------------------------------------------
(* What takes a change back: the excuses of KeptUnlessUndone. *)

\* d is to remove what c put on the list, or to put there what c removed.  A
\* favorite that is posted again is removed.
Opposes(d, c) ==
  /\ IdOf[d] = IdOf[c]
  /\ IF KindOf[c] = "delete" THEN KindOf[d] = "post" ELSE IsToggle(d)

\* The new entry of d leaves no room for the one of c, the oldest on a full list.
PushesOut(d, c) ==
  /\ KindOf[d] # "delete" /\ ~ A!Has(snap[d], IdOf[d])
  /\ Len(snap[d]) = Limit
  /\ IdOf[c] = snap[d][IF KindOf[d] = "create" THEN 1 ELSE Limit].id

\* What the write of d takes back: what its copy cannot show, what it opposes,
\* what it has no room for.
TakenBack(d) ==
  {c \in SameList(d) \ {d} : Written(c) /\
     (c \in missed[d] \/ Opposes(d, c) \/ PushesOut(d, c))}

-----------------------------------------------------------------------------
\* A call arrives.  An article is fetched from GLPI first, a ticket created;
\* when that fails nothing is recorded.
Request(c) ==
  /\ pc[c] = "idle"
  /\ Cardinality({d \in Call : pc[d] # "idle"}) < CallCap
  /\ \/ Goto(c, "read")
     \/ ~ IsToggle(c) /\ Goto(c, "failed")
  /\ UNCHANGED <<list, now, snap, stamp, answer, missed, undone>>

\* Variant: the list of the other articles is read.
ReadOther(c) ==
  /\ pc[c] = "read"
  /\ snap' = [snap EXCEPT ![c] = list[<<"recent", UserOf[c]>>]]
  /\ stamp' = [stamp EXCEPT ![c] = now]
  /\ Goto(c, "write")
  /\ UNCHANGED <<list, now, answer, missed, undone>>

\* loadKBItems and the KVGet of RecordTicketOwnership: an error reads as an
\* empty list, whatever has been written.  The entry is stamped after that.
Read(c) ==
  /\ pc[c] = "read"
  /\ \/ snap' = [snap EXCEPT ![c] = list[ListOf(c)]] /\ UNCHANGED missed
     \/ snap' = [snap EXCEPT ![c] = <<>>] /\ missed' = [missed EXCEPT ![c] = Call]
  /\ stamp' = [stamp EXCEPT ![c] = now]
  /\ Goto(c, "write")
  /\ UNCHANGED <<list, now, answer, undone>>

\* saveKBItems and the KVSet of RecordTicketOwnership.  An error is ignored, a
\* post that found the favorite has removed it; what the handler has read goes
\* with it.
Write(c) ==
  /\ pc[c] = "write"
  /\ \/ /\ list' = [list EXCEPT ![ListOf(c)] = Updated(c)]
        /\ undone' = undone \cup TakenBack(c) \cup
             {d \in {c} : KindOf[c] = "post" /\ A!Has(snap[c], IdOf[c])}
     \/ UNCHANGED list /\ undone' = undone \cup {c}
  /\ missed' = [d \in Call |->
       IF d = c THEN {} ELSE IF d \in SameList(c) /\ pc[d] = "write"
                             THEN missed[d] \cup {c} ELSE missed[d]]
  /\ snap' = [snap EXCEPT ![c] = <<>>]
  /\ stamp' = [stamp EXCEPT ![c] = 0]
  /\ Goto(c, IF IsToggle(c) THEN "check" ELSE "done")
  /\ UNCHANGED <<now, answer>>

\* Variant: only the latest favorite is looked at.
CheckFirst(c) ==
  /\ pc[c] = "check"
  /\ answer' = [answer EXCEPT ![c] = list[ListOf(c)] # <<>> /\ list[ListOf(c)][1].id = IdOf[c]]
  /\ Goto(c, "done")
  /\ UNCHANGED <<list, now, snap, stamp, missed, undone>>

\* isFavorite, read back for the answer; after an error the answer is no.
Check(c) ==
  /\ pc[c] = "check"
  /\ \/ /\ answer' = [answer EXCEPT ![c] = A!Has(list[ListOf(c)], IdOf[c])]
        /\ Goto(c, "done")
     \/ answer' = [answer EXCEPT ![c] = FALSE] /\ Goto(c, "unsure")
  /\ UNCHANGED <<list, now, snap, stamp, missed, undone>>

\* The node that serves the call dies, before its write or after it.
Crash(c) ==
  /\ Running(c) /\ Goto(c, IF pc[c] = "check" THEN "cut" ELSE "dead")
  /\ snap' = [snap EXCEPT ![c] = <<>>]
  /\ stamp' = [stamp EXCEPT ![c] = 0]
  /\ missed' = [missed EXCEPT ![c] = {}]
  /\ UNCHANGED <<list, now, answer, undone>>

Tick ==
  /\ now < MaxTime
  /\ now' = now + 1
  /\ UNCHANGED <<list, pc, snap, stamp, answer, missed, undone>>

-----------------------------------------------------------------------------
Init ==
  /\ list = Stored
  /\ now = 0
  /\ pc = [c \in Call |-> "idle"]
  /\ snap = [c \in Call |-> <<>>]
  /\ stamp = [c \in Call |-> 0]
  /\ answer = [c \in Call |-> FALSE]
  /\ missed = [c \in Call |-> {}]
  /\ undone = {}

Next ==
  \/ \E c \in Call : Request(c) \/ Read(c) \/ Write(c) \/ Check(c) \/ Crash(c)
  \/ Tick

Spec == Init /\ [][Next]_vars

-----------------------------------------------------------------------------
(* Properties. *)

InOrder(l, s) ==
  \A i, j \in DOMAIN s : i < j =>
    /\ s[i].id # s[j].id
    /\ IF l[1] = "owned" THEN s[i].at <= s[j].at ELSE s[i].at >= s[j].at

\* However calls overlap and whatever fails, a list holds an id once, never
\* more than fit, and is in order even after lost updates, as an entry is
\* stamped after the list under it was read: articles newest first, tickets
\* oldest first (favorites.go:12-13, mapping.go:28-31 and 37-38).
WellFormed ==
  \A l \in List :
    list[l] \in Seq(A!Entry) /\ Len(list[l]) <= Limit /\ InOrder(l, list[l])

\* The pages of My Tickets, of any size, put together are the created tickets,
\* newest first, none twice and none missing (mapping.go:58-92).
PagesCoverOwned ==
  \A u \in User, perPage \in 1..Limit :
    FlattenSeq([p \in 1..(Limit + 1) |-> OwnedPage(u, p, perPage)]) = OwnedIDs(u)

\* What a call asked for is so: the article or ticket is on the list, or off it.
Holds(c, s) == A!Has(s, IdOf[c]) <=> KindOf[c] # "delete"

\* What a call has written stays, whatever the others do in between, unless its
\* KVSet failed, its post found the favorite already there, a later write went
\* out from a copy read before it or not read at all, a later call asked for the
\* opposite, or newer entries filled the list (favorites.go:49-81,
\* mapping.go:18-35).
KeptUnlessUndone ==
  \A c \in Call : Written(c) /\ c \notin undone => Holds(c, list[ListOf(c)])

\* The answer to a toggle tells what was asked for, unless that was undone
\* before it was looked at or the look itself failed (favorites.go:147-148).
AnswersTell ==
  \A c \in Call : IsToggle(c) /\ pc[c] = "done" /\ c \notin undone =>
    (answer[c] <=> KindOf[c] = "post")

\* The inductive invariant behind both: what a handler holds shows every change
\* that was made before it read, and that was not undone.
CopyShowsTheRest ==
  \A d \in Call : pc[d] = "write" =>
    \A c \in SameList(d) : Written(c) /\ c \notin missed[d] \cup undone => Holds(c, snap[d])

ListInv == TypeOK /\ CopyShowsTheRest

\* The inductive invariant behind WellFormed: what has been read is in order as
\* well and no younger than the stamp of what comes in front of it, and a
\* ticket is on no list before it is recorded.
NoYounger(s, t) == \A i \in DOMAIN s : s[i].at <= t

ReadInOrder ==
  \A c \in Call :
    /\ snap[c] \in Seq(A!Entry) /\ Len(snap[c]) <= Limit /\ InOrder(ListOf(c), snap[c])
    /\ NoYounger(snap[c], stamp[c]) /\ stamp[c] <= now

NotYetRecorded ==
  \A c \in Call : KindOf[c] = "create" /\ pc[c] \in {"idle", "read", "write"} =>
    /\ IdOf[c] \notin Ids(list[ListOf(c)])
    /\ \A d \in Call : ListOf(d) = ListOf(c) => IdOf[c] \notin Ids(snap[d])

OrderInv ==
  /\ TypeOK /\ WellFormed /\ ReadInOrder /\ NotYetRecorded
  /\ \A l \in List : NoYounger(list[l], now)
=============================================================================
