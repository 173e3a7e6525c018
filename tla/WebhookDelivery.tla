--------------------------- MODULE WebhookDelivery ---------------------------
(***************************************************************************)
(* GLPI webhooks: server/handlers/webhook.go, and the two ways server/     *)
(* routes.go has of claiming the fingerprint of a payload.  ServeHTTP uses *)
(* a KVGet followed by a KVSetWithExpiry; claimWebhookFingerprint, which   *)
(* only a test calls, uses KVCompareAndSet.                                *)
(*                                                                         *)
(* GLPI, the sender, is external: it may send one payload several times,   *)
(* to any node.                                                            *)
(***************************************************************************)
EXTENDS Naturals

CONSTANTS
  Node, Request, Event,
  EventOf,     \* the payload a request carries
  NodeOf,      \* the node that serves it
  Malformed,   \* the payloads that do not parse
  Claiming,    \* how a payload is claimed: "getThenSet" or "compareAndSet"
  Faults,      \* what may go wrong
  WindowCap    \* bound: replay windows per payload

ASSUME WebhookAssumption ==
  /\ EventOf \in [Request -> Event]
  /\ NodeOf \in [Request -> Node]
  /\ Malformed \subseteq Event
  /\ Claiming \in [Event -> {"getThenSet", "compareAndSet"}]
  /\ Faults \subseteq {"kv", "crash", "noService"}
  /\ WindowCap \in Nat

VARIABLES
  key,      \* glpi_webhook_<fingerprint>: none, permanent, or with a TTL
  pc,       \* where the handler of a request stands, or how it answered
  windows,  \* history: how often the key of a payload was created
  won,      \* history: the window in which a request took its claim, or 0
  met,      \* history: the window whose key made a request a replay, or 0
  posted    \* requests whose event went to the notification service

vars == <<key, pc, windows, won, met, posted>>

Running  == {"claim", "set", "expire", "release", "notify"}
Answered == {"ok", "dropped", "replay", "error", "rejected"}

TypeOK ==
  /\ key \in [Event -> {"none", "permanent", "timed"}]
  /\ pc \in [Request -> {"unsent", "dead"} \cup Running \cup Answered]
  /\ windows \in [Event -> Nat]
  /\ won \in [Request -> Nat] /\ met \in [Request -> Nat]
  /\ posted \subseteq Request

-----------------------------------------------------------------------------
Goto(r, s) == pc' = [pc EXCEPT ![r] = s]
KVFails == "kv" \in Faults
Claims(r, how) == pc[r] = "claim" /\ Claiming[EventOf[r]] = how
Siblings(r) == {s \in Request : EventOf[s] = EventOf[r]}

\* HandleWebhook up to the fingerprint: the payload is parsed before it is
\* claimed, so one that does not parse is answered 400 and leaves no key.
Receive(r) ==
  /\ pc[r] = "unsent"
  /\ Goto(r, IF EventOf[r] \in Malformed THEN "rejected" ELSE "claim")
  /\ UNCHANGED <<key, windows, won, met, posted>>

\* The key is created or overwritten; the claim belongs to the open window.
Take(r, value) ==
  LET e == EventOf[r] IN
  /\ key' = [key EXCEPT ![e] = value]
  /\ windows' = IF key[e] = "none" THEN [windows EXCEPT ![e] = @ + 1] ELSE windows
  /\ won' = [won EXCEPT ![r] = windows'[e]]

\* A delivery that finds the key is a replay of the window that is open.
Replayed(r) ==
  /\ key[EventOf[r]] # "none"
  /\ met' = [met EXCEPT ![r] = windows[EventOf[r]]]
  /\ Goto(r, "replay")

\* The Dedupe closure of ServeHTTP.  A KVGet that fails counts as "not seen".
DedupeGet(r) ==
  /\ Claims(r, "getThenSet")
  /\ \/ Replayed(r)
     \/ (key[EventOf[r]] = "none" \/ KVFails) /\ Goto(r, "set") /\ UNCHANGED met
  /\ UNCHANGED <<key, windows, won, posted>>

DedupeSet(r) ==
  /\ pc[r] = "set"
  /\ Take(r, "timed")
  /\ Goto(r, "notify")
  /\ UNCHANGED <<met, posted>>

DedupeSetFails(r) ==
  /\ KVFails
  /\ pc[r] = "set" /\ Goto(r, "error")
  /\ UNCHANGED <<key, windows, won, met, posted>>

\* Variant: the value of the key is not compared.
CompareAndSetBlind(r) ==
  /\ Claims(r, "compareAndSet")
  /\ Take(r, "permanent")
  /\ Goto(r, "expire")
  /\ UNCHANGED <<met, posted>>

\* claimWebhookFingerprint.
CompareAndSet(r) ==
  /\ Claims(r, "compareAndSet")
  /\ key[EventOf[r]] = "none"
  /\ Take(r, "permanent")
  /\ Goto(r, "expire")
  /\ UNCHANGED <<met, posted>>

\* Variant: an error counts as not seen, as it does for a KVGet.
CompareAndSetUnsure(r) ==
  /\ Claims(r, "compareAndSet")
  /\ \/ Replayed(r)
     \/ KVFails /\ Goto(r, "expire") /\ UNCHANGED met
  /\ UNCHANGED <<key, windows, won, posted>>

CompareAndSetRefused(r) ==
  /\ Claims(r, "compareAndSet")
  /\ \/ Replayed(r)
     \/ KVFails /\ Goto(r, "error") /\ UNCHANGED met
  /\ UNCHANGED <<key, windows, won, posted>>

SetExpiry(r) ==
  /\ pc[r] = "expire"
  /\ \/ key' = [key EXCEPT ![EventOf[r]] = "timed"] /\ Goto(r, "notify")
     \/ KVFails /\ key' = key /\ Goto(r, "release")
  /\ UNCHANGED <<windows, won, met, posted>>

\* The TTL could not be set: drop the key and answer 500.
Release(r) ==
  /\ pc[r] = "release"
  /\ \/ key' = [key EXCEPT ![EventOf[r]] = "none"]
     \/ KVFails /\ key' = key
  /\ Goto(r, "error")
  /\ UNCHANGED <<windows, won, met, posted>>

\* Variant: the delivery is acknowledged and never handed over.
NotifyForgets(r) ==
  /\ pc[r] = "notify"
  /\ Goto(r, "ok")
  /\ UNCHANGED <<key, windows, won, met, posted>>

\* The event is handed over, or dropped with a warning when there is no
\* notification service; either way the answer is 200.
Notify(r) ==
  /\ pc[r] = "notify"
  /\ \/ posted' = posted \cup {r} /\ Goto(r, "ok")
     \/ "noService" \in Faults /\ Goto(r, "dropped") /\ UNCHANGED posted
  /\ UNCHANGED <<key, windows, won, met>>

\* The TTL of the key runs out.
Expire(e) ==
  /\ key[e] = "timed"
  /\ windows[e] < WindowCap
  /\ key' = [key EXCEPT ![e] = "none"]
  /\ UNCHANGED <<pc, windows, won, met, posted>>

Crash(n) ==
  /\ "crash" \in Faults
  /\ \E r \in Request : NodeOf[r] = n /\ pc[r] \in Running
  /\ pc' = [r \in Request |-> IF NodeOf[r] = n /\ pc[r] \in Running THEN "dead" ELSE pc[r]]
  /\ UNCHANGED <<key, windows, won, met, posted>>

-----------------------------------------------------------------------------
Init ==
  /\ key = [e \in Event |-> "none"]
  /\ pc = [r \in Request |-> "unsent"]
  /\ windows = [e \in Event |-> 0]
  /\ won = [r \in Request |-> 0]
  /\ met = [r \in Request |-> 0]
  /\ posted = {}

Serve(r) ==
  \/ DedupeGet(r) \/ DedupeSet(r) \/ DedupeSetFails(r)
  \/ CompareAndSet(r) \/ CompareAndSetRefused(r) \/ SetExpiry(r) \/ Release(r)
  \/ Notify(r)

Next ==
  \/ \E r \in Request : Receive(r) \/ Serve(r)
  \/ \E e \in Event : Expire(e)
  \/ \E n \in Node : Crash(n)

Spec == Init /\ [][Next]_vars

\* A handler that has begun goes on; nothing makes GLPI send or keys expire.
FairSpec == Spec /\ \A r \in Request : WF_vars(Serve(r))

-----------------------------------------------------------------------------
(* Properties. *)

\* Within one replay window an event is posted at most once, on however many
\* nodes its deliveries arrive (CHANGELOG.md:8, webhook.go:33).
OncePerWindow ==
  \A r \in posted : \A s \in Siblings(r) \cap posted : r # s => won[r] # won[s]

\* The same of the events claimWebhookFingerprint claims (routes.go:330-333).
AtomicOncePerWindow ==
  \A r \in posted : \A s \in Siblings(r) \cap posted :
    Claiming[EventOf[r]] = "compareAndSet" /\ r # s => won[r] # won[s]

\* The payloads claimed with compare-and-set, and what a reader sees of them:
\* the windows opened and who announced the payload in which.
Atomic == {e \in Event : Claiming[e] = "compareAndSet"}
Announcements(e) == {<<won[r], r>> : r \in {s \in posted : EventOf[s] = e}}

Once == INSTANCE WebhookOnce WITH
  Payload <- Atomic, Delivery <- Request,
  opened <- [e \in Atomic |-> windows[e]],
  announced <- [e \in Atomic |-> Announcements(e)]

\* claimWebhookFingerprint implements the abstract deduplication: every step
\* of a handler, a crash or an expiry opens a window, announces in one that
\* has no announcement yet, or changes nothing of what a reader sees
\* (routes.go:330-333).
AnnouncesOncePerWindow == Once!Spec

OnItsWay == {"expire", "release", "notify"}
Failed == {"error", "dropped", "dead"}

\* The deliveries whose claim made r a replay.
Holders(r) == {s \in Siblings(r) : won[s] = met[r]}

\* A delivery answered 200 as new has its event posted.  For one answered 200
\* as a replay ("already processed", webhook.go:92), a delivery whose claim it
\* met is posted in the end, unless every one of these failed after its claim:
\* its node died (routes.go:68), nobody was there to post (routes.go:318), or
\* the expiry could not be set (routes.go:347).
AcknowledgedIsAccounted ==
  \A r \in Request :
    /\ pc[r] = "ok" ~> r \in posted
    /\ pc[r] = "replay" ~>
         /\ Holders(r) # {}
         /\ \/ Holders(r) \cap posted # {}
            \/ \A s \in Holders(r) : pc[s] \in Failed

\* The inductive invariant behind AtomicOncePerWindow: deliveries of one event
\* that hold an atomic claim hold it in different windows.
ClaimsAreDistinct ==
  /\ \A e \in Event : key[e] # "none" => windows[e] # 0
  /\ \A r \in Request :
      /\ won[r] <= windows[EventOf[r]]
      /\ r \in posted => won[r] # 0
      /\ pc[r] \in {"expire", "notify"} => won[r] # 0
      /\ pc[r] \in {"unsent", "claim", "set"} => won[r] = 0
      /\ Claiming[EventOf[r]] = "compareAndSet" =>
           /\ pc[r] # "set"
           /\ \A s \in Siblings(r) : r # s /\ won[r] # 0 => won[r] # won[s]

WInv == TypeOK /\ ClaimsAreDistinct

\* The safety half of AcknowledgedIsAccounted: whenever a delivery has been
\* answered 200, its event is posted, or one whose claim it met is posted, is
\* on its way there, or failed after the claim.
AnswerIsBacked ==
  \A r \in Request :
    /\ pc[r] = "ok" => r \in posted
    /\ pc[r] = "replay" =>
         \E s \in Holders(r) : s \in posted \/ pc[s] \in OnItsWay \cup Failed

\* The inductive invariant behind it: some delivery holds each window that was
\* opened, a replay met one of these, and a claim leads to a post or a failure.
AckInv ==
  /\ TypeOK
  /\ \A e \in Event : key[e] # "none" => windows[e] # 0
  /\ \A e \in Event : \A w \in 1..windows[e] :
       \E s \in Request : EventOf[s] = e /\ won[s] = w
  /\ \A r \in Request :
       /\ won[r] # 0 => r \in posted \/ pc[r] \in OnItsWay \cup Failed
       /\ pc[r] \in {"unsent", "claim", "set"} => won[r] = 0
       /\ pc[r] = "ok" => r \in posted
       /\ pc[r] = "replay" => met[r] \in 1..windows[EventOf[r]]
       /\ pc[r] \in OnItsWay => windows[EventOf[r]] # 0
=============================================================================
