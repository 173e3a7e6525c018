----------------------------- MODULE WebhookOnce -----------------------------
(***************************************************************************)
(* What deduplicating webhooks promises, without saying how: a payload has *)
(* replay windows, opened one after the other, and in each of them at most *)
(* one delivery announces it.  WebhookDelivery implements this for the     *)
(* payloads that are claimed with KVCompareAndSet.                         *)
(***************************************************************************)
EXTENDS Naturals

CONSTANTS Payload, Delivery

VARIABLES
  opened,     \* how many windows a payload has had
  announced   \* the announcements of a payload: a window and the delivery

onceVars == <<opened, announced>>

Init ==
  /\ opened = [p \in Payload |-> 0]
  /\ announced = [p \in Payload |-> {}]

Open(p) ==
  /\ opened' = [opened EXCEPT ![p] = @ + 1]
  /\ UNCHANGED announced

Announce(p, w, d) ==
  /\ \A a \in announced[p] : a[1] # w
  /\ announced' = [announced EXCEPT ![p] = @ \cup {<<w, d>>}]
  /\ UNCHANGED opened

Next ==
  \E p \in Payload :
    \/ Open(p)
    \/ \E d \in Delivery, w \in 1..opened[p] : Announce(p, w, d)

Spec == Init /\ [][Next]_onceVars
=============================================================================
