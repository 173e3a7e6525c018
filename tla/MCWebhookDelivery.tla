-------------------------- MODULE MCWebhookDelivery --------------------------
(* Instances of WebhookDelivery for TLC. *)
EXTENDS WebhookDelivery

CONSTANTS n1, n2, r1, r2, r3, r4, r5, e1, e2, bad

\* Two deliveries of e1 and of e2, to two nodes, and one that does not parse.
Payload == [r \in Request |->
             IF r = r5 THEN bad ELSE IF r \in {r3, r4} THEN e2 ELSE e1]
Server  == [r \in Request |-> IF r \in {r1, r3, r5} THEN n1 ELSE n2]

\* The deployed claim for all payloads, or the atomic one for e1.
Deployed == [e \in Event |-> "getThenSet"]
AtomicE1 == [e \in Event |-> IF e = e1 THEN "compareAndSet" ELSE "getThenSet"]
=============================================================================
