---------------------------- MODULE MCRetryQueue ----------------------------
(* Instances of RetryQueue for TLC. *)
EXTENDS RetryQueue

CONSTANTS n1, n2, w1, w2, j1, j2

\* One worker on each of two nodes, jobs submitted on the first.
TwoNodes   == [w \in Worker |-> IF w = w1 THEN n1 ELSE n2]
\* Everything on one node.
OneNode    == [w \in Worker |-> n1]
HostFirst  == [j \in Job |-> n1]
=============================================================================
