------------------------ MODULE MCNotificationCenter ------------------------
(* Instances of NotificationCenter for TLC. *)
EXTENDS NotificationCenter

CONSTANTS u1, u2, a, b, d, c1, c2, c3

\* Two calls of one user, and in larger instances one of another.
Callers == [c \in Call |-> IF c = c3 THEN u2 ELSE u1]
\* The tickets of u1, who sees the rest as an administrator.
OwnTwo  == [u \in User |-> IF u = u1 THEN {a, b} ELSE {}]
=============================================================================
