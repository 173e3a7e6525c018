------------------------------ MODULE MCIdentity ------------------------------
(* Instances of Identity for TLC. *)
EXTENDS Identity, TLC

CONSTANTS u1, u2, u3, a1, a2, a3, m1, m2, c1, c2, c3, c4, none, noMail

\* u1 and u2 share the address m1; u3 has an address of its own; a search for
\* m1 also brings up m2.
Addresses == [u \in User |-> IF u = u3 THEN m2 ELSE m1]
Contains  == [m \in Mail |-> CASE m = noMail -> {} [] m = m2 -> {m2} [] OTHER -> {m1, m2}]

\* GLPI knows an account with the address m1 that bears the name of u3.
Directory == [a \in Known |-> m1]
SameName  == [u \in User |-> IF u = u3 THEN {a1} ELSE {}]
\* Calls begin alike, so they are interchangeable.
Interchangeable == Permutations(Call)
=============================================================================
