------------------------------ MODULE MCTimeline ------------------------------
(* An instance of Timeline for TLC. *)
EXTENDS Timeline

Entry(k, i, d, p) == [kind |-> k, id |-> i, date |-> d, private |-> p]

\* Three kinds with equal dates and ids across them; two events still to come.
Old == {Entry("followup", 1, 1, FALSE), Entry("followup", 2, 2, TRUE),
        Entry("solution", 2, 2, FALSE), Entry("history", 1, 1, FALSE)}
All == Old \cup {Entry("followup", 3, 3, FALSE), Entry("history", 2, 2, FALSE)}
=============================================================================
