---------------------------- MODULE MCTicketDesk ----------------------------
(* Instances of TicketDesk for TLC. *)
EXTENDS TicketDesk

\* An employee without an account, one whom GLPI may take for the technician, a
\* technician who may become a manager, and a system administrator.
Ops15 == <<"create", "create", "create", "my", "create", "my", "delete", "view", "search",
           "followup", "close", "reopen", "search", "solve", "followup">>
By    == <<"ann", "ann", "ann", "ann", "eve", "eve", "root", "eve", "eve",
           "eve", "tom", "tom", "tom", "eve", "root">>
On    == <<1, 2, 3, 1, 4, 4, 4, 5, 5, 5, 5, 5, 5, 5, 5>>
Made  == {{1, 2, 3}, {1, 2, 4}, {5, 6, 7}, {5, 8}, {5, 9}, {11, 12}, {12, 14}, {10, 15}, {11, 13}}
Accounts == [u \in User |-> CASE u = "eve" -> {"e", "t"} [] u = "tom" -> {"t"} [] OTHER -> {}]
Given == [a \in Account |-> IF a = "t" THEN {{"Technician"}, {"Manager"}} ELSE {{}}]
Others == [t \in Filed |-> "o"]
=============================================================================
