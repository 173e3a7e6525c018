----------------------------- MODULE MCUserLists -----------------------------
(* Instances of UserLists for TLC. *)
EXTENDS UserLists

\* The user a makes all calls but the last.
Kinds  == <<"post", "post", "post", "delete", "view", "view", "create", "create",
            "post">>
About  == <<1, 1, 3, 1, 1, 2, 1, 2, 3>>
Users  == [c \in Call |-> IF c <= 8 THEN "a" ELSE "b"]

\* Most lists hold something at the start, one is full.
Old(i) == [id |-> i, at |-> 0]
Before == [l \in List |->
            CASE l = <<"recent", "a">>     -> <<Old(2), Old(3)>>
              [] l[1] = "favorites"        -> <<Old(2)>>
              [] l = <<"owned", "a">>      -> <<Old(3)>>
              [] OTHER                     -> <<>>]
=============================================================================
