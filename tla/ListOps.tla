------------------------------- MODULE ListOps -------------------------------
(***************************************************************************)
(* What is done to a user's list of articles or created tickets.  An entry *)
(* is an id and the second it was made.                                    *)
(***************************************************************************)
EXTENDS Naturals, Sequences

CONSTANTS Id, Limit, MaxTime

Entry == [id : Id, at : 0..MaxTime]

Smaller(m, n) == IF m < n THEN m ELSE n

\* The entries that are kept, one after the other.
Without(s, x) ==
  LET kept[i \in 0..Len(s)] ==
        IF i = 0 THEN <<>>
        ELSE IF s[i].id = x THEN kept[i - 1] ELSE Append(kept[i - 1], s[i])
  IN  kept[Len(s)]

Has(s, x) == \E i \in DOMAIN s : s[i].id = x

\* The first entries that fit, and the last ones.
Front(s) == SubSeq(s, 1, Smaller(Len(s), Limit))
Back(s) == SubSeq(s, Len(s) - Smaller(Len(s), Limit) + 1, Len(s))
=============================================================================
