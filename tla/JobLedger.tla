------------------------------ MODULE JobLedger ------------------------------
(***************************************************************************)
(* What the retry queue promises for a submission, without saying how: it  *)
(* is settled once, as created or as failed, and stays so; it fails only   *)
(* when its budget of rounds is spent, and is lost only while in hand; its *)
(* submitter is told nothing but how it was settled.  RetryQueue           *)
(* implements this with a single worker.                                   *)
(***************************************************************************)
EXTENDS Naturals

CONSTANTS Submission, Budgets

VARIABLES
  state,   \* how a submission stands
  budget,  \* the rounds it is given
  rounds,  \* the rounds that were in vain
  heard    \* what its submitter has been told

ledgerVars == <<state, budget, rounds, heard>>

Init ==
  /\ state = [s \in Submission |-> "new"]
  /\ budget \in [Submission -> Budgets]
  /\ rounds = [s \in Submission |-> 0]
  /\ heard = [s \in Submission |-> {}]

\* Taken in hand, or refused at once.
Arrive(s) ==
  /\ state[s] = "new"
  /\ \E st \in {"open", "refused"} : state' = [state EXCEPT ![s] = st]
  /\ UNCHANGED <<budget, rounds, heard>>

\* A ticket, a job with its budget, or neither.
Decide(s) ==
  /\ state[s] = "open"
  /\ \E st \in {"open", "created", "pending", "refused"} : state' = [state EXCEPT ![s] = st]
  /\ \E b \in Budgets : budget' = [budget EXCEPT ![s] = b]
  /\ UNCHANGED <<rounds, heard>>

Retry(s) ==
  /\ state[s] = "pending"
  /\ rounds' = [rounds EXCEPT ![s] = @ + 1]
  /\ UNCHANGED <<state, budget, heard>>

Settle(s) ==
  /\ state[s] = "pending"
  /\ \/ state' = [state EXCEPT ![s] = "created"]
     \/ rounds[s] >= budget[s] /\ state' = [state EXCEPT ![s] = "failed"]
  /\ UNCHANGED <<budget, rounds, heard>>

Tell(s) ==
  /\ state[s] \in {"created", "failed"}
  /\ heard' = [heard EXCEPT ![s] = @ \cup {state[s]}]
  /\ UNCHANGED <<state, budget, rounds>>

\* The end of the plugin on a node loses what is in hand there; jobs it keeps.
LoseSome ==
  /\ \E gone \in SUBSET {s \in Submission : state[s] = "open"} :
       state' = [s \in Submission |-> IF s \in gone THEN "lost" ELSE state[s]]
  /\ UNCHANGED <<budget, rounds, heard>>

Next ==
  \/ \E s \in Submission : Arrive(s) \/ Decide(s) \/ Retry(s) \/ Settle(s) \/ Tell(s)
  \/ LoseSome

Spec == Init /\ [][Next]_ledgerVars
=============================================================================
