-------------------------- MODULE RetryQueueProofs --------------------------
(* Safety of the retry queue for every number of nodes, workers and jobs.   *)
EXTENDS RetryQueue, FiniteSetTheorems, TLAPS

\* Saturating counters stay in their range.
LEMMA BumpType == ASSUME NEW n \in 0..CountCap PROVE Bump(n) \in 0..CountCap
  BY QueueAssumption DEF Bump

\* Counting keeps the order of two counters.
LEMMA BumpMonotone ==
  ASSUME NEW m \in 0..CountCap, NEW n \in 0..CountCap, m <= n
  PROVE  Bump(m) <= Bump(n)
  BY QueueAssumption DEF Bump

\* Counting never lowers a counter.
LEMMA BumpGrows == ASSUME NEW n \in 0..CountCap PROVE n <= Bump(n)
  BY QueueAssumption DEF Bump

\* A copy that reaches its limit has a count of rounds that reaches it too.
LEMMA BumpReachesLimit ==
  ASSUME NEW a \in 0..CountCap, NEW t \in 0..CountCap, NEW m \in AttemptLimits,
         a <= t, a + 1 >= m
  PROVE  Bump(t) >= m
  BY QueueAssumption DEF Bump

\* A create call leaves every count of tickets in range and lowers none.
LEMMA CommitKeepsRange ==
  ASSUME tickets \in [Job -> 0..CountCap], NEW j \in Job, NEW o, Commit(j, o)
  PROVE  /\ tickets' \in [Job -> 0..CountCap]
         /\ \A i \in Job : tickets[i] <= tickets'[i]
<1>1. Bump(tickets[j]) \in 0..CountCap /\ tickets[j] <= Bump(tickets[j])
  BY BumpType, BumpGrows
<1>2. CASE o.commits
  BY <1>1, <1>2, QueueAssumption DEF Commit
<1>3. CASE ~o.commits
  BY <1>3, QueueAssumption DEF Commit
<1> QED BY <1>2, <1>3

\* Whatever a read of the index yields is a list of job ids.
LEMMA IndexReads ==
  ASSUME TypeOK, NEW ids \in KVGet(index, <<>>)
  PROVE  ids \in Seq(Job)
<1>1. index \in Seq(Job) /\ <<>> \in Seq(Job)
  BY DEF TypeOK
<1> QED BY <1>1 DEF KVGet

\* Names of places, and the record a handler builds.
LEMMA Places ==
  /\ {"idle", "create", "setRecord", "readIndex", "setIndex", "undo", "queued",
      "answered", "refused", "lost", "dead"} \subseteq HandlerStates
  /\ {"off", "poll", "pop", "popSet", "load", "run", "post", "drop", "giveUp",
      "failPost", "save", "sleep", "pushSet"} \subseteq WorkerStates
  /\ \A m \in AttemptLimits : [attempts |-> 0, max |-> m] \in Record
  BY QueueAssumption DEF HandlerStates, WorkerStates, Record

\* A move of a worker keeps the type of pc.
LEMMA MoveType ==
  ASSUME TypeOK, NEW w \in Worker, NEW s \in WorkerStates, To(w, s)
  PROVE  pc' \in [Worker -> WorkerStates]
  BY DEF TypeOK, To

\* The end of an iteration keeps the types of a worker's locals.
LEMMA ReturnType ==
  ASSUME TypeOK, NEW w \in Worker, Return(w)
  PROVE  /\ pc' \in [Worker -> WorkerStates]
         /\ snap' \in [Worker -> Seq(Job)]
         /\ rec' \in [Worker -> Record \cup {Absent}]
  BY MoveType, Places DEF TypeOK, Return

\* Deleting a record keeps the type of the store.
LEMMA DeleteType ==
  ASSUME TypeOK, NEW j \in Job, DeleteRecord(j)
  PROVE  record' \in [Job -> Record \cup {Absent}]
  BY DEF TypeOK, DeleteRecord

\* Posting keeps the type of the posts.
LEMMA PostType ==
  ASSUME TypeOK, NEW j \in Job, NEW what \in {"created", "failed"}, Post(j, what)
  PROVE  told' \in [Job -> SUBSET {"created", "failed"}]
<1>1. told \in [Job -> SUBSET {"created", "failed"}]
  BY DEF TypeOK
<1>2. told[j] \cup {what} \in SUBSET {"created", "failed"}
  BY <1>1
<1>3. told' = told \/ told' = [told EXCEPT ![j] = told[j] \cup {what}]
  BY DEF Post
<1> QED BY <1>1, <1>2, <1>3

\* The initial states satisfy the type invariant.
LEMMA InitType == Init => TypeOK
<1> SUFFICES ASSUME Init PROVE TypeOK
  OBVIOUS
<1>1. (CHOOSE m \in AttemptLimits : TRUE) \in AttemptLimits
  BY QueueAssumption
<1>2. (CHOOSE j \in Job : TRUE) \in Job
  BY QueueAssumption
<1> QED BY <1>1, <1>2, Places, QueueAssumption DEF Init, InitRest, TypeOK

\* The dialog handlers keep the types.
LEMMA HandlerType ==
  ASSUME TypeOK, NEW j \in Job, HandlerNext(j)
  PROVE  TypeOK'
<1> USE Places DEF nodeVars, handlerVars, workerVars, worldVars, kvVars, Goto
<1>1. CASE HandleDialog(j)
  <2>1. hpc' \in [Job -> HandlerStates]
    BY <1>1 DEF HandleDialog, TypeOK
  <2> QED BY <1>1, <2>1 DEF HandleDialog, TypeOK
<1>6. CASE CreateFromDialog(j)
  <2>1. tickets' \in [Job -> 0..CountCap]
    BY <1>6, CommitKeepsRange DEF CreateFromDialog, TypeOK
  <2>2. limit' \in [Job -> AttemptLimits]
    BY <1>6, QueueAssumption DEF CreateFromDialog, TypeOK
  <2>3. PICK s \in {"answered", "setRecord", "refused"} : hpc' = [hpc EXCEPT ![j] = s]
    BY <1>6 DEF CreateFromDialog
  <2>4. hpc' \in [Job -> HandlerStates]
    BY <2>3 DEF TypeOK
  <2> QED BY <1>6, <2>1, <2>2, <2>4 DEF CreateFromDialog, TypeOK
<1>2. CASE EnqueueSetRecord(j)
  <2>1. hpc' \in [Job -> HandlerStates]
    BY <1>2 DEF EnqueueSetRecord, TypeOK
  <2>2. record' \in [Job -> Record \cup {Absent}]
    BY <1>2 DEF EnqueueSetRecord, TypeOK
  <2> QED BY <1>2, <2>1, <2>2 DEF EnqueueSetRecord, TypeOK
<1>3. CASE AppendRead(j)
  <2>1. PICK ids \in KVGet(index, <<>>) : hsnap' = [hsnap EXCEPT ![j] = ids]
    BY <1>3 DEF AppendRead
  <2>2. ids \in Seq(Job) BY IndexReads
  <2>3. hpc' \in [Job -> HandlerStates] BY <1>3 DEF AppendRead, TypeOK
  <2> QED BY <1>3, <2>1, <2>2, <2>3 DEF AppendRead, TypeOK
<1>4. CASE AppendSet(j)
  <2>1. hpc' \in [Job -> HandlerStates]
    BY <1>4 DEF AppendSet, TypeOK
  <2>2. Append(hsnap[j], j) \in Seq(Job)
    BY DEF TypeOK
  <2>3. index' \in Seq(Job)
    BY <1>4, <2>2 DEF AppendSet, TypeOK
  <2> QED BY <1>4, <2>1, <2>3 DEF AppendSet, TypeOK
<1>5. CASE EnqueueUndo(j)
  <2>1. hpc' \in [Job -> HandlerStates]
    BY <1>5 DEF EnqueueUndo, TypeOK
  <2> QED BY <1>5, <2>1, DeleteType DEF EnqueueUndo, TypeOK
<1> QED BY <1>1, <1>2, <1>3, <1>4, <1>5, <1>6 DEF HandlerNext

\* Counting an attempt keeps the types of the copy and of the count.
LEMMA CountKeepsRange ==
  ASSUME TypeOK, NEW w \in Worker, rec[w] # Absent, CountAttempt(w)
  PROVE  /\ rec' = [rec EXCEPT ![w] = [attempts |-> Bump(rec[w].attempts),
                                       max |-> rec[w].max]]
         /\ tries' = [tries EXCEPT ![cur[w]] = Bump(tries[cur[w]])]
         /\ rec'[w] \in Record
         /\ rec' \in [Worker -> Record \cup {Absent}]
         /\ tries' \in [Job -> 0..CountCap]
<1>1. rec[w] \in Record /\ cur[w] \in Job
  BY DEF TypeOK
<1>2. /\ Bump(rec[w].attempts) \in 0..CountCap
      /\ Bump(tries[cur[w]]) \in 0..CountCap
  BY <1>1, BumpType DEF TypeOK, Record
<1>3. rec' = [rec EXCEPT ![w] = [rec[w] EXCEPT !.attempts = Bump(@)]]
  BY DEF CountAttempt
<1>4. [rec[w] EXCEPT !.attempts = Bump(@)]
        = [attempts |-> Bump(rec[w].attempts), max |-> rec[w].max]
  BY <1>1 DEF Record
<1>5. [attempts |-> Bump(rec[w].attempts), max |-> rec[w].max] \in Record
  BY <1>1, <1>2 DEF Record
<1>6. rec \in [Worker -> Record \cup {Absent}] /\ tries \in [Job -> 0..CountCap]
  BY DEF TypeOK
<1>7. rec' = [rec EXCEPT ![w] = [attempts |-> Bump(rec[w].attempts), max |-> rec[w].max]]
  BY <1>3, <1>4
<1>8. tries' = [tries EXCEPT ![cur[w]] = Bump(tries[cur[w]])]
  BY DEF CountAttempt
<1>9. rec'[w] \in Record /\ rec' \in [Worker -> Record \cup {Absent}]
  BY <1>5, <1>6, <1>7
<1> QED BY <1>1, <1>2, <1>6, <1>7, <1>8, <1>9

\* The workers keep the types.
LEMMA WorkerType ==
  ASSUME TypeOK, WorkerKnows, NEW w \in Worker, WorkerNext(w)
  PROVE  TypeOK'
<1> USE Places DEF nodeVars, handlerVars, workerVars, worldVars, kvVars, At
<1>1. CASE Exit(w)
  <2>1. pc' \in [Worker -> WorkerStates] BY <1>1, MoveType DEF Exit
  <2> QED BY <1>1, <2>1 DEF Exit, TypeOK
<1>2. CASE Continue(w)
  <2>1. pc' \in [Worker -> WorkerStates] BY <1>2, MoveType DEF Continue
  <2> QED BY <1>2, <2>1 DEF Continue, TypeOK
<1>3. CASE PopRead(w)
  <2>1. PICK ids \in KVGet(index, <<>>) : snap' = [snap EXCEPT ![w] = ids]
    BY <1>3 DEF PopRead
  <2>2. ids \in Seq(Job) BY IndexReads
  <2>3. pc' \in [Worker -> WorkerStates] BY <1>3, MoveType DEF PopRead
  <2> QED BY <1>3, <2>1, <2>2, <2>3 DEF PopRead, TypeOK
<1>4. CASE PopNothing(w) BY <1>4, ReturnType DEF PopNothing, TypeOK
<1>5. CASE PopSet(w)
  <2>1. snap[w] \in Seq(Job) /\ snap[w] # <<>>
    BY <1>5 DEF PopSet, WorkerKnows, TypeOK
  <2>2. Tail(snap[w]) \in Seq(Job) /\ Head(snap[w]) \in Job
    BY <2>1
  <2>3. pc' \in [Worker -> WorkerStates] BY <1>5, MoveType DEF PopSet
  <2> QED BY <1>5, <2>2, <2>3 DEF PopSet, TypeOK
<1>6. CASE PopSetFails(w) BY <1>6, ReturnType DEF PopSetFails, TypeOK
<1>7. CASE LoadRecord(w)
  <2>1. pc' \in [Worker -> WorkerStates] BY <1>7, MoveType DEF LoadRecord
  <2>2. record[cur[w]] \in Record \cup {Absent} BY DEF TypeOK
  <2> QED BY <1>7, <2>1, <2>2 DEF LoadRecord, TypeOK
<1>8. CASE SkipJob(w) BY <1>8, ReturnType DEF SkipJob, TypeOK
<1>9. CASE RunWithoutClient(w)
  <2>1. rec[w] # Absent BY <1>9 DEF RunWithoutClient, WorkerKnows
  <2>2. pc' \in [Worker -> WorkerStates] BY <1>9, MoveType DEF RunWithoutClient
  <2>3. /\ rec' \in [Worker -> Record \cup {Absent}]
        /\ tries' \in [Job -> 0..CountCap]
    BY <1>9, <2>1, CountKeepsRange DEF RunWithoutClient
  <2> QED BY <1>9, <2>2, <2>3 DEF RunWithoutClient, TypeOK
<1>10. CASE RunSucceeds(w)
  <2>1. tickets' \in [Job -> 0..CountCap]
    BY <1>10, CommitKeepsRange DEF RunSucceeds, TypeOK
  <2>2. pc' \in [Worker -> WorkerStates] BY <1>10, MoveType DEF RunSucceeds
  <2> QED BY <1>10, <2>1, <2>2 DEF RunSucceeds, TypeOK
<1>11. CASE RunFails(w)
  <2>1. rec[w] # Absent BY <1>11 DEF RunFails, WorkerKnows
  <2>2. tickets' \in [Job -> 0..CountCap]
    BY <1>11, CommitKeepsRange DEF RunFails, TypeOK
  <2>3. PICK s \in {"giveUp", "save"} : To(w, s)
    BY <1>11 DEF RunFails
  <2>4. pc' \in [Worker -> WorkerStates] BY <2>3, MoveType
  <2>5. /\ rec' \in [Worker -> Record \cup {Absent}]
        /\ tries' \in [Job -> 0..CountCap]
    BY <1>11, <2>1, CountKeepsRange DEF RunFails
  <2> QED BY <1>11, <2>2, <2>4, <2>5 DEF RunFails, TypeOK
<1>12. CASE PostCreated(w)
  <2>1. pc' \in [Worker -> WorkerStates] BY <1>12, MoveType DEF PostCreated
  <2>2. told' \in [Job -> SUBSET {"created", "failed"}]
    BY <1>12, PostType DEF PostCreated, TypeOK
  <2> QED BY <1>12, <2>1, <2>2 DEF PostCreated, TypeOK
<1>13. CASE PostFailed(w)
  <2>1. told' \in [Job -> SUBSET {"created", "failed"}]
    BY <1>13, PostType DEF PostFailed, TypeOK
  <2> QED BY <1>13, <2>1, ReturnType DEF PostFailed, TypeOK
<1>14. CASE DropCreated(w)
  <2>1. record' \in [Job -> Record \cup {Absent}]
    BY <1>14, DeleteType DEF DropCreated, TypeOK
  <2> QED BY <1>14, <2>1, ReturnType DEF DropCreated, TypeOK
<1>15. CASE GiveUp(w)
  <2>1. record' \in [Job -> Record \cup {Absent}]
    BY <1>15, DeleteType DEF GiveUp, TypeOK
  <2>2. pc' \in [Worker -> WorkerStates] BY <1>15, MoveType DEF GiveUp
  <2> QED BY <1>15, <2>1, <2>2 DEF GiveUp, TypeOK
<1>16. CASE SaveRecord(w)
  <2>1. pc' \in [Worker -> WorkerStates] BY <1>16, MoveType DEF SaveRecord
  <2>2. record' \in [Job -> Record \cup {Absent}]
    BY <1>16 DEF SaveRecord, TypeOK
  <2> QED BY <1>16, <2>1, <2>2 DEF SaveRecord, TypeOK
<1>17. CASE PushRead(w)
  <2>1. PICK ids \in KVGet(index, <<>>) : snap' = [snap EXCEPT ![w] = ids]
    BY <1>17 DEF PushRead
  <2>2. ids \in Seq(Job) BY IndexReads
  <2>3. pc' \in [Worker -> WorkerStates] BY <1>17, MoveType DEF PushRead
  <2> QED BY <1>17, <2>1, <2>2, <2>3 DEF PushRead, TypeOK
<1>18. CASE PushSet(w)
  <2>1. snap[w] \in Seq(Job) /\ cur[w] \in Job
    BY DEF TypeOK
  <2>2. <<cur[w]>> \o snap[w] \in Seq(Job)
    BY <2>1
  <2>3. index' \in Seq(Job)
    BY <1>18, <2>2 DEF PushSet, TypeOK
  <2> QED BY <1>18, <2>3, ReturnType DEF PushSet, TypeOK
<1> QED
  BY <1>1, <1>2, <1>3, <1>4, <1>5, <1>6, <1>7, <1>8, <1>9, <1>10, <1>11, <1>12,
     <1>13, <1>14, <1>15, <1>16, <1>17, <1>18 DEF WorkerNext

\* Node events keep the types.
LEMMA NodeType ==
  ASSUME TypeOK, NEW n \in Node, NodeNext(n)
  PROVE  TypeOK'
<1> USE Places DEF nodeVars, handlerVars, workerVars, worldVars, kvVars
<1>1. CASE Start(n) BY <1>1 DEF Start, TypeOK
<1>2. CASE UpdateConfig(n) BY <1>2 DEF UpdateConfig, TypeOK
<1>3. CASE ReplaceClient(n) BY <1>3 DEF ReplaceClient, TypeOK
<1>4. CASE Stop(n) BY <1>4 DEF Stop, TypeOK
<1>5. ASSUME NodeDown(n) PROVE TypeOK'
  <2>1. /\ queue' \in [Node -> {"none", "running", "stopping", "stopped"}]
        /\ client' \in [Node -> BOOLEAN]
        /\ pc' \in [Worker -> WorkerStates]
        /\ snap' \in [Worker -> Seq(Job)]
        /\ rec' \in [Worker -> Record \cup {Absent}]
    BY <1>5 DEF NodeDown, TypeOK
  <2>2. \A j \in Job : Killed(hpc[j]) \in HandlerStates
    BY DEF Killed, TypeOK
  <2>3. hpc' \in [Job -> HandlerStates]
    BY <1>5, <2>2 DEF NodeDown, TypeOK
  <2> QED BY <1>5, <2>1, <2>3 DEF NodeDown, TypeOK
<1>6. CASE StopReturns(n) BY <1>6 DEF StopReturns, TypeOK
<1>7. CASE ProcessEnds(n) \/ Crash(n) BY <1>5, <1>7 DEF ProcessEnds, Crash
<1> QED BY <1>1, <1>2, <1>3, <1>4, <1>6, <1>7 DEF NodeNext

-----------------------------------------------------------------------------
(* The inductive step, conjunct by conjunct. *)

\* The part of the type invariant that the steps below lean on.
LEMMA Ranges ==
  ASSUME TypeOK
  PROVE  /\ DOMAIN record = Job /\ DOMAIN hpc = Job
         /\ DOMAIN told = Job /\ DOMAIN limit = Job
         /\ DOMAIN tickets = Job /\ DOMAIN tries = Job
         /\ DOMAIN pc = Worker /\ DOMAIN cur = Worker
         /\ DOMAIN rec = Worker /\ DOMAIN snap = Worker
         /\ \A j \in Job : /\ tickets[j] \in 0..CountCap
                          /\ tries[j] \in 0..CountCap
                          /\ limit[j] \in AttemptLimits
         /\ \A w \in Worker : cur[w] \in Job
         /\ \A j \in Job : record[j] # Absent => record[j] \in Record
         /\ \A w \in Worker : rec[w] # Absent => rec[w] \in Record
  BY DEF TypeOK

\* A record that exists counts within range and has a configured limit.
LEMMA RecordRange ==
  ASSUME NEW r \in Record
  PROVE  r.attempts \in 0..CountCap /\ r.max \in AttemptLimits
  BY DEF Record

\* A handler cannot break the invariant: it only touches its own job, and that
\* job is unknown to the workers until its record is written.
LEMMA HandlerStep ==
  ASSUME IInv, NEW j \in Job, HandlerNext(j)
  PROVE  IInv'
<1> USE QueueAssumption DEF nodeVars, handlerVars, workerVars, worldVars, kvVars, Goto
<1>0. TypeOK /\ TypeOK'
  BY HandlerType DEF IInv
<1>r. /\ DOMAIN record = Job /\ DOMAIN hpc = Job /\ DOMAIN limit = Job
      /\ \A i \in Job : tickets[i] \in Nat /\ tickets'[i] \in Nat /\ tries[i] \in Nat
      /\ \A w \in Worker : cur[w] \in Job
  BY <1>0 DEF TypeOK
<1>q. NoQueueNoWorker'
  BY DEF HandlerNext, HandleDialog, CreateFromDialog, EnqueueSetRecord, AppendRead, AppendSet,
         EnqueueUndo, IInv, NoQueueNoWorker
<1>1. CASE HandleDialog(j) \/ CreateFromDialog(j)
  <2>1. \A i \in Job : tickets[i] <= tickets'[i]
    <3>1. CASE HandleDialog(j)
      BY <3>1, <1>r DEF HandleDialog
    <3>2. CASE CreateFromDialog(j)
      BY <3>2, CommitKeepsRange DEF CreateFromDialog, IInv, TypeOK
    <3> QED BY <1>1, <3>1, <3>2
  <2>2. /\ hpc[j] \in {"idle", "create"} /\ record[j] = Absent /\ told[j] = {}
        /\ \A w \in Worker : rec[w] # Absent => cur[w] # j
    BY <1>1 DEF HandleDialog, CreateFromDialog, IInv, NotYetQueued
  <2>3. /\ hpc'[j] \in {"create", "answered", "setRecord", "refused"}
        /\ \A i \in Job \ {j} : hpc'[i] = hpc[i] /\ limit'[i] = limit[i]
        /\ UNCHANGED <<record, told, tries, pc, snap, cur, rec>>
    BY <1>1, <1>0 DEF HandleDialog, CreateFromDialog, TypeOK
  <2>4. CopiesAreHonest'
    BY <2>2, <2>3, <1>r DEF IInv, CopiesAreHonest
  <2>5. WorkerKnows'
    BY <2>1, <2>2, <2>3, <1>r DEF IInv, WorkerKnows, Exhausted
  <2>6. NotYetQueued'
    BY <2>2, <2>3, <1>r DEF IInv, NotYetQueued
  <2>7. KeptUntilSettled'
    BY <2>1, <2>2, <2>3, <1>r DEF IInv, KeptUntilSettled, Exhausted
  <2>8. FailurePostIsEarned'
    BY <2>2, <2>3, <1>r DEF IInv, FailurePostIsEarned, Exhausted
  <2> QED BY <1>0, <1>q, <2>4, <2>5, <2>6, <2>7, <2>8 DEF IInv
<1>2. CASE EnqueueSetRecord(j)
  <2>1. /\ hpc[j] = "setRecord" /\ record[j] = Absent /\ told[j] = {}
        /\ \A w \in Worker : rec[w] # Absent => cur[w] # j
    BY <1>2 DEF EnqueueSetRecord, IInv, NotYetQueued
  <2>2. /\ \/ /\ record' = [record EXCEPT ![j] = [attempts |-> 0, max |-> limit[j]]]
              /\ hpc' = [hpc EXCEPT ![j] = "readIndex"]
           \/ record' = record /\ hpc' = [hpc EXCEPT ![j] = "refused"]
        /\ UNCHANGED <<limit, tickets, tries, told, pc, snap, cur, rec>>
    BY <1>2 DEF EnqueueSetRecord
  <2>3. [attempts |-> 0, max |-> limit[j]] # Absent /\ tries[j] >= 0
    BY <1>0 DEF TypeOK, Absent
  <2>4. CopiesAreHonest'
    BY <2>1, <2>2, <2>3, <1>r DEF IInv, CopiesAreHonest
  <2>5. WorkerKnows'
    BY <2>2, <1>r DEF IInv, WorkerKnows, Exhausted
  <2>6. NotYetQueued'
    BY <2>1, <2>2, <1>r DEF IInv, NotYetQueued
  <2>7. KeptUntilSettled'
    BY <2>1, <2>2, <2>3, <1>r DEF IInv, KeptUntilSettled, Exhausted
  <2>8. FailurePostIsEarned'
    BY <2>2, <1>r DEF IInv, FailurePostIsEarned, Exhausted
  <2> QED BY <1>0, <1>q, <2>4, <2>5, <2>6, <2>7, <2>8 DEF IInv
<1>3. CASE AppendRead(j) \/ AppendSet(j) \/ EnqueueUndo(j)
  <2>1. /\ hpc[j] \in {"readIndex", "setIndex", "undo"}
        /\ hpc' \in {[hpc EXCEPT ![j] = s] : s \in {"setIndex", "queued", "undo", "refused"}}
        /\ hpc[j] = "undo" => hpc'[j] = "refused"
        /\ \A i \in Job \ {j} : record'[i] = record[i]
        /\ record'[j] \in {record[j], Absent}
        /\ hpc[j] # "undo" => record' = record
        /\ UNCHANGED <<limit, tickets, tries, told, pc, snap, cur, rec>>
    BY <1>3, <1>0 DEF AppendRead, AppendSet, EnqueueUndo, DeleteRecord, TypeOK
  <2>4. CopiesAreHonest'
    BY <2>1, <1>r DEF IInv, CopiesAreHonest
  <2>5. WorkerKnows'
    BY <2>1, <1>r DEF IInv, WorkerKnows, Exhausted
  <2>6. NotYetQueued'
    BY <2>1, <1>r DEF IInv, NotYetQueued
  <2>7. KeptUntilSettled'
    BY <2>1, <1>r DEF IInv, KeptUntilSettled, Exhausted
  <2>8. FailurePostIsEarned'
    BY <2>1, <1>r DEF IInv, FailurePostIsEarned, Exhausted
  <2> QED BY <1>0, <1>q, <2>4, <2>5, <2>6, <2>7, <2>8 DEF IInv
<1> QED BY <1>1, <1>2, <1>3 DEF HandlerNext

\* A worker keeps the invariant: it writes a record only from an honest copy,
\* and removes one only when the job is settled.
LEMMA WorkerStep ==
  ASSUME IInv, NEW w \in Worker, WorkerNext(w)
  PROVE  IInv'
<1> USE DEF nodeVars, handlerVars, workerVars, worldVars, kvVars, At, To, Return
<1>0. TypeOK /\ TypeOK'
  BY WorkerType DEF IInv
<1>r. /\ DOMAIN record = Job /\ DOMAIN told = Job
      /\ DOMAIN pc = Worker /\ DOMAIN cur = Worker /\ DOMAIN rec = Worker
      /\ DOMAIN snap = Worker /\ DOMAIN tries = Job /\ DOMAIN tickets = Job
      /\ \A i \in Job : /\ tickets[i] \in Nat /\ tickets'[i] \in Nat
                        /\ tries[i] \in Nat /\ tries'[i] \in Nat /\ limit[i] \in Nat
      /\ \A v \in Worker : cur[v] \in Job
  <2>1. \A i \in Job : limit[i] \in Nat
    BY <1>0, QueueAssumption DEF TypeOK
  <2>2. \A i \in Job : tickets'[i] \in Nat /\ tries'[i] \in Nat
    BY <1>0 DEF TypeOK
  <2>3. \A i \in Job : tickets[i] \in Nat /\ tries[i] \in Nat
    BY <1>0 DEF TypeOK
  <2> QED BY <1>0, Ranges, <2>1, <2>2, <2>3
<1>q. NoQueueNoWorker'
  <2>1. pc[w] # "off" /\ queue' = queue /\ \A v \in Worker \ {w} : pc'[v] = pc[v]
    BY <1>r DEF WorkerNext, Exit, Continue, PopRead, PopNothing, PopSet, PopSetFails, LoadRecord, SkipJob,
                RunWithoutClient, RunSucceeds, RunFails, PostCreated, PostFailed,
                DropCreated, GiveUp, SaveRecord, PushRead, PushSet
  <2> QED BY <2>1 DEF IInv, NoQueueNoWorker
\* The frame: the job's settlement, once reached, stays.
<1>a. ASSUME CopiesAreHonest', WorkerKnows', UNCHANGED <<hpc, limit>>,
             \A j \in Job : tickets[j] <= tickets'[j] /\ tries[j] <= tries'[j],
             \A j \in Job : record'[j] = Absent =>
               \/ record[j] = Absent
               \/ tickets'[j] > 0 \/ tries'[j] >= limit[j],
             \A j \in Job : "failed" \in told'[j] =>
               "failed" \in told[j] \/ tries'[j] >= limit[j],
             NotYetQueued'
      PROVE  IInv'
  <2>1. KeptUntilSettled'
    BY <1>a, <1>r DEF IInv, KeptUntilSettled, Exhausted
  <2>2. FailurePostIsEarned'
    BY <1>a, <1>r DEF IInv, FailurePostIsEarned, Exhausted
  <2> QED BY <1>0, <1>q, <1>a, <2>1, <2>2 DEF IInv
<1>1. CASE \/ Exit(w) \/ Continue(w) \/ PopRead(w) \/ PopNothing(w)
           \/ PopSet(w) \/ PopSetFails(w) \/ SkipJob(w) \/ PushRead(w) \/ PushSet(w)
  <2>1. /\ UNCHANGED <<record, tickets, tries, told, hpc, limit>>
        /\ \A v \in Worker \ {w} : UNCHANGED <<pc[v], snap[v], cur[v], rec[v]>>
        /\ rec'[w] \in {rec[w], Absent}
        /\ \/ pc'[w] \in {"off", "poll", "pop", "popSet", "load"} /\ rec'[w] = Absent
           \/ pc'[w] = "pushSet"
        /\ pc'[w] = "popSet" => snap'[w] # <<>>
        /\ cur'[w] = cur[w] \/ rec'[w] = Absent
    BY <1>1, <1>r DEF Exit, Continue, PopRead, PopNothing, PopSet, PopSetFails, SkipJob, PushRead, PushSet,
                      IInv, WorkerKnows
  <2>5. \A v \in Worker : rec'[v] # Absent => rec'[v] = rec[v] /\ cur'[v] = cur[v]
    BY <2>1
  <2>2. CopiesAreHonest'
    BY <2>1, <2>5 DEF IInv, CopiesAreHonest
  <2>3. WorkerKnows'
    BY <2>1, <1>r DEF IInv, WorkerKnows, Exhausted
  <2>4. NotYetQueued'
    <3>1. NotYetQueued
      BY DEF IInv
    <3> QED BY <2>1, <2>5, <3>1 DEF NotYetQueued
  <2> QED BY <1>a, <1>r, <2>1, <2>2, <2>3, <2>4
<1>2. CASE LoadRecord(w)
  <2>1. /\ UNCHANGED <<record, tickets, tries, told, hpc, limit, snap, cur>>
        /\ rec' = [rec EXCEPT ![w] = record[cur[w]]]
        /\ pc' = [pc EXCEPT ![w] = "run"]
        /\ record[cur[w]] # Absent
    BY <1>2 DEF LoadRecord
  <2>2. CopiesAreHonest'
    BY <2>1, <1>r DEF IInv, CopiesAreHonest
  <2>3. WorkerKnows'
    BY <2>1, <1>r DEF IInv, WorkerKnows, Exhausted
  <2>4. NotYetQueued'
    BY <2>1, <1>r DEF IInv, NotYetQueued
  <2> QED BY <1>a, <1>r, <2>1, <2>2, <2>3, <2>4
<1>3. CASE RunSucceeds(w)
  <2>0. PICK o \in CreateOutcomes : o.ok /\ Commit(cur[w], o)
    BY <1>3 DEF RunSucceeds
  <2>1. /\ UNCHANGED <<record, tries, told, hpc, limit, snap, cur, rec>>
        /\ pc' = [pc EXCEPT ![w] = "post"] /\ pc[w] = "run"
        /\ \A i \in Job : tickets[i] <= tickets'[i]
    BY <1>3, <2>0, <1>0, CommitKeepsRange DEF RunSucceeds, TypeOK
  <2>2. tickets'[cur[w]] > 0
    <3>1. o.commits BY <2>0 DEF CreateOutcomes
    <3>2. tickets'[cur[w]] = Bump(tickets[cur[w]])
      BY <2>0, <3>1, <1>r DEF Commit
    <3>3. CountCap > 0
      <4>1. PICK m \in AttemptLimits : TRUE BY QueueAssumption
      <4>2. m \in Nat \ {0} /\ m <= CountCap BY <4>1, QueueAssumption
      <4> QED BY <4>2, QueueAssumption
    <3> QED BY <3>2, <3>3, <1>r, QueueAssumption DEF Bump
  <2>3. CopiesAreHonest'
    BY <2>1, <1>r DEF IInv, CopiesAreHonest
  <2>4. WorkerKnows'
    BY <2>1, <2>2, <1>r DEF IInv, WorkerKnows, Exhausted
  <2>5. NotYetQueued'
    BY <2>1, <1>r DEF IInv, NotYetQueued
  <2> QED BY <1>a, <1>r, <2>1, <2>3, <2>4, <2>5
<1>4. CASE RunWithoutClient(w) \/ RunFails(w)
  <2>0. rec[w] # Absent /\ CountAttempt(w) /\ pc[w] = "run"
    BY <1>4 DEF RunWithoutClient, RunFails, IInv, WorkerKnows
  <2>1. /\ rec' = [rec EXCEPT ![w] = [attempts |-> Bump(rec[w].attempts),
                                      max |-> rec[w].max]]
        /\ tries' = [tries EXCEPT ![cur[w]] = Bump(tries[cur[w]])]
        /\ rec'[w] \in Record
    BY <2>0, <1>0, CountKeepsRange
  <2>2. /\ rec[w].attempts \in 0..CountCap /\ rec[w].max \in AttemptLimits
        /\ rec[w].max = limit[cur[w]] /\ rec[w].attempts <= tries[cur[w]]
        /\ tries[cur[w]] \in 0..CountCap
    BY <2>0, <1>0, RecordRange, Ranges DEF IInv, CopiesAreHonest
  <2>3. /\ Bump(rec[w].attempts) <= Bump(tries[cur[w]])
        /\ tries[cur[w]] <= Bump(tries[cur[w]])
    BY <2>2, BumpMonotone, BumpGrows
  <2>4. rec'[w] # Absent
    BY <2>1, QueueAssumption DEF Record, Absent
  <2>5. /\ UNCHANGED <<record, told, hpc, limit, snap, cur>>
        /\ \A i \in Job : tickets[i] <= tickets'[i] /\ tries[i] <= tries'[i]
        /\ \/ pc' = [pc EXCEPT ![w] = "save"]
           \/ pc' = [pc EXCEPT ![w] = "giveUp"] /\ rec[w].attempts + 1 >= rec[w].max
    <3>1. \A i \in Job : tickets[i] <= tickets'[i]
      <4>1. CASE RunWithoutClient(w)
        BY <4>1, <1>r DEF RunWithoutClient
      <4>2. CASE RunFails(w)
        BY <4>2, <1>0, <1>r, CommitKeepsRange DEF RunFails, TypeOK
      <4> QED BY <1>4, <4>1, <4>2
    <3>2. \A i \in Job : tries[i] <= tries'[i]
      BY <2>1, <2>3, <1>r
    <3>3. UNCHANGED <<record, told, hpc, limit, snap, cur>>
      BY <1>4 DEF RunWithoutClient, RunFails
    <3>4. \/ pc' = [pc EXCEPT ![w] = "save"]
          \/ pc' = [pc EXCEPT ![w] = "giveUp"] /\ rec[w].attempts + 1 >= rec[w].max
      <4>1. CASE RunWithoutClient(w) BY <4>1 DEF RunWithoutClient
      <4>2. CASE RunFails(w) BY <4>2 DEF RunFails
      <4> QED BY <1>4, <4>1, <4>2
    <3> QED BY <3>1, <3>2, <3>3, <3>4
  <2>6. pc'[w] = "giveUp" => tries'[cur[w]] >= limit[cur[w]]
    BY <2>1, <2>2, <2>5, <1>r, BumpReachesLimit
  <2>7. CopiesAreHonest'
    <3>1. ASSUME NEW j \in Job, record'[j] # Absent
          PROVE  record'[j].max = limit'[j] /\ record'[j].attempts <= tries'[j]
      <4>1. record[j].max = limit[j] /\ record[j].attempts <= tries[j]
        BY <2>5, <3>1 DEF IInv, CopiesAreHonest
      <4>2. record[j] \in Record
        BY <2>5, <3>1, <1>0, Ranges
      <4> QED BY <4>1, <4>2, RecordRange, <2>5, <1>r
    <3>2. rec'[w].max = limit'[cur'[w]] /\ rec'[w].attempts <= tries'[cur'[w]]
      BY <2>1, <2>2, <2>3, <2>5, <1>r
    <3>3. ASSUME NEW v \in Worker \ {w}, rec'[v] # Absent
          PROVE  rec'[v].max = limit'[cur'[v]] /\ rec'[v].attempts <= tries'[cur'[v]]
      <4>1. rec'[v] = rec[v] /\ rec[v] # Absent
        BY <2>1, <3>3, <1>r
      <4>2. rec[v].max = limit[cur[v]] /\ rec[v].attempts <= tries[cur[v]]
        BY <4>1 DEF IInv, CopiesAreHonest
      <4>3. rec[v] \in Record
        BY <4>1, <1>0, Ranges
      <4> QED BY <4>1, <4>2, <4>3, RecordRange, <2>5, <1>r
    <3> QED BY <3>1, <3>2, <3>3 DEF CopiesAreHonest
  <2>8. WorkerKnows'
    BY <2>0, <2>1, <2>4, <2>5, <2>6, <1>r DEF IInv, WorkerKnows, Exhausted
  <2>9. NotYetQueued'
    BY <2>0, <2>1, <2>5, <1>r DEF IInv, NotYetQueued
  <2> QED BY <1>a, <1>r, <2>5, <2>7, <2>8, <2>9
<1>5. CASE PostCreated(w)
  <2>1. /\ UNCHANGED <<record, tickets, tries, hpc, limit, cur, rec, snap>>
        /\ pc[w] = "post" /\ pc' = [pc EXCEPT ![w] = "drop"]
        /\ told' \in {told, [told EXCEPT ![cur[w]] = @ \cup {"created"}]}
        /\ rec[w] # Absent
    BY <1>5 DEF PostCreated, Post, IInv, WorkerKnows
  <2>2. \A j \in Job : "failed" \in told'[j] => "failed" \in told[j]
    BY <2>1, <1>r
  <2>3. CopiesAreHonest'
    BY <2>1 DEF IInv, CopiesAreHonest
  <2>4. WorkerKnows'
    BY <2>1, <1>r DEF IInv, WorkerKnows, Exhausted
  <2>5. NotYetQueued'
    BY <2>1, <1>r DEF IInv, NotYetQueued
  <2> QED BY <1>a, <1>r, <2>1, <2>2, <2>3, <2>4, <2>5
<1>8. CASE PostFailed(w)
  <2>1. /\ UNCHANGED <<record, tickets, tries, hpc, limit, cur>>
        /\ \A v \in Worker \ {w} : UNCHANGED <<pc[v], snap[v], rec[v]>>
        /\ pc[w] = "failPost" /\ pc'[w] = "poll" /\ rec'[w] = Absent
        /\ told' \in {told, [told EXCEPT ![cur[w]] = @ \cup {"failed"}]}
        /\ rec[w] # Absent /\ tries[cur[w]] >= limit[cur[w]]
    BY <1>8, <1>r DEF PostFailed, Post, IInv, WorkerKnows, Exhausted
  <2>2. \A j \in Job : "failed" \in told'[j] => "failed" \in told[j] \/ tries'[j] >= limit[j]
    BY <2>1, <1>r
  <2>3. CopiesAreHonest'
    BY <2>1, <1>r DEF IInv, CopiesAreHonest
  <2>4. WorkerKnows'
    BY <2>1, <1>r DEF IInv, WorkerKnows, Exhausted
  <2>5. NotYetQueued'
    BY <2>1, <1>r DEF IInv, NotYetQueued
  <2> QED BY <1>a, <1>r, <2>1, <2>2, <2>3, <2>4, <2>5
<1>6. CASE DropCreated(w) \/ GiveUp(w)
  <2>1. /\ UNCHANGED <<tickets, tries, told, hpc, limit, cur>>
        /\ \A v \in Worker \ {w} : UNCHANGED <<pc[v], snap[v], rec[v]>>
        /\ record' = record \/ record' = [record EXCEPT ![cur[w]] = Absent]
        /\ \/ pc[w] = "drop" /\ pc'[w] = "poll" /\ rec'[w] = Absent
           \/ pc[w] = "giveUp" /\ pc'[w] = "failPost" /\ rec' = rec
    BY <1>6, <1>r DEF DropCreated, GiveUp, DeleteRecord
  <2>2. \A j \in Job : record'[j] = Absent =>
               \/ record[j] = Absent
               \/ tickets'[j] > 0 \/ tries'[j] >= limit[j]
    BY <2>1, <1>r DEF IInv, WorkerKnows, Exhausted
  <2>3. CopiesAreHonest'
    BY <2>1, <1>r DEF IInv, CopiesAreHonest
  <2>4. WorkerKnows'
    BY <2>1, <1>r DEF IInv, WorkerKnows, Exhausted
  <2>5. NotYetQueued'
    BY <2>1, <1>r DEF IInv, NotYetQueued
  <2> QED BY <1>a, <1>r, <2>1, <2>2, <2>3, <2>4, <2>5
<1>7. CASE SaveRecord(w)
  <2>1. /\ UNCHANGED <<tickets, tries, told, hpc, limit, snap, cur, rec>>
        /\ pc' = [pc EXCEPT ![w] = "sleep"]
        /\ record' = record \/ record' = [record EXCEPT ![cur[w]] = rec[w]]
        /\ rec[w] # Absent
    BY <1>7 DEF SaveRecord, IInv, WorkerKnows
  <2>2. CopiesAreHonest'
    BY <2>1, <1>r DEF IInv, CopiesAreHonest
  <2>3. WorkerKnows'
    BY <2>1, <1>r DEF IInv, WorkerKnows, Exhausted
  <2>4. NotYetQueued'
    BY <2>1, <1>r DEF IInv, NotYetQueued
  <2> QED BY <1>a, <1>r, <2>1, <2>2, <2>3, <2>4
<1> QED BY <1>1, <1>2, <1>3, <1>4, <1>5, <1>6, <1>7, <1>8 DEF WorkerNext

\* Where a node event takes the handler of a job.
LEMMA HandlersDie ==
  ASSUME TypeOK, NEW n \in Node, NodeNext(n), NEW j \in Job
  PROVE  \/ hpc'[j] = hpc[j]
         \/ hpc'[j] = "lost" /\ hpc[j] \in {"create", "setRecord"}
         \/ hpc'[j] = "dead" /\ hpc[j] \in {"readIndex", "setIndex", "undo"}
<1>1. CASE NodeDown(n)
  BY <1>1 DEF NodeDown, Killed
<1>2. CASE ~ NodeDown(n)
  BY <1>2 DEF NodeNext, Start, UpdateConfig, ReplaceClient, Stop, StopReturns, ProcessEnds,
              Crash, handlerVars
<1> QED BY <1>1, <1>2

\* Node events keep the invariant; a crash only forgets copies.
LEMMA NodeStep ==
  ASSUME IInv, NEW n \in Node, NodeNext(n)
  PROVE  IInv'
<1> USE DEF nodeVars, handlerVars, workerVars, worldVars, kvVars
<1>0. TypeOK /\ TypeOK'
  BY NodeType DEF IInv
<1>r. /\ DOMAIN pc = Worker /\ DOMAIN rec = Worker
      /\ DOMAIN snap = Worker /\ DOMAIN hpc = Job
  BY <1>0 DEF TypeOK
<1>1. CASE UpdateConfig(n) \/ ReplaceClient(n) \/ Stop(n) \/ StopReturns(n)
  <2>1. UNCHANGED <<record, hpc, limit, pc, snap, cur, rec, tickets, tries, told>>
    BY <1>1 DEF UpdateConfig, ReplaceClient, Stop, StopReturns
  <2>2. NoQueueNoWorker'
    <3>1. DOMAIN queue = Node /\ pc' = pc
      BY <1>0, <2>1 DEF TypeOK
    <3>2. CASE UpdateConfig(n) \/ ReplaceClient(n)
      BY <3>1, <3>2 DEF UpdateConfig, ReplaceClient, IInv, NoQueueNoWorker
    <3>3. CASE Stop(n)
      BY <3>1, <3>3 DEF Stop, IInv, NoQueueNoWorker
    <3>4. CASE StopReturns(n)
      BY <3>1, <3>4 DEF StopReturns, WorkersOf, IInv, NoQueueNoWorker
    <3> QED BY <1>1, <3>2, <3>3, <3>4
  <2> QED BY <2>1, <2>2, <1>0 DEF IInv, CopiesAreHonest, WorkerKnows, NotYetQueued,
                                  KeptUntilSettled, FailurePostIsEarned, Exhausted
<1>2. CASE ProcessEnds(n) \/ Crash(n)
  <2>0. NodeDown(n)
    BY <1>2 DEF ProcessEnds, Crash
  <2>1. /\ UNCHANGED <<record, limit, cur, tickets, tries, told>>
        /\ \A w \in Worker : \/ pc'[w] = "off" /\ rec'[w] = Absent
                             \/ UNCHANGED <<pc[w], snap[w], rec[w]>>
        /\ \A j \in Job : \/ hpc'[j] = hpc[j]
                          \/ hpc'[j] = "dead"
                          \/ hpc'[j] = "lost" /\ hpc[j] \in {"create", "setRecord"}
    <3>1. UNCHANGED <<record, limit, cur, tickets, tries, told>>
      BY <2>0 DEF NodeDown
    <3>2. \A w \in Worker : \/ pc'[w] = "off" /\ rec'[w] = Absent
                            \/ UNCHANGED <<pc[w], snap[w], rec[w]>>
      BY <2>0 DEF NodeDown
    <3>3. \A j \in Job : \/ hpc'[j] = hpc[j]
                         \/ hpc'[j] = "dead"
                         \/ hpc'[j] = "lost" /\ hpc[j] \in {"create", "setRecord"}
      BY <1>0, HandlersDie
    <3> QED BY <3>1, <3>2, <3>3
  <2>2. CopiesAreHonest'
    BY <2>1 DEF IInv, CopiesAreHonest
  <2>3. WorkerKnows'
    BY <2>1 DEF IInv, WorkerKnows, Exhausted
  <2>4. NotYetQueued' /\ KeptUntilSettled' /\ FailurePostIsEarned'
    BY <2>1 DEF IInv, NotYetQueued, KeptUntilSettled, FailurePostIsEarned, Exhausted
  <2>5. NoQueueNoWorker'
    BY <2>0, <1>0, QueueAssumption DEF NodeDown, IInv, NoQueueNoWorker, TypeOK
  <2> QED BY <1>0, <2>2, <2>3, <2>4, <2>5 DEF IInv
<1>3. CASE Start(n)
  <2>1. /\ UNCHANGED <<record, hpc, limit, cur, snap, rec, tickets, tries, told>>
        /\ \A w \in Worker : \/ pc'[w] = "poll" /\ pc[w] = "off"
                             \/ pc'[w] = pc[w]
    BY <1>3 DEF Start, IInv, NoQueueNoWorker
  <2>2. WorkerKnows'
    BY <2>1 DEF IInv, WorkerKnows, Exhausted
  <2>3. NoQueueNoWorker'
    BY <1>3, <1>0, QueueAssumption DEF Start, IInv, NoQueueNoWorker, TypeOK
  <2> QED BY <2>1, <2>2, <2>3, <1>0 DEF IInv, CopiesAreHonest, NotYetQueued,
                                  KeptUntilSettled, FailurePostIsEarned, Exhausted
<1> QED BY <1>1, <1>2, <1>3 DEF NodeNext

-----------------------------------------------------------------------------
(* The theorems. *)

\* The fresh initial states satisfy the invariant.
LEMMA InitInv == Init => IInv
<1> SUFFICES ASSUME Init PROVE IInv
  OBVIOUS
<1>1. TypeOK
  BY InitType
<1> QED BY <1>1 DEF Init, InitRest, IInv, NoQueueNoWorker, CopiesAreHonest, WorkerKnows,
                    NotYetQueued, KeptUntilSettled, FailurePostIsEarned

\* The inductive invariant holds in every reachable state: no interleaving of
\* handlers, workers, crashes and failing KV calls makes a stored or a held
\* copy of a job count a round that was not run.
THEOREM InductiveInvariant == Spec => []IInv
<1>1. Init => IInv
  BY InitInv
<1>2. IInv /\ [Next]_vars => IInv'
  <2> SUFFICES ASSUME IInv, [Next]_vars PROVE IInv'
    OBVIOUS
  <2>1. CASE Next
    BY <2>1, HandlerStep, WorkerStep, NodeStep DEF Next
  <2>2. CASE UNCHANGED vars
    <3>1. UNCHANGED <<index, record, queue, maxAttempts, client, hpc, hsnap, limit,
                      pc, snap, cur, rec, tickets, tries, told>>
      BY <2>2 DEF vars, kvVars, nodeVars, handlerVars, workerVars, worldVars
    <3> QED BY <3>1 DEF IInv, TypeOK, NoQueueNoWorker, CopiesAreHonest, WorkerKnows,
                 NotYetQueued, KeptUntilSettled, FailurePostIsEarned, Exhausted
  <2> QED BY <2>1, <2>2
<1> QED BY <1>1, <1>2, PTL DEF Spec

\* Every variable keeps its type (queue.go:22-53 and the locals of its
\* functions).
THEOREM TypeCorrect == Spec => []TypeOK
<1>1. IInv => TypeOK
  BY DEF IInv
<1> QED BY <1>1, InductiveInvariant, PTL

\* A job reported as queued keeps its record until it is settled, for any
\* number of nodes, workers and jobs and under every fault of the model.
THEOREM NoRecordLostUnsettled == Spec => []SettledBeforeRemoval
<1>1. IInv => SettledBeforeRemoval
  BY DEF IInv, KeptUntilSettled, SettledBeforeRemoval, Accepted
<1> QED BY <1>1, InductiveInvariant, PTL

\* The permanent-failure post is only made when the attempt budget is spent.
THEOREM FailurePostNeverEarly == Spec => []FailurePostIsEarned
<1>1. IInv => FailurePostIsEarned
  BY DEF IInv
<1> QED BY <1>1, InductiveInvariant, PTL

-----------------------------------------------------------------------------
(* Stopping. *)

LEMMA StopTable ==
  /\ StepsToStop("pop") = 8 /\ StepsToStop("popSet") = 7 /\ StepsToStop("load") = 6
  /\ StepsToStop("run") = 5 /\ StepsToStop("save") = 4 /\ StepsToStop("sleep") = 3
  /\ StepsToStop("post") = 3 /\ StepsToStop("giveUp") = 3 /\ StepsToStop("drop") = 2
  /\ StepsToStop("failPost") = 2 /\ StepsToStop("pushSet") = 2
  /\ StepsToStop("poll") = 1 /\ StepsToStop("off") = 0
  BY DEF StepsToStop

\* Where a step takes a worker whose queue is being stopped.
LEMMA StopMoves ==
  ASSUME TypeOK, NEW w \in Worker \ Orphan, queue[NodeOf[w]] = "stopping", WorkerNext(w)
  PROVE  <<pc[w], pc'[w]>> \in
           {<<"poll", "off">>, <<"pop", "popSet">>, <<"pop", "poll">>,
            <<"popSet", "load">>, <<"popSet", "poll">>, <<"load", "run">>,
            <<"load", "poll">>, <<"run", "save">>, <<"run", "post">>,
            <<"run", "giveUp">>, <<"post", "drop">>, <<"drop", "poll">>,
            <<"giveUp", "failPost">>, <<"failPost", "poll">>, <<"save", "sleep">>,
            <<"sleep", "pushSet">>, <<"pushSet", "poll">>}
<1> USE DEF At, To, Return
<1>0. pc \in [Worker -> WorkerStates]
  BY DEF TypeOK
<1>1. CASE Exit(w) \/ Continue(w)
  BY <1>0, <1>1 DEF Exit, Continue
<1>2. CASE PopRead(w) \/ PopNothing(w) \/ PopSet(w) \/ PopSetFails(w)
  BY <1>0, <1>2 DEF PopRead, PopNothing, PopSet, PopSetFails
<1>3. CASE LoadRecord(w) \/ SkipJob(w)
  BY <1>0, <1>3 DEF LoadRecord, SkipJob
<1>4. CASE RunWithoutClient(w) \/ RunSucceeds(w) \/ RunFails(w)
  BY <1>0, <1>4 DEF RunWithoutClient, RunSucceeds, RunFails
<1>5. CASE PostCreated(w) \/ PostFailed(w) \/ DropCreated(w) \/ GiveUp(w)
  BY <1>0, <1>5 DEF PostCreated, PostFailed, DropCreated, GiveUp
<1>6. CASE SaveRecord(w) \/ PushRead(w) \/ PushSet(w)
  BY <1>0, <1>6 DEF SaveRecord, PushRead, PushSet
<1> QED BY <1>1, <1>2, <1>3, <1>4, <1>5, <1>6 DEF WorkerNext

\* After Stop has closed stopCh a worker takes at most eight steps more, on
\* whatever nodes and under whatever faults; that it takes them is fairness
\* (queue.go:129-141, 209-219).
THEOREM StopsGetNearer == Spec => StopGetsNearer
<1>1. ASSUME TypeOK, Next, NEW w \in Worker \ Orphan, queue[NodeOf[w]] = "stopping"
      PROVE  /\ StepsToStop(pc'[w]) <= StepsToStop(pc[w])
             /\ WorkerNext(w) => StepsToStop(pc'[w]) < StepsToStop(pc[w])
  <2>0. StepsToStop(pc[w]) \in 0..8
    <3>1. pc[w] \in WorkerStates
      BY <1>1 DEF TypeOK
    <3> QED BY <3>1, StopTable DEF WorkerStates
  <2>1. CASE WorkerNext(w)
    <3>1. StepsToStop(pc'[w]) < StepsToStop(pc[w])
      BY <1>1, <2>1, StopMoves, StopTable
    <3>2. StepsToStop(pc'[w]) \in 0..8
      BY <1>1, <2>1, StopMoves, StopTable
    <3> QED BY <2>0, <3>1, <3>2
  <2>2. CASE ~ WorkerNext(w)
    <3>1. pc'[w] = pc[w] \/ pc'[w] = "off"
      <4>1. ASSUME NEW j \in Job, HandlerNext(j) PROVE pc' = pc
        BY <4>1 DEF HandlerNext, HandleDialog, CreateFromDialog, EnqueueSetRecord, AppendRead,
             AppendSet, EnqueueUndo, workerVars
      <4>2. ASSUME NEW v \in Worker \ {w}, WorkerNext(v) PROVE pc'[w] = pc[w]
        BY <4>2, <1>1 DEF TypeOK, WorkerNext, Exit, Continue, PopRead, PopNothing, PopSet,
             PopSetFails, LoadRecord, SkipJob, RunWithoutClient, RunSucceeds, RunFails,
             PostCreated, PostFailed, DropCreated, GiveUp, SaveRecord, PushRead, PushSet,
             To, Return
      <4>3. ASSUME NEW n \in Node, NodeNext(n) PROVE pc'[w] = pc[w] \/ pc'[w] = "off"
        BY <4>3, <1>1 DEF NodeNext, Start, UpdateConfig, ReplaceClient, Stop, StopReturns,
             ProcessEnds, Crash, NodeDown, workerVars
      <4> QED BY <4>1, <4>2, <4>3, <1>1, <2>2 DEF Next
    <3> QED BY <2>0, <2>2, <3>1, StopTable
  <2> QED BY <2>1, <2>2
<1>2. TypeOK /\ [Next]_vars =>
        [\A w \in Worker \ Orphan : queue[NodeOf[w]] = "stopping" =>
           /\ StepsToStop(pc'[w]) <= StepsToStop(pc[w])
           /\ WorkerNext(w) => StepsToStop(pc'[w]) < StepsToStop(pc[w])]_vars
  BY <1>1
<1> QED BY <1>2, TypeCorrect, PTL DEF Spec, StopGetsNearer

-----------------------------------------------------------------------------
(* A lone worker. *)

\* Without KV faults every call of the store takes effect, and a create call
\* fails only without one.
LEMMA StoreAnswers ==
  ASSUME LoneWorker
  PROVE  /\ \A ok \in KVWrites : ok
         /\ \A value, empty : KVGet(value, empty) = {value}
         /\ \A o \in CreateOutcomes : o.commits <=> o.ok
         /\ "crash" \notin Faults /\ "kv" \notin Faults
<1>1. "crash" \notin Faults /\ "kv" \notin Faults /\ "ambiguous" \notin Faults
  BY DEF LoneWorker
<1>2. \A ok \in KVWrites : ok
  BY <1>1, Zenon DEF KVWrites
<1>3. \A value, empty : KVGet(value, empty) = {value}
  BY <1>1 DEF KVGet
<1>4. \A o \in CreateOutcomes : o.commits <=> o.ok
  BY <1>1 DEF CreateOutcomes
<1> QED BY <1>1, <1>2, <1>3, <1>4

\* There is room to count one ticket, and none is lost.
LEMMA FirstTicket == Bump(0) = 1 /\ 0 \in 0..CountCap
<1>1. PICK m \in AttemptLimits : TRUE
  BY QueueAssumption
<1>2. m \in Nat \ {0} /\ m <= CountCap
  BY <1>1, QueueAssumption
<1> QED BY <1>2, QueueAssumption DEF Bump

\* Handlers: a job has no ticket when its record is written, and no worker
\* holds a copy of it.
LEMMA LoneHandlerStep ==
  ASSUME LoneWorker, LoneInv, NEW j \in Job, HandlerNext(j)
  PROVE  LoneInv'
<1> USE DEF nodeVars, handlerVars, workerVars, worldVars, kvVars, Goto
<1>0. IInv /\ TypeOK /\ IInv'
  BY HandlerStep DEF LoneInv, IInv
<1>r. /\ DOMAIN record = Job /\ DOMAIN hpc = Job /\ DOMAIN tickets = Job
      /\ \A i \in Job : tickets[i] \in 0..CountCap
      /\ \A w \in Worker : cur[w] \in Job
  BY <1>0, Ranges
<1>a. /\ CopyIsCurrent /\ TicketsAreSettled /\ PostsAreTrue
      /\ hpc[j] # "undo" /\ \A i \in Job : hpc[i] # "undo"
  BY DEF LoneInv
<1>b. hpc[j] \in {"idle", "create", "setRecord"} =>
        /\ record[j] = Absent /\ told[j] = {} /\ tickets[j] = 0
        /\ \A w \in Worker : pc[w] \in {"run", "post", "drop", "giveUp", "save", "failPost"}
                               => cur[w] # j
  BY <1>0, <1>a DEF IInv, NotYetQueued, WorkerKnows, TicketsAreSettled
<1>5. CASE HandleDialog(j)
  <2>1. /\ hpc[j] = "idle" /\ UNCHANGED <<record, tickets, told, pc, cur, rec>>
        /\ \A i \in Job \ {j} : hpc'[i] = hpc[i]
        /\ hpc'[j] \in {"create", "refused"}
    BY <1>5, <1>r DEF HandleDialog
  <2>2. CopyIsCurrent' /\ PostsAreTrue'
    BY <2>1, <1>a DEF CopyIsCurrent, PostsAreTrue
  <2>3. TicketsAreSettled'
    BY <2>1, <1>a, <1>b DEF TicketsAreSettled
  <2> QED BY <2>1, <2>2, <2>3, <1>0, <1>a DEF LoneInv
<1>1. CASE CreateFromDialog(j)
  <2>0. PICK o \in CreateOutcomes :
          /\ Commit(j, o)
          /\ hpc' = [hpc EXCEPT ![j] = IF o.ok THEN "answered"
                       ELSE IF queue[HostOf[j]] # "stopped" THEN "setRecord" ELSE "refused"]
    BY <1>1 DEF CreateFromDialog
  <2>1. /\ hpc[j] = "create" /\ UNCHANGED <<record, told, pc, cur, rec>>
        /\ \A i \in Job \ {j} : hpc'[i] = hpc[i]
        /\ hpc'[j] \in {"answered", "setRecord", "refused"}
    BY <1>1, <2>0, <1>r DEF CreateFromDialog
  <2>2. /\ \A i \in Job \ {j} : tickets'[i] = tickets[i]
        /\ tickets'[j] <= 1
        /\ hpc'[j] = "setRecord" => tickets'[j] = 0
    <3>1. CASE o.ok
      <4>1. tickets' = [tickets EXCEPT ![j] = Bump(tickets[j])] /\ hpc'[j] = "answered"
        BY <2>0, <3>1, <1>r, StoreAnswers DEF Commit
      <4> QED BY <4>1, <2>1, <1>b, <1>r, FirstTicket
    <3>2. CASE ~o.ok
      BY <2>0, <2>1, <3>2, <1>b, StoreAnswers DEF Commit
    <3> QED BY <3>1, <3>2
  <2>3. CopyIsCurrent'
    BY <2>1, <2>2, <1>a, <1>b, <1>r DEF CopyIsCurrent
  <2>4. TicketsAreSettled'
    BY <2>1, <2>2, <1>a, <1>b, <1>r DEF TicketsAreSettled
  <2>5. PostsAreTrue'
    BY <2>1, <2>2, <1>a, <1>b DEF PostsAreTrue
  <2> QED BY <2>1, <2>3, <2>4, <2>5, <1>0, <1>a DEF LoneInv
<1>2. CASE EnqueueSetRecord(j)
  <2>1. /\ hpc[j] = "setRecord" /\ UNCHANGED <<tickets, told, pc, cur, rec>>
        /\ \A i \in Job \ {j} : hpc'[i] = hpc[i] /\ record'[i] = record[i]
        /\ hpc'[j] = "readIndex"
    <3>1. PICK ok \in KVWrites :
            /\ record' = IF ok THEN [record EXCEPT ![j] = [attempts |-> 0, max |-> limit[j]]]
                         ELSE record
            /\ hpc' = [hpc EXCEPT ![j] = IF ok THEN "readIndex" ELSE "refused"]
      BY <1>2 DEF EnqueueSetRecord
    <3>2. ok
      BY StoreAnswers
    <3> QED BY <1>2, <1>r, <3>1, <3>2 DEF EnqueueSetRecord
  <2>2. CopyIsCurrent'
    BY <2>1, <1>a, <1>b, <1>r DEF CopyIsCurrent
  <2>3. TicketsAreSettled'
    BY <2>1, <1>a, <1>b, <1>r DEF TicketsAreSettled
  <2>4. PostsAreTrue'
    BY <2>1, <1>a, <1>b DEF PostsAreTrue
  <2> QED BY <2>1, <2>2, <2>3, <2>4, <1>0, <1>a DEF LoneInv
<1>3. CASE AppendRead(j) \/ AppendSet(j)
  <2>1. /\ UNCHANGED <<record, tickets, told, pc, cur, rec>>
        /\ \A i \in Job \ {j} : hpc'[i] = hpc[i]
        /\ hpc'[j] \in {"setIndex", "queued"}
    <3>1. CASE AppendRead(j)
      BY <3>1, <1>r DEF AppendRead
    <3>2. CASE AppendSet(j)
      <4>1. PICK ok \in KVWrites : hpc' = [hpc EXCEPT ![j] = IF ok THEN "queued" ELSE "undo"]
        BY <3>2 DEF AppendSet
      <4>2. ok
        BY StoreAnswers
      <4> QED BY <3>2, <4>1, <4>2, <1>r DEF AppendSet
    <3> QED BY <1>3, <3>1, <3>2
  <2>2. CopyIsCurrent'
    BY <2>1, <1>a DEF CopyIsCurrent
  <2>3. TicketsAreSettled'
    BY <2>1, <1>a DEF TicketsAreSettled
  <2>4. PostsAreTrue'
    BY <2>1, <1>a DEF PostsAreTrue
  <2> QED BY <2>1, <2>2, <2>3, <2>4, <1>0, <1>a DEF LoneInv
<1>4. CASE EnqueueUndo(j)
  BY <1>4, <1>a DEF EnqueueUndo
<1> QED BY <1>1, <1>2, <1>3, <1>4, <1>5 DEF HandlerNext

\* The worker: whatever it holds a current copy of has no ticket until it
\* creates one, and then the record goes.
LEMMA LoneWorkerStep ==
  ASSUME LoneWorker, LoneInv, NEW w \in Worker, WorkerNext(w)
  PROVE  LoneInv'
<1> USE DEF nodeVars, handlerVars, workerVars, worldVars, kvVars, At, To, Return
<1>0. IInv /\ TypeOK /\ IInv'
  BY WorkerStep DEF LoneInv, IInv
<1>r. /\ DOMAIN record = Job /\ DOMAIN tickets = Job /\ DOMAIN told = Job
      /\ DOMAIN pc = Worker /\ DOMAIN cur = Worker /\ DOMAIN rec = Worker
      /\ \A i \in Job : tickets[i] \in 0..CountCap
      /\ \A v \in Worker : cur[v] \in Job
  BY <1>0, Ranges
<1>a. /\ CopyIsCurrent /\ TicketsAreSettled /\ PostsAreTrue
      /\ \A i \in Job : hpc[i] # "undo"
  BY DEF LoneInv
<1>l. \A v \in Worker : v = w
  BY DEF LoneWorker
<1>n. pc[w] \in {"run", "post", "drop", "giveUp", "failPost", "save"} =>
        hpc[cur[w]] \notin {"idle", "create", "setRecord", "lost"}
  BY <1>0, <1>r DEF IInv, NotYetQueued, WorkerKnows
<1>u. UNCHANGED hpc
  BY DEF WorkerNext, Exit, Continue, PopRead, PopNothing, PopSet, PopSetFails, LoadRecord,
         SkipJob, RunWithoutClient, RunSucceeds, RunFails, PostCreated, PostFailed,
         DropCreated, GiveUp, SaveRecord, PushRead, PushSet
<1>q. ASSUME CopyIsCurrent', TicketsAreSettled', PostsAreTrue' PROVE LoneInv'
  BY <1>q, <1>0, <1>a, <1>u DEF LoneInv
\* Outside of its rounds, the worker has nothing to do with records and tickets.
<1>1. CASE \/ Exit(w) \/ Continue(w) \/ PopRead(w) \/ PopNothing(w)
           \/ PopSet(w) \/ PopSetFails(w) \/ SkipJob(w) \/ PushRead(w) \/ PushSet(w)
  <2>1. /\ UNCHANGED <<record, tickets, told>>
        /\ pc[w] \in {"poll", "pop", "popSet", "load", "sleep", "pushSet"}
        /\ pc'[w] \in {"off", "poll", "pop", "popSet", "load", "pushSet"}
    BY <1>1, <1>r DEF Exit, Continue, PopRead, PopNothing, PopSet, PopSetFails, SkipJob, PushRead, PushSet
  <2>2. CopyIsCurrent'
    BY <2>1, <1>l DEF CopyIsCurrent
  <2>3. TicketsAreSettled'
    BY <2>1, <1>l, <1>a, <1>u DEF TicketsAreSettled
  <2>4. PostsAreTrue'
    BY <2>1, <1>a DEF PostsAreTrue
  <2> QED BY <1>q, <2>2, <2>3, <2>4
<1>2. CASE LoadRecord(w)
  <2>1. /\ UNCHANGED <<record, tickets, told, cur>>
        /\ pc[w] = "load" /\ pc'[w] = "run"
        /\ record[cur[w]] # Absent /\ rec'[w] = record[cur[w]]
    BY <1>2, <1>r DEF LoadRecord
  <2>2. rec'[w].attempts \in Nat
    BY <2>1, <1>0, <1>r, Ranges, RecordRange, QueueAssumption
  <2>3. CopyIsCurrent'
    BY <2>1, <2>2, <1>l DEF CopyIsCurrent
  <2>4. TicketsAreSettled'
    BY <2>1, <1>l, <1>a, <1>u DEF TicketsAreSettled
  <2>5. PostsAreTrue'
    BY <2>1, <1>a DEF PostsAreTrue
  <2> QED BY <1>q, <2>3, <2>4, <2>5
<1>3. CASE RunSucceeds(w)
  <2>0. PICK o \in CreateOutcomes : o.ok /\ Commit(cur[w], o)
    BY <1>3 DEF RunSucceeds
  <2>1. /\ UNCHANGED <<record, told, cur, rec>>
        /\ pc[w] = "run" /\ pc'[w] = "post"
        /\ tickets' = [tickets EXCEPT ![cur[w]] = Bump(tickets[cur[w]])]
    BY <1>3, <2>0, <1>r, StoreAnswers DEF RunSucceeds, Commit
  <2>2. /\ record[cur[w]] # Absent /\ record[cur[w]].attempts <= rec[w].attempts
        /\ tickets[cur[w]] = 0
    BY <2>1, <1>a, <1>l, <1>r, QueueAssumption DEF CopyIsCurrent, TicketsAreSettled
  <2>3. /\ tickets'[cur[w]] = 1
        /\ \A i \in Job \ {cur[w]} : tickets'[i] = tickets[i]
    BY <2>1, <2>2, <1>r, FirstTicket
  <2>4. CopyIsCurrent'
    BY <2>1, <2>2, <1>l DEF CopyIsCurrent
  <2>5. TicketsAreSettled'
    BY <2>1, <2>3, <1>a, <1>l, <1>n, <1>r, <1>u DEF TicketsAreSettled
  <2>6. PostsAreTrue'
    BY <2>1, <2>2, <2>3, <1>a, <1>r DEF PostsAreTrue
  <2> QED BY <1>q, <2>4, <2>5, <2>6
<1>4. CASE RunWithoutClient(w) \/ RunFails(w)
  <2>0. CountAttempt(w) /\ pc[w] = "run" /\ rec[w] # Absent
    BY <1>4, <1>0 DEF RunWithoutClient, RunFails, IInv, WorkerKnows
  <2>1. /\ rec' = [rec EXCEPT ![w] = [attempts |-> Bump(rec[w].attempts),
                                      max |-> rec[w].max]]
    BY <2>0, <1>0, CountKeepsRange
  <2>2. /\ UNCHANGED <<record, told, cur, tickets>>
        /\ pc'[w] \in {"save", "giveUp"}
    <3>1. CASE RunWithoutClient(w) BY <3>1, <1>r DEF RunWithoutClient
    <3>2. CASE RunFails(w)
      <4>1. PICK o \in CreateOutcomes : ~o.ok /\ Commit(cur[w], o)
        BY <3>2 DEF RunFails
      <4> QED BY <3>2, <4>1, <1>r, StoreAnswers DEF RunFails, Commit
    <3> QED BY <1>4, <3>1, <3>2
  <2>3. record[cur[w]] # Absent /\ record[cur[w]].attempts <= rec[w].attempts
    BY <2>0, <1>a DEF CopyIsCurrent
  <2>4. record[cur[w]].attempts <= rec'[w].attempts
    <3>1. record[cur[w]].attempts \in Nat /\ rec[w].attempts \in 0..CountCap
      BY <2>0, <2>3, <1>0, <1>r, Ranges, RecordRange, QueueAssumption
    <3>2. rec'[w].attempts = Bump(rec[w].attempts)
      BY <2>1, <1>r
    <3>3. Bump(rec[w].attempts) \in Nat /\ rec[w].attempts <= Bump(rec[w].attempts)
      BY <3>1, BumpGrows, BumpType, QueueAssumption
    <3> QED BY <2>3, <3>1, <3>2, <3>3, QueueAssumption
  <2>5. CopyIsCurrent'
    BY <2>2, <2>3, <2>4, <1>l DEF CopyIsCurrent
  <2>6. TicketsAreSettled'
    BY <2>0, <2>2, <1>a, <1>l, <1>u DEF TicketsAreSettled
  <2>7. PostsAreTrue'
    BY <2>2, <1>a DEF PostsAreTrue
  <2> QED BY <1>q, <2>5, <2>6, <2>7
<1>5. CASE PostCreated(w)
  <2>1. /\ UNCHANGED <<record, tickets, cur, rec>>
        /\ pc[w] = "post" /\ pc'[w] = "drop"
        /\ told' \in {told, [told EXCEPT ![cur[w]] = @ \cup {"created"}]}
        /\ tickets[cur[w]] > 0
    BY <1>5, <1>0, <1>r DEF PostCreated, Post, IInv, WorkerKnows
  <2>2. CopyIsCurrent'
    BY <2>1, <1>a, <1>l DEF CopyIsCurrent
  <2>3. TicketsAreSettled'
    BY <2>1, <1>a, <1>l, <1>u DEF TicketsAreSettled
  <2>4. PostsAreTrue'
    BY <2>1, <1>a, <1>r DEF PostsAreTrue
  <2> QED BY <1>q, <2>2, <2>3, <2>4
<1>6. CASE PostFailed(w)
  <2>1. /\ UNCHANGED <<record, tickets, cur>>
        /\ pc[w] = "failPost" /\ pc'[w] = "poll"
        /\ told' \in {told, [told EXCEPT ![cur[w]] = @ \cup {"failed"}]}
        /\ record[cur[w]] = Absent /\ tickets[cur[w]] = 0
    BY <1>6, <1>a, <1>r DEF PostFailed, Post, CopyIsCurrent
  <2>2. CopyIsCurrent'
    BY <2>1, <1>l DEF CopyIsCurrent
  <2>3. TicketsAreSettled'
    BY <2>1, <1>a, <1>l, <1>u DEF TicketsAreSettled
  <2>4. PostsAreTrue'
    BY <2>1, <1>a, <1>r DEF PostsAreTrue
  <2> QED BY <1>q, <2>2, <2>3, <2>4
<1>7. CASE DropCreated(w) \/ GiveUp(w)
  <2>1. /\ UNCHANGED <<tickets, told, cur>>
        /\ record' = [record EXCEPT ![cur[w]] = Absent]
        /\ \/ pc[w] = "drop" /\ pc'[w] = "poll"
           \/ pc[w] = "giveUp" /\ pc'[w] = "failPost"
    <3>1. PICK ok \in KVWrites :
            record' = IF ok THEN [record EXCEPT ![cur[w]] = Absent] ELSE record
      BY <1>7 DEF DropCreated, GiveUp, DeleteRecord
    <3>2. ok
      BY StoreAnswers
    <3> QED BY <1>7, <1>r, <3>1, <3>2 DEF DropCreated, GiveUp
  <2>2. pc[w] = "giveUp" => tickets[cur[w]] = 0
    BY <1>a, <1>l, <1>r DEF CopyIsCurrent, TicketsAreSettled
  <2>3. CopyIsCurrent'
    BY <2>1, <2>2, <1>l, <1>r DEF CopyIsCurrent
  <2>4. TicketsAreSettled'
    BY <2>1, <2>2, <1>a, <1>l, <1>r, <1>u DEF TicketsAreSettled
  <2>5. PostsAreTrue'
    BY <2>1, <1>a, <1>r DEF PostsAreTrue
  <2> QED BY <1>q, <2>3, <2>4, <2>5
<1>8. CASE SaveRecord(w)
  <2>1. /\ UNCHANGED <<tickets, told, cur, rec>>
        /\ record' = [record EXCEPT ![cur[w]] = rec[w]]
        /\ pc[w] = "save" /\ pc'[w] = "sleep"
    BY <1>8, <1>r, StoreAnswers DEF SaveRecord
  <2>2. record[cur[w]] # Absent /\ rec[w] # Absent
    BY <2>1, <1>0, <1>a DEF CopyIsCurrent, IInv, WorkerKnows
  <2>3. CopyIsCurrent'
    BY <2>1, <1>l DEF CopyIsCurrent
  <2>4. TicketsAreSettled'
    BY <2>1, <2>2, <1>a, <1>l, <1>r, <1>u DEF TicketsAreSettled
  <2>5. PostsAreTrue'
    BY <2>1, <2>2, <1>a, <1>r DEF PostsAreTrue
  <2> QED BY <1>q, <2>3, <2>4, <2>5
<1> QED BY <1>1, <1>2, <1>3, <1>4, <1>5, <1>6, <1>7, <1>8 DEF WorkerNext

\* Node events: a queue is only given up when its worker has returned.
LEMMA LoneNodeStep ==
  ASSUME LoneWorker, LoneInv, NEW n \in Node, NodeNext(n)
  PROVE  /\ LoneInv'
         /\ UNCHANGED <<index, record, tickets, told, cur>>
         /\ \A w \in Worker : \/ UNCHANGED <<pc[w], snap[w], rec[w]>>
                              \/ /\ pc[w] = "off" /\ pc'[w] \in {"off", "poll"}
                                 /\ rec'[w] = Absent
<1> USE DEF nodeVars, handlerVars, workerVars, worldVars, kvVars
<1>0. IInv /\ IInv' /\ TypeOK
  BY NodeStep DEF LoneInv, IInv
<1>1. UNCHANGED <<index, record, tickets, told, cur>>
  BY DEF NodeNext, Start, UpdateConfig, ReplaceClient, Stop, StopReturns, ProcessEnds,
         Crash, NodeDown
<1>2. \A w \in Worker : \/ UNCHANGED <<pc[w], snap[w], rec[w]>>
                        \/ /\ pc[w] = "off" /\ pc'[w] \in {"off", "poll"}
                           /\ rec'[w] = Absent
  <2> SUFFICES ASSUME NEW w \in Worker
               PROVE  \/ UNCHANGED <<pc[w], snap[w], rec[w]>>
                      \/ /\ pc[w] = "off" /\ pc'[w] \in {"off", "poll"}
                         /\ rec'[w] = Absent
    OBVIOUS
  <2>1. CASE Start(n)
    BY <2>1, <1>0 DEF Start, IInv, NoQueueNoWorker, WorkerKnows
  <2>2. CASE ProcessEnds(n)
    <3>1. NodeOf[w] = n => pc[w] = "off"
      BY <2>2, <1>0 DEF ProcessEnds, LoneWorker, IInv, NoQueueNoWorker
    <3> QED BY <2>2, <3>1 DEF ProcessEnds, NodeDown
  <2>3. CASE UpdateConfig(n) \/ ReplaceClient(n) \/ Stop(n) \/ StopReturns(n)
    BY <2>3 DEF UpdateConfig, ReplaceClient, Stop, StopReturns
  <2> QED BY <2>1, <2>2, <2>3, StoreAnswers DEF NodeNext, Crash
<1>h. \A j \in Job : \/ hpc'[j] = hpc[j]
                     \/ hpc'[j] = "lost" /\ hpc[j] \in {"create", "setRecord"}
                     \/ hpc'[j] = "dead"
  BY <1>0, HandlersDie
<1>3. CopyIsCurrent'
  BY <1>1, <1>2 DEF LoneInv, CopyIsCurrent
<1>4. TicketsAreSettled'
  BY <1>1, <1>2, <1>h DEF LoneInv, TicketsAreSettled
<1>5. PostsAreTrue'
  BY <1>1 DEF LoneInv, PostsAreTrue
<1> QED BY <1>0, <1>1, <1>2, <1>3, <1>4, <1>5, <1>h DEF LoneInv

\* Every step keeps the invariant.
LEMMA LoneStep ==
  ASSUME LoneWorker, LoneInv, [Next]_vars
  PROVE  LoneInv'
<1>1. CASE Next
  BY <1>1, LoneHandlerStep, LoneWorkerStep, LoneNodeStep DEF Next
<1>2. CASE UNCHANGED vars
  <2>1. UNCHANGED <<index, record, queue, maxAttempts, client, hpc, hsnap, limit,
                    pc, snap, cur, rec, tickets, tries, told>>
    BY <1>2 DEF vars, kvVars, nodeVars, handlerVars, workerVars, worldVars
  <2> QED BY <2>1 DEF LoneInv, CopyIsCurrent, TicketsAreSettled, PostsAreTrue,
            IInv, TypeOK, NoQueueNoWorker, CopiesAreHonest, WorkerKnows,
            NotYetQueued, KeptUntilSettled, FailurePostIsEarned, Exhausted
<1> QED BY <1>1, <1>2

\* What a lone worker holds is current, and what is told is true.
THEOREM LoneWorkerInvariant ==
  ASSUME LoneWorker
  PROVE  Spec => []LoneInv
<1>1. Init => LoneInv
  <2> SUFFICES ASSUME Init PROVE LoneInv
    OBVIOUS
  <2>1. IInv
    BY InitInv
  <2> QED BY <2>1 DEF Init, InitRest, LoneInv, CopyIsCurrent, TicketsAreSettled, PostsAreTrue
<1>2. LoneInv /\ [Next]_vars => LoneInv'
  BY LoneStep
<1> QED BY <1>1, <1>2, PTL DEF Spec

\* A lone worker creates one ticket at most for a submission: a job that was
\* answered with a ticket is dropped before its id can come up again, and a
\* resurrected id finds no record (queue.go:202-218, 286-304).
THEOREM OneTicketAtMost ==
  ASSUME LoneWorker
  PROVE  Spec => []AtMostOneTicket
<1>1. LoneInv => AtMostOneTicket
  BY DEF LoneInv, TicketsAreSettled, AtMostOneTicket
<1> QED BY <1>1, LoneWorkerInvariant, PTL

\* A lone worker never tells a user both of a ticket and of a final failure.
THEOREM PostsDoNotContradict ==
  ASSUME LoneWorker
  PROVE  Spec => []NoContradictoryPosts
<1>1. LoneInv => NoContradictoryPosts
  BY DEF LoneInv, PostsAreTrue, NoContradictoryPosts
<1> QED BY <1>1, LoneWorkerInvariant, PTL

\* A record is only written where it is missing and its handler has just built
\* it, or where the worker's copy is current.
LEMMA RecordWrites ==
  ASSUME LoneWorker, LoneInv, Next, NEW i \in Job
  PROVE  \/ record'[i] = record[i]
         \/ record'[i] = Absent
         \/ hpc[i] = "setRecord" /\ record[i] = Absent /\ record'[i].attempts = 0
         \/ /\ record[i] # Absent
            /\ \E w \in Worker : rec[w] # Absent /\ record'[i] = rec[w]
                                 /\ record[i].attempts <= rec[w].attempts
<1> USE DEF nodeVars, handlerVars, workerVars, worldVars, kvVars, At, To, Return, Goto
<1>0. IInv /\ TypeOK /\ DOMAIN record = Job /\ CopyIsCurrent /\ (\A w \in Worker : cur[w] \in Job)
  BY Ranges DEF LoneInv, IInv
<1>1. ASSUME NEW j \in Job, EnqueueSetRecord(j)
      PROVE  \/ record'[i] = record[i]
             \/ hpc[i] = "setRecord" /\ record[i] = Absent /\ record'[i].attempts = 0
  <2>1. hpc[j] = "setRecord" /\ record[j] = Absent
    BY <1>0, <1>1 DEF EnqueueSetRecord, IInv, NotYetQueued
  <2>2. \/ record' = record
        \/ record' = [record EXCEPT ![j] = [attempts |-> 0, max |-> limit[j]]]
    BY <1>1 DEF EnqueueSetRecord
  <2>3. CASE record' = record
    BY <2>3
  <2>4. CASE record' = [record EXCEPT ![j] = [attempts |-> 0, max |-> limit[j]]] /\ i = j
    <3>1. record'[i] = [attempts |-> 0, max |-> limit[j]]
      BY <1>0, <2>4
    <3>2. record'[i].attempts = 0
      BY <3>1
    <3> QED BY <2>1, <2>4, <3>2
  <2>5. CASE record' = [record EXCEPT ![j] = [attempts |-> 0, max |-> limit[j]]] /\ i # j
    <3>1. record'[i] = record[i]
      BY <1>0, <2>5
    <3> QED BY <3>1
  <2> QED BY <2>2, <2>3, <2>4, <2>5
<1>2. ASSUME NEW w \in Worker, SaveRecord(w)
      PROVE  \/ record'[i] = record[i]
             \/ /\ record[i] # Absent
                /\ rec[w] # Absent /\ record'[i] = rec[w]
                /\ record[i].attempts <= rec[w].attempts
  <2>1. pc[w] = "save" /\ rec[w] # Absent
    BY <1>0, <1>2 DEF SaveRecord, IInv, WorkerKnows
  <2>2. record' = record \/ record' = [record EXCEPT ![cur[w]] = rec[w]]
    BY <1>2 DEF SaveRecord
  <2>3. record[cur[w]] # Absent /\ record[cur[w]].attempts <= rec[w].attempts
    BY <1>0, <2>1 DEF CopyIsCurrent
  <2> QED BY <1>0, <2>1, <2>2, <2>3
<1>3. ASSUME NEW j \in Job, DeleteRecord(j)
      PROVE  record'[i] = record[i] \/ record'[i] = Absent
  BY <1>0, <1>3 DEF DeleteRecord
<1>4. ASSUME NEW j \in Job, HandlerNext(j), ~ EnqueueSetRecord(j)
      PROVE  record'[i] = record[i] \/ record'[i] = Absent
  BY <1>3, <1>4 DEF HandlerNext, HandleDialog, CreateFromDialog, AppendRead, AppendSet,
       EnqueueUndo
<1>5. ASSUME NEW w \in Worker, WorkerNext(w), ~ SaveRecord(w)
      PROVE  record'[i] = record[i] \/ record'[i] = Absent
  <2>1. CASE DropCreated(w) \/ GiveUp(w)
    BY <1>0, <1>3, <2>1 DEF DropCreated, GiveUp
  <2>2. CASE ~ (DropCreated(w) \/ GiveUp(w))
    BY <1>5, <2>2 DEF WorkerNext, Exit, Continue, PopRead, PopNothing, PopSet, PopSetFails,
         LoadRecord, SkipJob, RunWithoutClient, RunSucceeds, RunFails, PostCreated, PostFailed,
         PushRead, PushSet
  <2> QED BY <2>1, <2>2
<1>6. ASSUME NEW n \in Node, NodeNext(n)
      PROVE  record'[i] = record[i]
  BY <1>6, LoneNodeStep
<1> QED BY <1>1, <1>2, <1>4, <1>5, <1>6 DEF Next

\* With a lone worker a record that has been removed stays removed, and the
\* attempts it counts never go back (queue.go:286-304, 306-330, 350-361).
THEOREM RecordsMoveForward ==
  ASSUME LoneWorker
  PROVE  Spec => RecordMovesForward
<1>1. LoneInv /\ [Next]_vars =>
        [\A j \in Job :
           /\ record[j] = Absent /\ hpc[j] \notin {"idle", "create", "setRecord"}
                => record'[j] = Absent
           /\ record'[j] # Absent
                => record'[j].attempts >= record[j].attempts]_vars
  <2> SUFFICES ASSUME LoneInv, Next, NEW j \in Job
               PROVE  /\ record[j] = Absent /\ hpc[j] \notin {"idle", "create", "setRecord"}
                           => record'[j] = Absent
                      /\ record'[j] # Absent
                           => record'[j].attempts >= record[j].attempts
    OBVIOUS
  <2>1. record[j].attempts \in Nat /\ Absent.attempts = 0
    BY Ranges, RecordRange, QueueAssumption DEF LoneInv, IInv, Absent
  <2>2. \A w \in Worker : rec[w] # Absent => rec[w].attempts \in Nat
    BY Ranges, RecordRange, QueueAssumption DEF LoneInv, IInv
  <2> QED BY <2>1, <2>2, RecordWrites
<1> QED BY <1>1, LoneWorkerInvariant, PTL DEF Spec, RecordMovesForward

-----------------------------------------------------------------------------
(* The ledger: a lone worker settles each submission once. *)

LEMMA LedgerStutters ==
  ASSUME \A i \in Job : StateOf(i)' = StateOf(i), UNCHANGED <<limit, tries, told>>
  PROVE  UNCHANGED Ledger!ledgerVars
  BY DEF Ledger!ledgerVars

\* One submission comes to stand differently.
LEMMA OneMoves ==
  ASSUME NEW j \in Job, NEW st, \A i \in Job \ {j} : StateOf(i)' = StateOf(i),
         StateOf(j)' = st
  PROVE  [i \in Job |-> StateOf(i)'] = [[i \in Job |-> StateOf(i)] EXCEPT ![j] = st]
  OBVIOUS

LEMMA LedgerInit == Init => Ledger!Init
<1> SUFFICES ASSUME Init PROVE Ledger!Init
  OBVIOUS
<1>1. \A j \in Job : StateOf(j) = "new"
  BY DEF Init, InitRest, StateOf
<1>2. [j \in Job |-> StateOf(j)] = [j \in Job |-> "new"]
  BY <1>1
<1>3. limit \in [Job -> AttemptLimits]
  BY QueueAssumption DEF Init
<1> QED BY <1>2, <1>3 DEF Init, InitRest, Ledger!Init

\* Handlers: the submission is open until it is answered or its job is stored;
\* the rest of the handler only brings the id of the job into the index.
LEMMA LedgerHandler ==
  ASSUME LoneWorker, LoneInv, RefusedAreGone, NEW j \in Job, HandlerNext(j)
  PROVE  /\ [Ledger!Next]_(Ledger!ledgerVars)
         /\ RefusedAreGone'
<1> USE DEF nodeVars, handlerVars, workerVars, worldVars, kvVars, Goto
<1>0. TypeOK /\ NotYetQueued /\ TicketsAreSettled
  BY DEF LoneInv, IInv
<1>r. /\ DOMAIN record = Job /\ DOMAIN hpc = Job /\ DOMAIN tickets = Job
      /\ DOMAIN limit = Job
      /\ \A i \in Job : tickets[i] \in 0..CountCap
  BY <1>0, Ranges
<1>5. CASE HandleDialog(j)
  <2>1. /\ hpc[j] = "idle" /\ UNCHANGED <<record, tickets, tries, told, limit, pc, cur, rec>>
        /\ \A i \in Job \ {j} : hpc'[i] = hpc[i]
        /\ hpc'[j] \in {"create", "refused"}
    BY <1>5, <1>r DEF HandleDialog
  <2>2. record[j] = Absent /\ tickets[j] = 0 /\ \A w \in Worker : rec[w] # Absent => cur[w] # j
    BY <2>1, <1>0 DEF NotYetQueued, TicketsAreSettled
  <2>3. \A i \in Job \ {j} : StateOf(i)' = StateOf(i)
    BY <2>1 DEF StateOf
  <2>4. PICK st \in {"open", "refused"} : StateOf(j)' = st
    BY <2>1, <2>2 DEF StateOf
  <2>5. StateOf(j) = "new"
    BY <2>1, <2>2 DEF StateOf
  <2>6. Ledger!Arrive(j)
    BY <2>1, <2>3, <2>4, <2>5, OneMoves DEF Ledger!Arrive
  <2>7. RefusedAreGone'
    BY <2>1, <2>2 DEF RefusedAreGone
  <2> QED BY <2>6, <2>7 DEF Ledger!Next
<1>1. CASE CreateFromDialog(j)
  <2>0. PICK o \in CreateOutcomes :
          /\ Commit(j, o)
          /\ hpc' = [hpc EXCEPT ![j] = IF o.ok THEN "answered"
                       ELSE IF queue[HostOf[j]] # "stopped" THEN "setRecord" ELSE "refused"]
    BY <1>1 DEF CreateFromDialog
  <2>1. /\ hpc[j] = "create" /\ UNCHANGED <<record, tries, told, pc, cur, rec>>
        /\ \A i \in Job \ {j} : hpc'[i] = hpc[i]
        /\ limit' = [limit EXCEPT ![j] = maxAttempts[HostOf[j]]]
    BY <1>1, <2>0, <1>r DEF CreateFromDialog
  <2>2. record[j] = Absent /\ tickets[j] = 0 /\ \A w \in Worker : rec[w] # Absent => cur[w] # j
    BY <2>1, <1>0 DEF NotYetQueued, TicketsAreSettled
  <2>3. maxAttempts[HostOf[j]] \in AttemptLimits
    BY <1>0, QueueAssumption DEF TypeOK
  <2>4. /\ \A i \in Job \ {j} : tickets'[i] = tickets[i]
        /\ \/ tickets'[j] = 1
           \/ tickets'[j] = 0 /\ hpc'[j] \in {"setRecord", "refused"}
    <3>1. CASE o.ok
      <4>1. tickets' = [tickets EXCEPT ![j] = Bump(tickets[j])]
        BY <2>0, <3>1, StoreAnswers DEF Commit
      <4> QED BY <4>1, <2>2, <1>r, FirstTicket
    <3>2. CASE ~o.ok
      BY <2>0, <2>2, <3>2, <1>r, StoreAnswers DEF Commit
    <3> QED BY <3>1, <3>2
  <2>5. \A i \in Job \ {j} : StateOf(i)' = StateOf(i)
    BY <2>1, <2>4 DEF StateOf
  <2>6. PICK st \in {"open", "created", "refused"} : StateOf(j)' = st
    BY <2>1, <2>4 DEF StateOf
  <2>7. StateOf(j) = "open"
    BY <2>1, <2>2 DEF StateOf
  <2>8. Ledger!Decide(j)
    BY <2>1, <2>3, <2>5, <2>6, <2>7, OneMoves DEF Ledger!Decide
  <2>9. RefusedAreGone'
    BY <2>1, <2>2 DEF RefusedAreGone
  <2> QED BY <2>8, <2>9 DEF Ledger!Next
<1>2. CASE EnqueueSetRecord(j)
  <2>1. /\ hpc[j] = "setRecord" /\ UNCHANGED <<tickets, tries, told, limit, pc, cur, rec>>
        /\ \A i \in Job \ {j} : hpc'[i] = hpc[i] /\ record'[i] = record[i]
        /\ hpc'[j] = "readIndex" /\ record'[j] = [attempts |-> 0, max |-> limit[j]]
    <3>1. PICK ok \in KVWrites :
            /\ record' = IF ok THEN [record EXCEPT ![j] = [attempts |-> 0, max |-> limit[j]]]
                         ELSE record
            /\ hpc' = [hpc EXCEPT ![j] = IF ok THEN "readIndex" ELSE "refused"]
      BY <1>2 DEF EnqueueSetRecord
    <3>2. ok
      BY StoreAnswers
    <3> QED BY <1>2, <1>r, <3>1, <3>2 DEF EnqueueSetRecord
  <2>2. record'[j] # Absent
    <3>1. limit[j] # 0
      BY <1>0, Ranges, QueueAssumption
    <3>2. Absent.max = 0 /\ record'[j].max = limit[j]
      BY <2>1 DEF Absent
    <3> QED BY <3>1, <3>2
  <2>3. \A i \in Job \ {j} : StateOf(i)' = StateOf(i)
    BY <2>1 DEF StateOf
  <2>4. tickets[j] = 0
    BY <2>1, <1>0 DEF TicketsAreSettled
  <2>5. StateOf(j) = "open" /\ StateOf(j)' = "pending"
    BY <2>1, <2>2, <2>4 DEF StateOf
  <2>6. limit[j] \in AttemptLimits /\ limit' = [limit EXCEPT ![j] = limit[j]]
    BY <2>1, <1>0, <1>r DEF TypeOK
  <2>7. Ledger!Decide(j)
    BY <2>1, <2>3, <2>5, <2>6, OneMoves DEF Ledger!Decide
  <2>8. RefusedAreGone'
    BY <2>1 DEF RefusedAreGone
  <2> QED BY <2>7, <2>8 DEF Ledger!Next
<1>3. CASE AppendRead(j) \/ AppendSet(j)
  <2>1. /\ UNCHANGED <<record, tickets, tries, told, limit, pc, cur, rec>>
        /\ \A i \in Job \ {j} : hpc'[i] = hpc[i]
        /\ hpc[j] \in {"readIndex", "setIndex"} /\ hpc'[j] \in {"setIndex", "queued", "undo"}
    BY <1>3, <1>r DEF AppendRead, AppendSet
  <2>2. \A i \in Job : StateOf(i)' = StateOf(i)
    BY <2>1 DEF StateOf
  <2>3. RefusedAreGone'
    BY <2>1 DEF RefusedAreGone
  <2> QED BY <2>1, <2>2, <2>3, LedgerStutters
<1>4. CASE EnqueueUndo(j)
  BY <1>4 DEF EnqueueUndo, LoneInv
<1> QED BY <1>1, <1>2, <1>3, <1>4, <1>5 DEF HandlerNext

\* The worker: a job it holds a copy of is pending until it has a ticket or no
\* record, and what it then posts is how the submission was settled.
LEMMA LedgerWorker ==
  ASSUME LoneWorker, LoneInv, RefusedAreGone, NEW w \in Worker, WorkerNext(w)
  PROVE  /\ [Ledger!Next]_(Ledger!ledgerVars)
         /\ RefusedAreGone'
<1> USE DEF nodeVars, handlerVars, workerVars, worldVars, kvVars, At, To, Return
<1>0. TypeOK /\ NotYetQueued /\ TicketsAreSettled /\ CopyIsCurrent /\ WorkerKnows
  BY DEF LoneInv, IInv
<1>r. /\ DOMAIN record = Job /\ DOMAIN tickets = Job /\ DOMAIN told = Job
      /\ DOMAIN tries = Job /\ DOMAIN pc = Worker /\ DOMAIN rec = Worker
      /\ \A i \in Job : tickets[i] \in Nat /\ tickets[i] <= 1
      /\ \A v \in Worker : cur[v] \in Job
  BY <1>0, Ranges, QueueAssumption DEF TicketsAreSettled
<1>l. \A v \in Worker : v = w
  BY DEF LoneWorker
<1>u. UNCHANGED <<hpc, limit>>
  BY DEF WorkerNext, Exit, Continue, PopRead, PopNothing, PopSet, PopSetFails, LoadRecord,
         SkipJob, RunWithoutClient, RunSucceeds, RunFails, PostCreated, PostFailed,
         DropCreated, GiveUp, SaveRecord, PushRead, PushSet
<1>c. PICK c \in Job : c = cur[w]
  BY <1>r
<1> USE <1>c
\* The job of a copy is neither in hand nor refused nor lost.
<1>n. rec[w] # Absent => hpc[c] \notin {"idle", "create", "setRecord", "refused", "lost"}
  BY <1>0, <1>r DEF NotYetQueued, RefusedAreGone
<1>p. pc[w] \in {"run", "giveUp"} =>
        /\ rec[w] # Absent /\ record[c] # Absent /\ tickets[c] = 0
        /\ StateOf(c) = "pending"
  <2> SUFFICES ASSUME pc[w] \in {"run", "giveUp"}
               PROVE  /\ rec[w] # Absent /\ record[c] # Absent /\ tickets[c] = 0
                      /\ StateOf(c) = "pending"
    OBVIOUS
  <2>1. rec[w] # Absent /\ record[c] # Absent
    BY <1>0 DEF WorkerKnows, CopyIsCurrent
  <2>2. tickets[c] = 0
    BY <2>1, <1>0, <1>l, <1>r DEF TicketsAreSettled
  <2> QED BY <2>1, <2>2, <1>n DEF StateOf
\* What refuses a submission keeps it from the worker.
<1>g. ASSUME \A i \in Job : record[i] = Absent => record'[i] = Absent,
             rec'[w] # Absent => (rec[w] # Absent /\ cur'[w] = c) \/ record[cur'[w]] # Absent
      PROVE  RefusedAreGone'
  BY <1>g, <1>l, <1>u DEF RefusedAreGone
<1>1. CASE \/ Exit(w) \/ Continue(w) \/ PopRead(w) \/ PopNothing(w) \/ LoadRecord(w)
           \/ PopSet(w) \/ PopSetFails(w) \/ SkipJob(w) \/ PushRead(w) \/ PushSet(w)
  <2>1. UNCHANGED <<record, tickets, tries, told>>
    BY <1>1 DEF Exit, Continue, PopRead, PopNothing, PopSet, PopSetFails, SkipJob,
                LoadRecord, PushRead, PushSet
  <2>2. \A i \in Job : StateOf(i)' = StateOf(i)
    BY <2>1, <1>u DEF StateOf
  <2>3. rec'[w] # Absent => (rec[w] # Absent /\ cur'[w] = c) \/ record[cur'[w]] # Absent
    <3>1. CASE PopSet(w)
      BY <3>1, <1>0 DEF PopSet, WorkerKnows
    <3>2. CASE LoadRecord(w)
      BY <3>2, <1>r DEF LoadRecord
    <3>3. CASE ~ PopSet(w) /\ ~ LoadRecord(w)
      BY <3>3, <1>1, <1>r DEF Exit, Continue, PopRead, PopNothing, PopSetFails, SkipJob,
                              PushRead, PushSet
    <3> QED BY <3>1, <3>2, <3>3
  <2>4. RefusedAreGone'
    BY <2>1, <2>3, <1>g
  <2> QED BY <2>1, <2>2, <2>4, <1>u, LedgerStutters
<1>2. CASE RunSucceeds(w)
  <2>0. PICK o \in CreateOutcomes : o.ok /\ Commit(c, o)
    BY <1>2 DEF RunSucceeds
  <2>1. /\ UNCHANGED <<record, tries, told, cur, rec>> /\ pc[w] = "run"
        /\ tickets' = [tickets EXCEPT ![c] = Bump(tickets[c])]
    BY <1>2, <2>0, StoreAnswers DEF RunSucceeds, Commit
  <2>2. tickets'[c] = 1 /\ \A i \in Job \ {c} : tickets'[i] = tickets[i]
    BY <2>1, <1>p, <1>r, FirstTicket
  <2>3. /\ \A i \in Job \ {c} : StateOf(i)' = StateOf(i)
        /\ StateOf(c)' = "created"
    <3>1. \A i \in Job \ {c} : StateOf(i)' = StateOf(i)
      BY <2>1, <2>2, <1>u DEF StateOf
    <3>2. StateOf(c)' = "created"
      BY <2>2 DEF StateOf
    <3> QED BY <3>1, <3>2
  <2>4. Ledger!Settle(c)
    BY <2>1, <2>3, <1>p, <1>r, <1>u, OneMoves DEF Ledger!Settle
  <2>5. RefusedAreGone'
    BY <2>1, <1>g
  <2> QED BY <2>4, <2>5, <1>r DEF Ledger!Next
<1>3. CASE RunWithoutClient(w) \/ RunFails(w)
  <2>1. /\ UNCHANGED <<record, told, cur>> /\ pc[w] = "run"
        /\ tries' = [tries EXCEPT ![c] = Bump(tries[c])]
    BY <1>3 DEF RunWithoutClient, RunFails, CountAttempt
  <2>2. UNCHANGED tickets
    <3>1. CASE RunFails(w)
      BY <3>1, StoreAnswers DEF RunFails, Commit
    <3> QED BY <3>1, <1>3 DEF RunWithoutClient
  <2>3. \A i \in Job : StateOf(i)' = StateOf(i)
    BY <2>1, <2>2, <1>u DEF StateOf
  <2>4. [i \in Job |-> StateOf(i)'] = [i \in Job |-> StateOf(i)]
    BY <2>3
  <2>5. Bump(tries[c]) = tries[c] + 1 \/ tries' = tries
    <3>1. CASE Bump(tries[c]) = tries[c]
      BY <2>1, <3>1, <1>0 DEF TypeOK
    <3>2. CASE Bump(tries[c]) # tries[c]
      BY <3>2 DEF Bump
    <3> QED BY <3>1, <3>2
  <2>6. Ledger!Retry(c) \/ UNCHANGED Ledger!ledgerVars
    BY <2>1, <2>3, <2>4, <2>5, <1>p, <1>r, <1>u, LedgerStutters DEF Ledger!Retry
  <2>7. RefusedAreGone'
    BY <2>1, <1>g, <1>p
  <2> QED BY <2>6, <2>7, <1>r DEF Ledger!Next
<1>4. CASE PostCreated(w) \/ PostFailed(w)
  <2>1. PICK what \in {"created", "failed"} :
          /\ told' = told \/ told' = [told EXCEPT ![c] = told[c] \cup {what}]
          /\ what = "created" => pc[w] = "post"
          /\ what = "failed" => pc[w] = "failPost"
    BY <1>4 DEF PostCreated, PostFailed, Post
  <2>2. UNCHANGED <<record, tickets, tries, cur>>
    BY <1>4 DEF PostCreated, PostFailed
  <2>3. StateOf(c) = what
    <3>1. CASE pc[w] = "post"
      <4>1. tickets[c] = 1
        BY <3>1, <1>0, <1>r DEF WorkerKnows
      <4> QED BY <4>1, <3>1, <2>1 DEF StateOf
    <3>2. CASE pc[w] = "failPost"
      <4>1. rec[w] # Absent /\ record[c] = Absent /\ tickets[c] = 0
        BY <3>2, <1>0 DEF WorkerKnows, CopyIsCurrent
      <4> QED BY <4>1, <3>2, <2>1, <1>n DEF StateOf
    <3> QED BY <2>1, <3>1, <3>2
  <2>4. \A i \in Job : StateOf(i)' = StateOf(i)
    BY <2>2, <1>u DEF StateOf
  <2>5. [i \in Job |-> StateOf(i)'] = [i \in Job |-> StateOf(i)]
    BY <2>4
  <2>6. rec'[w] # Absent => rec[w] # Absent
    BY <1>4, <1>r DEF PostCreated, PostFailed
  <2>7. RefusedAreGone'
    BY <2>2, <2>6, <1>g
  <2>8. CASE told' = told
    BY <2>2, <2>4, <2>7, <2>8, <1>u, LedgerStutters
  <2>9. CASE told' = [told EXCEPT ![c] = told[c] \cup {what}]
    <3>1. Ledger!Tell(c)
      BY <2>2, <2>3, <2>5, <2>9, <1>u, <1>r DEF Ledger!Tell
    <3> QED BY <3>1, <2>7, <1>r DEF Ledger!Next
  <2> QED BY <2>1, <2>8, <2>9
<1>5. CASE DropCreated(w) \/ GiveUp(w)
  <2>1. PICK ok \in KVWrites :
          record' = IF ok THEN [record EXCEPT ![c] = Absent] ELSE record
    BY <1>5 DEF DropCreated, GiveUp, DeleteRecord
  <2>2. /\ UNCHANGED <<tickets, tries, told, cur>>
        /\ record' = [record EXCEPT ![c] = Absent]
        /\ pc[w] \in {"drop", "giveUp"}
    BY <1>5, <2>1, StoreAnswers DEF DropCreated, GiveUp
  <2>3. \A i \in Job \ {c} : StateOf(i)' = StateOf(i)
    BY <2>2, <1>r, <1>u DEF StateOf
  <2>4. rec'[w] # Absent => rec[w] # Absent
    BY <1>5, <1>r DEF DropCreated, GiveUp
  <2>5. RefusedAreGone'
    BY <2>2, <2>4, <1>g, <1>r
  <2>6. CASE pc[w] = "drop"
    <3>1. tickets[c] = 1
      BY <2>6, <1>0, <1>r DEF WorkerKnows
    <3>2. StateOf(c)' = StateOf(c)
      BY <3>1, <2>2 DEF StateOf
    <3> QED BY <3>2, <2>2, <2>3, <2>5, <1>u, LedgerStutters
  <2>7. CASE pc[w] = "giveUp"
    <3>1. StateOf(c)' = "failed"
      BY <2>2, <2>7, <1>n, <1>p, <1>r, <1>u DEF StateOf
    <3>2. tries[c] >= limit[c]
      BY <2>7, <1>0 DEF WorkerKnows, Exhausted
    <3>3. Ledger!Settle(c)
      BY <3>1, <3>2, <2>2, <2>3, <2>7, <1>p, <1>r, <1>u, OneMoves DEF Ledger!Settle
    <3> QED BY <3>3, <2>5, <1>r DEF Ledger!Next
  <2> QED BY <2>2, <2>6, <2>7
<1>6. CASE SaveRecord(w)
  <2>1. /\ UNCHANGED <<tickets, tries, told, cur, rec>>
        /\ record' = [record EXCEPT ![c] = rec[w]] /\ pc[w] = "save"
    BY <1>6, StoreAnswers DEF SaveRecord
  <2>2. record[c] # Absent /\ rec[w] # Absent
    BY <2>1, <1>0 DEF CopyIsCurrent, WorkerKnows
  <2>3. \A i \in Job : record[i] = Absent <=> record'[i] = Absent
    BY <2>1, <2>2, <1>r
  <2>4. \A i \in Job : StateOf(i)' = StateOf(i)
    BY <2>1, <2>3, <1>u DEF StateOf
  <2>5. RefusedAreGone'
    BY <2>1, <2>3, <1>g
  <2> QED BY <2>1, <2>4, <2>5, <1>u, LedgerStutters
<1> QED BY <1>1, <1>2, <1>3, <1>4, <1>5, <1>6 DEF WorkerNext

\* Every step of the queue is one of the ledger, or none.
LEMMA LedgerStep ==
  ASSUME LoneWorker, LoneInv, RefusedAreGone, [Next]_vars
  PROVE  /\ [Ledger!Next]_(Ledger!ledgerVars)
         /\ RefusedAreGone'
<1>1. ASSUME NEW n \in Node, NodeNext(n)
      PROVE  /\ [Ledger!Next]_(Ledger!ledgerVars)
             /\ RefusedAreGone'
  <2>1. /\ UNCHANGED <<record, tickets, cur, told>>
        /\ \A w \in Worker : rec'[w] = rec[w] \/ rec'[w] = Absent
    BY <1>1, LoneNodeStep
  <2>2. UNCHANGED <<limit, tries>>
    BY <1>1 DEF NodeNext, Start, UpdateConfig, ReplaceClient, Stop,
         StopReturns, ProcessEnds, Crash, NodeDown, handlerVars, worldVars
  <2>3. TypeOK /\ TicketsAreSettled /\ NotYetQueued
    BY DEF LoneInv, IInv
  <2>4. \A i \in Job : \/ hpc'[i] = hpc[i]
                       \/ hpc'[i] = "lost" /\ hpc[i] \in {"create", "setRecord"}
                       \/ hpc'[i] = "dead" /\ hpc[i] \in {"readIndex", "setIndex", "undo"}
    BY <1>1, <2>3, HandlersDie
  <2> DEFINE gone == {i \in Job : hpc[i] \in {"create", "setRecord"} /\ hpc'[i] = "lost"}
  <2>5. \A i \in Job \ gone : StateOf(i)' = StateOf(i)
    BY <2>1, <2>4 DEF StateOf
  <2>6. \A i \in gone : StateOf(i) = "open" /\ StateOf(i)' = "lost"
    BY <2>1, <2>3 DEF StateOf, TicketsAreSettled
  <2>7. [i \in Job |-> StateOf(i)']
           = [i \in Job |-> IF i \in gone THEN "lost" ELSE StateOf(i)]
    BY <2>5, <2>6
  <2>8. gone \in SUBSET {i \in Job : StateOf(i) = "open"}
    BY <2>6
  <2> HIDE DEF gone
  <2>9. Ledger!LoseSome
    BY <2>1, <2>2, <2>7, <2>8 DEF Ledger!LoseSome
  <2>10. RefusedAreGone'
    BY <2>1, <2>4 DEF RefusedAreGone
  <2> QED BY <2>9, <2>10 DEF Ledger!Next
<1>2. CASE UNCHANGED vars
  <2>1. UNCHANGED <<record, hpc, tickets, cur, rec, told, limit, tries>>
    BY <1>2 DEF vars, kvVars, handlerVars, workerVars, worldVars
  <2>2. \A i \in Job : StateOf(i)' = StateOf(i)
    BY <2>1 DEF StateOf
  <2>3. RefusedAreGone'
    BY <2>1 DEF RefusedAreGone
  <2> QED BY <2>1, <2>2, <2>3, LedgerStutters
<1> QED BY <1>1, <1>2, LedgerHandler, LedgerWorker DEF Next

\* With a lone worker the queue implements the ledger: a submission is settled
\* once and for all, it fails only when its rounds are spent, and its submitter
\* is told how it was settled and nothing else (queue.go:202-361,
\* routes.go:225-288).
THEOREM QueueImplementsLedger ==
  ASSUME LoneWorker
  PROVE  Spec => KeepsLedger
<1>1. Init => RefusedAreGone
  BY DEF Init, RefusedAreGone
<1>2. LoneInv /\ RefusedAreGone /\ [Next]_vars =>
        [Ledger!Next]_(Ledger!ledgerVars) /\ RefusedAreGone'
  BY LedgerStep
<1>3. Init => Ledger!Init
  BY LedgerInit
<1> QED BY <1>1, <1>2, <1>3, LoneWorkerInvariant, PTL DEF Spec, KeepsLedger, Ledger!Spec

-----------------------------------------------------------------------------
(* A backlog. *)

\* Where the ids of a list come from when one is put in front or taken off.
LEMMA Pushed ==
  ASSUME NEW s \in Seq(Job), NEW j \in Job
  PROVE  /\ (<<j>> \o s)[1] = j /\ 1 \in DOMAIN (<<j>> \o s)
         /\ \A i \in DOMAIN s : i + 1 \in DOMAIN (<<j>> \o s) /\ (<<j>> \o s)[i + 1] = s[i]
  OBVIOUS

LEMMA Popped ==
  ASSUME NEW s \in Seq(Job), s # <<>>
  PROVE  \A i \in DOMAIN s :
           s[i] = Head(s) \/ (i - 1 \in DOMAIN Tail(s) /\ Tail(s)[i - 1] = s[i])
  OBVIOUS

\* The activation over a backlog satisfies the invariant.
LEMMA BacklogInit ==
  ASSUME IsFiniteSet(Job)
  PROVE  InitBacklog => BacklogInv
<1> SUFFICES ASSUME InitBacklog PROVE BacklogInv
  OBVIOUS
<1>1. PICK order \in [1..Cardinality(Job) -> Job] :
        (\A j \in Job : \E i \in DOMAIN order : order[i] = j) /\ index = order
  BY DEF InitBacklog
<1>2. Cardinality(Job) \in Nat
  BY FS_CardinalityType
<1>3. index \in Seq(Job)
  BY <1>1, <1>2
<1>4. /\ (CHOOSE j \in Job : TRUE) \in Job
      /\ \A j \in Job : limit[j] \in AttemptLimits /\ record[j] = [attempts |-> 0, max |-> limit[j]]
  BY QueueAssumption DEF InitBacklog
<1>5. TypeOK
  <2>1. record \in [Job -> Record]
    BY <1>4, QueueAssumption DEF InitBacklog, Record
  <2> QED BY <1>3, <1>4, <2>1, Places, QueueAssumption DEF InitBacklog, InitRest, TypeOK
<1>6. \A j \in Job : record[j] # Absent
  <2> SUFFICES ASSUME NEW j \in Job PROVE record[j] # Absent
    OBVIOUS
  <2>1. record[j] = [attempts |-> 0, max |-> limit[j]] /\ limit[j] \in AttemptLimits
    BY <1>4
  <2>2. limit[j] # 0
    BY <2>1, QueueAssumption
  <2> QED BY <2>1, <2>2 DEF Absent
<1>7. IInv
  BY <1>4, <1>5, <1>6, QueueAssumption DEF InitBacklog, InitRest, IInv, NoQueueNoWorker,
     CopiesAreHonest, WorkerKnows, NotYetQueued, KeptUntilSettled, FailurePostIsEarned
<1>8. LoneInv
  BY <1>7 DEF InitBacklog, InitRest, LoneInv, CopyIsCurrent, TicketsAreSettled, PostsAreTrue
<1>9. QueuedJobIsRetained
  BY <1>1 DEF QueuedJobIsRetained
<1> QED BY <1>8, <1>9 DEF InitBacklog, InitRest, BacklogInv, IndexIsRead

\* The worker lets go of a job only when its id is back in the index or its
\* record is gone.
LEMMA BacklogWorkerStep ==
  ASSUME LoneWorker, BacklogInv, NEW w \in Worker, WorkerNext(w)
  PROVE  IndexIsRead' /\ QueuedJobIsRetained'
<1> USE DEF nodeVars, handlerVars, workerVars, worldVars, kvVars, At, To, Return
<1>0. IInv /\ TypeOK /\ CopyIsCurrent /\ QueuedJobIsRetained /\ IndexIsRead
  BY DEF BacklogInv, LoneInv, IInv
<1>r. /\ DOMAIN record = Job /\ DOMAIN pc = Worker /\ DOMAIN cur = Worker
      /\ DOMAIN snap = Worker /\ cur[w] \in Job /\ snap[w] \in Seq(Job) /\ index \in Seq(Job)
  BY <1>0, Ranges DEF TypeOK
<1>l. \A v \in Worker : v = w
  BY DEF LoneWorker
<1>h. \A j \in Job : record[j] # Absent =>
        \/ \E i \in DOMAIN index : index[i] = j
        \/ cur[w] = j /\ pc[w] \notin {"off", "poll", "pop", "popSet"}
  BY <1>0, <1>l DEF BacklogInv, QueuedJobIsRetained, Accepted, Holds
<1>q. ASSUME pc'[w] \in {"popSet", "pushSet"} => snap'[w] = index',
             \A j \in Job : record'[j] # Absent =>
               \/ \E i \in DOMAIN index' : index'[i] = j
               \/ cur'[w] = j /\ pc'[w] \notin {"off", "poll", "pop", "popSet"}
      PROVE  IndexIsRead' /\ QueuedJobIsRetained'
  BY <1>q, <1>l DEF IndexIsRead, QueuedJobIsRetained, Accepted, Holds
<1>1. CASE Exit(w) \/ Continue(w) \/ PopNothing(w)
  <2>1. /\ UNCHANGED <<index, record, cur>>
        /\ pc[w] \in {"poll", "pop"} /\ pc'[w] \in {"off", "poll", "pop"}
    BY <1>1, <1>r DEF Exit, Continue, PopNothing
  <2> QED BY <2>1, <1>h, <1>q
<1>2. CASE PopRead(w) \/ PushRead(w)
  <2>1. /\ UNCHANGED <<index, record, cur>> /\ snap'[w] = index
        /\ \/ pc[w] = "pop" /\ pc'[w] = "popSet"
           \/ pc[w] = "sleep" /\ pc'[w] = "pushSet"
    BY <1>2, <1>r, StoreAnswers DEF PopRead, PushRead
  <2> QED BY <2>1, <1>h, <1>q
<1>3. CASE PopSet(w)
  <2>1. /\ index' = Tail(index) /\ cur'[w] = Head(index) /\ index # <<>>
        /\ record' = record /\ pc[w] = "popSet" /\ pc'[w] = "load"
    BY <1>3, <1>r, <1>0 DEF PopSet, IndexIsRead, IInv, WorkerKnows
  <2>2. \A j \in Job : record'[j] # Absent =>
          (\E i \in DOMAIN index' : index'[i] = j) \/ cur'[w] = j
    <3> SUFFICES ASSUME NEW j \in Job, record'[j] # Absent, cur'[w] # j
                 PROVE  \E i \in DOMAIN index' : index'[i] = j
      OBVIOUS
    <3>1. PICK i \in DOMAIN index : index[i] = j
      BY <2>1, <1>h
    <3>2. i - 1 \in DOMAIN Tail(index) /\ Tail(index)[i - 1] = index[i]
      BY <2>1, <3>1, <1>r, Popped
    <3> QED BY <2>1, <3>1, <3>2
  <2> QED BY <2>1, <2>2, <1>q
<1>4. CASE PopSetFails(w)
  BY <1>4, StoreAnswers DEF PopSetFails
<1>5. CASE SkipJob(w)
  <2>1. record[cur[w]] = Absent /\ UNCHANGED <<index, record, cur>> /\ pc'[w] = "poll"
    BY <1>5, <1>r, StoreAnswers DEF SkipJob
  <2> QED BY <2>1, <1>h, <1>q
<1>6. CASE \/ LoadRecord(w) \/ RunWithoutClient(w) \/ RunSucceeds(w) \/ RunFails(w)
           \/ PostCreated(w)
  <2>1. /\ UNCHANGED <<index, record, cur>>
        /\ pc'[w] \in {"run", "save", "post", "giveUp", "drop"}
        /\ pc[w] \in {"load", "run", "post"}
    BY <1>6, <1>r DEF LoadRecord, RunWithoutClient, RunSucceeds, RunFails, PostCreated
  <2> QED BY <2>1, <1>h, <1>q
<1>7. CASE DropCreated(w) \/ GiveUp(w)
  <2>1. UNCHANGED <<index, cur>> /\ pc'[w] \in {"poll", "failPost"}
    BY <1>7, <1>r DEF DropCreated, GiveUp
  <2>2. record' = [record EXCEPT ![cur[w]] = Absent]
    <3>1. PICK ok \in KVWrites :
            record' = IF ok THEN [record EXCEPT ![cur[w]] = Absent] ELSE record
      BY <1>7 DEF DropCreated, GiveUp, DeleteRecord
    <3>2. ok
      BY StoreAnswers
    <3> QED BY <3>1, <3>2
  <2> QED BY <2>1, <2>2, <1>r, <1>h, <1>q
<1>8. CASE PostFailed(w)
  <2>1. record[cur[w]] = Absent /\ UNCHANGED <<index, record, cur>> /\ pc'[w] = "poll"
    BY <1>8, <1>0, <1>r DEF PostFailed, CopyIsCurrent
  <2> QED BY <2>1, <1>h, <1>q
<1>9. CASE SaveRecord(w)
  <2>1. /\ UNCHANGED <<index, cur>> /\ pc[w] = "save" /\ pc'[w] = "sleep"
        /\ \A j \in Job : j # cur[w] => record'[j] = record[j]
    BY <1>9, <1>r DEF SaveRecord
  <2> QED BY <2>1, <1>h, <1>q
<1>10. CASE PushSet(w)
  <2>1. PICK ok \in KVWrites : index' = IF ok THEN <<cur[w]>> \o snap[w] ELSE index
    BY <1>10 DEF PushSet
  <2>2. ok
    BY StoreAnswers
  <2>3. /\ index' = <<cur[w]>> \o index /\ UNCHANGED <<record, cur>>
        /\ pc'[w] = "poll"
    BY <1>10, <1>0, <1>r, <2>1, <2>2 DEF PushSet, IndexIsRead
  <2>4. \A j \in Job : record'[j] # Absent => \E i \in DOMAIN index' : index'[i] = j
    <3> SUFFICES ASSUME NEW j \in Job, record'[j] # Absent
                 PROVE  \E i \in DOMAIN index' : index'[i] = j
      OBVIOUS
    <3>1. CASE cur[w] = j
      BY <2>3, <3>1, <1>r, Pushed
    <3>2. CASE cur[w] # j
      <4>1. PICK i \in DOMAIN index : index[i] = j
        BY <2>3, <3>2, <1>h
      <4>2. i + 1 \in DOMAIN index' /\ index'[i + 1] = index[i]
        BY <2>3, <4>1, <1>r, Pushed
      <4> QED BY <4>1, <4>2
    <3> QED BY <3>1, <3>2
  <2> QED BY <2>3, <2>4, <1>q
<1> QED BY <1>1, <1>2, <1>3, <1>4, <1>5, <1>6, <1>7, <1>8, <1>9, <1>10 DEF WorkerNext

\* Every step over a backlog keeps the invariant.
LEMMA BacklogStep ==
  ASSUME LoneWorker, BacklogInv, [Next]_vars
  PROVE  BacklogInv'
<1> USE DEF nodeVars, handlerVars, workerVars, worldVars, kvVars
<1>0. LoneInv /\ LoneInv' /\ IndexIsRead /\ QueuedJobIsRetained /\ (\A j \in Job : hpc[j] = "queued")
  BY LoneStep DEF BacklogInv
<1>1. ASSUME NEW j \in Job, HandlerNext(j) PROVE FALSE
  BY <1>0, <1>1 DEF HandlerNext, HandleDialog, CreateFromDialog, EnqueueSetRecord, AppendRead,
       AppendSet, EnqueueUndo
<1>2. ASSUME NEW w \in Worker, WorkerNext(w) PROVE BacklogInv'
  <2>1. UNCHANGED hpc
    BY <1>2 DEF WorkerNext, Exit, Continue, PopRead, PopNothing, PopSet, PopSetFails, LoadRecord,
         SkipJob, RunWithoutClient, RunSucceeds, RunFails, PostCreated, PostFailed,
         DropCreated, GiveUp, SaveRecord, PushRead, PushSet
  <2> QED BY <1>0, <1>2, <2>1, BacklogWorkerStep DEF BacklogInv
<1>3. ASSUME NEW n \in Node, NodeNext(n) PROVE BacklogInv'
  <2>1. /\ UNCHANGED <<index, record, cur>>
        /\ \A w \in Worker : \/ UNCHANGED <<pc[w], snap[w]>>
                             \/ pc[w] = "off" /\ pc'[w] \in {"off", "poll"}
    BY <1>0, <1>3, LoneNodeStep
  <2>4. \A j \in Job : hpc'[j] = "queued"
    BY <1>0, <1>3, HandlersDie DEF LoneInv, IInv
  <2>2. IndexIsRead'
    BY <1>0, <2>1 DEF IndexIsRead
  <2>3. QueuedJobIsRetained'
    BY <1>0, <2>1 DEF QueuedJobIsRetained, Accepted, Holds
  <2> QED BY <1>0, <2>2, <2>3, <2>4 DEF BacklogInv
<1>4. CASE UNCHANGED vars
  <2>1. UNCHANGED <<index, record, hpc, pc, snap, cur>>
    BY <1>4 DEF vars
  <2> QED BY <1>0, <2>1 DEF BacklogInv, IndexIsRead, QueuedJobIsRetained, Accepted, Holds
<1> QED BY <1>1, <1>2, <1>3, <1>4 DEF Next

\* A lone worker that drains a backlog loses no id: a queued job whose record
\* is there is in the index or in its hands, through stops, restarts of the
\* queue, configuration changes and a missing client (queue.go:166-218, 350-402).
THEOREM BacklogIsRetained ==
  ASSUME LoneWorker, IsFiniteSet(Job)
  PROVE  BacklogSpec => []QueuedJobIsRetained
<1>1. InitBacklog => BacklogInv
  BY BacklogInit
<1>2. BacklogInv /\ [Next]_vars => BacklogInv'
  BY BacklogStep
<1>3. BacklogInv => QueuedJobIsRetained
  BY DEF BacklogInv
<1> QED BY <1>1, <1>2, <1>3, PTL DEF BacklogSpec
=============================================================================
