----------------------------- MODULE RetryQueue -----------------------------
(***************************************************************************)
(* The KV-backed retry queue of server/queue.go, together with the dialog  *)
(* handler of server/routes.go that fills it.                              *)
(*                                                                         *)
(* The Mattermost KV store is shared by every node of the cluster.  It     *)
(* holds one record per job and one index, a JSON list of job ids.  Every  *)
(* change of the index is a KVGet followed by a KVSet, with nothing that   *)
(* makes the pair atomic, so each half is an action of its own.            *)
(*                                                                         *)
(* GLPI is external: a create call commits a ticket or not, and answers    *)
(* success or failure.                                                     *)
(***************************************************************************)
EXTENDS Naturals, Sequences, FiniteSets

CONSTANTS
  Node,           \* Mattermost nodes on which the plugin runs
  Worker,         \* worker goroutines of all nodes
  NodeOf,         \* the node of a worker
  Orphan,         \* the workers of a queue that OnActivate has overwritten
  Job,            \* one dialog submission each, hence one job id each
  HostOf,         \* the node whose dialog handler serves the submission
  AttemptLimits,  \* values q.maxAttempts may be configured to
  Faults,         \* what may go wrong: a subset of FaultKinds
  CountCap,       \* bound: counters stop counting here
  IndexCap        \* bound: the ids a write may leave in the index

FaultKinds == {"kv",         \* a KV call returns an error
               "crash",      \* a node dies and loses its goroutines
               "noClient",   \* the plugin is activated without a GLPI client
               "ambiguous"}  \* GLPI commits a ticket but the call fails

ASSUME QueueAssumption ==
  /\ NodeOf \in [Worker -> Node]
  /\ Orphan \subseteq Worker
  /\ Job # {}
  /\ HostOf \in [Job -> Node]
  /\ AttemptLimits \subseteq Nat \ {0}
  /\ AttemptLimits # {}
  /\ Faults \subseteq FaultKinds
  /\ CountCap \in Nat
  /\ IndexCap \in Nat
  /\ \A m \in AttemptLimits : m <= CountCap

VARIABLES
  index,      \* the list under glpi_retry_index
  record,     \* the job under glpi_retry_job_<id>, or Absent
  queue,      \* per node: p.retryQueue is running, being stopped, or dropped
              \* after that; "none" when no process of the plugin is there
  maxAttempts,\* per node: q.maxAttempts
  client,     \* per node: GetGLPIClient() is not nil
  hpc,        \* where the dialog handler of a job stands
  hsnap,      \* the index that handler has read
  limit,      \* MaxAttempts of the job the handler has built
  pc,         \* where a worker stands
  snap,       \* the index a worker has read
  cur,        \* the job id a worker holds
  rec,        \* the QueueJob a worker holds, in memory
  tickets,    \* GLPI: the create calls of a submission that committed a ticket
  tries,      \* history: rounds of workers that did not create the ticket
  told        \* posts made to the channel of the submission

kvVars      == <<index, record>>
nodeVars    == <<queue, maxAttempts, client>>
handlerVars == <<hpc, hsnap, limit>>
workerVars  == <<pc, snap, cur, rec>>
worldVars   == <<tickets, tries, told>>
vars == <<kvVars, nodeVars, handlerVars, workerVars, worldVars>>

Absent == [attempts |-> 0, max |-> 0]
Record == [attempts : 0..CountCap, max : AttemptLimits]

HandlerStates == {"idle", "create", "setRecord", "readIndex", "setIndex", "undo",
                  "queued", "answered", "refused", "lost", "dead"}
WorkerStates  == {"off", "poll", "pop", "popSet", "load", "run", "post", "drop",
                  "giveUp", "failPost", "save", "sleep", "pushSet"}

TypeOK ==
  /\ index \in Seq(Job)
  /\ record \in [Job -> Record \cup {Absent}]
  /\ queue \in [Node -> {"none", "running", "stopping", "stopped"}]
  /\ maxAttempts \in [Node -> AttemptLimits]
  /\ client \in [Node -> BOOLEAN]
  /\ hpc \in [Job -> HandlerStates]
  /\ hsnap \in [Job -> Seq(Job)]
  /\ limit \in [Job -> AttemptLimits]
  /\ pc \in [Worker -> WorkerStates]
  /\ snap \in [Worker -> Seq(Job)]
  /\ cur \in [Worker -> Job]
  /\ rec \in [Worker -> Record \cup {Absent}]
  /\ tickets \in [Job -> 0..CountCap]
  /\ tries \in [Job -> 0..CountCap]
  /\ told \in [Job -> SUBSET {"created", "failed"}]

Bump(n) == IF n < CountCap THEN n + 1 ELSE n

-----------------------------------------------------------------------------
(* The KV store and GLPI, as the code uses them. *)

\* KVGet: the callers discard its error, so a failed read is an empty one.
KVGet(value, empty) == {value} \cup (IF "kv" \in Faults THEN {empty} ELSE {})

\* KVSet and KVDelete: TRUE when the call takes effect.
KVWrites == IF "kv" \in Faults THEN {TRUE, FALSE} ELSE {TRUE}

\* The callers discard the error of KVDelete as well.
DeleteRecord(j) ==
  \E ok \in KVWrites :
    record' = IF ok THEN [record EXCEPT ![j] = Absent] ELSE record

\* TicketService.CreateTicket: the answer and the effect at GLPI.
CreateOutcomes ==
  {[ok |-> TRUE, commits |-> TRUE], [ok |-> FALSE, commits |-> FALSE]}
    \cup (IF "ambiguous" \in Faults
          THEN {[ok |-> FALSE, commits |-> TRUE]} ELSE {})

Commit(j, o) ==
  tickets' = IF o.commits THEN [tickets EXCEPT ![j] = Bump(@)] ELSE tickets

-----------------------------------------------------------------------------
(* The dialog handler: create the ticket, and on an error enqueue a job.   *)

Goto(j, s) == hpc' = [hpc EXCEPT ![j] = s]

\* Without a client the submission is refused, and no job is made of it.
HandleDialog(j) ==
  /\ hpc[j] = "idle" /\ queue[HostOf[j]] # "none"
  /\ Goto(j, IF client[HostOf[j]] THEN "create" ELSE "refused")
  /\ UNCHANGED <<kvVars, nodeVars, hsnap, limit, workerVars, worldVars>>

\* TicketService.CreateTicket asks for the client again; the handler looks for
\* the queue when it has its answer.
CreateFromDialog(j) ==
  LET n == HostOf[j] IN
  /\ hpc[j] = "create"
  /\ \E o \in CreateOutcomes :
       /\ client[n] \/ (~ o.ok /\ ~ o.commits)
       /\ Commit(j, o)
       /\ Goto(j, IF o.ok THEN "answered"
                  ELSE IF queue[n] # "stopped" THEN "setRecord" ELSE "refused")
  /\ limit' = [limit EXCEPT ![j] = maxAttempts[n]]
  /\ UNCHANGED <<kvVars, nodeVars, hsnap, workerVars, tries, told>>

EnqueueSetRecord(j) ==
  /\ hpc[j] = "setRecord"
  /\ \E ok \in KVWrites :
       /\ record' = IF ok THEN [record EXCEPT ![j] = [attempts |-> 0, max |-> limit[j]]]
                    ELSE record
       /\ Goto(j, IF ok THEN "readIndex" ELSE "refused")
  /\ UNCHANGED <<index, nodeVars, hsnap, limit, workerVars, worldVars>>

AppendRead(j) ==
  /\ hpc[j] = "readIndex"
  /\ \E ids \in KVGet(index, <<>>) : hsnap' = [hsnap EXCEPT ![j] = ids]
  /\ Goto(j, "setIndex")
  /\ UNCHANGED <<kvVars, nodeVars, limit, workerVars, worldVars>>

\* On success the handler posts that the ticket has been queued for retry.
AppendSet(j) ==
  /\ hpc[j] = "setIndex"
  /\ Len(hsnap[j]) < IndexCap
  /\ \E ok \in KVWrites :
       /\ index' = IF ok THEN Append(hsnap[j], j) ELSE index
       /\ Goto(j, IF ok THEN "queued" ELSE "undo")
  /\ UNCHANGED <<record, nodeVars, hsnap, limit, workerVars, worldVars>>

EnqueueUndo(j) ==
  /\ hpc[j] = "undo"
  /\ DeleteRecord(j)
  /\ Goto(j, "refused")
  /\ UNCHANGED <<index, nodeVars, hsnap, limit, workerVars, worldVars>>

-----------------------------------------------------------------------------
(* A worker: workerLoop and what it calls. *)

At(w, s) == pc[w] = s
To(w, s) == pc' = [pc EXCEPT ![w] = s]

\* The iteration ends, and with it the locals declared in the loop's body.
Return(w) ==
  /\ To(w, "poll")
  /\ snap' = [snap EXCEPT ![w] = <<>>]
  /\ rec' = [rec EXCEPT ![w] = Absent]

\* Variant: Stop also cuts a backoff short.
ExitFromSleep(w) ==
  /\ queue[NodeOf[w]] = "stopping" /\ w \notin Orphan
  /\ pc[w] \in {"poll", "sleep"} /\ To(w, "off")
  /\ UNCHANGED <<kvVars, nodeVars, handlerVars, snap, cur, rec, worldVars>>

\* Variant: the select is left, not the loop.
ExitBreaks(w) ==
  /\ queue[NodeOf[w]] = "stopping" /\ w \notin Orphan
  /\ At(w, "poll") /\ To(w, "poll")
  /\ UNCHANGED <<kvVars, nodeVars, handlerVars, snap, cur, rec, worldVars>>

\* The select finds stopCh closed; nobody holds an orphan's stopCh.
Exit(w) ==
  /\ queue[NodeOf[w]] = "stopping" /\ w \notin Orphan
  /\ At(w, "poll") /\ To(w, "off")
  /\ UNCHANGED <<kvVars, nodeVars, handlerVars, snap, cur, rec, worldVars>>

\* The select takes its default branch.
Continue(w) ==
  /\ queue[NodeOf[w]] = "running" \/ w \in Orphan
  /\ At(w, "poll") /\ To(w, "pop")
  /\ UNCHANGED <<kvVars, nodeVars, handlerVars, snap, cur, rec, worldVars>>

\* Variant: the test for an empty list is missing.
PopReadUnchecked(w) ==
  /\ At(w, "pop") /\ To(w, "popSet")
  /\ \E ids \in KVGet(index, <<>>) : snap' = [snap EXCEPT ![w] = ids]
  /\ UNCHANGED <<kvVars, nodeVars, handlerVars, cur, rec, worldVars>>

\* popIndex, the read.
PopRead(w) ==
  /\ At(w, "pop") /\ To(w, "popSet")
  /\ \E ids \in KVGet(index, <<>>) :
       /\ ids # <<>>
       /\ snap' = [snap EXCEPT ![w] = ids]
  /\ UNCHANGED <<kvVars, nodeVars, handlerVars, cur, rec, worldVars>>

\* popIndex finds nothing to do; the worker sleeps and looks again.
PopNothing(w) ==
  /\ At(w, "pop") /\ Return(w)
  /\ <<>> \in KVGet(index, <<>>)
  /\ UNCHANGED <<kvVars, nodeVars, handlerVars, cur, worldVars>>

\* popIndex, the write.
PopSet(w) ==
  /\ At(w, "popSet")
  /\ index' = Tail(snap[w])
  /\ cur' = [cur EXCEPT ![w] = Head(snap[w])]
  /\ To(w, "load")
  /\ UNCHANGED <<record, nodeVars, handlerVars, snap, rec, worldVars>>

PopSetFails(w) ==
  /\ "kv" \in Faults
  /\ At(w, "popSet") /\ Return(w)
  /\ UNCHANGED <<kvVars, nodeVars, handlerVars, cur, worldVars>>

\* Records are only ever written by this code, well formed and of the one
\* type there is: the branches that drop any other record have no input.
LoadRecord(w) ==
  /\ At(w, "load") /\ To(w, "run")
  /\ record[cur[w]] # Absent
  /\ rec' = [rec EXCEPT ![w] = record[cur[w]]]
  /\ UNCHANGED <<kvVars, nodeVars, handlerVars, snap, cur, worldVars>>

\* Variant: a record that cannot be read is taken for a malformed one.
SkipJobDeletes(w) ==
  /\ At(w, "load") /\ Return(w)
  /\ Absent \in KVGet(record[cur[w]], Absent)
  /\ record' = [record EXCEPT ![cur[w]] = Absent]
  /\ UNCHANGED <<index, nodeVars, handlerVars, cur, worldVars>>

\* No record, or none to be read: the worker skips the id it has popped.
SkipJob(w) ==
  /\ At(w, "load") /\ Return(w)
  /\ Absent \in KVGet(record[cur[w]], Absent)
  /\ UNCHANGED <<kvVars, nodeVars, handlerVars, cur, worldVars>>

\* The round failed: Attempts is counted on the copy the worker holds.
CountAttempt(w) ==
  /\ rec' = [rec EXCEPT ![w].attempts = Bump(@)]
  /\ tries' = [tries EXCEPT ![cur[w]] = Bump(@)]

\* requeueJobWithBackoff: no client, the attempt limit is not looked at.
RunWithoutClient(w) ==
  /\ ~client[NodeOf[w]]
  /\ At(w, "run") /\ To(w, "save")
  /\ CountAttempt(w)
  /\ UNCHANGED <<kvVars, nodeVars, handlerVars, snap, cur, tickets, told>>

RunSucceeds(w) ==
  /\ client[NodeOf[w]]
  /\ At(w, "run") /\ To(w, "post")
  /\ \E o \in CreateOutcomes : o.ok /\ Commit(cur[w], o)
  /\ UNCHANGED <<kvVars, nodeVars, handlerVars, snap, cur, rec, tries, told>>

\* Variant: one attempt too few.
RunFailsEarly(w) ==
  /\ At(w, "run")
  /\ client[NodeOf[w]]
  /\ \E o \in CreateOutcomes : ~o.ok /\ Commit(cur[w], o)
  /\ CountAttempt(w)
  /\ To(w, IF rec[w].attempts + 2 >= rec[w].max THEN "giveUp" ELSE "save")
  /\ UNCHANGED <<kvVars, nodeVars, handlerVars, snap, cur, told>>

RunFails(w) ==
  /\ At(w, "run")
  /\ client[NodeOf[w]]
  /\ \E o \in CreateOutcomes : ~o.ok /\ Commit(cur[w], o)
  /\ CountAttempt(w)
  /\ To(w, IF rec[w].attempts + 1 >= rec[w].max THEN "giveUp" ELSE "save")
  /\ UNCHANGED <<kvVars, nodeVars, handlerVars, snap, cur, told>>

\* No channel, no bot user or a failing CreatePost: nothing is posted.
Post(j, what) == told' \in {told, [told EXCEPT ![j] = @ \cup {what}]}

PostCreated(w) ==
  /\ At(w, "post") /\ To(w, "drop")
  /\ Post(cur[w], "created")
  /\ UNCHANGED <<kvVars, nodeVars, handlerVars, snap, cur, rec, tickets, tries>>

\* Variant: the record of a created ticket is left behind.
DropCreatedForgets(w) ==
  /\ At(w, "drop") /\ Return(w)
  /\ UNCHANGED <<kvVars, nodeVars, handlerVars, cur, worldVars>>

DropCreated(w) ==
  /\ At(w, "drop") /\ Return(w)
  /\ DeleteRecord(cur[w])
  /\ UNCHANGED <<index, nodeVars, handlerVars, cur, worldVars>>

\* Variant: the record of an abandoned job is left behind.
GiveUpForgets(w) ==
  /\ At(w, "giveUp") /\ To(w, "failPost")
  /\ UNCHANGED <<kvVars, nodeVars, handlerVars, snap, cur, rec, worldVars>>

\* Variant: the return after the last attempt is missing.
GiveUpFallsThrough(w) ==
  /\ At(w, "giveUp") /\ To(w, "save")
  /\ DeleteRecord(cur[w])
  /\ UNCHANGED <<index, nodeVars, handlerVars, snap, cur, rec, worldVars>>

GiveUp(w) ==
  /\ At(w, "giveUp") /\ To(w, "failPost")
  /\ DeleteRecord(cur[w])
  /\ UNCHANGED <<index, nodeVars, handlerVars, snap, cur, rec, worldVars>>

PostFailed(w) ==
  /\ At(w, "failPost") /\ Return(w)
  /\ Post(cur[w], "failed")
  /\ UNCHANGED <<kvVars, nodeVars, handlerVars, cur, tickets, tries>>

\* The error of this KVSet is logged and the round goes on.
SaveRecord(w) ==
  /\ At(w, "save") /\ To(w, "sleep")
  /\ \E ok \in KVWrites :
       record' = IF ok THEN [record EXCEPT ![cur[w]] = rec[w]] ELSE record
  /\ UNCHANGED <<index, nodeVars, handlerVars, snap, cur, rec, worldVars>>

\* The backoff is over: prependIndex, the read.
PushRead(w) ==
  /\ At(w, "sleep") /\ To(w, "pushSet")
  /\ \E ids \in KVGet(index, <<>>) : snap' = [snap EXCEPT ![w] = ids]
  /\ UNCHANGED <<kvVars, nodeVars, handlerVars, cur, rec, worldVars>>

\* Variant: the round ends without putting the id back.
PushSetForgets(w) ==
  /\ At(w, "pushSet") /\ Return(w)
  /\ UNCHANGED <<kvVars, nodeVars, handlerVars, cur, worldVars>>

\* prependIndex, the write; its error is logged.
PushSet(w) ==
  /\ At(w, "pushSet") /\ Return(w)
  /\ Len(snap[w]) < IndexCap
  /\ \E ok \in KVWrites :
       index' = IF ok THEN <<cur[w]>> \o snap[w] ELSE index
  /\ UNCHANGED <<record, nodeVars, handlerVars, cur, worldVars>>

-----------------------------------------------------------------------------
(* A node: activation, configuration changes, deactivation, crash. *)

WorkersOf(n) == {w \in Worker : NodeOf[w] = n}

\* OnActivate: the client, a new queue, hence a new stopCh, and its workers.
\* Mattermost calls OnConfigurationChange before OnActivate, where it starts a
\* queue of its own: the orphans are the workers of that one.
Start(n) ==
  /\ queue[n] = "none"
  /\ queue' = [queue EXCEPT ![n] = "running"]
  /\ pc' = [w \in Worker |-> IF NodeOf[w] = n THEN "poll" ELSE pc[w]]
  /\ \E m \in AttemptLimits : maxAttempts' = [maxAttempts EXCEPT ![n] = m]
  /\ \E up \in (IF "noClient" \in Faults THEN BOOLEAN ELSE {TRUE}) :
       client' = [client EXCEPT ![n] = up]
  /\ UNCHANGED <<kvVars, handlerVars, snap, cur, rec, worldVars>>

UpdateConfig(n) ==
  /\ queue[n] = "running"
  /\ \E m \in AttemptLimits : maxAttempts' = [maxAttempts EXCEPT ![n] = m]
  /\ UNCHANGED <<kvVars, queue, client, handlerVars, workerVars, worldVars>>

\* OnConfigurationChange builds a client where there was none; a configuration
\* it cannot use leaves the client as it is.
ReplaceClient(n) ==
  /\ queue[n] = "running"
  /\ client' = [client EXCEPT ![n] = TRUE]
  /\ UNCHANGED <<kvVars, queue, maxAttempts, handlerVars, workerVars, worldVars>>

\* Stop closes stopCh ...
Stop(n) ==
  /\ queue[n] = "running"
  /\ queue' = [queue EXCEPT ![n] = "stopping"]
  /\ UNCHANGED <<kvVars, maxAttempts, client, handlerVars, workerVars, worldVars>>

\* ... and returns once the wait group is empty.  OnDeactivate drops queue and
\* client; handlers and orphans run on while the process lasts.
StopReturns(n) ==
  /\ queue[n] = "stopping"
  /\ \A w \in WorkersOf(n) \ Orphan : pc[w] = "off"
  /\ queue' = [queue EXCEPT ![n] = "stopped"]
  /\ client' = [client EXCEPT ![n] = FALSE]
  /\ UNCHANGED <<kvVars, maxAttempts, handlerVars, workerVars, worldVars>>

\* Where the end of its process leaves a handler: before the record of the job
\* is written nothing is left of a submission in hand.
Killed(s) ==
  IF s \in {"create", "setRecord"} THEN "lost"
  ELSE IF s \in {"readIndex", "setIndex", "undo"} THEN "dead" ELSE s

\* The process of the plugin is gone, and with it its workers and handlers.
NodeDown(n) ==
  /\ queue' = [queue EXCEPT ![n] = "none"]
  /\ client' = [client EXCEPT ![n] = FALSE]
  /\ pc' = [w \in Worker |-> IF NodeOf[w] = n THEN "off" ELSE pc[w]]
  /\ snap' = [w \in Worker |-> IF NodeOf[w] = n THEN <<>> ELSE snap[w]]
  /\ rec' = [w \in Worker |-> IF NodeOf[w] = n THEN Absent ELSE rec[w]]
  /\ hpc' = [j \in Job |-> IF HostOf[j] = n THEN Killed(hpc[j]) ELSE hpc[j]]
  /\ UNCHANGED <<kvVars, maxAttempts, hsnap, limit, cur, worldVars>>

\* Mattermost ends the process after OnDeactivate ...
ProcessEnds(n) == queue[n] = "stopped" /\ NodeDown(n)

\* ... or it dies before.
Crash(n) == "crash" \in Faults /\ queue[n] # "none" /\ NodeDown(n)

-----------------------------------------------------------------------------
InitRest ==
  /\ queue = [n \in Node |-> "none"]
  /\ maxAttempts \in [Node -> AttemptLimits]
  /\ client = [n \in Node |-> FALSE]
  /\ hsnap = [j \in Job |-> <<>>]
  /\ pc = [w \in Worker |-> "off"]
  /\ snap = [w \in Worker |-> <<>>]
  /\ cur = [w \in Worker |-> CHOOSE j \in Job : TRUE]
  /\ rec = [w \in Worker |-> Absent]
  /\ tickets = [j \in Job |-> 0]
  /\ tries = [j \in Job |-> 0]
  /\ told = [j \in Job |-> {}]

Init ==
  /\ index = <<>>
  /\ record = [j \in Job |-> Absent]
  /\ hpc = [j \in Job |-> "idle"]
  /\ limit = [j \in Job |-> CHOOSE m \in AttemptLimits : TRUE]
  /\ InitRest

HandlerNext(j) ==
  \/ HandleDialog(j) \/ CreateFromDialog(j) \/ EnqueueSetRecord(j)
  \/ AppendRead(j) \/ AppendSet(j) \/ EnqueueUndo(j)

WorkerNext(w) ==
  \/ Exit(w) \/ Continue(w) \/ PopRead(w) \/ PopNothing(w)
  \/ PopSet(w) \/ PopSetFails(w)
  \/ LoadRecord(w) \/ SkipJob(w)
  \/ RunWithoutClient(w) \/ RunSucceeds(w) \/ RunFails(w)
  \/ PostCreated(w) \/ PostFailed(w) \/ DropCreated(w) \/ GiveUp(w)
  \/ SaveRecord(w) \/ PushRead(w) \/ PushSet(w)

NodeNext(n) ==
  \/ Start(n) \/ UpdateConfig(n) \/ ReplaceClient(n)
  \/ Stop(n) \/ StopReturns(n) \/ ProcessEnds(n) \/ Crash(n)

Next ==
  \/ \E j \in Job : HandlerNext(j)
  \/ \E w \in Worker : WorkerNext(w)
  \/ \E n \in Node : NodeNext(n)

Spec == Init /\ [][Next]_vars

\* The goroutines keep running, and Stop keeps waiting for them.  Nothing
\* forces an administrator to start, stop or reconfigure the plugin.
Fairness ==
  /\ \A w \in Worker : WF_vars(WorkerNext(w))
  /\ \A n \in Node : WF_vars(StopReturns(n))

\* The plugin is activated over the jobs an earlier run has left in the store.
InitBacklog ==
  /\ \E order \in [1..Cardinality(Job) -> Job] :
       /\ \A j \in Job : \E i \in DOMAIN order : order[i] = j
       /\ index = order
  /\ limit \in [Job -> AttemptLimits]
  /\ record = [j \in Job |-> [attempts |-> 0, max |-> limit[j]]]
  /\ hpc = [j \in Job |-> "queued"]
  /\ InitRest

BacklogSpec == InitBacklog /\ [][Next]_vars /\ Fairness

-----------------------------------------------------------------------------
(* Properties.                                                             *)

Accepted(j) == hpc[j] = "queued"
Exhausted(j) == tries[j] >= limit[j]

\* A job the handler reported as queued (routes.go:276) keeps its record until
\* its ticket exists in GLPI or the workers have spent its whole attempt
\* budget on it: however index updates are lost, workers race on one job,
\* writes fail and nodes die, no record is thrown away unsettled.
SettledBeforeRemoval ==
  \A j \in Job : Accepted(j) /\ record[j] = Absent => tickets[j] > 0 \/ Exhausted(j)

\* The permanent-failure post (queue.go:324) is never made early: a user who
\* reads it had as many rounds run for the submission as were configured when
\* it was queued, whatever stale copies of the record workers held meanwhile.
FailurePostIsEarned ==
  \A j \in Job : "failed" \in told[j] => Exhausted(j)

\* One worker alone never tells a user both that the queued ticket was created
\* and that it finally failed (queue.go:296 and queue.go:326).
NoContradictoryPosts ==
  \A j \in Job : told[j] # {"created", "failed"}

\* With one worker, and a GLPI that fails only without an effect, a submission
\* ends in at most one ticket, though a lost index update may bring the id of a
\* finished job back into the index.
AtMostOneTicket == \A j \in Job : tickets[j] <= 1

\* How a submission stands, as GLPI and the store tell.
StateOf(j) ==
  IF tickets[j] > 1 THEN "created twice"
  ELSE IF tickets[j] = 1 THEN "created"
  ELSE IF hpc[j] = "idle" THEN "new"
  ELSE IF hpc[j] \in {"create", "setRecord"} THEN "open"
  ELSE IF hpc[j] \in {"refused", "lost"} THEN hpc[j]
  ELSE IF record[j] # Absent THEN "pending" ELSE "failed"

Ledger == INSTANCE JobLedger WITH
  Submission <- Job, Budgets <- AttemptLimits,
  state <- [j \in Job |-> StateOf(j)], budget <- limit, rounds <- tries, heard <- told

\* One worker alone implements the ledger of submissions, also when the process
\* ends under the handlers: each is settled once, never the other way
\* afterwards, given up only when its rounds are spent, and lost only before its
\* job is stored; a user reads of a created ticket or of a final failure only
\* after it has happened, and never of both (queue.go:296 and queue.go:326).
KeepsLedger == Ledger!Spec

\* With one worker, a job record that has been removed is never written again
\* (SaveRecord of a stale copy would revive it), and the attempts it counts
\* never go back.
RecordMovesForward ==
  [][\A j \in Job :
       /\ record[j] = Absent /\ hpc[j] \notin {"idle", "create", "setRecord"}
            => record'[j] = Absent
       /\ record'[j] # Absent
            => record'[j].attempts >= record[j].attempts]_vars

Holds(w, j) == cur[w] = j /\ pc[w] \notin {"off", "poll", "pop", "popSet"}

\* A queued job whose record is still there can still be retried: its id is in
\* the index or in the hands of a worker (queue.go:41, "durable queue").  One
\* worker draining a backlog keeps this through stops, restarts of the queue
\* and configuration changes.
QueuedJobIsRetained ==
  \A j \in Job : Accepted(j) /\ record[j] # Absent =>
    \/ \E i \in DOMAIN index : index[i] = j
    \/ \E w \in Worker : Holds(w, j)

\* A backlog drains: on a node that keeps its queue running, every job is
\* created or given up, whatever GLPI answers.
BacklogDrains ==
  (\E n \in Node : <>[](queue[n] = "running")) => \A j \in Job : <>(record[j] = Absent)

\* Stop returns: no worker can keep OnDeactivate waiting for ever, wherever the
\* close of stopCh finds it.
StopCompletes == \A n \in Node : queue[n] = "stopping" ~> queue[n] # "stopping"

\* How many steps a worker is from its end, wherever the close of stopCh finds it.
StepsToStop(place) ==
  [pop  |-> 8, popSet |-> 7, load |-> 6, run |-> 5, save |-> 4, sleep |-> 3,
   post |-> 3, giveUp |-> 3, drop |-> 2, failPost |-> 2, pushSet |-> 2,
   poll |-> 1, off |-> 0][place]

\* The safety half of StopCompletes: while a stop waits, a worker it waits for
\* only ever comes nearer to its end; it ends its round and begins no other
\* (queue.go:129-141, 209-219).
StopGetsNearer ==
  [][\A w \in Worker \ Orphan : queue[NodeOf[w]] = "stopping" =>
       /\ StepsToStop(pc'[w]) <= StepsToStop(pc[w])
       /\ WorkerNext(w) => StepsToStop(pc'[w]) < StepsToStop(pc[w])]_vars

-----------------------------------------------------------------------------
(* The inductive invariant behind the first two properties. *)

\* What is counted in the store, or in a worker's copy, was really run.
CopiesAreHonest ==
  /\ \A j \in Job : record[j] # Absent =>
       record[j].max = limit[j] /\ record[j].attempts <= tries[j]
  /\ \A w \in Worker : rec[w] # Absent =>
       rec[w].max = limit[cur[w]] /\ rec[w].attempts <= tries[cur[w]]

\* Where a worker stands tells what it holds and why.
WorkerKnows ==
  \A w \in Worker :
    /\ pc[w] \in {"off", "poll", "pop", "popSet", "load"} => rec[w] = Absent
    /\ pc[w] = "popSet" => snap[w] # <<>>
    /\ pc[w] \in {"run", "post", "drop", "giveUp", "failPost", "save"}
         => rec[w] # Absent
    /\ pc[w] \in {"post", "drop"} => tickets[cur[w]] > 0
    /\ pc[w] \in {"giveUp", "failPost"} => Exhausted(cur[w])

\* Unless its handler has built the job, nothing in the system knows of it.
NotYetQueued ==
  \A j \in Job : hpc[j] \in {"idle", "create", "setRecord", "lost"} =>
    /\ record[j] = Absent
    /\ told[j] = {}
    /\ \A w \in Worker : rec[w] # Absent => cur[w] # j

\* SettledBeforeRemoval, from the moment the record is written.
KeptUntilSettled ==
  \A j \in Job : hpc[j] \in {"readIndex", "setIndex", "queued"} =>
    record[j] # Absent \/ tickets[j] > 0 \/ Exhausted(j)

\* Once its queue has been stopped, or with none on its node, a worker does not run.
NoQueueNoWorker ==
  \A w \in Worker :
    \/ queue[NodeOf[w]] = "none"
    \/ queue[NodeOf[w]] = "stopped" /\ w \notin Orphan
    => pc[w] = "off"

IInv ==
  /\ TypeOK
  /\ NoQueueNoWorker
  /\ CopiesAreHonest
  /\ WorkerKnows
  /\ NotYetQueued
  /\ KeptUntilSettled
  /\ FailurePostIsEarned

(* The inductive invariants behind the properties of a lone worker. *)

\* What these are claimed for: one worker, whose stopCh somebody holds, no node
\* that dies, and calls of KV store and GLPI that fail only without an effect.
LoneWorker ==
  /\ \A v, w \in Worker : v = w
  /\ Orphan = {}
  /\ Faults \subseteq {"noClient"}

\* The copy a worker holds is of a record that is there, no further on.
CopyIsCurrent ==
  \A w \in Worker :
    /\ pc[w] \in {"run", "post", "drop", "giveUp", "save"} =>
         record[cur[w]] # Absent /\ record[cur[w]].attempts <= rec[w].attempts
    /\ pc[w] = "failPost" => record[cur[w]] = Absent /\ tickets[cur[w]] = 0

\* A ticket is created for a job that has a record by the worker that is about
\* to drop the record; the handler creates one only instead of a job.
TicketsAreSettled ==
  \A j \in Job :
    /\ tickets[j] <= 1
    /\ hpc[j] \in {"idle", "create", "setRecord", "lost"} => tickets[j] = 0
    /\ record[j] # Absent /\ tickets[j] > 0 =>
         \E w \in Worker : cur[w] = j /\ pc[w] \in {"post", "drop"}

\* What a user reads is true.
PostsAreTrue ==
  \A j \in Job :
    /\ "created" \in told[j] => tickets[j] > 0
    /\ "failed" \in told[j] => tickets[j] = 0 /\ record[j] = Absent

LoneInv ==
  /\ IInv
  /\ CopyIsCurrent
  /\ TicketsAreSettled
  /\ PostsAreTrue
  /\ \A j \in Job : hpc[j] # "undo"

\* A submission that was refused leaves nothing to be retried.
RefusedAreGone ==
  \A j \in Job : hpc[j] = "refused" =>
    record[j] = Absent /\ \A w \in Worker : rec[w] # Absent => cur[w] # j

\* With the handlers gone nobody comes between the two halves of an update.
IndexIsRead ==
  \A w \in Worker : pc[w] \in {"popSet", "pushSet"} => snap[w] = index

BacklogInv ==
  /\ LoneInv
  /\ \A j \in Job : hpc[j] = "queued"
  /\ IndexIsRead
  /\ QueuedJobIsRetained
=============================================================================
