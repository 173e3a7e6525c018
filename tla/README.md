# A TLA+ model of the Mattermost GLPI plugin

The plugin connects Mattermost to GLPI, an IT service desk. Users open tickets
from slash commands, dialogs and a sidebar; GLPI sends webhooks back; the plugin
keeps notifications, identity mappings and a queue of failed submissions in the
key-value (KV) store of Mattermost, which all nodes of a cluster share.

The program has no transactions. Almost everything it keeps is a JSON value that
one goroutine reads with `KVGet` and writes back with `KVSet`, while others, on
the same node or another, do the same. What can go wrong is therefore a matter
of interleavings, of KV and network calls that fail half-way through a handler,
and of nodes that die. That is what these modules are about.

## The system

| Component | State | Operations | Talks to |
|---|---|---|---|
| Retry queue (`server/queue.go`) | index and job records in KV; per node workers, `stopCh`, limits | enqueue, pop, process, requeue, give up, start, stop | ticket service, KV, channel posts |
| Dialog submission (`server/routes.go`) | none | create a ticket, enqueue it when that fails | ticket service, retry queue |
| Ticket service (`server/ticket_service.go`) | none | create, record ownership, notify | GLPI client, identity, notifications |
| GLPI client (`server/glpi/client.go`, `session.go`, `document.go`) | one session token, shared | log in, request, raw request, upload, kill session | GLPI over HTTP |
| Webhook delivery (`server/handlers/webhook.go`, `routes.go`) | a key per fingerprint in KV, with a TTL | receive, claim, notify | KV, notification service |
| Notification center (`server/notifications.go`) | one list in KV; per user a read marker and dismissed ids | record, list, mark read, dismiss | KV, websocket |
| Identity (`server/identity/`) | per user a mapping, reverse keys, an index | discover, provision, save, remove, clear | KV, GLPI accounts |
| Ownership and knowledge-base lists (`identity/mapping.go`, `favorites.go`) | a capped list per user in KV | append, toggle, list | KV |
| Ownership service and roles (`ownership.go`, `identity/role.go`) | none; reads the mapping | resolve a role, allow or refuse | identity |
| Tickets over REST and by command (`api.go`, `commands/`) | none | create, view, list, update, close, reopen, delete, follow up, solve | ownership, GLPI client, notifications |
| Timeline (`glpi/timeline.go`) | none | merge four collections of GLPI into pages | GLPI client |
| Lifecycle (`plugin.go`, `configuration.go`) | configuration, client, services, queue pointer | activate, reconfigure, deactivate | all of the above |
| The rest of the REST API, admin API, slash commands, authentication | a rate limiter per user | make one call, format the answer | all of the above |
| Webapp (`webapp/src/`) | React state per view | fetch, navigate, mark read | REST API |

What makes each of them hard, and what makes it correct:

* **Retry queue.** Every index change is a get and a set by any of the workers and
  dialogs of any node. A submission must not be lost silently, become two
  tickets, or be reported both as created and as failed; a failure must not be
  announced before its attempts are spent; a stop must return.
* **GLPI client.** Requests share a token that any of them may clear after a 401.
  A request must not send again a token it was refused, must stop retrying, and
  must not report a success that did not happen.
* **Webhook delivery.** GLPI resends; nodes race. A payload should be announced
  once per replay window, and one that was acknowledged must not vanish.
* **Notification center.** One list serves all users, with a cap. What was read should
  stay read, what was dismissed stay dismissed, and only the oldest drop out. *Mark
  all read* sends its calls all at once (`webapp/.../Notifications.tsx:81`), so they
  overlap; what can then be kept, and by whose write alone it is lost, is the question.
* **Identity.** A mapping is a record and an index entry, read and written one at a time
  by discoveries of every user, beside provisioning and clearing. A mapping should be
  permanent and listed, clearing should leave nothing, and no address should get a
  second account: again, what breaks this, and is there anything else that does.
* **Lists.** Three capped lists, rewritten whole, errors ignored. Overlapping calls lose
  entries; they must not lose their shape, nor anything that they had seen.
* **Tickets.** A role is stored once and outlives what it was taken from; the
  mapping can be missing, stale, switched off or cleared between two steps of a
  call. Nobody may do what staff does without having been staff, nobody may be shown
  what others created, and users must find the tickets they created.
* **Timeline.** GLPI pages each collection by itself and goes on working while they
  are read. A page must be the page of the whole, and turning pages must not skip.

`PROJECT.json` lists the hazards at their lines, with the property that covers
each, or why none does yet. Where the code loses an update by design of its reads and
writes, the property names the writes that may lose it and says that nothing else
does; the note of the hazard says what is therefore not caught.

## The modules

Each component has a specification `X.tla`, an instance `MCX.tla` with the
constants TLC needs, its configurations, and a module of proofs. Definitions
whose comment begins with *Variant* are not part of the specification: each is an
action changed by a plausible mistake, against which the properties were tried.

### RetryQueue

`index` and `record` are the KV store. Per node there are `queue`, `client`
and `maxAttempts`; per worker a program counter `pc`, the index it has read
(`snap`), the id it holds (`cur`) and its copy of the record (`rec`); per
submission the same for the dialog handler (`hpc`, `hsnap`, `limit`).
`tickets` counts the create calls that committed a ticket at GLPI, `tries` the
rounds that did not create one, and `told` collects the posts to the channel.
One action stands for one stretch of code between two KV or network calls:

| Action | Code |
|---|---|
| `HandleDialog`, `CreateFromDialog`, `EnqueueSetRecord`, `AppendRead`, `AppendSet`, `EnqueueUndo` | `handleDialogSubmission`, `EnqueueCreateTicket`, `appendIndex` |
| `Continue`, `Exit`, `PopRead`, `PopNothing`, `PopSet`, `PopSetFails`, `LoadRecord`, `SkipJob` | `workerLoop`, `popIndex` |
| `RunSucceeds`, `PostCreated`, `DropCreated` | `processCreateTicket`, the ticket is created |
| `RunFails`, `GiveUp`, `PostFailed`, `SaveRecord` | `processCreateTicket`, it is not |
| `RunWithoutClient` | `requeueJobWithBackoff` |
| `PushRead`, `PushSet` | `prependIndex` |
| `Start`, `UpdateConfig`, `ReplaceClient`, `Stop`, `StopReturns` | activation, configuration, deactivation |
| `ProcessEnds`, `Crash` | Mattermost ends the process after a deactivation, or it dies before |

Deactivation has two steps: `OnDeactivate` returns and has dropped queue and client,
while dialog handlers already at work go on; then the process ends, and every handler
and worker of the node ends with it, wherever it stands (`Killed`). A submission whose
job record was not written yet is `lost`, with its user unanswered; one whose record
was written stays, in the index or not.

GLPI is external: a create call succeeds, fails, or (fault `ambiguous`) commits a
ticket and fails. Time is left out: a backoff is the freedom not to take
`PushRead` yet. `Orphan` holds the workers of a queue that `OnActivate`
overwrites. Mattermost calls `OnConfigurationChange` before `OnActivate`; with a
usable stored configuration the former starts a queue that the latter replaces
without stopping. The runs with one worker describe the queue by itself; the run
`queue_two_workers` describes what activation makes of it.

### JobLedger

What the queue promises for a submission: it is settled once, as created or as failed,
it fails only when its budget of rounds is spent, and its submitter is told of nothing
but the settlement. It may be lost, but only while a handler has it in hand and before
it is a job (`LoseSome`). `RetryQueue` maps to it what GLPI and the store tell of a job
(`StateOf`), `limit`, `tries` and `told`; a second ticket would be a state the ledger
does not have. It is implemented by one worker (`queue_single`); two workers on one job
break it as they break `AtMostOneTicket` (`queue_two_workers`).

### WebhookDelivery

`key` is the KV key of a payload's fingerprint, `pc` where each delivery stands.
`windows` counts how often a key was created, and `won` the window in which a
delivery took its claim; both are history. `Claiming` says how a payload is
claimed: `getThenSet` is the closure `ServeHTTP` uses, `compareAndSet` is
`claimWebhookFingerprint`, which only a test calls.

### NotificationCenter

`store`, `readAt` and `dismissed` are the KV values; recorders (`rpc`, `rsnap`) and
calls (`cpc`, `mark`, `seen`) read and write them in separate steps, on any node, in
any order, and every KV call may fail: a failed read is an empty value, a failed write
is answered *ok*. `now` is the clock in seconds, the resolution of `CreatedAt`. No
order among the calls of a user or among recorders is assumed.

Two history variables name who may undo what: `undoers` of an answered call are the
calls of the same user that had read before it wrote (or read nothing after it) and
have still to write, and `losers` of a recorded notification are such recorders.
`AnswersHold` and `OnlyOldOnesDropOut` say that an effect is gone only if one of these
has written, or the call's own write failed. That the code can lose it in these ways
is a fact about the code (see below); that it cannot in any other is the promise.

### GLPIClient

`token` is the shared session, and each request goes through `ensureSession`, the
read of the token into the header, the send and the handling of the answer as
separate steps. `KindOf` tells the three loops apart (`doRequest`,
`doRequestRaw`, the upload), which differ in what they retry. GLPI may expire
sessions, refuse logins, fail, and lose an answer to work it has done; these
are the fault names. `KillSession` runs beside the requests.

### Identity

`mapping` and `index` are the KV keys, `mail` are GLPI's accounts with their addresses.
Any number of discoveries, provisionings and clearings overlap, one KV or GLPI call per
step, with failed reads, failed writes and dead nodes. The reverse keys by e-mail,
account and login, which nothing but the tests reads, are left out. The index is a set:
`addToIndex` never adds an id twice. Roles are in `TicketDesk`.

History variables say what a call cannot know: `outdated` are calls whose user was
mapped after they looked, `knew` the accounts a search could see, `spared` the users a
clearing call has not listed, could not read or delete, or who were mapped since.
`saver` is the call that stored a mapping, so that `MappingsStayListed` can speak of
mappings whose caller was answered.

### UserLists and ListOps

`list` holds the KV values: favorites, viewed articles, created tickets, one of each
per user. A call reads (`Read`), writes (`Write`) and, for a favorite, reads back for
its answer (`Check`), in any interleaving with the others, with every KV call free to
fail and every node to die. An entry is an id and the second it was stamped with; for a
ticket, which the code stores without a time, the stamp is history. `ListOps` is what
is done to one list; its filter (`Without`) is a recursive function, so that it can be
proved about.

`missed` of a call are the others whose writes its copy cannot show: they wrote after it
read, or its read failed. `undone` collects the calls whose change was taken back: by a
write that had missed it, that asks for the opposite (`Opposes`, a repeated POST among
them) or that left no room for it (`PushesOut`), or whose own write failed.
`KeptUnlessUndone` says that every other change is there.

### WebhookOnce

The abstract deduplication: a payload's window is opened, and announced in once at
most. `WebhookDelivery` maps `windows` and `posted` to it for the payloads claimed by
compare-and-set; the claim in use does not implement it (`webhook_race`).

### Timeline

`held` is the ticket at GLPI. A page is made source by source (`Fetch`, `Skip`,
`Fail`, `Forget`), with `events`, `total` and `totalKnown` as in the code, and
answered (`Answer`) after the merge, the cut and the filter for private events.
Between any two steps events may arrive and be removed. `Unsupported` are the kinds
this GLPI does not expose, `Silent` those it may answer without a `Content-Range`.
One reader turns the pages, as a system administrator or not; `shown` is what he
has seen. Reading changes nothing, so one reader stands for all.
`TimelineAssumption` says that within one kind dates follow ids: GLPI answers by id,
the code merges by date. A back-dated event would break the order of the pages.

### TicketDesk

What users do with tickets. A call goes through the stages of its handler: its role is
checked (`CheckRole`), an employee's own list looked at (`Scope`), its user's account
found (`Resolve`, `Find`, `Map`), a reopening command looks first (`Look`), GLPI carries
it out (`Carry`) or does not (`Miss`), a list or ticket is shown (`Show`); a created
ticket is recorded by a get and a set of the capped list (`RecordGet`, `RecordSet`), and
users and the administrators' channel are told (`Notify`, `Alert`). Slash commands check
no role and tell nobody; `Slash` names the calls made that way. Meanwhile the mapping of
users is switched (`Configure`), stored by an administrator (`AdminMaps`) or cleared
(`RemoveMapping`), profiles change at GLPI (`Assign`), somebody works on the ticket
there (`Elsewhere`), and nodes die (`Crash`).

The KV values are `mapping` (account and role) and `owned`. GLPI has `status`, `trash`,
`requester` and `profiles`. `AccountsFor` are the accounts GLPI may answer when it is
searched for a user: `FindUserByEmail` searches with *contains* and takes the first row,
so they need not be the user's own, and the properties speak of these accounts. An
account has one default profile or none, which is what `GetUserProfiles` returns.

Every KV access may fail: an unreadable mapping counts as none, an unreadable list as
empty (`RecordGet`), a list that could not be recorded is ignored, and a list shown
without what could not be read is marked (`partial`). The event of a notification is
published whether the notification could be stored or not, as in `recordNotification`;
the administrators' channel hears of a ticket or a reply or does not, as there may be no
channel, no bot, or a failing post (`Alert`). Other history variables: `had`, the roles
an account has stood for; `moved`, the reopening commands overtaken after they looked;
`unseen`, `listed` and `newer`, which creations a handler's copy does not know of, which
are recorded and not written over since, and how many came after.

The other modules appear here by what they promise: a call to GLPI is carried out or
not and an error does not tell which (`GLPIClient`); a creation is carried out once
(its duplicates are `GLPIClient`'s and the queue's).

## What the runs check

Every run finishes within a few minutes with two TLC workers.

| Run | Instance | Shows |
|---|---|---|
| `queue_faults` | 2 nodes, 2 workers, 1 job, limit 2, all faults | The inductive invariant `IInv`. A queued record stays until a ticket exists or its attempts are spent (`SettledBeforeRemoval`), and a failure is announced only then (`FailurePostIsEarned`). |
| `queue_single` | 1 worker, 2 jobs, limits 1 and 2, no client at first, deactivation under the handlers | However index updates race and handlers die with the process, the queue implements `JobLedger`. One ticket at most; no record is revived or loses attempts. |
| `queue_backlog` | 1 worker, 2 jobs already queued, restarts | No id is lost, the backlog drains while the node stays up, a stop completes. |
| `queue_two_workers` | 2 workers of one node, one orphan | Violation: both take the same job and create two tickets. |
| `webhook_claims` | 2 nodes, 5 deliveries of 3 payloads, all faults; 87,312 states | The compare-and-set claim implements `WebhookOnce`. For an acknowledged delivery, one whose claim it met posts the event, unless all of these failed after their claim. |
| `webhook_race` | 2 deliveries of one payload | Violation: the claim in use announces it twice. |
| `notif_calls` | 1 user, 2 calls, 3 recorders, cap 2, KV faults; 777,576 states | Calls and recorders overlap in every way. The marker goes back, an answered call loses its effect and a notification drops out only through writes that had not seen it, failed writes, or the cap. |
| `client_calls` | one request of each kind, any two of them, 2 sessions, 2 retries, all faults; 944,440 states | No refused token again, honest answers, session errors only after the last attempt, every call returns. |
| `identity_calls` | 2 users, 3 accounts of which one is there at the start, 3 overlapping calls, all faults; 1,680,631 states (up to symmetry) | Duplicates only by a search that failed or came too early; mappings are moved, dropped from the index and left by a clearing only through what a call had not seen. |
| `lists_calls` | 2 users, 9 calls of which any 3 are made, cap 2, KV faults and crashes; 695,560 states | However calls overlap and fail, a list keeps its shape, its pages cover it, a change stays unless it is undone by one of the named ways, and answers tell what was done. |
| `timeline_pages` | 6 events of 3 kinds, pages of 1 and 2 | A page made while GLPI rests is the page of the whole timeline, its total and `has_more` are right; a reader who turns pages misses an event only for one removed. |
| `desk_calls` | a user without account, one whom GLPI may take for the technician, the technician, a system administrator; 5 tickets; 15 calls in groups of 2 or 3; all faults; 835,430 states | Roles are those of an account that was found, staff operations are staff's, lists show nobody others' tickets, reopening does not undo unseen work, users find what they created. |

### Bounds, and why they are enough

* `CountCap` caps the counters `tickets`, `tries` and `attempts`; it is at least
  the attempt limit, so the cap is reached only beyond what the properties compare.
* `IndexCap` bounds the ids a write may leave in the index. Duplicated ids arise
  from lost updates; with two jobs a cap of four lets each appear twice.
* `WindowCap` bounds the replay windows per payload to two: a window, its expiry
  and a second one.
* `MaxStored` is 100 in the code and 2 in the run, so that the third event drops one.
* In `notif_calls` one user makes two calls; a second user's calls touch other keys. He
  is an administrator as well, so that he is shown what is not his.
* `MaxTime` is 2: two events in one second and one in the next.
* `TokenCap` and `CallCap` bound sessions and requests made: a session that is
  refused and its replacement, and two requests that get in each other's way. The
  choice of which two among the three kinds covers each pair.
* The retry limit is 2 in the run (3 in the code), which tells a retry up to the limit
  from a single one; the proofs hold for any.
* In `lists_calls`, `CallCap` is three calls: two that overlap and one before or
  after them. `Limit` is 2 where the code has 20 and 200, so that lists full at the
  start forget. `MaxTime` 1 gives two seconds, enough for order and equality.
* In `timeline_pages`, `MaxFetch` is 5 where the code has 1000, so that the last page
  that may be asked for is reached; equal dates and ids across kinds exercise the
  tie. `RemoveCap` is one removal: each adds one to what may be skipped.
* In `desk_calls`, `Together` names the groups of calls that are made in one behaviour:
  three creations of one user over a list of two (so that one is pushed out), two
  creations and a list, a creation, a list and a deletion, and the pairs that pass or
  fail a check, overtake a look or reply. `Worked` is the ticket somebody changes in GLPI,
  and `TurnCap` is one change by an administrator or in GLPI, at any moment.
* In `identity_calls` two accounts can still be created, by three calls: two that make
  a duplicate or lose an index entry to each other, and one that clears between.

Two actors suffice for the races on one key because each value is read and
written by pairs; a third adds only repetitions of the same overlap, and the
proofs do not depend on the number.

`CHECK_DEADLOCK FALSE` stands in the configurations where a fixed set of requests
or calls is made and then nothing more happens. The queue's configurations check
deadlock. `identity_calls` uses symmetry over the calls, which start alike; it has
no liveness property.

### Fairness

A goroutine that has begun goes on: weak fairness of the steps of a worker, a
handler or a request. That is what the Go scheduler gives, as every call to the
network is bounded by a timeout. `BacklogDrains` also needs that GLPI answers in
the sense of the run (no fault that lasts), and it asks only of a node that stays
up. Nothing is fair about an administrator, GLPI's deliveries, the expiry of a key
or a session, a crash, or a stop being asked for.

## What is proved

The modules `...Proofs` hold theorems checked by TLAPS for every value of the
constants that meets the named assumption of its module.

| Module | Theorem | Says |
|---|---|---|
| `RetryQueueProofs` | `TypeCorrect`, `InductiveInvariant` | `IInv` holds with any nodes, workers, jobs, limits and faults |
| | `NoRecordLostUnsettled`, `FailurePostNeverEarly` | the two safety properties of `queue_faults` |
| | `LoneWorkerInvariant`, `OneTicketAtMost`, `RecordsMoveForward` | one ticket per job, no record revived or losing attempts, for a lone worker |
| | `PostsDoNotContradict` | `NoContradictoryPosts`, for a lone worker: no user reads both a ticket's number and a failure |
| | `QueueImplementsLedger` | `KeepsLedger`: a lone worker implements `JobLedger` |
| | `BacklogIsRetained` | `QueuedJobIsRetained`, for a lone worker and a finite backlog |
| | `StopsGetNearer` | a stop waits for at most eight more steps of each worker (safety half of `StopCompletes`) |
| `WebhookProofs` | `WebhookInvariant`, `AtomicClaimPostsOnce`, `AtomicClaimImplementsOnce` | one announcement per window for compare-and-set, and the refinement of `WebhookOnce` |
| | `AnswersAreBacked` | a 200 is backed by a post, one on its way or a visible failure, for either claim (safety half of `AcknowledgedIsAccounted`) |
| `NotificationProofs` | `CenterInvariant`, `MarkerAdvances`, `AnswersAreKept`, `OnlyTheOldestDropOut` | every property of `notif_calls`, for any users, overlapping calls and recorders, caps and KV faults |
| `ClientProofs` | `ClientInvariant`, `RefusedTokensStayAway`, `RetriesAreHonest`, `AuthErrorsAreEarned` | the client's safety for any number of requests and retries |
| | `CallsEnd` | each step of a call lowers the number of its steps left, nothing else raises it (safety half of `EveryCallReturns`) |
| `IdentityProofs` | `IdentityInvariant`, `NoDuplicateUnseen`, `ClearingIsComplete`, `MappingsAreStable`, `ListingKeepsUp` | every property of `identity_calls`, for any users, accounts and overlapping calls |
| `ListProofs` | `ListInvariant`, `ChangeInvariant`, `ChangesStay`, `AnswersAreTrue` | changes and answers of all lists, however calls overlap and fail |
| | `OrderInvariant`, `ListsAreWellFormed`, `PagesCover` | their shape, order and pages |
| `TimelineProofs` | `TimelineInvariant`, `PagesAreExact` | the newest of each source make exactly the page of the whole |
| | `SkipInvariant`, `SkipsAreMadeUpFor` | a reader who turns pages misses no more than was removed meanwhile |
| `DeskProofs` | `DeskInvariant`, `StaffOperationsAreOfStaff`, `OthersTicketsStayUnseen`, `ReopensFinished`, `CreatorsFindTheirTickets` | every property of `desk_calls` |

Each follows the same line: the initial states satisfy an inductive invariant,
each action preserves it, and it implies the property. The invariant is needed
because the properties speak of the stored values, while what breaks them is a
value that some goroutine has read and not yet written back:

* `IInv` of the queue says what the copy in a worker's hands may be: its attempts,
  like the record's, never exceed the rounds that really failed; a worker about to
  drop the record has a ticket or a spent limit to show for it; and nothing knows
  of a job whose handler has not built it yet.
* `LoneInv` adds what a lone worker is sure of: the record of which it holds a copy is
  there and no further on, a job with a record has no ticket but while the worker is
  about to drop the record, and what a user reads is true. `IInv` alone does not give
  this, since two workers may hold copies of one record. For the ledger it is joined by
  `RefusedAreGone`: nothing of a refused or lost submission is left to be retried.
* `BacklogInv` adds that with the handlers gone a worker between the halves of an index
  update has read the index as it is, so no id is lost.
* `WInv` says that deliveries of one payload hold their atomic claims in different
  windows, none later than the current one.
* `AckInv` says that an open window has a delivery that claimed it, and that a delivery
  that has claimed is posted, on its way or has failed. That is enough for those who
  are called replays, on whatever node and by whichever claim.
* `CInv` says that an answered call has its effect or is undone, and that every call
  still to write from a copy without it is among its `undoers`; the same of recorders,
  the lists they have read, and `losers`. The stored list and every copy are newest
  first by the order of recording, which `earlier` remembers.
* `ClientInv` says that a token just issued is known to one request only and that
  one that was refused and cleared never comes back, that the loop variable counts
  what was sent, and that a request under way has had no effect that was not lost.
* `CallsEnd` counts lexicographically: attempts left, then steps left of the attempt.
  It needs `ClientInv` for the bound on the attempts of a request under way.
* `IdInv` says what each call knows at each step: one past its check that is not
  `outdated` has an unmapped user; one about to create has seen no account with the
  address among those it `knew`; one that clears has every stored mapping still before
  it, or its user among the `spared`.
* `ListInv` says that what a handler has read shows every change that was made before
  and that it has not missed and nobody undone; with `KeptUnlessUndone` and `OrderInv`
  it is inductive.
* `OrderInv` says of the lists and of each copy in a call's hands that they are in the
  order of their stamps, hold an id once and are no younger than the clock. A lost
  update writes an older list back, and such a list is in order too.
* `TimelineInv` says that what has been fetched includes the newest of the sources
  asked so far and their number. `PagesAreExact` follows from a lemma about `First`:
  the newest n of a union are among the newest n of its parts.
* `SkipInv` keeps an account over the pages: what the pages have passed and the reader
  has not seen is at most as much as what was on one answer and is gone from the next.
  Two sets, the answers of the last page and those gone, are witnesses carried from
  step to step; a removal puts one event into the second and shifts at most one event
  past the reader.
* `DeskInv` is strengthened in `DeskProofs` by `Prepared`: a call at a later stage of
  a staff operation has passed its check, with a role its user has had; a reopening
  command about to send faces a finished ticket or has been overtaken; a viewer has an
  account or his own ticket. `CopiesAreOfCreations` says that what was read of a list was
  created by its user, and `InReach` that a recorded ticket stands in the list, and in
  every copy that knows of it, with no more behind it than were recorded since.

Each strengthened invariant was an `INVARIANT` of the run of its property before it
was proved, and `StopGetsNearer`, `AnswerIsBacked` and `CallsGetNearer` hold in
`queue_backlog`, `webhook_claims` and `client_calls` when they are added there.

What recursive functions compute is proved without an induction rule over operators:
`ListProofs` derives induction on sets of numbers from the well-founded order of `Nat`
(`Least`, `SetInduction`), then that a function defined by its successor equation
exists (`Iteration`), and applies both to `Without` and to `FlattenSeq`.

Assumptions besides the constants' types: in `Timeline`, that dates follow ids, and the
theorems on a lone worker assume `LoneWorker`: one worker in the cluster, no orphan, no
KV error, crash or ambiguous answer of GLPI. One worker is what the default
configuration promises, not what activation makes of it (`queue_two_workers`); with an
ambiguous answer a second ticket is the expected price of a retry. The handlers of any
number of nodes race freely under it, clients may be missing, and the process may end
after a deactivation. `BacklogIsRetained` assumes moreover that the backlog is finite.
The notification center, identity, lists and desk assume nothing about the order of
calls or the health of the KV store.

Only model-checked: the liveness properties `BacklogDrains`, `StopCompletes`,
`AcknowledgedIsAccounted` and `EveryCallReturns`, since the prover does not treat
fairness; of the last three the safety half is proved, so what is left to the checker is
that the steps are taken. And the two violations, which are runs, not promises.

## Where code and text disagree

* `plugin.json:126` promises one worker by default; activation leaves two
  (`queue_two_workers`).
* `CHANGELOG.md:8` calls the webhook deduplication atomic; the function that is
  atomic is not the one in use (`webhook_race`).

These have a run each. The following were met while reading and modelling, and have
none; the properties are stated so that they hold of the code as it is, and name what
the code may lose.

* `queue.go:41` calls the queue durable; when an append to the index overlaps a pop,
  one of the two is lost and the job is stranded (`QueuedJobIsRetained` with two jobs
  and a dialog at work). A dialog whose process ends before its job is stored is lost
  without an answer (`lost`).
* `webhook.go:92` answers a redelivery as *already processed*. When the node died after
  `routes.go:68` set the key and before the event was handed over, it was not, and every
  redelivery within the window is answered so: the event is lost. That is an excuse of
  `AcknowledgedIsAccounted`, not something it catches.
* `routes.go:348-350` says that after a failed `KVSetWithExpiry` *we still process the
  event*; the function returns an error, and `HandleWebhook` answers 500 without
  processing it (`Release`).
* `client.go:196` says that a request *retries exactly once on an expired session*, and
  `client.go:401` and `client.go:405` speak of a single retry. The loop retries a 401 as
  often as any failure, up to `maxRetries`, 3 by default (`AuthErrorIsEarned`).
* `notifications.go:241` says the marker is advanced *if newer*. It is compared and
  written in two calls: with two calls of a user under way, as *Mark all read* makes
  them, it can go back (the exception in `ReadStaysRead`). The errors of these writes are
  ignored and answered *ok*.
* `cache.go:129` says `AllMappings` returns every stored mapping. Two overlapping
  `addToIndex` calls lose one of two entries with no error anywhere, and a failed read of
  the index forgets all others (the exceptions in `MappingsStayListed`).
* `cache.go:148` says the cache is cleared. Mappings that are not in the index, that could
  not be read or deleted, or that a discovery stores meanwhile survive, and the
  administrator is told all the same (`spared` in `ClearLeavesNothing`).
* `resolver.go:121` says provisioning never duplicates. A search that fails, or two
  provisionings between search and creation, make a second account (`DuplicatesAreBlind`).
* `resolver.go:14` calls a mapping permanent. Two overlapping resolutions of one user both
  find none, and the later save wins, with another account if GLPI answered another
  (the exception in `MappingIsPermanent`).
* `user.go:92` says *exact email match* and searches with *contains*, taking the first
  answer. A user may be mapped to another's account and get its role and its tickets;
  `AccountsFor` stands for what GLPI may answer, and no property denies it.
* `favorites.go:123` says POST adds; a repeated POST removes (`Opposes`).
* `mapping.go:15-17` says My Tickets keeps working. A failed read of the list makes the
  next creation forget all earlier tickets, and of two that overlap one is lost (the
  exceptions in `CreatedAreListed` and `KeptUnlessUndone`).
* `ownership.go:23-24` says that with the mapping disabled everybody but a system
  administrator is an employee. A role stored before goes on counting
  (`resolver.go:38-40`); `StaffOnly` allows it.
* `ownership.go:53-54` says that an employee with an account views only tickets he
  requested. `CanViewTicket` lets him view any (`ownership.go:75-83`), the exception in
  `ShownIsTheirs`.
* `mapping.go:15-17` also promises this for users without an account. For a user who
  gets one later, the tickets filed before drop out of My Tickets: GLPI knows
  them as the plugin's (the exception in `CreatedAreListed`).
* `README.md:76` says that the profiles determine the role. They do when the mapping is
  stored; later changes, and profiles that could not be read then, are not seen until
  an administrator clears the mappings.
* `role.go` ranks managers and supervisors above technicians, while `ownership.go:88-92`
  grants what staff may do to administrators and technicians only: a technician who is
  also a manager loses it.
* `ownership.go:11-12` says every screen goes through the service. The slash commands
  check no role and tell nobody of what they have done.
* `README.md:25` and `README.md:118` describe `/glpi timeline`, which no command
  implements; the timeline is only in the REST API. There everybody but a system
  administrator is told that no further page exists.
* A timeline longer than `maxTimelineFetchCount` says `has_more` on its last page that
  may be asked for; the next one is refused.

## Not modelled

Formatting, parsing and validation of dialogs, commands and REST calls; the texts of
channel and direct messages; GLPI searches, which are single requests, and with them
the lists of assigned tickets, assets, articles and the dashboard; attachments; the
rate limiters, but for the refusal of a search; the webapp; activation and
configuration beyond the queue, the client and the mapping switch; durations.
`PROJECT.json` gives the reason for each component.

## Plan

Done: `RetryQueue` with `JobLedger`, `GLPIClient`, `WebhookDelivery` with `WebhookOnce`,
`NotificationCenter`, `Identity`, `UserLists` with `ListOps`, `Timeline`,
`TicketDesk`. Left, most important first:

1. A composition of `GLPIClient` and `RetryQueue` in which the outcome of a create call
   is the answer of a request rather than a choice.
2. `Lifecycle`: activation, configuration changes, deactivation with its early return,
   the queue and client pointers, and `KillSession` before the queue stops.
3. `Sidebar`: the webapp's requests and their answers in any order, the view a user is
   on, unread counts, *Mark all read*.
4. `RateLimiter` and `Backoff`: the limiter of the slash commands, the client's minimum
   interval, and the delays as 64-bit arithmetic.
