----------------------------- MODULE GLPIClient -----------------------------
(***************************************************************************)
(* The GLPI REST client: server/glpi/client.go, session.go and the upload  *)
(* of document.go.  Goroutines share one Client and its cached session     *)
(* token.  The token is read, stored and cleared under sessionMu, one such *)
(* access at a time; no lock is held over a network call.                  *)
(*                                                                         *)
(* GLPI is external: it opens, refuses, expires and closes sessions.       *)
(***************************************************************************)
EXTENDS Naturals, FiniteSets

CONSTANTS
  Request,     \* calls of the client's operations, one network request each
  KindOf,      \* how a request is sent: doRequest, doRequestRaw or an upload
  MaxRetries,  \* c.maxRetries
  Deactivates, \* TRUE: the plugin is deactivated, which calls KillSession
  Faults,      \* what may go wrong
  TokenCap,    \* bound: sessions expire or are killed before so many are issued
  CallCap      \* bound: how many of the requests are made

Kinds == {"json", "raw", "upload"}

ASSUME ClientAssumption ==
  /\ KindOf \in [Request -> Kinds]
  /\ MaxRetries \in Nat
  /\ Deactivates \in BOOLEAN
  /\ Faults \subseteq {"expiry",   \* GLPI forgets a session
                       "failure",  \* transport errors and 5xx answers
                       "lost",     \* the same, after GLPI has done the work
                       "refusal"}  \* GLPI does not accept the user token
  /\ TokenCap \in Nat
  /\ CallCap \in Nat

VARIABLES
  session,  \* c.session: a token, or 0 for the empty string
  live,     \* GLPI: the tokens it accepts
  issued,   \* GLPI: tokens are numbered from 1 as they are issued
  pc,       \* where a request stands
  attempt,  \* the loop variable of its request loop
  inits,    \* the loop variable of its ensureSession, 0 outside that loop
  token,    \* a token in its hands: new from GLPI, or the header it sends
  refused,  \* history: the tokens GLPI has answered it 401 for
  sends,    \* history: how often it went out
  effects,  \* GLPI: how often it was carried out
  losses,   \* history: how often that was answered by a failure, or not at all
  answer,   \* what the caller was told
  kpc,      \* where KillSession stands
  ktoken    \* the token KillSession has read

glpiVars == <<live, issued>>
workVars == <<effects, losses>>
killVars == <<kpc, ktoken>>
vars == <<session, glpiVars, pc, attempt, inits, token, refused, sends, workVars,
          answer, killVars>>

TypeOK ==
  /\ session \in Nat
  /\ live \subseteq 1..issued /\ issued \in Nat
  /\ pc \in [Request -> {"idle", "ensure", "init", "store", "header", "send",
                         "clear", "done"}]
  /\ attempt \in [Request -> Nat]
  /\ inits \in [Request -> 0..MaxRetries]
  /\ token \in [Request -> Nat]
  /\ refused \in [Request -> SUBSET Nat]
  /\ sends \in [Request -> Nat]
  /\ effects \in [Request -> Nat]
  /\ losses \in [Request -> Nat]
  /\ answer \in [Request -> {"none", "ok", "login", "auth", "error"}]
  /\ kpc \in {"idle", "kill", "clear", "done"}
  /\ ktoken \in Nat

-----------------------------------------------------------------------------
At(r, s) == pc[r] = s
To(r, s) == pc' = [pc EXCEPT ![r] = s]
Answer(r, a) == To(r, "done") /\ answer' = [answer EXCEPT ![r] = a]

Call(r) ==
  /\ At(r, "idle") /\ To(r, "ensure")
  /\ Cardinality({q \in Request : ~At(q, "idle")}) < CallCap
  /\ UNCHANGED <<session, glpiVars, attempt, inits, token, refused, sends, workVars,
                 answer, killVars>>

(* ensureSession *)

Cached(r) ==
  /\ At(r, "ensure") /\ To(r, "header")
  /\ session # 0
  /\ UNCHANGED <<session, glpiVars, attempt, inits, token, refused, sends, workVars,
                 answer, killVars>>

NotCached(r) ==
  /\ At(r, "ensure") /\ To(r, "init")
  /\ session = 0
  /\ inits' = [inits EXCEPT ![r] = 0]
  /\ UNCHANGED <<session, glpiVars, attempt, token, refused, sends, workVars,
                 answer, killVars>>

Issue == issued' = issued + 1 /\ live' = live \cup {issued'}

Login(r) ==
  /\ At(r, "init") /\ To(r, "store")
  /\ Issue
  /\ token' = [token EXCEPT ![r] = issued']
  /\ inits' = [inits EXCEPT ![r] = 0]
  /\ UNCHANGED <<session, attempt, refused, sends, workVars, answer, killVars>>

\* No usable answer.  A session GLPI opened all the same is known to nobody.
LoginFails(r) ==
  /\ At(r, "init")
  /\ Faults \cap {"failure", "lost"} # {}
  /\ IF inits[r] < MaxRetries
     THEN inits' = [inits EXCEPT ![r] = @ + 1] /\ UNCHANGED <<pc, answer>>
     ELSE Answer(r, "login") /\ UNCHANGED inits
  /\ UNCHANGED <<session, glpiVars, attempt, token, refused, sends, workVars, killVars>>

LoginRefused(r) ==
  /\ "refusal" \in Faults
  /\ At(r, "init") /\ Answer(r, "login")
  /\ UNCHANGED <<session, glpiVars, attempt, inits, token, refused, sends, workVars,
                 killVars>>

Store(r) ==
  /\ At(r, "store") /\ To(r, "header")
  /\ session' = token[r]
  /\ UNCHANGED <<glpiVars, attempt, inits, token, refused, sends, workVars, answer,
                 killVars>>

(* doRequestWithRetry, doRequestRaw and uploadDocumentOnce *)

\* The last attempt; doRequestRaw repeats a request only after a 401, once.
Last(r) == IF KindOf[r] = "raw" THEN 1 ELSE MaxRetries

\* Variant: the header of the first attempt is kept.
TakeHeaderOnce(r) ==
  /\ At(r, "header") /\ To(r, "send")
  /\ attempt[r] <= Last(r)
  /\ token' = [token EXCEPT ![r] = IF sends[r] = 0 THEN session ELSE @]
  /\ UNCHANGED <<session, glpiVars, attempt, inits, refused, sends, workVars, answer,
                 killVars>>

\* Variant: attempts are not limited.
TakeHeaderUnlimited(r) ==
  /\ At(r, "header") /\ To(r, "send")
  /\ token' = [token EXCEPT ![r] = session]
  /\ UNCHANGED <<session, glpiVars, attempt, inits, refused, sends, workVars, answer,
                 killVars>>

\* The Session-Token header is filled from the cache, which other requests
\* may have changed since this one left ensureSession.
TakeHeader(r) ==
  /\ At(r, "header") /\ To(r, "send")
  /\ attempt[r] <= Last(r)
  /\ token' = [token EXCEPT ![r] = session]
  /\ UNCHANGED <<session, glpiVars, attempt, inits, refused, sends, workVars, answer,
                 killVars>>

\* The last attempt was answered 401; the session it led to is left to others.
GiveUp(r) ==
  /\ At(r, "header") /\ Answer(r, "auth")
  /\ attempt[r] > Last(r)
  /\ UNCHANGED <<session, glpiVars, attempt, inits, token, refused, sends, workVars,
                 killVars>>

FailureIsRetried(r) == KindOf[r] # "raw" /\ attempt[r] < MaxRetries

Sent(r) == sends' = [sends EXCEPT ![r] = @ + 1]
Done(r) == effects' = [effects EXCEPT ![r] = @ + 1] /\ UNCHANGED losses
Lost(r) == /\ effects' = [effects EXCEPT ![r] = @ + 1]
           /\ losses' = [losses EXCEPT ![r] = @ + 1]

Accepted(r) ==
  /\ At(r, "send") /\ token[r] \in live
  /\ Sent(r) /\ Done(r) /\ Answer(r, "ok")
  /\ UNCHANGED <<session, glpiVars, attempt, inits, token, refused, killVars>>

\* A 4xx or 404 answer, or a success whose body does not decode, is final.
Rejected(r) ==
  /\ At(r, "send") /\ token[r] \in live
  /\ Sent(r) /\ Answer(r, "error")
  /\ UNCHANGED workVars \/ ("lost" \in Faults /\ Lost(r))
  /\ UNCHANGED <<session, glpiVars, attempt, inits, token, refused, killVars>>

\* Variant: the last failure is not returned.
SendFailsOk(r) ==
  /\ At(r, "send")
  /\ Sent(r)
  /\ \/ "failure" \in Faults /\ UNCHANGED workVars
     \/ "lost" \in Faults /\ token[r] \in live /\ Lost(r)
  /\ IF FailureIsRetried(r)
     THEN /\ attempt' = [attempt EXCEPT ![r] = @ + 1]
          /\ To(r, IF KindOf[r] = "json" THEN "send" ELSE "header")
          /\ UNCHANGED answer
     ELSE Answer(r, "ok") /\ UNCHANGED attempt
  /\ UNCHANGED <<session, glpiVars, inits, token, refused, killVars>>

\* Variant: the attempt that failed is not counted.
SendFailsForEver(r) ==
  /\ At(r, "send")
  /\ "failure" \in Faults
  /\ To(r, "header")
  /\ UNCHANGED <<session, glpiVars, attempt, inits, token, refused, sends, workVars,
                 answer, killVars>>

\* A transport error or a 5xx answer is retried; doRequest sends the header it
\* has, an upload reads the cache again.
SendFails(r) ==
  /\ At(r, "send")
  /\ Sent(r)
  /\ \/ "failure" \in Faults /\ UNCHANGED workVars
     \/ "lost" \in Faults /\ token[r] \in live /\ Lost(r)
  /\ IF FailureIsRetried(r)
     THEN /\ attempt' = [attempt EXCEPT ![r] = @ + 1]
          /\ To(r, IF KindOf[r] = "json" THEN "send" ELSE "header")
          /\ UNCHANGED answer
     ELSE Answer(r, "error") /\ UNCHANGED attempt
  /\ UNCHANGED <<session, glpiVars, inits, token, refused, killVars>>

\* GLPI answers 401.  doRequestRaw looks at that once.
Unauthorized(r) ==
  /\ At(r, "send") /\ token[r] \notin live
  /\ Sent(r)
  /\ refused' = [refused EXCEPT ![r] = @ \cup {token[r]}]
  /\ IF KindOf[r] = "raw" /\ attempt[r] > 0
     THEN Answer(r, "error")
     ELSE To(r, "clear") /\ UNCHANGED answer
  /\ UNCHANGED <<session, glpiVars, attempt, inits, token, workVars, killVars>>

\* A request without a session may also be answered 400, which is final.
NoSession(r) ==
  /\ At(r, "send") /\ token[r] = 0
  /\ Sent(r) /\ Answer(r, "error")
  /\ UNCHANGED <<session, glpiVars, attempt, inits, token, refused, workVars, killVars>>

\* Variant: one retry of a 401, as the comments at client.go:196 and 405 have it.
ClearRetriesOnce(r) ==
  /\ At(r, "clear") /\ IF refused[r] = {token[r]} THEN To(r, "ensure") /\ UNCHANGED answer
                      ELSE Answer(r, "auth")
  /\ session' = 0
  /\ attempt' = [attempt EXCEPT ![r] = @ + 1]
  /\ UNCHANGED <<glpiVars, inits, token, refused, sends, workVars, killVars>>

\* The cached token is cleared, be it the refused one or a newer one.
Clear(r) ==
  /\ At(r, "clear") /\ To(r, "ensure")
  /\ session' = 0
  /\ attempt' = [attempt EXCEPT ![r] = @ + 1]
  /\ UNCHANGED <<glpiVars, inits, token, refused, sends, workVars, answer, killVars>>

-----------------------------------------------------------------------------
(* KillSession, and GLPI's own doing. *)

reqVars == <<pc, attempt, inits, token, refused, sends, workVars, answer>>

KillRead ==
  /\ Deactivates
  /\ issued < TokenCap
  /\ kpc = "idle"
  /\ ktoken' = session
  /\ kpc' = IF session = 0 THEN "done" ELSE "kill"
  /\ UNCHANGED <<session, glpiVars, reqVars>>

\* Any answer of GLPI counts; without one the token stays cached.
KillSend ==
  /\ kpc = "kill"
  /\ \/ live' = live \ {ktoken} /\ kpc' = "clear"
     \/ "lost" \in Faults /\ live' = live \ {ktoken} /\ kpc' = "done"
     \/ "failure" \in Faults /\ live' = live /\ kpc' = "done"
  /\ UNCHANGED <<session, issued, reqVars, ktoken>>

KillClear ==
  /\ kpc = "clear" /\ kpc' = "done"
  /\ session' = 0
  /\ UNCHANGED <<glpiVars, reqVars, ktoken>>

Expire(t) ==
  /\ "expiry" \in Faults
  /\ issued < TokenCap
  /\ live' = live \ {t}
  /\ UNCHANGED <<session, issued, reqVars, killVars>>

-----------------------------------------------------------------------------
Init ==
  /\ session = 0
  /\ live = {} /\ issued = 0
  /\ pc = [r \in Request |-> "idle"]
  /\ attempt = [r \in Request |-> 0]
  /\ inits = [r \in Request |-> 0]
  /\ token = [r \in Request |-> 0]
  /\ refused = [r \in Request |-> {}]
  /\ sends = [r \in Request |-> 0]
  /\ effects = [r \in Request |-> 0]
  /\ losses = [r \in Request |-> 0]
  /\ answer = [r \in Request |-> "none"]
  /\ kpc = "idle" /\ ktoken = 0

EnsureNext(r) ==
  Cached(r) \/ NotCached(r) \/ Login(r) \/ LoginFails(r) \/ LoginRefused(r) \/ Store(r)

SendNext(r) ==
  \/ TakeHeader(r) \/ GiveUp(r)
  \/ Accepted(r) \/ Rejected(r) \/ SendFails(r) \/ Unauthorized(r) \/ NoSession(r)
  \/ Clear(r)

Next ==
  \/ \E r \in Request : Call(r) \/ EnsureNext(r) \/ SendNext(r)
  \/ KillRead \/ KillSend \/ KillClear
  \/ \E t \in live : Expire(t)

Spec == Init /\ [][Next]_vars

\* A goroutine that has begun a call goes on, and every network call returns:
\* the http.Client has a timeout.
FairSpec == Spec /\ \A r \in Request : WF_vars(EnsureNext(r) \/ SendNext(r))

-----------------------------------------------------------------------------
(* Properties. *)

\* After a 401 a request never goes out again with the token that was refused
\* to it, whatever other requests clear, open and store meanwhile.
RefusedTokenNotResent ==
  \A r \in Request : At(r, "send") => token[r] \notin refused[r] \ {0}

\* No call goes out more often than its kind allows, 401s and failures taken
\* together (client.go:346, document.go:180).
SendsBounded ==
  \A r \in Request : sends[r] <= Last(r) + 1

\* The answer tells the effect: GLPI carries a request out once for an answer
\* of success and never for another, apart from the times its answer was lost.
\* A retry repeats nothing that was done and reported (client.go:346).
AnswerTellsEffect ==
  \A r \in Request : At(r, "done") =>
    effects[r] = losses[r] + IF answer[r] = "ok" THEN 1 ELSE 0

\* A request fails for its session only after it has gone out MaxRetries + 1
\* times, the last time refused, though a new session could be opened every
\* time: a 401 takes its turn among all attempts (client.go:401).  The comments
\* there and at client.go:196 promise one retry of an expired session; a call
\* that is refused goes on for MaxRetries of them.
AuthErrorIsEarned ==
  \A r \in Request : answer[r] = "auth" => sends[r] = Last(r) + 1

\* Every call returns, however sessions expire and requests fail: from some
\* time on none is under way, each being made once at most.
EveryCallReturns == <>[](\A r \in Request : At(r, "idle") \/ At(r, "done"))

-----------------------------------------------------------------------------
(* The inductive invariant behind the safety properties. *)

\* A token GLPI has just issued to a request is known to that request only; a
\* token is stored once, so one that was refused and cleared never comes back.
TokensAreFresh ==
  /\ session <= issued
  /\ \A r \in Request : token[r] <= issued /\ \A t \in refused[r] : t <= issued
  /\ \A r \in Request : At(r, "store") =>
       /\ token[r] \notin {0, session}
       /\ \A q \in Request : /\ token[r] \notin refused[q]
                             /\ q # r => token[q] # token[r]
  /\ \A r \in Request : session \in refused[r] \ {0} => pc[r] \in {"clear", "done"}

\* The loop variable counts what was sent.
AttemptsCount ==
  \A r \in Request :
    /\ pc[r] \notin {"clear", "done"} =>
         sends[r] = attempt[r] /\ attempt[r] <= Last(r) + 1
    /\ At(r, "send") => attempt[r] <= Last(r)
    /\ At(r, "clear") => sends[r] = attempt[r] + 1 /\ attempt[r] <= Last(r)
    /\ answer[r] # "none" => At(r, "done")

\* Until its last answer, a request has no effect that was not lost.
NothingDoneYet == \A r \in Request : ~At(r, "done") => effects[r] = losses[r]

ClientInv ==
  /\ TypeOK /\ TokensAreFresh /\ RefusedTokenNotResent
  /\ AttemptsCount /\ SendsBounded /\ AuthErrorIsEarned
  /\ NothingDoneYet /\ AnswerTellsEffect

-----------------------------------------------------------------------------
(* The safety half of EveryCallReturns: how many steps a call has before it. *)

\* In which order a request goes through an attempt, and how many steps are
\* left of one when a login of it has failed so often.
StepsOfAttempt(place, failed) ==
  [idle   |-> MaxRetries + 7, ensure |-> MaxRetries + 6,
   init   |-> MaxRetries + 5 - failed, store |-> 4, header |-> 3, send |-> 2,
   clear  |-> 1, done |-> 0][place]

AttemptsLeft(place, made, last) == IF place = "done" THEN 0 ELSE last + 1 - made

StepsLeft(r) ==
  AttemptsLeft(pc[r], attempt[r], Last(r)) * (MaxRetries + 7)
    + StepsOfAttempt(pc[r], inits[r])

\* Each step of a call brings its end nearer, and nothing other calls, GLPI or
\* KillSession do puts it off: no call is kept busy by the sessions others
\* open and clear (client.go:346, session.go:23).
CallsGetNearer ==
  [][\A r \in Request :
       /\ StepsLeft(r) \in Nat /\ StepsLeft(r)' <= StepsLeft(r)
       /\ (Call(r) \/ EnsureNext(r) \/ SendNext(r)) => StepsLeft(r)' < StepsLeft(r)]_vars
=============================================================================
