---------------------------- MODULE ClientProofs ----------------------------
(* The safety of the GLPI client's session handling and retries, for any     *)
(* number of requests, kinds, retry limits and faults.                       *)
EXTENDS GLPIClient, TLAPS

USE DEF At, To, Answer, Sent, Done, Lost, Issue, workVars

\* No request has begun and no token is out.
LEMMA KInit == Init => ClientInv
<1> SUFFICES ASSUME Init PROVE ClientInv
  OBVIOUS
<1>1. TypeOK
  BY ClientAssumption DEF Init, TypeOK
<1>2. TokensAreFresh /\ RefusedTokenNotResent
  BY DEF Init, TokensAreFresh, RefusedTokenNotResent
<1>3. AttemptsCount /\ SendsBounded /\ AuthErrorIsEarned
  BY ClientAssumption DEF Init, AttemptsCount, SendsBounded, AuthErrorIsEarned, Last
<1>4. NothingDoneYet /\ AnswerTellsEffect
  BY DEF Init, NothingDoneYet, AnswerTellsEffect
<1> QED BY <1>1, <1>2, <1>3, <1>4 DEF ClientInv

-----------------------------------------------------------------------------
(* Types. *)

\* Every step is type correct.
LEMMA KType ==
  ASSUME TypeOK, [Next]_vars
  PROVE  TypeOK'
<1> USE ClientAssumption DEF TypeOK
<1>0. 1..issued \subseteq 1..(issued + 1) /\ issued + 1 \in 1..(issued + 1)
  OBVIOUS
<1>1. ASSUME NEW r \in Request, Call(r) PROVE TypeOK'
  BY <1>1 DEF Call, glpiVars, killVars
<1>2. ASSUME NEW r \in Request, EnsureNext(r) PROVE TypeOK'
  <2>1. CASE Cached(r) BY <2>1 DEF Cached, glpiVars, killVars
  <2>2. CASE NotCached(r) BY <2>2 DEF NotCached, glpiVars, killVars
  <2>3. CASE Login(r) BY <1>0, <2>3 DEF Login, killVars
  <2>4. CASE LoginFails(r) BY <2>4 DEF LoginFails, glpiVars, killVars
  <2>5. CASE LoginRefused(r) BY <2>5 DEF LoginRefused, glpiVars, killVars
  <2>6. CASE Store(r) BY <2>6 DEF Store, glpiVars, killVars
  <2> QED BY <1>2, <2>1, <2>2, <2>3, <2>4, <2>5, <2>6 DEF EnsureNext
<1>3. ASSUME NEW r \in Request, SendNext(r) PROVE TypeOK'
  <2>1. CASE TakeHeader(r) BY <2>1 DEF TakeHeader, glpiVars, killVars
  <2>2. CASE GiveUp(r) BY <2>2 DEF GiveUp, glpiVars, killVars
  <2>3. CASE Accepted(r) BY <2>3 DEF Accepted, glpiVars, killVars
  <2>4. CASE Rejected(r) BY <2>4 DEF Rejected, glpiVars, killVars
  <2>5. CASE SendFails(r) BY <2>5 DEF SendFails, glpiVars, killVars
  <2>6. CASE Unauthorized(r) BY <2>6 DEF Unauthorized, glpiVars, killVars
  <2>7. CASE NoSession(r) BY <2>7 DEF NoSession, glpiVars, killVars
  <2>8. CASE Clear(r) BY <2>8 DEF Clear, glpiVars, killVars
  <2> QED BY <1>3, <2>1, <2>2, <2>3, <2>4, <2>5, <2>6, <2>7, <2>8 DEF SendNext
<1>4. CASE KillRead \/ KillSend \/ KillClear \/ \E t \in live : Expire(t)
  <2>1. CASE KillRead BY <2>1 DEF KillRead, glpiVars, reqVars
  <2>2. CASE KillSend BY <2>2 DEF KillSend, reqVars
  <2>3. CASE KillClear BY <2>3 DEF KillClear, glpiVars, reqVars
  <2>4. CASE \E t \in live : Expire(t) BY <2>4 DEF Expire, killVars, reqVars
  <2> QED BY <1>4, <2>1, <2>2, <2>3, <2>4
<1>5. CASE UNCHANGED vars
  BY <1>5 DEF vars, glpiVars, killVars
<1> QED BY <1>1, <1>2, <1>3, <1>4, <1>5 DEF Next

-----------------------------------------------------------------------------
(* Tokens. *)

Tokens == TokensAreFresh /\ RefusedTokenNotResent

\* A step that hands out no token and refuses none keeps what is known of them.
LEMMA TokenFrame ==
  ASSUME TypeOK, Tokens, UNCHANGED <<token, refused, issued>>,
         session' \in {0, session},
         \A r \in Request : pc'[r] \in {"store", "send"} => pc'[r] = pc[r],
         \A r \in Request : session' # 0 /\ pc[r] \in {"clear", "done"}
                              => pc'[r] \in {"clear", "done"}
  PROVE  Tokens'
  BY DEF TypeOK, Tokens, TokensAreFresh, RefusedTokenNotResent

\* A token GLPI issues is greater than every token that is known.
LEMMA TokenIssued ==
  ASSUME TypeOK, Tokens, NEW r \in Request, Login(r) \/ LoginFails(r)
  PROVE  Tokens'
<1>1. \A q \in Request : token[q] \in Nat /\ token[q] <= issued
                           /\ \A t \in refused[q] : t \in Nat /\ t <= issued
  BY DEF TypeOK, Tokens, TokensAreFresh
<1>2. issued \in Nat /\ session \in Nat /\ session <= issued
  BY DEF TypeOK, Tokens, TokensAreFresh
<1>3. CASE Login(r)
  <2>1. \A q \in Request : /\ token'[q] = IF q = r THEN issued + 1 ELSE token[q]
                           /\ pc'[q] = IF q = r THEN "store" ELSE pc[q]
    BY <1>3 DEF Login, TypeOK
  <2>2. issued' = issued + 1 /\ UNCHANGED <<session, refused>>
    BY <1>3 DEF Login
  <2>3. pc[r] = "init"
    BY <1>3 DEF Login
  <2>4. TokensAreFresh'
    <3>1. session' <= issued'
      BY <1>2, <2>2
    <3>2. \A q \in Request : token'[q] <= issued' /\ \A t \in refused'[q] : t <= issued'
      BY <1>1, <1>2, <2>1, <2>2
    <3>3. \A q \in Request : pc'[q] = "store" =>
            /\ token'[q] \notin {0, session'}
            /\ \A p \in Request : /\ token'[q] \notin refused'[p]
                                  /\ p # q => token'[p] # token'[q]
      <4> SUFFICES ASSUME NEW q \in Request, pc'[q] = "store"
                   PROVE  /\ token'[q] \notin {0, session'}
                          /\ \A p \in Request : /\ token'[q] \notin refused'[p]
                                                /\ p # q => token'[p] # token'[q]
        OBVIOUS
      <4>1. CASE q = r
        BY <4>1, <1>1, <1>2, <2>1, <2>2
      <4>2. CASE q # r
        <5>1. token[q] \notin {0, session} /\ \A p \in Request :
                token[q] \notin refused[p] /\ (p # q => token[p] # token[q])
          BY <4>2, <2>1 DEF Tokens, TokensAreFresh
        <5>2. token[q] # issued + 1
          BY <1>1, <1>2
        <5> QED BY <4>2, <2>1, <2>2, <5>1, <5>2
      <4> QED BY <4>1, <4>2
    <3>4. \A q \in Request : session' \in refused'[q] \ {0} => pc'[q] \in {"clear", "done"}
      BY <2>1, <2>2, <2>3 DEF Tokens, TokensAreFresh
    <3> QED BY <3>1, <3>2, <3>3, <3>4 DEF TokensAreFresh
  <2>5. RefusedTokenNotResent'
    BY <2>1, <2>2 DEF Tokens, RefusedTokenNotResent
  <2> QED BY <2>4, <2>5 DEF Tokens
<1>4. CASE LoginFails(r)
  <2>1. UNCHANGED <<session, token, refused>> /\ issued' = issued
    BY <1>4 DEF LoginFails, glpiVars
  <2>2. pc[r] = "init" /\ \A q \in Request : pc'[q] = pc[q] \/ (q = r /\ pc'[q] = "done")
    BY <1>4 DEF LoginFails, TypeOK
  <2>3. \A q \in Request : token[q] <= issued' /\ \A t \in refused[q] : t <= issued'
    BY <1>1, <1>2, <2>1
  <2>4. session <= issued'
    BY <1>2, <2>1
  <2> QED BY <2>1, <2>2, <2>3, <2>4 DEF Tokens, TokensAreFresh, RefusedTokenNotResent
<1> QED BY <1>3, <1>4

\* What is stored is new to the cache and refused to nobody.
LEMMA TokenStored ==
  ASSUME TypeOK, Tokens, NEW r \in Request, Store(r)
  PROVE  Tokens'
<1>1. /\ session' = token[r] /\ pc[r] = "store"
      /\ UNCHANGED <<token, refused, issued>>
      /\ \A q \in Request : pc'[q] = IF q = r THEN "header" ELSE pc[q]
  BY DEF Store, TypeOK, glpiVars
<1>2. \A q \in Request : token[r] \notin refused[q] /\ (q # r => token[q] # token[r])
  BY <1>1 DEF Tokens, TokensAreFresh
<1> QED BY <1>1, <1>2 DEF Tokens, TokensAreFresh, RefusedTokenNotResent

\* What is taken from the cache was not refused to this request.
LEMMA TokenTaken ==
  ASSUME TypeOK, Tokens, NEW r \in Request, TakeHeader(r)
  PROVE  Tokens'
<1>1. /\ pc[r] = "header" /\ UNCHANGED <<session, refused, issued>>
      /\ \A q \in Request : /\ pc'[q] = IF q = r THEN "send" ELSE pc[q]
                            /\ token'[q] = IF q = r THEN session ELSE token[q]
  BY DEF TakeHeader, TypeOK, glpiVars
<1>2. session \notin refused[r] \ {0}
  BY <1>1 DEF Tokens, TokensAreFresh
<1> QED BY <1>1, <1>2 DEF Tokens, TokensAreFresh, RefusedTokenNotResent

\* A token is refused to a request that leaves it there, to clear it or for good.
LEMMA TokenRefused ==
  ASSUME TypeOK, Tokens, NEW r \in Request, Unauthorized(r)
  PROVE  Tokens'
<1>1. /\ pc[r] = "send" /\ UNCHANGED <<session, token, issued>>
      /\ \A q \in Request : refused'[q] = IF q = r THEN refused[r] \cup {token[r]} ELSE refused[q]
      /\ \A q \in Request : q # r => pc'[q] = pc[q]
      /\ pc'[r] \in {"clear", "done"}
  BY DEF Unauthorized, TypeOK, glpiVars
<1>2. \A q \in Request : pc'[q] = "store" => pc[q] = "store" /\ q # r
  BY <1>1
<1> QED BY <1>1, <1>2 DEF Tokens, TokensAreFresh, RefusedTokenNotResent

\* Every step keeps what is known of the tokens.
LEMMA KTokens ==
  ASSUME TypeOK, Tokens, [Next]_vars
  PROVE  Tokens'
<1>1. ASSUME NEW r \in Request, Call(r) \/ Cached(r) \/ NotCached(r) \/ LoginRefused(r)
      PROVE  Tokens'
  BY <1>1, TokenFrame DEF TypeOK, Call, Cached, NotCached, LoginRefused, glpiVars
<1>2. ASSUME NEW r \in Request, GiveUp(r) \/ Accepted(r) \/ Rejected(r) \/ NoSession(r)
      PROVE  Tokens'
  BY <1>2, TokenFrame DEF TypeOK, GiveUp, Accepted, Rejected, NoSession, glpiVars
<1>3. ASSUME NEW r \in Request, SendFails(r) PROVE Tokens'
  <2>1. /\ pc[r] = "send" /\ UNCHANGED <<session, token, refused, issued>>
        /\ \A q \in Request : q # r => pc'[q] = pc[q]
        /\ pc'[r] \in {"send", "header", "done"}
    BY <1>3 DEF SendFails, TypeOK, glpiVars
  <2> QED BY <2>1, TokenFrame
<1>4. ASSUME NEW r \in Request, Clear(r) PROVE Tokens'
  BY <1>4, TokenFrame DEF TypeOK, Clear, glpiVars
<1>5. CASE KillRead \/ KillSend \/ KillClear \/ \E t \in live : Expire(t)
  BY <1>5, TokenFrame DEF KillRead, KillSend, KillClear, Expire, reqVars, glpiVars
<1>6. CASE UNCHANGED vars
  BY <1>6, TokenFrame DEF vars, glpiVars
<1> QED
  BY <1>1, <1>2, <1>3, <1>4, <1>5, <1>6, TokenIssued, TokenStored, TokenTaken,
     TokenRefused DEF Next, EnsureNext, SendNext

-----------------------------------------------------------------------------
(* Attempts and effects of one request. *)

Counts == /\ AttemptsCount /\ SendsBounded /\ AuthErrorIsEarned
          /\ NothingDoneYet /\ AnswerTellsEffect

\* What Counts says of one request, in the values of its variables.
CountsOf(r, p, att, snd, eff, los, ans) ==
  /\ p \notin {"clear", "done"} => snd = att /\ att <= Last(r) + 1
  /\ p = "send" => att <= Last(r)
  /\ p = "clear" => snd = att + 1 /\ att <= Last(r)
  /\ ans # "none" => p = "done"
  /\ snd <= Last(r) + 1
  /\ ans = "auth" => snd = Last(r) + 1
  /\ p # "done" => eff = los
  /\ p = "done" => eff = los + IF ans = "ok" THEN 1 ELSE 0

\* Counts speaks of each request by itself.
LEMMA CountsSplit ==
  /\ Counts <=> \A r \in Request :
       CountsOf(r, pc[r], attempt[r], sends[r], effects[r], losses[r], answer[r])
  /\ Counts' <=> \A r \in Request :
       CountsOf(r, pc'[r], attempt'[r], sends'[r], effects'[r], losses'[r], answer'[r])
  BY DEF Counts, CountsOf, AttemptsCount, SendsBounded, AuthErrorIsEarned,
         NothingDoneYet, AnswerTellsEffect

\* Every step keeps the counts of the request that takes it.
LEMMA KCounts ==
  ASSUME TypeOK, Counts, [Next]_vars
  PROVE  Counts'
<1> DEFINE Of(r)  == CountsOf(r, pc[r], attempt[r], sends[r], effects[r], losses[r], answer[r])
           Now(r) == CountsOf(r, pc'[r], attempt'[r], sends'[r], effects'[r], losses'[r], answer'[r])
<1>0. \A r \in Request : Of(r)
  BY CountsSplit
<1>1. \A r \in Request : /\ Last(r) \in Nat /\ attempt[r] \in Nat /\ sends[r] \in Nat
                         /\ effects[r] \in Nat /\ losses[r] \in Nat
                         /\ KindOf[r] # "raw" => Last(r) = MaxRetries
                         /\ KindOf[r] = "raw" => Last(r) = 1
  BY ClientAssumption DEF TypeOK, Last
<1>2. ASSUME NEW r \in Request, Call(r) \/ EnsureNext(r) \/ SendNext(r)
      PROVE  /\ \A q \in Request \ {r} :
                  /\ pc'[q] = pc[q] /\ attempt'[q] = attempt[q] /\ sends'[q] = sends[q]
                  /\ effects'[q] = effects[q] /\ losses'[q] = losses[q] /\ answer'[q] = answer[q]
             /\ Now(r)
  <2> USE DEF TypeOK, CountsOf
  <2>0. Of(r)
    BY <1>0
  <2>1. CASE Call(r) \/ Cached(r) \/ NotCached(r) \/ Store(r)
    BY <2>0, <2>1 DEF Call, Cached, NotCached, Store
  <2>2. CASE Login(r) \/ LoginFails(r) \/ LoginRefused(r)
    BY <1>1, <2>0, <2>2 DEF Login, LoginFails, LoginRefused
  <2>3. CASE TakeHeader(r) BY <1>1, <2>0, <2>3 DEF TakeHeader
  <2>4. CASE GiveUp(r) BY <1>1, <2>0, <2>4 DEF GiveUp
  <2>5. CASE Accepted(r) BY <1>1, <2>0, <2>5 DEF Accepted
  <2>6. CASE Rejected(r) BY <1>1, <2>0, <2>6 DEF Rejected
  <2>7. CASE SendFails(r) BY <1>1, <2>0, <2>7 DEF SendFails, FailureIsRetried
  <2>8. CASE Unauthorized(r) BY <1>1, <2>0, <2>8 DEF Unauthorized
  <2>9. CASE NoSession(r) BY <1>1, <2>0, <2>9 DEF NoSession
  <2>10. CASE Clear(r) BY <1>1, <2>0, <2>10 DEF Clear
  <2> QED BY <1>2, <2>1, <2>2, <2>3, <2>4, <2>5, <2>6, <2>7, <2>8, <2>9, <2>10
             DEF EnsureNext, SendNext
<1>3. CASE \E r \in Request : Call(r) \/ EnsureNext(r) \/ SendNext(r)
  <2>1. PICK r \in Request : Call(r) \/ EnsureNext(r) \/ SendNext(r)
    BY <1>3
  <2>2. \A q \in Request : Now(q)
    BY <1>0, <1>2, <2>1
  <2> QED BY <2>2, CountsSplit
<1>4. CASE UNCHANGED reqVars
  BY <1>4 DEF reqVars, Counts, AttemptsCount, SendsBounded, AuthErrorIsEarned,
              NothingDoneYet, AnswerTellsEffect
<1> QED BY <1>3, <1>4 DEF Next, KillRead, KillSend, KillClear, Expire, vars, reqVars

-----------------------------------------------------------------------------
\* The inductive invariant: fresh tokens, attempts that count what was sent,
\* effects that match the answers (session.go:29-128, client.go:305-453).
THEOREM ClientInvariant == Spec => []ClientInv
<1>1. ClientInv <=> TypeOK /\ Tokens /\ Counts
  BY DEF ClientInv, Tokens, Counts
<1>2. ClientInv /\ [Next]_vars => ClientInv'
  <2> SUFFICES ASSUME ClientInv, [Next]_vars PROVE ClientInv'
    OBVIOUS
  <2>1. TypeOK' /\ Tokens' /\ Counts'
    BY <1>1, KType, KTokens, KCounts
  <2> QED BY <2>1 DEF ClientInv, Tokens, Counts
<1> QED BY <1>2, KInit, PTL DEF Spec

\* A request never goes out again with a token that was refused to it
\* (client.go:393-411): every token is cached at most once.
THEOREM RefusedTokensStayAway == Spec => []RefusedTokenNotResent
<1>1. ClientInv => RefusedTokenNotResent
  BY DEF ClientInv
<1> QED BY <1>1, ClientInvariant, PTL

\* However 401s and failures mix, the limits on resending hold, an
\* authentication error comes only after the last attempt, and the answer of a
\* request tells whether GLPI carried it out (client.go:346-449).
THEOREM RetriesAreHonest ==
  Spec => [](SendsBounded /\ AuthErrorIsEarned /\ AnswerTellsEffect)
<1>1. ClientInv => SendsBounded /\ AuthErrorIsEarned /\ AnswerTellsEffect
  BY DEF ClientInv
<1> QED BY <1>1, ClientInvariant, PTL

\* A request is answered with an authentication error only after its last
\* attempt was refused or found no session.
THEOREM AuthErrorsAreEarned == Spec => []AuthErrorIsEarned
<1>1. ClientInv => AuthErrorIsEarned
  BY DEF ClientInv
<1> QED BY <1>1, ClientInvariant, PTL

-----------------------------------------------------------------------------
(* Calls end. *)

\* One attempt less is worth more than anything that happens within the next.
LEMMA AttemptIsWorth ==
  ASSUME NEW m \in Nat, NEW n \in Nat, m < n, NEW w \in Nat
  PROVE  m * w + w <= n * w /\ m * w \in Nat /\ n * w \in Nat
<1>1. PICK k \in Nat : n = m + 1 + k
  <2>1. n - m - 1 \in Nat /\ n = m + 1 + (n - m - 1)
    OBVIOUS
  <2> QED BY <2>1
<1>2. n * w = m * w + w + k * w
  BY <1>1
<1>3. k * w \in Nat /\ m * w \in Nat
  OBVIOUS
<1> QED BY <1>2, <1>3

LEMMA StepsTable ==
  ASSUME NEW i
  PROVE  /\ StepsOfAttempt("idle", i) = MaxRetries + 7
         /\ StepsOfAttempt("ensure", i) = MaxRetries + 6
         /\ StepsOfAttempt("init", i) = MaxRetries + 5 - i
         /\ StepsOfAttempt("store", i) = 4
         /\ StepsOfAttempt("header", i) = 3
         /\ StepsOfAttempt("send", i) = 2
         /\ StepsOfAttempt("clear", i) = 1
         /\ StepsOfAttempt("done", i) = 0
  BY DEF StepsOfAttempt

Places == {"idle", "ensure", "init", "store", "header", "send", "clear", "done"}

\* The two parts of the measure are numbers, the lower one no more than an
\* attempt is worth.
LEMMA PartsAreNumbers ==
  ASSUME NEW p \in Places, NEW i \in 0..MaxRetries, NEW a \in Nat, NEW l \in Nat,
         p # "done" => a <= l + 1
  PROVE  /\ AttemptsLeft(p, a, l) \in Nat
         /\ StepsOfAttempt(p, i) \in 0..(MaxRetries + 7)
         /\ p # "done" => StepsOfAttempt(p, i) > 0
<1>1. AttemptsLeft(p, a, l) \in Nat
  BY DEF AttemptsLeft
<1>2. MaxRetries \in Nat
  BY ClientAssumption
<1>3. /\ StepsOfAttempt(p, i) \in 0..(MaxRetries + 7)
      /\ p # "done" => StepsOfAttempt(p, i) > 0
  BY <1>2, StepsTable DEF Places
<1> QED BY <1>1, <1>3

\* The measure goes down with either part, if the other does not make up for it.
LEMMA Nearer ==
  ASSUME NEW a \in Nat, NEW b \in Nat,
         NEW c \in 0..(MaxRetries + 7), NEW d \in 0..(MaxRetries + 7),
         \/ b = a /\ d < c
         \/ b < a /\ d < c + MaxRetries + 7
  PROVE  b * (MaxRetries + 7) + d < a * (MaxRetries + 7) + c
<1>0. PICK w \in Nat : w = MaxRetries + 7
  BY ClientAssumption
<1>1. a * w \in Nat /\ b * w \in Nat
  BY AttemptIsWorth
<1>2. CASE b = a /\ d < c
  BY <1>0, <1>1, <1>2
<1>3. CASE b < a /\ d < c + w
  <2>1. b * w + w <= a * w
    BY <1>3, AttemptIsWorth
  <2> QED BY <2>1, <1>0, <1>1, <1>3
<1>4. d < c + MaxRetries + 7 <=> d < c + w
  BY <1>0, ClientAssumption
<1> QED BY <1>0, <1>2, <1>3, <1>4

\* Where a request is in its loops.
CallInv ==
  \A r \in Request :
    /\ pc[r] \in Places /\ inits[r] \in 0..MaxRetries
    /\ attempt[r] \in Nat /\ Last(r) \in Nat
    /\ pc[r] # "done" => attempt[r] <= Last(r) + 1

LEMMA CallsAreCounted == ClientInv => CallInv
<1> SUFFICES ASSUME ClientInv, NEW r \in Request
             PROVE  /\ pc[r] \in Places /\ inits[r] \in 0..MaxRetries
                    /\ attempt[r] \in Nat /\ Last(r) \in Nat
                    /\ pc[r] # "done" => attempt[r] <= Last(r) + 1
  BY DEF CallInv
<1>1. /\ pc[r] \in Places /\ inits[r] \in 0..MaxRetries
      /\ attempt[r] \in Nat /\ Last(r) \in Nat
  BY ClientAssumption DEF ClientInv, TypeOK, Last, Places
<1>2. pc[r] # "done" => attempt[r] <= Last(r) + 1
  <2>1. CASE pc[r] = "clear"
    BY <2>1, <1>1 DEF ClientInv, AttemptsCount
  <2>2. CASE pc[r] \notin {"clear", "done"}
    BY <2>2 DEF ClientInv, AttemptsCount
  <2> QED BY <2>1, <2>2
<1> QED BY <1>1, <1>2

\* What a step of r does to r: it goes on within its attempt, begins the next
\* one, or ends.
LEMMA StepGoesOn ==
  ASSUME ClientInv, NEW r \in Request, Call(r) \/ EnsureNext(r) \/ SendNext(r)
  PROVE  \/ /\ attempt'[r] = attempt[r]
            /\ <<pc[r], pc'[r]>> \in
                 {<<"idle", "ensure">>, <<"ensure", "header">>, <<"init", "store">>,
                  <<"store", "header">>, <<"header", "send">>, <<"send", "clear">>}
         \/ /\ attempt'[r] = attempt[r]
            /\ pc[r] = "ensure" /\ pc'[r] = "init" /\ inits'[r] = 0
         \/ /\ attempt'[r] = attempt[r]
            /\ pc[r] = "init" /\ pc'[r] = "init" /\ inits'[r] = inits[r] + 1
         \/ /\ attempt'[r] = attempt[r] + 1
            /\ <<pc[r], pc'[r]>> \in
                 {<<"send", "send">>, <<"send", "header">>, <<"clear", "ensure">>}
         \/ pc[r] # "done" /\ pc'[r] = "done"
<1>1. /\ attempt \in [Request -> Nat] /\ inits \in [Request -> 0..MaxRetries]
      /\ pc \in [Request -> Places]
  BY DEF ClientInv, TypeOK, Places
<1>2. CASE Call(r) \/ EnsureNext(r)
  BY <1>1, <1>2 DEF Call, EnsureNext, Cached, NotCached, Login, LoginFails,
                    LoginRefused, Store
<1>3. CASE TakeHeader(r) \/ GiveUp(r) \/ Accepted(r) \/ Rejected(r) \/ NoSession(r)
  BY <1>1, <1>3 DEF TakeHeader, GiveUp, Accepted, Rejected, NoSession
<1>4. CASE SendFails(r)
  BY <1>1, <1>4 DEF SendFails
<1>5. CASE Unauthorized(r) \/ Clear(r)
  BY <1>1, <1>5 DEF Unauthorized, Clear
<1> QED BY <1>2, <1>3, <1>4, <1>5 DEF SendNext

\* So it lowers the measure.
LEMMA StepIsNearer ==
  ASSUME ClientInv, CallInv, CallInv', NEW r \in Request,
         Call(r) \/ EnsureNext(r) \/ SendNext(r)
  PROVE  StepsLeft(r)' < StepsLeft(r)
<1>1. PICK p, q, i, j, a, b, l :
        /\ p = pc[r] /\ q = pc'[r] /\ i = inits[r] /\ j = inits'[r]
        /\ a = attempt[r] /\ b = attempt'[r] /\ l = Last(r)
  OBVIOUS
<1>2. /\ p \in Places /\ q \in Places /\ i \in 0..MaxRetries /\ j \in 0..MaxRetries
      /\ a \in Nat /\ b \in Nat /\ l \in Nat /\ Last(r)' = l
      /\ p # "done" => a <= l + 1
      /\ q # "done" => b <= l + 1
  BY <1>1 DEF CallInv, Last
<1> DEFINE A == AttemptsLeft(p, a, l)
           B == AttemptsLeft(q, b, l)
           C == StepsOfAttempt(p, i)
           D == StepsOfAttempt(q, j)
<1>3. /\ A \in Nat /\ B \in Nat
      /\ C \in 0..(MaxRetries + 7) /\ D \in 0..(MaxRetries + 7)
      /\ p # "done" => C > 0
  BY <1>2, PartsAreNumbers
<1>4. StepsLeft(r) = A * (MaxRetries + 7) + C /\ StepsLeft(r)' = B * (MaxRetries + 7) + D
  BY <1>1, <1>2 DEF StepsLeft
<1>5. \/ b = a /\ <<p, q>> \in
           {<<"idle", "ensure">>, <<"ensure", "header">>, <<"init", "store">>,
            <<"store", "header">>, <<"header", "send">>, <<"send", "clear">>}
      \/ b = a /\ p = "ensure" /\ q = "init" /\ j = 0
      \/ b = a /\ p = "init" /\ q = "init" /\ j = i + 1
      \/ b = a + 1 /\ <<p, q>> \in
           {<<"send", "send">>, <<"send", "header">>, <<"clear", "ensure">>}
      \/ p # "done" /\ q = "done"
  BY <1>1, StepGoesOn
<1>6. MaxRetries \in Nat
  BY ClientAssumption
<1>7. \/ B = A /\ D < C
      \/ B < A /\ D < C + MaxRetries + 7
  <2>1. CASE p # "done" /\ q = "done"
    <3>1. B = 0 /\ D = 0
      BY <2>1, StepsTable DEF AttemptsLeft
    <3> QED BY <3>1, <2>1, <1>3, <1>6
  <2>2. CASE b = a /\ p # "done" /\ q # "done"
    <3>1. B = A
      BY <2>2 DEF AttemptsLeft
    <3>2. D < C
      BY <2>2, <1>2, <1>5, <1>6, StepsTable
    <3> QED BY <3>1, <3>2
  <2>3. CASE b = a + 1 /\ p # "done" /\ q # "done"
    <3>1. B < A
      BY <2>3, <1>2 DEF AttemptsLeft
    <3>2. D < C + MaxRetries + 7
      BY <2>3, <1>2, <1>5, <1>6, StepsTable
    <3> QED BY <3>1, <3>2
  <2> QED BY <1>5, <2>1, <2>2, <2>3
<1>8. B * (MaxRetries + 7) + D < A * (MaxRetries + 7) + C
  <2> HIDE DEF A, B, C, D
  <2> QED BY <1>3, <1>7, Nearer
<1> QED BY <1>4, <1>8

LEMMA MeasureIsNumber == CallInv => \A r \in Request : StepsLeft(r) \in Nat
<1> SUFFICES ASSUME CallInv, NEW r \in Request PROVE StepsLeft(r) \in Nat
  OBVIOUS
<1>0. /\ pc[r] \in Places /\ inits[r] \in 0..MaxRetries
      /\ attempt[r] \in Nat /\ Last(r) \in Nat
      /\ pc[r] # "done" => attempt[r] <= Last(r) + 1
  BY DEF CallInv
<1>1. MaxRetries + 7 \in Nat
  BY ClientAssumption
<1>2. /\ AttemptsLeft(pc[r], attempt[r], Last(r)) \in Nat
      /\ StepsOfAttempt(pc[r], inits[r]) \in 0..(MaxRetries + 7)
  BY <1>0, PartsAreNumbers
<1>3. AttemptsLeft(pc[r], attempt[r], Last(r)) * (MaxRetries + 7) \in Nat
  BY <1>1, <1>2
<1> QED BY <1>1, <1>2, <1>3 DEF StepsLeft

\* A step of r leaves the program counters of all others alone.
LEMMA OthersStay ==
  ASSUME TypeOK, [Next]_vars, NEW r \in Request,
         ~ (Call(r) \/ EnsureNext(r) \/ SendNext(r))
  PROVE  pc'[r] = pc[r] /\ attempt'[r] = attempt[r] /\ inits'[r] = inits[r]
<1>1. ASSUME NEW q \in Request, q # r, Call(q) \/ EnsureNext(q)
      PROVE  pc'[r] = pc[r] /\ attempt'[r] = attempt[r] /\ inits'[r] = inits[r]
  BY <1>1 DEF TypeOK, Call, EnsureNext, Cached, NotCached, Login, LoginFails,
              LoginRefused, Store
<1>2. ASSUME NEW q \in Request, q # r, SendNext(q)
      PROVE  pc'[r] = pc[r] /\ attempt'[r] = attempt[r] /\ inits'[r] = inits[r]
  BY <1>2 DEF TypeOK, SendNext, TakeHeader, GiveUp, Accepted, Rejected, SendFails,
              Unauthorized, NoSession, Clear
<1>3. CASE UNCHANGED reqVars
  BY <1>3 DEF reqVars
<1> QED
  BY <1>1, <1>2, <1>3 DEF Next, KillRead, KillSend, KillClear, Expire, vars, reqVars

\* Each call has so many steps before it, each of its own steps takes at least
\* one away and nothing adds one: a call ends after at most
\* (Last + 2) * (MaxRetries + 7) steps of its own (client.go:346-449,
\* session.go:28-128), if it goes on taking them.
THEOREM CallsEnd == Spec => CallsGetNearer
<1> DEFINE Moves(r) == Call(r) \/ EnsureNext(r) \/ SendNext(r)
<1>1. CallInv => \A r \in Request : StepsLeft(r) \in Nat
  BY MeasureIsNumber
<1>2. ASSUME ClientInv, CallInv, CallInv', \A r \in Request : StepsLeft(r) \in Nat,
             (\A r \in Request : StepsLeft(r) \in Nat)', [Next]_vars
      PROVE  \A r \in Request :
               /\ StepsLeft(r) \in Nat /\ StepsLeft(r)' <= StepsLeft(r)
               /\ Call(r) \/ EnsureNext(r) \/ SendNext(r) => StepsLeft(r)' < StepsLeft(r)
  <2> SUFFICES ASSUME NEW r \in Request
               PROVE  /\ StepsLeft(r)' <= StepsLeft(r)
                      /\ Moves(r) => StepsLeft(r)' < StepsLeft(r)
    BY <1>2
  <2>1. StepsLeft(r) \in Nat /\ StepsLeft(r)' \in Nat
    BY <1>2
  <2>2. CASE Moves(r)
    <3>1. StepsLeft(r)' < StepsLeft(r)
      BY <1>2, <2>2, StepIsNearer
    <3> QED BY <2>1, <3>1
  <2>3. CASE ~ Moves(r)
    <3>1. pc'[r] = pc[r] /\ attempt'[r] = attempt[r] /\ inits'[r] = inits[r]
      BY <1>2, <2>3, OthersStay DEF ClientInv
    <3>2. StepsLeft(r)' = StepsLeft(r)
      BY <3>1 DEF StepsLeft, Last
    <3> QED BY <2>1, <2>3, <3>2
  <2> QED BY <2>2, <2>3
<1>3. Spec => []ClientInv
  BY ClientInvariant
<1>4. ClientInv => CallInv
  BY CallsAreCounted
<1> QED BY <1>1, <1>2, <1>3, <1>4, PTL DEF Spec, CallsGetNearer
=============================================================================
