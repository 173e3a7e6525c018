---------------------------- MODULE WebhookProofs ----------------------------
(* The atomic claim posts an event at most once per replay window, for any   *)
(* number of nodes, deliveries and payloads and under every fault.           *)
EXTENDS WebhookDelivery, TLAPS

\* Nothing is claimed or posted at the start.
LEMMA WInit == Init => WInv
  BY WebhookAssumption
  DEF Init, WInv, TypeOK, ClaimsAreDistinct, Running, Answered, Siblings

\* A step that creates no claim and posts nothing keeps the invariant, as long
\* as it moves no handler to a place where a claim is presupposed.
LEMMA WFrame ==
  ASSUME WInv, UNCHANGED <<windows, won, posted>>, met' \in [Request -> Nat],
         key' \in [Event -> {"none", "permanent", "timed"}],
         \A e \in Event : key'[e] # "none" => windows[e] # 0,
         pc' \in [Request -> {"unsent", "dead"} \cup Running \cup Answered],
         \A r \in Request : pc'[r] = "set" =>
           (pc[r] = "claim" /\ Claiming[EventOf[r]] # "compareAndSet") \/ pc[r] = "set",
         \A r \in Request : pc'[r] \in {"expire", "notify"} => pc[r] \in {"expire", "notify"},
         \A r \in Request : pc'[r] = "unsent" \/ pc'[r] = "claim"
                              => pc[r] = "unsent" \/ pc[r] = "claim"
  PROVE  WInv'
  BY DEF WInv, TypeOK, ClaimsAreDistinct, Siblings

\* A step that takes a claim opens a window of its own if the claim is atomic.
LEMMA WClaim ==
  ASSUME WInv, NEW r \in Request, NEW v \in {"permanent", "timed"}, Take(r, v),
         NEW s \in {"expire", "notify"}, Goto(r, s), posted' = posted, met' = met,
         Claiming[EventOf[r]] = "compareAndSet" => key[EventOf[r]] = "none"
  PROVE  WInv'
<1> DEFINE e == EventOf[r]
<1>1. e \in Event /\ \A t \in Request : EventOf[t] \in Event
  BY WebhookAssumption
<1>2. /\ key' = [key EXCEPT ![e] = v]
      /\ windows' = IF key[e] = "none" THEN [windows EXCEPT ![e] = windows[e] + 1]
                                      ELSE windows
      /\ won' = [won EXCEPT ![r] = windows'[e]]
      /\ pc' = [pc EXCEPT ![r] = s]
  BY DEF Take, Goto
<1>3. /\ windows \in [Event -> Nat] /\ won \in [Request -> Nat]
      /\ key \in [Event -> {"none", "permanent", "timed"}]
      /\ pc \in [Request -> {"unsent", "dead"} \cup Running \cup Answered]
      /\ posted \subseteq Request /\ met \in [Request -> Nat]
  BY DEF WInv, TypeOK
<1>4. /\ windows' \in [Event -> Nat]
      /\ \A d \in Event : windows[d] <= windows'[d]
      /\ key[e] = "none" => windows'[e] = windows[e] + 1
  BY <1>1, <1>2, <1>3
<1>5. windows'[e] # 0
  BY <1>1, <1>2, <1>3, <1>4 DEF WInv, ClaimsAreDistinct
<1>6. \A t \in Request : /\ won'[t] = IF t = r THEN windows'[e] ELSE won[t]
                         /\ pc'[t] = IF t = r THEN s ELSE pc[t]
  BY <1>2, <1>3
<1>7. TypeOK'
  BY <1>1, <1>2, <1>3, <1>4 DEF TypeOK, Running
<1>8. \A d \in Event : key'[d] # "none" => windows'[d] # 0
  <2> TAKE d \in Event
  <2>1. CASE d = e
    BY <2>1, <1>5
  <2>2. CASE d # e
    BY <2>2, <1>1, <1>2, <1>3 DEF WInv, ClaimsAreDistinct
  <2> QED BY <2>1, <2>2
<1>9. \A t \in Request : won'[t] <= windows'[EventOf[t]]
  <2> TAKE t \in Request
  <2>1. won[t] <= windows[EventOf[t]] /\ windows[EventOf[t]] <= windows'[EventOf[t]]
    BY <1>1, <1>4 DEF WInv, ClaimsAreDistinct
  <2>2. won[t] \in Nat /\ windows[EventOf[t]] \in Nat /\ windows'[EventOf[t]] \in Nat
    BY <1>1, <1>3, <1>4
  <2> QED BY <2>1, <2>2, <1>6
<1>10. ASSUME NEW t \in Request, NEW u \in Siblings(t), t # u, won'[t] # 0,
              Claiming[EventOf[t]] = "compareAndSet"
       PROVE  won'[t] # won'[u]
  <2>0. u \in Request /\ EventOf[u] = EventOf[t] /\ t \in Siblings(u)
    BY DEF Siblings
  <2>1. CASE t # r /\ u # r
    BY <2>0, <2>1, <1>6, <1>10 DEF WInv, ClaimsAreDistinct
  <2>2. CASE t = r \/ u = r
    <3>1. EventOf[t] = e /\ EventOf[u] = e /\ windows'[e] = windows[e] + 1
      BY <2>0, <2>2, <1>4, <1>10
    <3>2. won[t] <= windows[e] /\ won[u] <= windows[e]
      BY <2>0, <3>1 DEF WInv, ClaimsAreDistinct
    <3>3. won[t] \in Nat /\ won[u] \in Nat /\ windows[e] \in Nat
      BY <2>0, <1>1, <1>3
    <3> QED BY <2>0, <2>2, <3>1, <3>2, <3>3, <1>6, <1>10
  <2> QED BY <2>1, <2>2
<1>11. \A t \in Request :
         /\ t \in posted' => won'[t] # 0
         /\ pc'[t] \in {"expire", "notify"} => won'[t] # 0
         /\ pc'[t] \in {"unsent", "claim", "set"} => won'[t] = 0
         /\ Claiming[EventOf[t]] = "compareAndSet" => pc'[t] # "set"
  BY <1>5, <1>6 DEF WInv, ClaimsAreDistinct
<1> QED
  BY <1>7, <1>8, <1>9, <1>10, <1>11 DEF WInv, ClaimsAreDistinct, Siblings

\* Every step keeps the invariant.
LEMMA WStep ==
  ASSUME WInv, [Next]_vars
  PROVE  WInv'
<1> USE DEF Running, Answered
<1>0. /\ pc \in [Request -> {"unsent", "dead"} \cup Running \cup Answered]
      /\ key \in [Event -> {"none", "permanent", "timed"}]
      /\ met \in [Request -> Nat] /\ windows \in [Event -> Nat]
      /\ \A r \in Request : EventOf[r] \in Event
      /\ \A e \in Event : key[e] # "none" => windows[e] # 0
  BY WebhookAssumption DEF WInv, TypeOK, ClaimsAreDistinct
<1>m. ASSUME NEW r \in Request PROVE [met EXCEPT ![r] = windows[EventOf[r]]] \in [Request -> Nat]
  BY <1>0
<1>1. ASSUME NEW r \in Request, Receive(r) PROVE WInv'
  BY <1>0, <1>1, WFrame DEF Receive, Goto
<1>2. ASSUME NEW r \in Request, CompareAndSetRefused(r) PROVE WInv'
  <2>1. pc[r] = "claim" /\ UNCHANGED <<key, windows, won, posted>>
    BY <1>2 DEF CompareAndSetRefused, Claims
  <2>2. \E s \in {"replay", "error"} : Goto(r, s)
    BY <1>2 DEF CompareAndSetRefused, Replayed
  <2>3. met' \in [Request -> Nat]
    BY <1>0, <1>2, <1>m DEF CompareAndSetRefused, Replayed
  <2> QED BY <1>0, <2>1, <2>2, <2>3, WFrame DEF Goto
<1>3. ASSUME NEW r \in Request, SetExpiry(r) PROVE WInv'
  <2>0. windows[EventOf[r]] # 0
    <3>1. won[r] # 0 /\ won[r] <= windows[EventOf[r]]
      BY <1>3 DEF SetExpiry, WInv, ClaimsAreDistinct
    <3>2. won[r] \in Nat /\ windows[EventOf[r]] \in Nat
      BY <1>0 DEF WInv, TypeOK
    <3> QED BY <3>1, <3>2
  <2>1. CASE key' = [key EXCEPT ![EventOf[r]] = "timed"] /\ Goto(r, "notify")
    BY <1>0, <1>3, <2>0, <2>1, WFrame DEF SetExpiry, Goto
  <2>2. CASE key' = key /\ Goto(r, "release")
    BY <1>0, <1>3, <2>2, WFrame DEF SetExpiry, Goto
  <2> QED BY <1>3, <2>1, <2>2 DEF SetExpiry
<1>4. ASSUME NEW r \in Request, Release(r) PROVE WInv'
  BY <1>0, <1>4, WFrame DEF Release, Goto
<1>5. ASSUME NEW r \in Request, Notify(r) PROVE WInv'
  <2>1. won[r] # 0
    BY <1>5 DEF Notify, WInv, ClaimsAreDistinct
  <2>2. posted' \subseteq posted \cup {r} /\ UNCHANGED <<key, windows, won, met>>
    BY <1>5 DEF Notify
  <2>3. \A s \in Request : pc'[s] = pc[s] \/ pc'[s] \in {"ok", "dropped"}
    BY <1>0, <1>5 DEF Notify, Goto
  <2>4. pc' \in [Request -> {"unsent", "dead"} \cup Running \cup Answered]
    BY <1>0, <1>5 DEF Notify, Goto
  <2> QED
    BY <2>1, <2>2, <2>3, <2>4 DEF WInv, TypeOK, ClaimsAreDistinct, Siblings
<1>6. ASSUME NEW e \in Event, Expire(e) PROVE WInv'
  BY <1>0, <1>6, WFrame DEF Expire
<1>7. ASSUME NEW n \in Node, Crash(n) PROVE WInv'
  BY <1>0, <1>7, WFrame DEF Crash
<1>8. CASE UNCHANGED vars
  BY <1>8 DEF vars, WInv, TypeOK, ClaimsAreDistinct, Siblings
<1>9. ASSUME NEW r \in Request, DedupeGet(r) PROVE WInv'
  <2>1. pc[r] = "claim" /\ Claiming[EventOf[r]] = "getThenSet" /\ UNCHANGED <<key, windows, won, posted>>
    BY <1>9 DEF DedupeGet, Claims
  <2>2. \E s \in {"replay", "set"} : Goto(r, s)
    BY <1>9 DEF DedupeGet, Replayed
  <2>3. met' \in [Request -> Nat]
    BY <1>0, <1>9, <1>m DEF DedupeGet, Replayed
  <2> QED BY <1>0, <2>1, <2>2, <2>3, WFrame DEF Goto
<1>10. ASSUME NEW r \in Request, DedupeSetFails(r) PROVE WInv'
  BY <1>0, <1>10, WFrame DEF DedupeSetFails, Goto
<1>11. ASSUME NEW r \in Request, DedupeSet(r) PROVE WInv'
  <2>1. Claiming[EventOf[r]] # "compareAndSet"
    BY <1>11 DEF DedupeSet, WInv, ClaimsAreDistinct
  <2> QED BY <1>11, <2>1, WClaim DEF DedupeSet
<1>12. ASSUME NEW r \in Request, CompareAndSet(r) PROVE WInv'
  BY <1>12, WClaim DEF CompareAndSet
<1>13. ASSUME NEW r \in Request, Serve(r) PROVE WInv'
  BY <1>13, <1>2, <1>3, <1>4, <1>5, <1>9, <1>10, <1>11, <1>12 DEF Serve
<1> QED BY <1>1, <1>6, <1>7, <1>8, <1>13 DEF Next

\* The invariant behind the deduplication holds throughout, for the payloads
\* claimed either way (routes.go:50-72 and 334-355).
THEOREM WebhookInvariant == Spec => []WInv
<1> QED BY WInit, WStep, PTL DEF Spec

\* A step that moves neither the windows nor the claims nor the posts is not
\* seen by the abstract specification.
LEMMA OnceStutters ==
  ASSUME UNCHANGED <<windows, won, posted>>
  PROVE  UNCHANGED Once!onceVars
  BY DEF Once!onceVars, Announcements

\* A claim opens a window or overwrites a key that is not atomic; it announces
\* nothing, and what was announced before carries its number still.
LEMMA OnceClaims ==
  ASSUME WInv, NEW r \in Request, NEW v, Take(r, v), posted' = posted, won[r] = 0,
         Claiming[EventOf[r]] = "compareAndSet" => key[EventOf[r]] = "none"
  PROVE  [Once!Next]_(Once!onceVars)
<1> DEFINE e == EventOf[r]
<1>0. e \in Event /\ windows \in [Event -> Nat] /\ won \in [Request -> Nat]
  BY WebhookAssumption DEF WInv, TypeOK
<1>1. r \notin posted
  BY DEF WInv, ClaimsAreDistinct
<1>2. \A s \in posted : won'[s] = won[s]
  BY <1>0, <1>1 DEF Take, WInv, TypeOK
<1>3. \A d \in Atomic : Announcements(d)' = Announcements(d)
  BY <1>2 DEF Announcements
<1>4. CASE e \in Atomic
  <2>1. windows' = [windows EXCEPT ![e] = windows[e] + 1]
    BY <1>4 DEF Take, Atomic
  <2>2. [d \in Atomic |-> windows'[d]]
          = [[d \in Atomic |-> windows[d]] EXCEPT ![e] = [d \in Atomic |-> windows[d]][e] + 1]
    BY <2>1, <1>0, <1>4 DEF Atomic
  <2>3. Once!Open(e)
    BY <2>2, <1>3 DEF Once!Open
  <2> QED BY <2>3, <1>4 DEF Once!Next
<1>5. CASE e \notin Atomic
  <2>1. \A d \in Atomic : windows'[d] = windows[d]
    BY <1>0, <1>5 DEF Take, Atomic
  <2> QED BY <2>1, <1>3 DEF Once!onceVars
<1> QED BY <1>4, <1>5

\* Handing an event over announces it in the window of its claim, in which
\* nobody has announced it.
LEMMA OnceAnnounces ==
  ASSUME WInv, NEW r \in Request, pc[r] = "notify", posted' = posted \cup {r},
         UNCHANGED <<windows, won>>
  PROVE  [Once!Next]_(Once!onceVars)
<1> DEFINE e == EventOf[r]
<1>0. /\ e \in Event /\ windows \in [Event -> Nat] /\ won \in [Request -> Nat]
      /\ posted \subseteq Request
  BY WebhookAssumption DEF WInv, TypeOK
<1>1. won[r] # 0 /\ won[r] <= windows[e]
  BY DEF WInv, ClaimsAreDistinct
<1>2. \A d \in Atomic \ {e} : Announcements(d)' = Announcements(d)
  BY DEF Announcements
<1>3. Announcements(e)' = Announcements(e) \cup {<<won[r], r>>}
  BY DEF Announcements
<1>4. CASE r \in posted \/ e \notin Atomic
  <2>1. \A d \in Atomic : Announcements(d)' = Announcements(d)
    BY <1>2, <1>3, <1>4 DEF Announcements
  <2> QED BY <2>1 DEF Once!onceVars
<1>5. CASE r \notin posted /\ e \in Atomic
  <2>1. \A a \in Announcements(e) : a[1] # won[r]
    BY <1>0, <1>1, <1>5 DEF Announcements, WInv, ClaimsAreDistinct, Siblings, Atomic
  <2>2. won[r] \in 1..windows[e]
    BY <1>0, <1>1
  <2>3. [d \in Atomic |-> Announcements(d)']
          = [[d \in Atomic |-> Announcements(d)] EXCEPT
               ![e] = [d \in Atomic |-> Announcements(d)][e] \cup {<<won[r], r>>}]
    BY <1>2, <1>3, <1>5
  <2>4. Once!Announce(e, won[r], r)
    BY <2>1, <2>3, <1>5 DEF Once!Announce
  <2>5. \E d \in Request, w \in 1..[x \in Atomic |-> windows[x]][e] : Once!Announce(e, w, d)
    BY <2>2, <2>4, <1>5
  <2> QED BY <2>5, <1>5 DEF Once!Next
<1> QED BY <1>4, <1>5

\* Every step of the handlers, of time and of failure is one of these.
LEMMA OnceStep ==
  ASSUME WInv, [Next]_vars
  PROVE  [Once!Next]_(Once!onceVars)
<1> SUFFICES ASSUME ~ UNCHANGED <<windows, won, posted>>
             PROVE  [Once!Next]_(Once!onceVars)
  BY OnceStutters
<1>1. ASSUME NEW r \in Request, DedupeSet(r) PROVE [Once!Next]_(Once!onceVars)
  <2>1. Claiming[EventOf[r]] # "compareAndSet" /\ won[r] = 0
    BY <1>1 DEF DedupeSet, WInv, ClaimsAreDistinct
  <2> QED BY <1>1, <2>1, OnceClaims DEF DedupeSet
<1>2. ASSUME NEW r \in Request, CompareAndSet(r) PROVE [Once!Next]_(Once!onceVars)
  <2>1. won[r] = 0
    BY <1>2 DEF CompareAndSet, Claims, WInv, ClaimsAreDistinct
  <2> QED BY <1>2, <2>1, OnceClaims DEF CompareAndSet
<1>3. ASSUME NEW r \in Request, Notify(r) PROVE [Once!Next]_(Once!onceVars)
  BY <1>3, OnceAnnounces DEF Notify
<1>4. \A r \in Request : ~ (Receive(r) \/ DedupeGet(r) \/ DedupeSetFails(r)
        \/ CompareAndSetRefused(r) \/ SetExpiry(r) \/ Release(r))
  BY DEF Receive, DedupeGet, DedupeSetFails, CompareAndSetRefused, SetExpiry, Release
<1>5. \A e \in Event : ~ Expire(e)
  BY DEF Expire
<1>6. \A n \in Node : ~ Crash(n)
  BY DEF Crash
<1> QED BY <1>1, <1>2, <1>3, <1>4, <1>5, <1>6 DEF Next, Serve, vars

\* The handlers implement WebhookOnce for every payload claimed with
\* compare-and-set (routes.go:334-355): each step opens a window, announces
\* in one that has no announcement yet, or stutters.
THEOREM AtomicClaimImplementsOnce == Spec => AnnouncesOncePerWindow
<1>1. Init => Once!Init
  <2> SUFFICES ASSUME Init PROVE Once!Init
    OBVIOUS
  <2>1. \A e \in Atomic : windows[e] = 0 /\ Announcements(e) = {}
    BY DEF Init, Announcements, Atomic
  <2> QED BY <2>1 DEF Once!Init
<1>2. WInv /\ [Next]_vars => [Once!Next]_(Once!onceVars)
  BY OnceStep
<1> QED BY <1>1, <1>2, WebhookInvariant, PTL DEF Spec, AnnouncesOncePerWindow, Once!Spec

\* With claimWebhookFingerprint, an event is posted at most once in a replay
\* window whatever the nodes, the interleaving, the crashes and the KV errors
\* (routes.go:330-333), even beside payloads that are claimed in the deployed
\* way.  The inductive invariant counts windows: a new claim is always
\* numbered above every older one.
THEOREM AtomicClaimPostsOnce == Spec => []AtomicOncePerWindow
<1>1. Init => WInv
  BY WInit
<1>2. WInv /\ [Next]_vars => WInv'
  BY WStep
<1>3. WInv => AtomicOncePerWindow
  BY DEF WInv, TypeOK, ClaimsAreDistinct, AtomicOncePerWindow
<1> QED BY <1>1, <1>2, <1>3, PTL DEF Spec

\* A claim is taken: a step of r that opens or finds a window and leaves r
\* between its claim and the hand-over.
LEMMA AckClaim ==
  ASSUME AckInv, NEW r \in Request, NEW v \in {"permanent", "timed"}, Take(r, v),
         NEW s \in {"expire", "notify"}, Goto(r, s), posted' = posted, met' = met,
         pc[r] \in {"claim", "set"}
  PROVE  AckInv'
<1> DEFINE e == EventOf[r]
<1>1. /\ e \in Event
      /\ key' = [key EXCEPT ![e] = v]
      /\ windows' = IF key[e] = "none" THEN [windows EXCEPT ![e] = windows[e] + 1]
                                      ELSE windows
      /\ won' = [won EXCEPT ![r] = windows'[e]]
      /\ pc' = [pc EXCEPT ![r] = s]
  BY WebhookAssumption DEF Take, Goto
<1>2. /\ windows \in [Event -> Nat] /\ won \in [Request -> Nat]
      /\ key \in [Event -> {"none", "permanent", "timed"}]
      /\ pc \in [Request -> {"unsent", "dead"} \cup Running \cup Answered]
      /\ posted \subseteq Request /\ met \in [Request -> Nat]
  BY DEF AckInv, TypeOK
<1>3. /\ windows' \in [Event -> Nat] /\ windows'[e] # 0
      /\ windows'[e] \in {windows[e], windows[e] + 1}
  BY <1>1, <1>2 DEF AckInv
<1>4. \A d \in Event \ {e} : windows'[d] = windows[d] /\ key'[d] = key[d]
  BY <1>1, <1>2
<1>5. \A t \in Request : /\ won'[t] = IF t = r THEN windows'[e] ELSE won[t]
                         /\ pc'[t] = IF t = r THEN s ELSE pc[t]
  BY <1>1, <1>2
<1>6. TypeOK'
  BY <1>1, <1>2, <1>3 DEF TypeOK, Running
<1>7. \A d \in Event : key'[d] # "none" => windows'[d] # 0
  BY <1>3, <1>4 DEF AckInv
<1>8. ASSUME NEW d \in Event, NEW w \in 1..windows'[d]
      PROVE  \E t \in Request : EventOf[t] = d /\ won'[t] = w
  <2>0. won[r] = 0
    BY DEF AckInv
  <2>1. CASE d = e /\ w = windows'[e]
    BY <1>5, <2>1
  <2>2. CASE ~ (d = e /\ w = windows'[e])
    <3>1. w \in 1..windows[d]
      BY <1>1, <1>2, <1>3, <1>4, <2>2
    <3>2. PICK t \in Request : EventOf[t] = d /\ won[t] = w
      BY <3>1 DEF AckInv
    <3>3. t # r
      BY <2>0, <3>1, <3>2
    <3> QED BY <1>5, <3>2, <3>3
  <2> QED BY <2>1, <2>2
<1>9. \A t \in Request :
        /\ won'[t] # 0 => t \in posted' \/ pc'[t] \in OnItsWay \cup Failed
        /\ pc'[t] \in {"unsent", "claim", "set"} => won'[t] = 0
        /\ pc'[t] = "ok" => t \in posted'
        /\ pc'[t] = "replay" => met'[t] \in 1..windows'[EventOf[t]]
        /\ pc'[t] \in OnItsWay => windows'[EventOf[t]] # 0
  <2> TAKE t \in Request
  <2>1. EventOf[t] \in Event
    BY WebhookAssumption
  <2>2. /\ windows[EventOf[t]] # 0 => windows'[EventOf[t]] # 0
        /\ 1..windows[EventOf[t]] \subseteq 1..windows'[EventOf[t]]
    BY <2>1, <1>2, <1>3, <1>4
  <2>3. CASE t = r
    BY <2>3, <1>3, <1>5 DEF OnItsWay
  <2>4. CASE t # r
    BY <2>2, <2>4, <1>5 DEF AckInv
  <2> QED BY <2>3, <2>4
<1> QED BY <1>6, <1>7, <1>8, <1>9 DEF AckInv

\* A step that takes no claim: a handler that had claimed goes on, fails or
\* posts, and one becomes a replay only where a window has been opened.
LEMMA AckFrame ==
  ASSUME AckInv, UNCHANGED <<windows, won>>, met' \in [Request -> Nat],
         \A r \in Request : pc[r] = "replay" => met'[r] = met[r],
         key' \in [Event -> {"none", "permanent", "timed"}],
         \A e \in Event : key'[e] # "none" => windows[e] # 0,
         pc' \in [Request -> {"unsent", "dead"} \cup Running \cup Answered],
         posted \subseteq posted', posted' \subseteq Request,
         \A r \in Request :
           \/ pc'[r] = pc[r]
           \/ pc'[r] \in Failed
           \/ pc[r] \in OnItsWay /\ pc'[r] \in OnItsWay
           \/ pc'[r] = "ok" /\ r \in posted'
           \/ pc'[r] = "replay" /\ met'[r] \in 1..windows[EventOf[r]] /\ won[r] = 0
           \/ pc'[r] \in {"claim", "set", "rejected"} /\ won[r] = 0
  PROVE  AckInv'
<1>1. TypeOK'
  BY DEF AckInv, TypeOK
<1>2. \A e \in Event : /\ key'[e] # "none" => windows'[e] # 0
                       /\ \A w \in 1..windows'[e] :
                            \E s \in Request : EventOf[s] = e /\ won'[s] = w
  BY DEF AckInv
<1>3. \A r \in Request :
        /\ won'[r] # 0 => r \in posted' \/ pc'[r] \in OnItsWay \cup Failed
        /\ pc'[r] \in {"unsent", "claim", "set"} => won'[r] = 0
        /\ pc'[r] = "ok" => r \in posted'
        /\ pc'[r] = "replay" => met'[r] \in 1..windows'[EventOf[r]]
        /\ pc'[r] \in OnItsWay => windows'[EventOf[r]] # 0
  BY DEF AckInv, OnItsWay, Failed
<1> QED BY <1>1, <1>2, <1>3 DEF AckInv

LEMMA AckStep ==
  ASSUME AckInv, [Next]_vars
  PROVE  AckInv'
<1>0. /\ pc \in [Request -> {"unsent", "dead"} \cup Running \cup Answered]
      /\ key \in [Event -> {"none", "permanent", "timed"}]
      /\ posted \subseteq Request /\ met \in [Request -> Nat] /\ windows \in [Event -> Nat]
      /\ \A r \in Request : EventOf[r] \in Event
      /\ \A e \in Event : key[e] # "none" => windows[e] # 0
  BY WebhookAssumption DEF AckInv, TypeOK
<1>1. \A r \in Request : pc[r] \in {"unsent", "claim", "set"} => won[r] = 0
  BY DEF AckInv
<1>r. ASSUME NEW r \in Request, Replayed(r), pc[r] = "claim"
      PROVE  /\ met' \in [Request -> Nat] /\ met'[r] \in 1..windows[EventOf[r]]
             /\ \A t \in Request \ {r} : met'[t] = met[t]
  BY <1>0, <1>r DEF Replayed
<1>2. ASSUME NEW r \in Request, Receive(r) PROVE AckInv'
  BY <1>0, <1>1, <1>2, AckFrame DEF Receive, Goto, Running, Answered
<1>3. ASSUME NEW r \in Request, DedupeGet(r) PROVE AckInv'
  <2>1. pc[r] = "claim" /\ UNCHANGED <<key, windows, won, posted>>
    BY <1>3 DEF DedupeGet, Claims
  <2>2. CASE Replayed(r)
    <3>1. Goto(r, "replay")
      BY <2>2 DEF Replayed
    <3> QED BY <1>0, <1>1, <1>r, <2>1, <2>2, <3>1, AckFrame DEF Goto, Running, Answered
  <2>3. CASE Goto(r, "set") /\ UNCHANGED met
    BY <1>0, <1>1, <2>1, <2>3, AckFrame DEF Goto, Running, Answered
  <2> QED BY <1>3, <2>2, <2>3 DEF DedupeGet
<1>4. ASSUME NEW r \in Request, DedupeSet(r) PROVE AckInv'
  BY <1>4, AckClaim DEF DedupeSet
<1>5. ASSUME NEW r \in Request, DedupeSetFails(r) PROVE AckInv'
  BY <1>0, <1>5, AckFrame DEF DedupeSetFails, Goto, Running, Answered, Failed
<1>6. ASSUME NEW r \in Request, CompareAndSet(r) PROVE AckInv'
  BY <1>6, AckClaim DEF CompareAndSet, Claims
<1>7. ASSUME NEW r \in Request, CompareAndSetRefused(r) PROVE AckInv'
  <2>1. pc[r] = "claim" /\ UNCHANGED <<key, windows, won, posted>>
    BY <1>7 DEF CompareAndSetRefused, Claims
  <2>2. CASE Replayed(r)
    <3>1. Goto(r, "replay")
      BY <2>2 DEF Replayed
    <3> QED BY <1>0, <1>1, <1>r, <2>1, <2>2, <3>1, AckFrame DEF Goto, Running, Answered
  <2>3. CASE Goto(r, "error") /\ UNCHANGED met
    BY <1>0, <2>1, <2>3, AckFrame DEF Goto, Running, Answered, Failed
  <2> QED BY <1>7, <2>2, <2>3 DEF CompareAndSetRefused
\* A handler between its claim and the hand-over, whatever comes next.
<1>8. ASSUME NEW r \in Request, SetExpiry(r) PROVE AckInv'
  <2>1. pc[r] = "expire" /\ UNCHANGED <<windows, won, met, posted>>
    BY <1>8 DEF SetExpiry
  <2>2. CASE key' = key /\ Goto(r, "release")
    BY <1>0, <2>1, <2>2, AckFrame DEF Goto, Running, Answered, OnItsWay
  <2>3. CASE key' = [key EXCEPT ![EventOf[r]] = "timed"] /\ Goto(r, "notify")
    <3>1. windows[EventOf[r]] # 0
      BY <2>1 DEF AckInv, OnItsWay
    <3> QED BY <1>0, <2>1, <2>3, <3>1, AckFrame DEF Goto, Running, Answered, OnItsWay
  <2> QED BY <1>8, <2>2, <2>3 DEF SetExpiry
<1>9. ASSUME NEW r \in Request, Release(r) PROVE AckInv'
  <2>1. /\ pc' = [pc EXCEPT ![r] = "error"] /\ UNCHANGED <<windows, won, met, posted>>
        /\ key' \in {key, [key EXCEPT ![EventOf[r]] = "none"]}
    BY <1>9 DEF Release, Goto
  <2> QED BY <1>0, <2>1, AckFrame DEF Running, Answered, Failed
<1>10. ASSUME NEW r \in Request, Notify(r) PROVE AckInv'
  <2>1. UNCHANGED <<key, windows, won, met>>
    BY <1>10 DEF Notify
  <2>2. CASE posted' = posted \cup {r} /\ Goto(r, "ok")
    BY <1>0, <2>1, <2>2, AckFrame DEF Goto, Running, Answered
  <2>3. CASE Goto(r, "dropped") /\ UNCHANGED posted
    BY <1>0, <2>1, <2>3, AckFrame DEF Goto, Running, Answered, Failed
  <2> QED BY <1>10, <2>2, <2>3 DEF Notify
<1>11. ASSUME NEW e \in Event, Expire(e) PROVE AckInv'
  BY <1>0, <1>11, AckFrame DEF Expire
<1>12. ASSUME NEW n \in Node, Crash(n) PROVE AckInv'
  BY <1>0, <1>12, AckFrame DEF Crash, Failed
<1>13. CASE UNCHANGED vars
  BY <1>0, <1>13, AckFrame DEF vars
<1> QED
  BY <1>2, <1>3, <1>4, <1>5, <1>6, <1>7, <1>8, <1>9, <1>10, <1>11, <1>12, <1>13
  DEF Next, Serve

\* The answer 200 is backed at every moment, on the deployed path too: its
\* event is posted, or a delivery whose claim it met is posted, on the way
\* there, or failed after the claim (webhook.go:92, routes.go:50-72).
THEOREM AnswersAreBacked == Spec => []AnswerIsBacked
<1>1. Init => AckInv
  <2> SUFFICES ASSUME Init PROVE AckInv
    OBVIOUS
  <2>1. \A e \in Event : 1..windows[e] = {}
    BY DEF Init
  <2> QED BY <2>1, WebhookAssumption DEF Init, AckInv, TypeOK, Running, Answered, OnItsWay
<1>2. AckInv /\ [Next]_vars => AckInv'
  BY AckStep
<1>3. AckInv => AnswerIsBacked
  <2> SUFFICES ASSUME AckInv, NEW r \in Request
               PROVE  /\ pc[r] = "ok" => r \in posted
                      /\ pc[r] = "replay" =>
                           \E s \in Holders(r) : s \in posted \/ pc[s] \in OnItsWay \cup Failed
    BY DEF AnswerIsBacked
  <2>1. pc[r] = "ok" => r \in posted
    BY DEF AckInv
  <2>2. ASSUME pc[r] = "replay"
        PROVE  \E s \in Holders(r) : s \in posted \/ pc[s] \in OnItsWay \cup Failed
    <3>1. EventOf[r] \in Event /\ met[r] \in 1..windows[EventOf[r]]
      BY <2>2, WebhookAssumption DEF AckInv
    <3>2. PICK s \in Request : EventOf[s] = EventOf[r] /\ won[s] = met[r]
      BY <3>1 DEF AckInv
    <3>3. won[s] # 0
      BY <3>1, <3>2
    <3>4. s \in Holders(r)
      BY <3>2 DEF Holders, Siblings
    <3>5. s \in posted \/ pc[s] \in OnItsWay \cup Failed
      BY <3>3 DEF AckInv
    <3> QED BY <3>4, <3>5
  <2> QED BY <2>1, <2>2
<1> QED BY <1>1, <1>2, <1>3, PTL DEF Spec
=============================================================================
