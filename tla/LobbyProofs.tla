----------------------------- MODULE LobbyProofs ----------------------------
(***************************************************************************)
(* Proofs about LobbySessions, for any numbers of queues and requests and  *)
(* any time-outs: the queue that clients find has a timer, and a session   *)
(* that is used is lost only to a timer that is not its own.               *)
(***************************************************************************)
EXTENDS LobbySessions, TLAPS

(* The session's timer runs no shorter than the session may stay unused.   *)
TimerOutlastsUse ==
  registered # NoQueue /\ session_id[registered] # -1
    => client[registered].left >= SessionTimeout - idle[registered]

LobbyInv == TypeOK /\ RegisteredHasTimer /\ DelayHasRequest /\ TimerOutlastsUse

LEMMA LobbyConstants ==
  /\ RequestTimeout \in Nat /\ SessionTimeout \in Nat /\ RemoveTimeout \in Nat /\ MaxRequests \in Nat
  /\ 0 < RequestTimeout /\ RequestTimeout < SessionTimeout /\ SessionTimeout < RemoveTimeout
  /\ NoQueue \notin Queue /\ NoIp \notin Ip
BY LobbyAssumption

LEMMA TimerFacts ==
  /\ \A call \in {"session_timeout", "session_remove"}, time \in 0 .. RemoveTimeout :
       CallLater(call, time) \in Timer /\ CallLater(call, time) # NoTimer
  /\ \A t \in Timer : t # NoTimer /\ t.left \in 0 .. RemoveTimeout
  /\ \A t \in Timer, time \in 0 .. RemoveTimeout :
       [t EXCEPT !.left = time] \in Timer /\ [t EXCEPT !.left = time].left = time
  /\ NoTimer.left = -1
BY LobbyConstants DEF CallLater, Timer, NoTimer

LEMMA LobbyInit == Init => LobbyInv
BY LobbyConstants DEF Init, LobbyInv, TypeOK, RegisteredHasTimer, DelayHasRequest,
  TimerOutlastsUse, Session, NoDelay

LEMMA RenewedFacts ==
  ASSUME NEW t \in Timer \union {NoTimer}
  PROVE  /\ Renewed(t) \in Timer
         /\ Renewed(t).left = SessionTimeout
<1>1. CASE t = NoTimer BY <1>1, LobbyConstants, TimerFacts DEF Renewed, CallLater
<1>2. CASE t # NoTimer
  <2>1. t \in Timer /\ Renewed(t) = [t EXCEPT !.left = SessionTimeout] BY <1>2 DEF Renewed
  <2>2. SessionTimeout \in 0 .. RemoveTimeout BY LobbyConstants
  <2>3. QED BY <2>1, <2>2, TimerFacts
<1>3. QED BY <1>1, <1>2

(* Every login that succeeds registers the queue with a fresh timer.       *)
LEMMA LoginInv ==
  ASSUME LobbyInv, NEW q \in Queue, NEW session \in Session, NEW ip \in Ip,
         session <= made, Login(q, session, ip)
  PROVE  LobbyInv'
<1> DEFINE t == client'[q]
<1>1. /\ made \in 0 .. MaxRequests /\ made' = made + 1 /\ made' \in 0 .. MaxRequests
      /\ made' \in Session /\ SessionOf(q) \in Session /\ IpOf(q) \in Ip \union {NoIp}
  BY LobbyConstants DEF Login, Request, LobbyInv, TypeOK, Session, SessionOf, IpOf
<1>2. /\ \E timer \in Timer : client' = [client EXCEPT ![q] = timer] /\ timer.left = SessionTimeout
      /\ session_id' \in [Queue -> Session]
      /\ ip_chain' \in [Queue -> Ip \union {NoIp}]
      /\ stray' \in [Queue -> SUBSET (0 .. RemoveTimeout)]
  <2>1. CASE NewSession(q, ip)
    <3>1. CallLater("session_timeout", SessionTimeout) \in Timer
      BY LobbyConstants, TimerFacts
    <3>2. CallLater("session_timeout", SessionTimeout).left = SessionTimeout BY DEF CallLater
    <3>3. client[q] # NoTimer => client[q].left \in 0 .. RemoveTimeout
      BY TimerFacts DEF LobbyInv, TypeOK
    <3>4. stray' \in [Queue -> SUBSET (0 .. RemoveTimeout)]
      BY <2>1, <3>3 DEF NewSession, LobbyInv, TypeOK
    <3>5. QED BY <2>1, <1>1, <3>1, <3>2, <3>4 DEF NewSession, LobbyInv, TypeOK
  <2>2. CASE OldSession(q, session, ip)
    <3>1. client[q] \in Timer \union {NoTimer} BY DEF LobbyInv, TypeOK
    <3>2. Renewed(client[q]) \in Timer /\ Renewed(client[q]).left = SessionTimeout
      BY <3>1, RenewedFacts, Zenon
    <3>3. client' = [client EXCEPT ![q] = Renewed(client[q])]
      BY <2>2 DEF OldSession
    <3>4. QED BY <2>2, <3>2, <3>3 DEF OldSession, LobbyInv, TypeOK
  <2>3. CASE SameAddress(q)
    <3>1. client[q] \in Timer \union {NoTimer} BY DEF LobbyInv, TypeOK
    <3>2. Renewed(client[q]) \in Timer /\ Renewed(client[q]).left = SessionTimeout
      BY <3>1, RenewedFacts, Zenon
    <3>3. client' = [client EXCEPT ![q] = Renewed(client[q])]
      BY <2>3 DEF SameAddress
    <3>4. QED BY <2>3, <1>1, <3>2, <3>3 DEF SameAddress, LobbyInv, TypeOK
  <2>4. QED BY <2>1, <2>2, <2>3 DEF Login
<1>3. /\ registered' = q
      /\ idle' = [idle EXCEPT ![q] = 0]
      /\ UNCHANGED <<delay, requests>>
  BY DEF Login
<1>4. TypeOK'
  BY <1>1, <1>2, <1>3, LobbyConstants DEF LobbyInv, TypeOK
<1>5. RegisteredHasTimer'
  BY <1>2, <1>3, TimerFacts DEF LobbyInv, TypeOK, RegisteredHasTimer
<1>6. TimerOutlastsUse'
  BY <1>2, <1>3, LobbyConstants DEF LobbyInv, TypeOK, TimerOutlastsUse
<1>7. QED BY <1>3, <1>4, <1>5, <1>6 DEF LobbyInv, DelayHasRequest

LEMMA GetStatusInv ==
  ASSUME LobbyInv, NEW q \in Queue, NEW session \in Session, GetStatus(q, session)
  PROVE  LobbyInv'
<1>1. q = registered /\ client[q] # NoTimer /\ client[q] \in Timer
  BY LobbyConstants DEF GetStatus, LobbyInv, TypeOK, RegisteredHasTimer
<1>2. /\ client' = [client EXCEPT ![q] = [client[q] EXCEPT !.left = SessionTimeout]]
      /\ delay' = [delay EXCEPT ![q] = RequestTimeout]
      /\ requests' = [requests EXCEPT ![q] = requests[q] + 1]
      /\ idle' = [idle EXCEPT ![q] = 0]
      /\ made' = made + 1 /\ made < MaxRequests
      /\ UNCHANGED <<registered, session_id, ip_chain, stray>>
  BY DEF GetStatus, Request
<1>3. /\ [client[q] EXCEPT !.left = SessionTimeout] \in Timer
      /\ [client[q] EXCEPT !.left = SessionTimeout].left = SessionTimeout
      /\ [client[q] EXCEPT !.left = SessionTimeout] # NoTimer
  <2>1. SessionTimeout \in 0 .. RemoveTimeout BY LobbyConstants
  <2>2. QED BY <2>1, <1>1, TimerFacts
<1>4. TypeOK'
  BY <1>2, <1>3, LobbyConstants DEF LobbyInv, TypeOK
<1>5. RegisteredHasTimer' /\ TimerOutlastsUse'
  BY <1>1, <1>2, <1>3, LobbyConstants DEF LobbyInv, TypeOK, RegisteredHasTimer, TimerOutlastsUse
<1>6. DelayHasRequest'
  BY <1>2, LobbyConstants DEF LobbyInv, TypeOK, DelayHasRequest
<1>7. QED BY <1>4, <1>5, <1>6 DEF LobbyInv

LEMMA DelayInv ==
  ASSUME LobbyInv, NEW q \in Queue, ResponseFailed(q) \/ DelayedRender(q)
  PROVE  LobbyInv'
<1>1. /\ delay' = [delay EXCEPT ![q] = NoDelay]
      /\ \/ requests' = requests
         \/ requests[q] > 0 /\ requests' = [requests EXCEPT ![q] = requests[q] - 1]
      /\ UNCHANGED <<registered, session_id, ip_chain, client, stray, idle, made>>
  BY DEF ResponseFailed, DelayedRender
<1>2. TypeOK' BY <1>1, LobbyConstants DEF LobbyInv, TypeOK, NoDelay
<1>3. DelayHasRequest' BY <1>1 DEF LobbyInv, TypeOK, DelayHasRequest
<1>4. QED BY <1>1, <1>2, <1>3 DEF LobbyInv, RegisteredHasTimer, TimerOutlastsUse

(* A removal leaves no queue registered; an expiry leaves a removal timer. *)
LEMMA TimeOutInv ==
  ASSUME LobbyInv, NEW q \in Queue,
         SessionTimesOut(q) \/ SessionRemove(q) \/ StraySessionRemove(q)
  PROVE  LobbyInv'
<1>1. CASE SessionTimesOut(q)
  <2>1. CallLater("session_remove", RemoveTimeout) \in Timer /\ CallLater("session_remove", RemoveTimeout) # NoTimer
    BY LobbyConstants, TimerFacts
  <2>2. -1 \in Session BY DEF Session
  <2>3. TypeOK' BY <1>1, <2>1, <2>2 DEF SessionTimesOut, LobbyInv, TypeOK
  <2>4. RegisteredHasTimer' /\ TimerOutlastsUse'
    BY <1>1, <2>1, LobbyConstants
    DEF SessionTimesOut, LobbyInv, TypeOK, RegisteredHasTimer, TimerOutlastsUse
  <2>5. QED BY <1>1, <2>3, <2>4 DEF SessionTimesOut, LobbyInv, DelayHasRequest
<1>2. CASE SessionRemove(q) \/ StraySessionRemove(q)
  <2>1. registered' = NoQueue BY <1>2 DEF SessionRemove, StraySessionRemove, RemoveQueue
  <2>2. TypeOK' BY <1>2, <2>1 DEF SessionRemove, StraySessionRemove, LobbyInv, TypeOK
  <2>3. DelayHasRequest'
    BY <1>2 DEF SessionRemove, StraySessionRemove, LobbyInv, DelayHasRequest
  <2>4. QED BY <2>1, <2>2, <2>3 DEF LobbyInv, RegisteredHasTimer, TimerOutlastsUse
<1>3. QED BY <1>1, <1>2

LEMMA TickInv ==
  ASSUME LobbyInv, Tick
  PROVE  LobbyInv'
<1>1. ASSUME NEW q \in Queue, client[q] # NoTimer
      PROVE  /\ client'[q] \in Timer /\ client'[q] # NoTimer
             /\ client'[q].left = client[q].left - 1
  <2>1. client[q] \in Timer /\ client[q].left # 0 BY <1>1 DEF Tick, Due, LobbyInv, TypeOK
  <2>2. client[q].left - 1 \in 0 .. RemoveTimeout BY <2>1, TimerFacts, LobbyConstants
  <2>3. client'[q] = [client[q] EXCEPT !.left = client[q].left - 1] BY <1>1 DEF Tick
  <2>4. QED BY <2>1, <2>2, <2>3, TimerFacts
<1>2. ASSUME NEW q \in Queue
      PROVE  /\ stray'[q] \in SUBSET (0 .. RemoveTimeout)
             /\ delay'[q] \in -1 .. RequestTimeout
             /\ idle'[q] \in 0 .. SessionTimeout
             /\ idle'[q] >= idle[q]
             /\ idle'[q] = SessionTimeout \/ idle'[q] = idle[q] + 1
             /\ delay'[q] # NoDelay => delay[q] # NoDelay
  <2>1. 0 \notin stray[q] /\ delay[q] # 0 BY DEF Tick, Due
  <2>2. /\ stray[q] \in SUBSET (0 .. RemoveTimeout)
        /\ delay[q] \in -1 .. RequestTimeout
        /\ idle[q] \in 0 .. SessionTimeout
    BY DEF LobbyInv, TypeOK
  <2>3. stray'[q] = {left - 1 : left \in stray[q]} BY DEF Tick
  <2>4. stray'[q] \in SUBSET (0 .. RemoveTimeout) BY <2>1, <2>2, <2>3, LobbyConstants
  <2>5. delay'[q] = IF delay[q] = NoDelay THEN NoDelay ELSE delay[q] - 1 BY DEF Tick
  <2>6. idle'[q] = IF idle[q] < SessionTimeout THEN idle[q] + 1 ELSE idle[q] BY DEF Tick
  <2>7. QED BY <2>1, <2>2, <2>4, <2>5, <2>6, LobbyConstants DEF NoDelay
<1>3. TypeOK'
  <2>1. client' \in [Queue -> Timer \union {NoTimer}]
    <3>1. \A q \in Queue : client'[q] \in Timer \union {NoTimer}
      BY <1>1 DEF Tick
    <3>2. QED BY <3>1 DEF Tick
  <2>2. /\ stray' \in [Queue -> SUBSET (0 .. RemoveTimeout)]
        /\ delay' \in [Queue -> -1 .. RequestTimeout]
        /\ idle' \in [Queue -> 0 .. SessionTimeout]
    <3>1. /\ stray' = [q \in Queue |-> stray'[q]]
          /\ delay' = [q \in Queue |-> delay'[q]]
          /\ idle' = [q \in Queue |-> idle'[q]]
      BY DEF Tick
    <3>2. QED BY <3>1, <1>2
  <2>3. QED BY <2>1, <2>2 DEF Tick, LobbyInv, TypeOK
<1>4. RegisteredHasTimer'
  BY <1>1 DEF Tick, LobbyInv, TypeOK, RegisteredHasTimer
<1>5. DelayHasRequest' BY <1>2 DEF Tick, LobbyInv, DelayHasRequest
<1>6. TimerOutlastsUse'
  <2>1. SUFFICES ASSUME registered # NoQueue, session_id[registered] # -1
                 PROVE  client'[registered].left >= SessionTimeout - idle'[registered]
    BY DEF Tick, TimerOutlastsUse
  <2>2. registered \in Queue /\ client[registered] # NoTimer
    BY <2>1 DEF LobbyInv, TypeOK, RegisteredHasTimer
  <2>3. client[registered].left >= SessionTimeout - idle[registered]
    BY <2>1 DEF LobbyInv, TimerOutlastsUse
  <2>4. client'[registered].left = client[registered].left - 1 /\ client'[registered] \in Timer
    BY <2>2, <1>1
  <2>5. client'[registered].left \in 0 .. RemoveTimeout /\ client[registered].left \in 0 .. RemoveTimeout
    BY <2>2, <2>4, TimerFacts DEF LobbyInv, TypeOK
  <2>6. idle[registered] \in 0 .. SessionTimeout BY <2>2 DEF LobbyInv, TypeOK
  <2>7. idle'[registered] = SessionTimeout \/ idle'[registered] = idle[registered] + 1
    BY <2>2, <1>2
  <2>8. QED BY <2>3, <2>4, <2>5, <2>6, <2>7, LobbyConstants
<1>7. QED BY <1>3, <1>4, <1>5, <1>6 DEF LobbyInv

LEMMA RejectedInv ==
  ASSUME LobbyInv,
         \/ \E session \in Session, ip \in Ip : LoginRejected(session, ip)
         \/ UNCHANGED vars
  PROVE  LobbyInv'
<1>1. /\ UNCHANGED <<registered, session_id, ip_chain, client, stray, delay, requests, idle>>
      /\ made' \in 0 .. MaxRequests
  BY LobbyConstants DEF LoginRejected, Request, vars, LobbyInv, TypeOK
<1>2. QED
  BY <1>1 DEF LobbyInv, TypeOK, RegisteredHasTimer, DelayHasRequest, TimerOutlastsUse

LEMMA LobbyNext == LobbyInv /\ [Next]_vars => LobbyInv'
<1>1. SUFFICES ASSUME LobbyInv, [Next]_vars PROVE LobbyInv' OBVIOUS
<1>2. CASE \E q \in Queue, session \in Session, ip \in Ip :
             session <= made /\ Login(q, session, ip)
  BY <1>2, <1>1, LoginInv
<1>3. CASE \/ \E session \in Session, ip \in Ip : session <= made /\ LoginRejected(session, ip)
           \/ UNCHANGED vars
  BY <1>3, <1>1, RejectedInv
<1>4. CASE \E q \in Queue, session \in Session : GetStatus(q, session)
  BY <1>4, <1>1, GetStatusInv
<1>5. CASE \E q \in Queue : ResponseFailed(q) \/ Fire(q)
  BY <1>5, <1>1, DelayInv, TimeOutInv DEF Fire
<1>6. CASE Tick BY <1>6, <1>1, TickInv
<1>7. QED BY <1>1, <1>2, <1>3, <1>4, <1>5, <1>6 DEF Next

THEOREM LobbyInvariant == Spec => []LobbyInv
BY LobbyInit, LobbyNext, PTL DEF Spec

(* Types.                                                                  *)
THEOREM LobbyTypes == Spec => []TypeOK
<1>1. LobbyInv => TypeOK BY DEF LobbyInv
<1>2. QED BY <1>1, LobbyInvariant, PTL

(* get_status always finds a timer to reset.                               *)
THEOREM RegisteredQueueHasTimer == Spec => []RegisteredHasTimer
<1>1. LobbyInv => RegisteredHasTimer BY DEF LobbyInv
<1>2. QED BY <1>1, LobbyInvariant, PTL

(* A delay runs only for clients that still wait.                          *)
THEOREM DelayIsForSomeone == Spec => []DelayHasRequest
<1>1. LobbyInv => DelayHasRequest BY DEF LobbyInv
<1>2. QED BY <1>1, LobbyInvariant, PTL

(* A session in use is lost to no timer but a stray one.                   *)
THEOREM SessionsInUseSurvive == Spec => UsedSessionsSurvive
<1> DEFINE Step ==
      \A q \in Queue :
        registered = q /\ session_id[q] # -1
          /\ (registered' # q \/ session_id'[q] # session_id[q])
        => idle[q] >= SessionTimeout \/ StrayDue
<1>1. LobbyInv /\ [Next]_vars => [Step]_vars
  <2>1. SUFFICES ASSUME LobbyInv, Next, NEW q \in Queue,
                        registered = q, session_id[q] # -1,
                        registered' # q \/ session_id'[q] # session_id[q]
                 PROVE  idle[q] >= SessionTimeout \/ StrayDue
    OBVIOUS
  <2>2. registered # NoQueue /\ client[q] \in Timer /\ client[q].left \in 0 .. RemoveTimeout
        /\ client[q].left >= SessionTimeout - idle[q] /\ idle[q] \in 0 .. SessionTimeout
    BY <2>1, LobbyConstants, TimerFacts
    DEF LobbyInv, TypeOK, RegisteredHasTimer, TimerOutlastsUse
  <2>3. client[q].left = 0 => idle[q] >= SessionTimeout
    BY <2>2, LobbyConstants
  <2>4. CASE \E r \in Queue, session \in Session, ip \in Ip : Login(r, session, ip)
    BY <2>1, <2>2, <2>4 DEF Login, GetQueue, SessionOf, NewSession, OldSession, SameAddress,
                       LobbyInv, TypeOK
  <2>5. CASE \E r \in Queue : SessionTimesOut(r)
    BY <2>1, <2>3, <2>5 DEF SessionTimesOut, CallLater, LobbyInv, TypeOK
  <2>6. CASE \E r \in Queue : SessionRemove(r)
    BY <2>1, <2>3, <2>6 DEF SessionRemove, CallLater, StrayDue
  <2>7. CASE \E r \in Queue : StraySessionRemove(r)
    BY <2>7 DEF StraySessionRemove, StrayDue
  <2>8. CASE \/ \E session \in Session, ip \in Ip : LoginRejected(session, ip)
             \/ \E r \in Queue, session \in Session : GetStatus(r, session)
             \/ \E r \in Queue : ResponseFailed(r) \/ DelayedRender(r)
             \/ Tick
    BY <2>1, <2>8 DEF LoginRejected, GetStatus, ResponseFailed, DelayedRender, Tick
  <2>9. QED BY <2>1, <2>4, <2>5, <2>6, <2>7, <2>8 DEF Next, Fire
<1>2. QED BY <1>1, LobbyInvariant, PTL DEF Spec, UsedSessionsSurvive

=============================================================================
