---------------------------- MODULE LobbySessions ----------------------------
(* The sessions of the lobby (src/lobby-server.py): logging in, the deferred *)
(* status requests, and the timers that expire a session and then forget it. *)
(* Users do not affect each other, so there is one user name, asked for by   *)
(* clients at several addresses.  The reactor runs one handler at a time.    *)
(*                                                                           *)
(* A queue object outlives its entry in the queue manager while timers or    *)
(* requests refer to it, so there may be several for the name.               *)
EXTENDS Integers, FiniteSets

CONSTANTS
  Queue,          \* queue objects
  NoQueue,        \* none is registered under the name
  Ip,             \* addresses of clients
  NoIp,           \* the address of a new queue
  RequestTimeout, \* REQUEST_TIMEOUT
  SessionTimeout, \* SESSION_TIMEOUT
  RemoveTimeout,  \* SESSION_REMOVE_TIMEOUT
  MaxRequests     \* bound: requests the clients make

ASSUME LobbyAssumption ==
  /\ NoQueue \notin Queue
  /\ NoIp \notin Ip
  /\ {RequestTimeout, SessionTimeout, RemoveTimeout} \subseteq Nat \ {0}
  /\ RequestTimeout < SessionTimeout /\ SessionTimeout < RemoveTimeout
  /\ MaxRequests \in Nat

VARIABLES
  registered, \* the queue get_queue finds under the name
  session_id, \* per queue; -1: none, or expired
  ip_chain,   \* per queue: the address it was logged in from
  client,     \* per queue: timeouts['client']
  stray,      \* per queue: removal timers that timeouts['client'] has forgotten
  delay,      \* per queue: timeouts['delay']
  requests,   \* per queue: deferred requests whose client still waits
  idle,       \* history: time since the queue's session was last used
  made        \* requests made so far; also the next session id

vars == <<registered, session_id, ip_chain, client, stray, delay, requests, idle, made>>

(* A timer is the function it calls and the time left.                       *)
Timer == [call : {"session_timeout", "session_remove"},
          left : 0 .. RemoveTimeout]
NoTimer == [call |-> "none", left |-> -1]
NoDelay == -1

CallLater(call, time) == [call |-> call, left |-> time]

Init ==
  /\ registered = NoQueue
  /\ session_id = [q \in Queue |-> -1]
  /\ ip_chain = [q \in Queue |-> NoIp]
  /\ client = [q \in Queue |-> NoTimer]
  /\ stray = [q \in Queue |-> {}]
  /\ delay = [q \in Queue |-> NoDelay]
  /\ requests = [q \in Queue |-> 0]
  /\ idle = [q \in Queue |-> 0]
  /\ made = 0

Request == made < MaxRequests /\ made' = made + 1

(* ---------------------------------- login -------------------------------- *)

(* Objects that nothing refers to any more.                                  *)
Unused == {q \in Queue : /\ q # registered /\ client[q] = NoTimer /\ stray[q] = {}
                         /\ delay[q] = NoDelay /\ requests[q] = 0}

(* get_queue: the registered queue, or a new one.                            *)
GetQueue(q) ==
  IF registered # NoQueue THEN q = registered ELSE q \in Unused

SessionOf(q) == IF q = registered THEN session_id[q] ELSE -1
IpOf(q) == IF q = registered THEN ip_chain[q] ELSE NoIp

NotRenewed(timer) ==
  IF timer = NoTimer THEN CallLater("session_timeout", SessionTimeout) ELSE timer

(* Resetting keeps the function a timer calls.                               *)
Renewed(timer) ==
  IF timer = NoTimer THEN CallLater("session_timeout", SessionTimeout)
  ELSE [timer EXCEPT !.left = SessionTimeout]

(* The session is given to this client; a timer there was is left running.   *)
NewSession(q, ip) ==
  /\ session_id' = [session_id EXCEPT ![q] = made']
  /\ ip_chain' = [ip_chain EXCEPT ![q] = ip]
  /\ client' = [client EXCEPT ![q] = CallLater("session_timeout", SessionTimeout)]
  /\ stray' = [stray EXCEPT ![q] =
       IF client[q] = NoTimer THEN @ ELSE @ \union {client[q].left}]

(* A client that names a session gets an expired one back, or its own.       *)
OldSession(q, session, ip) ==
  /\ session_id' = [session_id EXCEPT ![q] = session]
  /\ ip_chain' = [ip_chain EXCEPT ![q] = ip]
  /\ client' = [client EXCEPT ![q] = Renewed(@)]
  /\ UNCHANGED stray

(* Someone else's session, or the own one with its id forgotten: the address *)
(* decides, and the answer names the session.                                *)
SameAddress(q) ==
  /\ client' = [client EXCEPT ![q] = Renewed(@)]
  /\ session_id' = [session_id EXCEPT ![q] = SessionOf(q)]
  /\ ip_chain' = [ip_chain EXCEPT ![q] = IpOf(q)]
  /\ UNCHANGED stray

Login(q, session, ip) ==
  /\ Request
  /\ GetQueue(q)
  /\ registered' = q
  /\ \/ /\ session = -1 /\ SessionOf(q) = -1
        /\ NewSession(q, ip)
     \/ /\ session # -1 /\ SessionOf(q) \in {-1, session}
        /\ OldSession(q, session, ip)
     \/ /\ SessionOf(q) # -1 /\ session # SessionOf(q) /\ IpOf(q) = ip
        /\ SameAddress(q)
  /\ idle' = [idle EXCEPT ![q] = 0]
  /\ UNCHANGED <<delay, requests>>

(* 'User already logged in from different IP'                                *)
LoginRejected(session, ip) ==
  /\ Request
  /\ registered # NoQueue
  /\ session_id[registered] \notin {-1, session}
  /\ ip_chain[registered] # ip
  /\ UNCHANGED <<registered, session_id, ip_chain, client, stray, delay, requests, idle>>

(* --------------------------------- status -------------------------------- *)

(* Nothing ever puts messages into a queue, so the request is deferred; the  *)
(* delay of the request before is cancelled.  An expired session has id -1,  *)
(* and a client may send that.                                               *)
GetStatus(q, session) ==
  /\ Request
  /\ q = registered
  /\ session = session_id[q]
  /\ client' = [client EXCEPT ![q].left = SessionTimeout]
  /\ delay' = [delay EXCEPT ![q] = RequestTimeout]
  /\ requests' = [requests EXCEPT ![q] = @ + 1]
  /\ idle' = [idle EXCEPT ![q] = 0]
  /\ UNCHANGED <<registered, session_id, ip_chain, stray>>

(* The client of a deferred request is gone: whatever delay the queue has is *)
(* cancelled (and deleting it fails when there is none).                     *)
ResponseFailed(q) ==
  /\ requests[q] > 0
  /\ requests' = [requests EXCEPT ![q] = @ - 1]
  /\ delay' = [delay EXCEPT ![q] = NoDelay]
  /\ UNCHANGED <<registered, session_id, ip_chain, client, stray, idle, made>>

(* The delay has passed: its entry is deleted, and then the handler fails on *)
(* the undefined name request.                                               *)
DelayedRender(q) ==
  /\ delay[q] = 0
  /\ delay' = [delay EXCEPT ![q] = NoDelay]
  /\ UNCHANGED <<registered, session_id, ip_chain, client, stray, requests, idle, made>>

(* ---------------------------------- timers ------------------------------- *)

SessionTimesOutForGood(q) ==
  /\ client[q] = CallLater("session_timeout", 0)
  /\ session_id' = [session_id EXCEPT ![q] = -1]
  /\ client' = [client EXCEPT ![q] = NoTimer]
  /\ UNCHANGED <<registered, ip_chain, stray, delay, requests, idle, made>>

SessionTimesOut(q) ==
  /\ client[q] = CallLater("session_timeout", 0)
  /\ session_id' = [session_id EXCEPT ![q] = -1]
  /\ client' = [client EXCEPT ![q] = CallLater("session_remove", RemoveTimeout)]
  /\ UNCHANGED <<registered, ip_chain, stray, delay, requests, idle, made>>

RemoveQueueOfExpired ==
  registered' = IF registered # NoQueue /\ session_id[registered] # -1 THEN registered ELSE NoQueue

(* remove_queue deletes what is registered under the name, this queue or not,*)
(* and asserts that something is.                                            *)
RemoveQueue == registered' = NoQueue

SessionRemove(q) ==
  /\ client[q] = CallLater("session_remove", 0)
  /\ RemoveQueue
  /\ client' = [client EXCEPT ![q] = NoTimer]
  /\ UNCHANGED <<session_id, ip_chain, stray, delay, requests, idle, made>>

StraySessionRemove(q) ==
  /\ 0 \in stray[q]
  /\ RemoveQueue
  /\ stray' = [stray EXCEPT ![q] = @ \ {0}]
  /\ UNCHANGED <<session_id, ip_chain, client, delay, requests, idle, made>>

Due(q) == client[q].left = 0 \/ 0 \in stray[q] \/ delay[q] = 0

(* Time passes when no timer is due; idle need not be counted beyond the     *)
(* time-out.                                                                 *)
Tick ==
  /\ \A q \in Queue : ~Due(q)
  /\ \E q \in Queue : client[q] # NoTimer \/ stray[q] # {} \/ delay[q] # NoDelay
  /\ client' = [q \in Queue |->
       IF client[q] = NoTimer THEN NoTimer ELSE [client[q] EXCEPT !.left = @ - 1]]
  /\ stray' = [q \in Queue |-> {left - 1 : left \in stray[q]}]
  /\ delay' = [q \in Queue |-> IF delay[q] = NoDelay THEN NoDelay ELSE delay[q] - 1]
  /\ idle' = [q \in Queue |-> IF idle[q] < SessionTimeout THEN idle[q] + 1 ELSE idle[q]]
  /\ UNCHANGED <<registered, session_id, ip_chain, requests, made>>

Fire(q) ==
  DelayedRender(q) \/ SessionTimesOut(q) \/ SessionRemove(q) \/ StraySessionRemove(q)

(* A client may name no session, or any that was ever given out.             *)
Session == {-1} \union 1 .. MaxRequests

Next ==
  \/ \E q \in Queue, session \in Session, ip \in Ip :
       session <= made /\ Login(q, session, ip)
  \/ \E session \in Session, ip \in Ip : session <= made /\ LoginRejected(session, ip)
  \/ \E q \in Queue, session \in Session : GetStatus(q, session)
  \/ \E q \in Queue : ResponseFailed(q) \/ Fire(q)
  \/ Tick

Spec == Init /\ [][Next]_vars

(* Time passes and the reactor runs timers that are due; requests may cease. *)
FairSpec == Spec /\ WF_vars(Tick) /\ \A q \in Queue : WF_vars(Fire(q))

(* ------------------------------- properties ------------------------------ *)

TypeOK ==
  /\ registered \in Queue \union {NoQueue}
  /\ session_id \in [Queue -> Session]
  /\ ip_chain \in [Queue -> Ip \union {NoIp}]
  /\ client \in [Queue -> Timer \union {NoTimer}]
  /\ stray \in [Queue -> SUBSET (0 .. RemoveTimeout)]
  /\ delay \in [Queue -> -1 .. RequestTimeout]
  /\ requests \in [Queue -> Nat]
  /\ idle \in [Queue -> 0 .. SessionTimeout]
  /\ made \in 0 .. MaxRequests

(* The queue that clients find always has a running timer: get_status resets *)
(* it without a test (line 301), and without it the session would stay.  A   *)
(* timer that removes the queue must therefore be its last.                  *)
RegisteredHasTimer == registered # NoQueue => client[registered] # NoTimer

(* A status request is deferred with a timer only while its client waits:    *)
(* the timer is not called for clients that are all gone.                    *)
DelayHasRequest == \A q \in Queue : delay[q] # NoDelay => requests[q] > 0

(* A removal timer other than the registered queue's own is due.             *)
StrayDue ==
  \E q \in Queue : \/ 0 \in stray[q]
                   \/ q # registered /\ client[q] = CallLater("session_remove", 0)

(* A session is lost only after SESSION_TIMEOUT without use, or to a removal *)
(* timer it does not know of: that of an expired session which a client took *)
(* over without naming it (line 234 overwrites the timer and does not cancel *)
(* it), or of a queue removed in that way.                                   *)
UsedSessionsSurvive ==
  [][\A q \in Queue :
       registered = q /\ session_id[q] # -1
         /\ (registered' # q \/ session_id'[q] # session_id[q])
       => idle[q] >= SessionTimeout \/ StrayDue]_vars

(* When clients cease to ask, the name is forgotten.                         *)
EventuallyForgotten == <>[](registered = NoQueue)

=============================================================================
