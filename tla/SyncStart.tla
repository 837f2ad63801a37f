------------------------------ MODULE SyncStart ------------------------------
(* How the peers of a networked game agree to start it: the part of          *)
(* sync_start_time (src/src/multiplayer.cpp) that follows START.  Every peer *)
(* first confirms that packets of all others reach it; then slot 0 sends     *)
(* pings that say in how much time the game starts and with which delay, and *)
(* the others echo them.                                                     *)
(*                                                                           *)
(* Time passes in ticks of 10 ms, the pause of both loops, and all times are *)
(* relative to the present.  In a tick every peer runs its loop's body once; *)
(* no packet arrives in the tick it is sent in, so the peers may take their  *)
(* turns in the order of their slots.  Packets take a varying time, overtake *)
(* each other and get lost; a packet for a peer that has not come to the     *)
(* loop yet waits in its socket.                                             *)
EXTENDS Integers, FiniteSets, Sequences, SequencesExt, FiniteSetsExt

CONSTANTS
  NPlayers,       \* peers in the game
  LastRound,      \* 1000: rounds of confirming
  ExtraRounds,    \* 50: rounds after everyone was heard
  StartIn,        \* 1000 ms: slot 0 starts the game after this many ticks
  DelayBefore,    \* 500 ms: the delay is computed when fewer ticks are left
  LatencyPerCycle,\* 20*2 ms: latency covered by one cycle of delay
  Latency,        \* the times a packet may take
  MaxLost         \* bound: lost packets

ASSUME SyncAssumption ==
  /\ NPlayers \in Nat \ {0, 1}
  /\ {LastRound, ExtraRounds, StartIn, DelayBefore, LatencyPerCycle} \subseteq Nat \ {0}
  /\ Latency \subseteq Nat \ {0}
  /\ \E longest \in Latency : \A x \in Latency : x <= longest
  /\ MaxLost \in Nat

Peer == 0 .. NPlayers - 1
Master == 0

VARIABLES
  phase,              \* where in sync_start_time each peer is
  m,                  \* round of the confirmation loop
  confirmed_players,  \* the peers each has heard of
  confirmation_point, \* the round in which it had heard of all
  cycle_delay,        \* the delay each peer's controls use
  game_start,         \* slot 0: ticks until the game starts
  announced,          \* slot 0: the delay in its pings, 0 before it is known
  player_nresponses, player_latency, \* slot 0: echoes of each peer's pings
  start_time,         \* the others: the last five advised starts
  net,                \* packets on their way
  lost,               \* packets lost so far
  turn                \* the next peer to run in this tick

masterVars == <<game_start, announced, player_nresponses, player_latency>>
loopVars == <<m, confirmed_players, confirmation_point>>
vars == <<phase, loopVars, cycle_delay, masterVars, start_time, net, lost, turn>>

(* --------------------------------- packets ------------------------------- *)

(* A confirmation is "A", or "a" when its receiver has been heard; a ping    *)
(* "P" carries when it was sent (its id), the advised start and the delay;   *)
(* an echo "E" is the ping sent back.  in: ticks until it arrives.           *)
Confirm(p, q, has_confirm) ==
  [type |-> IF has_confirm THEN "a" ELSE "A", from |-> p, to |-> q]

PingSwapped(q, at, start_in, d) ==
  [type |-> "P", from |-> Master, to |-> q, at |-> at, start |-> d, delay |-> start_in]

Ping(q, at, start_in, d) ==
  [type |-> "P", from |-> Master, to |-> q, at |-> at, start |-> start_in, delay |-> d]

Echo(p, ping) == [type |-> "E", from |-> p, to |-> Master, at |-> ping.at]

Packet ==
  [type : {"a", "A"}, from : Peer, to : Peer]
    \union [type : {"P"}, from : {Master}, to : Peer,
            at : Nat, start : Nat, delay : Nat]
    \union [type : {"E"}, from : Peer, to : {Master}, at : Nat]

Arrived(p) == {x.packet : x \in {y \in net : y.packet.to = p /\ y.in = 0}}

(* The packets a peer has read leave the network, those it sends enter it    *)
(* with some latency each, or are lost.                                      *)
Exchange(p, sends) ==
  \E gone \in SUBSET sends, takes \in [sends -> Latency] :
    /\ \A x \in gone : takes[x] = Min(Latency)
    /\ lost' = lost + Cardinality(gone)
    /\ lost' <= MaxLost
    /\ net' = {x \in net : ~(x.packet.to = p /\ x.in = 0)}
                \union {[packet |-> x, in |-> takes[x]] : x \in sends \ gone}

EndTurn(p) == turn = p /\ turn' = p + 1

(* ------------------------------ confirmation ----------------------------- *)

Init ==
  /\ phase = [p \in Peer |-> "launching"]
  /\ m = [p \in Peer |-> 0]
  /\ confirmed_players = [p \in Peer |-> {p}]
  /\ confirmation_point = [p \in Peer |-> LastRound]
  /\ cycle_delay = [p \in Peer |-> 0]
  /\ game_start = StartIn
  /\ announced = 0
  /\ player_nresponses = [p \in Peer |-> 0]
  /\ player_latency = [p \in Peer |-> 0]
  /\ start_time = [p \in Peer |-> << >>]
  /\ net = {}
  /\ lost = 0
  /\ turn = 0

(* START has arrived: the peer enters the confirmation loop.                 *)
Launch(p) ==
  /\ phase[p] = "launching"
  /\ phase' = [phase EXCEPT ![p] = "confirming"]
  /\ EndTurn(p)
  /\ UNCHANGED <<loopVars, cycle_delay, masterVars, start_time, net, lost>>

StaysInLoopBelow(round, confirmed, point) ==
  \/ round < LastRound /\ Cardinality(confirmed) < NPlayers
  \/ round < point + ExtraRounds

(* The loop's condition, with the precedence C++ gives it.                   *)
StaysInLoop(round, confirmed, point) ==
  \/ round # LastRound /\ Cardinality(confirmed) < NPlayers
  \/ round < point + ExtraRounds

(* Rounds past the last value the condition distinguishes are one round.     *)
NextRound(round) == Min({round + 1, LastRound + ExtraRounds + 1})

Heard(p) == {x.from : x \in {y \in Arrived(p) : y.type \in {"a", "A"}}}

(* One round; what only the loop uses is forgotten with it.                  *)
ConfirmationRound(p) ==
  LET confirmed == confirmed_players[p] \union Heard(p)
      point == IF Cardinality(confirmed) >= NPlayers /\ m[p] < confirmation_point[p]
               THEN m[p] ELSE confirmation_point[p]
      stays == StaysInLoop(NextRound(m[p]), confirmed, point)
  IN
  /\ phase[p] = "confirming"
  /\ Exchange(p, {Confirm(p, q, q \in confirmed_players[p]) : q \in Peer \ {p}})
  /\ m' = [m EXCEPT ![p] = IF stays THEN NextRound(m[p]) ELSE 0]
  /\ confirmed_players' = [confirmed_players EXCEPT ![p] = IF stays THEN confirmed ELSE {p}]
  /\ confirmation_point' = [confirmation_point EXCEPT ![p] = IF stays THEN point ELSE LastRound]
  /\ phase' = [phase EXCEPT ![p] =
       IF stays THEN "confirming"
       ELSE IF Cardinality(confirmed) < NPlayers THEN "failed" ELSE "handshake"]
  /\ cycle_delay' = IF phase'[p] = "handshake" THEN [cycle_delay EXCEPT ![p] = 3] ELSE cycle_delay
  /\ EndTurn(p)
  /\ UNCHANGED <<masterVars, start_time>>

(* -------------------------- handshake of slot 0 -------------------------- *)

AverageLatency(q) == player_latency[q] \div player_nresponses[q]

Responding == {q \in Peer \ {Master} : player_nresponses[q] > 0}

(* The largest delay a responding peer needs, 0 if none has responded.       *)
NeededDelay == Max({0} \union {AverageLatency(q) \div LatencyPerCycle + 2 : q \in Responding})

AnnounceAgain ==
  IF game_start < DelayBefore THEN NeededDelay ELSE announced

(* Until the start is near, the delay is not set; then it is set once.        *)
Announce ==
  IF game_start < DelayBefore /\ announced = 0 THEN NeededDelay ELSE announced

StartAdvisoryAdding(q) ==
  IF q \in Responding THEN Max({0, game_start + AverageLatency(q) \div 2}) ELSE game_start

StartAdvisory(q) ==
  IF q \in Responding THEN Max({0, game_start - AverageLatency(q) \div 2}) ELSE game_start

Echoes(q) == {x \in Arrived(Master) : x.type = "E" /\ x.from = q}

(* Answers to confirmations of peers that are still in their loop.           *)
ConfirmAnswers(p) ==
  {Confirm(p, x.from, TRUE) : x \in {y \in Arrived(p) : y.type = "A"}}

MasterRound ==
  /\ phase[Master] = "handshake"
  /\ game_start > 0
  /\ announced' = Announce
  /\ cycle_delay' = IF announced' # announced
                    THEN [cycle_delay EXCEPT ![Master] = announced'] ELSE cycle_delay
  /\ Exchange(Master,
       {Ping(q, game_start, StartAdvisory(q), announced') : q \in Peer \ {Master}}
         \union ConfirmAnswers(Master))
  /\ player_nresponses' = [q \in Peer |-> player_nresponses[q] + Cardinality(Echoes(q))]
  /\ player_latency' = [q \in Peer |->
       player_latency[q] + SumFunction([x \in Echoes(q) |-> x.at - game_start])]
  /\ EndTurn(Master)
  /\ UNCHANGED <<phase, loopVars, game_start, start_time>>

MasterStarts ==
  /\ phase[Master] = "handshake"
  /\ game_start <= 0
  /\ phase' = [phase EXCEPT ![Master] = "started"]
  /\ announced' = 0
  /\ player_nresponses' = [q \in Peer |-> 0]
  /\ player_latency' = [q \in Peer |-> 0]
  /\ EndTurn(Master)
  /\ UNCHANGED <<loopVars, cycle_delay, game_start, start_time, net, lost>>

(* ------------------------- handshake of the others ----------------------- *)

LastFive(s) == IF Len(s) > 5 THEN SubSeq(s, Len(s) - 4, Len(s)) ELSE s

TimeToStartAfterFive(times) == Len(times) > 5 /\ SumFunction(times) \div Len(times) <= 0

(* The average of the advised starts has come.                               *)
TimeToStart(times) == Len(times) > 0 /\ SumFunction(times) \div Len(times) <= 0

(* Every ping read advises a start, tells the delay if it knows it, and is   *)
(* sent back; then the peer looks whether it is time.                        *)
SlaveRound(p) ==
  LET pings == {x \in Arrived(p) : x.type = "P"}
      told == {x.delay : x \in pings} \ {0}
  IN
  /\ p # Master
  /\ phase[p] = "handshake"
  /\ \E order \in SetToSeqs(pings) :
       LET times == LastFive(start_time[p] \o [i \in DOMAIN order |-> order[i].start])
       IN IF TimeToStart(times)
          THEN /\ phase' = [phase EXCEPT ![p] = "started"]
               /\ start_time' = [start_time EXCEPT ![p] = << >>]
          ELSE /\ start_time' = [start_time EXCEPT ![p] = times]
               /\ UNCHANGED phase
  /\ \E d \in IF told = {} THEN {cycle_delay[p]} ELSE told :
       cycle_delay' = [cycle_delay EXCEPT ![p] = d]
  /\ Exchange(p, {Echo(p, x) : x \in pings} \union ConfirmAnswers(p))
  /\ EndTurn(p)
  /\ UNCHANGED <<loopVars, masterVars>>

(* ---------------------------------- time --------------------------------- *)

(* A peer with nothing to do in this tick: not launched yet, gone, or        *)
(* playing, when it takes what arrives for packets of the game.              *)
Idle(p) ==
  /\ phase[p] \in {"launching", "failed", "started"}
  /\ net' = IF phase[p] = "launching" THEN net ELSE {x \in net : x.packet.to # p}
  /\ EndTurn(p)
  /\ UNCHANGED <<phase, loopVars, cycle_delay, masterVars, start_time, lost>>

Sooner(x) == [x EXCEPT !.in = Max({0, x.in - 1})]

(* Nothing tells apart times further back: a start advised as long ago is    *)
(* over in every average, and slot 0 plays longer than a packet may take.    *)
Overdue == -(2 * Max(Latency) + StartIn)

Tick ==
  /\ turn = NPlayers
  /\ turn' = 0
  /\ net' = {Sooner(x) : x \in net}
  /\ game_start' = IF phase[Master] \in {"handshake", "started"}
                   THEN Max({Overdue, game_start - 1}) ELSE game_start
  /\ start_time' = [p \in Peer |->
       [i \in DOMAIN start_time[p] |-> Max({Overdue, start_time[p][i] - 1})]]
  /\ UNCHANGED <<phase, loopVars, cycle_delay, announced, player_nresponses,
                 player_latency, lost>>

Run(p) == ConfirmationRound(p) \/ SlaveRound(p) \/ Idle(p)

Next ==
  \/ Tick
  \/ \E p \in Peer : Launch(p) \/ Run(p)
  \/ MasterRound
  \/ MasterStarts

Spec == Init /\ [][Next]_vars

(* Every loop runs on: time passes.                                          *)
FairSpec == Spec /\ WF_vars(Next)

(* ------------------------------- properties ------------------------------ *)

(* Types; at most five advised starts are kept (line 468), and packets come  *)
(* from the two loops only.                                                  *)
TypeOK ==
  /\ phase \in [Peer -> {"launching", "confirming", "handshake", "started", "failed"}]
  /\ m \in [Peer -> 0 .. LastRound + ExtraRounds + 1]
  /\ confirmed_players \in [Peer -> SUBSET Peer]
  /\ confirmation_point \in [Peer -> 0 .. LastRound]
  /\ cycle_delay \in [Peer -> Nat]
  /\ game_start \in Overdue .. StartIn
  /\ announced \in Nat
  /\ player_nresponses \in [Peer -> Nat]
  /\ player_latency \in [Peer -> Nat]
  /\ start_time \in [Peer -> Seq(Int)] /\ \A p \in Peer : Len(start_time[p]) <= 5
  /\ \A x \in net : x.packet \in Packet /\ x.in \in 0 .. Max(Latency)
  /\ lost \in 0 .. MaxLost
  /\ turn \in 0 .. NPlayers

(* As long as fewer packets are lost than slot 0 sends pings between setting *)
(* the delay and the start, all peers play with one delay, though each takes *)
(* it from whichever pings it got and has 3 before: with different delays    *)
(* get_control_status would use inputs of different cycles on each peer.     *)
SameDelay ==
  \A p, q \in Peer :
    phase[p] = "started" /\ phase[q] = "started" => cycle_delay[p] = cycle_delay[q]

(* Slot 0 may set the delay while a peer misses its pings, but it sets it     *)
(* once (line 367): however many pings are lost or overtaken, a peer plays    *)
(* with slot 0's delay or still with 3, never with a third one.               *)
OneDelay ==
  \A p \in Peer :
    phase[p] \in {"handshake", "started"} => cycle_delay[p] \in {3, cycle_delay[Master]}

(* The peers start together: no peer starts ahead of slot 0 by more than      *)
(* latencies vary, whatever is lost.  Averaging and the correction by half    *)
(* the round trip (lines 398-406, 467, 487) are to achieve this.              *)
NoneStartsEarly ==
  \A p \in Peer :
    phase[p] = "started" /\ phase[Master] = "handshake"
      => game_start <= Max(Latency) - Min(Latency)

(* None that has heard a ping still waits when slot 0 has played for longer   *)
(* than a packet may take: advice that was not corrected, because slot 0 had  *)
(* no echo yet, is late by the way of the ping only.                          *)
NoneStartsLate ==
  \A p \in Peer :
    phase[p] = "handshake" /\ start_time[p] # << >> => game_start >= -Max(Latency)

(* When few packets are lost, so that later pings outweigh the uncorrected    *)
(* ones, it does not wait longer than latencies vary.                         *)
StartsOnTime ==
  \A p \in Peer :
    phase[p] = "handshake" /\ start_time[p] # << >> /\ phase[Master] = "started"
      => game_start >= Min(Latency) - Max(Latency)

(* When all peers come to the loop, all start the game: a peer that has      *)
(* heard everyone goes on sending, and answering, for those that have not    *)
(* heard it (lines 282, 440 and 481), and slot 0 sends enough pings.         *)
EveryoneStarts ==
  (\A p \in Peer : <>(phase[p] # "launching")) => <>(\A p \in Peer : phase[p] = "started")

(* After the loop comes "COULD NOT CONFIRM NETWORK CONNECTION TO ALL PEERS"  *)
(* and an error (line 341), and no peer ever comes to it: the loop is left   *)
(* only by peers that have heard everyone.                                   *)
ConfirmationNeverFails == \A p \in Peer : phase[p] # "failed"

(* A peer that cannot reach the others gives up, as that message says.  The  *)
(* code does not: round 1000 fails only the first half of the loop's         *)
(* condition, and from round 1001 on that half holds again.                  *)
ConfirmationEnds == \A p \in Peer : phase[p] = "confirming" ~> phase[p] # "confirming"

=============================================================================
