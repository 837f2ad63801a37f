-------------------------- MODULE SyncStartProofs ---------------------------
(***************************************************************************)
(* Proofs about sync_start_time, for any number of players, rounds,        *)
(* latencies and losses: the error after the confirmation loop is never    *)
(* reached, all peers play with slot 0's delay or still with 3, and none   *)
(* starts early or late by more than latencies explain.  When few packets  *)
(* are lost (FewLosses, FewLossesForTime), all play with slot 0's delay,   *)
(* and none starts later than latencies vary.                              *)
(***************************************************************************)
EXTENDS SyncStart, FiniteSetTheorems, SequenceTheorems, WellFoundedInduction, TLAPS

(* Packets name a peer as their sender.                                    *)
NetInv ==
  \A x \in net : x = [packet |-> x.packet, in |-> x.in] /\ x.packet.from \in Peer

(* A peer that has found its confirmation point has heard everyone, so the *)
(* loop's condition depends on the number of rounds alone from then on.    *)
Phase == {"launching", "confirming", "handshake", "started", "failed"}

LoopInv ==
  /\ m \in [Peer -> Nat]
  /\ confirmed_players \in [Peer -> SUBSET Peer]
  /\ confirmation_point \in [Peer -> 0 .. LastRound]
  /\ phase \in [Peer -> Phase]
  /\ \A p \in Peer : confirmation_point[p] < LastRound
                       => Cardinality(confirmed_players[p]) >= NPlayers
  /\ ConfirmationNeverFails

ConfirmInv == NetInv /\ LoopInv

LEMMA PeerFacts ==
  /\ NPlayers \in Nat /\ LastRound \in Nat /\ ExtraRounds \in Nat /\ ExtraRounds > 0
  /\ Master \in Peer
  /\ \A S \in SUBSET Peer : IsFiniteSet(S) /\ Cardinality(S) \in Nat
<1>1. NPlayers \in Nat /\ LastRound \in Nat /\ ExtraRounds \in Nat /\ ExtraRounds > 0 /\ NPlayers > 0
  BY SyncAssumption
<1>2. IsFiniteSet(Peer)
  <2>1. 0 \in Int /\ NPlayers - 1 \in Int BY <1>1
  <2>2. QED BY <2>1, FS_Interval, Zenon DEF Peer
<1>3. \A S \in SUBSET Peer : IsFiniteSet(S) /\ Cardinality(S) \in Nat
  BY <1>2, FS_Subset, FS_CardinalityType, Zenon
<1>4. Master \in Peer BY <1>1 DEF Master, Peer
<1>5. QED BY <1>1, <1>3, <1>4

LEMMA MinPair ==
  ASSUME NEW a \in Int, NEW b \in Int
  PROVE  Min({a, b}) \in {a, b}
<1>1. \E x \in {a, b} : \A y \in {a, b} : x =< y
  <2>1. CASE a =< b BY <2>1
  <2>2. CASE b =< a BY <2>2
  <2>3. QED BY <2>1, <2>2
<1>2. QED BY <1>1 DEF Min

(* Reading and sending packets of peers keeps the packets' senders peers.  *)
LEMMA ExchangeNet ==
  ASSUME NetInv, NEW p \in Peer, NEW sends, Exchange(p, sends),
         \A x \in sends : x.from \in Peer
  PROVE  NetInv'
<1>1. PICK gone \in SUBSET sends, takes \in [sends -> Latency] :
        net' = {x \in net : ~(x.packet.to = p /\ x.in = 0)}
                 \union {[packet |-> x, in |-> takes[x]] : x \in sends \ gone}
  BY DEF Exchange
<1>2. SUFFICES ASSUME NEW x \in net'
               PROVE  x = [packet |-> x.packet, in |-> x.in] /\ x.packet.from \in Peer
  BY DEF NetInv
<1>3. CASE x \in net BY <1>3 DEF NetInv
<1>4. CASE \E y \in sends \ gone : x = [packet |-> y, in |-> takes[y]]
  BY <1>4
<1>5. QED BY <1>1, <1>2, <1>3, <1>4

LEMMA NextRoundNat == ASSUME NEW r \in Nat PROVE NextRound(r) \in Nat
<1>1. r + 1 \in Int /\ LastRound + ExtraRounds + 1 \in Int BY PeerFacts
<1>2. NextRound(r) \in {r + 1, LastRound + ExtraRounds + 1}
  BY <1>1, MinPair, Zenon DEF NextRound
<1>3. QED BY <1>2, PeerFacts

LEMMA ConfirmationRoundInv ==
  ASSUME ConfirmInv, NEW p \in Peer, ConfirmationRound(p)
  PROVE  ConfirmInv'
<1> DEFINE c == confirmed_players[p] \union Heard(p)
           n == Cardinality(c)
           point == IF n >= NPlayers /\ m[p] < confirmation_point[p]
                    THEN m[p] ELSE confirmation_point[p]
           round == NextRound(m[p])
           stays == StaysInLoop(round, c, point)
<1>1. NetInv'
  <2>1. \A x \in {Confirm(p, q, q \in confirmed_players[p]) : q \in Peer \ {p}} : x.from \in Peer
    BY DEF Confirm
  <2>2. QED BY <2>1, ExchangeNet, Zenon DEF ConfirmInv, ConfirmationRound
<1>2. /\ m' = [m EXCEPT ![p] = IF stays THEN round ELSE 0]
      /\ confirmed_players' = [confirmed_players EXCEPT ![p] = IF stays THEN c ELSE {p}]
      /\ confirmation_point' = [confirmation_point EXCEPT ![p] = IF stays THEN point ELSE LastRound]
      /\ phase' = [phase EXCEPT ![p] =
           IF stays THEN "confirming" ELSE IF n < NPlayers THEN "failed" ELSE "handshake"]
  BY Zenon DEF ConfirmationRound
<1>3. c \in SUBSET Peer
  <2>1. Heard(p) \subseteq Peer BY DEF Heard, Arrived, ConfirmInv, NetInv
  <2>2. QED BY <2>1 DEF ConfirmInv, LoopInv
<1>4. /\ n \in Nat
      /\ Cardinality(confirmed_players[p]) \in Nat
      /\ Cardinality(confirmed_players[p]) <= n
  <2>1. confirmed_players[p] \in SUBSET c BY <1>3
  <2>2. confirmed_players[p] \in SUBSET Peer BY DEF ConfirmInv, LoopInv
  <2>3. IsFiniteSet(c) /\ n \in Nat /\ Cardinality(confirmed_players[p]) \in Nat
    BY <1>3, <2>2, PeerFacts, Zenon
  <2>4. Cardinality(confirmed_players[p]) <= n BY <2>1, <2>3, FS_Subset, Zenon
  <2>5. QED BY <2>3, <2>4
<1>5. /\ round \in Nat /\ m[p] \in Nat
      /\ confirmation_point[p] \in 0 .. LastRound
      /\ confirmation_point[p] < LastRound => Cardinality(confirmed_players[p]) >= NPlayers
  BY NextRoundNat DEF ConfirmInv, LoopInv
<1>6. stays <=> \/ round # LastRound /\ n < NPlayers
                \/ round < point + ExtraRounds
  BY DEF StaysInLoop
<1> HIDE DEF n, c, round, stays
<1>7. /\ point \in 0 .. LastRound
      /\ point < LastRound => n >= NPlayers
  BY <1>4, <1>5, PeerFacts
<1> HIDE DEF point
\* Outside the loop everyone was heard.
<1>8. ~stays => n >= NPlayers
  BY <1>4, <1>5, <1>6, <1>7, PeerFacts
<1>9. LoopInv'
  <2>1. /\ m' \in [Peer -> Nat]
        /\ confirmed_players' \in [Peer -> SUBSET Peer]
        /\ confirmation_point' \in [Peer -> 0 .. LastRound]
        /\ phase' \in [Peer -> Phase]
    BY <1>2, <1>3, <1>5, <1>7, PeerFacts DEF ConfirmInv, LoopInv, Phase
  <2>2. ASSUME NEW q \in Peer, confirmation_point'[q] < LastRound
        PROVE  Cardinality(confirmed_players'[q]) >= NPlayers
    <3>1. CASE q = p /\ stays
      <4>1. confirmation_point'[q] = point /\ confirmed_players'[q] = c
        BY <3>1, <1>2 DEF ConfirmInv, LoopInv
      <4>2. QED BY <4>1, <2>2, <1>7 DEF n
    <3>2. CASE q = p /\ ~stays
      BY <3>2, <2>2, <1>2, PeerFacts DEF ConfirmInv, LoopInv
    <3>3. CASE q # p
      BY <3>3, <2>2, <1>2 DEF ConfirmInv, LoopInv
    <3>4. QED BY <3>1, <3>2, <3>3
  <2>3. ASSUME NEW q \in Peer PROVE phase'[q] # "failed"
    <3>1. CASE q = p
      <4>1. phase'[q] = IF stays THEN "confirming" ELSE IF n < NPlayers THEN "failed" ELSE "handshake"
        BY <3>1, <1>2 DEF ConfirmInv, LoopInv
      <4>2. stays \/ ~(n < NPlayers) BY <1>8, <1>4, PeerFacts
      <4>3. QED BY <4>1, <4>2
    <3>2. CASE q # p BY <3>2, <1>2 DEF ConfirmInv, LoopInv, ConfirmationNeverFails
    <3>3. QED BY <3>1, <3>2
  <2>4. QED BY <2>1, <2>2, <2>3 DEF LoopInv, ConfirmationNeverFails
<1>10. QED BY <1>1, <1>9 DEF ConfirmInv

(* The loop of the handshake changes nothing the loop's invariant names but *)
(* the phase, to started.                                                  *)
LEMMA HandshakeInv ==
  ASSUME ConfirmInv, MasterRound \/ MasterStarts \/ \E p \in Peer : SlaveRound(p)
  PROVE  ConfirmInv'
<1>1. NetInv'
  <2>1. CASE MasterRound
    <3> DEFINE sends == {Ping(q, game_start, StartAdvisory(q), announced') : q \in Peer \ {Master}}
                          \union ConfirmAnswers(Master)
    <3>1. \A x \in sends : x.from \in Peer
      BY PeerFacts DEF Ping, ConfirmAnswers, Confirm
    <3>2. Exchange(Master, sends) BY <2>1 DEF MasterRound
    <3> HIDE DEF sends
    <3>3. QED BY <3>1, <3>2, PeerFacts, ExchangeNet, Zenon DEF ConfirmInv
  <2>2. CASE MasterStarts BY <2>2 DEF MasterStarts, ConfirmInv, NetInv
  <2>3. ASSUME NEW p \in Peer, SlaveRound(p) PROVE NetInv'
    <3> DEFINE pings == {x \in Arrived(p) : x.type = "P"}
               sends == {Echo(p, x) : x \in pings} \union ConfirmAnswers(p)
    <3>1. \A x \in sends : x.from \in Peer
      BY DEF Echo, ConfirmAnswers, Confirm
    <3>2. Exchange(p, sends) BY <2>3 DEF SlaveRound
    <3> HIDE DEF sends
    <3>3. QED BY <3>1, <3>2, ExchangeNet, Zenon DEF ConfirmInv
  <2>4. QED BY <2>1, <2>2, <2>3
<1>2. UNCHANGED loopVars /\ \/ UNCHANGED phase
                            \/ \E p \in Peer : phase' = [phase EXCEPT ![p] = "started"]
  <2>1. CASE MasterRound BY <2>1 DEF MasterRound
  <2>2. CASE MasterStarts BY <2>2, PeerFacts DEF MasterStarts
  <2>3. ASSUME NEW p \in Peer, SlaveRound(p)
        PROVE UNCHANGED loopVars /\ (UNCHANGED phase \/ phase' = [phase EXCEPT ![p] = "started"])
    BY <2>3 DEF SlaveRound
  <2>4. QED BY <2>1, <2>2, <2>3
<1>3. LoopInv'
  BY <1>2 DEF ConfirmInv, LoopInv, ConfirmationNeverFails, loopVars, Phase
<1>4. QED BY <1>1, <1>3 DEF ConfirmInv

LEMMA RestInv ==
  ASSUME ConfirmInv,
         \/ Tick
         \/ \E p \in Peer : Launch(p) \/ Idle(p)
         \/ UNCHANGED vars
  PROVE  ConfirmInv'
<1>1. CASE Tick
  <2>1. NetInv'
    <3>1. ASSUME NEW x \in net
          PROVE  /\ Sooner(x) = [packet |-> Sooner(x).packet, in |-> Sooner(x).in]
                 /\ Sooner(x).packet.from \in Peer
      <4>1. x = [packet |-> x.packet, in |-> x.in] /\ x.packet.from \in Peer
        BY DEF ConfirmInv, NetInv
      <4>2. Sooner(x) = [packet |-> x.packet, in |-> Max({0, x.in - 1})]
        BY <4>1 DEF Sooner
      <4>3. QED BY <4>1, <4>2
    <3>2. QED BY <1>1, <3>1 DEF Tick, NetInv
  <2>2. QED BY <1>1, <2>1 DEF Tick, ConfirmInv, LoopInv, ConfirmationNeverFails, loopVars
<1>2. ASSUME NEW p \in Peer, Launch(p) \/ Idle(p) PROVE ConfirmInv'
  <2>1. NetInv' BY <1>2 DEF Launch, Idle, ConfirmInv, NetInv
  <2>2. UNCHANGED loopVars /\ (UNCHANGED phase \/ phase' = [phase EXCEPT ![p] = "confirming"])
    BY <1>2 DEF Launch, Idle
  <2>3. QED BY <2>1, <2>2 DEF ConfirmInv, LoopInv, ConfirmationNeverFails, loopVars, Phase
<1>3. CASE UNCHANGED vars
  BY <1>3 DEF vars, ConfirmInv, NetInv, LoopInv, ConfirmationNeverFails, loopVars
<1>4. QED BY <1>1, <1>2, <1>3

LEMMA ConfirmInvInit == Init => ConfirmInv
<1>1. ASSUME Init PROVE LoopInv
  BY <1>1, PeerFacts DEF Init, LoopInv, ConfirmationNeverFails, Phase
<1>2. QED BY <1>1 DEF Init, ConfirmInv, NetInv

(* No peer reaches the error after the confirmation loop: the loop is left *)
(* only by peers that have heard all others.                               *)
THEOREM ConfirmationErrorIsDead == Spec => []ConfirmationNeverFails
<1>1. ConfirmInv /\ [Next]_vars => ConfirmInv'
  BY ConfirmationRoundInv, HandshakeInv, RestInv DEF Next, Run
<1>2. ConfirmInv => ConfirmationNeverFails BY DEF ConfirmInv, LoopInv
<1>3. QED BY ConfirmInvInit, <1>1, <1>2, PTL DEF Spec

-----------------------------------------------------------------------------
(* The inductive invariant behind the types, the delay and the times.      *)

Begun == phase[Master] \in {"handshake", "started"}

(* A peer hears only of peers that have come to the loop, and slot 0 leaves  *)
(* it when it has heard all.                                                 *)
HeardLaunched ==
  /\ \A p, q \in Peer : q \in confirmed_players[p] \ {p} => phase[q] # "launching"
  /\ Begun => \A p \in Peer : phase[p] # "launching"

(* Until slot 0 leaves the loop nothing is advised and nobody plays.         *)
NothingBegun ==
  ~Begun =>
    /\ game_start = StartIn /\ announced = 0
    /\ \A p \in Peer : /\ start_time[p] = << >> /\ phase[p] # "started"
                       /\ phase[p] = "handshake" => cycle_delay[p] = 3

MasterInTime ==
  phase[Master] = "handshake" => game_start >= 0 /\ (turn > Master => game_start > 0)

(* A ping has been on its way, and will be, for a latency in all, and it is  *)
(* read when it arrives; its echo takes at most two.                         *)
PacketInTime(x) ==
  /\ x = [packet |-> x.packet, in |-> x.in]
  /\ phase[x.packet.from] # "launching"
  /\ x.packet.type \in {"P", "E"} => Begun /\ game_start <= x.packet.at
  /\ x.packet.type = "P" =>
       /\ x.in + x.packet.at - game_start \in Latency
       /\ x.packet.to # Master
       /\ x.in = 0 => turn <= x.packet.to
       /\ x.packet.start \in x.packet.at - Max(Latency) .. x.packet.at
       /\ x.packet.delay \in {0, cycle_delay[Master]}
       /\ phase[Master] = "handshake" /\ announced = 0 => x.packet.delay = 0
  /\ x.packet.type = "E" /\ phase[Master] = "handshake" =>
       /\ x.in + x.packet.at - game_start <= 2 * Max(Latency)
       /\ x.in = 0 => turn = Master

NetInTime == IsFiniteSet(net) /\ \A x \in net : PacketInTime(x)

(* The round trips measured are two latencies at most, on average too.       *)
LatencyMeasured ==
  \A q \in Peer : player_latency[q] <= 2 * Max(Latency) * player_nresponses[q]

(* Advice misses the start by the variation of latency, or by one ping's way *)
(* when no echo had come; no peer waits after all its advice has come.       *)
AdviceInTime ==
  \A p \in Peer :
    /\ \A i \in DOMAIN start_time[p] :
         start_time[p][i] \in
           game_start + Min(Latency) - Max(Latency) .. game_start + Max(Latency)
    /\ start_time[p] # << >> =>
         /\ phase[p] = "handshake" /\ p # Master
         /\ game_start >= -Max(Latency)
         /\ turn > p => game_start > -Max(Latency)

DelaySetOnce ==
  phase[Master] = "handshake" =>
    announced \in {0, cycle_delay[Master]} /\ (announced = 0 => cycle_delay[Master] = 3)

StartInv ==
  /\ TypeOK
  /\ HeardLaunched
  /\ NothingBegun
  /\ MasterInTime
  /\ NetInTime
  /\ LatencyMeasured
  /\ AdviceInTime
  /\ DelaySetOnce
  /\ OneDelay
  /\ NoneStartsEarly

-----------------------------------------------------------------------------
(* Sums, extrema and images of finite sets.                                *)

(* Induction over the natural numbers, for a set of them.                   *)
LEMMA AllNaturals ==
  ASSUME NEW S \in SUBSET Nat, 0 \in S, \A n \in S : n + 1 \in S
  PROVE  S = Nat
<1> DEFINE R == {ss \in Nat \X Nat : ss[1] < ss[2]}
<1>1. SUFFICES ASSUME Nat \ S # {} PROVE FALSE
  OBVIOUS
<1>2. IsWellFoundedOn(R, Nat)
  BY NatLessThanWellFounded DEF OpToRel
<1> HIDE DEF R
<1>3. PICK n \in Nat \ S : \A k \in Nat \ S : ~(<<k, n>> \in R)
  BY <1>1, <1>2, WFMin
<1>4. n - 1 \in Nat /\ n - 1 \notin S
  BY <1>3
<1>5. <<n - 1, n>> \in R
  <2>1. <<n - 1, n>> \in Nat \X Nat /\ n - 1 < n
    BY <1>4
  <2> QED BY <2>1 DEF R
<1> QED BY <1>3, <1>4, <1>5

(* The sum of a function whose values lie between a and b.                  *)
LEMMA SumBounds ==
  ASSUME NEW D, IsFiniteSet(D), NEW f \in [D -> Int],
         NEW a \in Int, NEW b \in Int, \A x \in D : a <= f[x] /\ f[x] <= b
  PROVE  SumFunction(f) \in a * Cardinality(D) .. b * Cardinality(D)
<1> DEFINE E == DOMAIN f
           c(s) == CHOOSE x \in s : TRUE
           upto(n) == {s \in SUBSET E : Cardinality(s) <= n}
           sum(T, g) == [s \in T |-> IF s = {} THEN 0 ELSE f[c(s)] + g[s \ {c(s)}]]
           G == CHOOSE g : g = [s \in SUBSET E |-> IF s = {} THEN 0 ELSE f[c(s)] + g[s \ {c(s)}]]
<1>1. E = D
  OBVIOUS
<1>2. \A s \in SUBSET D : /\ IsFiniteSet(s) /\ Cardinality(s) \in Nat
                          /\ Cardinality(s) = 0 <=> s = {}
  BY FS_Subset, FS_CardinalityType, FS_EmptySet
<1>3. ASSUME NEW s \in SUBSET D, s # {}
      PROVE  /\ c(s) \in s
             /\ s \ {c(s)} \in SUBSET D
             /\ Cardinality(s \ {c(s)}) = Cardinality(s) - 1
  <2>1. c(s) \in s
    BY <1>3
  <2> QED BY <2>1, <1>2, FS_RemoveElement
<1>4. SumFunction(f) = G[E]
  BY DEF SumFunction, SumFunctionOnSet, FoldFunctionOnSet, MapThenFoldSet
<1> HIDE DEF c
\* There is a function that sums up, for ever larger subsets.
<1>5. \A n \in Nat : \E g : g = sum(upto(n), g)
  <2> DEFINE S == {n \in Nat : \E g : g = sum(upto(n), g)}
  <2>1. 0 \in S
    <3>1. \A s \in upto(0) : s = {}
      BY <1>1, <1>2
    <3>2. sum(upto(0), f) = sum(upto(0), sum(upto(0), f))
      BY <3>1
    <3> QED BY <3>2
  <2>2. ASSUME NEW n \in S PROVE n + 1 \in S
    <3>1. PICK g : g = sum(upto(n), g)
      BY <2>2
    <3> DEFINE h == sum(upto(n + 1), g)
    <3>2. ASSUME NEW s \in upto(n + 1), s # {}
          PROVE  h[s \ {c(s)}] = g[s \ {c(s)}]
      <4>1. s \ {c(s)} \in upto(n)
        BY <1>1, <1>2, <1>3, <2>2, <3>2
      <4>2. s \ {c(s)} \in upto(n + 1)
        BY <4>1, <1>1, <1>2, <2>2
      <4> DEFINE r == s \ {c(s)}
      <4>3. g[r] = IF r = {} THEN 0 ELSE f[c(r)] + g[r \ {c(r)}]
        BY <3>1, <4>1
      <4>4. h[r] = IF r = {} THEN 0 ELSE f[c(r)] + g[r \ {c(r)}]
        BY <4>2
      <4> QED BY <4>3, <4>4
    <3>3. h = sum(upto(n + 1), h)
      BY <3>2
    <3> HIDE DEF h
    <3>4. \E k : k = sum(upto(n + 1), k)
      BY <3>3, Zenon
    <3>5. n + 1 \in Nat
      BY <2>2
    <3> QED BY <3>4, <3>5, Zenon DEF S
  <2>3. S = Nat
    <3>1. S \in SUBSET Nat
      OBVIOUS
    <3> HIDE DEF S
    <3> QED BY <2>1, <2>2, <3>1, AllNaturals
  <2> QED BY <2>3
<1>6. upto(Cardinality(D)) = SUBSET E
  BY <1>1, <1>2, FS_Subset
<1>7. G = sum(SUBSET E, G)
  <2> DEFINE all == upto(Cardinality(D))
  <2>1. Cardinality(D) \in Nat
    BY <1>2
  <2>2. PICK g : g = sum(all, g)
    BY <1>5, <2>1
  <2>3. all = SUBSET E
    BY <1>6
  <2> HIDE DEF all
  <2>4. g = sum(SUBSET E, g)
    BY <2>2, <2>3
  <2> QED BY <2>4, Zenon
<1> HIDE DEF G
<1>8. \A n \in Nat : \A s \in upto(n) : G[s] \in a * Cardinality(s) .. b * Cardinality(s)
  <2> DEFINE S == {n \in Nat : \A s \in upto(n) : G[s] \in a * Cardinality(s) .. b * Cardinality(s)}
  <2>1. G[{}] = 0
    <3>1. {} \in SUBSET E
      OBVIOUS
    <3> QED BY <1>7, <3>1
  <2>2. 0 \in S
    <3>1. ASSUME NEW s \in upto(0)
          PROVE  G[s] \in a * Cardinality(s) .. b * Cardinality(s)
      <4>1. s = {} /\ Cardinality(s) = 0
        BY <1>1, <1>2
      <4>2. a * 0 = 0 /\ b * 0 = 0
        OBVIOUS
      <4> QED BY <2>1, <4>1, <4>2
    <3> QED BY <3>1
  <2>3. ASSUME NEW n \in S PROVE n + 1 \in S
    <3>1. ASSUME NEW s \in upto(n + 1)
          PROVE  G[s] \in a * Cardinality(s) .. b * Cardinality(s)
      <4>1. CASE s = {}
        BY <1>2, <2>1, <4>1
      <4>2. CASE s # {}
        <5> DEFINE r == s \ {c(s)}
                   k == Cardinality(r)
        <5>1. s \in SUBSET D /\ r \in upto(n) /\ k \in Nat /\ Cardinality(s) = k + 1
          BY <1>1, <1>2, <1>3, <2>3, <4>2
        <5>2. G[s] = f[c(s)] + G[r]
          BY <1>1, <1>7, <4>2, <5>1
        <5>3. G[r] \in a * k .. b * k
          BY <2>3, <5>1
        <5>4. f[c(s)] \in a .. b
          BY <1>3, <4>2, <5>1
        <5> HIDE DEF r, k
        <5>5. a * (k + 1) = a * k + a /\ b * (k + 1) = b * k + b
          BY <5>1
        <5>6. a * k \in Int /\ b * k \in Int
          BY <5>1
        <5> QED BY <5>1, <5>2, <5>3, <5>4, <5>5, <5>6
      <4> QED BY <4>1, <4>2
    <3> QED BY <3>1
  <2>4. S = Nat
    <3>1. S \in SUBSET Nat
      OBVIOUS
    <3> HIDE DEF S
    <3> QED BY <2>2, <2>3, <3>1, AllNaturals
  <2> QED BY <2>4
<1>9. D \in upto(Cardinality(D)) /\ Cardinality(D) \in Nat
  BY <1>2, <1>6, <1>1
<1> HIDE DEF upto
<1>10. G[D] \in a * Cardinality(D) .. b * Cardinality(D)
  BY <1>8, <1>9
<1> QED BY <1>1, <1>4, <1>10

LEMMA FiniteImage ==
  ASSUME NEW S, IsFiniteSet(S), NEW T, NEW f \in [S -> T],
         \A y \in T : \E x \in S : y = f[x]
  PROVE  IsFiniteSet(T)
<1>1. f \in Surjection(S, T)
  BY DEF Surjection
<1> QED BY <1>1, FS_Surjection

LEMMA MaxPair ==
  ASSUME NEW a \in Int, NEW b \in Int
  PROVE  Max({a, b}) = IF a >= b THEN a ELSE b
<1>1. \E x \in {a, b} : \A y \in {a, b} : x >= y
  <2>1. CASE a <= b BY <2>1
  <2>2. CASE b <= a BY <2>2
  <2> QED BY <2>1, <2>2
<1> QED BY <1>1 DEF Max

LEMMA LeastNatural ==
  ASSUME NEW S \in SUBSET Nat, S # {}
  PROVE  \E x \in S : \A y \in S : x <= y
<1> DEFINE R == {ss \in Nat \X Nat : ss[1] < ss[2]}
<1>1. IsWellFoundedOn(R, Nat)
  BY NatLessThanWellFounded DEF OpToRel
<1> HIDE DEF R
<1>2. PICK x \in S : \A y \in S : ~(<<y, x>> \in R)
  BY <1>1, WFMin
<1>3. ASSUME NEW y \in S PROVE x <= y
  <2>1. y < x => <<y, x>> \in R
    BY DEF R
  <2> QED BY <1>2, <2>1
<1> QED BY <1>3

(* A set of naturals with a bound has a largest.                           *)
LEMMA MaxNat ==
  ASSUME NEW S \in SUBSET Nat, S # {}, NEW b \in Nat, \A x \in S : x <= b
  PROVE  Max(S) \in S /\ \A x \in S : x <= Max(S)
<1> DEFINE D == {b - x : x \in S}
<1>1. D \in SUBSET Nat /\ D # {}
  <2>1. \A x \in S : b - x \in Nat
    OBVIOUS
  <2> QED BY <2>1
<1> HIDE DEF D
<1>2. PICK d \in D : \A y \in D : d <= y
  BY <1>1, LeastNatural
<1>3. PICK x \in S : d = b - x
  BY DEF D
<1>4. \A y \in S : x >= y
  <2> TAKE y \in S
  <2>1. b - y \in D
    BY DEF D
  <2> QED BY <1>2, <1>3, <2>1
<1>5. \A y \in S : y <= Max(S)
  BY <1>4 DEF Max
<1> QED BY <1>4 DEF Max

LEMMA LatencyFacts ==
  /\ Min(Latency) \in Latency /\ Max(Latency) \in Latency
  /\ \A x \in Latency : x \in Nat /\ 1 <= x /\ Min(Latency) <= x /\ x <= Max(Latency)
  /\ StartIn \in Nat /\ StartIn > 0 /\ LatencyPerCycle \in Nat /\ LatencyPerCycle > 0
  /\ MaxLost \in Nat
  /\ Overdue \in Int /\ Overdue < 0 /\ Overdue < -Max(Latency)
<1>1. PICK longest \in Latency : \A x \in Latency : x <= longest
  BY SyncAssumption
<1>2. Latency \in SUBSET Nat /\ Latency # {} /\ \A x \in Latency : x \in Nat \ {0}
  BY SyncAssumption
<1>3. Max(Latency) \in Latency /\ \A x \in Latency : x <= Max(Latency)
  BY <1>1, <1>2, MaxNat
<1>4. Min(Latency) \in Latency /\ \A x \in Latency : Min(Latency) <= x
  <2>1. \E x \in Latency : \A y \in Latency : x <= y
    BY <1>2, LeastNatural
  <2> QED BY <2>1 DEF Min
<1>5. /\ StartIn \in Nat /\ StartIn > 0 /\ LatencyPerCycle \in Nat /\ LatencyPerCycle > 0
      /\ MaxLost \in Nat
  BY SyncAssumption
<1>6. Overdue \in Int /\ Overdue < 0 /\ Overdue < -Max(Latency)
  <2>1. Max(Latency) \in Nat \ {0}
    BY <1>2, <1>3
  <2> HIDE DEF Max
  <2> QED BY <1>5, <2>1 DEF Overdue
<1> QED BY <1>2, <1>3, <1>4, <1>5, <1>6

-----------------------------------------------------------------------------
(* How the peers start: types, one delay, and no start early or late.      *)

LEMMA PacketFacts ==
  ASSUME NEW x \in Packet
  PROVE  /\ x.type \in {"a", "A", "P", "E"} /\ x.from \in Peer /\ x.to \in Peer
         /\ x.type = "P" => x.at \in Nat /\ x.start \in Nat /\ x.delay \in Nat
         /\ x.type = "E" => x.at \in Nat /\ x.to = Master
<1>1. CASE x \in [type : {"a", "A"}, from : Peer, to : Peer]
  BY <1>1
<1>2. CASE x \in [type : {"P"}, from : {Master}, to : Peer, at : Nat, start : Nat, delay : Nat]
  BY <1>2, PeerFacts
<1>3. CASE x \in [type : {"E"}, from : Peer, to : {Master}, at : Nat]
  BY <1>3, PeerFacts
<1> QED BY <1>1, <1>2, <1>3 DEF Packet

LEMMA FiniteArrived ==
  ASSUME IsFiniteSet(net), NEW p
  PROVE  IsFiniteSet(Arrived(p))
<1> DEFINE S == {y \in net : y.packet.to = p /\ y.in = 0}
           f == [x \in S |-> x.packet]
<1>1. IsFiniteSet(S)
  <2>1. S \in SUBSET net OBVIOUS
  <2> QED BY <2>1, FS_Subset
<1>2. f \in [S -> Arrived(p)] /\ \A y \in Arrived(p) : \E x \in S : y = f[x]
  BY DEF Arrived
<1> HIDE DEF S, f
<1> QED BY <1>1, <1>2, FiniteImage

(* What an exchange of finitely many packets does to the network.          *)
LEMMA ExchangeFacts ==
  ASSUME NEW p \in Peer, NEW sends, IsFiniteSet(sends), Exchange(p, sends),
         IsFiniteSet(net), lost \in Nat
  PROVE  /\ lost' \in 0 .. MaxLost
         /\ IsFiniteSet(net')
         /\ \A y \in net' :
              \/ y \in net /\ ~(y.packet.to = p /\ y.in = 0)
              \/ \E x \in sends, k \in Latency : y = [packet |-> x, in |-> k]
<1>1. PICK gone \in SUBSET sends, takes \in [sends -> Latency] :
        /\ lost' = lost + Cardinality(gone)
        /\ lost' <= MaxLost
        /\ net' = {x \in net : ~(x.packet.to = p /\ x.in = 0)}
                    \union {[packet |-> x, in |-> takes[x]] : x \in sends \ gone}
  BY DEF Exchange
<1>2. IsFiniteSet(gone) /\ Cardinality(gone) \in Nat
  BY FS_Subset, FS_CardinalityType
<1>3. lost' \in 0 .. MaxLost
  BY <1>1, <1>2, LatencyFacts
<1>4. IsFiniteSet(net')
  <2> DEFINE S == sends \ gone
             f == [x \in S |-> [packet |-> x, in |-> takes[x]]]
             old == {x \in net : ~(x.packet.to = p /\ x.in = 0)}
  <2>1. IsFiniteSet(S)
    BY FS_Difference
  <2> DEFINE new == {[packet |-> x, in |-> takes[x]] : x \in S}
  <2>2. f \in [S -> new] /\ \A y \in new : \E x \in S : y = f[x]
    OBVIOUS
  <2>3. IsFiniteSet(new)
    <3> HIDE DEF S, f, new
    <3> QED BY <2>1, <2>2, FiniteImage
  <2>4. IsFiniteSet(old)
    <3>1. old \in SUBSET net OBVIOUS
    <3> QED BY <3>1, FS_Subset
  <2>5. net' = old \union new
    BY <1>1
  <2> HIDE DEF new, old
  <2> QED BY <2>3, <2>4, <2>5, FS_Union
<1>5. ASSUME NEW y \in net'
      PROVE  \/ y \in net /\ ~(y.packet.to = p /\ y.in = 0)
             \/ \E x \in sends, k \in Latency : y = [packet |-> x, in |-> k]
  BY <1>1
<1> QED BY <1>3, <1>4, <1>5

(* The packets a step sends are finitely many.                             *)
LEMMA FiniteSends ==
  ASSUME IsFiniteSet(net), NEW p \in Peer
  PROVE  /\ IsFiniteSet({Confirm(p, q, q \in confirmed_players[p]) : q \in Peer \ {p}})
         /\ IsFiniteSet(ConfirmAnswers(p))
         /\ IsFiniteSet({Echo(p, x) : x \in {y \in Arrived(p) : y.type = "P"}})
         /\ IsFiniteSet({Ping(q, game_start, StartAdvisory(q), announced') : q \in Peer \ {Master}})
<1>1. \A S \in SUBSET Peer : IsFiniteSet(S)
  BY PeerFacts
<1>2. \A S \in SUBSET Arrived(p) : IsFiniteSet(S)
  BY FiniteArrived, FS_Subset
<1>3. IsFiniteSet({Confirm(p, q, q \in confirmed_players[p]) : q \in Peer \ {p}})
  <2> DEFINE S == Peer \ {p}
             f == [q \in S |-> Confirm(p, q, q \in confirmed_players[p])]
             T == {Confirm(p, q, q \in confirmed_players[p]) : q \in Peer \ {p}}
  <2>1. IsFiniteSet(S) /\ f \in [S -> T] /\ \A y \in T : \E x \in S : y = f[x]
    BY <1>1
  <2> HIDE DEF S, f, T
  <2>2. IsFiniteSet(T)
    BY <2>1, FiniteImage
  <2> QED BY <2>2 DEF T
<1>4. IsFiniteSet(ConfirmAnswers(p))
  <2> DEFINE S == {y \in Arrived(p) : y.type = "A"}
             f == [x \in S |-> Confirm(p, x.from, TRUE)]
             T == ConfirmAnswers(p)
  <2>1. IsFiniteSet(S) /\ f \in [S -> T] /\ \A y \in T : \E x \in S : y = f[x]
    BY <1>2 DEF ConfirmAnswers
  <2> HIDE DEF S, f, T
  <2>2. IsFiniteSet(T)
    BY <2>1, FiniteImage
  <2> QED BY <2>2 DEF T
<1>5. IsFiniteSet({Echo(p, x) : x \in {y \in Arrived(p) : y.type = "P"}})
  <2> DEFINE S == {y \in Arrived(p) : y.type = "P"}
             f == [x \in S |-> Echo(p, x)]
             T == {Echo(p, x) : x \in {y \in Arrived(p) : y.type = "P"}}
  <2>1. IsFiniteSet(S) /\ f \in [S -> T] /\ \A y \in T : \E x \in S : y = f[x]
    BY <1>2
  <2> HIDE DEF S, f, T
  <2>2. IsFiniteSet(T)
    BY <2>1, FiniteImage
  <2> QED BY <2>2 DEF T
<1>6. IsFiniteSet({Ping(q, game_start, StartAdvisory(q), announced') : q \in Peer \ {Master}})
  <2> DEFINE S == Peer \ {Master}
             f == [q \in S |-> Ping(q, game_start, StartAdvisory(q), announced')]
             T == {Ping(q, game_start, StartAdvisory(q), announced') : q \in Peer \ {Master}}
  <2>1. IsFiniteSet(S) /\ f \in [S -> T] /\ \A y \in T : \E x \in S : y = f[x]
    BY <1>1
  <2> HIDE DEF S, f, T
  <2>2. IsFiniteSet(T)
    BY <2>1, FiniteImage
  <2> QED BY <2>2 DEF T
<1> QED BY <1>3, <1>4, <1>5, <1>6

(* What has arrived was in the network, with nothing left to go.           *)
LEMMA ArrivedFacts ==
  ASSUME TypeOK, NetInTime, NEW p, NEW x \in Arrived(p)
  PROVE  /\ x \in Packet /\ x.to = p
         /\ \E y \in net : y.packet = x /\ y.in = 0 /\ PacketInTime(y)
BY DEF Arrived, TypeOK, NetInTime

(* While peers respond, average latencies lie between 0 and two latencies. *)
LEMMA AverageFacts ==
  ASSUME TypeOK, LatencyMeasured, NEW q \in Responding
  PROVE  AverageLatency(q) \in 0 .. 2 * Max(Latency)
<1> DEFINE b == 2 * Max(Latency)
<1>1. b \in Nat
  BY LatencyFacts
<1>2. /\ player_latency[q] \in Nat /\ player_nresponses[q] \in Nat \ {0}
      /\ player_latency[q] <= b * player_nresponses[q]
  BY DEF Responding, TypeOK, LatencyMeasured
<1> HIDE DEF b
<1>3. player_latency[q] \div player_nresponses[q] \in 0 .. b
  BY <1>1, <1>2
<1> QED BY <1>3 DEF AverageLatency, b

LEMMA AdvisoryFacts ==
  ASSUME TypeOK, LatencyMeasured, game_start >= 0, NEW q
  PROVE  /\ StartAdvisory(q) \in Nat
         /\ StartAdvisory(q) \in game_start - Max(Latency) .. game_start
<1>1. game_start \in Nat /\ Max(Latency) \in Nat
  BY LatencyFacts DEF TypeOK
<1>2. CASE q \in Responding
  <2>1. AverageLatency(q) \in 0 .. 2 * Max(Latency)
    BY <1>2, AverageFacts
  <2>2. AverageLatency(q) \div 2 \in 0 .. Max(Latency)
    BY <2>1, <1>1
  <2> DEFINE a == game_start - AverageLatency(q) \div 2
  <2>3. a \in Int /\ a \in game_start - Max(Latency) .. game_start
    BY <1>1, <2>2
  <2> HIDE DEF a
  <2>4. Max({0, a}) = IF 0 >= a THEN 0 ELSE a
    BY <2>3, MaxPair
  <2>5. StartAdvisory(q) = Max({0, a})
    BY <1>2 DEF StartAdvisory, a
  <2> QED BY <1>1, <2>3, <2>4, <2>5
<1>3. CASE q \notin Responding
  BY <1>1, <1>3 DEF StartAdvisory
<1> QED BY <1>2, <1>3

LEMMA DelayFacts ==
  ASSUME TypeOK, LatencyMeasured
  PROVE  NeededDelay \in Nat
<1> DEFINE need(q) == AverageLatency(q) \div LatencyPerCycle + 2
           S == {0} \union {need(q) : q \in Responding}
           b == 2 * Max(Latency) + 2
<1>1. b \in Nat
  BY LatencyFacts
<1>2. ASSUME NEW q \in Responding PROVE need(q) \in 0 .. b
  <2> DEFINE a == AverageLatency(q)
  <2>1. a \in Nat /\ a <= 2 * Max(Latency) /\ Max(Latency) \in Nat
    BY AverageFacts, LatencyFacts
  <2>2. LatencyPerCycle \in Nat \ {0}
    BY LatencyFacts
  <2> HIDE DEF a
  <2>3. a \div LatencyPerCycle \in 0 .. a
    BY <2>1, <2>2
  <2> QED BY <2>1, <2>3 DEF a
<1> HIDE DEF b, need
<1>3. S \in SUBSET Nat /\ S # {} /\ \A x \in S : x <= b
  BY <1>1, <1>2
<1> HIDE DEF S
<1>4. Max(S) \in Nat
  BY <1>1, <1>3, MaxNat
<1> QED BY <1>4 DEF NeededDelay, S, need

(* What slot 0 reads of echoes keeps its measurements in range.            *)
LEMMA MeasuredStep ==
  ASSUME StartInv, phase[Master] = "handshake", NEW q \in Peer
  PROVE  LET n == Cardinality(Echoes(q))
             s == SumFunction([x \in Echoes(q) |-> x.at - game_start])
         IN  n \in Nat /\ s \in Nat /\ s <= 2 * Max(Latency) * n
<1> DEFINE E == Echoes(q)
           f == [x \in E |-> x.at - game_start]
           b == 2 * Max(Latency)
<1>1. IsFiniteSet(E)
  <2>1. E \in SUBSET Arrived(Master)
    BY DEF Echoes
  <2> QED BY <2>1, FiniteArrived, FS_Subset DEF StartInv, NetInTime
<1>2. b \in Nat /\ game_start \in Int
  BY LatencyFacts DEF StartInv, TypeOK
<1>3. ASSUME NEW x \in E
      PROVE  x.at - game_start \in 0 .. b
  <2>1. x \in Arrived(Master) /\ x.type = "E"
    BY DEF Echoes
  <2>2. PICK y \in net : x \in Packet /\ y.packet = x /\ y.in = 0 /\ PacketInTime(y)
    BY <2>1, ArrivedFacts DEF StartInv
  <2>3. x.at \in Nat
    BY <2>1, <2>2, PacketFacts
  <2> QED BY <1>2, <2>1, <2>2, <2>3 DEF PacketInTime
<1>4. f \in [E -> Int] /\ \A x \in E : 0 <= f[x] /\ f[x] <= b
  BY <1>2, <1>3
<1> HIDE DEF E, f, b
<1>5. SumFunction(f) \in 0 * Cardinality(E) .. b * Cardinality(E)
  BY <1>1, <1>2, <1>4, SumBounds
<1>6. Cardinality(E) \in Nat
  BY <1>1, FS_CardinalityType
<1>7. Cardinality(E) \in Nat /\ SumFunction(f) \in Nat /\ SumFunction(f) <= b * Cardinality(E)
  BY <1>2, <1>5, <1>6
<1> QED BY <1>7 DEF E, f, b

(* Slot 0's round: new pings, and the echoes of earlier ones.              *)
LEMMA MasterRoundStart ==
  ASSUME StartInv, MasterRound
  PROVE  StartInv'
<1> DEFINE sends == {Ping(q, game_start, StartAdvisory(q), announced') : q \in Peer \ {Master}}
                      \union ConfirmAnswers(Master)
<1>1. /\ phase[Master] = "handshake" /\ game_start > 0 /\ turn = Master /\ turn' = 1
      /\ UNCHANGED <<phase, m, confirmed_players, confirmation_point, game_start, start_time>>
      /\ Exchange(Master, sends)
  BY DEF MasterRound, EndTurn, loopVars, Master
<1>2. /\ NPlayers \in Nat /\ NPlayers >= 2 /\ Master \in Peer /\ Master = 0
      /\ game_start \in Nat /\ cycle_delay \in [Peer -> Nat] /\ announced \in Nat
      /\ Begun
  BY <1>1, SyncAssumption, PeerFacts DEF StartInv, TypeOK, Begun, Master
<1>3. /\ announced' \in Nat
      /\ announced' # announced => announced = 0
      /\ cycle_delay' \in [Peer -> Nat]
      /\ cycle_delay'[Master] = IF announced' # announced THEN announced' ELSE cycle_delay[Master]
      /\ \A q \in Peer \ {Master} : cycle_delay'[q] = cycle_delay[q]
  <2>1. announced' = Announce /\ NeededDelay \in Nat
    BY DelayFacts DEF MasterRound, StartInv
  <2>2. announced' \in Nat /\ (announced' # announced => announced = 0)
    BY <1>2, <2>1 DEF Announce
  <2>3. cycle_delay' = IF announced' # announced
                       THEN [cycle_delay EXCEPT ![Master] = announced'] ELSE cycle_delay
    BY DEF MasterRound
  <2> QED BY <1>2, <2>2, <2>3
<1>4. ASSUME NEW x \in sends
      PROVE  /\ x \in Packet /\ x.from = Master
             /\ \/ x.type \in {"a", "A"}
                \/ /\ x.type = "P" /\ x.to \in Peer \ {Master} /\ x.at = game_start
                   /\ x.delay = announced'
                   /\ x.start \in game_start - Max(Latency) .. game_start
  <2>1. CASE x \in ConfirmAnswers(Master)
    <3>1. PICK y \in Arrived(Master) : x = Confirm(Master, y.from, TRUE)
      BY <2>1 DEF ConfirmAnswers
    <3>2. y \in Packet
      BY ArrivedFacts DEF StartInv
    <3> QED BY <1>2, <3>1, <3>2, PacketFacts DEF Confirm, Packet
  <2>2. CASE x \notin ConfirmAnswers(Master)
    <3>1. PICK q \in Peer \ {Master} : x = Ping(q, game_start, StartAdvisory(q), announced')
      BY <2>2
    <3>2. StartAdvisory(q) \in Nat /\ StartAdvisory(q) \in game_start - Max(Latency) .. game_start
      BY <1>2, AdvisoryFacts DEF StartInv
    <3> QED BY <1>2, <1>3, <3>1, <3>2 DEF Ping, Packet
  <2> QED BY <2>1, <2>2
<1>5. IsFiniteSet(sends)
  BY <1>2, FiniteSends, FS_Union DEF StartInv, NetInTime
<1> HIDE DEF sends
<1>6. /\ lost' \in 0 .. MaxLost
      /\ IsFiniteSet(net')
      /\ \A y \in net' :
           \/ y \in net /\ ~(y.packet.to = Master /\ y.in = 0)
           \/ \E x \in sends, k \in Latency : y = [packet |-> x, in |-> k]
  BY <1>1, <1>2, <1>5, ExchangeFacts DEF StartInv, TypeOK, NetInTime
<1>7. ASSUME NEW y \in net'
      PROVE  y.packet \in Packet /\ y.in \in 0 .. Max(Latency) /\ PacketInTime(y)'
  <2>1. CASE y \in net /\ ~(y.packet.to = Master /\ y.in = 0)
    <3>1. y.packet \in Packet /\ y.in \in 0 .. Max(Latency) /\ PacketInTime(y)
      BY <2>1 DEF StartInv, TypeOK, NetInTime
    <3>2. /\ y.packet.to \in Peer /\ (y.packet.type = "E" => y.packet.to = Master)
      BY <3>1, PacketFacts
    <3>3. y.in = 0 => y.packet.type # "E" /\ y.packet.to >= 1
      BY <1>2, <2>1, <3>2 DEF Peer
    <3>4. announced' = 0 => announced = 0
      BY <1>3
    <3> QED BY <1>1, <1>2, <1>3, <3>1, <3>3, <3>4 DEF PacketInTime, Begun
  <2>2. ASSUME NEW x \in sends, NEW k \in Latency, y = [packet |-> x, in |-> k]
        PROVE  y.packet \in Packet /\ y.in \in 0 .. Max(Latency) /\ PacketInTime(y)'
    <3>1. y.packet = x /\ y.in = k /\ k \in 1 .. Max(Latency) /\ Max(Latency) \in Nat
      BY <2>2, LatencyFacts
    <3>2. k + game_start - game_start = k
      BY <1>2, <3>1
    <3>3. x.delay = announced' => x.delay \in {0, cycle_delay'[Master]}
      BY <1>1, <1>2, <1>3 DEF StartInv, DelaySetOnce
    <3> QED BY <1>1, <1>2, <1>4, <2>2, <3>1, <3>2, <3>3 DEF PacketInTime, Begun
  <2> QED BY <1>6, <2>1, <2>2
<1>8. /\ player_nresponses' \in [Peer -> Nat] /\ player_latency' \in [Peer -> Nat]
      /\ LatencyMeasured'
  <2>1. ASSUME NEW q \in Peer
        PROVE  /\ player_nresponses'[q] \in Nat /\ player_latency'[q] \in Nat
               /\ player_latency'[q] <= 2 * Max(Latency) * player_nresponses'[q]
    <3> DEFINE n == Cardinality(Echoes(q))
               s == SumFunction([x \in Echoes(q) |-> x.at - game_start])
               b == 2 * Max(Latency)
               l == player_latency[q]
               r == player_nresponses[q]
    <3>1. n \in Nat /\ s \in Nat /\ s <= b * n
      BY <1>1, MeasuredStep
    <3>2. b \in Nat
      BY LatencyFacts
    <3>3. l \in Nat /\ r \in Nat /\ l <= b * r
      BY DEF StartInv, TypeOK, LatencyMeasured
    <3>4. player_nresponses'[q] = r + n /\ player_latency'[q] = l + s
      BY DEF MasterRound
    <3> HIDE DEF n, s, b, l, r
    <3>5. b * (r + n) = b * r + b * n /\ b * r \in Nat /\ b * n \in Nat
      BY <3>1, <3>2, <3>3
    <3>6. l + s <= b * (r + n)
      BY <3>1, <3>3, <3>5
    <3> QED BY <3>1, <3>3, <3>4, <3>6 DEF b
  <2>2. /\ player_nresponses' = [q \in Peer |-> player_nresponses'[q]]
        /\ player_latency' = [q \in Peer |-> player_latency'[q]]
    BY DEF MasterRound
  <2> QED BY <2>1, <2>2 DEF LatencyMeasured
<1>9. TypeOK'
  BY SMTT(30), <1>1, <1>2, <1>3, <1>6, <1>7, <1>8 DEF StartInv, TypeOK
<1>10. NetInTime'
  BY <1>6, <1>7 DEF NetInTime
<1>11. HeardLaunched' /\ NothingBegun' /\ MasterInTime'
  BY <1>1, <1>2 DEF StartInv, HeardLaunched, NothingBegun, MasterInTime, Begun
<1>12. AdviceInTime'
  <2> SUFFICES ASSUME NEW p \in Peer, start_time[p] # << >>
               PROVE  phase[p] = "handshake" /\ p # Master /\ game_start > -Max(Latency)
    BY <1>1 DEF StartInv, AdviceInTime
  <2>1. Max(Latency) \in Nat
    BY LatencyFacts
  <2> QED BY <1>1, <1>2, <2>1 DEF StartInv, AdviceInTime
<1>13. DelaySetOnce' /\ OneDelay'
  <2>1. DelaySetOnce'
    BY <1>1, <1>2, <1>3 DEF StartInv, DelaySetOnce
  <2>2. OneDelay'
    BY <1>1, <1>2, <1>3 DEF StartInv, DelaySetOnce, OneDelay
  <2> QED BY <2>1, <2>2
<1>14. NoneStartsEarly'
  BY <1>1 DEF StartInv, NoneStartsEarly
<1> QED BY <1>8, <1>9, <1>10, <1>11, <1>12, <1>13, <1>14 DEF StartInv

(* Slot 0 leaves its loop when the game is due.                            *)
LEMMA MasterStartsStart ==
  ASSUME StartInv, MasterStarts
  PROVE  StartInv'
<1>1. /\ phase[Master] = "handshake" /\ game_start <= 0 /\ turn = Master /\ turn' = 1
      /\ phase' = [phase EXCEPT ![Master] = "started"]
      /\ announced' = 0
      /\ player_nresponses' = [q \in Peer |-> 0] /\ player_latency' = [q \in Peer |-> 0]
      /\ UNCHANGED <<m, confirmed_players, confirmation_point, cycle_delay, game_start,
                     start_time, net, lost>>
  BY DEF MasterStarts, EndTurn, loopVars, Master
<1>2. /\ NPlayers \in Nat /\ NPlayers >= 2 /\ Master \in Peer /\ Master = 0
      /\ game_start = 0 /\ Max(Latency) \in Nat /\ Max(Latency) > 0
      /\ cycle_delay \in [Peer -> Nat]
  <2>1. NPlayers \in Nat /\ NPlayers >= 2 /\ Master \in Peer /\ Master = 0
    BY SyncAssumption, PeerFacts DEF Master
  <2>2. Max(Latency) \in Nat /\ Max(Latency) > 0
    BY LatencyFacts
  <2>3. game_start = 0 /\ cycle_delay \in [Peer -> Nat]
    BY <1>1, LatencyFacts DEF StartInv, TypeOK, MasterInTime
  <2> QED BY <2>1, <2>2, <2>3
<1>3. /\ phase \in [Peer -> Phase]
      /\ phase'[Master] = "started" /\ \A p \in Peer \ {Master} : phase'[p] = phase[p]
  BY <1>1, <1>2 DEF StartInv, TypeOK, Phase
<1>4. Begun /\ Begun'
  BY <1>1, <1>3 DEF Begun
<1>5. TypeOK'
  BY <1>1, <1>2, <1>3 DEF StartInv, TypeOK
<1>6. HeardLaunched' /\ NothingBegun' /\ MasterInTime'
  BY <1>1, <1>2, <1>3, <1>4 DEF StartInv, HeardLaunched, NothingBegun, MasterInTime
<1>7. NetInTime'
  <2>1. ASSUME NEW y \in net
        PROVE  PacketInTime(y)'
    <3>1. y.packet \in Packet /\ PacketInTime(y)
      BY DEF StartInv, TypeOK, NetInTime
    <3>2. y.packet.to \in Peer /\ y.packet.from \in Peer
      BY <3>1, PacketFacts
    <3>3. y.packet.type = "P" => y.packet.to >= 1
      BY <1>2, <3>1, <3>2 DEF PacketInTime, Peer
    <3> QED BY <1>1, <1>2, <1>3, <1>4, <3>1, <3>2, <3>3 DEF PacketInTime
  <2> QED BY <1>1, <2>1 DEF StartInv, NetInTime
<1>8. LatencyMeasured'
  BY <1>1, <1>2 DEF LatencyMeasured
<1>9. AdviceInTime'
  BY SMTT(30), <1>1, <1>2, <1>3 DEF StartInv, AdviceInTime
<1>10. DelaySetOnce' /\ OneDelay' /\ NoneStartsEarly'
  BY <1>1, <1>2, <1>3 DEF StartInv, DelaySetOnce, OneDelay, NoneStartsEarly
<1> QED BY <1>5, <1>6, <1>7, <1>8, <1>9, <1>10 DEF StartInv

(* A peer that has not left its own loop, or is done, changes no clock.    *)
LEMMA LaunchStart ==
  ASSUME StartInv, NEW p \in Peer, Launch(p)
  PROVE  StartInv'
<1>1. /\ phase[p] = "launching" /\ turn = p /\ turn' = p + 1
      /\ phase' = [phase EXCEPT ![p] = "confirming"]
      /\ UNCHANGED <<m, confirmed_players, confirmation_point, cycle_delay, game_start, announced,
                     player_nresponses, player_latency, start_time, net, lost>>
  BY DEF Launch, EndTurn, loopVars, masterVars
<1>2. NPlayers \in Nat /\ Master \in Peer /\ p \in Nat /\ p < NPlayers
  BY PeerFacts DEF Peer
<1>3. /\ phase \in [Peer -> Phase]
      /\ phase'[p] = "confirming" /\ \A q \in Peer \ {p} : phase'[q] = phase[q]
  BY <1>1 DEF StartInv, TypeOK, Phase
<1>4. ~Begun /\ ~Begun'
  BY <1>1, <1>2, <1>3 DEF StartInv, HeardLaunched, Begun
<1>5. TypeOK'
  <2>1. turn' \in 0 .. NPlayers
    BY <1>1, <1>2
  <2>2. phase' \in [Peer -> {"launching", "confirming", "handshake", "started", "failed"}]
    BY <1>1 DEF StartInv, TypeOK
  <2> QED BY <1>1, <2>1, <2>2 DEF StartInv, TypeOK
<1>6. HeardLaunched' /\ NothingBegun' /\ MasterInTime'
  BY <1>1, <1>2, <1>3, <1>4 DEF StartInv, HeardLaunched, NothingBegun, MasterInTime, Begun
<1>7. NetInTime'
  <2>1. ASSUME NEW y \in net
        PROVE  PacketInTime(y)'
    <3>1. y.packet \in Packet /\ PacketInTime(y)
      BY DEF StartInv, TypeOK, NetInTime
    <3>2. y.packet.from \in Peer
      BY <3>1, PacketFacts
    <3> QED BY <1>3, <1>4, <3>1, <3>2 DEF PacketInTime
  <2> QED BY <1>1, <2>1 DEF StartInv, NetInTime
<1>8. LatencyMeasured' /\ AdviceInTime'
  BY <1>1, <1>4 DEF StartInv, LatencyMeasured, AdviceInTime, NothingBegun
<1>9. DelaySetOnce' /\ OneDelay' /\ NoneStartsEarly'
  BY <1>1, <1>2, <1>3, <1>4 DEF StartInv, DelaySetOnce, OneDelay, NoneStartsEarly, Begun
<1> QED BY <1>5, <1>6, <1>7, <1>8, <1>9 DEF StartInv

LEMMA IdleStart ==
  ASSUME StartInv, NEW p \in Peer, Idle(p)
  PROVE  StartInv'
<1>1. /\ phase[p] \in {"launching", "failed", "started"} /\ turn = p /\ turn' = p + 1
      /\ net' = IF phase[p] = "launching" THEN net ELSE {x \in net : x.packet.to # p}
      /\ UNCHANGED <<phase, m, confirmed_players, confirmation_point, cycle_delay, game_start,
                     announced, player_nresponses, player_latency, start_time, lost>>
  BY DEF Idle, EndTurn, loopVars, masterVars
<1>2. NPlayers \in Nat /\ Master \in Peer /\ Master = 0 /\ p \in Nat /\ p < NPlayers
  BY PeerFacts DEF Peer, Master
<1>3. net' \in SUBSET net /\ (Begun => \A y \in net' : y.packet.to # p)
  BY <1>1, <1>2 DEF StartInv, HeardLaunched
<1>4. TypeOK'
  <2>1. turn' \in 0 .. NPlayers
    BY <1>1, <1>2
  <2> QED BY <1>1, <1>3, <2>1 DEF StartInv, TypeOK
<1>5. HeardLaunched' /\ NothingBegun' /\ Begun' = Begun
  BY <1>1 DEF StartInv, HeardLaunched, NothingBegun, Begun
<1>6. MasterInTime' /\ AdviceInTime'
  <2>1. phase[Master] = "handshake" => turn > Master
    BY <1>1, <1>2
  <2>2. MasterInTime'
    BY <1>1, <1>2, <2>1 DEF StartInv, MasterInTime
  <2>3. ASSUME NEW q \in Peer, start_time[q] # << >>, turn' > q
        PROVE  game_start > -Max(Latency)
    <3>1. q # p /\ q \in Nat
      BY <1>1, <2>3 DEF StartInv, AdviceInTime, Peer
    <3>2. turn > q
      BY <1>1, <1>2, <2>3, <3>1
    <3> QED BY <2>3, <3>2 DEF StartInv, AdviceInTime
  <2>4. AdviceInTime'
    BY <1>1, <2>3 DEF StartInv, AdviceInTime
  <2> QED BY <2>2, <2>4
<1>7. NetInTime'
  <2>1. ASSUME NEW y \in net'
        PROVE  PacketInTime(y)'
    <3>1. y.packet \in Packet /\ PacketInTime(y) /\ (Begun => y.packet.to # p)
      BY <1>3 DEF StartInv, TypeOK, NetInTime
    <3>2. y.packet.to \in Peer /\ (y.packet.type = "E" => y.packet.to = Master)
      BY <3>1, PacketFacts
    <3>3. y.packet.type = "P" /\ y.in = 0 => turn' <= y.packet.to
      BY <1>1, <1>2, <3>1, <3>2 DEF PacketInTime, Peer
    <3>4. phase[Master] = "handshake" /\ y.packet.type = "E" => y.in # 0
      BY <1>1, <1>2, <3>1, <3>2 DEF PacketInTime, Begun
    <3> QED BY <1>1, <1>5, <3>1, <3>3, <3>4 DEF PacketInTime
  <2>2. IsFiniteSet(net')
    BY <1>3, FS_Subset DEF StartInv, NetInTime
  <2> QED BY <2>1, <2>2 DEF NetInTime
<1>8. LatencyMeasured' /\ DelaySetOnce' /\ OneDelay' /\ NoneStartsEarly'
  BY <1>1 DEF StartInv, LatencyMeasured, DelaySetOnce, OneDelay, NoneStartsEarly
<1> QED BY <1>4, <1>5, <1>6, <1>7, <1>8 DEF StartInv

LEMMA SoonerFacts ==
  ASSUME NEW x, x = [packet |-> x.packet, in |-> x.in], x.in \in Nat
  PROVE  Sooner(x) = [packet |-> x.packet, in |-> IF x.in = 0 THEN 0 ELSE x.in - 1]
<1> DEFINE b == x.in - 1
<1>1. b \in Int /\ Max({0, b}) = IF 0 >= b THEN 0 ELSE b
  BY MaxPair
<1>2. Sooner(x) = [packet |-> x.packet, in |-> Max({0, b})]
  BY DEF Sooner
<1> QED BY <1>1, <1>2

(* What a tick leaves of the times until the start.                        *)
LEMMA StartsTick ==
  ASSUME TypeOK, Tick
  PROVE  LET later(s) == IF Overdue >= s - 1 THEN Overdue ELSE s - 1
         IN  /\ game_start' = IF Begun THEN later(game_start) ELSE game_start
             /\ start_time' = [p \in Peer |-> start_time'[p]]
             /\ \A p \in Peer : /\ start_time'[p] \in Seq(Int)
                                /\ Len(start_time'[p]) = Len(start_time[p])
                                /\ DOMAIN start_time'[p] = DOMAIN start_time[p]
                                /\ \A i \in DOMAIN start_time[p] :
                                     /\ start_time[p][i] \in Int
                                     /\ start_time'[p][i] = later(start_time[p][i])
<1> DEFINE later(s) == IF Overdue >= s - 1 THEN Overdue ELSE s - 1
<1>1. Overdue \in Int /\ game_start \in Int
  BY LatencyFacts DEF TypeOK
<1>2. \A s \in Int : Max({Overdue, s - 1}) = later(s) /\ later(s) \in Int
  BY <1>1, MaxPair
<1>3. game_start' = IF Begun THEN later(game_start) ELSE game_start
  BY <1>1, <1>2 DEF Tick, Begun
<1>4. start_time' = [p \in Peer |->
        [i \in DOMAIN start_time[p] |-> Max({Overdue, start_time[p][i] - 1})]]
  BY DEF Tick
<1>5. ASSUME NEW p \in Peer
      PROVE  /\ start_time'[p] \in Seq(Int)
             /\ Len(start_time'[p]) = Len(start_time[p])
             /\ DOMAIN start_time'[p] = DOMAIN start_time[p]
             /\ \A i \in DOMAIN start_time[p] :
                  start_time[p][i] \in Int /\ start_time'[p][i] = later(start_time[p][i])
  <2>1. start_time[p] \in Seq(Int) /\ Len(start_time[p]) \in Nat
    BY DEF TypeOK
  <2>2. DOMAIN start_time[p] = 1 .. Len(start_time[p])
    BY <2>1
  <2>3. \A i \in DOMAIN start_time[p] :
          start_time[p][i] \in Int /\ Max({Overdue, start_time[p][i] - 1}) = later(start_time[p][i])
    BY <1>2, <2>1
  <2>4. start_time'[p] = [i \in 1 .. Len(start_time[p]) |-> later(start_time[p][i])]
    BY <1>4, <2>2, <2>3
  <2>5. \A i \in DOMAIN start_time[p] : later(start_time[p][i]) \in Int
    BY <1>2, <2>3
  <2> HIDE DEF later
  <2> QED BY <2>1, <2>2, <2>3, <2>4, <2>5
<1> QED BY <1>3, <1>4, <1>5

(* A tick brings the start and every packet one tick nearer.               *)
LEMMA TickStart ==
  ASSUME StartInv, Tick
  PROVE  StartInv'
<1> DEFINE later(t) == IF Overdue >= t - 1 THEN Overdue ELSE t - 1
<1>1. /\ turn = NPlayers /\ turn' = 0
      /\ net' = {Sooner(x) : x \in net}
      /\ UNCHANGED <<phase, m, confirmed_players, confirmation_point, cycle_delay, announced,
                     player_nresponses, player_latency, lost>>
      /\ Begun' = Begun
  BY DEF Tick, loopVars, Begun
<1>2. /\ NPlayers \in Nat /\ NPlayers >= 2 /\ Master \in Peer /\ Master = 0
      /\ Max(Latency) \in Nat /\ Min(Latency) \in Nat
      /\ Overdue \in Int /\ Overdue < -Max(Latency) /\ StartIn \in Nat
      /\ game_start \in Overdue .. StartIn
  <2>1. NPlayers \in Nat /\ NPlayers >= 2 /\ Master \in Peer /\ Master = 0
    BY SyncAssumption, PeerFacts DEF Master
  <2> QED BY <2>1, LatencyFacts DEF StartInv, TypeOK
<1>4. game_start' = IF Begun THEN later(game_start) ELSE game_start
  BY StartsTick DEF StartInv
<1>5. /\ start_time' = [p \in Peer |-> start_time'[p]]
      /\ \A p \in Peer : /\ start_time'[p] \in Seq(Int)
                         /\ Len(start_time'[p]) = Len(start_time[p])
                         /\ DOMAIN start_time'[p] = DOMAIN start_time[p]
                         /\ \A i \in DOMAIN start_time[p] :
                              start_time[p][i] \in Int /\ start_time'[p][i] = later(start_time[p][i])
  BY StartsTick DEF StartInv
<1>6. ASSUME NEW x \in net
      PROVE  /\ x.packet \in Packet /\ x.in \in 0 .. Max(Latency) /\ PacketInTime(x)
             /\ Sooner(x) = [packet |-> x.packet, in |-> IF x.in = 0 THEN 0 ELSE x.in - 1]
  <2>1. x.packet \in Packet /\ x.in \in 0 .. Max(Latency) /\ PacketInTime(x)
    BY DEF StartInv, TypeOK, NetInTime
  <2>2. x = [packet |-> x.packet, in |-> x.in] /\ x.in \in Nat
    BY <1>2, <2>1 DEF PacketInTime
  <2>3. Sooner(x) = [packet |-> x.packet, in |-> IF x.in = 0 THEN 0 ELSE x.in - 1]
    BY <2>2, SoonerFacts
  <2> QED BY <2>1, <2>3
<1>7. ASSUME NEW x \in net
      PROVE  LET y == Sooner(x)
             IN  y.packet \in Packet /\ y.in \in 0 .. Max(Latency) /\ PacketInTime(y)'
  <2> DEFINE y == Sooner(x)
             a == x.packet
  <2>1. /\ a \in Packet /\ x.in \in 0 .. Max(Latency) /\ PacketInTime(x)
        /\ y = [packet |-> a, in |-> IF x.in = 0 THEN 0 ELSE x.in - 1]
    BY <1>6
  <2>2. /\ y.packet = a /\ y.in = (IF x.in = 0 THEN 0 ELSE x.in - 1)
        /\ y = [packet |-> y.packet, in |-> y.in]
    BY <2>1
  <2> HIDE DEF y, a
  <2>3. a.type \in {"a", "A", "P", "E"} /\ a.to \in Peer
    BY <2>1, PacketFacts
  <2>4. CASE a.type = "P"
    <3>1. a.at \in Nat /\ a.start \in Nat /\ a.delay \in Nat
      BY <2>1, <2>4, PacketFacts
    <3>2. /\ Begun /\ game_start <= a.at /\ x.in + a.at - game_start \in Latency
          /\ x.in = 0 => turn <= a.to
      BY <2>1, <2>4 DEF PacketInTime, a
    <3>3. x.in # 0
      BY <1>1, <1>2, <2>3, <3>2 DEF Peer
    <3>4. x.in + a.at - game_start <= Max(Latency)
      BY <3>2, LatencyFacts
    <3>5. game_start - 1 > Overdue /\ game_start' = game_start - 1
      BY <1>2, <1>4, <2>1, <3>1, <3>2, <3>3, <3>4
    <3>6. y.in + a.at - game_start' = x.in + a.at - game_start
      BY <1>2, <2>1, <2>2, <3>1, <3>3, <3>5
    <3>7. /\ phase[a.from] # "launching" /\ a.to # Master
          /\ a.start \in a.at - Max(Latency) .. a.at
          /\ a.delay \in {0, cycle_delay[Master]}
          /\ phase[Master] = "handshake" /\ announced = 0 => a.delay = 0
      BY <2>1, <2>4 DEF PacketInTime, a
    <3>8. 0 <= a.to
      BY <2>3 DEF Peer
    <3>9. PacketInTime(y)'
      BY <1>1, <1>2, <2>2, <2>4, <3>1, <3>2, <3>5, <3>6, <3>7, <3>8 DEF PacketInTime
    <3> QED BY <1>2, <2>1, <2>2, <3>9 DEF y
  <2>5. CASE a.type = "E"
    <3>1. a.at \in Nat /\ Begun /\ game_start <= a.at /\ phase[a.from] # "launching"
      BY <2>1, <2>5, PacketFacts DEF PacketInTime, a
    <3>2. game_start' <= a.at /\ game_start' \in Int
      BY <1>2, <1>4, <3>1
    <3>3. ASSUME phase[Master] = "handshake"
          PROVE  y.in + a.at - game_start' <= 2 * Max(Latency)
      <4>1. x.in # 0 /\ x.in + a.at - game_start <= 2 * Max(Latency)
        BY <1>1, <1>2, <2>1, <2>5, <3>3 DEF PacketInTime, a
      <4>2. game_start > 0
        BY <1>1, <1>2, <3>3 DEF StartInv, MasterInTime
      <4>3. game_start' = game_start - 1
        BY <1>2, <1>4, <3>1, <4>2
      <4> QED BY <1>2, <2>1, <2>2, <3>1, <4>1, <4>3
    <3>4. PacketInTime(y)'
      BY <1>1, <1>2, <2>2, <2>5, <3>1, <3>2, <3>3 DEF PacketInTime
    <3> QED BY <1>2, <2>1, <2>2, <3>4 DEF y
  <2>6. CASE a.type \notin {"P", "E"}
    <3>1. phase[a.from] # "launching"
      BY <2>1 DEF PacketInTime, a
    <3>2. PacketInTime(y)'
      BY <1>1, <2>2, <2>6, <3>1 DEF PacketInTime
    <3> QED BY <1>2, <2>1, <2>2, <3>2 DEF y
  <2> QED BY <2>4, <2>5, <2>6 DEF y
<1>8. NetInTime'
  <2> DEFINE f == [x \in net |-> Sooner(x)]
  <2>1. f \in [net -> net'] /\ \A y \in net' : \E x \in net : y = f[x]
    BY <1>1
  <2> HIDE DEF f
  <2>2. IsFiniteSet(net')
    BY <2>1, FiniteImage DEF StartInv, NetInTime
  <2> QED BY <1>1, <1>7, <2>2 DEF NetInTime
<1>9. game_start' \in Overdue .. StartIn /\ game_start' <= game_start
  BY <1>2, <1>4
<1>10. TypeOK'
  <2>1. \A y \in net' : y.packet \in Packet /\ y.in \in 0 .. Max(Latency)
    BY <1>1, <1>7
  <2>2. start_time' \in [Peer -> Seq(Int)] /\ \A p \in Peer : Len(start_time'[p]) <= 5
    <3>1. \A p \in Peer : start_time'[p] \in Seq(Int) /\ Len(start_time'[p]) <= 5
      BY <1>5 DEF StartInv, TypeOK
    <3> QED BY <1>5, <3>1
  <2>3. turn' \in 0 .. NPlayers
    BY <1>1, <1>2
  <2> QED BY <1>1, <1>9, <2>1, <2>2, <2>3 DEF StartInv, TypeOK
<1>11. \A p \in Peer : start_time'[p] = << >> <=> start_time[p] = << >>
  BY <1>5 DEF StartInv, TypeOK
<1>12. HeardLaunched' /\ NothingBegun' /\ MasterInTime'
  <2>1. HeardLaunched' /\ NothingBegun'
    BY <1>1, <1>4, <1>11 DEF StartInv, HeardLaunched, NothingBegun
  <2>2. MasterInTime'
    BY <1>1, <1>2, <1>4 DEF StartInv, MasterInTime, Begun
  <2> QED BY <2>1, <2>2
<1>13. AdviceInTime'
  <2>1. ASSUME NEW p \in Peer, NEW i \in DOMAIN start_time'[p]
        PROVE  start_time'[p][i] \in
                 game_start' + Min(Latency) - Max(Latency) .. game_start' + Max(Latency)
    <3> DEFINE t == start_time[p][i]
    <3>1. /\ t \in Int /\ start_time'[p][i] = later(t)
          /\ t \in game_start + Min(Latency) - Max(Latency) .. game_start + Max(Latency)
      BY <1>5, <2>1 DEF StartInv, AdviceInTime
    <3>2. Begun
      BY <1>5, <2>1 DEF StartInv, NothingBegun
    <3>3. Min(Latency) <= Max(Latency)
      BY LatencyFacts
    <3> HIDE DEF t
    <3> QED BY <1>2, <1>4, <3>1, <3>2, <3>3
  <2>2. ASSUME NEW p \in Peer, start_time'[p] # << >>
        PROVE  phase[p] = "handshake" /\ p # Master /\ game_start' >= -Max(Latency)
    <3>1. phase[p] = "handshake" /\ p # Master /\ (turn > p => game_start > -Max(Latency))
      BY <1>11, <2>2 DEF StartInv, AdviceInTime
    <3>2. game_start > -Max(Latency)
      BY <1>1, <1>2, <3>1 DEF Peer
    <3> QED BY <1>2, <1>4, <3>1, <3>2
  <2>3. \A p \in Peer : ~(turn' > p)
    BY <1>1 DEF Peer
  <2> QED BY <1>1, <2>1, <2>2, <2>3 DEF AdviceInTime
<1>14. LatencyMeasured' /\ DelaySetOnce' /\ OneDelay'
  BY <1>1 DEF StartInv, LatencyMeasured, DelaySetOnce, OneDelay
<1>15. NoneStartsEarly'
  BY <1>1, <1>2, <1>9 DEF StartInv, NoneStartsEarly
<1> QED BY <1>8, <1>10, <1>12, <1>13, <1>14, <1>15 DEF StartInv

LEMMA QuotientSign ==
  ASSUME NEW s \in Int, NEW n \in Nat \ {0}, NEW a \in Int, NEW b \in Int, s \in a * n .. b * n
  PROVE  /\ s \div n <= 0 => a <= 0
         /\ ~(s \div n <= 0) => b >= 1
<1>1. ASSUME s \div n <= 0, a >= 1 PROVE FALSE
  <2>1. a * n >= n
    BY <1>1
  <2>2. s >= n
    BY <2>1
  <2> QED BY <1>1, <2>2
<1>2. ASSUME ~(s \div n <= 0), b <= 0 PROVE FALSE
  <2>1. b * n <= 0
    BY <1>2
  <2>2. s <= 0
    BY <2>1
  <2> QED BY <1>2, <2>2
<1> QED BY <1>1, <1>2

(* When the averages of advised starts between a and b come.               *)
LEMMA TimeToStartFacts ==
  ASSUME NEW a \in Int, NEW b \in Int, NEW times \in Seq(Int),
         \A i \in DOMAIN times : times[i] \in a .. b
  PROVE  /\ TimeToStart(times) => times # << >> /\ a <= 0
         /\ ~TimeToStart(times) /\ times # << >> => b >= 1
<1> DEFINE n == Len(times)
           D == 1 .. n
           s == SumFunction(times)
<1>1. n \in Nat /\ times \in [D -> Int] /\ (n = 0 <=> times = << >>)
  BY LenProperties
<1>2. IsFiniteSet(D) /\ Cardinality(D) = n
  <2>1. 1 \in Int /\ n \in Int /\ n \in Nat
    BY <1>1
  <2> HIDE DEF n
  <2>2. Cardinality(D) = IF 1 > n THEN 0 ELSE n - 1 + 1
    BY <2>1, FS_Interval
  <2> QED BY <2>1, <2>2, FS_Interval
<1> HIDE DEF D, n
<1>3. s \in a * n .. b * n
  BY <1>1, <1>2, SumBounds
<1>4. a * n \in Int /\ b * n \in Int
  BY <1>1
<1> HIDE DEF s
<1>5. s \in Int
  BY <1>3, <1>4
<1>6. CASE n = 0
  BY <1>1, <1>6 DEF TimeToStart, n
<1>7. CASE n # 0
  <2>1. /\ s \div n <= 0 => a <= 0
        /\ ~(s \div n <= 0) => b >= 1
    BY <1>1, <1>3, <1>5, <1>7, QuotientSign
  <2>2. TimeToStart(times) <=> s \div n <= 0
    BY <1>1, <1>7 DEF TimeToStart, n, s
  <2> QED BY <1>1, <1>7, <2>1, <2>2
<1> QED BY <1>6, <1>7

(* The advised starts kept are the last ones heard, at most five.          *)
LEMMA LastFiveFacts ==
  ASSUME NEW W \in SUBSET Int, NEW s \in Seq(W)
  PROVE  LastFive(s) \in Seq(W) /\ Len(LastFive(s)) <= 5
<1>1. Len(s) \in Nat
  OBVIOUS
<1>2. CASE Len(s) > 5
  <2>1. \A i \in Len(s) - 4 .. Len(s) : s[i] \in W
    BY <1>1, <1>2
  <2>2. /\ SubSeq(s, Len(s) - 4, Len(s)) \in Seq(W)
        /\ Len(SubSeq(s, Len(s) - 4, Len(s))) = 5
    BY <1>1, <1>2, <2>1, SubSeqProperties
  <2> QED BY <1>2, <2>2 DEF LastFive
<1>3. CASE ~(Len(s) > 5)
  BY <1>1, <1>3 DEF LastFive
<1> QED BY <1>2, <1>3

(* A round of another peer: it reads advice and the delay, echoes, starts. *)
LEMMA SlaveRoundStart ==
  ASSUME StartInv, NEW p \in Peer, SlaveRound(p)
  PROVE  StartInv'
<1> DEFINE pings == {x \in Arrived(p) : x.type = "P"}
           told == {x.delay : x \in pings} \ {0}
           sends == {Echo(p, x) : x \in pings} \union ConfirmAnswers(p)
           low == game_start + Min(Latency) - Max(Latency)
           high == game_start + Max(Latency)
           W == IF Begun THEN low .. high ELSE {}
<1>1. /\ p # Master /\ phase[p] = "handshake" /\ turn = p /\ turn' = p + 1
      /\ Exchange(p, sends)
      /\ UNCHANGED <<m, confirmed_players, confirmation_point, game_start, announced,
                     player_nresponses, player_latency>>
  BY DEF SlaveRound, EndTurn, loopVars, masterVars
<1>2. /\ NPlayers \in Nat /\ Master \in Peer /\ Master = 0 /\ p \in Nat /\ 0 < p /\ p < NPlayers
      /\ game_start \in Int /\ Max(Latency) \in Nat /\ Min(Latency) \in Nat
  BY <1>1, PeerFacts, LatencyFacts DEF Peer, Master, StartInv, TypeOK
<1>3. ASSUME NEW x \in pings
      PROVE  /\ x \in Packet /\ x.at \in Nat /\ x.start \in Nat /\ x.delay \in Nat
             /\ Begun /\ game_start <= x.at
             /\ x.at - game_start \in Latency
             /\ x.start \in low .. high
             /\ x.delay \in {0, cycle_delay[Master]}
  <2>1. x \in Arrived(p) /\ x.type = "P"
    OBVIOUS
  <2>2. PICK y \in net : x \in Packet /\ y.packet = x /\ y.in = 0 /\ PacketInTime(y)
    BY <2>1, ArrivedFacts DEF StartInv
  <2>3. x.at \in Nat /\ x.start \in Nat /\ x.delay \in Nat
    BY <2>1, <2>2, PacketFacts
  <2>4. /\ Begun /\ game_start <= x.at
        /\ 0 + x.at - game_start \in Latency
        /\ x.start \in x.at - Max(Latency) .. x.at
        /\ x.delay \in {0, cycle_delay[Master]}
    BY <2>1, <2>2 DEF PacketInTime
  <2>5. x.at - game_start \in Latency
    BY <1>2, <2>3, <2>4
  <2>6. x.at - game_start \in Min(Latency) .. Max(Latency)
    BY <2>5, LatencyFacts
  <2>7. x.start \in low .. high
    BY <1>2, <2>3, <2>4, <2>6
  <2> QED BY <2>2, <2>3, <2>4, <2>5, <2>7
<1>4. W \in SUBSET Int
  BY <1>2
<1> HIDE DEF W
\* The advice kept afterwards.
<1>5. PICK times \in Seq(W) :
        /\ Len(times) <= 5
        /\ \/ /\ TimeToStart(times)
              /\ phase' = [phase EXCEPT ![p] = "started"]
              /\ start_time' = [start_time EXCEPT ![p] = << >>]
           \/ /\ ~TimeToStart(times)
              /\ start_time' = [start_time EXCEPT ![p] = times]
              /\ UNCHANGED phase
  <2>1. PICK order \in SetToSeqs(pings) :
          LET times == LastFive(start_time[p] \o [i \in DOMAIN order |-> order[i].start])
          IN IF TimeToStart(times)
             THEN /\ phase' = [phase EXCEPT ![p] = "started"]
                  /\ start_time' = [start_time EXCEPT ![p] = << >>]
             ELSE /\ start_time' = [start_time EXCEPT ![p] = times]
                  /\ UNCHANGED phase
    BY DEF SlaveRound
  <2>2. Cardinality(pings) \in Nat
    <3>1. pings \in SUBSET Arrived(p)
      OBVIOUS
    <3> QED BY <3>1, FiniteArrived, FS_Subset, FS_CardinalityType DEF StartInv, NetInTime
  <2>3. order \in [1 .. Cardinality(pings) -> pings]
    BY DEF SetToSeqs
  <2> DEFINE new == [i \in DOMAIN order |-> order[i].start]
             s == start_time[p] \o new
  <2>4. new \in Seq(W)
    <3>1. \A x \in pings : x.start \in W
      BY <1>3 DEF W
    <3> HIDE DEF pings
    <3> QED BY <2>2, <2>3, <3>1
  <2>5. start_time[p] \in Seq(W)
    <3>1. start_time[p] \in Seq(Int)
      BY DEF StartInv, TypeOK
    <3>2. \A i \in DOMAIN start_time[p] : start_time[p][i] \in W
      <4>1. CASE Begun
        BY <4>1 DEF StartInv, AdviceInTime, W
      <4>2. CASE ~Begun
        <5>1. start_time[p] = << >>
          BY <4>2 DEF StartInv, NothingBegun
        <5> QED BY <5>1
      <4> QED BY <4>1, <4>2
    <3> QED BY <3>1, <3>2
  <2> HIDE DEF new
  <2>6. s \in Seq(W)
    BY <2>4, <2>5
  <2> HIDE DEF s
  <2>7. LastFive(s) \in Seq(W) /\ Len(LastFive(s)) <= 5
    BY <1>4, <2>6, LastFiveFacts
  <2> QED BY <2>1, <2>7 DEF s, new
<1>6. /\ times \in Seq(Int)
      /\ \A i \in DOMAIN times : times[i] \in low .. high
      /\ times # << >> => Begun
  <2>1. \A i \in DOMAIN times : times[i] \in W
    OBVIOUS
  <2>2. \A w \in W : Begun /\ w \in low .. high
    BY DEF W
  <2>3. times # << >> => 1 \in DOMAIN times
    OBVIOUS
  <2>4. /\ times = [i \in 1 .. Len(times) |-> times[i]]
        /\ Len(times) \in Nat /\ DOMAIN times = 1 .. Len(times)
    OBVIOUS
  <2>5. \A i \in 1 .. Len(times) : times[i] \in Int
    BY <1>4, <2>1, <2>4
  <2>6. times \in Seq(Int)
    BY <2>4, <2>5
  <2> QED BY <2>1, <2>2, <2>3, <2>6
<1>7. /\ TimeToStart(times) => times # << >> /\ low <= 0
      /\ ~TimeToStart(times) /\ times # << >> => high >= 1
  <2>1. low \in Int /\ high \in Int
    BY <1>2
  <2> HIDE DEF low, high
  <2> QED BY <1>6, <2>1, TimeToStartFacts
<1>8. /\ cycle_delay' \in [Peer -> Nat]
      /\ \A q \in Peer \ {p} : cycle_delay'[q] = cycle_delay[q]
      /\ cycle_delay'[p] \in {cycle_delay[p], cycle_delay[Master]}
  <2>1. PICK d \in IF told = {} THEN {cycle_delay[p]} ELSE told :
          cycle_delay' = [cycle_delay EXCEPT ![p] = d]
    BY DEF SlaveRound
  <2>2. cycle_delay \in [Peer -> Nat]
    BY DEF StartInv, TypeOK
  <2>3. d \in {cycle_delay[p], cycle_delay[Master]}
    <3>1. \A x \in told : x = cycle_delay[Master]
      BY <1>3
    <3> QED BY <2>1, <3>1
  <2> QED BY <1>2, <2>1, <2>2, <2>3
<1>9. /\ phase' \in [Peer -> Phase] /\ \A q \in Peer \ {p} : phase'[q] = phase[q]
      /\ phase'[p] \in {"handshake", "started"}
      /\ phase'[Master] = phase[Master] /\ Begun' = Begun
  <2>1. phase \in [Peer -> Phase]
    BY DEF StartInv, TypeOK, Phase
  <2>2. phase' \in [Peer -> Phase] /\ \A q \in Peer \ {p} : phase'[q] = phase[q]
    BY <1>5, <2>1 DEF Phase
  <2>3. phase'[p] \in {"handshake", "started"}
    BY <1>1, <1>5, <2>1
  <2> QED BY <1>1, <1>2, <2>2, <2>3 DEF Begun
<1>10. IsFiniteSet(sends)
  BY FiniteSends, FS_Union DEF StartInv, NetInTime
<1>11. ASSUME NEW x \in sends
       PROVE  /\ x \in Packet /\ x.from = p
              /\ \/ x.type \in {"a", "A"}
                 \/ /\ x.type = "E" /\ Begun /\ game_start <= x.at
                    /\ x.at - game_start <= Max(Latency)
  <2>1. CASE x \in ConfirmAnswers(p)
    <3>1. PICK y \in Arrived(p) : x = Confirm(p, y.from, TRUE)
      BY <2>1 DEF ConfirmAnswers
    <3>2. y \in Packet
      BY ArrivedFacts DEF StartInv
    <3> QED BY <3>1, <3>2, PacketFacts DEF Confirm, Packet
  <2>2. CASE x \notin ConfirmAnswers(p)
    <3>1. PICK y \in pings : x = Echo(p, y)
      BY <2>2
    <3>2. y.at \in Nat /\ Begun /\ game_start <= y.at /\ y.at - game_start <= Max(Latency)
      BY <1>3, LatencyFacts
    <3> QED BY <3>1, <3>2 DEF Echo, Packet
  <2> QED BY <2>1, <2>2
<1> HIDE DEF sends, pings
<1>12. /\ lost' \in 0 .. MaxLost
       /\ IsFiniteSet(net')
       /\ \A y \in net' :
            \/ y \in net /\ ~(y.packet.to = p /\ y.in = 0)
            \/ \E x \in sends, k \in Latency : y = [packet |-> x, in |-> k]
  BY <1>1, <1>10, ExchangeFacts DEF StartInv, TypeOK, NetInTime
<1>13. ASSUME NEW y \in net'
       PROVE  y.packet \in Packet /\ y.in \in 0 .. Max(Latency) /\ PacketInTime(y)'
  <2>1. CASE y \in net /\ ~(y.packet.to = p /\ y.in = 0)
    <3>1. y.packet \in Packet /\ y.in \in 0 .. Max(Latency) /\ PacketInTime(y)
      BY <2>1 DEF StartInv, TypeOK, NetInTime
    <3>2. y.packet.to \in Peer /\ y.packet.from \in Peer
      BY <3>1, PacketFacts
    <3>3. phase'[y.packet.from] # "launching"
      BY <1>9, <3>1, <3>2 DEF PacketInTime
    <3>4. y.packet.type = "P" /\ y.in = 0 => turn' <= y.packet.to
      BY <1>1, <1>2, <2>1, <3>1, <3>2 DEF PacketInTime, Peer
    <3>5. phase[Master] = "handshake" /\ y.packet.type = "E" => y.in # 0
      BY <1>1, <1>2, <3>1 DEF PacketInTime
    <3>6. cycle_delay'[Master] = cycle_delay[Master]
      BY <1>1, <1>2, <1>8
    <3> QED BY <1>1, <1>9, <3>1, <3>3, <3>4, <3>5, <3>6 DEF PacketInTime
  <2>2. ASSUME NEW x \in sends, NEW k \in Latency, y = [packet |-> x, in |-> k]
        PROVE  y.packet \in Packet /\ y.in \in 0 .. Max(Latency) /\ PacketInTime(y)'
    <3>1. y.packet = x /\ y.in = k /\ k \in 1 .. Max(Latency)
      BY <2>2, LatencyFacts
    <3>2. x \in Packet /\ phase'[x.from] # "launching"
      BY <1>9, <1>11
    <3>3. x.type = "E" => /\ Begun' /\ game_start <= x.at /\ x.at \in Nat
                          /\ k + x.at - game_start <= 2 * Max(Latency)
      BY <1>2, <1>9, <1>11, <3>1, <3>2, PacketFacts
    <3>4. x.type # "P" /\ (x.type = "E" => k # 0)
      BY <1>11, <3>1
    <3> QED BY <1>1, <1>2, <2>2, <3>1, <3>2, <3>3, <3>4 DEF PacketInTime
  <2> QED BY <1>12, <2>1, <2>2
<1>14. /\ start_time' \in [Peer -> Seq(Int)] /\ \A q \in Peer : Len(start_time'[q]) <= 5
       /\ \A q \in Peer \ {p} : start_time'[q] = start_time[q]
       /\ start_time'[p] = IF TimeToStart(times) THEN << >> ELSE times
  <2>1. start_time \in [Peer -> Seq(Int)] /\ \A q \in Peer : Len(start_time[q]) <= 5
    BY DEF StartInv, TypeOK
  <2> DEFINE kept == IF TimeToStart(times) THEN << >> ELSE times
  <2>2. kept \in Seq(Int) /\ Len(kept) <= 5
    BY <1>5, <1>6
  <2>3. start_time' = [start_time EXCEPT ![p] = kept]
    BY <1>5
  <2> HIDE DEF kept
  <2>4. start_time' \in [Peer -> Seq(Int)] /\ start_time'[p] = kept
        /\ \A q \in Peer \ {p} : start_time'[q] = start_time[q]
    BY <2>1, <2>2, <2>3
  <2> QED BY <2>1, <2>2, <2>4 DEF kept
<1>15. TypeOK'
  <2>1. turn' \in 0 .. NPlayers
    BY <1>1, <1>2
  <2> QED BY <1>1, <1>8, <1>9, <1>12, <1>13, <1>14, <2>1 DEF StartInv, TypeOK, Phase
<1>16. HeardLaunched'
  BY <1>1, <1>9 DEF StartInv, HeardLaunched
<1>17. NothingBegun'
  <2> SUFFICES ASSUME ~Begun, NEW q \in Peer
               PROVE  /\ start_time'[q] = << >> /\ phase'[q] # "started"
                      /\ phase'[q] = "handshake" => cycle_delay'[q] = 3
    BY <1>1, <1>9 DEF StartInv, NothingBegun
  <2>1. CASE q # p
    BY <1>8, <1>9, <1>14, <2>1 DEF StartInv, NothingBegun
  <2>2. CASE q = p
    <3>1. times = << >> /\ ~TimeToStart(times)
      BY <1>6, <1>7
    <3>2. told = {}
      BY <1>3 DEF pings
    <3>3. cycle_delay'[p] = cycle_delay[p]
      BY <3>2 DEF SlaveRound, pings, StartInv, TypeOK
    <3> QED BY <1>1, <1>5, <1>14, <2>2, <3>1, <3>3 DEF StartInv, NothingBegun
  <2> QED BY <2>1, <2>2
<1>18. MasterInTime' /\ DelaySetOnce' /\ LatencyMeasured'
  <2>1. cycle_delay'[Master] = cycle_delay[Master]
    BY <1>1, <1>2, <1>8
  <2> QED BY <1>1, <1>2, <1>9, <2>1 DEF StartInv, MasterInTime, DelaySetOnce, LatencyMeasured
<1>19. AdviceInTime'
  <2>1. ASSUME NEW q \in Peer, NEW i \in DOMAIN start_time'[q]
        PROVE  start_time'[q][i] \in low .. high
    <3>1. CASE q # p
      BY <1>14, <2>1, <3>1 DEF StartInv, AdviceInTime
    <3>2. CASE q = p
      <4>1. start_time'[q] = times
        BY <1>14, <2>1, <3>2
      <4> QED BY <1>6, <2>1, <4>1
    <3> QED BY <3>1, <3>2
  <2>2. ASSUME NEW q \in Peer, start_time'[q] # << >>
        PROVE  /\ phase'[q] = "handshake" /\ q # Master
               /\ game_start >= -Max(Latency)
               /\ turn' > q => game_start > -Max(Latency)
    <3>1. CASE q = p
      <4>1. ~TimeToStart(times) /\ times # << >> /\ UNCHANGED phase
        BY <1>5, <1>14, <2>2, <3>1
      <4>2. high >= 1
        BY <1>7, <4>1
      <4> QED BY <1>1, <1>2, <3>1, <4>1, <4>2
    <3>2. CASE q # p
      <4>1. turn' > q => turn > q
        BY <1>1, <1>2, <3>2 DEF Peer
      <4> QED BY <1>9, <1>14, <2>2, <3>2, <4>1 DEF StartInv, AdviceInTime
    <3> QED BY <3>1, <3>2
  <2> QED BY <1>1, <2>1, <2>2 DEF AdviceInTime
<1>20. OneDelay'
  <2>1. cycle_delay'[Master] = cycle_delay[Master]
    BY <1>1, <1>2, <1>8
  <2> QED BY <1>1, <1>8, <1>9, <2>1 DEF StartInv, OneDelay
<1>21. NoneStartsEarly'
  <2> SUFFICES ASSUME NEW q \in Peer, phase'[q] = "started", phase[Master] = "handshake"
               PROVE  game_start <= Max(Latency) - Min(Latency)
    BY <1>1, <1>9 DEF NoneStartsEarly
  <2>1. CASE q # p
    BY <1>9, <2>1 DEF StartInv, NoneStartsEarly
  <2>2. CASE q = p
    <3>1. TimeToStart(times)
      BY <1>1, <1>5, <2>2
    <3> QED BY <1>2, <1>7, <3>1
  <2> QED BY <2>1, <2>2
<1>22. NetInTime'
  BY <1>12, <1>13 DEF NetInTime
<1> QED BY <1>15, <1>16, <1>17, <1>18, <1>19, <1>20, <1>21, <1>22 DEF StartInv

(* A round of the confirmation loop; slot 0 leaves it when all were heard. *)
LEMMA ConfirmationRoundStart ==
  ASSUME StartInv, ConfirmInv, NEW p \in Peer, ConfirmationRound(p)
  PROVE  StartInv'
<1> DEFINE c == confirmed_players[p] \union Heard(p)
           point == IF Cardinality(c) >= NPlayers /\ m[p] < confirmation_point[p]
                    THEN m[p] ELSE confirmation_point[p]
           stays == StaysInLoop(NextRound(m[p]), c, point)
           sends == {Confirm(p, q, q \in confirmed_players[p]) : q \in Peer \ {p}}
<1>1. /\ phase[p] = "confirming" /\ turn = p /\ turn' = p + 1
      /\ Exchange(p, sends)
      /\ UNCHANGED <<game_start, announced, player_nresponses, player_latency, start_time>>
  BY DEF ConfirmationRound, EndTurn, masterVars
<1>2. /\ NPlayers \in Nat /\ Master \in Peer /\ Master = 0 /\ p \in Nat /\ p < NPlayers
      /\ Max(Latency) \in Nat /\ game_start \in Int
      /\ phase \in [Peer -> Phase] /\ cycle_delay \in [Peer -> Nat]
  <2>1. NPlayers \in Nat /\ Master \in Peer /\ Master = 0 /\ p \in Nat /\ p < NPlayers
    BY PeerFacts DEF Peer, Master
  <2>2. Max(Latency) \in Nat /\ game_start \in Int
    BY LatencyFacts DEF StartInv, TypeOK
  <2>3. phase \in [Peer -> Phase] /\ cycle_delay \in [Peer -> Nat]
    BY DEF StartInv, TypeOK, Phase
  <2> QED BY <2>1, <2>2, <2>3
<1>3. /\ m' = [m EXCEPT ![p] = IF stays THEN NextRound(m[p]) ELSE 0]
      /\ confirmed_players' = [confirmed_players EXCEPT ![p] = IF stays THEN c ELSE {p}]
      /\ phase' = [phase EXCEPT ![p] =
           IF stays THEN "confirming"
           ELSE IF Cardinality(c) < NPlayers THEN "failed" ELSE "handshake"]
      /\ cycle_delay' = IF phase'[p] = "handshake" THEN [cycle_delay EXCEPT ![p] = 3] ELSE cycle_delay
  BY Zenon DEF ConfirmationRound
<1>4. c \in SUBSET Peer /\ \A q \in c \ {p} : phase[q] # "launching"
  <2>1. \A q \in Heard(p) : q \in Peer /\ phase[q] # "launching"
    <3> TAKE q \in Heard(p)
    <3>1. PICK x \in Arrived(p) : q = x.from
      BY DEF Heard
    <3>2. x \in Packet /\ \E y \in net : y.packet = x /\ PacketInTime(y)
      BY ArrivedFacts DEF StartInv
    <3> QED BY <3>1, <3>2, PacketFacts DEF PacketInTime
  <2> QED BY <2>1 DEF StartInv, TypeOK, HeardLaunched
<1> HIDE DEF c, stays, point
<1>5. /\ phase' \in [Peer -> Phase] /\ \A q \in Peer \ {p} : phase'[q] = phase[q]
      /\ phase'[p] \in {"confirming", "handshake"}
      /\ phase'[p] = "handshake" => ~(Cardinality(c) < NPlayers)
  <2>1. phase'[p] # "failed"
    BY ConfirmationRoundInv DEF ConfirmInv, LoopInv, ConfirmationNeverFails
  <2> QED BY <1>2, <1>3, <2>1 DEF Phase
<1>6. phase'[p] = "handshake" => \A q \in Peer : phase[q] # "launching"
  <2> SUFFICES ASSUME phase'[p] = "handshake"
               PROVE  c = Peer
    BY <1>1, <1>4
  <2>1. IsFiniteSet(Peer) /\ Cardinality(Peer) = NPlayers
    <3>1. 0 \in Int /\ NPlayers - 1 \in Int /\ NPlayers \in Nat /\ NPlayers > 0
      BY <1>2, SyncAssumption
    <3>2. Cardinality(Peer) = IF 0 > NPlayers - 1 THEN 0 ELSE NPlayers - 1 - 0 + 1
      BY <3>1, FS_Interval DEF Peer
    <3> QED BY <3>1, <3>2, FS_Interval DEF Peer
  <2>2. Cardinality(c) <= Cardinality(Peer) /\ (Cardinality(Peer) = Cardinality(c) => Peer = c)
    BY <1>4, <2>1, FS_Subset
  <2>3. Cardinality(c) \in Nat
    BY <1>4, PeerFacts
  <2> QED BY <1>2, <1>5, <2>1, <2>2, <2>3
<1>7. IsFiniteSet(sends)
  BY FiniteSends DEF StartInv, NetInTime
<1>8. \A x \in sends : x \in Packet /\ x.from = p /\ x.type \in {"a", "A"}
  BY DEF Confirm, Packet
<1> HIDE DEF sends
<1>9. /\ lost' \in 0 .. MaxLost
      /\ IsFiniteSet(net')
      /\ \A y \in net' :
           \/ y \in net /\ ~(y.packet.to = p /\ y.in = 0)
           \/ \E x \in sends, k \in Latency : y = [packet |-> x, in |-> k]
  BY <1>1, <1>7, ExchangeFacts DEF StartInv, TypeOK, NetInTime
<1>10. /\ cycle_delay' \in [Peer -> Nat]
       /\ \A q \in Peer \ {p} : cycle_delay'[q] = cycle_delay[q]
       /\ phase'[p] = "handshake" => cycle_delay'[p] = 3
       /\ phase'[p] # "handshake" => cycle_delay' = cycle_delay
  BY <1>2, <1>3
<1>11. /\ Begun => Begun' /\ p # Master /\ phase'[Master] = phase[Master]
                   /\ cycle_delay'[Master] = cycle_delay[Master]
       /\ Begun' /\ ~Begun => p = Master /\ phase'[p] = "handshake"
  BY <1>1, <1>2, <1>5, <1>10 DEF Begun
<1>12. ASSUME NEW y \in net'
       PROVE  y.packet \in Packet /\ y.in \in 0 .. Max(Latency) /\ PacketInTime(y)'
  <2>1. CASE y \in net /\ ~(y.packet.to = p /\ y.in = 0)
    <3>1. y.packet \in Packet /\ y.in \in 0 .. Max(Latency) /\ PacketInTime(y)
      BY <2>1 DEF StartInv, TypeOK, NetInTime
    <3>2. y.packet.to \in Peer /\ y.packet.from \in Peer
      BY <3>1, PacketFacts
    <3>3. phase'[y.packet.from] # "launching"
      BY <1>1, <1>5, <3>1, <3>2 DEF PacketInTime
    <3>4. y.packet.type = "P" /\ y.in = 0 => turn' <= y.packet.to
      BY <1>1, <1>2, <2>1, <3>1, <3>2 DEF PacketInTime, Peer
    <3>5. phase[Master] = "handshake" /\ y.packet.type = "E" => y.in # 0
      BY <1>1, <1>2, <3>1 DEF PacketInTime
    <3> QED BY <1>1, <1>11, <3>1, <3>3, <3>4, <3>5 DEF PacketInTime
  <2>2. ASSUME NEW x \in sends, NEW k \in Latency, y = [packet |-> x, in |-> k]
        PROVE  y.packet \in Packet /\ y.in \in 0 .. Max(Latency) /\ PacketInTime(y)'
    <3>1. y.packet = x /\ y.in = k /\ k \in 1 .. Max(Latency)
      BY <2>2, LatencyFacts
    <3>2. x \in Packet /\ x.from = p /\ x.type \in {"a", "A"}
      BY <1>8
    <3> QED BY <1>5, <1>2, <2>2, <3>1, <3>2 DEF PacketInTime
  <2> QED BY <1>9, <2>1, <2>2
<1>13. TypeOK'
  <2>1. turn' \in 0 .. NPlayers
    BY <1>1, <1>2
  <2>2. m' \in [Peer -> 0 .. LastRound + ExtraRounds + 1]
    <3>1. m \in [Peer -> 0 .. LastRound + ExtraRounds + 1] /\ LastRound \in Nat /\ ExtraRounds \in Nat
      BY PeerFacts DEF StartInv, TypeOK
    <3>2. NextRound(m[p]) \in 0 .. LastRound + ExtraRounds + 1
      <4> DEFINE a == m[p] + 1
                 b == LastRound + ExtraRounds + 1
      <4>1. a \in Nat /\ b \in Nat
        BY <3>1
      <4>2. NextRound(m[p]) = Min({a, b})
        BY DEF NextRound
      <4> HIDE DEF a, b
      <4>3. Min({a, b}) \in {a, b} /\ \A x \in {a, b} : Min({a, b}) <= x
        <5>1. {a, b} \in SUBSET Nat /\ {a, b} # {}
          BY <4>1
        <5>2. \E x \in {a, b} : \A y \in {a, b} : x <= y
          BY <5>1, LeastNatural
        <5> QED BY <5>2 DEF Min
      <4> QED BY <4>1, <4>2, <4>3 DEF b
    <3> QED BY <1>3, <3>1, <3>2
  <2>3. confirmed_players' \in [Peer -> SUBSET Peer]
    BY <1>3, <1>4 DEF StartInv, TypeOK
  <2>4. confirmation_point' \in [Peer -> 0 .. LastRound]
    BY ConfirmationRoundInv DEF ConfirmInv, LoopInv
  <2> QED BY <1>1, <1>5, <1>9, <1>10, <1>12, <2>1, <2>2, <2>3, <2>4 DEF StartInv, TypeOK, Phase
<1>14. HeardLaunched'
  <2>1. ASSUME NEW q \in Peer, NEW r \in Peer, r \in confirmed_players'[q] \ {q}
        PROVE  phase'[r] # "launching"
    <3>1. phase[r] # "launching"
      <4>1. CASE q # p
        BY <1>3, <2>1, <4>1 DEF StartInv, TypeOK, HeardLaunched
      <4>2. CASE q = p
        BY <1>3, <1>4, <2>1, <4>2 DEF StartInv, TypeOK
      <4> QED BY <4>1, <4>2
    <3> QED BY <1>1, <1>5, <3>1
  <2>2. Begun' => \A q \in Peer : phase'[q] # "launching"
    BY <1>5, <1>6, <1>11 DEF StartInv, HeardLaunched
  <2> QED BY <2>1, <2>2 DEF HeardLaunched
<1>15. NothingBegun'
  BY <1>1, <1>5, <1>10, <1>11 DEF StartInv, NothingBegun
<1>16. MasterInTime'
  <2>1. CASE Begun
    BY <1>1, <1>2, <1>11, <2>1 DEF StartInv, MasterInTime, Peer
  <2>2. CASE ~Begun
    BY <1>1, <2>2, LatencyFacts DEF StartInv, NothingBegun, MasterInTime
  <2> QED BY <2>1, <2>2
<1>17. NetInTime'
  BY <1>9, <1>12 DEF NetInTime
<1>18. LatencyMeasured'
  BY <1>1 DEF StartInv, LatencyMeasured
<1>19. AdviceInTime'
  <2>1. start_time[p] = << >>
    BY <1>1 DEF StartInv, AdviceInTime
  <2>2. ASSUME NEW q \in Peer, start_time[q] # << >>
        PROVE  /\ phase'[q] = "handshake"
               /\ turn' > q => game_start > -Max(Latency)
    <3>1. q # p
      BY <2>1, <2>2
    <3>2. turn' > q => turn > q
      BY <1>1, <1>2, <3>1 DEF Peer
    <3> QED BY <1>5, <2>2, <3>1, <3>2 DEF StartInv, AdviceInTime
  <2> QED BY <1>1, <2>2 DEF StartInv, AdviceInTime
<1>20. DelaySetOnce'
  <2>1. CASE Begun
    BY <1>1, <1>11, <2>1 DEF StartInv, DelaySetOnce
  <2>2. CASE ~Begun
    BY <1>1, <1>10, <1>11, <2>2 DEF StartInv, NothingBegun, DelaySetOnce, Begun
  <2> QED BY <2>1, <2>2
<1>21. OneDelay'
  <2> SUFFICES ASSUME NEW q \in Peer, phase'[q] \in {"handshake", "started"}
               PROVE  cycle_delay'[q] \in {3, cycle_delay'[Master]}
    BY DEF OneDelay
  <2>1. CASE q = p
    BY <1>5, <1>10, <2>1
  <2>2. CASE q # p /\ Begun
    BY <1>5, <1>10, <1>11, <2>2 DEF StartInv, OneDelay
  <2>3. CASE q # p /\ ~Begun
    BY <1>5, <1>10, <2>3 DEF StartInv, NothingBegun
  <2> QED BY <2>1, <2>2, <2>3
<1>22. NoneStartsEarly'
  <2> SUFFICES ASSUME NEW q \in Peer, phase'[q] = "started", phase'[Master] = "handshake"
               PROVE  game_start <= Max(Latency) - Min(Latency)
    BY <1>1 DEF NoneStartsEarly
  <2>1. q # p /\ phase[q] = "started"
    BY <1>5
  <2>2. Begun
    BY <2>1 DEF StartInv, NothingBegun
  <2> QED BY <1>11, <2>1, <2>2 DEF StartInv, NoneStartsEarly
<1> QED
  BY <1>13, <1>14, <1>15, <1>16, <1>17, <1>18, <1>19, <1>20, <1>21, <1>22 DEF StartInv

LEMMA StartInvInit == Init => StartInv
<1> SUFFICES ASSUME Init PROVE StartInv
  OBVIOUS
<1>1. /\ NPlayers \in Nat /\ Master \in Peer /\ LastRound \in Nat /\ ExtraRounds \in Nat
      /\ StartIn \in Nat /\ Overdue \in Int /\ Overdue < 0 /\ MaxLost \in Nat /\ Max(Latency) \in Nat
  BY PeerFacts, LatencyFacts
<1>2. ~Begun
  BY <1>1 DEF Init, Begun
<1>3. TypeOK
  <2>1. << >> \in Seq(Int) /\ Len(<< >>) = 0
    OBVIOUS
  <2>2. start_time \in [Peer -> Seq(Int)] /\ \A p \in Peer : Len(start_time[p]) <= 5
    BY <2>1 DEF Init
  <2>3. game_start \in Overdue .. StartIn
    BY <1>1 DEF Init
  <2> QED BY <1>1, <2>2, <2>3 DEF Init, TypeOK
<1>4. HeardLaunched /\ NothingBegun /\ MasterInTime
  BY <1>1, <1>2 DEF Init, HeardLaunched, NothingBegun, MasterInTime
<1>5. NetInTime
  BY FS_EmptySet DEF Init, NetInTime
<1>6. LatencyMeasured
  BY <1>1 DEF Init, LatencyMeasured
<1>7. AdviceInTime /\ DelaySetOnce /\ OneDelay /\ NoneStartsEarly
  BY <1>1 DEF Init, AdviceInTime, DelaySetOnce, OneDelay, NoneStartsEarly
<1> QED BY <1>3, <1>4, <1>5, <1>6, <1>7 DEF StartInv

THEOREM StartInvariant == Spec => []StartInv
<1>1. ASSUME StartInv, ConfirmInv, [Next]_vars
      PROVE  StartInv'
  <2>1. CASE Tick
    BY <1>1, <2>1, TickStart
  <2>2. CASE \E p \in Peer : Launch(p) \/ Run(p)
    BY <1>1, <2>2, LaunchStart, ConfirmationRoundStart, SlaveRoundStart, IdleStart DEF Run
  <2>3. CASE MasterRound
    BY <1>1, <2>3, MasterRoundStart
  <2>4. CASE MasterStarts
    BY <1>1, <2>4, MasterStartsStart
  <2>5. CASE UNCHANGED vars
    BY <1>1, <2>5 DEF vars, loopVars, masterVars, StartInv, TypeOK, HeardLaunched, NothingBegun,
      MasterInTime, NetInTime, PacketInTime, LatencyMeasured, AdviceInTime, DelaySetOnce,
      OneDelay, NoneStartsEarly, Begun
  <2> QED BY <1>1, <2>1, <2>2, <2>3, <2>4, <2>5 DEF Next
<1>2. ConfirmInv /\ [Next]_vars => ConfirmInv'
  BY ConfirmationRoundInv, HandshakeInv, RestInv DEF Next, Run
<1> QED BY StartInvInit, ConfirmInvInit, <1>1, <1>2, PTL DEF Spec

(* Types; five advised starts at most are kept (line 468), and packets come *)
(* from the two loops only.                                                 *)
THEOREM StartTypes == Spec => []TypeOK
<1>1. StartInv => TypeOK BY DEF StartInv
<1> QED BY <1>1, StartInvariant, PTL

(* Whatever is lost or overtaken, a peer plays with slot 0's delay or still *)
(* with 3: slot 0 sets the delay once (line 367).                           *)
THEOREM DelayIsOne == Spec => []OneDelay
<1>1. StartInv => OneDelay BY DEF StartInv
<1> QED BY <1>1, StartInvariant, PTL

(* No peer starts before slot 0 by more than latencies vary: advice misses  *)
(* the start by no more, whatever is averaged (lines 398-406 and 487).      *)
THEOREM NobodyStartsEarly == Spec => []NoneStartsEarly
<1>1. StartInv => NoneStartsEarly BY DEF StartInv
<1> QED BY <1>1, StartInvariant, PTL

(* No peer that heard a ping still waits when slot 0 has played for longer  *)
(* than a packet may take.                                                  *)
THEOREM NobodyStartsLate == Spec => []NoneStartsLate
<1>1. StartInv => NoneStartsLate
  BY DEF StartInv, AdviceInTime, NoneStartsLate
<1> QED BY <1>1, StartInvariant, PTL

-----------------------------------------------------------------------------
(* One delay for all, when few packets are lost.  Nothing but a loss holds  *)
(* up the exchange of confirmations, pings and echoes for longer than a     *)
(* packet takes to be sent anew and arrive, so what has to happen before    *)
(* the start can be given deadlines, each Cost later for what was lost.     *)

Longest == Max(Latency)
Spread == Max(Latency) - Min(Latency)

(* Ticks since slot 0 left the confirmation loop, and those left until it   *)
(* is by ticks later; every loss so far allows Longest + 1 more.            *)
Elapsed == StartIn - game_start
Cost == lost * (Longest + 1)
Slack(by) == by + Cost - Elapsed

(* A packet that has arrived behind its reader's back is read a tick later. *)
WaitFor(y) == IF y.in = 0 /\ turn > y.packet.to THEN 1 ELSE y.in
Turned(p) == IF turn > p THEN 1 ELSE 0

UnderWay(packets, wait) == \E y \in net : y.packet \in packets /\ WaitFor(y) <= wait

Confirms(q, p) == {Confirm(q, p, b) : b \in BOOLEAN}
EchoesOf(p) == {x \in Packet : x.type = "E" /\ x.from = p}
PingsTo(p) == {x \in Packet : x.type = "P" /\ x.to = p}
DelaysTo(p) == {x \in PingsTo(p) : x.delay # 0}

(* Until p hears q: a confirmation of q's is on its way, or p's, which q    *)
(* will answer, or p sends one in its next round.                           *)
HearingBy == 2 * Longest + 1
Hearing(p, q, wait) ==
  \/ UnderWay(Confirms(q, p), wait)
  \/ UnderWay({Confirm(p, q, FALSE)}, wait - Longest)
  \/ 2 * Longest + Turned(p) <= wait

HeardInTime ==
  phase[Master] = "handshake" =>
    \A p, q \in Peer : phase[p] = "confirming" /\ q \notin confirmed_players[p]
                         => Hearing(p, q, Slack(HearingBy))

(* Having heard all, p confirms for ExtraRounds rounds.                     *)
ConfirmedBy == HearingBy + ExtraRounds
RoundsInTime ==
  \A p \in Peer :
    phase[p] = "confirming" /\ confirmed_players[p] = Peer =>
      /\ confirmation_point[p] <= m[p] /\ m[p] < confirmation_point[p] + ExtraRounds
      /\ phase[Master] = "handshake"
           => 0 <= Slack(HearingBy) + m[p] - confirmation_point[p] - Turned(p)

(* A peer has heard itself, and outside the loop no other.                  *)
LoopForgotten ==
  \A p \in Peer : p \in confirmed_players[p]
                  /\ (phase[p] # "confirming" => confirmed_players[p] = {p})

(* Until slot 0 has an echo of p's: one is on its way, or a ping that p     *)
(* will echo, or slot 0 sends one in its next round.                        *)
AnsweredBy == ConfirmedBy + 2 * Longest + 1
Answering(p, wait) ==
  \/ UnderWay(EchoesOf(p), wait)
  \/ phase[p] = "handshake" /\ UnderWay(PingsTo(p), wait - Longest)
  \/ 2 * Longest + Turned(Master) <= wait

AnsweredInTime ==
  phase[Master] = "handshake" =>
    \A p \in Peer \ {Master} : player_nresponses[p] = 0 => Answering(p, Slack(AnsweredBy))

(* Slot 0 sets the delay in the round after, or when the start is near.     *)
AnnouncedBy == Max({AnsweredBy, StartIn - DelayBefore})
AnnouncedInTime ==
  phase[Master] = "handshake" /\ announced = 0
    => 0 <= Slack(AnnouncedBy) + 1 - Turned(Master)

(* Until p knows the delay: a ping that tells it is on its way, or slot 0   *)
(* sends one in its next round.                                             *)
TaughtBy == AnnouncedBy + Longest + 1
Teaching(p, wait) ==
  \/ phase[p] = "handshake" /\ UnderWay(DelaysTo(p), wait)
  \/ Longest + Turned(Master) <= wait

Taught(p) == phase[p] = "handshake" /\ cycle_delay[p] = cycle_delay[Master]
TaughtInTime ==
  phase[Master] = "handshake" /\ announced # 0 =>
    \A p \in Peer \ {Master} : \/ Taught(p) \/ phase[p] = "started"
                               \/ Teaching(p, Slack(TaughtBy))

(* Nobody plays with another delay than slot 0's, or before it is set.      *)
AllTaught ==
  \A p \in Peer \ {Master} :
    /\ phase[Master] = "started"
         => phase[p] \in {"handshake", "started"} /\ cycle_delay[p] = cycle_delay[Master]
    /\ phase[p] = "started"
         => cycle_delay[p] = cycle_delay[Master] /\ (phase[Master] = "handshake" => announced # 0)

DelayInv ==
  /\ StartInv /\ ConfirmInv /\ LoopForgotten
  /\ HeardInTime /\ RoundsInTime /\ AnsweredInTime /\ AnnouncedInTime /\ TaughtInTime
  /\ AllTaught

(* The losses are few enough for all of it to happen before any peer plays. *)
FewLosses == TaughtBy + MaxLost * (Longest + 1) < StartIn - Spread

LEMMA DeadlineFacts ==
  /\ Longest \in Nat /\ Longest > 0 /\ Spread \in Nat
  /\ \A k \in Latency : k \in Nat /\ 1 <= k /\ k <= Longest
  /\ ExtraRounds \in Nat /\ ExtraRounds > 0 /\ StartIn \in Nat /\ MaxLost \in Nat
  /\ HearingBy = 2 * Longest + 1
  /\ ConfirmedBy = HearingBy + ExtraRounds
  /\ AnsweredBy = ConfirmedBy + 2 * Longest + 1
  /\ AnnouncedBy \in Nat /\ AnsweredBy <= AnnouncedBy /\ StartIn - DelayBefore <= AnnouncedBy
  /\ TaughtBy = AnnouncedBy + Longest + 1
<1>1. /\ Longest \in Nat /\ Longest > 0 /\ Spread \in Nat
      /\ \A k \in Latency : k \in Nat /\ 1 <= k /\ k <= Longest
  <2>1. Max(Latency) \in Nat /\ Max(Latency) > 0 /\ Min(Latency) \in Nat /\ Min(Latency) <= Max(Latency)
    BY LatencyFacts
  <2> QED BY <2>1, LatencyFacts DEF Longest, Spread
<1>2. /\ ExtraRounds \in Nat /\ ExtraRounds > 0 /\ StartIn \in Nat /\ MaxLost \in Nat
      /\ DelayBefore \in Nat
  BY SyncAssumption
<1>3. HearingBy = 2 * Longest + 1
  BY DEF HearingBy
<1>4. ConfirmedBy = HearingBy + ExtraRounds /\ AnsweredBy = ConfirmedBy + 2 * Longest + 1
  BY DEF ConfirmedBy, AnsweredBy
<1> DEFINE late == StartIn - DelayBefore
<1>5. AnsweredBy \in Nat /\ late \in Int
  BY <1>1, <1>2, <1>3, <1>4
<1>6. AnnouncedBy = Max({AnsweredBy, late})
  BY DEF AnnouncedBy
<1> HIDE DEF late
<1>7. AnnouncedBy = IF AnsweredBy >= late THEN AnsweredBy ELSE late
  BY <1>5, <1>6, MaxPair
<1>8. AnnouncedBy \in Nat /\ AnsweredBy <= AnnouncedBy /\ late <= AnnouncedBy
  BY <1>5, <1>7
<1>9. TaughtBy = AnnouncedBy + Longest + 1
  BY DEF TaughtBy
<1> QED BY <1>1, <1>2, <1>3, <1>4, <1>8, <1>9 DEF late

LEMMA Multiples ==
  ASSUME NEW a \in Nat, NEW b \in Nat, NEW k \in Nat, a <= b
  PROVE  /\ a * k \in Nat /\ b * k \in Nat /\ a * k <= b * k
         /\ a < b => a * k + k <= b * k
<1> DEFINE d == b - a
<1>1. d \in Nat /\ b = a + d
  OBVIOUS
<1> HIDE DEF d
<1>2. b * k = a * k + d * k /\ a * k \in Nat /\ d * k \in Nat
  BY <1>1
<1>3. d > 0 => d * k >= k
  <2> SUFFICES ASSUME d > 0 PROVE d * k >= k
    OBVIOUS
  <2> DEFINE e == d - 1
  <2>1. e \in Nat /\ d = e + 1
    BY <1>1
  <2> HIDE DEF e
  <2>2. d * k = e * k + k /\ e * k \in Nat
    BY <2>1
  <2> QED BY <2>2
<1> QED BY <1>1, <1>2, <1>3

(* Slack is an integer no less than the losses still possible allow.        *)
LEMMA SlackFacts ==
  ASSUME StartInv, NEW by \in Int
  PROVE  /\ Slack(by) \in Int /\ Cost \in Nat /\ game_start \in Int
         /\ Slack(by) = by + Cost - (StartIn - game_start)
         /\ Cost <= MaxLost * (Longest + 1) /\ MaxLost * (Longest + 1) \in Nat
<1>1. lost \in Nat /\ MaxLost \in Nat /\ lost <= MaxLost /\ game_start \in Int /\ StartIn \in Nat
  BY LatencyFacts DEF StartInv, TypeOK
<1>2. Longest + 1 \in Nat
  BY DeadlineFacts
<1>3. /\ Cost \in Nat /\ Cost <= MaxLost * (Longest + 1) /\ MaxLost * (Longest + 1) \in Nat
  BY <1>1, <1>2, Multiples DEF Cost
<1>4. Slack(by) = by + Cost - (StartIn - game_start)
  BY DEF Slack, Elapsed
<1> HIDE DEF Cost
<1> QED BY <1>1, <1>3, <1>4

(* A step in which no time passes leaves the slack, and adds Longest + 1    *)
(* when something was lost; a tick takes one.                               *)
LEMMA SlackStep ==
  ASSUME StartInv, StartInv', NEW by \in Int, lost' >= lost
  PROVE  /\ Slack(by) \in Int /\ Slack(by)' \in Int
         /\ game_start' = game_start => Slack(by)' >= Slack(by)
         /\ game_start' = game_start /\ lost' > lost => Slack(by)' >= Slack(by) + Longest + 1
         /\ game_start' >= game_start - 1 => Slack(by)' >= Slack(by) - 1
<1>1. /\ lost \in Nat /\ lost' \in Nat /\ game_start \in Int /\ game_start' \in Int /\ StartIn \in Nat
  BY LatencyFacts DEF StartInv, TypeOK
<1>2. Longest + 1 \in Nat /\ Longest \in Nat
  BY DeadlineFacts
<1> DEFINE a == lost * (Longest + 1)
           b == lost' * (Longest + 1)
<1>3. a \in Nat /\ b \in Nat /\ a <= b /\ (lost' > lost => a + (Longest + 1) <= b)
  BY <1>1, <1>2, Multiples
<1>4. /\ Slack(by) = by + a - (StartIn - game_start)
      /\ Slack(by)' = by + b - (StartIn - game_start')
  BY DEF Slack, Elapsed, Cost
<1> HIDE DEF a, b
<1> DEFINE s == Slack(by)
           t == Slack(by)'
<1>5. s = by + a - (StartIn - game_start) /\ t = by + b - (StartIn - game_start')
  BY <1>4
<1> HIDE DEF s, t
<1>6. s \in Int /\ t \in Int
  BY <1>1, <1>3, <1>5
<1>7. t = s + (b - a) + (game_start' - game_start) /\ b - a \in Nat
  BY <1>1, <1>3, <1>5
<1>8. lost' > lost => b - a >= Longest + 1
  BY <1>1, <1>2, <1>3
<1>9. /\ game_start' = game_start => t >= s
      /\ game_start' = game_start /\ lost' > lost => t >= s + Longest + 1
      /\ game_start' >= game_start - 1 => t >= s - 1
  BY <1>1, <1>2, <1>6, <1>7, <1>8
<1> QED BY <1>6, <1>9 DEF s, t

-----------------------------------------------------------------------------
(* What a peer's turn does to packets on their way.                         *)

(* Peer r takes its turn: it reads no packet of others, and of those it     *)
(* sends each is on its way afterwards or counted as lost.                  *)
TurnOf(r, sends) ==
  /\ turn = r /\ turn' = r + 1 /\ game_start' = game_start
  /\ lost' >= lost
  /\ \A y \in net : ~(y.packet.to = r /\ y.in = 0) => y \in net'
  /\ \A x \in sends : lost' > lost \/ \E k \in Latency : [packet |-> x, in |-> k] \in net'

LEMMA ExchangeTurn ==
  ASSUME StartInv, NEW r \in Peer, NEW sends, IsFiniteSet(sends), Exchange(r, sends),
         EndTurn(r), game_start' = game_start
  PROVE  TurnOf(r, sends)
<1>1. PICK gone \in SUBSET sends, takes \in [sends -> Latency] :
        /\ lost' = lost + Cardinality(gone)
        /\ net' = {x \in net : ~(x.packet.to = r /\ x.in = 0)}
                    \union {[packet |-> x, in |-> takes[x]] : x \in sends \ gone}
  BY DEF Exchange
<1>2. IsFiniteSet(gone) /\ Cardinality(gone) \in Nat /\ lost \in Nat
  BY FS_Subset, FS_CardinalityType DEF StartInv, TypeOK
<1>3. lost' >= lost
  BY <1>1, <1>2
<1>4. ASSUME NEW x \in sends
      PROVE  lost' > lost \/ \E k \in Latency : [packet |-> x, in |-> k] \in net'
  <2>1. CASE x \in gone
    <3>1. Cardinality(gone) # 0
      BY <1>2, <2>1, FS_EmptySet
    <3> QED BY <1>1, <1>2, <3>1
  <2>2. CASE x \notin gone
    BY <1>1, <2>2
  <2> QED BY <2>1, <2>2
<1>5. \A y \in net : ~(y.packet.to = r /\ y.in = 0) => y \in net'
  BY <1>1
<1> QED BY <1>3, <1>4, <1>5 DEF TurnOf, EndTurn

LEMMA ConfirmationTurn ==
  ASSUME StartInv, NEW r \in Peer, ConfirmationRound(r)
  PROVE  TurnOf(r, {Confirm(r, q, q \in confirmed_players[r]) : q \in Peer \ {r}})
<1> DEFINE sends == {Confirm(r, q, q \in confirmed_players[r]) : q \in Peer \ {r}}
<1>1. IsFiniteSet(sends)
  BY FiniteSends DEF StartInv, NetInTime
<1>2. Exchange(r, sends) /\ EndTurn(r) /\ game_start' = game_start
  BY DEF ConfirmationRound, masterVars
<1> HIDE DEF sends
<1>3. TurnOf(r, sends)
  BY <1>1, <1>2, ExchangeTurn
<1> QED BY <1>3 DEF sends

LEMMA SlaveTurn ==
  ASSUME StartInv, NEW r \in Peer, SlaveRound(r)
  PROVE  TurnOf(r, {Echo(r, x) : x \in {y \in Arrived(r) : y.type = "P"}} \union ConfirmAnswers(r))
<1> DEFINE sends == {Echo(r, x) : x \in {y \in Arrived(r) : y.type = "P"}} \union ConfirmAnswers(r)
<1>1. IsFiniteSet(sends)
  BY FiniteSends, FS_Union DEF StartInv, NetInTime
<1>2. Exchange(r, sends) /\ EndTurn(r) /\ game_start' = game_start
  BY DEF SlaveRound, masterVars
<1> HIDE DEF sends
<1>3. TurnOf(r, sends)
  BY <1>1, <1>2, ExchangeTurn
<1> QED BY <1>3 DEF sends

LEMMA MasterTurn ==
  ASSUME StartInv, MasterRound
  PROVE  TurnOf(Master, {Ping(q, game_start, StartAdvisory(q), announced') : q \in Peer \ {Master}}
                          \union ConfirmAnswers(Master))
<1> DEFINE sends == {Ping(q, game_start, StartAdvisory(q), announced') : q \in Peer \ {Master}}
                      \union ConfirmAnswers(Master)
<1>1. IsFiniteSet(sends) /\ Master \in Peer
  BY FiniteSends, FS_Union, PeerFacts DEF StartInv, NetInTime
<1>2. Exchange(Master, sends) /\ EndTurn(Master) /\ game_start' = game_start
  BY DEF MasterRound
<1> HIDE DEF sends
<1>3. TurnOf(Master, sends)
  BY <1>1, <1>2, ExchangeTurn
<1> QED BY <1>3 DEF sends

(* What is under way when r takes its turn still is afterwards, or r has    *)
(* read it.                                                                 *)
LEMMA UnderWayTurn ==
  ASSUME StartInv, NEW r \in Peer, NEW sends, TurnOf(r, sends),
         NEW packets, NEW wait \in Int, UnderWay(packets, wait)
  PROVE  /\ wait >= 0
         /\ \/ \A w \in Int : w >= wait => UnderWay(packets, w)'
            \/ \E x \in Arrived(r) : x \in packets
<1>1. PICK y \in net : y.packet \in packets /\ WaitFor(y) <= wait
  BY DEF UnderWay
<1>2. /\ y.in \in Nat /\ y.packet \in Packet /\ y.packet.to \in Nat
      /\ r \in Nat /\ turn = r /\ turn' = r + 1
  <2>1. y.in \in Nat /\ y.packet \in Packet
    BY LatencyFacts DEF StartInv, TypeOK
  <2>2. y.packet.to \in Nat /\ r \in Nat
    BY <2>1, PacketFacts DEF Peer
  <2> QED BY <2>1, <2>2 DEF TurnOf
<1>3. wait >= 0
  BY <1>1, <1>2 DEF WaitFor
<1>4. CASE y.packet.to = r /\ y.in = 0
  BY <1>1, <1>3, <1>4 DEF Arrived
<1>5. CASE ~(y.packet.to = r /\ y.in = 0)
  <2>1. y \in net'
    BY <1>5 DEF TurnOf
  <2>2. WaitFor(y)' = WaitFor(y) /\ WaitFor(y) \in Int
    BY <1>2, <1>5 DEF WaitFor
  <2>3. ASSUME NEW w \in Int, w >= wait PROVE UnderWay(packets, w)'
    <3>1. WaitFor(y)' <= w
      BY <1>1, <2>2, <2>3
    <3> QED BY <1>1, <2>1, <3>1 DEF UnderWay
  <2> QED BY <1>3, <2>3
<1> QED BY <1>4, <1>5

(* What r sends is under way for a latency, if it is not lost.              *)
LEMMA UnderWaySent ==
  ASSUME NEW r, NEW sends, TurnOf(r, sends), NEW x \in sends, NEW packets, x \in packets
  PROVE  lost' > lost \/ \A w \in Int : w >= Longest => UnderWay(packets, w)'
<1> SUFFICES ASSUME ~(lost' > lost), NEW w \in Int, w >= Longest
             PROVE  UnderWay(packets, w)'
  OBVIOUS
<1>1. PICK k \in Latency : [packet |-> x, in |-> k] \in net'
  BY DEF TurnOf
<1> DEFINE y == [packet |-> x, in |-> k]
<1>2. y \in net' /\ y.packet = x /\ y.in = k
  BY <1>1
<1> HIDE DEF y
<1>3. k \in Nat /\ 1 <= k /\ k <= Longest /\ Longest \in Nat
  BY DeadlineFacts
<1>4. WaitFor(y)' <= w
  BY <1>2, <1>3 DEF WaitFor
<1> QED BY <1>2, <1>4 DEF UnderWay

(* A tick brings everything under way one tick nearer.                      *)
LEMMA UnderWayTick ==
  ASSUME StartInv, Tick, NEW packets, NEW wait \in Int, UnderWay(packets, wait)
  PROVE  wait >= 1 /\ \A w \in Int : w >= wait - 1 => UnderWay(packets, w)'
<1>1. PICK y \in net : y.packet \in packets /\ WaitFor(y) <= wait
  BY DEF UnderWay
<1>2. /\ y.in \in Nat /\ y.packet.to \in Peer /\ y = [packet |-> y.packet, in |-> y.in]
  <2>1. y.in \in Nat /\ y.packet \in Packet /\ PacketInTime(y)
    BY LatencyFacts DEF StartInv, TypeOK, NetInTime
  <2> QED BY <2>1, PacketFacts DEF PacketInTime
<1>3. turn = NPlayers /\ turn' = 0 /\ Sooner(y) \in net' /\ NPlayers \in Nat
  BY PeerFacts DEF Tick
<1>4. y.packet.to \in Nat /\ y.packet.to < NPlayers
  BY <1>2, <1>3 DEF Peer
<1>5. Sooner(y) = [packet |-> y.packet, in |-> IF y.in = 0 THEN 0 ELSE y.in - 1]
  BY <1>2, SoonerFacts
<1> DEFINE z == Sooner(y)
<1>6. z \in net' /\ z.packet = y.packet /\ z.in = IF y.in = 0 THEN 0 ELSE y.in - 1
  BY <1>3, <1>5
<1> HIDE DEF z
<1>7. WaitFor(y) \in Int /\ WaitFor(y) >= 1 /\ WaitFor(z)' = WaitFor(y) - 1
  BY <1>2, <1>3, <1>4, <1>6 DEF WaitFor
<1>8. ASSUME NEW w \in Int, w >= wait - 1 PROVE UnderWay(packets, w)'
  <2>1. WaitFor(z)' <= w
    BY <1>1, <1>7, <1>8
  <2> QED BY <1>1, <1>6, <2>1 DEF UnderWay
<1> QED BY <1>1, <1>7, <1>8

(* A peer's round in one of the two loops.                                  *)
Round(r) == ConfirmationRound(r) \/ SlaveRound(r) \/ (r = Master /\ MasterRound)

(* As long as the deadlines are not over no peer plays, and all have come   *)
(* to the loops.                                                            *)
LEMMA EarlyPeers ==
  ASSUME FewLosses, StartInv, ConfirmInv, phase[Master] = "handshake", NEW by \in Int,
         by <= TaughtBy, 0 <= Slack(by)
  PROVE  /\ game_start > 0 /\ game_start > Spread
         /\ \A q \in Peer : phase[q] \in {"confirming", "handshake"}
<1>1. game_start > Spread /\ Spread \in Nat /\ game_start \in Int
  <2> DEFINE bound == MaxLost * (Longest + 1)
  <2>1. /\ Cost <= bound /\ bound \in Nat /\ Cost \in Nat /\ game_start \in Int
        /\ 0 <= by + Cost - (StartIn - game_start)
    BY SlackFacts
  <2>2. TaughtBy + bound < StartIn - Spread
    BY DEF FewLosses
  <2>3. /\ Spread \in Nat /\ StartIn \in Nat /\ TaughtBy \in Int
    BY DeadlineFacts
  <2> HIDE DEF bound
  <2> QED BY <2>1, <2>2, <2>3
<1>2. \A q \in Peer : phase[q] \in Phase \ {"launching", "failed", "started"}
  <2> TAKE q \in Peer
  <2>1. phase[q] \in Phase /\ phase[q] # "failed"
    BY DEF ConfirmInv, LoopInv, ConfirmationNeverFails
  <2>2. phase[q] # "launching"
    BY DEF StartInv, HeardLaunched, Begun
  <2>3. phase[q] = "started" => game_start <= Spread
    BY DEF StartInv, NoneStartsEarly, Spread
  <2>4. game_start \in Int
    BY DEF StartInv, TypeOK
  <2> QED BY <1>1, <2>1, <2>2, <2>3, <2>4
<1> QED BY <1>1, <1>2 DEF Phase

LEMMA EarlyStep ==
  ASSUME StartInv, phase[Master] = "handshake", game_start > 0, Next,
         \A q \in Peer : phase[q] \in {"confirming", "handshake"}
  PROVE  Tick \/ \E r \in Peer : Round(r)
<1>1. \A r \in Peer : ~Launch(r) /\ ~Idle(r)
  BY DEF Launch, Idle
<1>2. ~MasterStarts
  <2>1. game_start \in Int
    BY DEF StartInv, TypeOK
  <2> QED BY <2>1 DEF MasterStarts
<1> QED BY <1>1, <1>2, PeerFacts DEF Next, Run, Round

(* A peer that stays in the confirmation loop adds whom it has heard.       *)
LEMMA LoopRound ==
  ASSUME StartInv, ConfirmInv, NEW p \in Peer, ConfirmationRound(p)
  PROVE  LET c == confirmed_players[p] \union Heard(p)
             point == IF Cardinality(c) >= NPlayers /\ m[p] < confirmation_point[p]
                      THEN m[p] ELSE confirmation_point[p]
         IN  /\ c \in SUBSET Peer
             /\ \A q \in Peer \ {p} : /\ m'[q] = m[q] /\ confirmed_players'[q] = confirmed_players[q]
                                      /\ confirmation_point'[q] = confirmation_point[q]
                                      /\ phase'[q] = phase[q] /\ cycle_delay'[q] = cycle_delay[q]
             /\ \/ /\ phase'[p] = "confirming" /\ m'[p] = NextRound(m[p])
                   /\ confirmed_players'[p] = c /\ confirmation_point'[p] = point
                   /\ StaysInLoop(NextRound(m[p]), c, point)
                   /\ cycle_delay' = cycle_delay
                \/ phase'[p] = "handshake" /\ confirmed_players'[p] = {p}
<1> DEFINE c == confirmed_players[p] \union Heard(p)
           point == IF Cardinality(c) >= NPlayers /\ m[p] < confirmation_point[p]
                    THEN m[p] ELSE confirmation_point[p]
           stays == StaysInLoop(NextRound(m[p]), c, point)
<1>1. c \in SUBSET Peer
  <2>1. Heard(p) \subseteq Peer
    BY DEF Heard, Arrived, ConfirmInv, NetInv
  <2> QED BY <2>1 DEF StartInv, TypeOK
<1>2. /\ m' = [m EXCEPT ![p] = IF stays THEN NextRound(m[p]) ELSE 0]
      /\ confirmed_players' = [confirmed_players EXCEPT ![p] = IF stays THEN c ELSE {p}]
      /\ confirmation_point' = [confirmation_point EXCEPT ![p] = IF stays THEN point ELSE LastRound]
      /\ phase' = [phase EXCEPT ![p] =
           IF stays THEN "confirming"
           ELSE IF Cardinality(c) < NPlayers THEN "failed" ELSE "handshake"]
      /\ cycle_delay' = IF phase'[p] = "handshake" THEN [cycle_delay EXCEPT ![p] = 3] ELSE cycle_delay
  BY Zenon DEF ConfirmationRound
<1> HIDE DEF c, point, stays
<1>3. phase'[p] # "failed"
  BY ConfirmationRoundInv DEF ConfirmInv, LoopInv, ConfirmationNeverFails
<1>4. /\ m \in [Peer -> Nat] /\ confirmed_players \in [Peer -> SUBSET Peer]
      /\ confirmation_point \in [Peer -> 0 .. LastRound]
      /\ phase \in [Peer -> Phase]
  BY DEF ConfirmInv, LoopInv
<1>5. cycle_delay \in [Peer -> Nat]
  BY DEF StartInv, TypeOK
<1>6. \A q \in Peer \ {p} : /\ m'[q] = m[q] /\ confirmed_players'[q] = confirmed_players[q]
                            /\ confirmation_point'[q] = confirmation_point[q]
                            /\ phase'[q] = phase[q] /\ cycle_delay'[q] = cycle_delay[q]
  BY <1>2, <1>4, <1>5
<1>7. CASE stays
  <2>1. /\ phase'[p] = "confirming" /\ m'[p] = NextRound(m[p])
        /\ confirmed_players'[p] = c /\ confirmation_point'[p] = point /\ cycle_delay' = cycle_delay
    BY <1>2, <1>4, <1>7
  <2> QED BY <1>1, <1>6, <1>7, <2>1 DEF c, point, stays
<1>8. CASE ~stays
  <2>1. phase'[p] = "handshake" /\ confirmed_players'[p] = {p}
    BY <1>2, <1>3, <1>4, <1>8
  <2> QED BY <1>1, <1>6, <2>1 DEF c, point
<1> QED BY <1>7, <1>8

(* Who reads a confirmation that asks for one sends it.                     *)
LEMMA AnswersConfirm ==
  ASSUME StartInv, NEW r \in Peer, Round(r), NEW p \in Peer, p # r,
         Confirm(p, r, FALSE) \in Arrived(r)
  PROVE  lost' > lost \/ \A w \in Int : w >= Longest => UnderWay(Confirms(r, p), w)'
<1>1. Confirm(p, r, FALSE).from = p /\ Confirm(p, r, FALSE).type = "A"
  BY DEF Confirm
<1>2. Confirm(r, p, TRUE) \in ConfirmAnswers(r)
  BY <1>1 DEF ConfirmAnswers
<1>3. /\ Confirm(r, p, TRUE) \in Confirms(r, p)
      /\ Confirm(r, p, p \in confirmed_players[r]) \in Confirms(r, p)
  <2>1. TRUE \in BOOLEAN /\ (p \in confirmed_players[r]) \in BOOLEAN
    OBVIOUS
  <2> QED BY <2>1, Zenon DEF Confirms
<1>4. CASE ConfirmationRound(r)
  <2> DEFINE sends == {Confirm(r, q, q \in confirmed_players[r]) : q \in Peer \ {r}}
             x == Confirm(r, p, p \in confirmed_players[r])
  <2>1. TurnOf(r, sends)
    BY <1>4, ConfirmationTurn
  <2>2. x \in sends /\ x \in Confirms(r, p)
    BY <1>3
  <2> HIDE DEF sends, x
  <2> QED BY <2>1, <2>2, UnderWaySent
<1>5. CASE SlaveRound(r)
  <2> DEFINE sends == {Echo(r, x) : x \in {y \in Arrived(r) : y.type = "P"}} \union ConfirmAnswers(r)
  <2>1. TurnOf(r, sends) /\ Confirm(r, p, TRUE) \in sends
    BY <1>2, <1>5, SlaveTurn
  <2> HIDE DEF sends
  <2> QED BY <1>3, <2>1, UnderWaySent
<1>6. CASE r = Master /\ MasterRound
  <2> DEFINE sends == {Ping(q, game_start, StartAdvisory(q), announced') : q \in Peer \ {Master}}
                        \union ConfirmAnswers(Master)
  <2>1. TurnOf(r, sends) /\ Confirm(r, p, TRUE) \in sends
    BY <1>2, <1>6, MasterTurn
  <2> HIDE DEF sends
  <2> QED BY <1>3, <2>1, UnderWaySent
<1> QED BY <1>4, <1>5, <1>6 DEF Round

LEMMA RoundTurn ==
  ASSUME StartInv, NEW r \in Peer, Round(r)
  PROVE  \E sends : TurnOf(r, sends)
BY ConfirmationTurn, SlaveTurn, MasterTurn DEF Round

LEMMA LoopForgottenStep ==
  ASSUME StartInv, ConfirmInv, LoopForgotten, [Next]_vars
  PROVE  LoopForgotten'
<1>1. ASSUME NEW p \in Peer, ConfirmationRound(p) PROVE LoopForgotten'
  <2>1. /\ \A q \in Peer \ {p} : confirmed_players'[q] = confirmed_players[q] /\ phase'[q] = phase[q]
        /\ \/ phase'[p] = "confirming" /\ confirmed_players'[p] = confirmed_players[p] \union Heard(p)
           \/ confirmed_players'[p] = {p}
    BY <1>1, LoopRound
  <2> QED BY <2>1 DEF LoopForgotten
<1>2. ASSUME NEW p \in Peer, Launch(p) PROVE LoopForgotten'
  BY <1>2 DEF Launch, loopVars, LoopForgotten, StartInv, TypeOK
<1>3. ASSUME NEW p \in Peer, SlaveRound(p) \/ Idle(p) \/ Tick \/ MasterRound \/ MasterStarts
             \/ UNCHANGED vars
      PROVE LoopForgotten'
  <2>1. UNCHANGED confirmed_players /\ \A q \in Peer : phase'[q] = phase[q] \/ phase[q] = "handshake"
    BY <1>3, PeerFacts DEF SlaveRound, Idle, Tick, MasterRound, MasterStarts, vars, loopVars,
      StartInv, TypeOK
  <2>2. \A q \in Peer : phase'[q] # phase[q] => phase'[q] = "started"
    BY <1>3, PeerFacts DEF SlaveRound, Idle, Tick, MasterRound, MasterStarts, vars, loopVars,
      StartInv, TypeOK
  <2> QED BY <2>1, <2>2 DEF LoopForgotten
<1> QED BY <1>1, <1>2, <1>3, PeerFacts DEF Next, Run

(* Whoever is heard has confirmed, and whose confirmation is read is heard. *)
LEMMA HearingRound ==
  ASSUME StartInv, ConfirmInv, NEW r \in Peer, Round(r),
         NEW p \in Peer, NEW q \in Peer, p # q,
         phase[p] = "confirming", phase'[p] = "confirming",
         q \notin confirmed_players[p], q \notin confirmed_players'[p],
         NEW w \in Int, NEW v \in Int, w <= v, lost' > lost => w + Longest + 1 <= v,
         Hearing(p, q, w)
  PROVE  Hearing(p, q, v)'
<1>1. PICK sends : TurnOf(r, sends)
  BY RoundTurn
<1>2. Longest \in Nat /\ Longest > 0 /\ w - Longest \in Int /\ v - Longest \in Int
  BY DeadlineFacts
<1>3. turn = r /\ turn' = r + 1 /\ r \in Nat /\ p \in Nat /\ q \in Nat
  BY <1>1 DEF TurnOf, Peer
<1>4. \A x \in Arrived(r) : x.to = r
  BY DEF Arrived
<1>5. CASE UnderWay(Confirms(q, p), w)
  <2>1. \/ UnderWay(Confirms(q, p), v)'
        \/ \E x \in Arrived(r) : x \in Confirms(q, p)
    BY <1>1, <1>5, UnderWayTurn
  <2>2. ASSUME NEW x \in Arrived(r), x \in Confirms(q, p) PROVE FALSE
    <3>1. x.to = p /\ x.from = q /\ x.type \in {"a", "A"}
      BY <2>2 DEF Confirms, Confirm
    <3>2. r = p /\ q \in Heard(p)
      BY <1>4, <2>2, <3>1 DEF Heard
    <3>3. ConfirmationRound(p)
      BY <3>2 DEF Round, SlaveRound, MasterRound
    <3>4. confirmed_players'[p] = confirmed_players[p] \union Heard(p)
      BY <3>3, LoopRound
    <3> QED BY <3>2, <3>4
  <2> QED BY <2>1, <2>2 DEF Hearing
<1>6. CASE UnderWay({Confirm(p, q, FALSE)}, w - Longest)
  <2>1. /\ w - Longest >= 0
        /\ \/ UnderWay({Confirm(p, q, FALSE)}, v - Longest)'
           \/ \E x \in Arrived(r) : x \in {Confirm(p, q, FALSE)}
    <3> DEFINE a == w - Longest
               b == v - Longest
    <3>1. a \in Int /\ b \in Int /\ b >= a /\ UnderWay({Confirm(p, q, FALSE)}, a)
      BY <1>2, <1>6
    <3> HIDE DEF a, b
    <3>2. /\ a >= 0
          /\ \/ UnderWay({Confirm(p, q, FALSE)}, b)'
             \/ \E x \in Arrived(r) : x \in {Confirm(p, q, FALSE)}
      BY <1>1, <3>1, UnderWayTurn
    <3> QED BY <3>2 DEF a, b
  <2>2. ASSUME Confirm(p, q, FALSE) \in Arrived(r)
        PROVE  Hearing(p, q, v)'
    <3>1. r = q
      BY <1>4, <2>2 DEF Confirm
    <3>2. \/ lost' > lost
          \/ \A z \in Int : z >= Longest => UnderWay(Confirms(q, p), z)'
      BY <2>2, <3>1, AnswersConfirm
    <3>3. Turned(p)' \in {0, 1}
      BY DEF Turned
    <3>4. lost' > lost => 2 * Longest + Turned(p)' <= v
      BY <1>2, <2>1, <3>3
    <3>5. ~(lost' > lost) => UnderWay(Confirms(q, p), v)'
      <4>1. v >= Longest
        BY <1>2, <2>1
      <4> QED BY <3>2, <4>1
    <3> QED BY <3>4, <3>5 DEF Hearing
  <2> QED BY <2>1, <2>2 DEF Hearing
<1>7. CASE 2 * Longest + Turned(p) <= w
  <2>1. CASE r # p
    <3>1. Turned(p)' = Turned(p) /\ Turned(p) \in {0, 1}
      BY <1>3, <2>1 DEF Turned
    <3>2. 2 * Longest + Turned(p)' <= v
      BY <1>2, <1>7, <3>1
    <3> QED BY <3>2 DEF Hearing
  <2>2. CASE r = p
    <3>1. ConfirmationRound(p)
      BY <2>2 DEF Round, SlaveRound, MasterRound
    <3>2. Turned(p) = 0 /\ Turned(p)' = 1
      BY <1>3, <2>2 DEF Turned
    <3> DEFINE out == {Confirm(p, s, s \in confirmed_players[p]) : s \in Peer \ {p}}
               x == Confirm(p, q, FALSE)
    <3>3. x \in out
      <4>1. (q \in confirmed_players[p]) = FALSE
        OBVIOUS
      <4> QED BY <4>1
    <3>4. TurnOf(p, out)
      BY <3>1, ConfirmationTurn
    <3>5. x \in {x}
      OBVIOUS
    <3> HIDE DEF out
    <3>6. lost' > lost \/ \A z \in Int : z >= Longest => UnderWay({x}, z)'
      BY <3>3, <3>4, <3>5, UnderWaySent
    <3>7. lost' > lost => 2 * Longest + Turned(p)' <= v
      BY <1>2, <1>7, <3>2
    <3>8. ~(lost' > lost) => UnderWay({x}, v - Longest)'
      <4> DEFINE b == v - Longest
      <4>1. b \in Int /\ b >= Longest
        BY <1>2, <1>7, <3>2
      <4> HIDE DEF b, x
      <4>2. ~(lost' > lost) => UnderWay({x}, b)'
        BY <3>6, <4>1
      <4> QED BY <4>2 DEF b
    <3> QED BY <3>7, <3>8 DEF Hearing
  <2> QED BY <2>1, <2>2
<1> QED BY <1>5, <1>6, <1>7 DEF Hearing

(* Time takes one tick of what is left.                                     *)
LEMMA TurnedTick ==
  ASSUME Tick, NEW p \in Peer
  PROVE  Turned(p) = 1 /\ Turned(p)' = 0
BY PeerFacts DEF Tick, Turned, Peer

LEMMA UnderWayLater ==
  ASSUME StartInv, Tick, NEW packets, NEW w \in Int, NEW v \in Int, w - 1 <= v,
         UnderWay(packets, w - Longest)
  PROVE  UnderWay(packets, v - Longest)'
<1> DEFINE a == w - Longest
           b == v - Longest
<1>1. a \in Int /\ b \in Int /\ b >= a - 1 /\ UnderWay(packets, a)
  BY DeadlineFacts
<1> HIDE DEF a, b
<1>2. UnderWay(packets, b)'
  BY <1>1, UnderWayTick
<1> QED BY <1>2 DEF b

LEMMA HearingTick ==
  ASSUME StartInv, Tick, NEW p \in Peer, NEW q \in Peer,
         NEW w \in Int, NEW v \in Int, w - 1 <= v, Hearing(p, q, w)
  PROVE  Hearing(p, q, v)'
<1>1. CASE UnderWay(Confirms(q, p), w)
  BY <1>1, UnderWayTick DEF Hearing
<1>2. CASE UnderWay({Confirm(p, q, FALSE)}, w - Longest)
  BY <1>2, UnderWayLater DEF Hearing
<1>3. CASE 2 * Longest + Turned(p) <= w
  <2>1. 2 * Longest + Turned(p)' <= v
    BY <1>3, TurnedTick, DeadlineFacts
  <2> QED BY <2>1 DEF Hearing
<1> QED BY <1>1, <1>2, <1>3 DEF Hearing

(* How peers come to the loops, from one step to the next.                  *)
LEMMA PhaseStep ==
  ASSUME StartInv, ConfirmInv, Next, NEW p \in Peer
  PROVE  /\ phase'[p] # phase[p] =>
              \/ phase[p] = "launching" /\ phase'[p] = "confirming" /\ Launch(p)
              \/ phase[p] = "confirming" /\ phase'[p] = "handshake" /\ ConfirmationRound(p)
              \/ phase[p] = "handshake" /\ phase'[p] = "started"
                 /\ (SlaveRound(p) \/ (p = Master /\ MasterStarts))
         /\ phase[p] = "confirming" /\ phase'[p] = "confirming"
              => confirmed_players[p] \subseteq confirmed_players'[p]
<1>1. phase \in [Peer -> Phase]
  BY DEF StartInv, TypeOK, Phase
<1>2. ASSUME NEW r \in Peer, ConfirmationRound(r)
      PROVE  /\ phase'[p] # phase[p] => p = r /\ phase'[p] = "handshake" /\ phase[p] = "confirming"
             /\ phase[p] = "confirming" /\ phase'[p] = "confirming"
                  => confirmed_players[p] \subseteq confirmed_players'[p]
  <2>1. /\ \A q \in Peer \ {r} : confirmed_players'[q] = confirmed_players[q] /\ phase'[q] = phase[q]
        /\ \/ phase'[r] = "confirming" /\ confirmed_players'[r] = confirmed_players[r] \union Heard(r)
           \/ phase'[r] = "handshake"
    BY <1>2, LoopRound
  <2>2. phase[r] = "confirming"
    BY <1>2 DEF ConfirmationRound
  <2> QED BY <2>1, <2>2
<1>3. ASSUME NEW r \in Peer, Launch(r)
      PROVE  /\ phase'[p] # phase[p]
                  => p = r /\ phase[p] = "launching" /\ phase'[p] = "confirming"
             /\ confirmed_players' = confirmed_players
  BY <1>1, <1>3 DEF Launch, loopVars
<1>4. ASSUME NEW r \in Peer, SlaveRound(r)
      PROVE  /\ phase'[p] # phase[p] => p = r /\ phase'[p] = "started" /\ phase[p] = "handshake"
             /\ confirmed_players' = confirmed_players
  BY <1>1, <1>4 DEF SlaveRound, loopVars
<1>5. ASSUME MasterStarts
      PROVE  /\ phase'[p] # phase[p] => p = Master /\ phase'[p] = "started" /\ phase[p] = "handshake"
             /\ confirmed_players' = confirmed_players
  BY <1>1, <1>5 DEF MasterStarts, loopVars
<1>6. ASSUME NEW r \in Peer, Idle(r) \/ Tick \/ MasterRound
      PROVE  phase' = phase /\ confirmed_players' = confirmed_players
  BY <1>6 DEF Idle, Tick, MasterRound, loopVars
<1> QED BY <1>2, <1>3, <1>4, <1>5, <1>6, PeerFacts DEF Next, Run

(* The deadlines begin when slot 0 leaves the confirmation loop.            *)
LEMMA Beginning ==
  ASSUME StartInv, StartInv', ConfirmInv, Next,
         phase[Master] # "handshake", phase'[Master] = "handshake"
  PROVE  /\ ConfirmationRound(Master) /\ ~Begun
         /\ announced' = 0
         /\ \A by \in Int : Slack(by)' \in Int /\ Slack(by)' >= by
<1>1. ConfirmationRound(Master) /\ phase[Master] = "confirming"
  <2>1. ~Launch(Master) \/ phase'[Master] # "handshake"
    BY PeerFacts DEF Launch, StartInv, TypeOK
  <2> QED BY <2>1, PhaseStep, PeerFacts
<1>2. ~Begun /\ game_start = StartIn /\ announced = 0
  BY <1>1 DEF StartInv, NothingBegun, Begun
<1>3. game_start' = StartIn /\ announced' = 0
  BY <1>1, <1>2 DEF ConfirmationRound, masterVars
<1>4. ASSUME NEW by \in Int PROVE Slack(by)' \in Int /\ Slack(by)' >= by
  <2> DEFINE a == lost' * (Longest + 1)
  <2>1. a \in Nat
    <3>1. lost' \in Nat /\ Longest + 1 \in Nat
      BY DeadlineFacts, LatencyFacts DEF StartInv, TypeOK
    <3> QED BY <3>1, Multiples
  <2>2. Slack(by)' = by + a - (StartIn - StartIn)
    BY <1>3 DEF Slack, Cost, Elapsed
  <2> HIDE DEF a
  <2>3. StartIn \in Nat
    BY DeadlineFacts
  <2> QED BY <2>1, <2>2, <2>3
<1> QED BY <1>1, <1>2, <1>3, <1>4

LEMMA UnderWayNat ==
  ASSUME StartInv, NEW packets, NEW w \in Int, UnderWay(packets, w)
  PROVE  0 <= w
<1>1. PICK y \in net : WaitFor(y) <= w
  BY DEF UnderWay
<1>2. y.in \in Nat
  BY LatencyFacts DEF StartInv, TypeOK
<1> QED BY <1>1, <1>2 DEF WaitFor

LEMMA UnderWayLongest ==
  ASSUME StartInv, NEW packets, NEW w \in Int, UnderWay(packets, w - Longest)
  PROVE  0 <= w
<1> DEFINE a == w - Longest
<1>1. Longest \in Nat /\ a \in Int /\ UnderWay(packets, a)
  BY DeadlineFacts
<1> HIDE DEF a
<1>2. 0 <= a
  BY <1>1, UnderWayNat
<1> QED BY <1>1, <1>2 DEF a

LEMMA HearingNat ==
  ASSUME StartInv, NEW p \in Peer, NEW q \in Peer, NEW w \in Int, Hearing(p, q, w)
  PROVE  0 <= w
<1>1. Turned(p) \in {0, 1} /\ Longest \in Nat
  BY DeadlineFacts DEF Turned
<1>2. 2 * Longest + Turned(p) <= w => 0 <= w
  BY <1>1
<1> QED BY <1>2, UnderWayNat, UnderWayLongest DEF Hearing

LEMMA AnsweringNat ==
  ASSUME StartInv, NEW p \in Peer, NEW w \in Int, Answering(p, w)
  PROVE  0 <= w
<1>1. Turned(Master) \in {0, 1} /\ Longest \in Nat
  BY DeadlineFacts DEF Turned
<1>2. 2 * Longest + Turned(Master) <= w => 0 <= w
  BY <1>1
<1> QED BY <1>2, UnderWayNat, UnderWayLongest DEF Answering

LEMMA TeachingNat ==
  ASSUME StartInv, NEW p \in Peer, NEW w \in Int, Teaching(p, w)
  PROVE  0 <= w
<1>1. Turned(Master) \in {0, 1} /\ Longest \in Nat
  BY DeadlineFacts DEF Turned
<1>2. Longest + Turned(Master) <= w => 0 <= w
  BY <1>1
<1> QED BY <1>2, UnderWayNat DEF Teaching

(* A later deadline leaves as much more slack.                              *)
LEMMA SlackLater ==
  ASSUME StartInv, NEW by \in Int, NEW later \in Int
  PROVE  /\ Slack(by) \in Int /\ Slack(later) \in Int
         /\ Slack(later) = Slack(by) + (later - by)
<1>1. /\ Slack(by) = by + Cost - (StartIn - game_start)
      /\ Slack(later) = later + Cost - (StartIn - game_start)
      /\ Cost \in Nat /\ game_start \in Int
  BY SlackFacts
<1>2. StartIn \in Nat
  BY DeadlineFacts
<1> QED BY <1>1, <1>2

(* A step before a deadline: time passes, or a peer takes a round.          *)
LEMMA EarlyTurn ==
  ASSUME FewLosses, StartInv, StartInv', ConfirmInv, phase[Master] = "handshake", Next,
         NEW by \in Int, by <= TaughtBy, 0 <= Slack(by)
  PROVE  /\ Slack(by) \in Int /\ Slack(by)' \in Int
         /\ \/ Tick /\ Slack(by)' >= Slack(by) - 1
            \/ /\ \E r \in Peer : Round(r)
               /\ Slack(by)' >= Slack(by)
               /\ lost' > lost => Slack(by)' >= Slack(by) + Longest + 1
<1>1. game_start > 0 /\ \A q \in Peer : phase[q] \in {"confirming", "handshake"}
  BY EarlyPeers
<1>2. Tick \/ \E r \in Peer : Round(r)
  BY <1>1, EarlyStep
<1>3. /\ game_start \in Int /\ game_start' \in Int /\ lost \in Nat
  BY LatencyFacts DEF StartInv, TypeOK
<1>4. CASE Tick
  <2>1. lost' >= lost
    BY <1>3, <1>4 DEF Tick
  <2>2. Overdue \in Int /\ Begun
    BY LatencyFacts DEF Begun
  <2>3. game_start' = IF Overdue >= game_start - 1 THEN Overdue ELSE game_start - 1
    BY <1>4, <2>2, StartsTick DEF StartInv
  <2>4. game_start' >= game_start - 1
    BY <1>3, <2>2, <2>3
  <2> QED BY <1>4, <2>1, <2>4, SlackStep
<1>5. ASSUME NEW r \in Peer, Round(r)
      PROVE  /\ Slack(by) \in Int /\ Slack(by)' \in Int
             /\ Slack(by)' >= Slack(by)
             /\ lost' > lost => Slack(by)' >= Slack(by) + Longest + 1
  <2>1. PICK sends : TurnOf(r, sends)
    BY <1>5, RoundTurn
  <2>2. game_start' = game_start /\ lost' >= lost
    BY <2>1 DEF TurnOf
  <2> QED BY <2>2, SlackStep
<1> QED BY <1>2, <1>4, <1>5

LEMMA HeardStep ==
  ASSUME FewLosses, StartInv, StartInv', ConfirmInv, LoopForgotten', HeardInTime, Next
  PROVE  HeardInTime'
<1> SUFFICES ASSUME phase'[Master] = "handshake", NEW p \in Peer, NEW q \in Peer,
                    phase'[p] = "confirming", q \notin confirmed_players'[p]
             PROVE  Hearing(p, q, Slack(HearingBy))'
  BY DEF HeardInTime
<1>1. HearingBy \in Int /\ HearingBy <= TaughtBy /\ Longest \in Nat
  BY DeadlineFacts
<1>2. p # q
  BY DEF LoopForgotten
<1>3. CASE phase[Master] # "handshake"
  <2>1. Slack(HearingBy)' \in Int /\ Slack(HearingBy)' >= 2 * Longest + 1
    BY <1>1, <1>3, Beginning, DeadlineFacts
  <2>2. Turned(p)' \in {0, 1}
    BY DEF Turned
  <2>3. 2 * Longest + Turned(p)' <= Slack(HearingBy)'
    BY <1>1, <2>1, <2>2
  <2> QED BY <2>3 DEF Hearing
<1>4. CASE phase[Master] = "handshake"
  <2>1. phase[p] = "confirming" /\ q \notin confirmed_players[p]
    <3>1. phase[p] # "launching"
      BY <1>4 DEF StartInv, HeardLaunched, Begun
    <3> QED BY <3>1, PhaseStep
  <2>2. Hearing(p, q, Slack(HearingBy))
    BY <1>4, <2>1 DEF HeardInTime
  <2>3. Slack(HearingBy) \in Int
    BY <1>1, SlackFacts
  <2>4. PICK w \in Int : w = Slack(HearingBy)
    BY <2>3
  <2>5. Hearing(p, q, w)
    BY <2>2, <2>4
  <2>6. 0 <= Slack(HearingBy)
    BY <2>4, <2>5, HearingNat
  <2>7. /\ Slack(HearingBy)' \in Int
        /\ \/ Tick /\ Slack(HearingBy)' >= w - 1
           \/ /\ \E r \in Peer : Round(r)
              /\ Slack(HearingBy)' >= w
              /\ lost' > lost => Slack(HearingBy)' >= w + Longest + 1
    BY <1>1, <1>4, <2>4, <2>6, EarlyTurn
  <2>8. PICK v \in Int : v = Slack(HearingBy)'
    BY <2>7
  <2>9. Hearing(p, q, v)'
    BY <1>1, <1>2, <2>1, <2>5, <2>7, <2>8, HearingRound, HearingTick
  <2> QED BY <2>8, <2>9
<1> QED BY <1>3, <1>4

LEMMA WholePeer ==
  ASSUME NEW S \in SUBSET Peer
  PROVE  Cardinality(S) \in Nat /\ (Cardinality(S) >= NPlayers <=> S = Peer)
<1>1. IsFiniteSet(Peer) /\ Cardinality(Peer) = NPlayers /\ NPlayers \in Nat
  <2>1. 0 \in Int /\ NPlayers - 1 \in Int /\ NPlayers \in Nat /\ NPlayers > 0
    BY SyncAssumption
  <2>2. Cardinality(Peer) = IF 0 > NPlayers - 1 THEN 0 ELSE NPlayers - 1 - 0 + 1
    BY <2>1, FS_Interval DEF Peer
  <2> QED BY <2>1, <2>2, FS_Interval DEF Peer
<1>2. /\ Cardinality(S) \in Nat /\ Cardinality(S) <= Cardinality(Peer)
      /\ (Cardinality(Peer) = Cardinality(S) => Peer = S)
  BY <1>1, FS_Subset, PeerFacts
<1> QED BY <1>1, <1>2

(* Where a peer's loop stands after a round that does not end it.           *)
LEMMA LoopCount ==
  ASSUME StartInv, ConfirmInv, RoundsInTime, NEW p \in Peer, ConfirmationRound(p),
         phase'[p] = "confirming", confirmed_players'[p] = Peer
  PROVE  /\ m[p] \in Nat /\ m'[p] \in Nat
         /\ confirmation_point[p] \in Nat /\ confirmation_point'[p] \in Nat
         /\ confirmation_point'[p] + 1 <= m'[p]
         /\ m'[p] < confirmation_point'[p] + ExtraRounds
         /\ confirmed_players[p] = Peer
              => m'[p] - confirmation_point'[p] = m[p] - confirmation_point[p] + 1
<1> DEFINE c == confirmed_players[p] \union Heard(p)
           point == IF Cardinality(c) >= NPlayers /\ m[p] < confirmation_point[p]
                    THEN m[p] ELSE confirmation_point[p]
<1>1. /\ c \in SUBSET Peer /\ m'[p] = NextRound(m[p]) /\ confirmed_players'[p] = c
      /\ confirmation_point'[p] = point /\ StaysInLoop(NextRound(m[p]), c, point)
  BY LoopRound
<1>2. c = Peer /\ Cardinality(c) >= NPlayers /\ Cardinality(c) \in Nat /\ NPlayers \in Nat
  BY <1>1, WholePeer, PeerFacts
<1>3. point = IF m[p] < confirmation_point[p] THEN m[p] ELSE confirmation_point[p]
  BY <1>2
<1>4. NextRound(m[p]) < point + ExtraRounds
  BY <1>1, <1>2 DEF StaysInLoop
<1>5. /\ m[p] \in Nat /\ m[p] <= LastRound + ExtraRounds + 1
      /\ confirmation_point[p] \in Nat /\ confirmation_point[p] <= LastRound
      /\ LastRound \in Nat /\ ExtraRounds \in Nat
  BY PeerFacts DEF StartInv, TypeOK
<1>6. phase[p] = "confirming"
  BY DEF ConfirmationRound
<1>7. confirmed_players[p] = Peer => confirmation_point[p] <= m[p]
  BY <1>6 DEF RoundsInTime
<1>8. confirmed_players[p] # Peer => confirmation_point[p] = LastRound
  <2> SUFFICES ASSUME confirmation_point[p] # LastRound PROVE confirmed_players[p] = Peer
    OBVIOUS
  <2>1. confirmed_players[p] \in SUBSET Peer
    BY DEF StartInv, TypeOK
  <2>2. Cardinality(confirmed_players[p]) >= NPlayers
    BY <1>5 DEF ConfirmInv, LoopInv
  <2> QED BY <2>1, <2>2, WholePeer
<1> HIDE DEF c, point
<1>9. NextRound(m[p]) = m[p] + 1
  <2> DEFINE a == m[p] + 1
             b == LastRound + ExtraRounds + 1
  <2>1. a \in Int /\ b \in Int
    BY <1>5
  <2>2. NextRound(m[p]) = Min({a, b})
    BY DEF NextRound
  <2> HIDE DEF a, b
  <2>3. NextRound(m[p]) \in {a, b}
    BY <2>1, <2>2, MinPair
  <2>4. NextRound(m[p]) # b
    BY <1>3, <1>4, <1>5 DEF b
  <2> QED BY <2>3, <2>4 DEF a
<1> QED BY <1>1, <1>3, <1>4, <1>5, <1>7, <1>8, <1>9

LEMMA RoundsStep ==
  ASSUME FewLosses, StartInv, StartInv', ConfirmInv, LoopForgotten, HeardInTime, RoundsInTime,
         Next
  PROVE  RoundsInTime'
<1> SUFFICES ASSUME NEW p \in Peer, phase'[p] = "confirming", confirmed_players'[p] = Peer
             PROVE  /\ confirmation_point'[p] <= m'[p] /\ m'[p] < confirmation_point'[p] + ExtraRounds
                    /\ phase'[Master] = "handshake"
                         => 0 <= Slack(HearingBy)' + m'[p] - confirmation_point'[p] - Turned(p)'
  BY DEF RoundsInTime
<1>1. /\ HearingBy \in Nat /\ HearingBy <= TaughtBy /\ HearingBy >= 1
      /\ ExtraRounds \in Nat /\ ConfirmedBy <= TaughtBy /\ ConfirmedBy = HearingBy + ExtraRounds
      /\ ConfirmedBy \in Int
  BY DeadlineFacts
<1>2. /\ phase[p] = "confirming"
      /\ ConfirmationRound(p) \/ UNCHANGED <<m[p], confirmed_players[p], confirmation_point[p]>>
  <2>1. confirmed_players[p] \in SUBSET Peer /\ NPlayers \in Nat /\ NPlayers >= 2
    BY SyncAssumption DEF StartInv, TypeOK
  <2>2. {p} # Peer
    <3>1. 0 \in Peer /\ 1 \in Peer
      BY <2>1 DEF Peer
    <3> QED BY <3>1
  <2>3. phase[p] # "launching"
    <3> SUFFICES ASSUME phase[p] = "launching" PROVE FALSE
      OBVIOUS
    <3>1. confirmed_players[p] = {p} /\ Launch(p)
      BY PhaseStep DEF LoopForgotten
    <3> QED BY <2>2, <3>1 DEF Launch, loopVars
  <2>4. phase[p] = "confirming"
    BY <2>3, PhaseStep
  <2>5. ConfirmationRound(p) \/ UNCHANGED <<m[p], confirmed_players[p], confirmation_point[p]>>
    <3>1. ASSUME NEW r \in Peer, ConfirmationRound(r), r # p
          PROVE  UNCHANGED <<m[p], confirmed_players[p], confirmation_point[p]>>
      BY <3>1, LoopRound
    <3>2. ASSUME NEW r \in Peer, Launch(r) \/ SlaveRound(r) \/ Idle(r) \/ Tick \/ MasterRound \/ MasterStarts
          PROVE  UNCHANGED <<m[p], confirmed_players[p], confirmation_point[p]>>
      BY <3>2 DEF Launch, SlaveRound, Idle, Tick, MasterRound, MasterStarts, loopVars
    <3> QED BY <3>1, <3>2, PeerFacts DEF Next, Run
  <2> QED BY <2>4, <2>5
<1> DEFINE n == m[p] - confirmation_point[p]
           k == m'[p] - confirmation_point'[p]
\* The count of rounds since everyone was heard.
<1>3. /\ confirmation_point'[p] <= m'[p] /\ m'[p] < confirmation_point'[p] + ExtraRounds
      /\ k \in Nat /\ k < ExtraRounds /\ n \in Int
      /\ \/ ConfirmationRound(p) /\ k >= 1 /\ (confirmed_players[p] = Peer => k = n + 1)
         \/ k = n /\ confirmed_players[p] = Peer /\ n >= 0 /\ n < ExtraRounds
  <2>1. CASE ConfirmationRound(p)
    <3>1. /\ m[p] \in Nat /\ m'[p] \in Nat
          /\ confirmation_point[p] \in Nat /\ confirmation_point'[p] \in Nat
          /\ confirmation_point'[p] + 1 <= m'[p] /\ m'[p] < confirmation_point'[p] + ExtraRounds
          /\ confirmed_players[p] = Peer => k = n + 1
      BY <2>1, LoopCount
    <3> QED BY <1>1, <2>1, <3>1
  <2>2. CASE UNCHANGED <<m[p], confirmed_players[p], confirmation_point[p]>>
    <3>1. m[p] \in Nat /\ confirmation_point[p] \in Nat
      BY PeerFacts DEF StartInv, TypeOK
    <3>2. /\ confirmed_players[p] = Peer
          /\ confirmation_point[p] <= m[p] /\ m[p] < confirmation_point[p] + ExtraRounds
      BY <1>2, <2>2 DEF RoundsInTime
    <3> QED BY <1>1, <2>2, <3>1, <3>2
  <2> QED BY <1>2, <2>1, <2>2
<1>4. ASSUME phase'[Master] = "handshake", phase[Master] # "handshake"
      PROVE  0 <= Slack(HearingBy)' + k - Turned(p)'
  <2>1. Slack(HearingBy)' \in Int /\ Slack(HearingBy)' >= HearingBy
    BY <1>1, <1>4, Beginning
  <2>2. Turned(p)' \in {0, 1}
    BY DEF Turned
  <2> HIDE DEF k
  <2> QED BY <1>1, <1>3, <2>1, <2>2
<1>5. ASSUME phase'[Master] = "handshake", phase[Master] = "handshake"
      PROVE  0 <= Slack(HearingBy)' + k - Turned(p)'
  <2>1. /\ confirmed_players[p] = Peer => 0 <= Slack(HearingBy) + n - Turned(p) /\ n >= 0 /\ n < ExtraRounds
    <3>1. m[p] \in Nat /\ confirmation_point[p] \in Nat
      BY PeerFacts DEF StartInv, TypeOK
    <3>2. Slack(HearingBy) \in Int /\ Turned(p) \in {0, 1}
      BY <1>1, SlackFacts DEF Turned
    <3> QED BY <1>1, <1>2, <1>5, <3>1, <3>2 DEF RoundsInTime
  <2>2. confirmed_players[p] # Peer => 0 <= Slack(HearingBy)
    <3> SUFFICES ASSUME confirmed_players[p] # Peer PROVE 0 <= Slack(HearingBy)
      OBVIOUS
    <3>1. PICK q \in Peer : q \notin confirmed_players[p]
      BY DEF StartInv, TypeOK
    <3>2. Hearing(p, q, Slack(HearingBy))
      BY <1>2, <1>5, <3>1 DEF HeardInTime
    <3> QED BY <1>1, <3>2, SlackFacts, HearingNat
  <2>3. /\ Slack(HearingBy) \in Int /\ Turned(p) \in {0, 1} /\ Turned(p)' \in {0, 1}
        /\ Slack(ConfirmedBy) \in Int /\ Slack(ConfirmedBy) = Slack(HearingBy) + ExtraRounds
    <3>1. /\ Slack(HearingBy) \in Int /\ Slack(ConfirmedBy) \in Int
          /\ Slack(HearingBy) = HearingBy + Cost - (StartIn - game_start)
          /\ Slack(ConfirmedBy) = ConfirmedBy + Cost - (StartIn - game_start)
          /\ Cost \in Nat /\ game_start \in Int
      BY <1>1, SlackFacts
    <3>2. StartIn \in Nat
      BY DeadlineFacts
    <3> QED BY <1>1, <3>1, <3>2 DEF Turned
  <2> HIDE DEF k, n
  <2>4. 0 <= Slack(ConfirmedBy)
    BY <1>1, <1>3, <2>1, <2>2, <2>3
  <2>5. /\ \/ Tick /\ Slack(ConfirmedBy)' >= Slack(ConfirmedBy) - 1
           \/ /\ \E r \in Peer : Round(r)
              /\ Slack(ConfirmedBy)' >= Slack(ConfirmedBy)
        /\ Slack(HearingBy)' \in Int
        /\ Slack(ConfirmedBy)' = Slack(HearingBy)' + ExtraRounds
    <3>1. /\ lost' \in Nat /\ game_start' \in Int /\ Longest + 1 \in Nat /\ StartIn \in Nat
      BY DeadlineFacts, LatencyFacts DEF StartInv, TypeOK
    <3> DEFINE a == lost' * (Longest + 1)
    <3>2. a \in Nat
      BY <3>1, Multiples
    <3>3. /\ Slack(HearingBy)' = HearingBy + a - (StartIn - game_start')
          /\ Slack(ConfirmedBy)' = ConfirmedBy + a - (StartIn - game_start')
      BY DEF Slack, Cost, Elapsed
    <3> HIDE DEF a
    <3> QED BY <1>1, <1>5, <2>4, <3>1, <3>2, <3>3, EarlyTurn
  <2>6. CASE Tick
    <3>1. Turned(p) = 1 /\ Turned(p)' = 0 /\ ~ConfirmationRound(p)
      BY <2>6, TurnedTick, PeerFacts DEF Tick, ConfirmationRound, EndTurn, Peer
    <3>2. Slack(HearingBy)' >= Slack(HearingBy) - 1
      BY <1>1, <2>3, <2>5
    <3> QED BY <1>3, <2>1, <2>3, <2>5, <3>1, <3>2
  <2>7. CASE ~Tick
    <3>1. PICK r \in Peer : Round(r)
      BY <2>5, <2>7
    <3>2. PICK sends : TurnOf(r, sends)
      BY <3>1, RoundTurn
    <3>3. Slack(HearingBy)' >= Slack(HearingBy)
      BY <1>1, <2>3, <2>5, <2>7
    <3>4. CASE r = p
      <4>1. Turned(p) = 0 /\ Turned(p)' = 1
        BY <3>2, <3>4 DEF TurnOf, Turned, Peer
      <4>2. ConfirmationRound(p)
        BY <1>2, <3>1, <3>4 DEF Round, SlaveRound, MasterRound
      <4>3. k \in Nat /\ k >= 1 /\ (confirmed_players[p] = Peer => k = n + 1)
        <5>1. /\ m[p] \in Nat /\ m'[p] \in Nat
              /\ confirmation_point[p] \in Nat /\ confirmation_point'[p] \in Nat
              /\ confirmation_point'[p] + 1 <= m'[p]
              /\ confirmed_players[p] = Peer
                   => m'[p] - confirmation_point'[p] = m[p] - confirmation_point[p] + 1
          BY <4>2, LoopCount
        <5> QED BY <5>1 DEF k, n
      <4> QED BY <1>1, <1>3, <2>1, <2>2, <2>3, <2>5, <3>3, <4>1, <4>3
    <3>5. CASE r # p
      <4>1. Turned(p)' = Turned(p) /\ ~ConfirmationRound(p)
        BY <3>2, <3>5 DEF TurnOf, Turned, Peer, ConfirmationRound, EndTurn
      <4> QED BY <1>3, <2>1, <2>3, <2>5, <3>3, <4>1
    <3> QED BY <3>4, <3>5
  <2> QED BY <2>6, <2>7
<1>6. phase'[Master] = "handshake"
        => 0 <= Slack(HearingBy)' + m'[p] - confirmation_point'[p] - Turned(p)'
  <2> SUFFICES ASSUME phase'[Master] = "handshake"
               PROVE  0 <= Slack(HearingBy)' + m'[p] - confirmation_point'[p] - Turned(p)'
    OBVIOUS
  <2>1. 0 <= Slack(HearingBy)' + k - Turned(p)'
    BY <1>4, <1>5
  <2>2. Slack(HearingBy)' \in Int /\ Turned(p)' \in {0, 1}
    <3>1. lost' * (Longest + 1) \in Int /\ game_start' \in Int /\ StartIn \in Nat
      <4>1. /\ lost' \in Nat /\ game_start' \in Int /\ Longest \in Nat /\ StartIn \in Nat
        BY DeadlineFacts, LatencyFacts DEF StartInv, TypeOK
      <4> QED BY <4>1
    <3> QED BY <1>1, <3>1 DEF Slack, Cost, Elapsed, Turned
  <2>3. m'[p] \in Nat /\ confirmation_point'[p] \in Nat
    BY PeerFacts DEF StartInv, TypeOK
  <2> QED BY <2>1, <2>2, <2>3
<1> QED BY <1>3, <1>6

(* The loop is over in time, for all.                                       *)
LEMMA ConfirmedInTime ==
  ASSUME StartInv, HeardInTime, RoundsInTime, phase[Master] = "handshake",
         NEW p \in Peer, phase[p] = "confirming"
  PROVE  0 <= Slack(ConfirmedBy)
<1>1. /\ HearingBy \in Int /\ ExtraRounds \in Nat /\ ConfirmedBy = HearingBy + ExtraRounds
      /\ ConfirmedBy \in Int /\ StartIn \in Nat
  BY DeadlineFacts
<1>2. /\ Slack(HearingBy) \in Int /\ Slack(ConfirmedBy) = Slack(HearingBy) + ExtraRounds
  <2>1. /\ Slack(HearingBy) = HearingBy + Cost - (StartIn - game_start)
        /\ Slack(ConfirmedBy) = ConfirmedBy + Cost - (StartIn - game_start)
        /\ Cost \in Nat /\ game_start \in Int
    BY <1>1, SlackFacts
  <2> QED BY <1>1, <2>1
<1>3. CASE confirmed_players[p] = Peer
  <2>1. /\ m[p] < confirmation_point[p] + ExtraRounds
        /\ 0 <= Slack(HearingBy) + m[p] - confirmation_point[p] - Turned(p)
    BY <1>3 DEF RoundsInTime
  <2>2. m[p] \in Nat /\ confirmation_point[p] \in Nat /\ Turned(p) \in {0, 1}
    BY PeerFacts DEF StartInv, TypeOK, Turned
  <2> QED BY <1>1, <1>2, <2>1, <2>2
<1>4. CASE confirmed_players[p] # Peer
  <2>1. PICK q \in Peer : q \notin confirmed_players[p]
    BY <1>4 DEF StartInv, TypeOK
  <2>2. Hearing(p, q, Slack(HearingBy))
    BY <2>1 DEF HeardInTime
  <2>3. 0 <= Slack(HearingBy)
    BY <1>2, <2>2, HearingNat
  <2> QED BY <1>1, <1>2, <2>3
<1> QED BY <1>3, <1>4

(* The packets a handshake is made of.                                      *)
LEMMA PingSent ==
  ASSUME StartInv, MasterRound, NEW p \in Peer \ {Master}
  PROVE  LET x == Ping(p, game_start, StartAdvisory(p), announced')
         IN  x \in PingsTo(p) /\ (announced' # 0 => x \in DelaysTo(p))
<1>1. game_start \in Nat /\ game_start > 0 /\ announced \in Nat
  BY DEF MasterRound, StartInv, TypeOK
<1>2. StartAdvisory(p) \in Nat
  BY <1>1, AdvisoryFacts DEF StartInv
<1>3. announced' \in Nat
  BY <1>1, DelayFacts DEF MasterRound, Announce, StartInv
<1>4. Master \in Peer
  BY PeerFacts
<1> QED BY <1>1, <1>2, <1>3, <1>4 DEF Ping, Packet, PingsTo, DelaysTo

LEMMA EchoSent ==
  ASSUME NEW p \in Peer, NEW x \in PingsTo(p)
  PROVE  Echo(p, x) \in EchoesOf(p)
<1>1. x.at \in Nat
  BY PacketFacts DEF PingsTo
<1> QED BY <1>1, PeerFacts DEF Echo, Packet, EchoesOf

LEMMA EchoRead ==
  ASSUME StartInv, MasterRound, NEW p \in Peer, NEW x \in Arrived(Master), x \in EchoesOf(p)
  PROVE  player_nresponses'[p] # 0
<1>1. x \in Echoes(p)
  BY DEF Echoes, EchoesOf
<1>2. IsFiniteSet(Echoes(p))
  <2>1. Echoes(p) \in SUBSET Arrived(Master)
    BY DEF Echoes
  <2> QED BY <2>1, FiniteArrived, FS_Subset DEF StartInv, NetInTime
<1>3. Cardinality(Echoes(p)) \in Nat \ {0}
  BY <1>1, <1>2, FS_CardinalityType, FS_EmptySet
<1>4. player_nresponses[p] \in Nat /\ player_nresponses'[p] = player_nresponses[p] + Cardinality(Echoes(p))
  BY DEF MasterRound, StartInv, TypeOK
<1> QED BY <1>3, <1>4

LEMMA AnsweringRound ==
  ASSUME StartInv, NEW r \in Peer, Round(r), NEW p \in Peer \ {Master},
         phase[Master] = "handshake", phase[p] \in {"confirming", "handshake"},
         phase[p] = "handshake" => phase'[p] = "handshake",
         player_nresponses'[p] = 0,
         NEW w \in Int, NEW v \in Int, w <= v, lost' > lost => w + Longest + 1 <= v,
         phase[p] = "confirming" => 2 * Longest + 1 <= v,
         Answering(p, w)
  PROVE  Answering(p, v)'
<1>1. PICK sends : TurnOf(r, sends)
  BY RoundTurn
<1> DEFINE a == w - Longest
           b == v - Longest
<1>2. /\ Longest \in Nat /\ Longest > 0 /\ a \in Int /\ b \in Int /\ a <= b
      /\ lost' > lost => a + Longest + 1 <= b
  BY DeadlineFacts
<1>3. turn = r /\ turn' = r + 1 /\ r \in Nat /\ p \in Nat /\ Master \in Peer /\ Master = 0
  BY <1>1, PeerFacts DEF TurnOf, Peer, Master
<1>4. \A x \in Arrived(r) : x.to = r
  BY DEF Arrived
<1>5. Turned(Master)' \in {0, 1}
  BY DEF Turned
<1>6. r = Master => MasterRound
  BY DEF Round, SlaveRound, ConfirmationRound
<1>7. CASE UnderWay(EchoesOf(p), w)
  <2>1. \/ UnderWay(EchoesOf(p), v)'
        \/ \E x \in Arrived(r) : x \in EchoesOf(p)
    BY <1>1, <1>7, UnderWayTurn
  <2>2. ASSUME NEW x \in Arrived(r), x \in EchoesOf(p) PROVE FALSE
    <3>1. r = Master
      BY <1>4, <2>2, PacketFacts DEF EchoesOf
    <3> QED BY <1>6, <2>2, <3>1, EchoRead
  <2> QED BY <2>1, <2>2 DEF Answering
<1>8. CASE phase[p] = "handshake" /\ UnderWay(PingsTo(p), w - Longest)
  <2>0. UnderWay(PingsTo(p), a)
    BY <1>8
  <2> HIDE DEF a, b
  <2>1. /\ a >= 0
        /\ \/ UnderWay(PingsTo(p), b)'
           \/ \E x \in Arrived(r) : x \in PingsTo(p)
    BY <1>1, <1>2, <2>0, UnderWayTurn
  <2>2. ASSUME NEW x \in Arrived(r), x \in PingsTo(p)
        PROVE  Answering(p, v)'
    <3>1. r = p /\ SlaveRound(p)
      <4>1. r = p
        BY <1>4, <2>2 DEF PingsTo
      <4> QED BY <1>8, <4>1 DEF Round, ConfirmationRound
    <3> DEFINE out == {Echo(p, y) : y \in {z \in Arrived(p) : z.type = "P"}} \union ConfirmAnswers(p)
    <3>2. TurnOf(p, out)
      BY <3>1, SlaveTurn
    <3>3. Echo(p, x) \in out
      BY <2>2, <3>1 DEF PingsTo
    <3>4. Echo(p, x) \in EchoesOf(p)
      BY <2>2, EchoSent
    <3> HIDE DEF out
    <3>5. lost' > lost \/ \A z \in Int : z >= Longest => UnderWay(EchoesOf(p), z)'
      BY <3>2, <3>3, <3>4, UnderWaySent
    <3>6. v >= Longest /\ (lost' > lost => 2 * Longest + Turned(Master)' <= v)
      BY <1>2, <1>5, <2>1 DEF a
    <3> QED BY <3>5, <3>6 DEF Answering
  <2>3. UnderWay(PingsTo(p), b)' => UnderWay(PingsTo(p), v - Longest)'
    BY DEF b
  <2> QED BY <1>8, <2>1, <2>2, <2>3 DEF Answering
<1>9. CASE 2 * Longest + Turned(Master) <= w
  <2>1. CASE r # Master
    <3>1. Turned(Master)' = Turned(Master) /\ Turned(Master) \in {0, 1}
      BY <1>3, <2>1 DEF Turned
    <3>2. 2 * Longest + Turned(Master)' <= v
      BY <1>2, <1>9, <3>1
    <3> QED BY <3>2 DEF Answering
  <2>2. CASE r = Master /\ phase[p] = "confirming"
    <3>1. 2 * Longest + Turned(Master)' <= v
      BY <1>2, <1>5, <2>2
    <3> QED BY <3>1 DEF Answering
  <2>3. CASE r = Master /\ phase[p] = "handshake"
    <3>1. Turned(Master) = 0
      BY <1>3, <2>3 DEF Turned
    <3> DEFINE out == {Ping(q, game_start, StartAdvisory(q), announced') : q \in Peer \ {Master}}
                        \union ConfirmAnswers(Master)
               x == Ping(p, game_start, StartAdvisory(p), announced')
    <3>2. TurnOf(Master, out) /\ x \in out /\ x \in PingsTo(p)
      BY <1>6, <2>3, MasterTurn, PingSent
    <3> HIDE DEF out, x, b
    <3>3. lost' > lost \/ \A z \in Int : z >= Longest => UnderWay(PingsTo(p), z)'
      BY <3>2, UnderWaySent
    <3>4. /\ lost' > lost => 2 * Longest + Turned(Master)' <= v
          /\ b >= Longest
      BY <1>2, <1>5, <1>9, <3>1 DEF b
    <3>5. lost' > lost \/ UnderWay(PingsTo(p), b)'
      BY <1>2, <3>3, <3>4
    <3>6. UnderWay(PingsTo(p), b)' => UnderWay(PingsTo(p), v - Longest)'
      BY DEF b
    <3> QED BY <2>3, <3>4, <3>5, <3>6 DEF Answering
  <2> QED BY <2>1, <2>2, <2>3
<1> QED BY <1>7, <1>8, <1>9 DEF Answering

LEMMA AnsweringTick ==
  ASSUME StartInv, Tick, NEW p \in Peer, NEW w \in Int, NEW v \in Int, w - 1 <= v, Answering(p, w)
  PROVE  Answering(p, v)'
<1>1. CASE UnderWay(EchoesOf(p), w)
  BY <1>1, UnderWayTick DEF Answering
<1>2. CASE phase[p] = "handshake" /\ UnderWay(PingsTo(p), w - Longest)
  BY <1>2, UnderWayLater DEF Answering, Tick
<1>3. CASE 2 * Longest + Turned(Master) <= w
  <2>1. 2 * Longest + Turned(Master)' <= v
    BY <1>3, TurnedTick, DeadlineFacts, PeerFacts
  <2> QED BY <2>1 DEF Answering
<1> QED BY <1>1, <1>2, <1>3 DEF Answering

(* No peer starts before the deadlines are over.                            *)
LEMMA StaysEarly ==
  ASSUME FewLosses, StartInv, StartInv', ConfirmInv, Next,
         phase[Master] = "handshake", phase'[Master] = "handshake",
         NEW by \in Int, by <= TaughtBy, 0 <= Slack(by),
         NEW p \in Peer \ {Master}, phase[p] = "handshake"
  PROVE  phase'[p] = "handshake"
<1>1. game_start > Spread /\ game_start \in Int /\ Spread \in Nat
  <2>1. game_start > Spread
    BY EarlyPeers
  <2> QED BY <2>1, DeadlineFacts DEF StartInv, TypeOK
<1> SUFFICES ASSUME phase'[p] # "handshake" PROVE FALSE
  OBVIOUS
<1>2. phase'[p] = "started" /\ SlaveRound(p)
  BY PhaseStep
<1>3. game_start' = game_start
  BY <1>2 DEF SlaveRound, masterVars
<1>4. game_start' <= Spread
  BY <1>2 DEF StartInv, NoneStartsEarly, Spread
<1> QED BY <1>1, <1>3, <1>4

LEMMA AnsweredStep ==
  ASSUME FewLosses, StartInv, StartInv', ConfirmInv, HeardInTime, RoundsInTime, AnsweredInTime,
         Next
  PROVE  AnsweredInTime'
<1> SUFFICES ASSUME phase'[Master] = "handshake", NEW p \in Peer \ {Master},
                    player_nresponses'[p] = 0
             PROVE  Answering(p, Slack(AnsweredBy))'
  BY DEF AnsweredInTime
<1>1. /\ AnsweredBy \in Int /\ AnsweredBy <= TaughtBy /\ Longest \in Nat
      /\ AnsweredBy = ConfirmedBy + 2 * Longest + 1 /\ ConfirmedBy \in Nat
  BY DeadlineFacts
<1>2. CASE phase[Master] # "handshake"
  <2>1. Slack(AnsweredBy)' \in Int /\ Slack(AnsweredBy)' >= 2 * Longest + 1
    BY <1>1, <1>2, Beginning
  <2>2. Turned(Master)' \in {0, 1}
    BY DEF Turned
  <2>3. 2 * Longest + Turned(Master)' <= Slack(AnsweredBy)'
    BY <1>1, <2>1, <2>2
  <2> QED BY <2>3 DEF Answering
<1>3. CASE phase[Master] = "handshake"
  <2>1. player_nresponses[p] = 0
    <3>1. CASE MasterRound
      <4>1. IsFiniteSet(Echoes(p))
        <5>1. Echoes(p) \in SUBSET Arrived(Master)
          BY DEF Echoes
        <5> QED BY <5>1, FiniteArrived, FS_Subset DEF StartInv, NetInTime
      <4>2. Cardinality(Echoes(p)) \in Nat /\ player_nresponses[p] \in Nat
        BY <4>1, FS_CardinalityType DEF StartInv, TypeOK
      <4>3. player_nresponses'[p] = player_nresponses[p] + Cardinality(Echoes(p))
        BY <3>1 DEF MasterRound
      <4> QED BY <4>2, <4>3
    <3>2. CASE ~MasterRound
      <4>1. ~MasterStarts
        BY PeerFacts DEF MasterStarts, StartInv, TypeOK
      <4>2. UNCHANGED player_nresponses
        BY <3>2, <4>1 DEF Next, Run, Tick, Launch, ConfirmationRound, SlaveRound, Idle, masterVars
      <4> QED BY <4>2
    <3> QED BY <3>1, <3>2
  <2>2. PICK w \in Int : w = Slack(AnsweredBy)
    BY <1>1, SlackFacts
  <2>3. Answering(p, w)
    BY <1>3, <2>1, <2>2 DEF AnsweredInTime
  <2>4. 0 <= Slack(AnsweredBy)
    BY <2>2, <2>3, AnsweringNat
  <2>5. /\ Slack(AnsweredBy)' \in Int
        /\ \/ Tick /\ Slack(AnsweredBy)' >= w - 1
           \/ /\ \E r \in Peer : Round(r)
              /\ Slack(AnsweredBy)' >= w
              /\ lost' > lost => Slack(AnsweredBy)' >= w + Longest + 1
    BY <1>1, <1>3, <2>2, <2>4, EarlyTurn
  <2>6. PICK v \in Int : v = Slack(AnsweredBy)'
    BY <2>5
  <2>7. /\ phase[p] \in {"confirming", "handshake"}
        /\ phase[p] = "handshake" => phase'[p] = "handshake"
    BY <1>1, <1>3, <2>4, EarlyPeers, StaysEarly
  <2>8. phase[p] = "confirming" => 2 * Longest + 1 <= w
    <3>1. phase[p] = "confirming" => 0 <= Slack(ConfirmedBy)
      BY <1>3, ConfirmedInTime
    <3>2. /\ Slack(ConfirmedBy) \in Int
          /\ Slack(AnsweredBy) = Slack(ConfirmedBy) + (AnsweredBy - ConfirmedBy)
      <4>1. ConfirmedBy \in Int
        BY <1>1
      <4> QED BY <1>1, <4>1, SlackLater
    <3> QED BY <1>1, <2>2, <3>1, <3>2
  <2>9. Answering(p, v)'
    <3>1. CASE Tick /\ v >= w - 1
      BY <2>3, <3>1, AnsweringTick
    <3>2. CASE /\ \E r \in Peer : Round(r)
               /\ v >= w
               /\ lost' > lost => v >= w + Longest + 1
      <4>1. phase[p] = "confirming" => 2 * Longest + 1 <= v
        BY <1>1, <2>8, <3>2
      <4> QED BY <1>3, <2>3, <2>7, <3>2, <4>1, AnsweringRound
    <3> QED BY <2>5, <2>6, <3>1, <3>2
  <2> QED BY <2>6, <2>9
<1> QED BY <1>2, <1>3

(* No delay is needed only when nobody has responded.                       *)
LEMMA DelayNeeded ==
  ASSUME TypeOK, LatencyMeasured, NeededDelay = 0
  PROVE  Responding = {}
<1> DEFINE need(q) == AverageLatency(q) \div LatencyPerCycle + 2
           S == {0} \union {need(q) : q \in Responding}
           b == 2 * Max(Latency) + 2
<1>1. b \in Nat
  BY LatencyFacts
<1>2. ASSUME NEW q \in Responding PROVE need(q) \in 2 .. b
  <2> DEFINE a == AverageLatency(q)
  <2>1. a \in Nat /\ a <= 2 * Max(Latency) /\ Max(Latency) \in Nat
    BY AverageFacts, LatencyFacts
  <2>2. LatencyPerCycle \in Nat \ {0}
    BY LatencyFacts
  <2> HIDE DEF a
  <2>3. a \div LatencyPerCycle \in 0 .. a
    BY <2>1, <2>2
  <2> QED BY <2>1, <2>3 DEF a
<1> HIDE DEF b, need
<1>3. S \in SUBSET Nat /\ S # {} /\ \A x \in S : x <= b
  BY <1>1, <1>2
<1>4. \A q \in Responding : need(q) \in S
  OBVIOUS
<1> HIDE DEF S
<1>5. Max(S) = 0 /\ \A x \in S : x <= Max(S)
  BY <1>1, <1>3, MaxNat DEF NeededDelay, S, need
<1>6. ASSUME NEW q \in Responding PROVE FALSE
  <2>1. need(q) <= 0 /\ need(q) \in 2 .. b
    BY <1>2, <1>4, <1>5
  <2> QED BY <1>1, <2>1
<1> QED BY <1>6

LEMMA AnnouncedStep ==
  ASSUME FewLosses, StartInv, StartInv', ConfirmInv, AnsweredInTime, AnnouncedInTime, Next
  PROVE  AnnouncedInTime'
<1> SUFFICES ASSUME phase'[Master] = "handshake", announced' = 0
             PROVE  0 <= Slack(AnnouncedBy)' + 1 - Turned(Master)'
  BY DEF AnnouncedInTime
<1>1. /\ AnnouncedBy \in Nat /\ AnnouncedBy <= TaughtBy /\ AnsweredBy \in Int /\ AnsweredBy <= AnnouncedBy
      /\ StartIn - DelayBefore <= AnnouncedBy /\ TaughtBy = AnnouncedBy + Longest + 1
      /\ Longest \in Nat /\ TaughtBy \in Int /\ StartIn \in Nat /\ DelayBefore \in Nat
  BY DeadlineFacts, SyncAssumption
<1>2. Turned(Master) \in {0, 1} /\ Turned(Master)' \in {0, 1}
  BY DEF Turned
<1>3. CASE phase[Master] # "handshake"
  <2>1. Slack(AnnouncedBy)' \in Int /\ Slack(AnnouncedBy)' >= AnnouncedBy
    BY <1>1, <1>3, Beginning
  <2> QED BY <1>1, <1>2, <2>1
<1>4. CASE phase[Master] = "handshake" /\ MasterRound
  <2>1. announced = 0 /\ (game_start < DelayBefore => NeededDelay = 0)
    BY <1>4 DEF MasterRound, Announce
  <2>2. 0 <= Slack(AnnouncedBy)
    <3>1. CASE game_start < DelayBefore
      <4>1. Responding = {}
        BY <2>1, <3>1, DelayNeeded DEF StartInv
      <4>2. 1 \in Peer \ {Master}
        BY SyncAssumption DEF Peer, Master
      <4>3. player_nresponses[1] = 0
        <5>1. player_nresponses[1] \in Nat
          BY <4>2 DEF StartInv, TypeOK
        <5> QED BY <4>1, <4>2, <5>1 DEF Responding
      <4>4. Answering(1, Slack(AnsweredBy))
        BY <1>4, <4>2, <4>3 DEF AnsweredInTime
      <4>5. /\ Slack(AnsweredBy) \in Int /\ Slack(AnnouncedBy) \in Int
            /\ Slack(AnnouncedBy) = Slack(AnsweredBy) + (AnnouncedBy - AnsweredBy)
        BY <1>1, SlackLater
      <4>6. 0 <= Slack(AnsweredBy)
        BY <4>2, <4>4, <4>5, AnsweringNat
      <4> QED BY <1>1, <4>5, <4>6
    <3>2. CASE ~(game_start < DelayBefore)
      <4>1. /\ Slack(AnnouncedBy) = AnnouncedBy + Cost - (StartIn - game_start)
            /\ Cost \in Nat /\ game_start \in Int
        BY <1>1, SlackFacts
      <4> QED BY <1>1, <3>2, <4>1
    <3> QED BY <3>1, <3>2
  <2>3. game_start' = game_start /\ lost' >= lost
    <3> DEFINE sends == {Ping(q, game_start, StartAdvisory(q), announced') : q \in Peer \ {Master}}
                          \union ConfirmAnswers(Master)
    <3>1. TurnOf(Master, sends)
      BY <1>4, MasterTurn
    <3> HIDE DEF sends
    <3> QED BY <3>1 DEF TurnOf
  <2>4. Slack(AnnouncedBy) \in Int /\ Slack(AnnouncedBy)' \in Int /\ Slack(AnnouncedBy)' >= Slack(AnnouncedBy)
    BY <1>1, <2>3, SlackStep
  <2> QED BY <1>2, <2>2, <2>4
<1>5. CASE phase[Master] = "handshake" /\ ~MasterRound
  <2>1. announced = 0
    <3>1. ~MasterStarts
      BY PeerFacts DEF MasterStarts, StartInv, TypeOK
    <3>2. UNCHANGED announced
      BY <1>5, <3>1 DEF Next, Run, Tick, Launch, ConfirmationRound, SlaveRound, Idle, masterVars
    <3> QED BY <3>2
  <2>2. 0 <= Slack(AnnouncedBy) + 1 - Turned(Master) /\ Slack(AnnouncedBy) \in Int
    BY <1>1, <1>5, <2>1, SlackFacts DEF AnnouncedInTime
  <2>3. /\ Slack(TaughtBy) \in Int
        /\ Slack(TaughtBy) = Slack(AnnouncedBy) + (TaughtBy - AnnouncedBy)
    BY <1>1, SlackLater
  <2>4. 0 <= Slack(TaughtBy)
    BY <1>1, <1>2, <2>2, <2>3
  <2>5. Tick \/ \E r \in Peer : Round(r)
    BY <1>1, <1>5, <2>4, EarlyTurn
  <2>6. Turned(Master) = 1 /\ (Turned(Master)' = 1 \/ Tick)
    <3>1. ASSUME NEW r \in Peer, Round(r)
          PROVE  Turned(Master) = 1 /\ Turned(Master)' = 1
      <4>1. PICK sends : TurnOf(r, sends)
        BY <3>1, RoundTurn
      <4>2. r # Master
        BY <1>5, <3>1 DEF Round, ConfirmationRound, SlaveRound
      <4>3. turn = r /\ turn' = r + 1 /\ r \in Nat /\ r > 0 /\ Master = 0
        BY <4>1, <4>2 DEF TurnOf, Peer, Master
      <4> QED BY <4>3 DEF Turned
    <3>2. Tick => Turned(Master) = 1
      BY TurnedTick, PeerFacts
    <3> QED BY <2>5, <3>1, <3>2
  <2>7. 0 <= Slack(AnnouncedBy)
    BY <2>2, <2>6
  <2>8. /\ Slack(AnnouncedBy)' \in Int
        /\ \/ Tick /\ Slack(AnnouncedBy)' >= Slack(AnnouncedBy) - 1
           \/ Slack(AnnouncedBy)' >= Slack(AnnouncedBy)
    BY <1>1, <1>5, <2>7, EarlyTurn
  <2>9. Tick => Turned(Master)' = 0
    BY TurnedTick, PeerFacts
  <2> QED BY <1>2, <2>2, <2>6, <2>7, <2>8, <2>9
<1> QED BY <1>3, <1>4, <1>5

(* What a peer reads of the delay is slot 0's.                              *)
LEMMA DelayRead ==
  ASSUME StartInv, NEW p \in Peer, SlaveRound(p)
  PROVE  /\ \A q \in Peer \ {p} : cycle_delay'[q] = cycle_delay[q] /\ phase'[q] = phase[q]
         /\ cycle_delay'[p] \in {cycle_delay[p], cycle_delay[Master]}
         /\ (\E x \in Arrived(p) : x \in DelaysTo(p)) => cycle_delay'[p] = cycle_delay[Master]
         /\ p # Master /\ phase[p] = "handshake" /\ phase'[p] \in {"handshake", "started"}
<1> DEFINE pings == {x \in Arrived(p) : x.type = "P"}
           told == {x.delay : x \in pings} \ {0}
<1>1. \A x \in pings : x.delay \in {0, cycle_delay[Master]}
  <2> TAKE x \in pings
  <2>1. PICK y \in net : y.packet = x /\ PacketInTime(y)
    BY ArrivedFacts DEF StartInv
  <2> QED BY <2>1 DEF PacketInTime
<1>2. PICK d \in IF told = {} THEN {cycle_delay[p]} ELSE told :
        cycle_delay' = [cycle_delay EXCEPT ![p] = d]
  BY DEF SlaveRound
<1>3. d \in {cycle_delay[p], cycle_delay[Master]} /\ (told # {} => d = cycle_delay[Master])
  BY <1>1, <1>2
<1>4. (\E x \in Arrived(p) : x \in DelaysTo(p)) => told # {}
  BY DEF DelaysTo, PingsTo
<1> HIDE DEF told
<1>5. cycle_delay \in [Peer -> Nat] /\ phase \in [Peer -> Phase]
  BY DEF StartInv, TypeOK, Phase
<1>6. /\ \A q \in Peer \ {p} : cycle_delay'[q] = cycle_delay[q]
      /\ cycle_delay'[p] = d
  BY <1>2, <1>5
<1>7. /\ p # Master /\ phase[p] = "handshake"
      /\ phase' = phase \/ phase' = [phase EXCEPT ![p] = "started"]
  BY DEF SlaveRound
<1> QED BY <1>3, <1>4, <1>5, <1>6, <1>7

LEMMA TeachingRound ==
  ASSUME StartInv, NEW r \in Peer, Round(r), NEW p \in Peer \ {Master},
         phase[Master] = "handshake", phase[p] \in {"confirming", "handshake"},
         phase[p] = "handshake" => phase'[p] = "handshake",
         announced' # 0,
         NEW w \in Int, NEW v \in Int, w <= v, lost' > lost => w + Longest + 1 <= v,
         phase[p] = "confirming" => Longest + 1 <= v,
         Teaching(p, w)
  PROVE  Teaching(p, v)' \/ Taught(p)'
<1>1. PICK sends : TurnOf(r, sends)
  BY RoundTurn
<1>2. Longest \in Nat /\ Longest > 0
  BY DeadlineFacts
<1>3. turn = r /\ turn' = r + 1 /\ r \in Nat /\ p \in Nat /\ Master \in Peer /\ Master = 0
  BY <1>1, PeerFacts DEF TurnOf, Peer, Master
<1>4. Turned(Master)' \in {0, 1}
  BY DEF Turned
<1>5. CASE phase[p] = "handshake" /\ UnderWay(DelaysTo(p), w)
  <2>1. \/ UnderWay(DelaysTo(p), v)'
        \/ \E x \in Arrived(r) : x \in DelaysTo(p)
    BY <1>1, <1>5, UnderWayTurn
  <2>2. ASSUME NEW x \in Arrived(r), x \in DelaysTo(p) PROVE Taught(p)'
    <3>1. r = p
      BY <2>2 DEF Arrived, DelaysTo, PingsTo
    <3>2. SlaveRound(p)
      BY <1>5, <3>1 DEF Round, ConfirmationRound
    <3>3. cycle_delay'[p] = cycle_delay[Master] /\ cycle_delay'[Master] = cycle_delay[Master]
      BY <1>3, <2>2, <3>1, <3>2, DelayRead
    <3> QED BY <1>5, <3>3 DEF Taught
  <2> QED BY <1>5, <2>1, <2>2 DEF Teaching
<1>6. CASE Longest + Turned(Master) <= w
  <2>1. CASE r # Master
    <3>1. Turned(Master)' = Turned(Master) /\ Turned(Master) \in {0, 1}
      BY <1>3, <2>1 DEF Turned
    <3>2. Longest + Turned(Master)' <= v
      BY <1>2, <1>6, <3>1
    <3> QED BY <3>2 DEF Teaching
  <2>2. CASE r = Master /\ phase[p] = "confirming"
    <3>1. Longest + Turned(Master)' <= v
      BY <1>2, <1>4, <2>2
    <3> QED BY <3>1 DEF Teaching
  <2>3. CASE r = Master /\ phase[p] = "handshake"
    <3>1. Turned(Master) = 0 /\ MasterRound
      BY <1>3, <2>3 DEF Turned, Round, SlaveRound, ConfirmationRound
    <3> DEFINE out == {Ping(q, game_start, StartAdvisory(q), announced') : q \in Peer \ {Master}}
                        \union ConfirmAnswers(Master)
               x == Ping(p, game_start, StartAdvisory(p), announced')
    <3>2. TurnOf(Master, out) /\ x \in out /\ x \in DelaysTo(p)
      BY <3>1, MasterTurn, PingSent
    <3> HIDE DEF out, x
    <3>3. lost' > lost \/ \A z \in Int : z >= Longest => UnderWay(DelaysTo(p), z)'
      BY <3>2, UnderWaySent
    <3>4. /\ lost' > lost => Longest + Turned(Master)' <= v
          /\ v >= Longest
      BY <1>2, <1>4, <1>6, <3>1
    <3> QED BY <2>3, <3>3, <3>4 DEF Teaching
  <2> QED BY <2>1, <2>2, <2>3
<1> QED BY <1>5, <1>6 DEF Teaching

LEMMA TeachingTick ==
  ASSUME StartInv, Tick, NEW p \in Peer, NEW w \in Int, NEW v \in Int, w - 1 <= v, Teaching(p, w)
  PROVE  Teaching(p, v)'
<1>1. CASE phase[p] = "handshake" /\ UnderWay(DelaysTo(p), w)
  BY <1>1, UnderWayTick DEF Teaching, Tick
<1>2. CASE Longest + Turned(Master) <= w
  <2>1. Longest + Turned(Master)' <= v
    BY <1>2, TurnedTick, DeadlineFacts, PeerFacts
  <2> QED BY <2>1 DEF Teaching
<1> QED BY <1>1, <1>2 DEF Teaching

(* What changes the delays once slot 0 announces one: nothing but reading.  *)
LEMMA DelaysStep ==
  ASSUME StartInv, ConfirmInv, Next, Begun, phase[Master] = "handshake" => announced # 0,
         NEW p \in Peer \ {Master}, phase[p] \in {"handshake", "started"}
  PROVE  /\ cycle_delay'[Master] = cycle_delay[Master]
         /\ cycle_delay'[p] \in {cycle_delay[p], cycle_delay[Master]}
         /\ phase'[p] \in {"handshake", "started"}
         /\ phase'[Master] = "handshake" => announced' = announced /\ phase[Master] = "handshake"
<1>1. Master \in Peer
  BY PeerFacts
<1>2. ASSUME NEW r \in Peer, ConfirmationRound(r)
      PROVE  /\ cycle_delay'[Master] = cycle_delay[Master] /\ cycle_delay'[p] = cycle_delay[p]
             /\ announced' = announced
  <2>1. r # p /\ r # Master
    BY <1>2 DEF ConfirmationRound, Begun
  <2>2. \A q \in Peer \ {r} : cycle_delay'[q] = cycle_delay[q]
    BY <1>2, LoopRound
  <2> QED BY <1>1, <1>2, <2>1, <2>2 DEF ConfirmationRound, masterVars
<1>3. ASSUME NEW r \in Peer, SlaveRound(r)
      PROVE  /\ cycle_delay'[Master] = cycle_delay[Master]
             /\ cycle_delay'[p] \in {cycle_delay[p], cycle_delay[Master]}
             /\ announced' = announced
  <2>1. announced' = announced
    BY <1>3 DEF SlaveRound, masterVars
  <2> QED BY <1>1, <1>3, <2>1, DelayRead
<1>4. ASSUME MasterRound PROVE announced' = announced /\ cycle_delay' = cycle_delay
  BY <1>4 DEF MasterRound, Announce
<1>5. ASSUME MasterStarts PROVE cycle_delay' = cycle_delay /\ phase'[Master] # "handshake"
  BY <1>1, <1>5 DEF MasterStarts, StartInv, TypeOK
<1>6. ASSUME NEW r \in Peer, Launch(r) \/ Idle(r) \/ Tick
      PROVE  cycle_delay' = cycle_delay /\ announced' = announced
  BY <1>6 DEF Launch, Idle, Tick, masterVars
<1>7. phase'[p] \in {"handshake", "started"} /\ (phase'[Master] = "handshake" => phase[Master] = "handshake")
  BY <1>1, PhaseStep DEF Begun
<1> QED BY <1>1, <1>2, <1>3, <1>4, <1>5, <1>6, <1>7 DEF Next, Run

LEMMA TaughtStep ==
  ASSUME FewLosses, StartInv, StartInv', ConfirmInv, HeardInTime, RoundsInTime,
         AnnouncedInTime, TaughtInTime, Next
  PROVE  TaughtInTime'
<1> SUFFICES ASSUME phase'[Master] = "handshake", announced' # 0, NEW p \in Peer \ {Master},
                    ~Taught(p)', phase'[p] # "started"
             PROVE  Teaching(p, Slack(TaughtBy))'
  BY DEF TaughtInTime
<1>1. /\ TaughtBy \in Int /\ Longest \in Nat /\ AnnouncedBy \in Int /\ ConfirmedBy \in Int
      /\ TaughtBy = AnnouncedBy + Longest + 1 /\ ConfirmedBy + Longest + 1 <= TaughtBy
  BY DeadlineFacts
<1>2. phase[Master] = "handshake"
  <2>1. phase[Master] # "handshake" => announced' = 0
    BY Beginning
  <2> QED BY <2>1
<1>3. PICK w \in Int : w = Slack(TaughtBy)
  BY <1>1, SlackFacts
\* Before the delay is known slot 0 is about to send it.
<1>4. Teaching(p, w)
  <2>1. CASE announced = 0
    <3>1. turn = Master
      <4>1. ~MasterStarts
        BY PeerFacts DEF MasterStarts, StartInv, TypeOK
      <4>2. MasterRound
        BY <2>1, <4>1 DEF Next, Run, Tick, Launch, ConfirmationRound, SlaveRound, Idle, masterVars
      <4> QED BY <4>2 DEF MasterRound, EndTurn
    <3>2. Turned(Master) = 0
      BY <3>1 DEF Turned, Master
    <3>3. 0 <= Slack(AnnouncedBy) + 1
      <4>1. Slack(AnnouncedBy) \in Int
        BY <1>1, SlackFacts
      <4> QED BY <1>2, <2>1, <3>2, <4>1 DEF AnnouncedInTime
    <3>4. Slack(AnnouncedBy) \in Int /\ Slack(TaughtBy) = Slack(AnnouncedBy) + (TaughtBy - AnnouncedBy)
      BY <1>1, SlackLater
    <3>5. Longest + Turned(Master) <= w
      BY <1>1, <1>3, <3>2, <3>3, <3>4
    <3> QED BY <3>5 DEF Teaching
  <2>2. CASE announced # 0
    <3>1. phase[p] # "started"
      BY PhaseStep
    <3>2. ~Taught(p)
      <4> SUFFICES ASSUME Taught(p) PROVE FALSE
        OBVIOUS
      <4>1. /\ cycle_delay'[Master] = cycle_delay[Master]
            /\ cycle_delay'[p] \in {cycle_delay[p], cycle_delay[Master]}
            /\ phase'[p] \in {"handshake", "started"}
        BY <1>2, <2>2, DelaysStep DEF Taught, Begun
      <4> QED BY <4>1 DEF Taught
    <3> QED BY <1>2, <1>3, <2>2, <3>1, <3>2 DEF TaughtInTime
  <2> QED BY <2>1, <2>2
<1>5. 0 <= Slack(TaughtBy)
  BY <1>3, <1>4, TeachingNat
<1>6. /\ Slack(TaughtBy)' \in Int
      /\ \/ Tick /\ Slack(TaughtBy)' >= w - 1
         \/ /\ \E r \in Peer : Round(r)
            /\ Slack(TaughtBy)' >= w
            /\ lost' > lost => Slack(TaughtBy)' >= w + Longest + 1
  <2>1. TaughtBy <= TaughtBy
    BY <1>1
  <2> QED BY <1>1, <1>2, <1>3, <1>5, <2>1, EarlyTurn
<1>7. PICK v \in Int : v = Slack(TaughtBy)'
  BY <1>6
<1>8. /\ phase[p] \in {"confirming", "handshake"}
      /\ phase[p] = "handshake" => phase'[p] = "handshake"
  <2>1. TaughtBy <= TaughtBy
    BY <1>1
  <2> QED BY <1>1, <1>2, <1>5, <2>1, EarlyPeers, StaysEarly
<1>9. phase[p] = "confirming" => Longest + 1 <= w
  <2>1. phase[p] = "confirming" => 0 <= Slack(ConfirmedBy)
    BY <1>2, ConfirmedInTime
  <2>2. /\ Slack(ConfirmedBy) \in Int
        /\ Slack(TaughtBy) = Slack(ConfirmedBy) + (TaughtBy - ConfirmedBy)
    BY <1>1, SlackLater
  <2> QED BY <1>1, <1>3, <2>1, <2>2
<1>10. Teaching(p, v)'
  <2>1. CASE Tick /\ v >= w - 1
    BY <1>4, <2>1, TeachingTick
  <2>2. CASE /\ \E r \in Peer : Round(r)
             /\ v >= w
             /\ lost' > lost => v >= w + Longest + 1
    <3>1. phase[p] = "confirming" => Longest + 1 <= v
      BY <1>1, <1>9, <2>2
    <3> QED BY <1>2, <1>4, <1>8, <2>2, <3>1, TeachingRound
  <2> QED BY <1>6, <1>7, <2>1, <2>2
<1> QED BY <1>7, <1>10

(* When any peer may start the deadlines are over: all know the delay.      *)
LEMMA DeadlinesOver ==
  ASSUME FewLosses, StartInv, AnnouncedInTime, TaughtInTime,
         phase[Master] = "handshake", game_start <= Spread
  PROVE  /\ announced # 0
         /\ \A p \in Peer \ {Master} : Taught(p) \/ phase[p] = "started"
<1>1. /\ TaughtBy \in Int /\ AnnouncedBy \in Int /\ Longest \in Nat
      /\ TaughtBy = AnnouncedBy + Longest + 1 /\ Spread \in Nat /\ StartIn \in Nat
  BY DeadlineFacts
<1>2. ~(0 <= Slack(TaughtBy)) /\ Slack(TaughtBy) \in Int
  <2> DEFINE bound == MaxLost * (Longest + 1)
  <2>1. /\ Cost <= bound /\ bound \in Nat /\ Cost \in Nat /\ game_start \in Int
        /\ Slack(TaughtBy) = TaughtBy + Cost - (StartIn - game_start)
    BY <1>1, SlackFacts
  <2>2. TaughtBy + bound < StartIn - Spread
    BY DEF FewLosses
  <2> HIDE DEF bound
  <2> QED BY <1>1, <2>1, <2>2
<1>3. announced # 0
  <2> SUFFICES ASSUME announced = 0 PROVE FALSE
    OBVIOUS
  <2>1. 0 <= Slack(AnnouncedBy) + 1 - Turned(Master)
    BY DEF AnnouncedInTime
  <2>2. Slack(AnnouncedBy) \in Int /\ Slack(TaughtBy) = Slack(AnnouncedBy) + (TaughtBy - AnnouncedBy)
    BY <1>1, SlackLater
  <2>3. Turned(Master) \in {0, 1}
    BY DEF Turned
  <2> QED BY <1>1, <1>2, <2>1, <2>2, <2>3
<1>4. ASSUME NEW p \in Peer \ {Master} PROVE Taught(p) \/ phase[p] = "started"
  <2>1. ~Teaching(p, Slack(TaughtBy))
    BY <1>2, TeachingNat
  <2> QED BY <1>3, <2>1 DEF TaughtInTime
<1> QED BY <1>3, <1>4

LEMMA AllTaughtStep ==
  ASSUME FewLosses, StartInv, StartInv', ConfirmInv, AnnouncedInTime, TaughtInTime, AllTaught, Next
  PROVE  AllTaught'
<1> SUFFICES ASSUME NEW p \in Peer \ {Master}
             PROVE  /\ phase'[Master] = "started"
                         => phase'[p] \in {"handshake", "started"}
                            /\ cycle_delay'[p] = cycle_delay'[Master]
                    /\ phase'[p] = "started"
                         => cycle_delay'[p] = cycle_delay'[Master]
                            /\ (phase'[Master] = "handshake" => announced' # 0)
  BY DEF AllTaught
<1>1. Master \in Peer /\ game_start \in Int /\ Spread \in Nat
  BY PeerFacts, DeadlineFacts DEF StartInv, TypeOK
\* A peer that plays, or whose delay is slot 0's while slot 0 plays, goes on so.
<1>2. CASE phase[p] = "started" \/ phase[Master] = "started"
  <2>1. /\ Begun /\ (phase[Master] = "handshake" => announced # 0)
        /\ phase[p] \in {"handshake", "started"} /\ cycle_delay[p] = cycle_delay[Master]
    BY <1>2 DEF AllTaught, StartInv, NothingBegun, Begun
  <2>2. /\ cycle_delay'[Master] = cycle_delay[Master]
        /\ cycle_delay'[p] \in {cycle_delay[p], cycle_delay[Master]}
        /\ phase'[p] \in {"handshake", "started"}
        /\ phase'[Master] = "handshake" => announced' = announced /\ phase[Master] = "handshake"
    BY <2>1, DelaysStep
  <2> QED BY <2>1, <2>2
<1>3. CASE phase[p] # "started" /\ phase[Master] # "started" /\ phase'[p] = "started"
  <2>1. SlaveRound(p) /\ phase[p] = "handshake"
    BY <1>3, PhaseStep
  <2>2. /\ phase'[Master] = phase[Master] /\ game_start' = game_start
        /\ cycle_delay'[Master] = cycle_delay[Master]
        /\ cycle_delay'[p] \in {cycle_delay[p], cycle_delay[Master]}
        /\ announced' = announced
    BY <1>1, <2>1, DelayRead DEF SlaveRound, masterVars
  <2>3. phase[Master] = "handshake"
    BY <1>3, <2>2 DEF StartInv, NothingBegun, Begun
  <2>4. game_start <= Spread
    BY <1>3, <2>2, <2>3 DEF StartInv, NoneStartsEarly, Spread
  <2>5. announced # 0 /\ Taught(p)
    BY <1>3, <2>3, <2>4, DeadlinesOver
  <2> QED BY <1>3, <2>2, <2>3, <2>5 DEF Taught
<1>4. CASE phase[p] # "started" /\ phase[Master] # "started" /\ phase'[Master] = "started"
           /\ phase'[p] # "started"
  <2>1. MasterStarts /\ phase[Master] = "handshake"
    BY <1>1, <1>4, PhaseStep DEF SlaveRound
  <2>2. game_start <= Spread
    BY <1>1, <2>1 DEF MasterStarts
  <2>3. Taught(p)
    BY <1>4, <2>1, <2>2, DeadlinesOver
  <2>4. cycle_delay' = cycle_delay /\ phase'[p] = phase[p]
    BY <1>1, <2>1 DEF MasterStarts, StartInv, TypeOK
  <2> QED BY <1>4, <2>3, <2>4 DEF Taught
<1> QED BY <1>2, <1>3, <1>4

LEMMA DelayInvStutters ==
  ASSUME DelayInv, UNCHANGED vars, StartInv', ConfirmInv', LoopForgotten'
  PROVE  DelayInv'
<1>1. UNCHANGED <<phase, m, confirmed_players, confirmation_point, cycle_delay, game_start,
                  announced, player_nresponses, player_latency, start_time, net, lost, turn>>
  BY DEF vars, loopVars, masterVars
<1>2. HeardInTime'
  BY <1>1 DEF DelayInv, HeardInTime, Hearing, UnderWay, WaitFor, Turned, Slack, Elapsed, Cost
<1>3. RoundsInTime'
  BY <1>1 DEF DelayInv, RoundsInTime, Turned, Slack, Elapsed, Cost
<1>4. AnsweredInTime'
  BY <1>1 DEF DelayInv, AnsweredInTime, Answering, UnderWay, WaitFor, Turned, Slack, Elapsed, Cost
<1>5. AnnouncedInTime'
  BY <1>1 DEF DelayInv, AnnouncedInTime, Turned, Slack, Elapsed, Cost
<1>6. TaughtInTime'
  BY <1>1 DEF DelayInv, TaughtInTime, Teaching, Taught, UnderWay, WaitFor, Turned, Slack, Elapsed, Cost
<1>7. AllTaught'
  BY <1>1 DEF DelayInv, AllTaught
<1> QED BY <1>2, <1>3, <1>4, <1>5, <1>6, <1>7 DEF DelayInv

(* The deadlines hold, and with them all that must precede the start.       *)
THEOREM DelayInvariant == FewLosses => (Spec => []DelayInv)
<1> SUFFICES ASSUME FewLosses PROVE Spec => []DelayInv
  OBVIOUS
<1>1. Init => DelayInv
  <2> SUFFICES ASSUME Init PROVE DelayInv
    OBVIOUS
  <2>1. StartInv /\ ConfirmInv
    BY StartInvInit, ConfirmInvInit
  <2>2. \A p \in Peer : phase[p] = "launching" /\ confirmed_players[p] = {p}
    BY DEF Init
  <2>3. phase[Master] = "launching"
    BY <2>2, PeerFacts
  <2> QED BY <2>1, <2>2, <2>3 DEF DelayInv, LoopForgotten, HeardInTime, RoundsInTime,
             AnsweredInTime, AnnouncedInTime, TaughtInTime, AllTaught
<1>2. ASSUME DelayInv, [Next]_vars, StartInv', ConfirmInv' PROVE DelayInv'
  <2>1. LoopForgotten'
    BY <1>2, LoopForgottenStep DEF DelayInv
  <2>2. CASE Next
    BY <1>2, <2>1, <2>2, HeardStep, RoundsStep, AnsweredStep, AnnouncedStep, TaughtStep,
      AllTaughtStep DEF DelayInv
  <2>3. CASE UNCHANGED vars
    BY <1>2, <2>1, <2>3, DelayInvStutters
  <2> QED BY <1>2, <2>2, <2>3
<1>3. ConfirmInv /\ [Next]_vars => ConfirmInv'
  BY ConfirmationRoundInv, HandshakeInv, RestInv DEF Next, Run
<1> QED BY <1>1, <1>2, <1>3, ConfirmInvInit, StartInvariant, PTL DEF Spec

(* All peers that play use one delay, slot 0's: every peer hears of it in   *)
(* time when few packets are lost, though slot 0 sets it only after echoes  *)
(* of all or shortly before the start (lines 357-376).                      *)
THEOREM PeersUseOneDelay == FewLosses => (Spec => []SameDelay)
<1> SUFFICES ASSUME FewLosses PROVE Spec => []SameDelay
  OBVIOUS
<1>1. DelayInv => SameDelay
  <2> SUFFICES ASSUME DelayInv, NEW p \in Peer, NEW q \in Peer,
                      phase[p] = "started", phase[q] = "started"
               PROVE  cycle_delay[p] = cycle_delay[q]
    BY DEF SameDelay
  <2>1. \A r \in Peer : phase[r] = "started" => cycle_delay[r] = cycle_delay[Master]
    BY DEF DelayInv, AllTaught
  <2> QED BY <2>1
<1> QED BY <1>1, DelayInvariant, PTL

-----------------------------------------------------------------------------
(* Starting on time, when few packets are lost.  Until slot 0 has an echo   *)
(* of p's its pings to p advise starts that are not corrected; such advice  *)
(* is late by the ping's way.  As p keeps the last five only, five pings    *)
(* sent after the echo push it out.                                         *)

(* Advice is on time when it is over, or late by the Spread at most; so is  *)
(* a ping when it will be, whatever time it takes.                          *)
OnTime(start) == start <= 0 \/ start <= game_start + Spread
PingOnTime(x) == x.start <= 0 \/ x.start <= x.at - Min(Latency)

(* What slot 0 measures are two ways, each of a latency at least.           *)
EchoesMeasured ==
  /\ \A q \in Peer : 2 * Min(Latency) * player_nresponses[q] <= player_latency[q]
  /\ phase[Master] = "handshake" =>
       \A y \in net : y.packet.type = "E" => 2 * Min(Latency) <= y.in + y.packet.at - game_start

(* The last ticks in which uncorrected pings are sent, and are read.        *)
CorrectedBy == AnsweredBy + MaxLost * (Longest + 1)
StaleBy == CorrectedBy + Longest

PingsCorrected ==
  \A y \in net : y.packet.type = "P" => PingOnTime(y.packet) \/ StartIn - y.packet.at <= CorrectedBy

(* Slot 0 sends one ping a tick to each peer.                               *)
PingsDiffer ==
  phase[Master] = "handshake" /\ turn = Master =>
    \A y \in net : y.packet.type = "P" => game_start < y.packet.at

(* When the pings were sent that are on their way to p, since the last      *)
(* uncorrected one has been read.                                           *)
Newer(p) ==
  {y.packet.at : y \in {z \in net : z.packet \in PingsTo(p) /\ StartIn - z.packet.at > StaleBy}}

(* Of the pings sent since then each is lost, on its way or read: advice    *)
(* that misses the start is not older in p's list than all that were read.  *)
Stale(p, i) ==
  Elapsed <= StaleBy + lost + (Len(start_time[p]) - i) + Cardinality(Newer(p)) + 1 - Turned(Master)

StaleInTime ==
  phase[Master] = "handshake" =>
    \A p \in Peer : \A i \in DOMAIN start_time[p] :
      OnTime(start_time[p][i]) \/ Stale(p, i)

(* No peer waits for longer than that once slot 0 plays.                    *)
AdviceOnTime ==
  phase[Master] = "started" =>
    /\ game_start <= 0
    /\ \A p \in Peer :
         /\ \A i \in DOMAIN start_time[p] : OnTime(start_time[p][i])
         /\ start_time[p] # << >> => /\ -Spread <= game_start
                                     /\ turn > p => -Spread < game_start

OnTimeInv ==
  /\ DelayInv
  /\ EchoesMeasured /\ PingsCorrected /\ PingsDiffer /\ StaleInTime /\ AdviceOnTime

(* The losses leave slot 0 the time to push out what was not corrected.     *)
FewLossesForTime == FewLosses /\ StaleBy + MaxLost + Longest + 6 < StartIn

(* The pings p reads, and when each was sent.                               *)
PingsRead(p) == {x \in Arrived(p) : x.type = "P"}

LEMMA PingRead ==
  ASSUME StartInv, NEW p \in Peer, NEW x \in PingsRead(p)
  PROVE  /\ x.at \in Nat /\ x.start \in Nat /\ game_start \in Int
         /\ x.at - game_start \in Latency /\ x.at - game_start \in Min(Latency) .. Max(Latency)
         /\ x \in PingsTo(p) /\ \E y \in net : y.packet = x /\ y.in = 0
<1>1. x \in Arrived(p) /\ x.type = "P"
  BY DEF PingsRead
<1>2. PICK y \in net : x \in Packet /\ x.to = p /\ y.packet = x /\ y.in = 0 /\ PacketInTime(y)
  BY <1>1, ArrivedFacts DEF StartInv
<1>3. x.at \in Nat /\ x.start \in Nat /\ game_start \in Int
  BY <1>1, <1>2, PacketFacts DEF StartInv, TypeOK
<1>4. 0 + x.at - game_start \in Latency
  BY <1>1, <1>2 DEF PacketInTime
<1>5. x.at - game_start \in Latency
  BY <1>3, <1>4
<1>6. x.at - game_start \in Min(Latency) .. Max(Latency)
  BY <1>5, LatencyFacts
<1> QED BY <1>1, <1>2, <1>3, <1>5, <1>6 DEF PingsTo

(* What a step in which no time passes adds to the network.                 *)
LEMMA PacketsStep ==
  ASSUME StartInv, Next, ~Tick, NEW y \in net', y \notin net
  PROVE  \/ y.packet.type \in {"a", "A"}
         \/ /\ MasterRound /\ y.in \in Latency
            /\ \E q \in Peer \ {Master} :
                 y.packet = Ping(q, game_start, StartAdvisory(q), announced')
         \/ \E p \in Peer : \E x \in PingsRead(p) :
              SlaveRound(p) /\ y.in \in Latency /\ y.packet = Echo(p, x)
<1>1. ASSUME NEW r \in Peer, NEW sends, IsFiniteSet(sends), Exchange(r, sends)
      PROVE  y.packet \in sends /\ y.in \in Latency
  BY <1>1, ExchangeFacts DEF StartInv, TypeOK, NetInTime
<1>2. \A p, q, b : Confirm(p, q, b).type \in {"a", "A"}
  BY DEF Confirm
<1>3. \A p : \A x \in ConfirmAnswers(p) : x.type \in {"a", "A"}
  BY <1>2 DEF ConfirmAnswers
<1>4. ASSUME NEW r \in Peer, ConfirmationRound(r)
      PROVE  y.packet.type \in {"a", "A"}
  <2> DEFINE sends == {Confirm(r, q, q \in confirmed_players[r]) : q \in Peer \ {r}}
  <2>1. IsFiniteSet(sends) /\ Exchange(r, sends)
    BY <1>4, FiniteSends DEF ConfirmationRound, StartInv, NetInTime
  <2>2. y.packet \in sends
    <3> HIDE DEF sends
    <3> QED BY <1>1, <2>1
  <2> QED BY <1>2, <2>2
<1>5. ASSUME NEW r \in Peer, SlaveRound(r)
      PROVE  \/ y.packet.type \in {"a", "A"}
             \/ \E x \in PingsRead(r) : y.in \in Latency /\ y.packet = Echo(r, x)
  <2> DEFINE echoes == {Echo(r, x) : x \in {z \in Arrived(r) : z.type = "P"}}
             sends == echoes \union ConfirmAnswers(r)
  <2>1. IsFiniteSet(sends) /\ Exchange(r, sends)
    BY <1>5, FiniteSends, FS_Union DEF SlaveRound, StartInv, NetInTime
  <2>2. y.packet \in sends /\ y.in \in Latency
    <3> HIDE DEF sends
    <3> QED BY <1>1, <2>1
  <2>3. \A x \in echoes : \E z \in PingsRead(r) : x = Echo(r, z)
    BY DEF PingsRead
  <2> HIDE DEF echoes
  <2> QED BY <1>3, <2>2, <2>3
<1>6. ASSUME MasterRound
      PROVE  \/ y.packet.type \in {"a", "A"}
             \/ /\ y.in \in Latency
                /\ \E q \in Peer \ {Master} :
                     y.packet = Ping(q, game_start, StartAdvisory(q), announced')
  <2> DEFINE pings == {Ping(q, game_start, StartAdvisory(q), announced') : q \in Peer \ {Master}}
             sends == pings \union ConfirmAnswers(Master)
  <2>1. IsFiniteSet(sends) /\ Exchange(Master, sends) /\ Master \in Peer
    BY <1>6, FiniteSends, FS_Union, PeerFacts DEF MasterRound, StartInv, NetInTime
  <2>2. y.packet \in sends /\ y.in \in Latency
    <3> HIDE DEF sends
    <3> QED BY <1>1, <2>1
  <2>3. \A x \in pings : \E q \in Peer \ {Master} :
          x = Ping(q, game_start, StartAdvisory(q), announced')
    OBVIOUS
  <2> HIDE DEF pings
  <2> QED BY <1>3, <2>2, <2>3
<1>7. ASSUME NEW r \in Peer, Launch(r) \/ Idle(r) \/ MasterStarts PROVE FALSE
  BY <1>7 DEF Launch, Idle, MasterStarts
<1> QED BY <1>4, <1>5, <1>6, <1>7, PeerFacts DEF Next, Run

(* A tick takes a packet nearer that was there before.                      *)
LEMMA PacketsTick ==
  ASSUME StartInv, Tick, NEW y \in net'
  PROVE  \E x \in net : /\ y.packet = x.packet /\ x.in \in Nat /\ PacketInTime(x)
                        /\ x.packet \in Packet
                        /\ y.in = IF x.in = 0 THEN 0 ELSE x.in - 1
<1>1. PICK x \in net : y = Sooner(x)
  BY DEF Tick
<1>2. x.in \in Nat /\ PacketInTime(x) /\ x.packet \in Packet
  BY LatencyFacts DEF StartInv, TypeOK, NetInTime
<1>3. x = [packet |-> x.packet, in |-> x.in]
  BY <1>2 DEF PacketInTime
<1>4. y = [packet |-> x.packet, in |-> IF x.in = 0 THEN 0 ELSE x.in - 1]
  BY <1>1, <1>2, <1>3, SoonerFacts
<1> QED BY <1>2, <1>4

(* How near the start is after a tick.                                      *)
LEMMA StartTick ==
  ASSUME StartInv, Tick, Begun
  PROVE  /\ game_start \in Int /\ game_start' \in Int /\ turn = NPlayers /\ turn' = Master
         /\ game_start >= -Max(Latency) => game_start' = game_start - 1
         /\ phase[Master] = "handshake" => game_start > 0
<1>1. game_start \in Int /\ Overdue \in Int /\ Overdue < -Max(Latency) /\ Max(Latency) \in Nat
  BY LatencyFacts DEF StartInv, TypeOK
<1>2. game_start' = IF Overdue >= game_start - 1 THEN Overdue ELSE game_start - 1
  BY StartsTick DEF StartInv
<1>3. turn = NPlayers /\ turn' = Master /\ NPlayers > 0 /\ Master = 0 /\ NPlayers \in Nat
  BY SyncAssumption DEF Tick, Master
<1>4. phase[Master] = "handshake" => game_start > 0
  BY <1>3 DEF StartInv, MasterInTime
<1> QED BY <1>1, <1>2, <1>3, <1>4

(* Every echo slot 0 reads was two latencies at least on its way.           *)
LEMMA EchoesSum ==
  ASSUME StartInv, EchoesMeasured, phase[Master] = "handshake", NEW q \in Peer
  PROVE  LET n == Cardinality(Echoes(q))
             s == SumFunction([x \in Echoes(q) |-> x.at - game_start])
         IN  n \in Nat /\ s \in Nat /\ 2 * Min(Latency) * n <= s
<1> DEFINE E == Echoes(q)
           f == [x \in E |-> x.at - game_start]
           a == 2 * Min(Latency)
           b == 2 * Max(Latency)
           n == Cardinality(E)
           s == SumFunction(f)
<1>1. IsFiniteSet(E)
  <2>1. E \in SUBSET Arrived(Master)
    BY DEF Echoes
  <2> QED BY <2>1, FiniteArrived, FS_Subset DEF StartInv, NetInTime
<1>2. a \in Nat /\ b \in Nat /\ game_start \in Int
  <2>1. Min(Latency) \in Nat /\ Max(Latency) \in Nat
    BY LatencyFacts
  <2>2. game_start \in Int
    BY DEF StartInv, TypeOK
  <2> QED BY <2>1, <2>2
<1>3. ASSUME NEW x \in E
      PROVE  x.at - game_start \in a .. b
  <2>1. x \in Arrived(Master) /\ x.type = "E"
    BY DEF Echoes
  <2>2. PICK y \in net : x \in Packet /\ y.packet = x /\ y.in = 0 /\ PacketInTime(y)
    BY <2>1, ArrivedFacts DEF StartInv
  <2>3. x.at \in Nat
    BY <2>1, <2>2, PacketFacts
  <2>4. a <= 0 + x.at - game_start
    BY <2>1, <2>2 DEF EchoesMeasured
  <2>5. 0 + x.at - game_start <= b
    BY <2>1, <2>2 DEF PacketInTime
  <2> QED BY <1>2, <2>3, <2>4, <2>5
<1>4. f \in [E -> Int] /\ \A x \in E : a <= f[x] /\ f[x] <= b
  BY <1>2, <1>3
<1>5. n \in Nat
  BY <1>1, FS_CardinalityType
<1> HIDE DEF E, f, a, b
<1>6. s \in a * n .. b * n
  BY <1>1, <1>2, <1>4, SumBounds
<1> HIDE DEF n, s
<1>7. s \in Nat /\ a * n <= s
  <2>1. a * n \in Nat /\ b * n \in Nat
    BY <1>2, <1>5
  <2> QED BY <1>6, <2>1
<1> QED BY <1>5, <1>7 DEF E, f, a, n, s

LEMMA MeasuredLeastStep ==
  ASSUME StartInv, EchoesMeasured, Next
  PROVE  \A q \in Peer : 2 * Min(Latency) * player_nresponses'[q] <= player_latency'[q]
<1> DEFINE a == 2 * Min(Latency)
<1>1. a \in Nat
  BY LatencyFacts
<1>2. CASE MasterRound
  <2> TAKE q \in Peer
  <2> DEFINE n == Cardinality(Echoes(q))
             s == SumFunction([x \in Echoes(q) |-> x.at - game_start])
             l == player_latency[q]
             r == player_nresponses[q]
  <2>1. n \in Nat /\ s \in Nat /\ a * n <= s
    BY <1>2, EchoesSum DEF MasterRound
  <2>2. l \in Nat /\ r \in Nat /\ a * r <= l
    BY DEF StartInv, TypeOK, EchoesMeasured
  <2>3. player_nresponses'[q] = r + n /\ player_latency'[q] = l + s
    BY <1>2 DEF MasterRound
  <2> HIDE DEF n, s, l, r, a
  <2>4. a * (r + n) = a * r + a * n /\ a * r \in Nat /\ a * n \in Nat
    BY <1>1, <2>1, <2>2
  <2>5. a * (r + n) <= l + s
    BY <2>1, <2>2, <2>4
  <2> QED BY <2>3, <2>5 DEF a
<1>3. CASE MasterStarts
  BY <1>1, <1>3 DEF MasterStarts
<1>4. CASE ~MasterRound /\ ~MasterStarts
  <2>1. UNCHANGED <<player_nresponses, player_latency>>
    BY <1>4 DEF Next, Run, Tick, Launch, ConfirmationRound, SlaveRound, Idle, masterVars
  <2> QED BY <2>1 DEF EchoesMeasured
<1> QED BY <1>2, <1>3, <1>4

LEMMA EchoesMeasuredStep ==
  ASSUME StartInv, StartInv', ConfirmInv, EchoesMeasured, Next
  PROVE  EchoesMeasured'
<1> SUFFICES ASSUME phase'[Master] = "handshake", NEW y \in net', y.packet.type = "E"
             PROVE  2 * Min(Latency) <= y.in + y.packet.at - game_start'
  BY MeasuredLeastStep DEF EchoesMeasured
<1>1. Min(Latency) \in Nat /\ game_start \in Int
  BY LatencyFacts DEF StartInv, TypeOK
<1>2. CASE Tick
  <2>1. phase[Master] = "handshake" /\ Begun
    BY <1>2 DEF Tick, Begun
  <2>2. PICK x \in net : /\ y.packet = x.packet /\ x.in \in Nat /\ PacketInTime(x)
                         /\ x.packet \in Packet
                         /\ y.in = IF x.in = 0 THEN 0 ELSE x.in - 1
    BY <1>2, PacketsTick
  <2>3. x.packet.at \in Nat
    BY <2>2, PacketFacts
  <2>4. turn # Master /\ game_start' = game_start - 1
    <3>1. game_start > 0 /\ turn = NPlayers /\ Max(Latency) \in Nat
      BY <1>2, <2>1, StartTick, LatencyFacts
    <3> QED BY <1>1, <1>2, <2>1, <3>1, StartTick, SyncAssumption DEF Master
  <2>5. x.in # 0
    BY <2>1, <2>2, <2>4 DEF PacketInTime
  <2>6. 2 * Min(Latency) <= x.in + x.packet.at - game_start
    BY <2>1, <2>2 DEF EchoesMeasured
  <2> QED BY <1>1, <2>2, <2>3, <2>4, <2>5, <2>6
<1>3. CASE ~Tick /\ y \in net
  <2>1. phase[Master] = "handshake"
    <3>1. Begun
      BY <1>3 DEF StartInv, NetInTime, PacketInTime
    <3> QED BY <3>1, Beginning
  <2>2. game_start' = game_start
    BY <1>3 DEF Next, Run, Launch, ConfirmationRound, SlaveRound, Idle, MasterRound, MasterStarts,
      masterVars
  <2> QED BY <1>3, <2>1, <2>2 DEF EchoesMeasured
<1>4. CASE ~Tick /\ y \notin net
  <2>1. PICK p \in Peer : \E x \in PingsRead(p) :
          SlaveRound(p) /\ y.in \in Latency /\ y.packet = Echo(p, x)
    <3>1. \A q, a, s, d : Ping(q, a, s, d).type = "P"
      BY DEF Ping
    <3> QED BY <1>4, <3>1, PacketsStep
  <2>2. PICK x \in PingsRead(p) : y.in \in Latency /\ y.packet = Echo(p, x)
    BY <2>1
  <2>3. x.at \in Nat /\ x.at - game_start >= Min(Latency)
    BY <1>1, PingRead
  <2>4. y.packet.at = x.at /\ y.in \in Nat /\ y.in >= Min(Latency)
    BY <2>2, LatencyFacts DEF Echo
  <2>5. game_start' = game_start
    BY <2>1 DEF SlaveRound, masterVars
  <2> QED BY <1>1, <2>3, <2>4, <2>5
<1> QED BY <1>2, <1>3, <1>4

(* Pings sent once an echo has come are corrected by a latency at least.    *)
LEMMA AdvisoryCorrected ==
  ASSUME StartInv, EchoesMeasured, game_start >= 0, NEW q \in Responding
  PROVE  StartAdvisory(q) <= 0 \/ StartAdvisory(q) <= game_start - Min(Latency)
<1> DEFINE m0 == Min(Latency)
           l == player_latency[q]
           r == player_nresponses[q]
           avg == AverageLatency(q)
           a == game_start - avg \div 2
<1>1. m0 \in Nat /\ game_start \in Nat
  BY LatencyFacts DEF StartInv, TypeOK
<1>2. avg \in Nat
  BY AverageFacts, LatencyFacts DEF StartInv
<1>3. avg >= 2 * m0
  <2>1. l \in Nat /\ r \in Nat \ {0} /\ 2 * m0 * r <= l /\ avg = l \div r
    BY DEF Responding, AverageLatency, StartInv, TypeOK, EchoesMeasured
  <2> DEFINE b == 2 * m0
  <2>2. b \in Nat /\ b * r <= l
    BY <1>1, <2>1
  <2> HIDE DEF l, r, m0, b, avg
  <2>3. b <= l \div r
    BY <2>1, <2>2
  <2> QED BY <2>1, <2>3 DEF b
<1> HIDE DEF m0, avg
<1>4. a \in Int /\ a <= game_start - m0
  BY <1>1, <1>2, <1>3
<1>5. StartAdvisory(q) = Max({0, a})
  BY DEF StartAdvisory, avg, a
<1> HIDE DEF a
<1>6. StartAdvisory(q) = IF 0 >= a THEN 0 ELSE a
  BY <1>4, <1>5, MaxPair
<1> QED BY <1>4, <1>6 DEF m0

(* Slot 0 sends uncorrected pings only until an echo was due.               *)
LEMMA PingsCorrectedStep ==
  ASSUME StartInv, EchoesMeasured, AnsweredInTime, PingsCorrected, Next
  PROVE  PingsCorrected'
<1> SUFFICES ASSUME NEW y \in net', y.packet.type = "P"
             PROVE  PingOnTime(y.packet) \/ StartIn - y.packet.at <= CorrectedBy
  BY DEF PingsCorrected, PingOnTime
<1>1. CASE Tick
  <2>1. PICK x \in net : y.packet = x.packet
    BY <1>1, PacketsTick
  <2> QED BY <2>1 DEF PingsCorrected
<1>2. CASE ~Tick /\ y \in net
  BY <1>2 DEF PingsCorrected
<1>3. CASE ~Tick /\ y \notin net
  <2>1. \A p, x : Echo(p, x).type = "E"
    BY DEF Echo
  <2>2. MasterRound /\ \E q \in Peer \ {Master} :
          y.packet = Ping(q, game_start, StartAdvisory(q), announced')
    BY <1>3, <2>1, PacketsStep
  <2>3. PICK q \in Peer \ {Master} : y.packet = Ping(q, game_start, StartAdvisory(q), announced')
    BY <2>2
  <2>4. y.packet.at = game_start /\ y.packet.start = StartAdvisory(q)
    BY <2>3 DEF Ping
  <2>5. phase[Master] = "handshake" /\ game_start \in Nat
    BY <2>2 DEF MasterRound, StartInv, TypeOK
  <2>6. CASE q \in Responding
    <3>1. StartAdvisory(q) <= 0 \/ StartAdvisory(q) <= game_start - Min(Latency)
      BY <2>5, <2>6, AdvisoryCorrected
    <3> QED BY <2>4, <3>1 DEF PingOnTime
  <2>7. CASE q \notin Responding
    <3>1. player_nresponses[q] = 0
      BY <2>7 DEF Responding, StartInv, TypeOK
    <3>2. Answering(q, Slack(AnsweredBy))
      BY <2>5, <3>1 DEF AnsweredInTime
    <3>3. AnsweredBy \in Int /\ StartIn \in Nat
      BY DeadlineFacts
    <3>4. 0 <= Slack(AnsweredBy)
      <4>1. Slack(AnsweredBy) \in Int
        BY <3>3, SlackFacts
      <4> QED BY <3>2, <4>1, AnsweringNat
    <3> DEFINE bound == MaxLost * (Longest + 1)
    <3>5. /\ Slack(AnsweredBy) = AnsweredBy + Cost - (StartIn - game_start)
          /\ Cost \in Nat /\ Cost <= bound /\ bound \in Nat
      BY <3>3, SlackFacts
    <3>6. CorrectedBy = AnsweredBy + bound
      BY DEF CorrectedBy
    <3> HIDE DEF bound
    <3> QED BY <2>4, <2>5, <3>3, <3>4, <3>5, <3>6
  <2> QED BY <2>6, <2>7
<1> QED BY <1>1, <1>2, <1>3

LEMMA PingsDifferStep ==
  ASSUME StartInv, StartInv', ConfirmInv, Next
  PROVE  PingsDiffer'
<1> SUFFICES ASSUME phase'[Master] = "handshake", turn' = Master,
                    NEW y \in net', y.packet.type = "P"
             PROVE  game_start' < y.packet.at
  BY DEF PingsDiffer
<1>1. Tick
  <2>1. \A r \in Peer : r + 1 # Master
    BY DEF Peer, Master
  <2> QED BY <2>1, PeerFacts DEF Next, Run, Launch, ConfirmationRound, SlaveRound, Idle, MasterRound,
             MasterStarts, EndTurn
<1>2. PICK x \in net : /\ y.packet = x.packet /\ x.in \in Nat /\ PacketInTime(x)
                       /\ x.packet \in Packet
  BY <1>1, PacketsTick
<1>3. phase[Master] = "handshake" /\ Begun
  BY <1>1 DEF Tick, Begun
<1>4. game_start > 0 /\ game_start \in Int
  BY <1>1, <1>3, StartTick
<1>5. game_start' = game_start - 1
  <2>1. Max(Latency) \in Nat
    BY LatencyFacts
  <2> QED BY <1>1, <1>3, <1>4, <2>1, StartTick
<1>6. game_start <= x.packet.at /\ x.packet.at \in Nat
  BY <1>2, PacketFacts DEF PacketInTime
<1> QED BY <1>2, <1>4, <1>5, <1>6

(* What is kept of a list stays as far from its end.                        *)
LEMMA LastFiveKeeps ==
  ASSUME NEW s \in Seq(Int), NEW j \in DOMAIN LastFive(s)
  PROVE  \E i \in DOMAIN s : /\ LastFive(s)[j] = s[i]
                             /\ Len(LastFive(s)) - j = Len(s) - i
<1>1. Len(s) \in Nat /\ DOMAIN s = 1 .. Len(s)
  OBVIOUS
<1>2. CASE Len(s) > 5
  <2> DEFINE a == Len(s) - 4
             z == SubSeq(s, a, Len(s))
  <2>1. a \in 1 .. Len(s) /\ \A i \in a .. Len(s) : s[i] \in Int
    BY <1>1, <1>2
  <2>2. Len(z) = 5 /\ \A k \in 1 .. 5 : z[k] = s[a + k - 1]
    BY <1>1, <1>2, <2>1, SubSeqProperties
  <2>3. LastFive(s) = z /\ DOMAIN z = 1 .. 5
    <3>1. LastFive(s) = z
      BY <1>2 DEF LastFive
    <3>2. z \in Seq(Int)
      BY <1>1, <1>2, <2>1, SubSeqProperties
    <3> HIDE DEF z
    <3> QED BY <2>2, <3>1, <3>2
  <2> HIDE DEF z
  <2>4. j \in 1 .. 5 /\ LastFive(s)[j] = s[a + j - 1] /\ Len(LastFive(s)) = 5
    BY <2>2, <2>3
  <2>5. a + j - 1 \in 1 .. Len(s) /\ 5 - j = Len(s) - (a + j - 1)
    BY <1>1, <1>2, <2>4
  <2> QED BY <1>1, <2>4, <2>5
<1>3. CASE ~(Len(s) > 5)
  BY <1>3 DEF LastFive
<1> QED BY <1>2, <1>3

(* The advice p keeps after its round: what it has just read, and what it   *)
(* had, that much further from the end.                                     *)
LEMMA AdviceRead ==
  ASSUME StartInv, NEW p \in Peer, SlaveRound(p)
  PROVE  /\ Cardinality(PingsRead(p)) \in Nat /\ IsFiniteSet(PingsRead(p))
         /\ \E times \in Seq(Int) :
              /\ start_time' = [start_time EXCEPT ![p] = IF TimeToStart(times) THEN << >> ELSE times]
              /\ \A j \in DOMAIN times :
                   \/ \E x \in PingsRead(p) : times[j] = x.start
                   \/ \E i \in DOMAIN start_time[p] :
                        /\ times[j] = start_time[p][i]
                        /\ Len(times) - j = Len(start_time[p]) - i + Cardinality(PingsRead(p))
<1> DEFINE k == Cardinality(PingsRead(p))
<1>1. IsFiniteSet(PingsRead(p)) /\ k \in Nat
  <2>1. PingsRead(p) \in SUBSET Arrived(p)
    BY DEF PingsRead
  <2> QED BY <2>1, FiniteArrived, FS_Subset, FS_CardinalityType DEF StartInv, NetInTime
<1>2. PICK order \in SetToSeqs(PingsRead(p)) :
        LET times == LastFive(start_time[p] \o [i \in DOMAIN order |-> order[i].start])
        IN IF TimeToStart(times)
           THEN /\ phase' = [phase EXCEPT ![p] = "started"]
                /\ start_time' = [start_time EXCEPT ![p] = << >>]
           ELSE /\ start_time' = [start_time EXCEPT ![p] = times]
                /\ UNCHANGED phase
  BY DEF SlaveRound, PingsRead
<1>3. order \in [1 .. k -> PingsRead(p)]
  BY DEF SetToSeqs
<1> DEFINE new == [i \in DOMAIN order |-> order[i].start]
           old == start_time[p]
           s == old \o new
           times == LastFive(s)
<1>4. new \in Seq(Int) /\ Len(new) = k /\ \A i \in 1 .. k : \E x \in PingsRead(p) : new[i] = x.start
  <2>1. \A x \in PingsRead(p) : x.start \in Int
    BY PingRead
  <2>2. new = [i \in 1 .. k |-> order[i].start] /\ \A i \in 1 .. k : order[i] \in PingsRead(p)
    BY <1>3
  <2> HIDE DEF new, k
  <2> QED BY <1>1, <2>1, <2>2
<1>5. old \in Seq(Int)
  BY DEF StartInv, TypeOK
<1>6. start_time' = [start_time EXCEPT ![p] = IF TimeToStart(times) THEN << >> ELSE times]
  BY <1>2
<1> HIDE DEF new, k, old
<1>7. /\ s \in Seq(Int) /\ Len(s) = Len(old) + k /\ Len(old) \in Nat
      /\ \A i \in 1 .. Len(s) : s[i] = IF i <= Len(old) THEN old[i] ELSE new[i - Len(old)]
  BY <1>1, <1>4, <1>5
<1> HIDE DEF s
<1>8. times \in Seq(Int)
  <2>1. Int \in SUBSET Int
    OBVIOUS
  <2> QED BY <1>7, <2>1, LastFiveFacts
<1>9. ASSUME NEW j \in DOMAIN times
      PROVE  \/ \E x \in PingsRead(p) : times[j] = x.start
             \/ \E i \in DOMAIN old : times[j] = old[i] /\ Len(times) - j = Len(old) - i + k
  <2>1. PICK i \in DOMAIN s : times[j] = s[i] /\ Len(times) - j = Len(s) - i
    BY <1>7, LastFiveKeeps
  <2>2. i \in 1 .. Len(s) /\ i \in Nat
    BY <1>7, <2>1
  <2>3. CASE i <= Len(old)
    <3>1. i \in DOMAIN old /\ times[j] = old[i]
      BY <1>5, <1>7, <2>1, <2>2, <2>3
    <3>2. Len(s) - i = Len(old) - i + k
      BY <1>1, <1>7, <2>2
    <3> QED BY <2>1, <3>1, <3>2
  <2>4. CASE ~(i <= Len(old))
    <3>1. i - Len(old) \in 1 .. k /\ times[j] = new[i - Len(old)]
      BY <1>1, <1>7, <2>1, <2>2, <2>4
    <3> QED BY <1>4, <3>1
  <2> QED BY <2>3, <2>4
<1> HIDE DEF times
<1> QED BY <1>1, <1>6, <1>8, <1>9 DEF k, old

(* A ping that is read too late was sent before slot 0 had an echo.         *)
LEMMA LateRead ==
  ASSUME StartInv, PingsCorrected, NEW p \in Peer, NEW x \in PingsRead(p)
  PROVE  OnTime(x.start) \/ Elapsed <= StaleBy
<1>1. /\ x.at \in Nat /\ x.start \in Nat /\ game_start \in Int
      /\ x.at - game_start \in Min(Latency) .. Max(Latency)
  BY PingRead
<1>2. PingOnTime(x) \/ StartIn - x.at <= CorrectedBy
  <2>1. x.type = "P" /\ \E y \in net : y.packet = x
    BY PingRead DEF PingsRead
  <2> QED BY <2>1 DEF PingsCorrected
<1>3. /\ Longest = Max(Latency) /\ Spread = Max(Latency) - Min(Latency)
      /\ Max(Latency) \in Nat /\ Min(Latency) \in Nat /\ StartIn \in Nat
  BY LatencyFacts DEF Longest, Spread
<1>4. CorrectedBy \in Int /\ StaleBy = CorrectedBy + Longest
  <2>1. MaxLost \in Nat /\ Longest + 1 \in Nat /\ AnsweredBy \in Int
    BY DeadlineFacts
  <2>2. MaxLost * (Longest + 1) \in Nat
    BY <2>1, Multiples
  <2> QED BY <2>1, <2>2 DEF CorrectedBy, StaleBy
<1>5. Elapsed = StartIn - game_start
  BY DEF Elapsed
<1>6. CASE PingOnTime(x)
  BY <1>1, <1>3, <1>6 DEF PingOnTime, OnTime
<1>7. CASE StartIn - x.at <= CorrectedBy
  BY <1>1, <1>3, <1>4, <1>5, <1>7
<1> QED BY <1>2, <1>6, <1>7

LEMMA NewerFacts ==
  ASSUME StartInv, NEW p \in Peer
  PROVE  /\ IsFiniteSet(Newer(p)) /\ Cardinality(Newer(p)) \in Nat
         /\ Cardinality(Newer(p)) <= Longest + 1
<1> DEFINE D == game_start .. game_start + Longest
<1>1. game_start \in Int /\ Longest \in Nat
  BY DeadlineFacts DEF StartInv, TypeOK
<1>2. ASSUME NEW y \in net, y.packet \in PingsTo(p) PROVE y.packet.at \in D
  <2>1. y.packet.at \in Nat /\ y.in \in Nat
    BY <1>2, PacketFacts, LatencyFacts DEF PingsTo, StartInv, TypeOK
  <2>2. y.in + y.packet.at - game_start \in Latency /\ game_start <= y.packet.at
    BY <1>2 DEF StartInv, NetInTime, PacketInTime, PingsTo
  <2>3. y.in + y.packet.at - game_start <= Longest
    BY <2>2, LatencyFacts DEF Longest
  <2> QED BY <1>1, <2>1, <2>2, <2>3
<1>3. Newer(p) \in SUBSET D
  BY <1>2 DEF Newer
<1>4. IsFiniteSet(D) /\ Cardinality(D) = Longest + 1
  <2> DEFINE e == game_start + Longest
  <2>1. e \in Int /\ ~(game_start > e) /\ e - game_start + 1 = Longest + 1
    BY <1>1
  <2>2. Cardinality(D) = IF game_start > e THEN 0 ELSE e - game_start + 1
    BY <1>1, <2>1, FS_Interval
  <2> QED BY <1>1, <2>1, <2>2, FS_Interval
<1> HIDE DEF D
<1>5. IsFiniteSet(Newer(p)) /\ Cardinality(Newer(p)) <= Cardinality(D)
  BY <1>3, <1>4, FS_Subset
<1> QED BY <1>4, <1>5, FS_CardinalityType

LEMMA NewerAfter ==
  ASSUME StartInv', NEW p \in Peer
  PROVE  IsFiniteSet(Newer(p)') /\ Cardinality(Newer(p)') \in Nat
<1> DEFINE S == {z \in net' : z.packet \in PingsTo(p) /\ StartIn - z.packet.at > StaleBy}
           T == {y.packet.at : y \in S}
           f == [y \in S |-> y.packet.at]
<1>1. IsFiniteSet(S)
  <2>1. IsFiniteSet(net') /\ S \in SUBSET net'
    BY DEF StartInv, NetInTime
  <2> QED BY <2>1, FS_Subset
<1>2. f \in [S -> T] /\ \A y \in T : \E x \in S : y = f[x]
  OBVIOUS
<1>3. T = Newer(p)'
  BY DEF Newer
<1> HIDE DEF S, T, f
<1> QED BY <1>1, <1>2, <1>3, FiniteImage, FS_CardinalityType

(* Pings that stay on their way are counted on.                             *)
LEMMA NewerStays ==
  ASSUME StartInv', NEW p \in Peer,
         \A y \in net : y.packet.to = p => \E z \in net' : z.packet = y.packet
  PROVE  /\ Newer(p) \subseteq Newer(p)'
         /\ Cardinality(Newer(p)) <= Cardinality(Newer(p)')
<1>1. Newer(p) \subseteq Newer(p)'
  <2> SUFFICES ASSUME NEW a \in Newer(p) PROVE a \in Newer(p)'
    OBVIOUS
  <2>1. PICK y \in net : /\ y.packet \in PingsTo(p) /\ StartIn - y.packet.at > StaleBy
                         /\ a = y.packet.at
    BY DEF Newer
  <2>2. PICK z \in net' : z.packet = y.packet
    BY <2>1 DEF PingsTo
  <2> QED BY <2>1, <2>2 DEF Newer
<1>2. IsFiniteSet(Newer(p)')
  BY NewerAfter
<1> QED BY <1>1, <1>2, FS_Subset

(* What p reads of the counted pings is as much advice.                     *)
LEMMA NewerRead ==
  ASSUME StartInv, StartInv', NEW p \in Peer, SlaveRound(p)
  PROVE  Cardinality(Newer(p)) <= Cardinality(Newer(p)') + Cardinality(PingsRead(p))
<1> DEFINE P == PingsRead(p)
           R == {x.at : x \in P}
           f == [x \in P |-> x.at]
           N == Newer(p)
           M == Newer(p)'
<1>1. IsFiniteSet(P) /\ Cardinality(P) \in Nat
  BY AdviceRead
<1>2. f \in Surjection(P, R)
  BY DEF Surjection
<1>3. N \subseteq M \union R
  <2> SUFFICES ASSUME NEW a \in N PROVE a \in M \/ a \in R
    OBVIOUS
  <2>1. PICK y \in net : /\ y.packet \in PingsTo(p) /\ StartIn - y.packet.at > StaleBy
                         /\ a = y.packet.at
    BY DEF Newer
  <2>2. CASE y.in = 0
    <3>1. y.packet \in P
      BY <2>1, <2>2 DEF PingsRead, Arrived, PingsTo
    <3> QED BY <2>1, <3>1
  <2>3. CASE y.in # 0
    <3>1. y \in net'
      BY <2>3, SlaveTurn DEF TurnOf
    <3> QED BY <2>1, <3>1 DEF Newer
  <2> QED BY <2>2, <2>3
<1>4. IsFiniteSet(M) /\ Cardinality(M) \in Nat /\ IsFiniteSet(N) /\ Cardinality(N) \in Nat
  BY NewerFacts, NewerAfter
<1> HIDE DEF P, R, f, N, M
<1>5. IsFiniteSet(R) /\ Cardinality(R) <= Cardinality(P) /\ Cardinality(R) \in Nat
  BY <1>1, <1>2, FS_Surjection, FS_CardinalityType
<1>6. /\ IsFiniteSet(M \union R)
      /\ Cardinality(M \union R) = Cardinality(M) + Cardinality(R) - Cardinality(M \intersect R)
      /\ Cardinality(M \intersect R) \in Nat
  <2>1. (M \intersect R) \in SUBSET M
    OBVIOUS
  <2> QED BY <1>4, <1>5, <2>1, FS_Union, FS_Subset, FS_CardinalityType
<1>7. Cardinality(N) <= Cardinality(M \union R)
  BY <1>3, <1>6, FS_Subset
<1>8. Cardinality(N) <= Cardinality(M) + Cardinality(P)
  BY <1>1, <1>4, <1>5, <1>6, <1>7
<1> QED BY <1>8 DEF N, M, P

LEMMA StaleNat ==
  ASSUME StartInv, NEW p \in Peer, NEW i \in DOMAIN start_time[p]
  PROVE  /\ StaleBy \in Nat /\ CorrectedBy + Longest = StaleBy /\ Elapsed = StartIn - game_start
         /\ game_start \in Int /\ StartIn \in Nat /\ lost \in Nat /\ lost <= MaxLost /\ MaxLost \in Nat
         /\ Len(start_time[p]) \in Nat /\ Len(start_time[p]) <= 5 /\ i \in 1 .. Len(start_time[p])
         /\ Cardinality(Newer(p)) \in Nat /\ Turned(Master) \in {0, 1}
         /\ start_time[p][i] \in Int /\ Spread \in Nat
         /\ phase[p] = "handshake" /\ p # Master /\ Begun /\ p \in Nat /\ p > Master
<1>1. StaleBy \in Nat /\ CorrectedBy + Longest = StaleBy
  <2>1. MaxLost \in Nat /\ Longest + 1 \in Nat /\ AnsweredBy \in Nat /\ Longest \in Nat
    BY DeadlineFacts
  <2>2. MaxLost * (Longest + 1) \in Nat
    BY <2>1, Multiples
  <2> QED BY <2>1, <2>2 DEF CorrectedBy, StaleBy
<1>2. start_time[p] \in Seq(Int) /\ Len(start_time[p]) <= 5
  BY DEF StartInv, TypeOK
<1>3. /\ Len(start_time[p]) \in Nat /\ i \in 1 .. Len(start_time[p]) /\ start_time[p][i] \in Int
      /\ start_time[p] # << >>
  BY <1>2
<1>4. phase[p] = "handshake" /\ p # Master /\ Begun
  BY <1>3 DEF StartInv, AdviceInTime, NothingBegun
<1>5. p \in Nat /\ p > Master
  BY <1>4 DEF Peer, Master
<1>6. /\ game_start \in Int /\ StartIn \in Nat /\ lost \in Nat /\ lost <= MaxLost /\ MaxLost \in Nat
      /\ Cardinality(Newer(p)) \in Nat /\ Turned(Master) \in {0, 1} /\ Spread \in Nat
  <2>1. StartIn \in Nat /\ MaxLost \in Nat /\ Spread \in Nat
    BY DeadlineFacts
  <2>2. game_start \in Int /\ lost \in 0 .. MaxLost
    BY DEF StartInv, TypeOK
  <2>3. Cardinality(Newer(p)) \in Nat
    BY NewerFacts
  <2> QED BY <2>1, <2>2, <2>3 DEF Turned
<1> QED BY <1>1, <1>2, <1>3, <1>4, <1>5, <1>6 DEF Elapsed

(* Advice that is on time stays so when time passes.                        *)
LEMMA OnTimeTick ==
  ASSUME StartInv, Tick, game_start >= -Max(Latency), NEW p \in Peer, NEW i \in DOMAIN start_time'[p]
  PROVE  /\ i \in DOMAIN start_time[p] /\ Len(start_time'[p]) = Len(start_time[p])
         /\ OnTime(start_time[p][i]) => OnTime(start_time[p][i])'
<1>1. /\ DOMAIN start_time'[p] = DOMAIN start_time[p] /\ Len(start_time'[p]) = Len(start_time[p])
      /\ start_time'[p][i] = IF Overdue >= start_time[p][i] - 1 THEN Overdue
                             ELSE start_time[p][i] - 1
  BY StartsTick DEF StartInv
<1>2. /\ game_start \in Int /\ start_time[p][i] \in Int /\ Spread \in Nat /\ Begun
  BY <1>1, StaleNat
<1>3. game_start' = game_start - 1
  BY <1>2, StartTick
<1>4. Overdue \in Int /\ Overdue < 0
  BY LatencyFacts
<1> QED BY <1>1, <1>2, <1>3, <1>4 DEF OnTime

LEMMA StaleTick ==
  ASSUME StartInv, StartInv', StaleInTime, Tick, phase[Master] = "handshake",
         NEW p \in Peer, NEW i \in DOMAIN start_time'[p]
  PROVE  OnTime(start_time[p][i])' \/ Stale(p, i)'
<1>1. game_start >= -Max(Latency) /\ game_start' = game_start - 1
  <2>1. game_start > 0 /\ game_start \in Int /\ Max(Latency) \in Nat
    BY StartTick, LatencyFacts DEF Begun
  <2> QED BY <2>1, StartTick DEF Begun
<1>2. /\ i \in DOMAIN start_time[p] /\ Len(start_time'[p]) = Len(start_time[p])
      /\ OnTime(start_time[p][i]) => OnTime(start_time[p][i])'
  BY <1>1, OnTimeTick
<1>3. lost' = lost /\ Turned(Master) = 1 /\ Turned(Master)' = 0
  BY TurnedTick, PeerFacts DEF Tick
<1>4. Cardinality(Newer(p)) <= Cardinality(Newer(p)') /\ Cardinality(Newer(p)') \in Nat
  <2>1. ASSUME NEW y \in net PROVE \E z \in net' : z.packet = y.packet
    <3>1. y = [packet |-> y.packet, in |-> y.in] /\ y.in \in Nat
      BY LatencyFacts DEF StartInv, NetInTime, PacketInTime, TypeOK
    <3>2. Sooner(y).packet = y.packet
      BY <3>1, SoonerFacts
    <3> QED BY <3>2 DEF Tick
  <2> QED BY <2>1, NewerStays, NewerAfter
<1>5. Stale(p, i) => Stale(p, i)'
  <2> DEFINE n == Cardinality(Newer(p))
             k == Cardinality(Newer(p)')
             l == Len(start_time[p])
             e == StaleBy + lost + (l - i)
  <2>1. n \in Nat /\ k \in Nat /\ n <= k /\ e \in Int /\ game_start \in Int /\ StartIn \in Nat
    BY <1>2, <1>4, StaleNat
  <2>2. /\ Stale(p, i) <=> StartIn - game_start <= e + n + 1 - 1
        /\ Stale(p, i)' <=> StartIn - (game_start - 1) <= e + k + 1 - 0
    BY <1>1, <1>2, <1>3 DEF Stale, Elapsed
  <2> HIDE DEF n, k, l, e
  <2> QED BY <2>1, <2>2
<1> QED BY <1>2, <1>5 DEF StaleInTime

(* A ping more is on its way, or lost.                                      *)
LEMMA StaleMaster ==
  ASSUME StartInv, StartInv', PingsDiffer, StaleInTime, MasterRound,
         NEW p \in Peer, NEW i \in DOMAIN start_time'[p]
  PROVE  OnTime(start_time[p][i])' \/ Stale(p, i)'
<1> DEFINE out == {Ping(q, game_start, StartAdvisory(q), announced') : q \in Peer \ {Master}}
                    \union ConfirmAnswers(Master)
           x == Ping(p, game_start, StartAdvisory(p), announced')
<1>1. /\ start_time' = start_time /\ game_start' = game_start /\ phase[Master] = "handshake"
      /\ TurnOf(Master, out)
  BY MasterTurn DEF MasterRound
<1>2. i \in DOMAIN start_time[p] /\ (OnTime(start_time[p][i]) => OnTime(start_time[p][i])')
  BY <1>1 DEF OnTime
<1>3. p # Master
  BY <1>2, StaleNat
<1>4. x \in out /\ x \in PingsTo(p) /\ x.at = game_start
  BY <1>3, PingSent DEF Ping
<1> HIDE DEF out, x
<1>5. /\ turn = Master /\ Turned(Master) = 0 /\ Turned(Master)' = 1 /\ lost' >= lost
      /\ lost' > lost \/ \E k \in Latency : [packet |-> x, in |-> k] \in net'
  BY <1>1, <1>4 DEF TurnOf, Turned, Master
<1>6. /\ Newer(p) \subseteq Newer(p)'
      /\ Cardinality(Newer(p)) <= Cardinality(Newer(p)')
  <2>1. \A y \in net : y.packet.to = p => y \in net'
    BY <1>1, <1>3 DEF TurnOf
  <2> QED BY <2>1, NewerStays
<1>7. IsFiniteSet(Newer(p)') /\ Cardinality(Newer(p)') \in Nat
  BY NewerAfter
<1>8. PICK more \in Nat : more = lost'
  BY DEF StartInv, TypeOK
<1>11. more >= lost /\ (lost' > lost => more > lost)
  BY <1>5, <1>8
<1>9. CASE Elapsed <= StaleBy
  <2> DEFINE k == Cardinality(Newer(p)')
             l == Len(start_time[p])
             d == l - i
  <2>1. k \in Nat /\ d \in Nat /\ StaleBy \in Nat /\ Elapsed \in Int
    BY <1>2, <1>7, StaleNat
  <2>2. Stale(p, i)' <=> Elapsed <= StaleBy + more + d + k + 1 - 1
    BY <1>1, <1>5, <1>8 DEF Stale, Elapsed
  <2> HIDE DEF k, d
  <2>3. Elapsed <= StaleBy + more + d + k + 1 - 1
    BY <1>9, <2>1
  <2> QED BY <2>2, <2>3
<1>10. CASE ~(Elapsed <= StaleBy)
  <2>1. \/ lost' > lost
        \/ Cardinality(Newer(p)) < Cardinality(Newer(p)')
    <3> SUFFICES ASSUME ~(lost' > lost) PROVE Cardinality(Newer(p)) < Cardinality(Newer(p)')
      OBVIOUS
    <3>1. PICK k \in Latency : [packet |-> x, in |-> k] \in net'
      BY <1>5
    <3>2. game_start \in Newer(p)'
      <4> DEFINE y == [packet |-> x, in |-> k]
      <4>1. y \in net' /\ y.packet = x
        BY <3>1
      <4> HIDE DEF y
      <4>2. StartIn - x.at > StaleBy
        <5>1. StartIn - game_start = Elapsed /\ Elapsed \in Int /\ StaleBy \in Int
          BY <1>2, StaleNat
        <5> QED BY <1>4, <1>10, <5>1
      <4> QED BY <1>4, <4>1, <4>2 DEF Newer
    <3>3. game_start \notin Newer(p)
      <4>1. \A y \in net : y.packet \in PingsTo(p) => game_start < y.packet.at
        BY <1>1, <1>5 DEF PingsDiffer, PingsTo
      <4>2. game_start \in Int
        BY <1>2, StaleNat
      <4> QED BY <4>1, <4>2 DEF Newer
    <3>4. Newer(p) # Newer(p)'
      BY <3>2, <3>3
    <3> DEFINE N == Newer(p)
               M == Newer(p)'
    <3>5. N \in SUBSET M /\ IsFiniteSet(M) /\ N # M
      BY <1>6, <1>7, <3>4
    <3> HIDE DEF N, M
    <3>6. Cardinality(M) # Cardinality(N)
      BY <3>5, FS_Subset
    <3>7. Cardinality(N) \in Nat /\ Cardinality(M) \in Nat /\ Cardinality(N) <= Cardinality(M)
      BY <1>6, <1>7, <1>2, StaleNat DEF N, M
    <3>8. Cardinality(N) < Cardinality(M)
      BY <3>6, <3>7
    <3> QED BY <3>8 DEF N, M
  <2> DEFINE n == Cardinality(Newer(p))
             k == Cardinality(Newer(p)')
             l == Len(start_time[p])
             e == l - i
  <2>2. /\ n \in Nat /\ k \in Nat /\ n <= k /\ e \in Nat /\ Elapsed \in Int
        /\ lost \in Nat /\ StaleBy \in Nat
    BY <1>2, <1>6, <1>7, StaleNat
  <2>3. /\ Stale(p, i) <=> Elapsed <= StaleBy + lost + e + n + 1 - 0
        /\ Stale(p, i)' <=> Elapsed <= StaleBy + more + e + k + 1 - 1
    BY <1>1, <1>5, <1>8 DEF Stale, Elapsed
  <2>4. more > lost \/ n < k
    BY <1>11, <2>1
  <2>5. Stale(p, i) => Stale(p, i)'
    <3> HIDE DEF n, k, e
    <3>1. more + k >= lost + n + 1
      BY <1>11, <2>2, <2>4
    <3>2. Elapsed <= StaleBy + lost + e + n + 1 - 0 => Elapsed <= StaleBy + more + e + k + 1 - 1
      BY <2>2, <3>1
    <3> QED BY <2>3, <3>2
  <2> QED BY <1>1, <1>2, <2>5 DEF StaleInTime
<1> QED BY <1>9, <1>10

(* What p has read is on time, or the pings read with it push it out.       *)
LEMMA StaleRead ==
  ASSUME StartInv, StartInv', PingsCorrected, StaleInTime, phase[Master] = "handshake",
         NEW p \in Peer, SlaveRound(p), NEW j \in DOMAIN start_time'[p]
  PROVE  OnTime(start_time[p][j])' \/ Stale(p, j)'
<1>1. /\ game_start' = game_start /\ turn = p /\ turn' = p + 1 /\ p # Master /\ lost' >= lost
  BY SlaveTurn DEF TurnOf, SlaveRound
<1>2. Turned(Master) = 1 /\ Turned(Master)' = 1
  BY <1>1 DEF Turned, Peer, Master
<1>3. PICK times \in Seq(Int) :
        /\ start_time' = [start_time EXCEPT ![p] = IF TimeToStart(times) THEN << >> ELSE times]
        /\ \A i \in DOMAIN times :
             \/ \E x \in PingsRead(p) : times[i] = x.start
             \/ \E z \in DOMAIN start_time[p] :
                  /\ times[i] = start_time[p][z]
                  /\ Len(times) - i = Len(start_time[p]) - z + Cardinality(PingsRead(p))
  BY AdviceRead
<1>4. start_time'[p] = times
  BY <1>3 DEF StartInv, TypeOK
<1> DEFINE n == Cardinality(Newer(p))
           k == Cardinality(Newer(p)')
           r == Cardinality(PingsRead(p))
           e == Len(times) - j
<1>5. /\ lost' \in Nat /\ lost \in Nat /\ k \in Nat /\ n \in Nat /\ r \in Nat /\ n <= k + r
      /\ e \in Nat
  <2>1. lost' \in Nat /\ lost \in Nat
    BY DEF StartInv, TypeOK
  <2>2. e \in Nat
    BY <1>4
  <2> QED BY <2>1, <2>2, NewerAfter, NewerFacts, NewerRead, AdviceRead
<1>6. Stale(p, j)' <=> Elapsed <= StaleBy + lost' + e + k + 1 - 1
  BY <1>1, <1>2, <1>4 DEF Stale, Elapsed
<1>7. StaleBy \in Nat /\ Elapsed \in Int /\ Elapsed = StartIn - game_start
  <2>1. MaxLost \in Nat /\ Longest + 1 \in Nat /\ AnsweredBy \in Nat /\ Longest \in Nat /\ StartIn \in Nat
    BY DeadlineFacts
  <2>2. MaxLost * (Longest + 1) \in Nat
    BY <2>1, Multiples
  <2>3. game_start \in Int
    BY DEF StartInv, TypeOK
  <2> QED BY <2>1, <2>2, <2>3 DEF CorrectedBy, StaleBy, Elapsed
<1>8. CASE \E x \in PingsRead(p) : times[j] = x.start
  <2>1. OnTime(times[j]) \/ Elapsed <= StaleBy
    BY <1>8, LateRead
  <2>2. OnTime(times[j]) => OnTime(start_time[p][j])'
    BY <1>1, <1>4 DEF OnTime
  <2>3. Elapsed <= StaleBy => Stale(p, j)'
    <3> HIDE DEF n, k, r, e
    <3> QED BY <1>5, <1>6, <1>7
  <2> QED BY <2>1, <2>2, <2>3
<1>9. ASSUME NEW z \in DOMAIN start_time[p], times[j] = start_time[p][z],
             e = Len(start_time[p]) - z + r
      PROVE  OnTime(start_time[p][j])' \/ Stale(p, j)'
  <2>1. OnTime(start_time[p][z]) \/ Stale(p, z)
    BY DEF StaleInTime
  <2>2. OnTime(start_time[p][z]) => OnTime(start_time[p][j])'
    BY <1>1, <1>4, <1>9 DEF OnTime
  <2> DEFINE d == Len(start_time[p]) - z
  <2>3. d \in Nat
    BY StaleNat
  <2>4. Stale(p, z) <=> Elapsed <= StaleBy + lost + d + n + 1 - 1
    BY <1>2 DEF Stale
  <2>5. Stale(p, z) => Stale(p, j)'
    <3>1. e = d + r
      BY <1>9
    <3> HIDE DEF n, k, r, e, d
    <3> QED BY <1>1, <1>5, <1>6, <1>7, <2>3, <2>4, <3>1
  <2> QED BY <2>1, <2>2, <2>5
<1> QED BY <1>3, <1>4, <1>8, <1>9

(* Another peer's turn: p's advice stays as it is, and pings on their way.  *)
LEMMA StaleKept ==
  ASSUME StartInv, StartInv', StaleInTime, phase[Master] = "handshake",
         NEW r \in Peer \ {Master}, turn = r, turn' = r + 1,
         NEW p \in Peer, start_time'[p] = start_time[p], game_start' = game_start, lost' >= lost,
         \A y \in net : y.packet.to = p => \E z \in net' : z.packet = y.packet,
         NEW i \in DOMAIN start_time'[p]
  PROVE  OnTime(start_time[p][i])' \/ Stale(p, i)'
<1>1. OnTime(start_time[p][i]) \/ Stale(p, i)
  BY DEF StaleInTime
<1>2. OnTime(start_time[p][i]) => OnTime(start_time[p][i])'
  BY DEF OnTime
<1> DEFINE n == Cardinality(Newer(p))
           k == Cardinality(Newer(p)')
           e == Len(start_time[p]) - i
<1>3. n \in Nat /\ k \in Nat /\ n <= k
  BY NewerStays, NewerAfter, NewerFacts
<1>4. e \in Nat /\ StaleBy \in Nat /\ Elapsed \in Int /\ lost \in Nat
  BY StaleNat
<1>5. PICK more \in Nat : more = lost'
  BY DEF StartInv, TypeOK
<1>6. more >= lost
  BY <1>5
<1>7. Turned(Master) = 1 /\ Turned(Master)' = 1
  BY DEF Turned, Peer, Master
<1>8. /\ Stale(p, i) <=> Elapsed <= StaleBy + lost + e + n + 1 - 1
      /\ Stale(p, i)' <=> Elapsed <= StaleBy + more + e + k + 1 - 1
  BY <1>5, <1>7 DEF Stale, Elapsed
<1>9. Stale(p, i) => Stale(p, i)'
  <2> HIDE DEF n, k, e
  <2>1. Elapsed <= StaleBy + lost + e + n + 1 - 1 => Elapsed <= StaleBy + more + e + k + 1 - 1
    BY <1>3, <1>4, <1>6
  <2> QED BY <1>8, <2>1
<1> QED BY <1>1, <1>2, <1>9

LEMMA StaleInTimeStep ==
  ASSUME StartInv, StartInv', ConfirmInv, PingsCorrected, PingsDiffer, StaleInTime, Next
  PROVE  StaleInTime'
<1> SUFFICES ASSUME phase'[Master] = "handshake", NEW p \in Peer, NEW i \in DOMAIN start_time'[p]
             PROVE  OnTime(start_time[p][i])' \/ Stale(p, i)'
  BY DEF StaleInTime
<1>1. Master \in Peer
  BY PeerFacts
<1>2. CASE phase[Master] # "handshake"
  <2>1. ConfirmationRound(Master) /\ ~Begun
    BY <1>2, Beginning
  <2>2. start_time'[p] = << >>
    BY <2>1 DEF ConfirmationRound, StartInv, NothingBegun
  <2> QED BY <2>2
<1>3. CASE phase[Master] = "handshake"
  <2>1. Begun /\ \A r \in Peer : phase[r] # "launching"
    BY <1>3 DEF Begun, StartInv, HeardLaunched
  <2>2. ~MasterStarts
    BY <1>1 DEF MasterStarts, StartInv, TypeOK
  <2>3. CASE Tick
    BY <1>3, <2>3, StaleTick
  <2>4. CASE MasterRound
    BY <2>4, StaleMaster
  <2>5. ASSUME NEW r \in Peer, ConfirmationRound(r)
        PROVE  OnTime(start_time[p][i])' \/ Stale(p, i)'
    <3>1. start_time' = start_time /\ phase[r] = "confirming" /\ r # Master
      BY <1>3, <2>5 DEF ConfirmationRound
    <3>2. turn = r /\ turn' = r + 1 /\ game_start' = game_start /\ lost' >= lost
      BY <2>5, ConfirmationTurn DEF TurnOf
    <3>3. \A y \in net : y.packet.to # r => y \in net'
      BY <2>5, ConfirmationTurn DEF TurnOf
    <3>4. p # r
      BY <3>1, StaleNat
    <3> QED BY <1>3, <3>1, <3>2, <3>3, <3>4, StaleKept
  <2>6. ASSUME NEW r \in Peer, SlaveRound(r), r # p
        PROVE  OnTime(start_time[p][i])' \/ Stale(p, i)'
    <3>1. turn = r /\ turn' = r + 1 /\ game_start' = game_start /\ lost' >= lost /\ r # Master
      BY <2>6, SlaveTurn DEF TurnOf, SlaveRound
    <3>2. \A y \in net : y.packet.to # r => y \in net'
      BY <2>6, SlaveTurn DEF TurnOf
    <3>3. PICK s : start_time' = [start_time EXCEPT ![r] = s]
      BY <2>6, AdviceRead
    <3>4. start_time'[p] = start_time[p]
      BY <2>6, <3>3 DEF StartInv, TypeOK
    <3> QED BY <1>3, <2>6, <3>1, <3>2, <3>4, StaleKept
  <2>7. ASSUME NEW r \in Peer, Idle(r)
        PROVE  OnTime(start_time[p][i])' \/ Stale(p, i)'
    <3>1. /\ start_time' = start_time /\ game_start' = game_start /\ lost' = lost
          /\ turn = r /\ turn' = r + 1 /\ r # Master /\ phase[r] # "handshake"
      BY <1>3, <2>7 DEF Idle, EndTurn, masterVars
    <3>2. p # r
      BY <3>1, StaleNat
    <3>3. \A y \in net : y.packet.to # r => y \in net'
      BY <2>7 DEF Idle
    <3>4. lost' >= lost
      BY <3>1 DEF StartInv, TypeOK
    <3> QED BY <1>3, <3>1, <3>2, <3>3, <3>4, StaleKept
  <2>8. \A r \in Peer : ~Launch(r)
    BY <2>1 DEF Launch
  <2>9. ASSUME NEW r \in Peer, SlaveRound(r)
        PROVE  OnTime(start_time[p][i])' \/ Stale(p, i)'
    BY <1>3, <2>6, <2>9, StaleRead
  <2> QED BY <2>2, <2>3, <2>4, <2>5, <2>7, <2>8, <2>9 DEF Next, Run
<1> QED BY <1>2, <1>3

(* When slot 0 plays, what is not on time has been pushed out: of the pings *)
(* it has sent since, few are lost or still on their way.                   *)
LEMMA StaleOver ==
  ASSUME FewLossesForTime, StartInv, MasterStarts, NEW p \in Peer, NEW i \in DOMAIN start_time[p]
  PROVE  ~Stale(p, i)
<1>1. game_start = 0 /\ turn = Master /\ phase[Master] = "handshake"
  <2>1. game_start \in Int /\ game_start <= 0 /\ phase[Master] = "handshake" /\ turn = Master
    BY DEF MasterStarts, StartInv, TypeOK, EndTurn
  <2>2. game_start >= 0
    BY <2>1 DEF StartInv, MasterInTime
  <2> QED BY <2>1, <2>2
<1>2. Turned(Master) = 0
  BY <1>1 DEF Turned, Master
<1> DEFINE n == Cardinality(Newer(p))
           e == Len(start_time[p]) - i
<1>3. /\ n \in Nat /\ n <= Longest + 1 /\ e \in Nat /\ e <= 4 /\ lost \in Nat /\ lost <= MaxLost
      /\ StaleBy \in Nat /\ StartIn \in Nat /\ MaxLost \in Nat /\ Longest \in Nat
      /\ Elapsed = StartIn - game_start
  <2>1. e \in Nat /\ e <= 4
    <3> DEFINE l == Len(start_time[p])
    <3>1. l \in Nat /\ l <= 5 /\ i \in 1 .. l
      BY StaleNat
    <3> HIDE DEF l
    <3>2. l - i \in Nat /\ l - i <= 4
      BY <3>1
    <3> QED BY <3>2 DEF l
  <2>2. n \in Nat /\ n <= Longest + 1
    BY NewerFacts
  <2>3. /\ lost \in Nat /\ lost <= MaxLost
        /\ StaleBy \in Nat /\ StartIn \in Nat /\ MaxLost \in Nat /\ Elapsed = StartIn - game_start
    BY StaleNat
  <2>4. Longest \in Nat
    BY DeadlineFacts
  <2> QED BY <2>1, <2>2, <2>3, <2>4
<1>4. StaleBy + MaxLost + Longest + 6 < StartIn
  BY DEF FewLossesForTime
<1>5. Stale(p, i) <=> Elapsed <= StaleBy + lost + e + n + 1 - 0
  BY <1>2 DEF Stale
<1> HIDE DEF n, e
<1>6. Elapsed = StartIn
  BY <1>1, <1>3
<1>7. ~(StartIn <= StaleBy + lost + e + n + 1 - 0)
  BY <1>3, <1>4
<1> QED BY <1>5, <1>6, <1>7

(* A peer that waits on has advice that is over later than now.             *)
LEMMA WaitsOn ==
  ASSUME StartInv, StartInv', NEW p \in Peer, SlaveRound(p), game_start <= 0,
         \A i \in DOMAIN start_time'[p] : OnTime(start_time'[p][i]), start_time'[p] # << >>
  PROVE  -Spread < game_start
<1>1. PICK times \in Seq(Int) :
        start_time' = [start_time EXCEPT ![p] = IF TimeToStart(times) THEN << >> ELSE times]
  BY AdviceRead
<1>2. start_time'[p] = IF TimeToStart(times) THEN << >> ELSE times
  BY <1>1 DEF StartInv, TypeOK
<1>3. start_time'[p] = times /\ ~TimeToStart(times) /\ times # << >>
  BY <1>2
<1> DEFINE a == game_start - Spread
           b == IF 0 >= game_start + Spread THEN 0 ELSE game_start + Spread
<1>4. game_start \in Int /\ Spread \in Nat /\ game_start' = game_start
  BY DeadlineFacts DEF StartInv, TypeOK, SlaveRound, masterVars
<1>5. \A i \in DOMAIN times : times[i] \in a .. b
  <2> SUFFICES ASSUME NEW i \in DOMAIN times PROVE times[i] \in a .. b
    OBVIOUS
  <2>1. times[i] \in Int /\ (times[i] <= 0 \/ times[i] <= game_start + Spread)
    BY <1>3 DEF OnTime
  <2>2. times[i] \in game_start' + Min(Latency) - Max(Latency) .. game_start' + Max(Latency)
    BY <1>3 DEF StartInv, AdviceInTime
  <2>3. /\ Min(Latency) \in Nat /\ Max(Latency) \in Nat /\ Spread = Max(Latency) - Min(Latency)
    BY LatencyFacts DEF Spread
  <2>4. times[i] >= game_start - Spread
    BY <1>4, <2>2, <2>3
  <2> QED BY <1>4, <2>1, <2>4
<1>6. a \in Int /\ b \in Int
  BY <1>4
<1>7. b >= 1
  <2> HIDE DEF a, b
  <2> QED BY <1>3, <1>5, <1>6, TimeToStartFacts
<1> QED BY <1>4, <1>7

(* What a peer reads when slot 0 plays has been sent late enough.           *)
LEMMA ReadOnTime ==
  ASSUME FewLossesForTime, StartInv, StartInv', PingsCorrected, AdviceOnTime,
         phase[Master] = "started", NEW p \in Peer, SlaveRound(p), NEW j \in DOMAIN start_time'[p]
  PROVE  OnTime(start_time'[p][j])
<1>1. PICK times \in Seq(Int) :
        /\ start_time' = [start_time EXCEPT ![p] = IF TimeToStart(times) THEN << >> ELSE times]
        /\ \A i \in DOMAIN times :
             \/ \E x \in PingsRead(p) : times[i] = x.start
             \/ \E z \in DOMAIN start_time[p] :
                  /\ times[i] = start_time[p][z]
                  /\ Len(times) - i = Len(start_time[p]) - z + Cardinality(PingsRead(p))
  BY AdviceRead
<1>2. start_time'[p] = IF TimeToStart(times) THEN << >> ELSE times
  BY <1>1 DEF StartInv, TypeOK
<1>3. j \in DOMAIN times /\ start_time'[p][j] = times[j]
  BY <1>2
<1>4. ASSUME NEW z \in DOMAIN start_time[p] PROVE OnTime(start_time[p][z])
  BY DEF AdviceOnTime
<1>5. ASSUME NEW x \in PingsRead(p) PROVE OnTime(x.start)
  <2>1. ~(Elapsed <= StaleBy)
    <3>1. game_start \in Int /\ game_start <= 0
      BY DEF AdviceOnTime, StartInv, TypeOK
    <3>2. /\ Longest \in Nat /\ StartIn \in Nat /\ MaxLost \in Nat /\ AnsweredBy \in Nat
          /\ Longest + 1 \in Nat
      BY DeadlineFacts
    <3>3. MaxLost * (Longest + 1) \in Nat
      BY <3>2, Multiples
    <3>4. StaleBy \in Nat
      BY <3>2, <3>3 DEF StaleBy, CorrectedBy
    <3>5. StaleBy < StartIn
      BY <3>2, <3>4 DEF FewLossesForTime
    <3>6. Elapsed = StartIn - game_start
      BY DEF Elapsed
    <3> QED BY <3>1, <3>2, <3>4, <3>5, <3>6
  <2> QED BY <2>1, LateRead
<1> QED BY <1>1, <1>3, <1>4, <1>5

LEMMA AdviceOnTimeStep ==
  ASSUME FewLossesForTime, StartInv, StartInv', ConfirmInv, PingsCorrected, StaleInTime,
         AdviceOnTime, Next
  PROVE  AdviceOnTime'
<1> SUFFICES ASSUME phase'[Master] = "started"
             PROVE  /\ game_start' <= 0
                    /\ \A p \in Peer :
                         /\ \A i \in DOMAIN start_time'[p] : OnTime(start_time[p][i])'
                         /\ start_time'[p] # << >> => /\ -Spread <= game_start'
                                                      /\ turn' > p => -Spread < game_start'
  BY DEF AdviceOnTime
<1>1. Master \in Peer /\ game_start \in Int /\ Spread \in Nat
  BY PeerFacts, DeadlineFacts DEF StartInv, TypeOK
<1>2. ASSUME NEW p \in Peer, start_time[p] # << >>
      PROVE  phase[p] = "handshake" /\ p # Master /\ p > Master
  <2>1. phase[p] = "handshake" /\ p # Master
    BY <1>2 DEF StartInv, AdviceInTime
  <2> QED BY <2>1 DEF Peer, Master
<1>3. CASE phase[Master] # "started"
  <2>1. MasterStarts
    BY <1>1, <1>3, PhaseStep DEF SlaveRound
  <2>2. /\ game_start <= 0 /\ game_start' = game_start /\ start_time' = start_time
        /\ turn' = Master + 1 /\ phase[Master] = "handshake" /\ turn = Master
    BY <2>1 DEF MasterStarts, EndTurn
  <2>3. game_start >= 0
    BY <2>2 DEF StartInv, MasterInTime
  <2>4. ASSUME NEW p \in Peer
        PROVE  /\ \A i \in DOMAIN start_time'[p] : OnTime(start_time[p][i])'
               /\ start_time'[p] # << >> => -Spread <= game_start' /\ ~(turn' > p)
    <3>1. ASSUME NEW i \in DOMAIN start_time'[p] PROVE OnTime(start_time[p][i])'
      <4>1. i \in DOMAIN start_time[p]
        BY <2>2
      <4>2. OnTime(start_time[p][i])
        BY <2>1, <2>2, <4>1, StaleOver DEF StaleInTime
      <4> QED BY <2>2, <4>2 DEF OnTime
    <3>2. start_time'[p] # << >> => -Spread <= game_start'
      BY <1>1, <2>2, <2>3
    <3>3. start_time'[p] # << >> => ~(turn' > p)
      BY <1>2, <2>2 DEF Peer, Master
    <3> QED BY <3>1, <3>2, <3>3
  <2> QED BY <2>2, <2>4
<1>4. CASE phase[Master] = "started"
  <2>1. game_start <= 0 /\ Begun
    BY <1>4 DEF AdviceOnTime, Begun
  <2>2. CASE Tick
    <3>1. /\ turn = NPlayers /\ turn' = Master
          /\ game_start >= -Max(Latency) => game_start' = game_start - 1
      BY <2>1, <2>2, StartTick
    <3>2. game_start' <= 0
      <4>1. Overdue \in Int /\ Overdue < 0
        BY LatencyFacts
      <4>2. game_start' = IF Overdue >= game_start - 1 THEN Overdue ELSE game_start - 1
        BY <2>1, <2>2, StartsTick DEF StartInv
      <4> QED BY <1>1, <2>1, <4>1, <4>2
    <3>3. ASSUME NEW p \in Peer, start_time'[p] # << >>
          PROVE  /\ \A i \in DOMAIN start_time'[p] : OnTime(start_time[p][i])'
                 /\ -Spread <= game_start' /\ ~(turn' > p)
      <4>1. start_time[p] # << >>
        BY <2>2, <3>3 DEF Tick
      <4>2. turn > p /\ ~(turn' > p)
        BY <3>1, SyncAssumption DEF Peer, Master
      <4>3. -Spread < game_start
        BY <1>4, <4>1, <4>2 DEF AdviceOnTime
      <4>4. game_start >= -Max(Latency)
        BY <1>1, <4>3, LatencyFacts DEF Spread
      <4>5. -Spread <= game_start'
        BY <1>1, <3>1, <4>3, <4>4
      <4>6. ASSUME NEW i \in DOMAIN start_time'[p] PROVE OnTime(start_time[p][i])'
        <5>1. i \in DOMAIN start_time[p] /\ (OnTime(start_time[p][i]) => OnTime(start_time[p][i])')
          BY <2>2, <4>4, OnTimeTick
        <5> QED BY <1>4, <5>1 DEF AdviceOnTime
      <4> QED BY <4>2, <4>5, <4>6
    <3> QED BY <3>2, <3>3
  <2>3. ASSUME NEW r \in Peer, turn = r, turn' = r + 1, game_start' = game_start,
               NEW p \in Peer, p # r, start_time'[p] = start_time[p]
        PROVE  /\ \A i \in DOMAIN start_time'[p] : OnTime(start_time[p][i])'
               /\ start_time'[p] # << >> => /\ -Spread <= game_start'
                                            /\ turn' > p => -Spread < game_start'
    <3>1. turn' > p => turn > p
      BY <2>3 DEF Peer
    <3>2. ASSUME NEW i \in DOMAIN start_time'[p] PROVE OnTime(start_time[p][i])'
      BY <1>4, <2>3 DEF AdviceOnTime, OnTime
    <3> QED BY <1>4, <2>3, <3>1, <3>2 DEF AdviceOnTime
  <2>4. ASSUME NEW r \in Peer, SlaveRound(r), NEW p \in Peer
        PROVE  /\ \A i \in DOMAIN start_time'[p] : OnTime(start_time[p][i])'
               /\ start_time'[p] # << >> => /\ -Spread <= game_start'
                                            /\ turn' > p => -Spread < game_start'
    <3>1. turn = r /\ turn' = r + 1 /\ game_start' = game_start
      BY <2>4, SlaveTurn DEF TurnOf
    <3>2. CASE p # r
      <4>1. PICK s : start_time' = [start_time EXCEPT ![r] = s]
        BY <2>4, AdviceRead
      <4>2. start_time'[p] = start_time[p]
        BY <3>2, <4>1 DEF StartInv, TypeOK
      <4> QED BY <2>3, <3>1, <3>2, <4>2
    <3>3. CASE p = r
      <4>1. \A i \in DOMAIN start_time'[p] : OnTime(start_time'[p][i])
        BY <1>4, <2>4, <3>3, ReadOnTime
      <4>2. ASSUME NEW i \in DOMAIN start_time'[p] PROVE OnTime(start_time[p][i])'
        BY <3>1, <4>1 DEF OnTime
      <4>3. start_time'[p] # << >> => -Spread < game_start
        BY <2>1, <2>4, <3>3, <4>1, WaitsOn
      <4> QED BY <1>1, <3>1, <4>2, <4>3
    <3> QED BY <3>2, <3>3
  <2>5. ASSUME NEW r \in Peer, Launch(r) \/ ConfirmationRound(r) \/ Idle(r), NEW p \in Peer
        PROVE  /\ \A i \in DOMAIN start_time'[p] : OnTime(start_time[p][i])'
               /\ start_time'[p] # << >> => /\ -Spread <= game_start'
                                            /\ turn' > p => -Spread < game_start'
    <3>1. /\ turn = r /\ turn' = r + 1 /\ game_start' = game_start /\ start_time' = start_time
          /\ phase[r] # "handshake"
      BY <2>5 DEF Launch, ConfirmationRound, Idle, EndTurn, masterVars
    <3>2. CASE p # r
      BY <2>3, <3>1, <3>2
    <3>3. CASE p = r
      <4>1. start_time'[p] = << >>
        BY <1>2, <3>1, <3>3
      <4> QED BY <4>1
    <3> QED BY <3>2, <3>3
  <2>6. ASSUME NEW r \in Peer, Launch(r) \/ ConfirmationRound(r) \/ Idle(r) \/ SlaveRound(r)
        PROVE  game_start' <= 0
    BY <2>1, <2>6 DEF Launch, ConfirmationRound, Idle, SlaveRound, masterVars
  <2>7. ~MasterRound /\ ~MasterStarts
    BY <1>4 DEF MasterRound, MasterStarts
  <2>8. CASE \E r \in Peer : Launch(r) \/ Run(r)
    BY <2>4, <2>5, <2>6, <2>8 DEF Run
  <2> QED BY <2>2, <2>7, <2>8 DEF Next
<1> QED BY <1>3, <1>4

LEMMA OnTimeStutters ==
  ASSUME OnTimeInv, UNCHANGED vars, DelayInv'
  PROVE  OnTimeInv'
<1>1. UNCHANGED <<phase, m, confirmed_players, confirmation_point, cycle_delay, game_start,
                  announced, player_nresponses, player_latency, start_time, net, lost, turn>>
  BY DEF vars, loopVars, masterVars
<1>2. EchoesMeasured' /\ PingsCorrected' /\ PingsDiffer'
  BY <1>1 DEF OnTimeInv, EchoesMeasured, PingsCorrected, PingOnTime, PingsDiffer
<1>3. StaleInTime'
  BY <1>1 DEF OnTimeInv, StaleInTime, OnTime, Stale, Newer, Turned, Elapsed
<1>4. AdviceOnTime'
  BY <1>1 DEF OnTimeInv, AdviceOnTime, OnTime
<1> QED BY <1>2, <1>3, <1>4 DEF OnTimeInv

(* Late advice is pushed out before slot 0 plays.                           *)
THEOREM OnTimeInvariant == FewLossesForTime => (Spec => []OnTimeInv)
<1> SUFFICES ASSUME FewLossesForTime PROVE Spec => []OnTimeInv
  OBVIOUS
<1>1. Spec => []DelayInv
  BY DelayInvariant DEF FewLossesForTime
<1>2. Init => EchoesMeasured /\ PingsCorrected /\ PingsDiffer /\ StaleInTime /\ AdviceOnTime
  <2> SUFFICES ASSUME Init
               PROVE  EchoesMeasured /\ PingsCorrected /\ PingsDiffer /\ StaleInTime /\ AdviceOnTime
    OBVIOUS
  <2>1. phase[Master] = "launching" /\ net = {}
    BY PeerFacts DEF Init
  <2>2. \A q \in Peer : 2 * Min(Latency) * player_nresponses[q] <= player_latency[q]
    <3>1. Min(Latency) \in Nat /\ \A q \in Peer : player_nresponses[q] = 0 /\ player_latency[q] = 0
      BY LatencyFacts DEF Init
    <3> QED BY <3>1
  <2> QED BY <2>1, <2>2 DEF EchoesMeasured, PingsCorrected, PingsDiffer, StaleInTime, AdviceOnTime
<1>3. ASSUME OnTimeInv, [Next]_vars, DelayInv' PROVE OnTimeInv'
  <2>1. CASE Next
    <3>1. StartInv /\ ConfirmInv /\ AnsweredInTime /\ StartInv'
      BY <1>3 DEF OnTimeInv, DelayInv
    <3>2. EchoesMeasured' /\ PingsCorrected' /\ PingsDiffer'
      BY <1>3, <2>1, <3>1, EchoesMeasuredStep, PingsCorrectedStep, PingsDifferStep DEF OnTimeInv
    <3>3. StaleInTime' /\ AdviceOnTime'
      BY <1>3, <2>1, <3>1, StaleInTimeStep, AdviceOnTimeStep DEF OnTimeInv
    <3> QED BY <1>3, <3>2, <3>3 DEF OnTimeInv
  <2>2. CASE UNCHANGED vars
    BY <1>3, <2>2, OnTimeStutters
  <2> QED BY <1>3, <2>1, <2>2
<1>4. OnTimeInv <=> DelayInv /\ EchoesMeasured /\ PingsCorrected /\ PingsDiffer /\ StaleInTime
                    /\ AdviceOnTime
  BY DEF OnTimeInv
<1> QED BY <1>1, <1>2, <1>3, <1>4, PTL DEF Spec

(* No peer that has read advice waits for longer than latencies vary once   *)
(* slot 0 plays: few packets are lost, so that five pings corrected by half *)
(* the round trip (lines 398-406) have replaced the advice that was not,    *)
(* of which a peer keeps and averages the last five (lines 467-487).        *)
THEOREM PeersStartOnTime == FewLossesForTime => (Spec => []StartsOnTime)
<1> SUFFICES ASSUME FewLossesForTime PROVE Spec => []StartsOnTime
  OBVIOUS
<1>1. OnTimeInv => StartsOnTime
  <2> SUFFICES ASSUME OnTimeInv, NEW p \in Peer, start_time[p] # << >>, phase[Master] = "started"
               PROVE  game_start >= Min(Latency) - Max(Latency)
    BY DEF StartsOnTime
  <2>1. -Spread <= game_start
    BY DEF OnTimeInv, AdviceOnTime
  <2>2. game_start \in Int /\ Min(Latency) \in Nat /\ Max(Latency) \in Nat
    BY LatencyFacts DEF OnTimeInv, DelayInv, StartInv, TypeOK
  <2> QED BY <2>1, <2>2 DEF Spread
<1> QED BY <1>1, OnTimeInvariant, PTL

=============================================================================
