------------------------------ MODULE Lockstep ------------------------------
(***************************************************************************)
(* The networked game loop of the engine: src/src/controls.cpp together    *)
(* with multiplayer::send_and_receive, multiplayer::receive, level::process*)
(* and the head of level_runner::play_cycle.                               *)
(*                                                                         *)
(* Every peer simulates the whole game from the inputs of all players.  In *)
(* each cycle it samples its own input, sends its recent inputs to every   *)
(* other peer over UDP, and reads one input per player, Delay cycles old.  *)
(* Inputs of others that have not arrived are predicted by repeating the   *)
(* last known one; packets correct the prediction later.                   *)
(*                                                                         *)
(* A C++ vector indexed from 0 is a sequence indexed from 1: cycle c of a  *)
(* vector is position c + 1.                                               *)
(***************************************************************************)
EXTENDS Integers, Sequences, FiniteSets, FiniteSetsExt

CONSTANTS
  Player,      \* the occupied slots, 0 .. nplayers-1 in the code
  Input,       \* what one cycle of keyboard and joystick state can be
  NoInput,     \* the state 0: nothing pressed
  Delay,       \* Delay[s]: what controls::set_delay received on peer s
  MaxCycle,    \* bound: cycles each peer plays
  MaxLost      \* bound: packets the network loses

ASSUME PlayerAssumption == IsFiniteSet(Player) /\ \E s, t \in Player : s # t
ASSUME InputAssumption == NoInput \in Input
ASSUME DelayAssumption == Delay \in [Player -> Nat]
ASSUME BoundAssumption == MaxCycle \in Nat \ {0} /\ MaxLost \in Nat

VARIABLES
  controls,                  \* controls[s][p]: peer s's vector of p's inputs
  highest_confirmed,         \* [s][p]; for p # s a cycle, for p = s a count
  remote_highest_confirmed,  \* [s][p]: cycle of s's input that p reported
  first_invalid_cycle,       \* [s]: earliest corrected cycle, or -1
  unread,                    \* [s]: players whose input this cycle still reads
  aborted,                   \* [s]: multiplayer::error was thrown
  played,                    \* history: [s][p] inputs the simulation used
  sent,                      \* every control packet sent so far
  lost                       \* the <<peer, packet>> pairs that never arrive

vars == <<controls, highest_confirmed, remote_highest_confirmed,
          first_invalid_cycle, unread, aborted, played, sent, lost>>

Others(s) == Player \ {s}

Packet == [slot : Player, current_cycle : Nat, highest_cycle : Nat,
           inputs : Seq(Input)]

\* start_cycle of read_control_packet: the cycle of a packet's first input.
StartOf(m) == 1 + m.current_cycle - Len(m.inputs)

-----------------------------------------------------------------------------

\* Some operators come with a mistaken variant just before them (a bound off
\* by one, the wrong extremum, a missing limit).  The variants are not part of
\* the model: they show that the properties below notice such a mistake.

(* controls::new_level on every peer, before the first cycle.              *)
Init ==
  /\ controls = [s \in Player |-> [p \in Player |-> <<>>]]
  /\ highest_confirmed = [s \in Player |-> [p \in Player |-> 0]]
  /\ remote_highest_confirmed = [s \in Player |-> [p \in Player |-> 0]]
  /\ first_invalid_cycle = [s \in Player |-> -1]
  /\ unread = [s \in Player |-> {}]
  /\ aborted = [s \in Player |-> FALSE]
  /\ played = [s \in Player |-> [p \in Player |-> <<>>]]
  /\ sent = {}
  /\ lost = {}

\* The level cycle a peer is in, counted from starting_cycles.
CycleOf(s) == Len(controls[s][s])

\* The index get_control_status computes from the level cycle of peer s.
ReadIndex(s) == CycleOf(s) - 1 - Delay[s]

\* read_local_controls: another player's vector is padded to n entries.
Padded(v, n) ==
  IF Len(v) >= n THEN v
  ELSE [i \in 1..n |-> IF i <= Len(v) THEN v[i]
                       ELSE IF v = <<>> THEN NoInput ELSE v[Len(v)]]

\* their_highest_confirmed: every other peer has our inputs up to here.
TheirHighestConfirmed(s) ==
  Min({remote_highest_confirmed[s][p] : p \in Others(s)})

\* our_highest_confirmed, for a row of highest_confirmed.
OurHighestConfirmedBelow(hc) == Min({hc[p] : p \in Player}) - 1
OurHighestConfirmed(hc) == Min({hc[p] : p \in Player})

\* ncycles_to_write for the local vector v, ending with its last cycle.  The
\* comparison is with a size_t: a negative count compares as a huge one.
CyclesToWriteExclusive(s, v) == Len(v) - 1 - TheirHighestConfirmed(s)
CyclesToWrite(s, v) ==
  LET want == Len(v) - TheirHighestConfirmed(s)
  IN IF want \in 0..Len(v) THEN want ELSE Len(v)

\* write_control_packet on peer s with local inputs v and confirmed row hc.
ControlPacket(s, v, hc) ==
  LET n == CyclesToWrite(s, v)
  IN [slot |-> s,
      current_cycle |-> Len(v) - 1,
      highest_cycle |-> OurHighestConfirmed(hc),
      inputs |-> [i \in 1..n |-> v[Len(v) - n + i]]]

(* play_cycle clears first_invalid_cycle (replay_from_cycle does nothing), *)
(* level::process reads the local input, pads the other players' vectors   *)
(* and sends one packet to all peers, then do_processing starts the cycle. *)
StartCycle(s) ==
  /\ ~aborted[s]
  /\ unread[s] = {}
  /\ CycleOf(s) < MaxCycle
  /\ \E input \in Input :
       LET own == Append(controls[s][s], input)
           row == [p \in Player |-> IF p = s THEN own
                                    ELSE Padded(controls[s][p], Len(own))]
           hc == [highest_confirmed[s] EXCEPT ![s] = @ + 1]
       IN /\ controls' = [controls EXCEPT ![s] = row]
          /\ highest_confirmed' = [highest_confirmed EXCEPT ![s] = hc]
          /\ sent' = sent \union {ControlPacket(s, own, hc)}
  /\ first_invalid_cycle' = [first_invalid_cycle EXCEPT ![s] = -1]
  /\ unread' = [unread EXCEPT ![s] = Player]
  /\ UNCHANGED <<remote_highest_confirmed, aborted, played, lost>>

-----------------------------------------------------------------------------

\* get_control_status must wait: p's input at the index is not confirmed.
WaitingLax(s, p) ==
  /\ ~aborted[s]
  /\ p \in unread[s] \ {s}
  /\ ReadIndex(s) > highest_confirmed[s][p] + 1
WaitingEager(s, p) ==
  /\ ~aborted[s]
  /\ p \in unread[s] \ {s}
  /\ ReadIndex(s) >= highest_confirmed[s][p]
Waiting(s, p) ==
  /\ ~aborted[s]
  /\ p \in unread[s] \ {s}
  /\ ReadIndex(s) > highest_confirmed[s][p]

\* multiplayer::receive runs right after the packet was sent, and again while
\* get_control_status waits.
Receiving(s) ==
  /\ ~aborted[s]
  /\ unread[s] = Player \/ \E p \in Player : Waiting(s, p)

\* The first cycle of packet m that read_control_packet writes, given the
\* receiver's highest confirmed cycle h of the sender.
FirstWrittenAfter(m, h) == IF StartOf(m) <= h THEN h + 1 ELSE StartOf(m)
FirstWritten(m, h) == IF StartOf(m) < h THEN h ELSE StartOf(m)

\* The receiver's vector v after read_control_packet stored packet m: cycles
\* up to current_cycle from the packet (a gap is filled with the first input
\* stored), later cycles repeat the last one.
Corrected(v, m, h) ==
  LET first == FirstWritten(m, h)
      at(c) == m.inputs[1 + c - StartOf(m)]
      size == IF Len(v) > m.current_cycle THEN Len(v) ELSE m.current_cycle + 1
  IN [i \in 1..size |->
        IF i - 1 < first
        THEN IF i <= Len(v) THEN v[i] ELSE at(first)
        ELSE IF i - 1 <= m.current_cycle THEN at(i - 1) ELSE at(m.current_cycle)]

\* The cycles at which packet m contradicts what was stored in v.
Corrections(v, m, h) ==
  {c \in FirstWritten(m, h)..m.current_cycle :
     c < Len(v) /\ v[c + 1] # m.inputs[1 + c - StartOf(m)]}

(* read_control_packet on peer s, for a packet that is not discarded as    *)
(* out of order.  The packet stays in sent: UDP may deliver it again.      *)
ReadControlPacket(s, m) ==
  LET p == m.slot
      h == highest_confirmed[s][p]
      wrong == Corrections(controls[s][p], m, h)
      invalid == first_invalid_cycle[s]
  IN /\ Receiving(s)
     /\ p # s
     /\ <<s, m>> \notin lost
     /\ m.current_cycle >= h
     /\ controls' = [controls EXCEPT ![s][p] = Corrected(@, m, h)]
     /\ highest_confirmed' =
          [highest_confirmed EXCEPT ![s][p] = m.current_cycle]
     /\ remote_highest_confirmed' =
          [remote_highest_confirmed EXCEPT
             ![s][p] = IF m.highest_cycle > @ THEN m.highest_cycle ELSE @]
     /\ first_invalid_cycle' =
          [first_invalid_cycle EXCEPT
             ![s] = IF wrong = {} \/ (invalid # -1 /\ invalid <= Min(wrong))
                    THEN invalid ELSE Min(wrong)]
     /\ UNCHANGED <<unread, aborted, played, sent, lost>>

(* get_control_status for player p's object in peer s's current cycle.     *)
(* Before Delay cycles have passed it returns without writing its output,  *)
(* which player_info::read_controls then uses uninitialised: any value.    *)
GetControlStatus(s, p) ==
  /\ ~aborted[s]
  /\ p \in unread[s]
  /\ ~Waiting(s, p)
  /\ \E used \in Input :
       /\ ReadIndex(s) >= 0 => used = controls[s][p][ReadIndex(s) + 1]
       /\ played' = [played EXCEPT ![s][p] = Append(@, used)]
  /\ unread' = [unread EXCEPT ![s] = @ \ {p}]
  /\ UNCHANGED <<controls, highest_confirmed, remote_highest_confirmed,
                 first_invalid_cycle, aborted, sent, lost>>

(* get_control_status gives up after max_delay and throws; the peer leaves *)
(* the game.                                                               *)
RemoteHostNeverTimesOut(s) == FALSE
RemoteHostTimedOut(s) ==
  /\ \E p \in Player : Waiting(s, p)
  /\ aborted' = [aborted EXCEPT ![s] = TRUE]
  /\ UNCHANGED <<controls, highest_confirmed, remote_highest_confirmed,
                 first_invalid_cycle, unread, played, sent, lost>>

\* The network loses the packet m on its way to peer s.
Lose(s, m) ==
  /\ m.slot # s
  /\ Cardinality(lost) < MaxLost
  /\ lost' = lost \union {<<s, m>>}
  /\ UNCHANGED <<controls, highest_confirmed, remote_highest_confirmed,
                 first_invalid_cycle, unread, aborted, played, sent>>

-----------------------------------------------------------------------------

Next ==
  \/ \E s \in Player : StartCycle(s)
  \/ \E s \in Player : \E m \in sent : ReadControlPacket(s, m)
  \/ \E s, p \in Player : GetControlStatus(s, p)
  \/ \E s \in Player : RemoteHostTimedOut(s)
  \/ \E s \in Player : \E m \in sent : Lose(s, m)

Spec == Init /\ [][Next]_vars

\* The peer's own thread keeps running and its wait is bounded by end_time;
\* nothing is assumed of the network.
Fairness ==
  \A s \in Player :
    /\ WF_vars(StartCycle(s))
    /\ \A p \in Player : WF_vars(GetControlStatus(s, p))
    /\ WF_vars(RemoteHostTimedOut(s))

FairSpec == Spec /\ Fairness

-----------------------------------------------------------------------------
(* Refinement: seen from outside, the protocol is a shared input record.   *)

\* v without what it holds before position k.
From(v, k) == SubSeq(v, k, Len(v))

\* The first input is left out on both sides: cycle 0 may be simulated from
\* the prediction.  So are the values used before Delay cycles have passed.
SharedLog == [p \in Player |-> From(controls[p][p], 2)]
SharedSeen ==
  [s \in Player |-> [p \in Player |-> From(played[s][p], Delay[s] + 2)]]

Shared == INSTANCE SharedInput WITH log <- SharedLog, seen <- SharedSeen

\* The networked loop implements the shared record: every peer simulates every
\* player's true inputs, in order and without a gap, for the code of
\* get_control_status, read_control_packet and write_control_packet together.
ImplementsSharedInput == Shared!SharedSpec

-----------------------------------------------------------------------------
(* Properties.                                                             *)

\* Every variable keeps its shape; counters and vectors stay in their ranges.
TypeOK ==
  /\ controls \in [Player -> [Player -> Seq(Input)]]
  /\ highest_confirmed \in [Player -> [Player -> Nat]]
  /\ remote_highest_confirmed \in [Player -> [Player -> Nat]]
  /\ first_invalid_cycle \in [Player -> Nat \union {-1}]
  /\ unread \in [Player -> SUBSET Player]
  /\ aborted \in [Player -> BOOLEAN]
  /\ played \in [Player -> [Player -> Seq(Input)]]
  /\ sent \subseteq Packet
  /\ lost \subseteq Player \X Packet

\* What peer s holds for the cycles it calls confirmed is what p really did.
\* A highest_confirmed of 0 is also the initial value, when nothing is
\* confirmed, so it says nothing by itself (controls.cpp:48).
ConfirmedAgreement ==
  \A s, p \in Player :
    (s # p /\ highest_confirmed[s][p] > 0) =>
      \A c \in 0..highest_confirmed[s][p] :
        /\ c < Len(controls[s][p])
        /\ c < Len(controls[p][p])
        /\ controls[s][p][c + 1] = controls[p][p][c + 1]

\* Whatever was lost or reordered, a packet reaches back to the receiver's
\* highest confirmed cycle: none leaves a hole in the inputs, and the loop of
\* read_control_packet consumes exactly its ncycles bytes (the assertion at
\* controls.cpp:454).
PacketsReachBack ==
  \A m \in sent : \A s \in Others(m.slot) :
    /\ m.inputs # <<>>
    /\ StartOf(m) \in 0..highest_confirmed[s][m.slot]

\* Past the warm-up and the very first input, every input a simulation used is
\* the one its player gave: predictions never reach the game, and two peers
\* never simulate different inputs.
SimulatedTruth ==
  \A s, p \in Player :
    \A k \in Delay[s] + 2 .. Len(played[s][p]) :
      /\ k - Delay[s] <= Len(controls[p][p])
      /\ played[s][p][k] = controls[p][p][k - Delay[s]]

\* No packet rewrites an input the peer has already simulated, cycle 0 apart:
\* play_cycle may forget first_invalid_cycle for all later cycles.
SimulatedInputsAreFinal ==
  [][\A s, p \in Player :
       \A k \in Delay[s] + 2 .. Len(played[s][p]) :
         controls'[s][p][k - Delay[s]] = controls[s][p][k - Delay[s]]]_vars

\* No peer gets further ahead of another than its delay and the cycle it has
\* just started.
BoundedLead ==
  \A s, p \in Player :
    CycleOf(s) <= Delay[s] + 1 + (IF CycleOf(p) > 0 THEN CycleOf(p) ELSE 1)

\* Peer s waits for a player, and packet m brings new inputs of that player.
Helps(s, m) ==
  /\ Waiting(s, m.slot)
  /\ m.current_cycle > highest_confirmed[s][m.slot]
  /\ <<s, m>> \notin lost

Stuck ==
  /\ \A s \in Player : \E p \in Player : Waiting(s, p)
  /\ \A s \in Player : \A m \in sent : ~Helps(s, m)

\* Peers send nothing while they wait, so they can all end up waiting for each
\* other; with a delay of d this takes at least 2 * (d + 1) lost packets.
LossTolerance ==
  Stuck => Cardinality(lost) >= 2 * (1 + Min({Delay[s] : s \in Player}))

\* No peer waits forever: it plays to the end of the bounded run or aborts,
\* even if every packet is lost.
FinishesOrAborts ==
  \A s \in Player :
    <>(aborted[s] \/ (CycleOf(s) = MaxCycle /\ unread[s] = {}))

-----------------------------------------------------------------------------
(* The inductive invariant behind ConfirmedAgreement, PacketsReachBack,    *)
(* SimulatedTruth and BoundedLead.                                         *)

\* A peer's own entry of highest_confirmed is the size of its vector, and the
\* other players' vectors are at least as long.
VectorSizes ==
  \A s, p \in Player :
    /\ highest_confirmed[s][s] = Len(controls[s][s])
    /\ Len(controls[s][p]) >= Len(controls[s][s])

\* A packet carries its sender's true inputs, and acknowledges no more than
\* the sender has confirmed of any other player.
PacketsTrue ==
  \A m \in sent :
    /\ m.current_cycle < Len(controls[m.slot][m.slot])
    /\ \A i \in 1..Len(m.inputs) :
         m.inputs[i] = controls[m.slot][m.slot][StartOf(m) + i]
    /\ \A s \in Others(m.slot) : m.highest_cycle <= highest_confirmed[m.slot][s]

\* What a peer believes another has of its inputs, that one has.
AcksTrue ==
  \A s \in Player : \A p \in Others(s) :
    remote_highest_confirmed[s][p] <= highest_confirmed[p][s]

\* One input is simulated per player and cycle, and only a confirmed one.
SimulatedConfirmed ==
  \A s, p \in Player :
    /\ Len(played[s][p]) =
         IF p \in unread[s] THEN CycleOf(s) - 1 ELSE CycleOf(s)
    /\ p \in unread[s] => CycleOf(s) > 0
    /\ p # s => Len(played[s][p]) <= Delay[s] + 1 + highest_confirmed[s][p]

LockstepInv ==
  /\ ConfirmedAgreement
  /\ PacketsReachBack
  /\ SimulatedTruth
  /\ VectorSizes
  /\ PacketsTrue
  /\ AcksTrue
  /\ SimulatedConfirmed
=============================================================================
