---------------------------- MODULE SharedInput ----------------------------
(***************************************************************************)
(* What the networked game loop promises: the players' inputs form one     *)
(* shared, append-only record, and every peer simulates from that record   *)
(* in order.  How the inputs travel does not show.                         *)
(***************************************************************************)
EXTENDS Naturals, Sequences

CONSTANTS Player, Input

VARIABLES
  log,    \* log[p]: the inputs player p has given
  seen    \* seen[s][p]: the inputs of p that peer s has simulated

sharedVars == <<log, seen>>

SharedInit ==
  /\ log = [p \in Player |-> <<>>]
  /\ seen = [s \in Player |-> [p \in Player |-> <<>>]]

\* Player p gives the input of one more cycle.
Give(p) ==
  /\ \E input \in Input : log' = [log EXCEPT ![p] = Append(@, input)]
  /\ UNCHANGED seen

\* Peer s simulates the next input of player p.
Simulate(s, p) ==
  LET next == Len(seen[s][p]) + 1
  IN /\ next <= Len(log[p])
     /\ seen' = [seen EXCEPT ![s][p] = Append(@, log[p][next])]
     /\ UNCHANGED log

SharedNext ==
  \/ \E p \in Player : Give(p)
  \/ \E s, p \in Player : Simulate(s, p)

SharedSpec == SharedInit /\ [][SharedNext]_sharedVars
=============================================================================
