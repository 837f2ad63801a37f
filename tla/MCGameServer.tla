---------------------------- MODULE MCGameServer ----------------------------
(* GameServer with all clients after one level of two players.             *)
EXTENDS GameServer

MCWants == [c \in Client |-> CHOOSE l \in Level : TRUE]
MCNPlayers == [l \in Level |-> 2]
=============================================================================
