----------------------------- MODULE GameServer -----------------------------
(***************************************************************************)
(* The rendezvous server of networked games, src/src/server.cpp, and the   *)
(* part of its clients that talks to it (multiplayer::setup_networked_game *)
(* and the head of multiplayer::sync_start_time).                          *)
(*                                                                         *)
(* Clients connect over TCP, name the level they want to play and send UDP *)
(* packets until the server, having seen a UDP packet of every player of   *)
(* a full game, writes START to all of them.  The server runs one handler  *)
(* at a time; a handler is one action.  A client that plays again connects *)
(* anew: it is another member of Client.  The players of a game are a bag: *)
(* their order only shows in the text of START.                            *)
(***************************************************************************)
EXTENDS Integers, Sequences, FiniteSets, Bags, BagsExt

CONSTANTS
  Client,      \* the sockets the server ever accepts
  Level,       \* level ids
  Wants,       \* Wants[c]: the level client c loaded
  NPlayers     \* NPlayers[l]: lvl.players().size()

ASSUME ClientAssumption == IsFiniteSet(Client) /\ Wants \in [Client -> Level]
ASSUME LevelAssumption == NPlayers \in [Level -> Nat \ {0}]

VARIABLES
  phase,         \* [c]: how far the client's program is
  left,          \* clients whose process or connection is gone
  stream,        \* [c]: TCP messages of the client the server has not read
  client_id,     \* [c]: the id the client was told
  next_id,
  sockets_info,  \* socket -> its id, whether udp_endpoint is set, its game
  id_to_socket,
  games,         \* [l]: the game that gathers players for level l, 0 for none
  game_info,     \* the GameInfo objects, in the order of their creation
  receives,      \* sockets with an async_read_some in progress
  sends,         \* [c]: async_writes whose handler has not run
  closed,        \* sockets the server closed
  start_sent     \* clients START was written to

vars == <<phase, left, stream, client_id, next_id, sockets_info, id_to_socket,
          games, game_info, receives, sends, closed, start_sent>>

clientVars == <<phase, left, client_id>>

NoGame == 0

\* What sockets_info_[socket] creates for a socket it does not hold.
BlankSocketInfoOfLast == [id |-> next_id - 1, udp |-> FALSE, game |-> NoGame]
BlankSocketInfo == [id |-> 0, udp |-> FALSE, game |-> NoGame]

\* sockets_info_[socket], for a socket that may be gone.
InfoOf(c) ==
  IF c \in DOMAIN sockets_info THEN sockets_info[c] ELSE BlankSocketInfo

-----------------------------------------------------------------------------

\* Some operators come with a mistaken variant just before them, which is not
\* part of the model: it shows that the properties notice such a mistake.

Init ==
  /\ phase = [c \in Client |-> "off"]
  /\ left = {}
  /\ stream = [c \in Client |-> <<>>]
  /\ client_id = [c \in Client |-> -1]
  /\ next_id = 0
  /\ sockets_info = [c \in {} |-> BlankSocketInfo]
  /\ id_to_socket = [i \in {} |-> CHOOSE c \in Client : TRUE]
  /\ games = [l \in Level |-> NoGame]
  /\ game_info = <<>>
  /\ receives = {}
  /\ sends = [c \in Client |-> 0]
  /\ closed = {}
  /\ start_sent = {}

\* The id of the next socket: next_id_++.
NewIdIncremented == next_id + 1
NewId == next_id

\* The client connects and reads its id: handle_accept writes it.  The client
\* then writes its greeting.
HandleAccept(c) ==
  /\ phase[c] = "off"
  /\ phase' = [phase EXCEPT ![c] = "greeted"]
  /\ stream' = [stream EXCEPT ![c] = <<"greetings!">>]
  /\ client_id' = [client_id EXCEPT ![c] = NewId]
  /\ next_id' = next_id + 1
  /\ sockets_info' = [d \in DOMAIN sockets_info \union {c} |->
       IF d = c THEN [BlankSocketInfo EXCEPT !.id = NewId]
       ELSE sockets_info[d]]
  /\ id_to_socket' = [i \in DOMAIN id_to_socket \union {NewId} |->
       IF i = NewId THEN c ELSE id_to_socket[i]]
  /\ receives' = receives \union {c}
  /\ sends' = [sends EXCEPT ![c] = 1]
  /\ UNCHANGED <<left, games, game_info, closed, start_sent>>

\* sync_start_time writes READY with the level the client wants.
SendReady(c) ==
  /\ phase[c] = "greeted"
  /\ c \notin left
  /\ phase' = [phase EXCEPT ![c] = "waiting"]
  /\ stream' = IF c \in closed THEN stream
               ELSE [stream EXCEPT ![c] = Append(@, "READY")]
  /\ UNCHANGED <<left, client_id, next_id, sockets_info, id_to_socket, games,
                 game_info, receives, sends, closed, start_sent>>

\* sync_start_time stops sending when TCP data has come, and reads START.
ReadStart(c) ==
  /\ phase[c] = "waiting"
  /\ c \in start_sent \ left
  /\ phase' = [phase EXCEPT ![c] = "playing"]
  /\ UNCHANGED <<left, stream, client_id, next_id, sockets_info, id_to_socket,
                 games, game_info, receives, sends, closed, start_sent>>

\* The client's process or its connection ends.
Leave(c) ==
  /\ phase[c] # "off"
  /\ c \notin left
  /\ left' = left \union {c}
  /\ UNCHANGED <<phase, stream, client_id, next_id, sockets_info, id_to_socket,
                 games, game_info, receives, sends, closed, start_sent>>

-----------------------------------------------------------------------------

\* game_info gi with socket c taken out of the players of game g.
Without(gi, g, c) ==
  IF g = NoGame THEN gi ELSE [gi EXCEPT ![g].players = BagRemoveAll(@, c)]

\* The READY branch of handle_receive: c joins the game that gathers players
\* for its level, which is created when there is none.
JoinGame(c) ==
  LET l == Wants[c]
      g == IF games[l] = NoGame THEN Len(game_info) + 1 ELSE games[l]
      known == IF games[l] # NoGame THEN game_info
               ELSE Append(game_info, [players |-> EmptyBag, nplayers |-> 0,
                                       started |-> FALSE])
      moved == Without(known, InfoOf(c).game, c)
  IN /\ games' = [games EXCEPT ![l] = g]
     /\ game_info' = [moved EXCEPT ![g].players = BagAdd(@, c),
                                   ![g].nplayers = NPlayers[l]]
     /\ sockets_info' = [d \in DOMAIN sockets_info \union {c} |->
          IF d = c THEN [InfoOf(c) EXCEPT !.game = g] ELSE sockets_info[d]]

\* handle_receive gets what the connection holds by now, one message or more,
\* and looks for READY only in a buffer that is nothing else.  A read that was
\* complete when a failed write closed the socket still runs its handler; the
\* next read of the socket fails.
HandleReceive(c) ==
  /\ c \in receives
  /\ \E n \in 1..Len(stream[c]) :
       /\ stream' = [stream EXCEPT ![c] = IF c \in closed THEN <<>>
                                           ELSE SubSeq(@, n + 1, Len(@))]
       /\ IF n = 1 /\ Head(stream[c]) = "READY"
          THEN JoinGame(c)
          ELSE UNCHANGED <<games, game_info, sockets_info>>
  /\ UNCHANGED <<clientVars, next_id, id_to_socket, receives, sends, closed,
                 start_sent>>

\* disconnect, also when it has run for the socket before.
DisconnectKeepingPlayer(c) ==
  /\ game_info' = game_info
  /\ closed' = closed \union {c}
  /\ id_to_socket' =
       [i \in DOMAIN id_to_socket \ {InfoOf(c).id} |-> id_to_socket[i]]
  /\ sockets_info' = [d \in DOMAIN sockets_info \ {c} |-> sockets_info[d]]
Disconnect(c) ==
  /\ game_info' = Without(game_info, InfoOf(c).game, c)
  /\ closed' = closed \union {c}
  /\ id_to_socket' =
       [i \in DOMAIN id_to_socket \ {InfoOf(c).id} |-> id_to_socket[i]]
  /\ sockets_info' = [d \in DOMAIN sockets_info \ {c} |-> sockets_info[d]]

\* handle_receive with an error: the client is gone, or close cancelled the
\* read.
ReceiveError(c) ==
  /\ c \in receives
  /\ c \in left \union closed
  /\ Disconnect(c)
  /\ receives' = receives \ {c}
  /\ UNCHANGED <<clientVars, stream, next_id, games, sends, start_sent>>

\* handle_send: the write succeeded.
HandleSend(c) ==
  /\ sends[c] > 0
  /\ sends' = [sends EXCEPT ![c] = @ - 1]
  /\ UNCHANGED <<clientVars, stream, next_id, sockets_info, id_to_socket, games,
                 game_info, receives, closed, start_sent>>

\* handle_send with an error.
SendError(c) ==
  /\ sends[c] > 0
  /\ c \in left \union closed
  /\ Disconnect(c)
  /\ sends' = [sends EXCEPT ![c] = @ - 1]
  /\ UNCHANGED <<clientVars, stream, next_id, games, receives, start_sent>>

-----------------------------------------------------------------------------

\* A game that handle_udp_receive starts: full, and every player was heard.
Full(g) == BagCardinality(game_info[g].players) >= game_info[g].nplayers

MayStartOverfull(g, info) ==
  /\ g # NoGame
  /\ ~game_info[g].started
  /\ BagCardinality(game_info[g].players) > game_info[g].nplayers
  /\ \A p \in BagToSet(game_info[g].players) : info[p].udp
MayStart(g, info) ==
  /\ g # NoGame
  /\ ~game_info[g].started
  /\ Full(g)
  /\ \A p \in BagToSet(game_info[g].players) : info[p].udp

\* START goes to every player, and the game gathers no more players.
StartStillListed(g) ==
  /\ start_sent' = start_sent \union BagToSet(game_info[g].players)
  /\ sends' = [c \in Client |-> IF c \in BagToSet(game_info[g].players)
                                THEN sends[c] + 1 ELSE sends[c]]
  /\ game_info' = [game_info EXCEPT ![g].started = TRUE]
  /\ games' = games
Start(g) ==
  /\ start_sent' = start_sent \union BagToSet(game_info[g].players)
  /\ sends' = [c \in Client |-> IF c \in BagToSet(game_info[g].players)
                                THEN sends[c] + 1 ELSE sends[c]]
  /\ game_info' = [game_info EXCEPT ![g].started = TRUE]
  /\ games' = [l \in Level |-> IF games[l] = g THEN NoGame ELSE games[l]]

\* The client a UDP packet with client c's id is taken to come from.
Known(c) == client_id[c] \in DOMAIN id_to_socket
SocketOf(c) == id_to_socket[client_id[c]]

\* handle_udp_receive for a 'Z' packet that carries c's id.  The client sends
\* it while it waits; it may arrive late.
HandleKeepalive(c) ==
  /\ phase[c] \in {"waiting", "playing"}
  /\ Known(c)
  /\ sockets_info' = [sockets_info EXCEPT ![SocketOf(c)].udp = TRUE]
  /\ LET g == sockets_info[SocketOf(c)].game
     IN IF MayStart(g, sockets_info')
        THEN Start(g)
        ELSE UNCHANGED <<start_sent, sends, game_info, games>>
  /\ UNCHANGED <<clientVars, stream, next_id, id_to_socket, receives, closed>>

\* handle_udp_receive for a packet of the game, to be relayed to the other
\* players: it dereferences their udp_endpoint.
HandleRelay(c) ==
  /\ phase[c] = "playing"
  /\ Known(c)
  /\ sockets_info' = [sockets_info EXCEPT ![SocketOf(c)].udp = TRUE]
  /\ UNCHANGED <<clientVars, stream, next_id, id_to_socket, games, game_info,
                 receives, sends, closed, start_sent>>

-----------------------------------------------------------------------------

Next ==
  \E c \in Client :
    \/ HandleAccept(c) \/ SendReady(c) \/ ReadStart(c) \/ Leave(c)
    \/ HandleReceive(c) \/ ReceiveError(c) \/ HandleSend(c) \/ SendError(c)
    \/ HandleKeepalive(c) \/ HandleRelay(c)

Spec == Init /\ [][Next]_vars

\* A waiting client sends a keepalive in every frame; one of them arrives.
Fairness ==
  \A c \in Client :
    WF_vars(phase[c] = "waiting" /\ c \notin left /\ HandleKeepalive(c))

FairSpec == Spec /\ Fairness

-----------------------------------------------------------------------------
(* Properties.                                                             *)

SocketInfo == [id : Nat, udp : BOOLEAN, game : Nat]
Players == {SetToBag(cs) : cs \in SUBSET Client}
GameInfo == [players : Players, nplayers : Nat, started : BOOLEAN]

\* Every variable keeps its shape.
TypeOK ==
  /\ phase \in [Client -> {"off", "greeted", "waiting", "playing"}]
  /\ left \subseteq Client
  /\ stream \in [Client -> Seq({"greetings!", "READY"})]
  /\ client_id \in [Client -> Nat \union {-1}]
  /\ next_id \in Nat
  /\ DOMAIN sockets_info \subseteq Client
  /\ \A c \in DOMAIN sockets_info :
       /\ sockets_info[c] \in SocketInfo
       /\ sockets_info[c].game \in 0..Len(game_info)
  /\ DOMAIN id_to_socket \subseteq 0..(next_id - 1)
  /\ \A i \in DOMAIN id_to_socket : id_to_socket[i] \in Client
  /\ games \in [Level -> 0..Len(game_info)]
  /\ game_info \in Seq(GameInfo)
  /\ receives \subseteq Client
  /\ sends \in [Client -> Nat]
  /\ closed \subseteq Client
  /\ start_sent \subseteq Client

\* A socket found by an id is one the server holds: the assertion of
\* handle_udp_receive (server.cpp:183) never fails.
SocketsKnown ==
  \A i \in DOMAIN id_to_socket : id_to_socket[i] \in DOMAIN sockets_info

\* A disconnect that runs twice for one socket, once from its read and once
\* from a write, erases id 0; it costs no other client its UDP packets.
OnlyFirstUnreachable ==
  \A c \in DOMAIN sockets_info :
    \/ sockets_info[c].id = 0
    \/ Known(c) /\ SocketOf(c) = c

\* A connected client is a player, once, of exactly the game its info names;
\* a disconnected one is a player of none.
PlayersMatchInfo ==
  \A g \in DOMAIN game_info :
    game_info[g].players =
      SetToBag({c \in DOMAIN sockets_info : sockets_info[c].game = g})

\* Whenever a packet of a running game comes in, its socket is known, and so is
\* the address of every player it relays to (server.cpp:250 dereferences the
\* pointer), though the players of a game come and go until it starts.
RelayTargetsKnown ==
  /\ SocketsKnown
  /\ \A c \in Client :
       (phase[c] = "playing" /\ Known(c)) =>
         \A g \in DOMAIN game_info :
           g = sockets_info[SocketOf(c)].game =>
             \A p \in BagToSet(game_info[g].players) : sockets_info[p].udp

\* Game g is full of players who are connected, reachable and waiting.
Ready(g) ==
  /\ g \in DOMAIN game_info
  /\ Full(g)
  /\ ~game_info[g].started
  /\ game_info[g].players # EmptyBag
  /\ \A p \in BagToSet(game_info[g].players) : Known(p) /\ p \notin left

\* A full game is started, unless one of its players leaves or id 0 is erased:
\* no game stays ready forever.
FullGameStarts == []<>(\A g \in DOMAIN game_info : ~Ready(g))
=============================================================================
