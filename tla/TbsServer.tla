------------------------------ MODULE TbsServer ------------------------------
(* The server of turn-based games (src/src/tbs_server.cpp) with the part of  *)
(* a game that decides who is told what (src/src/tbs_game.cpp).  A client    *)
(* talks to it in single requests over HTTP: the answer is the front of the  *)
(* client's message queue, and a request that finds the queue empty waits    *)
(* for an answer.  The lobby creates games and polls their status.  The      *)
(* server runs one handler at a time.                                        *)
(*                                                                           *)
(* What a game's formulas compute is abstracted: a message is only known by  *)
(* what it is and for whom it was written.                                   *)
EXTENDS Integers, Sequences, FiniteSets, SequencesExt

CONSTANTS
  Game,        \* games that may be created
  NoGame,
  Session,     \* session ids of clients; each stands for its user, too
  Ai,          \* -1: a user without a session, played by the server
  NoSession,
  Roster,      \* the lists of users games are created for
  Observer,    \* sessions that may observe
  MaxCommands, \* bound: creations, observations and commands
  MaxAnswers   \* bound: answers in flight on a connection at a heartbeat

ASSUME TbsAssumption ==
  /\ NoGame \notin Game
  /\ Ai \notin Session /\ NoSession \notin Session
  /\ \A roster \in Roster : roster \in Seq(Session \union {Ai})
  /\ Observer \subseteq Session
  /\ MaxCommands \in Nat /\ MaxAnswers \in Nat \ {0}

(* Every client has two connections: one to wait on, one for a command.      *)
Socket == Session \X {1, 2}
ClientOf(socket) == socket[1]

VARIABLES
  \* clients_, one entry per session once known
  known,      \* sessions with an entry
  client_game,\* cli_info.game
  nplayer,    \* cli_info.nplayer
  msg_queue,  \* cli_info.msg_queue
  \* games
  games,      \* games_
  clients,    \* game_info::clients
  players,    \* game_state->players_, by user
  started,    \* game_state->started_
  quit,       \* history: games some client left
  \* connections
  open,       \* sockets with a request that has not been closed
  waiting,    \* waiting_connections_, all under the nick of their client
  writes,     \* per socket: answers being written
  \* the lobby
  lobby,      \* "idle", or "waiting" in status_sockets_
  seen,       \* whether the lobby's last_seen is status_id_
  lobby_games,\* what the lobby was last told of the games
  commands    \* commands given so far

clientVars == <<known, client_game, nplayer, msg_queue>>
gameVars == <<games, clients, players, started, quit>>
socketVars == <<open, waiting, writes>>
lobbyVars == <<lobby, seen, lobby_games>>
vars == <<clientVars, gameVars, socketVars, lobbyVars, commands>>

Init ==
  /\ known = {}
  /\ client_game = [s \in Session |-> NoGame]
  /\ nplayer = [s \in Session |-> 0]
  /\ msg_queue = [s \in Session |-> << >>]
  /\ games = {}
  /\ clients = [g \in Game |-> << >>]
  /\ players = [g \in Game |-> << >>]
  /\ started = [g \in Game |-> FALSE]
  /\ quit = {}
  /\ open = {}
  /\ waiting = {}
  /\ writes = [k \in Socket |-> 0]
  /\ lobby = "idle"
  /\ seen = TRUE
  /\ lobby_games = {}
  /\ commands = 0

Command == commands < MaxCommands /\ commands' = commands + 1

(* --------------------------------- messages ------------------------------ *)

(* A game's state as the user sees it, or as observers see it; news for      *)
(* everyone; the description of a game; the answer to quit.                  *)
State(user) == [type |-> "state", for |-> user]
ObserverState == [type |-> "observer", for |-> NoSession]
Notice == [type |-> "notice", for |-> NoSession]
GameInfo == [type |-> "game_info", for |-> NoSession]
Bye == [type |-> "bye", for |-> NoSession]
Message == {State(s) : s \in Session} \union {ObserverState, Notice, GameInfo, Bye}

(* What is left of a list when only members of S are kept, in order.         *)
Kept(list, S) ==
  LET kept[n \in 0 .. Len(list)] ==
        IF n = 0 THEN << >>
        ELSE IF list[n] \in S THEN Append(kept[n - 1], list[n]) ELSE kept[n - 1]
  IN kept[Len(list)]

Without(list, s) == Kept(list, Range(list) \ {s})

(* An outgoing message of a game: to all, to a player by index, to observers.*)
All == -2
Observers == -1
To(recipient, message) == [to |-> recipient, message |-> message]

(* flush_game_messages: players are looked up by their index in the list of  *)
(* players, in the list of clients; who comes after that many is an observer.*)
Recipients(list, nplayers, out) ==
  CASE out.to = All -> Range(list)
    [] out.to = Observers -> {list[i] : i \in nplayers + 1 .. Len(list)}
    [] OTHER -> IF out.to < Len(list) THEN {list[out.to + 1]} ELSE {}

FlushedInReverse(queues, list, nplayers, outgoing) ==
  [s \in Session |->
     LET mine == Kept(outgoing, {out \in Range(outgoing) :
                                   s \in Recipients(Reverse(list), nplayers, out)})
     IN queues[s] \o [i \in DOMAIN mine |-> mine[i].message]]

(* The queues after the outgoing messages of a game.                         *)
Flushed(queues, list, nplayers, outgoing) ==
  [s \in Session |->
     LET mine == Kept(outgoing, {out \in Range(outgoing) : s \in Recipients(list, nplayers, out)})
     IN queues[s] \o [i \in DOMAIN mine |-> mine[i].message]]

(* send_game_state: to every player its own view, then to the observers.     *)
GameState(users) ==
  [i \in 1 .. Len(users) |-> To(i - 1, State(users[i]))] \o << To(Observers, ObserverState) >>

(* ---------------------------------- lobby -------------------------------- *)

Listed(gs, st) == {<<g, st[g]>> : g \in gs}

StatusChangeQuiet(gs, st) == seen' = FALSE /\ UNCHANGED <<lobby, lobby_games>>

(* status_change: a new status id, and an answer to the request that waits.  *)
StatusChange(gs, st) ==
  IF lobby = "waiting"
  THEN lobby' = "idle" /\ seen' = TRUE /\ lobby_games' = Listed(gs, st)
  ELSE seen' = FALSE /\ UNCHANGED <<lobby, lobby_games>>

(* The lobby asks again after every answer.                                  *)
GetStatus ==
  /\ lobby = "idle"
  /\ IF seen
     THEN lobby' = "waiting" /\ UNCHANGED <<seen, lobby_games>>
     ELSE seen' = TRUE /\ lobby_games' = Listed(games, started) /\ UNCHANGED lobby
  /\ UNCHANGED <<clientVars, gameVars, socketVars, commands>>

(* Users are entered one by one until one has a session that is in use: the  *)
(* game is then given up, and those before it keep pointing to it.           *)
Entered(roster) ==
  LET reused == {i \in DOMAIN roster : roster[i] \in (known \union {roster[j] : j \in 1 .. i - 1}) \ {Ai}}
  IN IF reused = {} THEN roster
     ELSE SubSeq(roster, 1, (CHOOSE i \in reused : \A j \in reused : i <= j) - 1)

CreateGame(g, roster) ==
  LET users == Entered(roster)
      entered == Range(users) \ {Ai}
  IN
  /\ Command
  /\ g \notin games /\ clients[g] = << >> /\ \A s \in Session : client_game[s] # g
  /\ known' = known \union entered
  /\ client_game' = [s \in Session |-> IF s \in entered THEN g ELSE client_game[s]]
  /\ nplayer' = [s \in Session |->
       IF s \in entered THEN (CHOOSE i \in DOMAIN users : users[i] = s) - 1 ELSE nplayer[s]]
  /\ clients' = [clients EXCEPT ![g] = users]
  /\ players' = [players EXCEPT ![g] = Without(users, Ai)]
  /\ started' = [started EXCEPT ![g] = FALSE]
  /\ quit' = quit \ {g}
  /\ IF Len(users) = Len(roster)
     THEN games' = games \union {g} /\ StatusChange(games \union {g}, started')
     ELSE UNCHANGED <<games, lobbyVars>>
  /\ UNCHANGED <<msg_queue, socketVars>>

ObserveGame(g, s) ==
  /\ Command
  /\ g \in games
  /\ s \notin known
  /\ known' = known \union {s}
  /\ client_game' = [client_game EXCEPT ![s] = g]
  /\ nplayer' = [nplayer EXCEPT ![s] = -1]
  /\ clients' = [clients EXCEPT ![g] = Append(@, s)]
  /\ UNCHANGED <<msg_queue, games, players, started, quit, socketVars, lobbyVars>>

(* --------------------------------- requests ------------------------------ *)

Sent(w, sockets) == [k \in Socket |-> IF k \in sockets THEN w[k] + 1 ELSE w[k]]

(* close_ajax: the front of the queue answers the request, and a request of  *)
(* the same client that waits is answered so that it need not; otherwise the *)
(* request waits.  An answered request stays among those that wait until its *)
(* answer is written.                                                        *)
CloseAjax(socket, queues) ==
  LET s == ClientOf(socket)
      other == {k \in waiting : ClientOf(k) = s /\ k # socket}
  IN
  /\ open' = open \union {socket}
  /\ IF queues[s] # << >>
     THEN /\ msg_queue' = [queues EXCEPT ![s] = Tail(@)]
          /\ writes' = Sent(writes, {socket} \union other)
          /\ UNCHANGED waiting
     ELSE /\ msg_queue' = queues
          /\ waiting' = waiting \union {socket}
          /\ UNCHANGED writes

(* A request of a known session comes over its first connection that is not  *)
(* in use: connections are interchangeable.                                  *)
InUse(socket) == socket \in open \/ writes[socket] > 0
Post(socket) ==
  /\ ClientOf(socket) \in known
  /\ ~InUse(socket)
  /\ socket[2] = 2 => InUse(<<ClientOf(socket), 1>>)

(* A request that asks for nothing but the next message.                     *)
Poll(s) ==
  /\ open \intersect ({s} \X {1, 2}) = {}
  /\ \E socket \in {s} \X {1, 2} : Post(socket) /\ CloseAjax(socket, msg_queue)
  /\ UNCHANGED <<known, client_game, nplayer, gameVars, lobbyVars, commands>>

(* handle_message: the game starts (again), or handles what its formulas     *)
(* make of the message, and sends its state.                                 *)
Play(socket, start) ==
  LET s == ClientOf(socket)
      g == client_game[s]
      restarted == IF start /\ started[g] THEN << To(All, Notice) >> ELSE << >>
  IN
  /\ Command
  /\ Post(socket)
  /\ g # NoGame
  /\ started' = [started EXCEPT ![g] = @ \/ start]
  /\ CloseAjax(socket,
       Flushed(msg_queue, clients[g], Len(players[g]), restarted \o GameState(players[g])))
  /\ UNCHANGED <<known, client_game, nplayer, games, clients, players, quit, lobbyVars>>

ClientsAfterQuitKept(g, s) ==
  IF ~started[g] /\ Head(clients[g]) = s THEN clients[g] ELSE Without(clients[g], s)

(* quit_games for one game of games_ that has the session among its clients: *)
(* before the start it is no player any more, and if it came first the game  *)
(* is given up; after the start the players are told.                        *)
ClientsAfterQuit(g, s) ==
  IF ~started[g] /\ Head(clients[g]) = s THEN << >> ELSE Without(clients[g], s)

QuitNews(g, s) ==
  IF ~started[g] THEN << To(All, GameInfo) >>
  ELSE IF s \in Range(players[g]) THEN << To(All, Notice) >>
  ELSE << >>

Quit(socket) ==
  LET s == ClientOf(socket)
      g == client_game[s]
      left == {h \in games : s \in Range(clients[h])}
      list == [h \in Game |-> IF h \in left THEN ClientsAfterQuit(h, s) ELSE clients[h]]
      told == IF left = {} THEN msg_queue
              ELSE Flushed(msg_queue, list[g], 0, QuitNews(g, s))
  IN
  /\ Command
  /\ Post(socket)
  /\ g # NoGame
  /\ clients' = list
  /\ players' = [h \in Game |->
       IF h \in left /\ ~started[h] THEN Without(players[h], s) ELSE players[h]]
  /\ games' = {h \in games : h \notin left \/ list[h] # << >>}
  /\ quit' = quit \union left
  /\ client_game' = [client_game EXCEPT ![s] = NoGame]
  /\ IF games' # games THEN StatusChange(games', started) ELSE UNCHANGED lobbyVars
  /\ CloseAjax(socket, [told EXCEPT ![s] = Append(@, Bye)])
  /\ UNCHANGED <<known, nplayer, started>>

(* -------------------------------- connections ---------------------------- *)

(* handle_send, after an answer was written or could not be: the connection  *)
(* is closed.                                                                *)
HandleSend(socket) ==
  /\ writes[socket] > 0
  /\ writes' = [writes EXCEPT ![socket] = @ - 1]
  /\ open' = open \ {socket}
  /\ waiting' = waiting \ {socket}
  /\ UNCHANGED <<clientVars, gameVars, lobbyVars, commands>>

HeartbeatForLobby ==
  /\ StatusChange(games, started)
  /\ UNCHANGED <<clientVars, gameVars, socketVars, commands>>

(* Every hundredth beat all requests that wait are answered.  The session is *)
(* looked up under socket_info::session_id, which is never set: it finds the *)
(* empty entry of session 0 and therefore no queue.                          *)
Heartbeat ==
  /\ writes' = Sent(writes, waiting)
  /\ \A k \in waiting : writes[k] < MaxAnswers
  /\ StatusChange(games, started)
  /\ UNCHANGED <<clientVars, gameVars, open, waiting, commands>>

Next ==
  \/ \E g \in Game, roster \in Roster : CreateGame(g, roster)
  \/ \E g \in Game, s \in Observer : ObserveGame(g, s)
  \/ GetStatus
  \/ \E s \in Session : Poll(s)
  \/ \E socket \in Socket : Quit(socket) \/ HandleSend(socket)
  \/ \E socket \in Socket, start \in BOOLEAN : Play(socket, start)
  \/ Heartbeat

Spec == Init /\ [][Next]_vars

(* Clients and the lobby ask again when answered, answers get written, and   *)
(* the timer beats; nobody has to give a command.                            *)
FairSpec ==
  /\ Spec
  /\ WF_vars(Heartbeat)
  /\ WF_vars(GetStatus)
  /\ \A s \in Session : WF_vars(Poll(s))
  /\ \A socket \in Socket : WF_vars(HandleSend(socket))

(* ------------------------------- properties ------------------------------ *)

TypeOK ==
  /\ known \subseteq Session
  /\ client_game \in [Session -> Game \union {NoGame}]
  /\ nplayer \in [Session -> Nat \union {-1}]
  /\ msg_queue \in [Session -> Seq(Message)]
  /\ games \subseteq Game
  /\ clients \in [Game -> Seq(Session \union {Ai})]
  /\ players \in [Game -> Seq(Session)]
  /\ started \in [Game -> BOOLEAN]
  /\ quit \subseteq Game
  /\ open \subseteq Socket
  /\ waiting \subseteq open
  /\ writes \in [Socket -> Nat]
  /\ lobby \in {"idle", "waiting"}
  /\ seen \in BOOLEAN
  /\ lobby_games \subseteq Game \X BOOLEAN
  /\ commands \in 0 .. MaxCommands

(* The lists of a game that the lobby can see and the pointers of its        *)
(* clients agree, though a creation may fail half-way, a game may be given   *)
(* up under its clients, and session entries are never erased.               *)
ClientsMatchGames ==
  \A g \in games, s \in Session :
    s \in Range(clients[g]) <=> client_game[s] = g

(* As long as nobody left the game, a client is told what was written for    *)
(* it: players their own view, observers the observers'.                     *)
OwnView ==
  \A s \in Session : client_game[s] # NoGame /\ client_game[s] \notin quit =>
    \A m \in Range(msg_queue[s]) :
      /\ m.type = "state" => m.for = s
      /\ m.type = "observer" => nplayer[s] = -1

(* Once the commands cease, every queue runs empty: a message that came while*)
(* its client's request waited is sent, at the latest after the heartbeat    *)
(* answered that request with something else and the client asked again.     *)
MessagesLeave == <>[](\A s \in Session : msg_queue[s] = << >>)

(* The lobby eventually lists what there is, though starting a game does not *)
(* change the status.                                                        *)
LobbyCatchesUp == <>[](lobby_games = Listed(games, started))

=============================================================================
