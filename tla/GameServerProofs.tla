--------------------------- MODULE GameServerProofs --------------------------
(***************************************************************************)
(* Proofs about GameServer, for any clients, levels and sizes of games:    *)
(* ids, sockets, players and what is known of them stay consistent, and a  *)
(* packet of a running game is relayed to known addresses only.            *)
(***************************************************************************)
EXTENDS GameServer, SequenceTheorems, TLAPS

-----------------------------------------------------------------------------
(* The inductive invariant.                                                *)

Streams == {<<>>, <<"greetings!">>, <<"READY">>, <<"greetings!", "READY">>}

\* READY is written once, and not before the greeting.
ReadyOnce ==
  \A c \in Client :
    /\ stream[c] \in Streams
    /\ phase[c] = "greeted" => stream[c] \in {<<>>, <<"greetings!">>}

\* Nothing is known of a client that has not connected.
OffIsUnknown ==
  \A c \in Client : phase[c] = "off" =>
    /\ c \notin DOMAIN sockets_info
    /\ c \notin receives
    /\ stream[c] = <<>>

\* Ids are given once.
IdsDiffer ==
  /\ \A c \in Client : phase[c] # "off" => client_id[c] \in 0 .. next_id - 1
  /\ \A c, d \in Client :
       phase[c] # "off" /\ phase[d] # "off" /\ client_id[c] = client_id[d] => c = d

\* A socket has its client's id, or 0 when a late read has brought it back.
IdsMatch ==
  /\ \A c \in DOMAIN sockets_info : sockets_info[c].id \in {0, client_id[c]}
  /\ \A i \in DOMAIN id_to_socket :
       /\ id_to_socket[i] \in DOMAIN sockets_info
       /\ sockets_info[id_to_socket[i]].id = i
       /\ client_id[id_to_socket[i]] = i

\* A client whose READY was not read is in no game.
Outside(c) ==
  phase[c] \in {"off", "greeted"} \/ stream[c] \in {<<"READY">>, <<"greetings!", "READY">>}

JoinsOnce ==
  \A c \in Client : Outside(c) =>
    /\ c \notin start_sent
    /\ c \in DOMAIN sockets_info => sockets_info[c].game = NoGame

\* A game that was started gathers no players, and all it has were heard.
StartedGames ==
  \A g \in DOMAIN game_info : game_info[g].started =>
    /\ \A l \in Level : games[l] # g
    /\ \A p \in BagToSet(game_info[g].players) : sockets_info[p].udp

\* Whoever plays was sent START, and is in a game that was started.
StartedPlayers ==
  \A c \in Client :
    /\ phase[c] = "playing" => c \in start_sent
    /\ c \in start_sent /\ c \in DOMAIN sockets_info =>
         /\ sockets_info[c].game \in DOMAIN game_info
         /\ game_info[sockets_info[c].game].started

IInv ==
  /\ TypeOK
  /\ ReadyOnce
  /\ OffIsUnknown
  /\ IdsDiffer
  /\ IdsMatch
  /\ PlayersMatchInfo
  /\ JoinsOnce
  /\ StartedGames
  /\ StartedPlayers

-----------------------------------------------------------------------------
(* Bags of players, and streams.                                           *)

LEMMA PlayerJoins ==
  ASSUME NEW S, NEW c, c \notin S
  PROVE  BagAdd(SetToBag(S), c) = SetToBag(S \union {c})
  BY DEF BagAdd, SetToBag

LEMMA PlayerLeaves ==
  ASSUME NEW S, NEW c
  PROVE  BagRemoveAll(SetToBag(S), c) = SetToBag(S \ {c})
  BY DEF BagRemoveAll, SetToBag

LEMMA PlayersOf ==
  ASSUME NEW S
  PROVE  BagToSet(SetToBag(S)) = S
  BY DEF BagToSet, SetToBag

\* What is left of a stream when its first n messages were read.
LEMMA StreamRest ==
  ASSUME NEW s \in Streams, NEW n \in 1 .. Len(s)
  PROVE  LET rest == SubSeq(s, n + 1, Len(s))
         IN /\ rest \in Streams
            /\ rest \in {<<"READY">>, <<"greetings!", "READY">>}
                 => s \in {<<"READY">>, <<"greetings!", "READY">>}
            /\ s = <<"greetings!">> => rest = <<>>
            /\ n = 1 /\ Head(s) = "READY" => s = <<"READY">> /\ rest = <<>>
<1>1. CASE s = <<>>
  BY <1>1
<1>2. CASE s = <<"greetings!">>
  <2>1. n = 1 /\ Len(s) = 1
    BY <1>2
  <2>2. SubSeq(s, 2, 1) = <<>>
    BY SubSeqEmpty
  <2> QED
    BY <1>2, <2>1, <2>2 DEF Streams
<1>3. CASE s = <<"READY">>
  <2>1. n = 1 /\ Len(s) = 1
    BY <1>3
  <2>2. SubSeq(s, 2, 1) = <<>>
    BY SubSeqEmpty
  <2> QED
    BY <1>3, <2>1, <2>2 DEF Streams
<1>4. CASE s = <<"greetings!", "READY">>
  <2>1. Len(s) = 2 /\ n \in {1, 2} /\ Head(s) # "READY"
    BY <1>4
  <2>2. SubSeq(s, 3, 2) = <<>>
    BY SubSeqEmpty
  <2>3. SubSeq(s, 2, 2) = <<"READY">>
    <3>1. s[2] = "READY"
      BY <1>4
    <3> DEFINE rest == SubSeq(s, 2, 2)
    <3>2. /\ rest \in Seq({"READY"})
          /\ Len(rest) = IF 2 <= 2 THEN 2 - 2 + 1 ELSE 0
          /\ \A i \in 1 .. 2 - 2 + 1 : rest[i] = s[2 + i - 1]
      <4>1. \A i \in 2 .. 2 : i = 2
        OBVIOUS
      <4>2. \A i \in 2 .. 2 : s[i] \in {"READY"}
        BY <3>1, <4>1
      <4> QED
        BY <4>2, SubSeqProperties
    <3> HIDE DEF rest
    <3>3. Len(rest) = 1 /\ rest[1] = "READY"
      BY <3>1, <3>2
    <3>4. rest = <<"READY">>
      BY <3>2, <3>3, SeqEqual
    <3> QED
      BY <3>4 DEF rest
  <2> QED
    BY <1>4, <2>1, <2>2, <2>3 DEF Streams
<1> QED
  BY <1>1, <1>2, <1>3, <1>4 DEF Streams

LEMMA AppendToOne ==
  ASSUME NEW S, NEW a \in S, NEW b \in S
  PROVE  Append(<<a>>, b) = <<a, b>>
<1> DEFINE s == <<a>>
           t == <<a, b>>
<1>1. s \in Seq(S) /\ Len(s) = 1 /\ s[1] = a
  OBVIOUS
<1>2. t \in Seq(S) /\ Len(t) = 2 /\ t[1] = a /\ t[2] = b
  OBVIOUS
<1> HIDE DEF s, t
<1> DEFINE u == Append(s, b)
<1>3. /\ u \in Seq(S) /\ Len(u) = Len(s) + 1 /\ u[Len(s) + 1] = b
      /\ \A i \in 1 .. Len(s) : u[i] = s[i]
  <2>1. s \in Seq(S)
    BY <1>1
  <2>2. u \in Seq(S)
    BY <2>1, AppendProperties
  <2>3. Len(u) = Len(s) + 1
    BY <2>1, AppendProperties
  <2>4. u[Len(s) + 1] = b
    BY <2>1, AppendProperties
  <2>5. \A i \in 1 .. Len(s) : u[i] = s[i]
    BY <2>1, AppendProperties
  <2> QED
    BY <2>2, <2>3, <2>4, <2>5
<1> HIDE DEF u
<1>4. Len(u) = 2 /\ u[1] = a /\ u[2] = b
  BY <1>1, <1>3
<1>5. \A i \in 1 .. Len(u) : i = 1 \/ i = 2
  BY <1>4
<1>6. u = t
  BY <1>2, <1>3, <1>4, <1>5, SeqEqual
<1> QED
  BY <1>6 DEF s, t, u

LEMMA StreamGrows ==
  ASSUME NEW s \in {<<>>, <<"greetings!">>}
  PROVE  Append(s, "READY") \in Streams
<1>1. CASE s = <<>>
  BY <1>1 DEF Streams
<1>2. CASE s = <<"greetings!">>
  <2>1. "greetings!" \in {"greetings!", "READY"} /\ "READY" \in {"greetings!", "READY"}
    OBVIOUS
  <2>2. Append(<<"greetings!">>, "READY") = <<"greetings!", "READY">>
    BY <2>1, AppendToOne
  <2> QED
    BY <1>2, <2>2 DEF Streams
<1> QED
  BY <1>1, <1>2

LEMMA StreamsAreMessages == Streams \subseteq Seq({"greetings!", "READY"})
  BY DEF Streams

-----------------------------------------------------------------------------
(* The initial state, and the steps.                                       *)

LEMMA InitInv == Init => IInv
<1> SUFFICES ASSUME Init
             PROVE  IInv
  OBVIOUS
<1> USE DEF Init
<1>1. DOMAIN sockets_info = {} /\ DOMAIN id_to_socket = {}
  OBVIOUS
<1>2. Len(game_info) = 0 /\ DOMAIN game_info = {}
  OBVIOUS
<1>3. TypeOK
  <2>1. game_info \in Seq(GameInfo)
    OBVIOUS
  <2>2. games \in [Level -> 0 .. Len(game_info)]
    BY <1>2 DEF NoGame
  <2>3. stream \in [Client -> Seq({"greetings!", "READY"})]
    OBVIOUS
  <2> QED
    BY <1>1, <2>1, <2>2, <2>3 DEF TypeOK
<1>4. ReadyOnce /\ OffIsUnknown
  BY <1>1 DEF ReadyOnce, OffIsUnknown, Streams
<1>5. IdsDiffer /\ IdsMatch
  BY <1>1 DEF IdsDiffer, IdsMatch
<1>6. PlayersMatchInfo /\ JoinsOnce /\ StartedGames /\ StartedPlayers
  BY <1>1, <1>2 DEF PlayersMatchInfo, JoinsOnce, StartedGames, StartedPlayers
<1> QED
  BY <1>3, <1>4, <1>5, <1>6 DEF IInv

\* What the invariant says of the server's own maps.
Held ==
  /\ IdsMatch
  /\ PlayersMatchInfo
  /\ StartedGames

LEMMA SendReadyStep ==
  ASSUME IInv, NEW c \in Client, SendReady(c)
  PROVE  IInv'
<1>1. TypeOK /\ ReadyOnce /\ phase[c] = "greeted"
  BY DEF IInv, SendReady
<1>2. UNCHANGED <<left, client_id, next_id, sockets_info, id_to_socket, games,
                  game_info, receives, sends, closed, start_sent>>
  BY DEF SendReady
<1>3. /\ phase' = [phase EXCEPT ![c] = "waiting"]
      /\ phase \in [Client -> {"off", "greeted", "waiting", "playing"}]
  BY <1>1 DEF SendReady, TypeOK
<1>4. stream[c] \in {<<>>, <<"greetings!">>} /\ stream \in [Client -> Streams]
  BY <1>1 DEF ReadyOnce, TypeOK
<1>5. /\ stream' \in [Client -> Streams]
      /\ \A d \in Client \ {c} : stream'[d] = stream[d]
  <2>1. CASE c \in closed
    BY <1>4, <2>1 DEF SendReady
  <2>2. CASE c \notin closed
    <3>1. Append(stream[c], "READY") \in Streams
      BY <1>4, StreamGrows
    <3> QED
      BY <1>4, <2>2, <3>1 DEF SendReady
  <2> QED
    BY <2>1, <2>2
<1>6. TypeOK'
  <2>1. stream' \in [Client -> Seq({"greetings!", "READY"})]
    BY <1>5, StreamsAreMessages
  <2>2. phase' \in [Client -> {"off", "greeted", "waiting", "playing"}]
    BY <1>3
  <2> QED
    BY <1>1, <1>2, <2>1, <2>2 DEF TypeOK
<1>7. ReadyOnce' /\ OffIsUnknown'
  BY <1>1, <1>2, <1>3, <1>5 DEF ReadyOnce, OffIsUnknown, IInv
<1>8. IdsDiffer'
  BY <1>1, <1>2, <1>3 DEF IdsDiffer, IInv
<1>9. Held'
  BY <1>2 DEF Held, IdsMatch, PlayersMatchInfo, StartedGames, IInv
<1>10. JoinsOnce'
  BY <1>1, <1>2, <1>3, <1>5 DEF JoinsOnce, Outside, IInv
<1>11. StartedPlayers'
  BY <1>1, <1>2, <1>3 DEF StartedPlayers, IInv
<1> QED
  BY <1>6, <1>7, <1>8, <1>9, <1>10, <1>11 DEF IInv, Held

LEMMA ReadStartStep ==
  ASSUME IInv, NEW c \in Client, ReadStart(c)
  PROVE  IInv'
<1>1. TypeOK /\ phase[c] = "waiting" /\ c \in start_sent
  BY DEF IInv, ReadStart
<1>2. UNCHANGED <<left, stream, client_id, next_id, sockets_info, id_to_socket,
                  games, game_info, receives, sends, closed, start_sent>>
  BY DEF ReadStart
<1>3. /\ phase' = [phase EXCEPT ![c] = "playing"]
      /\ phase \in [Client -> {"off", "greeted", "waiting", "playing"}]
  BY <1>1 DEF ReadStart, TypeOK
<1>4. TypeOK'
  BY <1>1, <1>2, <1>3 DEF TypeOK
<1>5. ReadyOnce' /\ OffIsUnknown'
  BY <1>1, <1>2, <1>3 DEF ReadyOnce, OffIsUnknown, IInv
<1>6. IdsDiffer'
  BY <1>1, <1>2, <1>3 DEF IdsDiffer, IInv
<1>7. Held'
  BY <1>2 DEF Held, IdsMatch, PlayersMatchInfo, StartedGames, IInv
<1>8. JoinsOnce' /\ StartedPlayers'
  BY <1>1, <1>2, <1>3 DEF JoinsOnce, Outside, StartedPlayers, IInv
<1> QED
  BY <1>4, <1>5, <1>6, <1>7, <1>8 DEF IInv, Held

\* Steps that touch nothing but who has left and what is being written.
LEMMA OtherSteps ==
  ASSUME IInv, left' \subseteq Client, sends' \in [Client -> Nat],
         UNCHANGED <<phase, stream, client_id, next_id, sockets_info,
                     id_to_socket, games, game_info, receives, closed, start_sent>>
  PROVE  IInv'
<1>1. TypeOK'
  BY DEF TypeOK, IInv
<1>2. ReadyOnce' /\ OffIsUnknown' /\ IdsDiffer' /\ JoinsOnce' /\ StartedPlayers'
  BY DEF ReadyOnce, OffIsUnknown, IdsDiffer, JoinsOnce, Outside, StartedPlayers, IInv
<1>3. Held'
  BY DEF Held, IdsMatch, PlayersMatchInfo, StartedGames, IInv
<1> QED
  BY <1>1, <1>2, <1>3 DEF IInv, Held

LEMMA HandleAcceptStep ==
  ASSUME IInv, NEW c \in Client, HandleAccept(c)
  PROVE  IInv'
<1>1. TypeOK /\ phase[c] = "off" /\ c \notin DOMAIN sockets_info
  BY DEF IInv, HandleAccept, OffIsUnknown
<1>2. UNCHANGED <<left, games, game_info, closed, start_sent>>
  BY DEF HandleAccept
<1>3. /\ phase' = [phase EXCEPT ![c] = "greeted"]
      /\ stream' = [stream EXCEPT ![c] = <<"greetings!">>]
      /\ client_id' = [client_id EXCEPT ![c] = next_id]
      /\ next_id' = next_id + 1
      /\ receives' = receives \union {c}
      /\ sends' = [sends EXCEPT ![c] = 1]
  BY DEF HandleAccept, NewId
<1>4. /\ phase \in [Client -> {"off", "greeted", "waiting", "playing"}]
      /\ client_id \in [Client -> Nat \union {-1}]
      /\ next_id \in Nat
      /\ DOMAIN sockets_info \subseteq Client
      /\ DOMAIN id_to_socket \subseteq 0 .. next_id - 1
  BY <1>1 DEF TypeOK
<1>5. /\ DOMAIN sockets_info' = DOMAIN sockets_info \union {c}
      /\ \A d \in DOMAIN sockets_info : sockets_info'[d] = sockets_info[d]
      /\ sockets_info'[c] = [id |-> next_id, udp |-> FALSE, game |-> NoGame]
  BY <1>1 DEF HandleAccept, NewId, BlankSocketInfo
<1>6. /\ DOMAIN id_to_socket' = DOMAIN id_to_socket \union {next_id}
      /\ \A i \in DOMAIN id_to_socket : id_to_socket'[i] = id_to_socket[i]
      /\ id_to_socket'[next_id] = c
  <2>1. next_id \notin DOMAIN id_to_socket
    BY <1>4
  <2> QED
    BY <2>1 DEF HandleAccept, NewId
<1>7. stream' \in [Client -> Seq({"greetings!", "READY"})]
  BY <1>1, <1>3 DEF TypeOK
<1>8. TypeOK'
  <2>1. \A d \in DOMAIN sockets_info' :
          sockets_info'[d] \in SocketInfo /\ sockets_info'[d].game \in 0 .. Len(game_info)
    <3>1. sockets_info'[c] \in SocketInfo /\ sockets_info'[c].game = 0
      BY <1>4, <1>5 DEF SocketInfo, NoGame
    <3>2. Len(game_info) \in Nat
      BY <1>1 DEF TypeOK
    <3>3. 0 \in 0 .. Len(game_info)
      BY <3>2
    <3>4. \A d \in DOMAIN sockets_info :
            sockets_info[d] \in SocketInfo /\ sockets_info[d].game \in 0 .. Len(game_info)
      BY <1>1 DEF TypeOK
    <3> QED
      BY <1>5, <3>1, <3>3, <3>4
  <2>2. /\ DOMAIN id_to_socket' \subseteq 0 .. (next_id' - 1)
        /\ \A i \in DOMAIN id_to_socket' : id_to_socket'[i] \in Client
    BY <1>1, <1>3, <1>4, <1>6 DEF TypeOK
  <2>3. /\ phase' \in [Client -> {"off", "greeted", "waiting", "playing"}]
        /\ client_id' \in [Client -> Nat \union {-1}]
        /\ next_id' \in Nat /\ receives' \subseteq Client /\ sends' \in [Client -> Nat]
    BY <1>1, <1>3, <1>4 DEF TypeOK
  <2> QED
    BY <1>1, <1>2, <1>5, <1>7, <2>1, <2>2, <2>3 DEF TypeOK
<1>9. ReadyOnce'
  BY <1>1, <1>3, <1>4 DEF ReadyOnce, Streams, IInv, TypeOK
<1>10. OffIsUnknown'
  BY <1>1, <1>3, <1>4, <1>5 DEF OffIsUnknown, IInv, TypeOK
<1>11. IdsDiffer'
  <2>1. \A d \in Client \ {c} : /\ phase'[d] = phase[d] /\ client_id'[d] = client_id[d]
                                /\ phase[d] # "off" => client_id[d] # next_id
    BY <1>3, <1>4 DEF IdsDiffer, IInv
  <2>2. client_id'[c] = next_id /\ phase'[c] # "off"
    BY <1>3, <1>4
  <2> QED
    BY <1>3, <1>4, <2>1, <2>2 DEF IdsDiffer, IInv
<1>12. IdsMatch'
  <2>1. \A d \in DOMAIN sockets_info : client_id'[d] = client_id[d]
    BY <1>1, <1>3, <1>4
  <2>2. client_id'[c] = next_id
    BY <1>3, <1>4
  <2>3. \A d \in DOMAIN sockets_info' : sockets_info'[d].id \in {0, client_id'[d]}
    BY <1>5, <2>1, <2>2 DEF IdsMatch, IInv
  <2>4. ASSUME NEW i \in DOMAIN id_to_socket'
        PROVE  /\ id_to_socket'[i] \in DOMAIN sockets_info'
               /\ sockets_info'[id_to_socket'[i]].id = i
               /\ client_id'[id_to_socket'[i]] = i
    <3>1. CASE i = next_id
      BY <1>5, <1>6, <2>2, <3>1
    <3>2. CASE i # next_id
      BY <1>5, <1>6, <2>1, <3>2 DEF IdsMatch, IInv
    <3> QED
      BY <3>1, <3>2
  <2> QED
    BY <2>3, <2>4 DEF IdsMatch
<1>13. PlayersMatchInfo'
  <2>1. ASSUME NEW g \in DOMAIN game_info
        PROVE  {d \in DOMAIN sockets_info' : sockets_info'[d].game = g}
                 = {d \in DOMAIN sockets_info : sockets_info[d].game = g}
    <3>1. g # NoGame
      BY <1>1 DEF TypeOK, NoGame
    <3> QED
      BY <1>5, <3>1
  <2> QED
    BY <1>2, <2>1 DEF PlayersMatchInfo, IInv
<1>14. JoinsOnce'
  <2>1. c \notin start_sent
    BY <1>1 DEF JoinsOnce, Outside, IInv
  <2>2. \A d \in Client \ {c} : phase'[d] = phase[d] /\ stream'[d] = stream[d]
    BY <1>1, <1>3, <1>4 DEF TypeOK
  <2> QED
    BY <1>2, <1>5, <2>1, <2>2 DEF JoinsOnce, Outside, IInv
<1>15. StartedGames'
  <2>1. ASSUME NEW g \in DOMAIN game_info, NEW p \in BagToSet(game_info[g].players)
        PROVE  p \in DOMAIN sockets_info
    BY PlayersOf DEF PlayersMatchInfo, IInv
  <2> QED
    BY <1>2, <1>5, <2>1 DEF StartedGames, IInv
<1>16. StartedPlayers'
  <2>1. c \notin start_sent
    BY <1>1 DEF JoinsOnce, Outside, IInv
  <2> QED
    BY <1>2, <1>3, <1>4, <1>5, <2>1 DEF StartedPlayers, IInv
<1> QED
  BY <1>8, <1>9, <1>10, <1>11, <1>12, <1>13, <1>14, <1>15, <1>16 DEF IInv

\* Another game_info, the games being as many.
LEMMA GameChanges ==
  ASSUME NEW s \in Seq(GameInfo), NEW g \in DOMAIN s, NEW info \in GameInfo
  PROVE  LET t == [s EXCEPT ![g] = info]
         IN /\ t \in Seq(GameInfo)
            /\ Len(t) = Len(s) /\ DOMAIN t = DOMAIN s
            /\ t[g] = info
            /\ \A h \in DOMAIN s : h # g => t[h] = s[h]
  BY ExceptSeq

\* disconnect, whatever the state of its socket.
LEMMA DisconnectStep ==
  ASSUME IInv, NEW c \in Client, Disconnect(c),
         receives' \subseteq receives, sends' \in [Client -> Nat],
         UNCHANGED <<clientVars, stream, next_id, games, start_sent>>
  PROVE  IInv'
<1> DEFINE g0 == InfoOf(c).game
<1>1. TypeOK
  BY DEF IInv
<1>2. UNCHANGED <<phase, left, client_id, stream, next_id, games, start_sent>>
  BY DEF clientVars
<1>3. /\ DOMAIN sockets_info' = DOMAIN sockets_info \ {c}
      /\ \A d \in DOMAIN sockets_info' : sockets_info'[d] = sockets_info[d]
  BY DEF Disconnect
<1>4. /\ DOMAIN id_to_socket' = DOMAIN id_to_socket \ {InfoOf(c).id}
      /\ \A i \in DOMAIN id_to_socket' : id_to_socket'[i] = id_to_socket[i]
  BY DEF Disconnect
<1>5. closed' = closed \union {c} /\ game_info' = Without(game_info, g0, c)
  BY DEF Disconnect
<1>6. g0 # NoGame => /\ c \in DOMAIN sockets_info /\ g0 = sockets_info[c].game
                     /\ g0 \in DOMAIN game_info
  <2> SUFFICES ASSUME g0 # NoGame
               PROVE  /\ c \in DOMAIN sockets_info /\ g0 = sockets_info[c].game
                      /\ g0 \in DOMAIN game_info
    OBVIOUS
  <2>1. c \in DOMAIN sockets_info /\ g0 = sockets_info[c].game
    BY DEF InfoOf, BlankSocketInfo
  <2>2. g0 \in 0 .. Len(game_info) /\ game_info \in Seq(GameInfo)
    BY <1>1, <2>1 DEF TypeOK
  <2> QED
    BY <2>1, <2>2 DEF NoGame
<1>7. /\ game_info' \in Seq(GameInfo)
      /\ Len(game_info') = Len(game_info) /\ DOMAIN game_info' = DOMAIN game_info
      /\ \A g \in DOMAIN game_info :
           /\ game_info'[g].started = game_info[g].started
           /\ game_info'[g].players =
                SetToBag({d \in DOMAIN sockets_info' : sockets_info'[d].game = g})
  <2> DEFINE Of(g) == {d \in DOMAIN sockets_info : sockets_info[d].game = g}
             After(g) == {d \in DOMAIN sockets_info' : sockets_info'[d].game = g}
  <2>1. game_info \in Seq(GameInfo)
        /\ \A g \in DOMAIN game_info : game_info[g] \in GameInfo
    BY <1>1 DEF TypeOK
  <2>2. \A g \in DOMAIN game_info : game_info[g].players = SetToBag(Of(g))
    BY DEF PlayersMatchInfo, IInv
  <2>3. \A g : After(g) = Of(g) \ {c}
    BY <1>3
  <2>4. ASSUME NEW g \in DOMAIN game_info, g # g0
        PROVE  After(g) = Of(g)
    <3>1. c \notin Of(g)
      <4>1. c \in DOMAIN sockets_info => sockets_info[c].game = g0
        BY DEF InfoOf
      <4> QED
        BY <2>4, <4>1
    <3> QED
      BY <2>3, <3>1
  <2> HIDE DEF Of, After
  <2>5. CASE g0 = NoGame
    <3>1. game_info' = game_info
      BY <1>5, <2>5 DEF Without
    <3>2. \A g \in DOMAIN game_info : g # g0
      BY <2>1, <2>5 DEF NoGame
    <3> QED
      BY <2>1, <2>2, <2>4, <3>1, <3>2 DEF After
  <2>6. CASE g0 # NoGame
    <3> DEFINE info == [game_info[g0] EXCEPT !.players = BagRemoveAll(@, c)]
    <3>1. g0 \in DOMAIN game_info
      BY <1>6, <2>6
    <3>2. game_info' = [game_info EXCEPT ![g0] = info]
      BY <1>5, <2>6 DEF Without
    <3>3. info.players = SetToBag(After(g0))
      <4>1. info.players = BagRemoveAll(game_info[g0].players, c)
        BY <2>1, <3>1 DEF GameInfo
      <4> QED
        BY <2>2, <2>3, <3>1, <4>1, PlayerLeaves
    <3>4. info \in GameInfo /\ info.started = game_info[g0].started
      <4>1. After(g0) \subseteq Client
        BY <1>1, <1>3 DEF After, TypeOK
      <4> QED
        BY <2>1, <3>1, <3>3, <4>1 DEF GameInfo, Players
    <3> HIDE DEF info
    <3>5. /\ game_info' \in Seq(GameInfo)
          /\ Len(game_info') = Len(game_info) /\ DOMAIN game_info' = DOMAIN game_info
          /\ game_info'[g0] = info
          /\ \A h \in DOMAIN game_info : h # g0 => game_info'[h] = game_info[h]
      BY <2>1, <3>1, <3>2, <3>4, GameChanges
    <3> QED
      BY <2>2, <2>4, <3>3, <3>4, <3>5 DEF After
  <2> QED
    BY <2>5, <2>6
<1>8. TypeOK'
  BY <1>1, <1>2, <1>3, <1>4, <1>5, <1>7 DEF TypeOK
<1>9. ReadyOnce' /\ OffIsUnknown' /\ IdsDiffer'
  BY <1>2, <1>3 DEF ReadyOnce, OffIsUnknown, IdsDiffer, IInv
<1>10. IdsMatch'
  <2>1. \A i \in DOMAIN id_to_socket' : id_to_socket[i] # c
    <3> SUFFICES ASSUME NEW i \in DOMAIN id_to_socket', id_to_socket[i] = c
                 PROVE  FALSE
      OBVIOUS
    <3>1. c \in DOMAIN sockets_info /\ sockets_info[c].id = i
      BY <1>4 DEF IdsMatch, IInv
    <3> QED
      BY <1>4, <3>1 DEF InfoOf
  <2> QED
    BY <1>2, <1>3, <1>4, <2>1 DEF IdsMatch, IInv
<1>11. PlayersMatchInfo'
  BY <1>7 DEF PlayersMatchInfo
<1>12. JoinsOnce'
  BY <1>2, <1>3 DEF JoinsOnce, Outside, IInv
<1>13. StartedGames'
  <2>1. ASSUME NEW g \in DOMAIN game_info, game_info[g].started,
               NEW p \in BagToSet(game_info'[g].players)
        PROVE  sockets_info'[p].udp
    <3>1. p \in DOMAIN sockets_info' /\ sockets_info'[p].game = g
      <4> DEFINE after == {d \in DOMAIN sockets_info' : sockets_info'[d].game = g}
      <4>1. game_info'[g].players = SetToBag(after)
        BY <1>7
      <4> HIDE DEF after
      <4>2. p \in after
        BY <2>1, <4>1, PlayersOf
      <4> QED
        BY <4>2 DEF after
    <3>2. p \in BagToSet(game_info[g].players)
      <4>1. p \in {d \in DOMAIN sockets_info : sockets_info[d].game = g}
        BY <1>3, <3>1
      <4> QED
        BY <4>1, PlayersOf DEF PlayersMatchInfo, IInv
    <3> QED
      BY <1>3, <2>1, <3>1, <3>2 DEF StartedGames, IInv
  <2> QED
    BY <1>2, <1>7, <2>1 DEF StartedGames, IInv
<1>14. StartedPlayers'
  BY <1>2, <1>3, <1>7 DEF StartedPlayers, IInv
<1> QED
  BY <1>8, <1>9, <1>10, <1>11, <1>12, <1>13, <1>14 DEF IInv

\* What reading leaves of the streams.
LEMMA ReadStreams ==
  ASSUME IInv, NEW c \in Client, c \in receives, NEW n \in 1 .. Len(stream[c]),
         stream' = [stream EXCEPT ![c] = IF c \in closed THEN <<>>
                                          ELSE SubSeq(@, n + 1, Len(@))],
         phase' = phase
  PROVE  /\ stream' \in [Client -> Seq({"greetings!", "READY"})]
         /\ ReadyOnce'
         /\ \A d \in Client : phase[d] = "off" => stream'[d] = <<>>
         /\ \A d \in Client : Outside(d)' => Outside(d)
         /\ n = 1 /\ Head(stream[c]) = "READY" =>
              Outside(c) /\ ~Outside(c)'
<1>1. /\ stream \in [Client -> Streams]
      /\ phase[c] # "off"
      /\ phase[c] = "greeted" => stream[c] \in {<<>>, <<"greetings!">>}
  BY DEF IInv, ReadyOnce, OffIsUnknown, TypeOK
<1>2. stream[c] \in Streams
  BY <1>1
<1> DEFINE rest == SubSeq(stream[c], n + 1, Len(stream[c]))
<1>3. /\ rest \in Streams
      /\ rest \in {<<"READY">>, <<"greetings!", "READY">>}
           => stream[c] \in {<<"READY">>, <<"greetings!", "READY">>}
      /\ stream[c] = <<"greetings!">> => rest = <<>>
      /\ n = 1 /\ Head(stream[c]) = "READY" => stream[c] = <<"READY">> /\ rest = <<>>
  BY <1>2, StreamRest
<1>4. /\ stream' = [stream EXCEPT ![c] = IF c \in closed THEN <<>> ELSE rest]
      /\ stream[c] # <<>>
  OBVIOUS
<1> HIDE DEF rest
<1>5. /\ stream' \in [Client -> Streams]
      /\ stream'[c] \in {<<>>, rest}
      /\ \A d \in Client \ {c} : stream'[d] = stream[d]
  BY <1>1, <1>3, <1>4 DEF Streams
<1>6. stream' \in [Client -> Seq({"greetings!", "READY"})]
  BY <1>5, StreamsAreMessages
<1>7. ReadyOnce'
  <2>1. phase[c] = "greeted" => stream'[c] = <<>>
    BY <1>1, <1>3, <1>4, <1>5
  <2> QED
    BY <1>5, <2>1 DEF ReadyOnce, IInv
<1>8. \A d \in Client : phase[d] = "off" => stream'[d] = <<>>
  BY <1>1, <1>5 DEF OffIsUnknown, IInv
<1>9. \A d \in Client : Outside(d)' => Outside(d)
  <2>1. \A d \in Client \ {c} : Outside(d)' => Outside(d)
    BY <1>5 DEF Outside
  <2>2. Outside(c)' => Outside(c)
    <3>1. CASE stream'[c] = <<>>
      <4>1. <<>> # <<"READY">> /\ <<>> # <<"greetings!", "READY">>
        OBVIOUS
      <4>2. stream'[c] \notin {<<"READY">>, <<"greetings!", "READY">>}
        BY <3>1, <4>1
      <4> QED
        BY <4>2 DEF Outside
    <3>2. CASE stream'[c] = rest
      BY <1>3, <3>2 DEF Outside
    <3> QED
      BY <1>5, <3>1, <3>2
  <2> QED
    BY <2>1, <2>2
<1>10. n = 1 /\ Head(stream[c]) = "READY" => Outside(c) /\ ~Outside(c)'
  <2> SUFFICES ASSUME n = 1 /\ Head(stream[c]) = "READY"
               PROVE  Outside(c) /\ ~Outside(c)'
    OBVIOUS
  <2>1. stream[c] = <<"READY">> /\ stream'[c] = <<>>
    BY <1>3, <1>5
  <2>2. phase[c] # "greeted"
    <3>1. <<"READY">> # <<>> /\ <<"READY">> # <<"greetings!">>
      OBVIOUS
    <3> QED
      BY <1>1, <2>1, <3>1
  <2> QED
    BY <1>1, <2>1, <2>2 DEF Outside
<1> QED
  BY <1>6, <1>7, <1>8, <1>9, <1>10

\* Any read but of READY.
LEMMA OtherReceiveStep ==
  ASSUME IInv, NEW c \in Client, c \in receives, NEW n \in 1 .. Len(stream[c]),
         stream' = [stream EXCEPT ![c] = IF c \in closed THEN <<>>
                                          ELSE SubSeq(@, n + 1, Len(@))],
         UNCHANGED <<phase, left, client_id, next_id, sockets_info, id_to_socket,
                     games, game_info, receives, sends, closed, start_sent>>
  PROVE  IInv'
<1>1. /\ stream' \in [Client -> Seq({"greetings!", "READY"})]
      /\ ReadyOnce'
      /\ \A d \in Client : phase[d] = "off" => stream'[d] = <<>>
      /\ \A d \in Client : Outside(d)' => Outside(d)
  BY ReadStreams
<1>2. TypeOK'
  BY <1>1 DEF TypeOK, IInv
<1>3. OffIsUnknown' /\ IdsDiffer' /\ StartedPlayers'
  BY <1>1 DEF OffIsUnknown, IdsDiffer, StartedPlayers, IInv
<1>4. JoinsOnce'
  BY <1>1 DEF JoinsOnce, IInv
<1>5. Held'
  BY DEF Held, IdsMatch, PlayersMatchInfo, StartedGames, IInv
<1> QED
  BY <1>1, <1>2, <1>3, <1>4, <1>5 DEF IInv, Held

\* What the client that joins finds: its game gets one more player, and is not
\* one that was started.
LEMMA JoinGames ==
  ASSUME IInv, NEW c \in Client, c \in receives, Outside(c), JoinGame(c)
  PROVE  \E g \in Nat :
           /\ games' = [games EXCEPT ![Wants[c]] = g]
           /\ g # NoGame
           /\ game_info' \in Seq(GameInfo)
           /\ Len(game_info) <= Len(game_info')
           /\ g \in DOMAIN game_info' /\ g <= Len(game_info')
           /\ \A h \in DOMAIN game_info' : h = g \/ h \in DOMAIN game_info
           /\ \A h \in DOMAIN game_info :
                h # g => h \in DOMAIN game_info' /\ game_info'[h] = game_info[h]
           /\ ~game_info'[g].started
           /\ g \in DOMAIN game_info => ~game_info[g].started
           /\ game_info'[g].players =
                SetToBag({d \in DOMAIN sockets_info : sockets_info[d].game = g} \union {c})
           /\ sockets_info' = [d \in DOMAIN sockets_info \union {c} |->
                IF d = c THEN [InfoOf(c) EXCEPT !.game = g] ELSE sockets_info[d]]
<1> DEFINE l == Wants[c]
           g == IF games[l] = NoGame THEN Len(game_info) + 1 ELSE games[l]
           blank == [players |-> EmptyBag, nplayers |-> 0, started |-> FALSE]
           known == IF games[l] # NoGame THEN game_info ELSE Append(game_info, blank)
           info == [known[g] EXCEPT !.players = BagAdd(@, c), !.nplayers = NPlayers[l]]
           before == {d \in DOMAIN sockets_info : sockets_info[d].game = g}
<1>1. /\ TypeOK /\ l \in Level /\ NPlayers[l] \in Nat
      /\ game_info \in Seq(GameInfo) /\ Len(game_info) \in Nat
      /\ games[l] \in 0 .. Len(game_info)
      /\ DOMAIN sockets_info \subseteq Client
      /\ \A d \in DOMAIN sockets_info : sockets_info[d].game \in 0 .. Len(game_info)
  BY ClientAssumption, LevelAssumption DEF IInv, TypeOK
<1>2. InfoOf(c).game = NoGame
  BY DEF IInv, JoinsOnce, InfoOf, BlankSocketInfo
<1>3. blank \in GameInfo
  <2>1. {} \in SUBSET Client
    OBVIOUS
  <2> QED
    BY <2>1 DEF GameInfo, Players, EmptyBag
<1>4. g \in Nat /\ g # NoGame
  BY <1>1 DEF NoGame
<1>5. /\ known \in Seq(GameInfo) /\ Len(game_info) <= Len(known) /\ g \in DOMAIN known
      /\ g <= Len(known)
      /\ \A h \in DOMAIN known : h = g \/ h \in DOMAIN game_info
      /\ \A h \in DOMAIN game_info : h \in DOMAIN known /\ known[h] = game_info[h]
      /\ known[g].players = SetToBag(before)
      /\ ~known[g].started
  <2>1. CASE games[l] # NoGame
    <3>1. known = game_info /\ g = games[l] /\ g \in DOMAIN game_info
      BY <1>1, <2>1 DEF NoGame
    <3>2. ~game_info[g].started
      BY <1>1, <3>1 DEF StartedGames, IInv
    <3>3. game_info[g].players = SetToBag(before)
      BY <3>1 DEF PlayersMatchInfo, IInv
    <3> HIDE DEF g, known, before
    <3> QED
      BY <1>1, <3>1, <3>2, <3>3
  <2>2. CASE games[l] = NoGame
    <3>1. known = Append(game_info, blank) /\ g = Len(game_info) + 1
      BY <2>2
    <3> HIDE DEF blank, known
    <3>2. /\ known \in Seq(GameInfo) /\ Len(known) = Len(game_info) + 1
          /\ known[g] = blank
          /\ \A h \in 1 .. Len(game_info) : known[h] = game_info[h]
      BY <1>1, <1>3, <3>1, AppendProperties
    <3>3. before = {}
      BY <1>1, <3>1
    <3>4. blank.players = SetToBag({}) /\ ~blank.started
      BY DEF blank, EmptyBag
    <3> HIDE DEF g, before
    <3> QED
      BY <1>1, <3>1, <3>2, <3>3, <3>4
  <2> QED
    BY <2>1, <2>2
<1>6. g \in DOMAIN game_info => ~game_info[g].started
  BY <1>5
<1>7. /\ games' = [games EXCEPT ![l] = g]
      /\ game_info' = [known EXCEPT ![g] = info]
      /\ sockets_info' = [d \in DOMAIN sockets_info \union {c} |->
           IF d = c THEN [InfoOf(c) EXCEPT !.game = g] ELSE sockets_info[d]]
  <2>1. /\ games' = [games EXCEPT ![l] = g]
        /\ game_info' = [Without(known, InfoOf(c).game, c) EXCEPT
             ![g].players = BagAdd(@, c), ![g].nplayers = NPlayers[l]]
        /\ sockets_info' = [d \in DOMAIN sockets_info \union {c} |->
             IF d = c THEN [InfoOf(c) EXCEPT !.game = g] ELSE sockets_info[d]]
    BY DEF JoinGame
  <2>2. Without(known, InfoOf(c).game, c) = known
    BY <1>2 DEF Without
  <2> HIDE DEF known, g
  <2>3. game_info' = [known EXCEPT ![g] = info]
    BY <2>1, <2>2, <1>5
  <2> QED
    BY <2>1, <2>3
<1> HIDE DEF g, known
<1>8. info.players = SetToBag(before \union {c}) /\ info.started = known[g].started
  <2>1. known[g] \in GameInfo
    BY <1>5
  <2>2. info.players = BagAdd(known[g].players, c) /\ info.started = known[g].started
    BY <2>1 DEF GameInfo
  <2>3. c \notin before
    BY <1>2, <1>4 DEF InfoOf
  <2> QED
    BY <1>5, <2>2, <2>3, PlayerJoins
<1>9. info \in GameInfo
  <2>1. before \union {c} \subseteq Client
    BY <1>1
  <2>2. known[g] \in GameInfo
    BY <1>5
  <2> QED
    BY <1>1, <1>8, <2>1, <2>2 DEF GameInfo, Players
<1> HIDE DEF info, before
<1>10. /\ game_info' \in Seq(GameInfo)
       /\ Len(game_info') = Len(known) /\ DOMAIN game_info' = DOMAIN known
       /\ game_info'[g] = info
       /\ \A h \in DOMAIN known : h # g => game_info'[h] = known[h]
  BY <1>5, <1>7, <1>9, GameChanges
<1>11. game_info'[g].players =
         SetToBag({d \in DOMAIN sockets_info : sockets_info[d].game = g} \union {c})
  BY <1>8, <1>10 DEF before
<1> QED
  BY <1>4, <1>5, <1>6, <1>7, <1>8, <1>10, <1>11

\* READY.
LEMMA JoinStep ==
  ASSUME IInv, NEW c \in Client, c \in receives, NEW n \in 1 .. Len(stream[c]),
         n = 1, Head(stream[c]) = "READY", JoinGame(c),
         stream' = [stream EXCEPT ![c] = IF c \in closed THEN <<>>
                                          ELSE SubSeq(@, n + 1, Len(@))],
         UNCHANGED <<phase, left, client_id, next_id, id_to_socket, receives,
                     sends, closed, start_sent>>
  PROVE  IInv'
<1>1. /\ stream' \in [Client -> Seq({"greetings!", "READY"})]
      /\ ReadyOnce'
      /\ \A d \in Client : phase[d] = "off" => stream'[d] = <<>>
      /\ \A d \in Client : Outside(d)' => Outside(d)
      /\ Outside(c) /\ ~Outside(c)'
  BY ReadStreams
<1>2. PICK g \in Nat :
        /\ games' = [games EXCEPT ![Wants[c]] = g]
        /\ g # NoGame
        /\ game_info' \in Seq(GameInfo)
        /\ Len(game_info) <= Len(game_info')
        /\ g \in DOMAIN game_info' /\ g <= Len(game_info')
        /\ \A h \in DOMAIN game_info' : h = g \/ h \in DOMAIN game_info
        /\ \A h \in DOMAIN game_info :
             h # g => h \in DOMAIN game_info' /\ game_info'[h] = game_info[h]
        /\ ~game_info'[g].started
        /\ g \in DOMAIN game_info => ~game_info[g].started
        /\ game_info'[g].players =
             SetToBag({d \in DOMAIN sockets_info : sockets_info[d].game = g} \union {c})
        /\ sockets_info' = [d \in DOMAIN sockets_info \union {c} |->
             IF d = c THEN [InfoOf(c) EXCEPT !.game = g] ELSE sockets_info[d]]
  BY <1>1, JoinGames
<1>3. /\ TypeOK
      /\ game_info \in Seq(GameInfo) /\ Len(game_info) \in Nat /\ Len(game_info') \in Nat
      /\ games \in [Level -> 0 .. Len(game_info)]
      /\ DOMAIN sockets_info \subseteq Client
      /\ \A d \in DOMAIN sockets_info :
           sockets_info[d] \in SocketInfo /\ sockets_info[d].game \in 0 .. Len(game_info)
  BY <1>2 DEF IInv, TypeOK
<1>4. InfoOf(c) \in SocketInfo /\ InfoOf(c).game = NoGame
      /\ (c \in DOMAIN sockets_info => InfoOf(c) = sockets_info[c])
      /\ InfoOf(c).id \in {0, client_id[c]}
  <2>1. CASE c \in DOMAIN sockets_info
    <3>1. InfoOf(c) = sockets_info[c]
      BY <2>1 DEF InfoOf
    <3> QED
      BY <1>1, <1>3, <2>1, <3>1 DEF JoinsOnce, IdsMatch, IInv
  <2>2. CASE c \notin DOMAIN sockets_info
    BY <2>2 DEF InfoOf, BlankSocketInfo, SocketInfo, NoGame
  <2> QED
    BY <2>1, <2>2
<1>5. /\ DOMAIN sockets_info' = DOMAIN sockets_info \union {c}
      /\ \A d \in DOMAIN sockets_info \ {c} : sockets_info'[d] = sockets_info[d]
      /\ sockets_info'[c] \in SocketInfo
      /\ sockets_info'[c].game = g
      /\ sockets_info'[c].id = InfoOf(c).id
  <2>1. sockets_info'[c] = [InfoOf(c) EXCEPT !.game = g]
    BY <1>2
  <2>2. /\ sockets_info'[c] \in SocketInfo
        /\ sockets_info'[c].game = g /\ sockets_info'[c].id = InfoOf(c).id
    BY <1>2, <1>4, <2>1 DEF SocketInfo
  <2> QED
    BY <1>2, <2>2
<1>6. TypeOK'
  <2>1. games' \in [Level -> 0 .. Len(game_info')]
    <3>1. \A l \in Level : games[l] \in 0 .. Len(game_info')
      BY <1>2, <1>3
    <3>2. g \in 0 .. Len(game_info')
      BY <1>2, <1>3
    <3> QED
      BY <1>2, <1>3, <3>1, <3>2
  <2>2. \A d \in DOMAIN sockets_info' :
          sockets_info'[d] \in SocketInfo /\ sockets_info'[d].game \in 0 .. Len(game_info')
    <3>1. g \in 0 .. Len(game_info')
      BY <1>2, <1>3
    <3>2. \A d \in DOMAIN sockets_info : sockets_info[d].game \in 0 .. Len(game_info')
      BY <1>2, <1>3
    <3> QED
      BY <1>3, <1>5, <3>1, <3>2
  <2> QED
    BY <1>1, <1>2, <1>3, <1>5, <2>1, <2>2 DEF TypeOK
<1>7. OffIsUnknown'
  <2>1. phase[c] # "off"
    BY DEF OffIsUnknown, IInv
  <2> QED
    BY <1>1, <1>5, <2>1 DEF OffIsUnknown, IInv
<1>8. IdsDiffer'
  BY DEF IdsDiffer, IInv
<1>9. IdsMatch'
  <2>1. \A d \in DOMAIN sockets_info' : sockets_info'[d].id \in {0, client_id[d]}
    BY <1>4, <1>5 DEF IdsMatch, IInv
  <2>2. ASSUME NEW i \in DOMAIN id_to_socket
        PROVE  /\ id_to_socket[i] \in DOMAIN sockets_info'
               /\ sockets_info'[id_to_socket[i]].id = i
               /\ client_id[id_to_socket[i]] = i
    <3>1. /\ id_to_socket[i] \in DOMAIN sockets_info
          /\ sockets_info[id_to_socket[i]].id = i
          /\ client_id[id_to_socket[i]] = i
      BY DEF IdsMatch, IInv
    <3>2. CASE id_to_socket[i] = c
      BY <1>4, <1>5, <3>1, <3>2
    <3>3. CASE id_to_socket[i] # c
      BY <1>5, <3>1, <3>3
    <3> QED
      BY <3>2, <3>3
  <2> QED
    BY <2>1, <2>2 DEF IdsMatch
<1>10. PlayersMatchInfo'
  <2> DEFINE Of(h) == {d \in DOMAIN sockets_info : sockets_info[d].game = h}
             After(h) == {d \in DOMAIN sockets_info' : sockets_info'[d].game = h}
  <2>1. After(g) = Of(g) \union {c}
    BY <1>5
  <2>2. ASSUME NEW h \in DOMAIN game_info, h # g
        PROVE  After(h) = Of(h)
    <3>1. h # NoGame
      BY <1>3 DEF NoGame
    <3>2. c \notin Of(h)
      BY <1>4, <3>1
    <3>3. c \notin After(h)
      BY <1>5, <2>2
    <3> QED
      BY <1>5, <3>2, <3>3
  <2>3. \A h \in DOMAIN game_info : game_info[h].players = SetToBag(Of(h))
    BY DEF PlayersMatchInfo, IInv
  <2>4. game_info'[g].players = SetToBag(Of(g) \union {c})
    BY <1>2
  <2> HIDE DEF Of, After
  <2>5. \A h \in DOMAIN game_info' : game_info'[h].players = SetToBag(After(h))
    BY <1>2, <2>1, <2>2, <2>3, <2>4
  <2> QED
    BY <2>5 DEF After, PlayersMatchInfo
<1>11. JoinsOnce'
  <2>1. \A d \in Client : Outside(d)' => Outside(d) /\ d # c
    BY <1>1
  <2> QED
    BY <1>5, <2>1 DEF JoinsOnce, IInv
<1>12. StartedGames'
  <2> SUFFICES ASSUME NEW h \in DOMAIN game_info', game_info'[h].started
               PROVE  /\ \A l \in Level : games'[l] # h
                      /\ \A p \in BagToSet(game_info'[h].players) : sockets_info'[p].udp
    BY DEF StartedGames
  <2>1. h # g /\ h \in DOMAIN game_info /\ game_info'[h] = game_info[h]
    BY <1>2
  <2>2. \A l \in Level : games'[l] # h
    <3>1. \A l \in Level : games[l] # h
      BY <2>1 DEF StartedGames, IInv
    <3> QED
      BY <1>2, <1>3, <2>1, <3>1
  <2>3. ASSUME NEW p \in BagToSet(game_info[h].players)
        PROVE  sockets_info'[p].udp
    <3> DEFINE before == {d \in DOMAIN sockets_info : sockets_info[d].game = h}
    <3>1. game_info[h].players = SetToBag(before)
      BY <2>1 DEF PlayersMatchInfo, IInv
    <3>2. p \in before
      <4> HIDE DEF before
      <4> QED
        BY <2>3, <3>1, PlayersOf
    <3>3. h # NoGame
      BY <1>3, <2>1 DEF NoGame
    <3>4. p # c
      BY <1>4, <3>2, <3>3
    <3>5. sockets_info'[p] = sockets_info[p]
      BY <1>5, <3>2, <3>4
    <3> QED
      BY <2>1, <2>3, <3>5 DEF StartedGames, IInv
  <2> QED
    BY <2>1, <2>2, <2>3
<1>13. StartedPlayers'
  <2>1. c \notin start_sent
    BY <1>1 DEF JoinsOnce, IInv
  <2>2. ASSUME NEW d \in Client, d \in start_sent, d \in DOMAIN sockets_info'
        PROVE  /\ sockets_info'[d].game \in DOMAIN game_info'
               /\ game_info'[sockets_info'[d].game].started
    <3>1. d # c /\ d \in DOMAIN sockets_info /\ sockets_info'[d] = sockets_info[d]
      BY <1>5, <2>1, <2>2
    <3>2. /\ sockets_info[d].game \in DOMAIN game_info
          /\ game_info[sockets_info[d].game].started
      BY <2>2, <3>1 DEF StartedPlayers, IInv
    <3>3. sockets_info[d].game # g
      BY <1>2, <3>2
    <3> QED
      BY <1>2, <3>1, <3>2, <3>3
  <2> QED
    BY <2>2 DEF StartedPlayers, IInv
<1> QED
  BY <1>1, <1>6, <1>7, <1>8, <1>9, <1>10, <1>11, <1>12, <1>13 DEF IInv

LEMMA HandleReceiveStep ==
  ASSUME IInv, NEW c \in Client, HandleReceive(c)
  PROVE  IInv'
<1>1. PICK n \in 1 .. Len(stream[c]) :
        /\ stream' = [stream EXCEPT ![c] = IF c \in closed THEN <<>>
                                            ELSE SubSeq(@, n + 1, Len(@))]
        /\ IF n = 1 /\ Head(stream[c]) = "READY"
           THEN JoinGame(c)
           ELSE UNCHANGED <<games, game_info, sockets_info>>
  BY DEF HandleReceive
<1>2. c \in receives /\ UNCHANGED <<phase, left, client_id, next_id, id_to_socket,
                                    receives, sends, closed, start_sent>>
  BY DEF HandleReceive, clientVars
<1>3. CASE n = 1 /\ Head(stream[c]) = "READY"
  <2>1. JoinGame(c) /\ n = 1 /\ Head(stream[c]) = "READY"
    BY <1>1, <1>3
  <2> QED
    BY <1>1, <1>2, <2>1, JoinStep
<1>4. CASE ~(n = 1 /\ Head(stream[c]) = "READY")
  <2>1. UNCHANGED <<games, game_info, sockets_info>>
    BY <1>1, <1>4
  <2> QED
    BY <1>1, <1>2, <2>1, OtherReceiveStep
<1> QED
  BY <1>3, <1>4

\* The address of a client's socket is known from now on.
LEMMA Heard ==
  ASSUME IInv, NEW c \in Client, Known(c),
         sockets_info' = [sockets_info EXCEPT ![SocketOf(c)].udp = TRUE]
  PROVE  /\ SocketOf(c) \in DOMAIN sockets_info
         /\ DOMAIN sockets_info' = DOMAIN sockets_info
         /\ \A d \in DOMAIN sockets_info :
              /\ sockets_info'[d] \in SocketInfo
              /\ sockets_info'[d].id = sockets_info[d].id
              /\ sockets_info'[d].game = sockets_info[d].game
              /\ sockets_info[d].udp => sockets_info'[d].udp
<1>1. SocketOf(c) \in DOMAIN sockets_info
  BY DEF IdsMatch, IInv, Known, SocketOf
<1>2. \A d \in DOMAIN sockets_info : sockets_info[d] \in SocketInfo
  BY DEF IInv, TypeOK
<1> HIDE DEF SocketOf
<1>3. DOMAIN sockets_info' = DOMAIN sockets_info
  OBVIOUS
<1>4. ASSUME NEW d \in DOMAIN sockets_info
      PROVE  /\ sockets_info'[d] \in SocketInfo
             /\ sockets_info'[d].id = sockets_info[d].id
             /\ sockets_info'[d].game = sockets_info[d].game
             /\ sockets_info[d].udp => sockets_info'[d].udp
  <2>1. CASE d = SocketOf(c)
    <3>1. sockets_info'[d] = [sockets_info[d] EXCEPT !.udp = TRUE]
      BY <2>1
    <3> QED
      BY <1>2, <3>1 DEF SocketInfo
  <2>2. CASE d # SocketOf(c)
    <3>1. sockets_info'[d] = sockets_info[d]
      BY <2>2
    <3> QED
      BY <1>2, <3>1
  <2> QED
    BY <2>1, <2>2
<1> QED
  BY <1>1, <1>3, <1>4

\* What only a packet of a client changes.
LEMMA HeardStep ==
  ASSUME IInv, NEW c \in Client, Known(c),
         sockets_info' = [sockets_info EXCEPT ![SocketOf(c)].udp = TRUE],
         UNCHANGED <<phase, left, client_id, stream, next_id, id_to_socket,
                     games, game_info, receives, sends, closed, start_sent>>
  PROVE  IInv'
<1>1. /\ DOMAIN sockets_info' = DOMAIN sockets_info
      /\ \A d \in DOMAIN sockets_info :
           /\ sockets_info'[d] \in SocketInfo
           /\ sockets_info'[d].id = sockets_info[d].id
           /\ sockets_info'[d].game = sockets_info[d].game
           /\ sockets_info[d].udp => sockets_info'[d].udp
  BY Heard
<1>2. TypeOK'
  BY <1>1 DEF TypeOK, IInv
<1>3. ReadyOnce' /\ OffIsUnknown' /\ IdsDiffer'
  BY <1>1 DEF ReadyOnce, OffIsUnknown, IdsDiffer, IInv
<1>4. IdsMatch'
  BY <1>1 DEF IdsMatch, IInv
<1>5. PlayersMatchInfo'
  <2>1. \A g : {d \in DOMAIN sockets_info' : sockets_info'[d].game = g}
                 = {d \in DOMAIN sockets_info : sockets_info[d].game = g}
    BY <1>1
  <2> QED
    BY <2>1 DEF PlayersMatchInfo, IInv
<1>6. JoinsOnce' /\ StartedPlayers'
  BY <1>1 DEF JoinsOnce, Outside, StartedPlayers, IInv
<1>7. StartedGames'
  <2>1. ASSUME NEW g \in DOMAIN game_info, NEW p \in BagToSet(game_info[g].players)
        PROVE  p \in DOMAIN sockets_info
    BY PlayersOf DEF PlayersMatchInfo, IInv
  <2> QED
    BY <1>1, <2>1 DEF StartedGames, IInv
<1> QED
  BY <1>2, <1>3, <1>4, <1>5, <1>6, <1>7 DEF IInv

\* The game of the client starts.
LEMMA StartStep ==
  ASSUME IInv, NEW c \in Client, Known(c),
         sockets_info' = [sockets_info EXCEPT ![SocketOf(c)].udp = TRUE],
         NEW g, g = sockets_info[SocketOf(c)].game,
         MayStart(g, sockets_info'), Start(g),
         UNCHANGED <<phase, left, client_id, stream, next_id, id_to_socket,
                     receives, closed>>
  PROVE  IInv'
<1>1. /\ SocketOf(c) \in DOMAIN sockets_info
      /\ DOMAIN sockets_info' = DOMAIN sockets_info
      /\ \A d \in DOMAIN sockets_info :
           /\ sockets_info'[d] \in SocketInfo
           /\ sockets_info'[d].id = sockets_info[d].id
           /\ sockets_info'[d].game = sockets_info[d].game
           /\ sockets_info[d].udp => sockets_info'[d].udp
  BY Heard
<1>2. /\ TypeOK
      /\ game_info \in Seq(GameInfo) /\ Len(game_info) \in Nat
      /\ games \in [Level -> 0 .. Len(game_info)]
      /\ DOMAIN sockets_info \subseteq Client
      /\ \A h \in DOMAIN game_info : game_info[h] \in GameInfo /\ h # NoGame
  BY DEF IInv, TypeOK, NoGame
<1>3. /\ g # NoGame /\ ~game_info[g].started
      /\ \A p \in BagToSet(game_info[g].players) : sockets_info'[p].udp
  BY DEF MayStart
<1>4. g \in DOMAIN game_info
  <2>1. g \in 0 .. Len(game_info)
    BY <1>1, <1>2 DEF TypeOK
  <2> QED
    BY <1>2, <1>3, <2>1 DEF NoGame
<1> DEFINE players == BagToSet(game_info[g].players)
<1>5. players = {d \in DOMAIN sockets_info : sockets_info[d].game = g}
  BY <1>4, PlayersOf DEF PlayersMatchInfo, IInv
<1>6. /\ start_sent' = start_sent \union players
      /\ sends' = [d \in Client |-> IF d \in players THEN sends[d] + 1 ELSE sends[d]]
      /\ games' = [l \in Level |-> IF games[l] = g THEN NoGame ELSE games[l]]
      /\ game_info' = [game_info EXCEPT ![g].started = TRUE]
  BY DEF Start
<1> HIDE DEF players
<1>7. /\ game_info' \in Seq(GameInfo)
      /\ Len(game_info') = Len(game_info) /\ DOMAIN game_info' = DOMAIN game_info
      /\ game_info'[g].started
      /\ \A h \in DOMAIN game_info : /\ game_info'[h].players = game_info[h].players
                                     /\ game_info[h].started => game_info'[h].started
                                     /\ h # g => game_info'[h] = game_info[h]
  <2> DEFINE info == [game_info[g] EXCEPT !.started = TRUE]
  <2>1. /\ info \in GameInfo /\ info.started
        /\ info.players = game_info[g].players
    BY <1>2, <1>4 DEF GameInfo
  <2>2. game_info' = [game_info EXCEPT ![g] = info]
    BY <1>4, <1>6
  <2> HIDE DEF info
  <2>3. /\ game_info' \in Seq(GameInfo)
        /\ Len(game_info') = Len(game_info) /\ DOMAIN game_info' = DOMAIN game_info
        /\ game_info'[g] = info
        /\ \A h \in DOMAIN game_info : h # g => game_info'[h] = game_info[h]
    BY <1>2, <1>4, <2>1, <2>2, GameChanges
  <2> QED
    BY <2>1, <2>3
<1>8. TypeOK'
  <2>1. games' \in [Level -> 0 .. Len(game_info')]
    <3>1. NoGame \in 0 .. Len(game_info)
      BY <1>2 DEF NoGame
    <3> QED
      BY <1>2, <1>6, <1>7, <3>1
  <2>2. start_sent' \subseteq Client /\ sends' \in [Client -> Nat]
    BY <1>2, <1>5, <1>6 DEF TypeOK
  <2> QED
    BY <1>1, <1>2, <1>7, <2>1, <2>2 DEF TypeOK
<1>9. ReadyOnce' /\ OffIsUnknown' /\ IdsDiffer' /\ IdsMatch'
  BY <1>1 DEF ReadyOnce, OffIsUnknown, IdsDiffer, IdsMatch, IInv
<1>10. PlayersMatchInfo'
  <2>1. \A h : {d \in DOMAIN sockets_info' : sockets_info'[d].game = h}
                 = {d \in DOMAIN sockets_info : sockets_info[d].game = h}
    BY <1>1
  <2> QED
    BY <1>7, <2>1 DEF PlayersMatchInfo, IInv
<1>11. JoinsOnce'
  <2>1. ASSUME NEW d \in Client, Outside(d)
        PROVE  d \notin players
    BY <1>3, <1>5, <2>1 DEF JoinsOnce, IInv
  <2>2. \A d \in Client : Outside(d)' <=> Outside(d)
    BY DEF Outside
  <2> QED
    BY <1>1, <1>6, <2>1, <2>2 DEF JoinsOnce, IInv
<1>12. StartedGames'
  <2> SUFFICES ASSUME NEW h \in DOMAIN game_info, game_info'[h].started
               PROVE  /\ \A l \in Level : games'[l] # h
                      /\ \A p \in BagToSet(game_info'[h].players) : sockets_info'[p].udp
    BY <1>7 DEF StartedGames
  <2>1. CASE h = g
    BY <1>2, <1>3, <1>6, <1>7, <2>1
  <2>2. CASE h # g
    <3>1. game_info[h].started
      BY <1>7, <2>2
    <3>2. \A p \in BagToSet(game_info[h].players) : p \in DOMAIN sockets_info
      BY PlayersOf DEF PlayersMatchInfo, IInv
    <3> QED
      BY <1>1, <1>2, <1>6, <1>7, <2>2, <3>1, <3>2 DEF StartedGames, IInv
  <2> QED
    BY <2>1, <2>2
<1>13. StartedPlayers'
  <2>1. ASSUME NEW d \in Client, d \in start_sent', d \in DOMAIN sockets_info
        PROVE  /\ sockets_info'[d].game \in DOMAIN game_info'
               /\ game_info'[sockets_info'[d].game].started
    <3>1. CASE d \in players
      BY <1>1, <1>4, <1>5, <1>7, <3>1
    <3>2. CASE d \in start_sent
      BY <1>1, <1>7, <2>1, <3>2 DEF StartedPlayers, IInv
    <3> QED
      BY <1>6, <2>1, <3>1, <3>2
  <2> QED
    BY <1>1, <1>6, <2>1 DEF StartedPlayers, IInv
<1> QED
  BY <1>8, <1>9, <1>10, <1>11, <1>12, <1>13 DEF IInv

LEMMA NextInv == IInv /\ [Next]_vars => IInv'
<1> SUFFICES ASSUME IInv, [Next]_vars
             PROVE  IInv'
  OBVIOUS
<1>1. TypeOK
  BY DEF IInv
<1>2. ASSUME NEW c \in Client, Leave(c)
      PROVE  IInv'
  <2>1. left' \subseteq Client /\ sends' \in [Client -> Nat]
    BY <1>1, <1>2 DEF Leave, TypeOK
  <2> QED
    BY <1>2, <2>1, OtherSteps DEF Leave
<1>3. ASSUME NEW c \in Client, HandleSend(c)
      PROVE  IInv'
  <2>1. left' \subseteq Client /\ sends' \in [Client -> Nat]
    BY <1>1, <1>3 DEF HandleSend, TypeOK, clientVars
  <2> QED
    BY <1>3, <2>1, OtherSteps DEF HandleSend, clientVars
<1>4. ASSUME NEW c \in Client, ReceiveError(c)
      PROVE  IInv'
  <2>1. receives' \subseteq receives /\ sends' \in [Client -> Nat]
    BY <1>1, <1>4 DEF ReceiveError, TypeOK
  <2> QED
    BY <1>4, <2>1, DisconnectStep DEF ReceiveError
<1>5. ASSUME NEW c \in Client, SendError(c)
      PROVE  IInv'
  <2>1. receives' \subseteq receives /\ sends' \in [Client -> Nat]
    BY <1>1, <1>5 DEF SendError, TypeOK
  <2> QED
    BY <1>5, <2>1, DisconnectStep DEF SendError
<1>6. ASSUME NEW c \in Client, HandleKeepalive(c)
      PROVE  IInv'
  <2> DEFINE g == sockets_info[SocketOf(c)].game
  <2>1. /\ Known(c)
        /\ sockets_info' = [sockets_info EXCEPT ![SocketOf(c)].udp = TRUE]
        /\ IF MayStart(g, sockets_info')
           THEN Start(g)
           ELSE UNCHANGED <<start_sent, sends, game_info, games>>
        /\ UNCHANGED <<phase, left, client_id, stream, next_id, id_to_socket,
                       receives, closed>>
    BY <1>6 DEF HandleKeepalive, clientVars
  <2>2. CASE MayStart(g, sockets_info')
    <3>1. Start(g)
      BY <2>1, <2>2
    <3> QED
      BY <2>1, <2>2, <3>1, StartStep
  <2>3. CASE ~MayStart(g, sockets_info')
    <3>1. UNCHANGED <<start_sent, sends, game_info, games>>
      BY <2>1, <2>3
    <3> QED
      BY <2>1, <3>1, HeardStep
  <2> QED
    BY <2>2, <2>3
<1>7. ASSUME NEW c \in Client, HandleRelay(c)
      PROVE  IInv'
  BY <1>7, HeardStep DEF HandleRelay, clientVars
<1>8. CASE UNCHANGED vars
  <2>1. left' \subseteq Client /\ sends' \in [Client -> Nat]
    BY <1>1, <1>8 DEF TypeOK, vars
  <2> QED
    BY <1>8, <2>1, OtherSteps DEF vars
<1> QED
  BY <1>2, <1>3, <1>4, <1>5, <1>6, <1>7, <1>8, HandleAcceptStep, SendReadyStep,
     ReadStartStep, HandleReceiveStep
     DEF Next

\* Steps that give and take no ids: a socket keeps its id, or comes back with 0.
LEMMA IdsKept ==
  ASSUME OnlyFirstUnreachable, UNCHANGED <<client_id, id_to_socket>>,
         \A d \in DOMAIN sockets_info' :
           \/ sockets_info'[d].id = 0
           \/ d \in DOMAIN sockets_info /\ sockets_info'[d].id = sockets_info[d].id
  PROVE  OnlyFirstUnreachable'
  BY DEF OnlyFirstUnreachable, Known, SocketOf

LEMMA DisconnectReach ==
  ASSUME IInv, OnlyFirstUnreachable, NEW c \in Client, Disconnect(c),
         UNCHANGED client_id
  PROVE  OnlyFirstUnreachable'
<1>1. /\ DOMAIN sockets_info' = DOMAIN sockets_info \ {c}
      /\ \A d \in DOMAIN sockets_info' : sockets_info'[d] = sockets_info[d]
      /\ DOMAIN id_to_socket' = DOMAIN id_to_socket \ {InfoOf(c).id}
      /\ \A i \in DOMAIN id_to_socket' : id_to_socket'[i] = id_to_socket[i]
  BY DEF Disconnect
<1>2. \/ InfoOf(c).id = 0
      \/ InfoOf(c).id = client_id[c] /\ phase[c] # "off"
  BY DEF InfoOf, BlankSocketInfo, IdsMatch, OffIsUnknown, IInv
<1>3. ASSUME NEW d \in DOMAIN sockets_info', sockets_info'[d].id # 0
      PROVE  (Known(d) /\ SocketOf(d) = d)'
  <2>1. d \in DOMAIN sockets_info /\ d # c /\ d \in Client /\ sockets_info[d].id = client_id[d]
        /\ client_id[d] # 0
    BY <1>1, <1>3 DEF IdsMatch, IInv, TypeOK
  <2>2. phase[d] # "off"
    BY <2>1 DEF OffIsUnknown, IInv
  <2>3. client_id[d] # InfoOf(c).id
    BY <1>2, <2>1, <2>2 DEF IdsDiffer, IInv
  <2>4. Known(d) /\ SocketOf(d) = d
    BY <2>1 DEF OnlyFirstUnreachable
  <2> QED
    BY <1>1, <1>2, <2>1, <2>3, <2>4 DEF Known, SocketOf
<1> QED
  BY <1>3 DEF OnlyFirstUnreachable

LEMMA AcceptReach ==
  ASSUME IInv, OnlyFirstUnreachable, NEW c \in Client, HandleAccept(c)
  PROVE  OnlyFirstUnreachable'
<1>1. /\ TypeOK /\ phase[c] = "off" /\ c \notin DOMAIN sockets_info
      /\ client_id' = [client_id EXCEPT ![c] = next_id]
      /\ DOMAIN sockets_info' = DOMAIN sockets_info \union {c}
      /\ \A d \in DOMAIN sockets_info : sockets_info'[d] = sockets_info[d]
      /\ DOMAIN id_to_socket' = DOMAIN id_to_socket \union {next_id}
      /\ \A i \in DOMAIN id_to_socket : i # next_id => id_to_socket'[i] = id_to_socket[i]
      /\ id_to_socket'[next_id] = c
  BY DEF HandleAccept, NewId, OffIsUnknown, IInv
<1>2. DOMAIN id_to_socket \subseteq 0 .. next_id - 1 /\ next_id \in Nat
      /\ client_id \in [Client -> Nat \union {-1}]
  BY <1>1 DEF TypeOK
<1>3. (Known(c) /\ SocketOf(c) = c)'
  BY <1>1, <1>2 DEF Known, SocketOf
<1>4. ASSUME NEW d \in DOMAIN sockets_info
      PROVE  sockets_info'[d].id = 0 \/ (Known(d) /\ SocketOf(d) = d)'
  <2>1. d # c /\ client_id'[d] = client_id[d] /\ sockets_info'[d] = sockets_info[d]
    BY <1>1, <1>2 DEF TypeOK
  <2>2. sockets_info[d].id = 0 \/ (Known(d) /\ SocketOf(d) = d)
    BY DEF OnlyFirstUnreachable
  <2> QED
    BY <1>1, <1>2, <2>1, <2>2 DEF Known, SocketOf
<1> QED
  BY <1>1, <1>3, <1>4 DEF OnlyFirstUnreachable

LEMMA NextReach ==
  IInv /\ OnlyFirstUnreachable /\ [Next]_vars => OnlyFirstUnreachable'
<1> SUFFICES ASSUME IInv, OnlyFirstUnreachable, [Next]_vars
             PROVE  OnlyFirstUnreachable'
  OBVIOUS
<1>1. ASSUME NEW c \in Client, SendReady(c) \/ ReadStart(c) \/ Leave(c) \/ HandleSend(c)
      PROVE  OnlyFirstUnreachable'
  <2>1. UNCHANGED <<client_id, id_to_socket, sockets_info>>
    BY <1>1 DEF SendReady, ReadStart, Leave, HandleSend, clientVars
  <2> QED
    BY <2>1, IdsKept
<1>2. ASSUME NEW c \in Client, ReceiveError(c) \/ SendError(c)
      PROVE  OnlyFirstUnreachable'
  BY <1>2, DisconnectReach DEF ReceiveError, SendError, clientVars
<1>3. ASSUME NEW c \in Client, HandleKeepalive(c) \/ HandleRelay(c)
      PROVE  OnlyFirstUnreachable'
  <2>1. /\ Known(c)
        /\ sockets_info' = [sockets_info EXCEPT ![SocketOf(c)].udp = TRUE]
        /\ UNCHANGED <<client_id, id_to_socket>>
    BY <1>3 DEF HandleKeepalive, HandleRelay, clientVars
  <2>2. \A d \in DOMAIN sockets_info' :
          d \in DOMAIN sockets_info /\ sockets_info'[d].id = sockets_info[d].id
    BY <2>1, Heard
  <2> QED
    BY <2>1, <2>2, IdsKept
<1>4. ASSUME NEW c \in Client, HandleReceive(c)
      PROVE  OnlyFirstUnreachable'
  <2>1. UNCHANGED <<client_id, id_to_socket>>
    BY <1>4 DEF HandleReceive, clientVars
  <2>2. CASE sockets_info' = sockets_info
    BY <2>1, <2>2, IdsKept
  <2>3. CASE JoinGame(c)
    <3>1. PICK g : sockets_info' = [d \in DOMAIN sockets_info \union {c} |->
                     IF d = c THEN [InfoOf(c) EXCEPT !.game = g] ELSE sockets_info[d]]
      BY <2>3 DEF JoinGame
    <3>2. InfoOf(c) \in SocketInfo
          /\ (c \in DOMAIN sockets_info => InfoOf(c) = sockets_info[c])
          /\ (c \notin DOMAIN sockets_info => InfoOf(c).id = 0)
      BY DEF InfoOf, BlankSocketInfo, SocketInfo, NoGame, IInv, TypeOK
    <3>3. sockets_info'[c] = [InfoOf(c) EXCEPT !.game = g]
      BY <3>1
    <3>4. sockets_info'[c].id = InfoOf(c).id
      BY <3>2, <3>3 DEF SocketInfo
    <3>5. \A d \in DOMAIN sockets_info' : d # c =>
            d \in DOMAIN sockets_info /\ sockets_info'[d] = sockets_info[d]
      BY <3>1
    <3>6. \A d \in DOMAIN sockets_info' :
            \/ sockets_info'[d].id = 0
            \/ d \in DOMAIN sockets_info /\ sockets_info'[d].id = sockets_info[d].id
      BY <3>2, <3>4, <3>5
    <3> QED
      BY <2>1, <3>6, IdsKept
  <2> QED
    BY <1>4, <2>2, <2>3 DEF HandleReceive
<1>5. CASE UNCHANGED vars
  BY <1>5, IdsKept DEF vars
<1> QED
  BY <1>1, <1>2, <1>3, <1>4, <1>5, AcceptReach DEF Next

-----------------------------------------------------------------------------
(* The theorems.                                                           *)

\* The invariant, and that ids lead to their clients, hold for any clients.
THEOREM GameServerInvariant == Spec => [](IInv /\ OnlyFirstUnreachable)
<1>1. Init => IInv /\ OnlyFirstUnreachable
  <2>1. Init => OnlyFirstUnreachable
    BY DEF Init, OnlyFirstUnreachable
  <2> QED
    BY <2>1, InitInv
<1>2. IInv /\ OnlyFirstUnreachable /\ [Next]_vars => (IInv /\ OnlyFirstUnreachable)'
  BY NextInv, NextReach
<1> QED
  BY <1>1, <1>2, PTL DEF Spec

\* Every variable of the server keeps its shape, with any number of sockets.
THEOREM GameServerTypes == Spec => []TypeOK
<1>1. IInv => TypeOK
  BY DEF IInv
<1> QED
  BY <1>1, GameServerInvariant, PTL

\* Disconnects that run twice make unreachable none but the client with id 0.
THEOREM OthersStayReachable == Spec => []OnlyFirstUnreachable
  BY GameServerInvariant, PTL

\* The players of a game are the sockets that name it, each once, whatever order
\* reads, failed writes and disconnects come in.
THEOREM PlayersAlwaysMatch == Spec => []PlayersMatchInfo
<1>1. IInv => PlayersMatchInfo
  BY DEF IInv
<1> QED
  BY <1>1, GameServerInvariant, PTL

\* No packet of a running game is relayed to an address that is not known, and
\* no id is looked up whose socket is gone (server.cpp:183 and :250).
THEOREM RelayTargetsAreKnown == Spec => []RelayTargetsKnown
<1>1. IInv => RelayTargetsKnown
  <2> SUFFICES ASSUME IInv
               PROVE  RelayTargetsKnown
    OBVIOUS
  <2>1. SocketsKnown
    BY DEF SocketsKnown, IdsMatch, IInv
  <2>2. ASSUME NEW c \in Client, phase[c] = "playing", Known(c),
               NEW p \in BagToSet(game_info[sockets_info[SocketOf(c)].game].players)
        PROVE  sockets_info[p].udp
    <3>1. /\ SocketOf(c) \in DOMAIN sockets_info
          /\ client_id[SocketOf(c)] = client_id[c]
      BY <2>2 DEF Known, SocketOf, IdsMatch, IInv
    <3>2. SocketOf(c) \in Client /\ phase[SocketOf(c)] # "off"
      BY <3>1 DEF OffIsUnknown, TypeOK, IInv
    <3>3. SocketOf(c) = c
      BY <2>2, <3>1, <3>2 DEF IdsDiffer, IInv
    <3>4. /\ sockets_info[c].game \in DOMAIN game_info
          /\ game_info[sockets_info[c].game].started
      BY <2>2, <3>1, <3>3 DEF StartedPlayers, IInv
    <3> QED
      BY <2>2, <3>3, <3>4 DEF StartedGames, IInv
  <2> QED
    BY <2>1, <2>2 DEF RelayTargetsKnown
<1> QED
  BY <1>1, GameServerInvariant, PTL

=============================================================================
