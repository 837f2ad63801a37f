# Verification of Cube Trains Redux

TLA+ specifications of the concurrent and networked parts of the Cube Trains
engine (the Frogatto C++ engine under `src/src`, the game's data under
`src/modules/cube_trains`, and `src/lobby-server.py`), with TLC runs on small
instances and TLAPS proofs for all instances.

`PROJECT.json` lists the components, runs, mutants, the source lines each
definition models, findings, hazards and theorems. This file explains them.

## 1. The system

The engine runs levels at 50 cycles per second in one game thread. Around that
thread there are:

| Component | Code | State | Operations | Talks to |
|---|---|---|---|---|
| Networked game loop | `controls.cpp`, `multiplayer.cpp` 500-540, `level::process`, `level_runner::play_cycle` | per peer: the inputs of every player, the highest confirmed cycle of each, the highest cycle each has confirmed of ours, the first corrected cycle | sample and send inputs, receive packets, give an input to the simulation or wait for it, give up | the same loop on other machines, over UDP |
| Start handshake | `multiplayer.cpp` 66-498 | server-given id, slot, peers' endpoints, peers heard, latencies, delay, advised starts | connect, READY, keepalives, START, confirm peers, ping, agree on a delay and a start | rendezvous server (TCP, UDP), peers (UDP), the game loop's delay |
| Rendezvous server | `server.cpp` | sockets, ids, games that gather players, started games | accept, receive READY, keepalive, START, relay, disconnect | clients of the above |
| TBS server | `tbs_server.cpp`, `tbs_game.cpp`, `tbs_web_server.cpp` | sessions with message queues, games, waiting connections | create, observe, start, quit games; long polls, heartbeats | HTTP clients |
| HTTP and TBS clients | `http_client.cpp`, `http_server.cpp`, `tbs_client.cpp`, `tbs_bot.cpp` | connections in flight | resolve, connect, send in parts, receive | web servers |
| Statistics upload | `stats.cpp` | records, queue of messages, exit flag | record, flush, quit; background thread | statistics server |
| Background tasks | `background_task_pool.cpp`, `thread.cpp` | map of tasks, ids of completed tasks | submit, pump, destroy | one thread per task |
| Tile rebuild | `level.cpp` 748-948 | flags, two layer buffers, thread, tiles | request, freeze, unfreeze, complete, rebuild at once | editor, one thread |
| Level history | `level.cpp` 3959-4171, `level_runner.cpp`, `controls.cpp` 193-215 | deque of snapshots, the record of inputs, pausing | back up, rewind, move the slider, predict, pause, start and close the editor, reset | the loop's inputs, the editor |
| Editor commands | `editor.cpp` | undo and redo lists, the temporary command of a drag | execute, undo, redo, group | level, tile rebuild |
| Lobby server | `lobby-server.py` | sessions by name, timers, deferred requests | login, get_status, timeouts | HTTP clients, TBS server |
| Game logic | `modules/cube_trains/data` (FFL) | tracks, trains, cursor | lay and remove track, run trains | engine events |
| Formula language, simulation, rendering, GUI, platform | the rest of `src/src` | | sequential, data-driven | |

What is hard: unreliable delivery and mutual waiting in the game loop; handlers
of the servers that meet sockets and sessions in every stage of their life; peers
that must start together although no packet is sure to arrive; timers that race
with requests; three places where a thread shares state with the game thread;
histories that are rewound and played again.
`PROJECT.json` lists the hazards line by line, with the properties that would
notice each going wrong, or the reason why none does yet.

What makes each component correct:

* game loop: all peers simulate the same inputs, those the players gave, and no
  peer waits forever;
* rendezvous server: its tables agree, a full game starts, relaying finds its
  targets;
* statistics: a flushed record reaches the server, quitting returns;
* tasks: each completes exactly once, the destructor returns;
* tile rebuild: what is drawn catches up with what was edited;
* start handshake: whoever comes to it gets to the start, all start together and
  with one delay;
* TBS server: what was written for a client is told to that client and to nobody
  else, every message leaves, games and clients point to each other, the lobby
  knows what there is;
* lobby: a session that is used does not expire, one that is not used is forgotten;
* history: going back restores what was, playing again uses the inputs there were,
  predicting leaves no trace;
* editor: undo after execute restores the level, redo repeats it;
* game logic: joined tracks agree from both sides; a train stays on its track.

## 2. Modules

| Module | Models | Runs |
|---|---|---|
| `SharedInput` | what the game loop promises: one shared, append-only record of inputs from which all peers simulate in order | |
| `Lockstep` | the game loop of all peers and the network between them | |
| `MCLockstep` | small instances of `Lockstep` | `lockstep_safety`, `lockstep_loss` |
| `LockstepProofs` | inductive invariant and safety theorems of `Lockstep`, and that it implements `SharedInput` | |
| `GameServer` | the rendezvous server and its clients up to START | |
| `MCGameServer` | a small instance of `GameServer` | `server` |
| `GameServerProofs` | inductive invariant and safety theorems of `GameServer` | |
| `SyncStart` | the peers from START to the first cycle, with time and latencies | `sync_start`, `sync_alone` |
| `SyncStartProofs` | the confirmation loop ends only with all peers heard; inductive invariant of the times, peers start neither early nor late; with few losses, by deadlines, all use one delay and start on time | |
| `TbsServer` | the server of turn-based games, its clients and the lobby's polls | |
| `MCTbsServer` | a small instance of `TbsServer` | `tbs` |
| `TbsProofs` | clients and games agree, everyone is told their own view | |
| `LobbySessions` | the lobby's sessions of one name, with their timers | `lobby` |
| `LobbyProofs` | inductive invariant and safety theorems of `LobbySessions` | |
| `LevelHistory` | snapshots, inputs and the frames that move in them | `history` |
| `LevelHistoryProofs` | all safety properties of `LevelHistory` | |
| `StatsUpload` | game thread and uploader of the statistics | `stats_upload` |
| `StatsUploadProofs` | inductive invariant and safety theorems of `StatsUpload` | |
| `TaskPool` | task pool, its threads and the pumping game thread | `pool_safety`, `pool_lock` |
| `TileRebuild` | tile rebuilding, its thread and the editor's requests | `tiles_rebuild` |
| `BackgroundProofs` | inductive invariants and safety theorems of `TaskPool` and of `TileRebuild`, which share nothing | |

The parts join where one hands its result to the next. `GameServer` ends with
START, which `SyncStart` begins with (`Launch`). `SyncStart` ends with every peer's
input delay, which is the constant `Delay` of `Lockstep`: `SameDelay`, which
`PeersUseOneDelay` proves where few packets are lost, is what
`EqualDelaysPlaySameGame` in `LockstepProofs` assumes of two peers, and the
packets of peers that started earlier, which `NoneStartsEarly` and `NoneStartsLate`
bound, are those `Lockstep` may lose. `LevelHistory` is the single-player use of the inputs that
`Lockstep` shares.

Definitions are named after the functions they model. Variables keep the names
of the code. A definition whose name extends another's (`WaitingLax` before
`Waiting`) is a plausible mistake in that code; it is not part of the model, and
shows that some property would notice the mistake.

### Lockstep

A peer's cycle has three parts. `StartCycle` is the head of `play_cycle`
(clearing the first corrected cycle, for `replay_from_cycle` has no body),
`read_local_controls` (append the own input, pad the other players' vectors with
predictions) and `write_control_packet`, sent to all peers. Then each player's
object reads its input: `GetControlStatus`, which must not happen while
`Waiting`. Packets arrive in `ReadControlPacket`, which runs where the code calls
`multiplayer::receive`: right after sending, and in the loop that waits. A wait
that reaches its end throws: `RemoteHostTimedOut`.

`sent` only grows and any packet in it can be received again, so the network
delays, repeats and reorders; `Lose` takes a packet away from one receiver.
A vector indexed from 0 is a sequence indexed from 1. The checksum in the packet
is only logged and left out. Levels are counted from `starting_cycles`. The
model begins when every peer has called `set_multiplayer_slot`; packets of peers
that began earlier and that the start phase dropped are covered by `Lose`.

During the first `Delay` cycles `get_control_status` returns without writing its
output and the caller uses what was on the stack: `GetControlStatus` then takes
any input. Cycle 0 is special as well: `highest_confirmed` is 0 before anything
was confirmed, so it can be simulated from its prediction. The properties say
where they leave out these cycles.

`ImplementsSharedInput` maps `log` to the inputs the players gave and `seen` to
those the simulations used. It is what "lockstep" means: whatever the network
does, every peer sees every player's true inputs, in order, without a gap.

### GameServer

One action per handler. The server has a single io_service thread, so a handler
is atomic; handlers interleave freely, including the failed reads and writes of
one socket, each of which calls `disconnect` again. A read that was complete when
the socket was closed still runs its handler. `HandleReceive` takes one or
more of the messages that wait in the connection, as TCP allows, and recognises
READY only when it is all there is. `HandleKeepalive` and `HandleRelay` are the
two kinds of UDP packets; a packet may come late, after its client left or got
START. `sockets_` is written and never read and is left out, as is the text of
START; the order of a game's players, which only that text shows, is left out by
making them a bag, in which a player could still occur twice. A game object lives on in `game_info` after `games` has forgotten it,
because the sockets' entries point to it.

The id and START are taken to be delivered as written: `async_write` of a local
buffer (lines 53 and 225) is sound only as long as the socket takes the few bytes
in the call itself.

### SyncStart

What follows START in `sync_start_time`. Time passes in ticks of 10 ms, the pause
of the confirmation loop and the interval of the pings; in a tick every peer runs
its loop's body once, and no packet arrives in the tick in which it is sent, so
the order of the peers in a tick does not matter. `Launch` is the arrival of START,
at any time; `ConfirmationRound` is one pass of the first loop, with the condition
of its `for` as `StaysInLoop`; `MasterRound` and `SlaveRound` are one pass of
either second loop. Everything that has arrived is read in a pass, in any order
where the order matters (`SetToSeqs`). All times are relative to the present, so
that runs stay finite: `game_start` and the advised starts count down.

A packet carries what the properties tell apart: a confirmation whether its
receiver was heard, a ping when it was sent, the advised start and the delay.
`contents_ping` maps the text of a ping back to its id, which the model keeps.
Left out are the port scan (from round 100 on, it tries neighbouring ports for
peers that were not heard), the relaying by the server and repeated packets.

### TbsServer

One handler is one step; the server runs them in one thread. A client is a
session with two connections, one to wait on and one for a command. `CreateGame`,
`ObserveGame`, `Play` (starting a game, or a message that the game handles) and
`Quit` are the requests; `CloseAjax` is how each ends: with the front of the
client's queue, or by waiting. `HandleSend` is the end of a write, successful or
not, after which the connection is closed. `Heartbeat` answers every waiting
request with a heartbeat, because the session it looks up is 0 for all. `Flushed`
is `flush_game_messages`: players of a game are indices into `info.clients`.
`GetStatus` and `StatusChange` are the lobby's long poll. `Kept`, what is left of a
list, is a recursive function and not the library's `SelectSeq`, because the proofs
reason about it.

What a game's formulas write is abstracted to the messages of `tbs_game.cpp`
itself: the state for each player, and for observers. An AI has session id -1 and
does nothing, since `create_ai` returns NULL. A game's number may be used again
when nothing refers to the old game.

### LobbySessions

Queue objects of one user name: users do not touch each other. An object that is
no longer registered lives on in the timers and requests that refer to it. A timer
is the function it calls and the time left; `stray` holds the timers that are
running though `timeouts['client']` has been overwritten (`NewSession`, line 234).
`Login` has the cases of `do_login`; `Fire` is a timer that is due. `idle` counts
the time since a session was last used, for the properties. `DelayedRender` fails
on an undefined name after it has deleted its delay, so its request stays open.

### LevelHistory

A level is deterministic given its inputs, so a state of the level is the sequence
of inputs it was played with, and a snapshot is such a sequence; what the cycles
compute need not be modelled. A frame begins at the "top", where T is looked at
(`ReverseCycle`), goes through the events (`TogglePause`, `CloseEditor`,
`HistoryChange`, `PredictFuture`, `StartEditor`, `ResetPlayingLevel`) and ends with
`EndFrame`, which plays a cycle unless paused and takes a snapshot. `controls` is
the record of inputs, which pausing and rewinding cut (`ReadUntil`).

`seams` records the events after which snapshots and level do not belong together
any more: a rewind with T (which takes the input of a cycle it does not undo), a
reset (the level is replaced and the snapshots stay), a cycle played from a state
whose snapshot was taken out. The properties about the whole history hold until
the first of these; the reach of the inputs and the number of snapshots hold
always.

### StatsUpload

The steps of the game thread are cut where another thread can come between: the
exit flag is set, the last message is queued, the thread is notified, the thread
is joined. What runs under `upload_queue_mutex` is one step; waiting on the
condition releases the mutex, and `TimeOut` covers both the ten minutes and a
spurious return.

A record is a number, a message its flush and the set of records it carries. A
flush takes the records out of `write_queue`: `variant(&i->second)`
(`stats.cpp:76`) is the constructor that swaps the vector's elements into the new
list (`variant.cpp:383`). The keys, the levels, stay in the map, so after the first
record every flush queues a message, with the records since the flush before and
possibly with none. A record therefore travels in one message, and is gone if that
message is not posted. `answered` holds the messages whose post ended, with an
answer or an error. `behind` remembers the messages that were queued while another
one waited: of a batch only the first is posted (`stats.cpp:122`), and
`EachRecordOnce` says that nothing but these gets lost and nothing is posted twice.

### TaskPool

`BeginPush`/`EndPush` and `BeginSwap`/`EndSwap` are the first and last access of
one use of `completed_tasks`, because the statement that should lock the mutex
declares a pointer instead. `raced` records two uses at once. After a race ids may
be lost; the properties speak about executions without one, and `pool_lock`
shows that the race can happen.

### TileRebuild

A tile map is the number of changes made to it and the tiles of a layer are the
version they were built from. `Edit` is an editor command with its request,
`Drag` a whole freeze-undo-redo-unfreeze step of dragging a rectangle (it runs
in one event handler), `GlobalTileUpdate` a change of the tile rules, as text,
followed by the immediate rebuild of `rebuild_tiles` (`RebuildTiles`),
`BuildTiles` the end of the thread, `CompleteRebuild` the game thread taking its
result. `FreezeTileUpdates` and `UnfreezeTileUpdates` are the two halves of
`editor_freeze_tile_updates`, where a group of commands, or its undo or redo,
begins and ends; groups nest, and the end of the outermost rebuilds the tiles at
once. Freezing holds up `rebuild_tiles` and not the requests, so `Edit` is also
a command of a group. All calls of a group are made by one event handler, hence
`BetweenHandlers` in the actions of other handlers and of the editor's cycle:
neither caller of `rebuild_tiles` ever finds it frozen. An empty set of layers
stands for all layers, as the empty vector does. The names of this module differ
from those of `TaskPool` so that one module can hold the proofs about both.

## 3. Runs

| Run | Instance | Shows |
|---|---|---|
| `lockstep_safety` | 2 peers with delays 0 and 1, 2 inputs, 3 cycles | agreement, no holes, bounded lead, nothing simulated is rewritten, `Lockstep` implements `SharedInput` |
| `lockstep_loss` | 2 peers, delay 1, 3 cycles, up to 4 losses | fewer than 2(d+1) losses never make all peers wait for each other; every peer plays to the end or aborts |
| `server` | 3 clients, one level for 2 players | tables agree, relays find their targets, a full, reachable game starts |
| `sync_start` | 2 peers, 2 rounds and 2 extra rounds, start after 8 ticks, delay set 6 before, latencies 1 and 2, 1 loss | both start, neither early nor late, on time up to the variation of latency while few packets are lost, and with one delay; nobody comes to the error |
| `sync_alone` | 2 peers, 5 rounds, no loss | violated: a peer whose partner never comes does not give up |
| `tbs` | 2 clients, 2 games (two players; a player and an AI), an observer, 4 commands | lists and pointers agree, nobody gets another's view, messages leave, the lobby catches up |
| `lobby` | 2 queue objects, 2 addresses, 5 requests, time-outs 2, 3 and 5 | a registered session has a timer, a used one survives, an unused one is forgotten |
| `history` | 2 keys, 3 snapshots, levels loaded at cycle 1, 4 cycles | inputs are in reach, history is what happened, snapshots ascend, predictions leave no trace |
| `stats_upload` | 3 records, 3 flushes | only the last flush can be left behind, each record is posted once unless its message was queued behind another, quitting returns |
| `pool_safety` | 3 tasks | each task completes once, the pool drains |
| `pool_lock` | 2 tasks | violated: two threads access `completed_tasks` |
| `tiles_rebuild` | 2 layers, 3 changes each, groups nested to 2 | flags agree, no change is forgotten, tiles catch up |

Bounds. Three cycles are enough for the interesting cases of the game loop: cycle
0 (special), a cycle whose packet overlaps the previous one, and a cycle that
needs confirmation. Two inputs suffice to tell a true input from a wrong one; the
proofs cover the rest. Different delays on two peers show that the delay is a
local choice: one may have missed the pings that announced it. Repeated delivery
needs no bound, since `sent` is a set. In the server, three clients give a full
game and a late one; ids are never reused. `sync_start` leaves six pings that
announce the delay, one of which may get lost, and latencies that let packets
overtake each other; rounds are few because only whether everyone was heard before
the last one matters. In `sync_alone` five rounds are enough to pass the last one
with the extra rounds. `tbs` reaches a game that was quit, given up in its
creation, watched and started again; connections hold one unsent answer at a
heartbeat, since a second would be refused by the client's own assertion
(`http_client.cpp:197`). The time-outs of `lobby` keep the order of the real ones
(240, 270 and 3600 s), and five requests let a session expire, be taken over and
expire again. `history` drops snapshots in predictions, steps and play. The
tasks' run needs two tasks that end together and one submitted meanwhile. The tile
run needs a rebuild that runs, one queued, and a change after that; the editor nests
groups to two. The statistics' run needs two messages in one batch, a batch
after it, and records before and between their flushes.

`CHECK_DEADLOCK FALSE` stands in the configurations whose bounded runs end:
cycles, clients, records, tasks, requests, commands or changes are used up, or
every peer has aborted. In `SyncStart` time goes on, and deadlock is checked. No
run uses symmetry.

Fairness. `Lockstep`: each peer's thread keeps running, and its wait is bounded by
a clock; nothing is assumed of the network. `GameServer`: a client that waits and
has not left sends a keepalive in every turn of its loop, and one of them
arrives; reads, writes and relays need no assumption. `SyncStart`: time passes, and
with it the loops, which are never blocked; that peers come to the loop at all is
a hypothesis of `EveryoneStarts`. `TbsServer`: the timer beats, an answered client
and the lobby ask again as their code does, a write ends or fails; no command is
assumed. `LobbySessions`: time passes and timers that are due fire. `StatsUpload`:
both threads run and every post ends with an answer or an error; the time-out of
the wait is not assumed to happen. `TaskPool`: jobs end, the game pumps.
`TileRebuild`: the thread ends, every event handler ends the groups it began, and
`CompleteRebuild` is called in every cycle of the editor, between handlers: strong
fairness, since groups disable it again and again.

## 4. Proofs

All theorems are checked by TLAPS for every value of the constants; the
assumptions are the named ones of the modules. Where a type invariant or another
statement is proved and no run lists it (the types of `StatsUpload`, `TaskPool`,
`TileRebuild`, `SyncStart`, `LobbySessions` and `TbsServer`; `SimulatedTruth` of
`Lockstep`), the proof replaces the run.

`LockstepProofs` proves `Spec => []IInv` with `IInv == TypeOK /\ LockstepInv`.
That the inputs agree is not inductive by itself. It rests on a circle that the
invariant closes:

1. `ConfirmedAgreement`: confirmed inputs are the true ones. It is kept by
   `ReadControlPacket` because the packet's inputs are true (`PacketsTrue`) and it
   leaves no hole (`PacketsReachBack`).
2. `PacketsReachBack`: every packet starts at or before what each receiver has
   confirmed. It holds when a packet is sent, because the sender believes no more
   of a receiver than that receiver has (`AcksTrue`), and from then on because
   `highest_confirmed` only grows.
3. `AcksTrue`: what a peer was told to be confirmed is confirmed; it follows from
   `PacketsTrue`, which says that a packet acknowledges only what its sender has.
4. `SimulatedConfirmed` and `VectorSizes` tie the number of simulated inputs to
   the cycle and to what is confirmed; with 1 they give `SimulatedTruth`.

`StartCycleInv`, `ReadControlPacketInv`, `GetControlStatusInv` and `RemainingInv`
are the preservation lemmas, one per action (the last for the three actions that
touch nothing the invariant names). `CorrectedSeq`, `PaddedSeq`, `MinNat` and
`ControlPacketSound` say what the helper operators return. The safety properties
follow from the invariant; `SimulatedInputsAreFinal` needs it before and after
the step. `EqualDelaysPlaySameGame` joins it with the start: peers that agreed on
one delay have simulated the same inputs, cycle by cycle, as far as each has come.

`LossIsTolerated` proves `LossTolerance`, which counts packets over the whole past.
Its invariant is that every cycle a peer has begun was sent, as one packet
(`SentAndLost`). A peer `s` that waits for `p`, with no packet on its way that would
help, has therefore lost the packet of each cycle `p` has begun since the last that
`s` confirmed (`LostWhileWaiting`). Take a peer with the fewest cycles
(`FewestCycles`): it waits for one at least as far as itself, which waits in turn.
The losses of the two have different receivers, so they add up, and each waits for
an input at least `d + 1` cycles old.

The last part of `LockstepProofs` proves `Spec => ImplementsSharedInput`. A new cycle after the
first is `Give`; an input read when `Delay` cycles and the first input are past is
`Simulate`, and that it is the next one of the record, already given, is
`SimulatedTruth` in the state after the step; every other step, the packets'
included, is a stutter. `FromAppend` says how appending to a vector shows in the
record, which leaves out a vector's first entries.

`GameServerProofs` proves all invariants of `GameServer`. That a relayed packet finds
every address (`RelayTargetsKnown`) rests on three facts. A client that plays was
sent START, and is still in a game that was started (`StartedPlayers`): READY is read
once (`ReadyOnce`, `JoinsOnce`), so nobody changes games. A started game is no
longer listed, so it gathers no player who was not heard (`StartedGames`). And an id
leads to the client it was given to (`IdsDiffer`, `IdsMatch`), although an
unread READY of a closed socket brings the socket's entry back with id 0. That
`disconnect` then erases the wrong id, or erases one again, harms only the client
with id 0: `OnlyFirstUnreachable` is inductive together with the rest.

The first part of `BackgroundProofs` proves that no change of a layer is forgotten.
`NoChangeForgotten` needs `OldCopyQueued` (a layer the thread builds from an old
copy is queued again) and `ThreadInProgress` to be inductive.

`SyncStartProofs` proves for any number of peers, latencies and losses that no peer
is ever in the phase "failed". The invariant says that a peer whose
`confirmation_point` is below the last round has heard everyone. A peer that has
not is therefore held in the loop by one half of the condition or the other,
whatever its round.

Its second part, `StartInvariant`, is about times, and gives the types, `OneDelay`,
`NoneStartsEarly` and `NoneStartsLate`. A packet has been under way no longer than the
longest latency (`NetInTime`), so ping and echo together say when the ping was sent
and how much later its echo may come (`PacketInTime`); the latencies that slot 0
adds up are at most twice the longest each (`LatencyMeasured`), and so is their
average. Half of it, which the advice subtracts, therefore misses the real way of the
ping by no more than latencies vary, or is 0 when no echo has come: every advised
start, and the average of five, lies between `game_start` minus that variation and
`game_start` plus the longest latency (`AdviceInTime`), whichever pings it came from.
`DelaySetOnce` ties the delays that pings carry to the one slot 0 has. The sums over
the echoes of a round and over the last five advised starts are the library's
`SumFunction`; that a sum of n numbers between a and b lies between n a and n b
(`SumBounds`) is an induction over a finite set, done by hand: the sizes of the
parts for which it holds are all numbers, because a least one for which it fails
has one before it (`AllNaturals`, `LeastNatural`). `SyncAssumption` asks for a longest
latency, since packets that may be under way for any time bound nothing.

Its third part, `DelayInvariant` and `PeersUseOneDelay`, proves `SameDelay` where few
packets are lost. Let L be the longest latency, and count the ticks since slot 0 left
the confirmation loop. Each stage of the handshake has a deadline. A peer that has not
heard another has a confirmation on its way to it, or its own on the way to one that
will answer, or sends one in its next round (`Hearing`): all are heard after 2L + 1
ticks, and after the extra rounds all are in the second loop (`RoundsInTime`). From
then on a ping of slot 0, or its echo, is on its way or about to be sent
(`Answering`), so slot 0 sets the delay in time (`AnnouncedInTime`); and one ping more
teaches it (`Teaching`). A lost packet is sent anew in the next round, so every loss
costs at most L + 1 ticks (`Cost`), and `Slack` is what a deadline still has left. A
step takes a tick from the slack and brings the packets nearer by one, or it loses a
packet and gains L + 1: that makes the deadlines inductive. The hypothesis `FewLosses`
says that the last of them comes before any peer plays,
`TaughtBy + MaxLost * (L + 1) < StartIn - Spread`, `Spread` being how much latencies
vary. With the numbers of the code (100 ticks, 50 extra rounds, the delay set at the
latest 50 ticks before) it is 5L + 53 + MaxLost (L + 1) < 100 - `Spread`: latencies of
10 to 30 ms with up to 7 losses satisfy it, or of 10 to 60 ms with one.

Its last part, `OnTimeInvariant` and `PeersStartOnTime`, proves `StartsOnTime`. Until slot
0 has an echo of a peer its advice to that peer is not corrected by half the round
trip, and is late by the ping's way; the deadline for the first echo bounds when the
last such ping is sent (`PingsCorrected`) and read (`StaleBy`). A corrected one misses
by no more than `Spread`, because a round trip takes two latencies at least
(`EchoesMeasured`). The peer keeps the last five advised starts, so late advice has to
be pushed out. `Stale` counts how: every tick slot 0 sends one more ping to the
peer (`PingsDiffer`: no two are sent at the same time), and each is lost, on its way
(`Newer`) or read, which moves older advice one place to the front. When slot 0 plays, advice
that is still late would need more pings lost or on their way than there are
(`StaleOver`), and a peer whose five starts are all on time leaves its loop in
time (`WaitsOn`). The hypothesis `FewLossesForTime` asks for that many pings besides `FewLosses`:
`StaleBy + MaxLost + L + 6 < StartIn`, with the numbers of the code
6L + 58 + MaxLost (L + 2) < 100: latencies of up to 30 ms with 4 losses, of 50 ms
with one, or of 60 ms with none. Both hypotheses only name constants, and say when the
deadlines are early enough in the worst case. The instance of `sync_start` is much
smaller and does not satisfy them: there TLC shows that both properties hold although
the proof's reserve is missing.

`LobbyProofs` proves the types, that a registered queue has its timer and that a
used session survives. The invariant adds that the timer of a registered session
runs no shorter than the session may stay unused (`TimerOutlastsUse`), and that a
pending delay has a request.

`TbsProofs` proves `ClientsMatchGames` and `OwnView` for any games, sessions and
rosters. The first (`TbsInvariant`) needs that whoever a game lists has an entry
(`ClientsKnown`), that nothing is kept for sessions without one (`UnknownBlank`), so
that those a new game enters pointed to no other game and are listed by none, and that a session is
listed by no game but the one it points to or has quit (`OneGameEach`), also by
games that left the list of games and live on in their clients' pointers. For the
second (`ViewInvariant`), a message for player `i` reaches the client at place `i`
of another list than the one `i` was counted in. It is the same client because of
`PlayersFirst`: until somebody quits, the clients of a game are its players in their
order, then the AIs and observers. That holds only where the AIs of a roster come
last, which is the hypothesis `HumansFirst`; with an AI before a human the code does
send views to the wrong player (section 5). What `Kept` leaves of a list is proved
by induction over its prefixes (`KeptSteps`, by `AllNaturals`): what a client is
queued was addressed to it (`KeptFacts`), and the players in `users` without the AIs
behind them are a prefix of it (`KeptFirst`).

`LevelHistoryProofs` proves the types (with the limit on snapshots) and that inputs
are in reach. What is recorded while the game is paused may be any length; the
invariant therefore speaks of frames that go on playing, and of the top of a frame
only if T was not held before it.

Its second part, `PastInvariant`, proves `HistoryIsWhatHappened`, `SnapshotsAscend`
and `PredictionLeavesNoTrace`, all as long as `seams` is empty. `Chain` says that
the snapshots are one cycle apart and reach up to the present cycle or the one
before; `Known` that each is played with the first inputs recorded. What makes it
inductive, and predictions harmless, is `Room`: snapshots of all cycles recorded,
the past ones and those still ahead, stay within the limit. A game that is played
records at most `StartingCycles + 1` inputs more than it plays (`InReach`), the
slider gives up as many cycles behind as it gains ahead, and so `predict_future`
never pushes an old snapshot out: all it appended is at the end, where `resize`
cuts. The actions of `seams` (T, a reset, a skipped cycle) break `Chain`, which is
why the properties leave them out.

`StatsUploadProofs` proves that no signal is lost, that at most the last flush is
left behind, and that each record is posted once unless its message was queued behind
another one. Its invariant has two parts. `Control` says who still has to be notified
and that a thread that left found the queue empty after the exit flag (`LeftBehind`).
`Content` says that messages are queued, taken and posted in the order of their
flushes, so none comes back (`InOrder`); that only the first of the queue need not be
behind another one, and in a batch only the head, until one is done (`BehindFirst`);
and that each record is in `write_queue` or in exactly one message (`Carried`).

The second part of `BackgroundProofs` proves that each task completes once and none is
forgotten, unless two threads raced. Its invariant ties the state of a task's thread to the set its
id is in (`Threads`, `StoredOnce`) and the ids the loop of `pump` still has to visit
to the map (`OwnInLoop`).

Only model-checked: all liveness properties (TLAPS has no rules for fairness). Every
invariant and every action property of the runs is stated by a theorem. Two of these
theorems have a hypothesis on the losses, `SameDelay` and `StartsOnTime`; where it does
not hold, as in the instance of `sync_start`, the properties are only model-checked, and
for many losses they are false.

## 5. Findings

Each is a run that ends in a violation.

* `pool_lock`: `threading::lock(*completed_tasks_mutex);` locks nothing
  (`background_task_pool.cpp:31` and `:60`).
* `sync_alone`: the confirmation loop does not give up after 1000 rounds. Its
  condition `m != 1000 && heard < nplayers || m < confirmation_point + 50` holds in
  round 1000 through its second half, and from 1001 on through its first
  (`multiplayer.cpp:282`); `ConfirmationErrorIsDead` proves that the error after
  the loop is unreachable.

Seen while modelling, and contained in the models, without a run of their own:

* A correction of cycle 0 after it was simulated is never replayed
  (`level.cpp:3959` has no body, the comment at `controls.cpp:428` relies on it);
  `SimulatedInputsAreFinal` shows that no other cycle needs the replay.
* `flush_and_quit` sets the exit flag before it queues the last message
  (`stats.cpp:201`), so the uploader may exit without it; and of several messages
  taken together only the first is posted (`stats.cpp:122`). The records of the
  others are lost, since no later message repeats them: `EachRecordOnce` excepts
  the messages in `behind`. So are the records of a post that fails.
* `rebuild_tiles` does not know of a running thread, whose older tiles then replace
  the newer ones (`level.cpp:910`), for good where no request was queued: when the
  tile rules are edited. The properties of tiles leave such runs out.
* Rewinding with T takes back the input of one cycle more or less than it undoes
  (`level_runner.cpp:1548`); resetting a level keeps the snapshots of the game
  before (`level.cpp:4166`); a cycle stepped or played right after going back has
  no snapshot before it; `read_until` ignores the cycle a level starts at
  (`controls.cpp:199`), so that after a pause keys come later by that much.
* A login for an expired session overwrites its timer without cancelling it
  (`lobby-server.py:234`): the old timer removes the session even if it is used,
  which is the exception in `UsedSessionsSurvive`. `_delayedRender` uses an
  undefined name (line 157), so a deferred request is never answered.
* After a client has left a started TBS game, those after it move up in the list of
  clients (`tbs_server.cpp:373`) and get the views of other players: `OwnView`
  speaks of games nobody left. An AI listed before a human shifts the indices in
  the same way, and an AI's entry keeps a game without clients alive.
* When the first client leaves a TBS game that has not started, the others keep
  pointing to a game that is gone (`tbs_server.cpp:378`); so do those entered
  before `create_game` gives up. `ClientsMatchGames` therefore speaks of listed
  games. A message taken from a queue is lost if its write fails.
* The heartbeat looks clients up by a session id that is never set
  (`tbs_server.cpp:277`), so it sends neither messages nor the lag of players.
* The advised starts are averaged in an int (`multiplayer.cpp:487`), which five
  tick counts exceed after five days of uptime.

## 6. Plan

Done: `Lockstep`, `GameServer`, `SyncStart`, `TbsServer`, `LobbySessions`,
`LevelHistory`, `StatsUpload`, `TaskPool`, `TileRebuild`. What is left, in order of
importance; each item is a module with its runs, then its proofs.

1. `LockstepLevels`: two levels in a row, `new_level` against late packets.
2. `HttpExchange`: the HTTP client's handlers, one answer per request.
3. `EditorUndo`: undo and redo (abstract: a list of level states and a position).
4. `TrackNetwork`, `TrainRun`: the tables of matching tracks as pure functions,
   trains on a small grid.
5. `Pathfinding`, `decimal`: operators against reference definitions.
6. File watching and sound threads.

## 7. Not modelled

Rendering, widgets, sound mixing, preferences, modules and files, the formula
language and its interpreter, physics and animation: sequential code, or input
and output without a protocol. The statistics server's tables.
`load_level.cpp`'s threads, which are compiled out. Within modelled parts: the port
scan of the confirmation loop, the checksum of control packets (only logged), the
rules of turn-based games.

Most of the repository is vendored (Boost, GLEW, libpng, SDL and others under
`src/MacOSJet` and next to it) or generated, and is left aside; of the engine's own
code in `src/src`, most draws, reads configuration or interprets formulas. The
models therefore stand for a small share of all lines, those where the engine is
concurrent, distributed or keeps a history.
