-------------------------- MODULE BackgroundProofs --------------------------
(***************************************************************************)
(* Proofs about the two models of work in background threads.  They share  *)
(* no state: what is proved of one is independent of the other.            *)
(*                                                                         *)
(* TileRebuild: types, and that no tile change is forgotten, for any set   *)
(* of layers and any number of edits.  OldCopyQueued is what               *)
(* NoChangeForgotten lacks: when the thread's tiles replace those of a     *)
(* layer, either they are new or the layer is in the queue.                *)
(*                                                                         *)
(* TaskPool: types, and that the pool completes every task once and        *)
(* forgets none, as long as no two threads raced.                          *)
(***************************************************************************)
EXTENDS TileRebuild, TaskPool, TLAPS

TileInv == TilesTypeOK /\ ThreadInProgress /\ NoChangeForgotten /\ OldCopyQueued

\* A merged request (level.cpp:822-829) covers what was asked for now, and
\* what was already queued.
LEMMA MergedCovers ==
  ASSUME NEW layers \in SUBSET Layer, NEW q \in BOOLEAN,
         NEW buffer \in SUBSET Layer, NEW l \in Layer,
         Covers(layers, l) \/ (q /\ Covers(buffer, l))
  PROVE  Covers(Merged(layers, q, buffer), l)
BY DEF Merged, Covers

\* Merged requests are sets of layers.
LEMMA MergedType ==
  ASSUME NEW layers \in SUBSET Layer, NEW q \in BOOLEAN,
         NEW buffer \in SUBSET Layer
  PROVE  Merged(layers, q, buffer) \in SUBSET Layer
BY DEF Merged

\* A change of the maps touches only layers the request covers.
LEMMA ChangeMapsOnly ==
  ASSUME TilesTypeOK, NEW layers \in SUBSET Layer, ChangeMaps(layers)
  PROVE  /\ tile_maps' \in [Layer -> Nat]
         /\ \A l \in Layer : Covers(layers, l) \/ tile_maps'[l] = tile_maps[l]
BY DEF ChangeMaps, TilesTypeOK

\* Nothing is in progress and nothing is old in the level as it is loaded.
LEMMA InitTilesInv == InitTiles => TileInv
<1> SUFFICES ASSUME InitTiles PROVE TileInv
  OBVIOUS
<1>1. TilesTypeOK
  <2>1. updates_frozen \in 0..MaxNesting
    BY NestingAssumption DEF InitTiles
  <2>2. QED BY <2>1 DEF InitTiles, TilesTypeOK
<1>2. ThreadInProgress /\ OldCopyQueued
  BY DEF InitTiles, ThreadInProgress, OldCopyQueued
<1>3. NoChangeForgotten
  BY DEF InitTiles, NoChangeForgotten
<1>4. QED BY <1>1, <1>2, <1>3 DEF TileInv

\* An edit with its request: start_rebuild_tiles_in_background.
LEMMA EditInv ==
  ASSUME TileInv, NEW layers \in SUBSET Layer, Edit(layers)
  PROVE  TileInv'
<1> DEFINE merged == Merged(layers, queued, layers_buffer)
<1>1. /\ tile_maps' \in [Layer -> Nat]
      /\ \A l \in Layer : Covers(layers, l) \/ tile_maps'[l] = tile_maps[l]
  BY ChangeMapsOnly DEF Edit, TileInv
<1>2. merged \in SUBSET Layer
  BY MergedType DEF TileInv, TilesTypeOK
<1>3. \A l \in Layer : (Covers(layers, l) \/ (queued /\ Covers(layers_buffer, l)))
                         => Covers(merged, l)
  BY MergedCovers DEF TileInv, TilesTypeOK
<1>4. CASE in_progress
  <2>1. /\ queued' = TRUE /\ layers_buffer' = merged
        /\ UNCHANGED <<in_progress, complete, worker_buffer, worker_maps, rebuild_tile_thread,
                       tiles, updates_frozen, overtaken>>
    BY <1>4 DEF Edit, StartRebuild
  <2>2. rebuild_tile_thread = "running"
    BY <1>4 DEF TileInv, ThreadInProgress
  <2> HIDE DEF merged
  <2>3. TilesTypeOK' /\ ThreadInProgress'
    BY <1>1, <1>2, <2>1 DEF TileInv, TilesTypeOK, ThreadInProgress
  <2>4. NoChangeForgotten' /\ OldCopyQueued'
    BY <1>1, <1>3, <2>1, <2>2
       DEF TileInv, NoChangeForgotten, OldCopyQueued, Promised
  <2>5. QED BY <2>3, <2>4 DEF TileInv
<1>5. CASE ~in_progress
  <2>1. /\ StartThread(merged)
        /\ UNCHANGED <<queued, tiles, updates_frozen, overtaken>>
    BY <1>5 DEF Edit, StartRebuild
  <2>2. rebuild_tile_thread # "running"
    BY <1>5 DEF TileInv, ThreadInProgress
  <2> HIDE DEF merged
  <2>3. TilesTypeOK' /\ ThreadInProgress'
    BY <1>1, <1>2, <2>1 DEF TileInv, TilesTypeOK, ThreadInProgress, StartThread
  <2>4. NoChangeForgotten'
    BY <1>1, <1>3, <2>1, <2>2
       DEF TileInv, NoChangeForgotten, Promised, StartThread
  <2>5. OldCopyQueued'
    BY <2>1 DEF OldCopyQueued, StartThread
  <2>6. QED BY <2>3, <2>4, <2>5 DEF TileInv
<1>6. QED BY <1>4, <1>5

\* A step of dragging a rectangle, with two requests between freeze and
\* unfreeze.
LEMMA DragInv ==
  ASSUME TileInv, NEW undone \in SUBSET Layer, NEW added \in SUBSET Layer,
         Drag(undone, added)
  PROVE  TileInv'
<1> DEFINE first == Merged(undone, queued, layers_buffer)
           merged == Merged(added, TRUE, first)
           final == Merged(merged, TRUE, merged)
           both == IF {} \in {undone, added} THEN {} ELSE undone \union added
<1>1. first \in SUBSET Layer
  BY MergedType DEF TileInv, TilesTypeOK
<1>2. merged \in SUBSET Layer
  BY <1>1, MergedType
<1>3. final \in SUBSET Layer
  BY <1>2, MergedType
<1>4. /\ tile_maps' \in [Layer -> Nat]
      /\ \A l \in Layer : Covers(both, l) \/ tile_maps'[l] = tile_maps[l]
  <2>1. both \in SUBSET Layer OBVIOUS
  <2>2. ChangeMaps(both) BY DEF Drag
  <2> HIDE DEF both
  <2>3. QED BY <2>1, <2>2, ChangeMapsOnly DEF TileInv
<1>5. ASSUME NEW l \in Layer,
             Covers(both, l) \/ (queued /\ Covers(layers_buffer, l))
      PROVE  Covers(merged, l) /\ Covers(final, l)
  <2>1. \/ Covers(added, l) \/ Covers(undone, l)
        \/ queued /\ Covers(layers_buffer, l)
    BY <1>5 DEF Covers
  <2>2. Covers(added, l) \/ Covers(first, l)
    BY <2>1, MergedCovers DEF TileInv, TilesTypeOK
  <2> HIDE DEF first
  <2>3. Covers(merged, l)
    BY <1>1, <2>2, MergedCovers
  <2> HIDE DEF merged
  <2>4. Covers(final, l)
    BY <1>2, <2>3, MergedCovers
  <2>5. QED BY <2>3, <2>4
<1>6. CASE rebuild_tile_thread = "running"
  <2>1. /\ queued' = TRUE /\ layers_buffer' = merged
        /\ UNCHANGED <<in_progress, complete, worker_buffer, worker_maps, rebuild_tile_thread,
                       tiles, updates_frozen, overtaken>>
    BY <1>6 DEF Drag
  <2> HIDE DEF merged, both, final
  <2>2. TilesTypeOK' /\ ThreadInProgress'
    BY <1>2, <1>4, <2>1 DEF TileInv, TilesTypeOK, ThreadInProgress
  <2>3. NoChangeForgotten' /\ OldCopyQueued'
    BY <1>4, <1>5, <1>6, <2>1
       DEF TileInv, NoChangeForgotten, OldCopyQueued, Promised
  <2>4. QED BY <2>2, <2>3 DEF TileInv
<1>7. CASE rebuild_tile_thread # "running"
  <2>1. /\ StartThread(final)
        /\ queued' = TRUE
        /\ UNCHANGED <<tiles, updates_frozen, overtaken>>
    BY <1>7 DEF Drag
  <2> HIDE DEF merged, both, final
  <2>2. TilesTypeOK' /\ ThreadInProgress'
    BY <1>3, <1>4, <2>1 DEF TileInv, TilesTypeOK, ThreadInProgress, StartThread
  <2>3. NoChangeForgotten'
    BY <1>4, <1>5, <1>7, <2>1
       DEF TileInv, NoChangeForgotten, Promised, StartThread
  <2>4. OldCopyQueued'
    BY <2>1 DEF OldCopyQueued, StartThread
  <2>5. QED BY <2>2, <2>3, <2>4 DEF TileInv
<1>8. QED BY <1>6, <1>7

\* complete_rebuild_tiles_in_background.
LEMMA CompleteInv ==
  ASSUME TileInv, CompleteRebuild
  PROVE  TileInv'
<1>1. /\ tiles' = [l \in Layer |-> IF Covers(worker_buffer, l)
                                   THEN worker_maps[l] ELSE tiles[l]]
      /\ queued' = FALSE
      /\ UNCHANGED <<tile_maps, updates_frozen, overtaken>>
      /\ rebuild_tile_thread = "running"
  BY DEF CompleteRebuild, TilesOfThread, TileInv, ThreadInProgress
<1>2. overtaken \/ \A l \in Layer :
        tiles'[l] = tile_maps[l] \/ (queued /\ Covers(layers_buffer, l))
  BY <1>1 DEF TileInv, NoChangeForgotten, OldCopyQueued, Promised
<1>3. tiles' \in [Layer -> Nat]
  BY <1>1 DEF TileInv, TilesTypeOK
<1>4. CASE queued
  <2> DEFINE next == Merged(layers_buffer, FALSE, layers_buffer)
  <2>1. StartThread(next)
    BY <1>4 DEF CompleteRebuild
  <2>2. /\ next \in SUBSET Layer
        /\ \A l \in Layer : Covers(layers_buffer, l) => Covers(next, l)
    BY MergedType, MergedCovers DEF TileInv, TilesTypeOK
  <2> HIDE DEF next
  <2>3. TilesTypeOK' /\ ThreadInProgress'
    BY <1>1, <1>3, <2>1, <2>2 DEF TileInv, TilesTypeOK, ThreadInProgress, StartThread
  <2>4. NoChangeForgotten'
    BY <1>1, <1>2, <2>1, <2>2 DEF NoChangeForgotten, Promised, StartThread
  <2>5. OldCopyQueued'
    BY <2>1 DEF OldCopyQueued, StartThread
  <2>6. QED BY <2>3, <2>4, <2>5 DEF TileInv
<1>5. CASE ~queued
  <2>1. /\ in_progress' = FALSE /\ worker_buffer' = {} /\ rebuild_tile_thread' = "none"
        /\ UNCHANGED <<complete, layers_buffer, worker_maps>>
    BY <1>5 DEF CompleteRebuild
  <2>2. TilesTypeOK' /\ ThreadInProgress'
    BY <1>1, <1>3, <2>1 DEF TileInv, TilesTypeOK, ThreadInProgress
  <2>3. NoChangeForgotten' /\ OldCopyQueued'
    BY <1>1, <1>2, <1>5, <2>1 DEF NoChangeForgotten, OldCopyQueued
  <2>4. QED BY <2>2, <2>3 DEF TileInv
<1>6. QED BY <1>4, <1>5

\* A change of all maps with no request (code_editor_dialog.cpp:333-338), which
\* finds nothing frozen.
LEMMA GlobalUpdateInv ==
  ASSUME TileInv, GlobalTileUpdate
  PROVE  TileInv'
<1>1. /\ tile_maps' \in [Layer -> Nat]
      /\ overtaken' = (overtaken \/ rebuild_tile_thread = "running")
      /\ UNCHANGED <<in_progress, queued, layers_buffer, worker_buffer, complete,
                     rebuild_tile_thread, worker_maps, updates_frozen>>
  BY ChangeMapsOnly DEF GlobalTileUpdate, TileInv
<1>2. tiles' = tile_maps'
  BY DEF GlobalTileUpdate, RebuildTiles, BetweenHandlers
<1>3. TilesTypeOK' /\ ThreadInProgress'
  BY <1>1, <1>2 DEF TileInv, TilesTypeOK, ThreadInProgress
<1>4. NoChangeForgotten' /\ OldCopyQueued'
  BY <1>1, <1>2 DEF NoChangeForgotten, OldCopyQueued
<1>5. QED BY <1>3, <1>4 DEF TileInv

\* A group of commands begins or ends: tiles rebuilt at its end are new, and
\* what a running thread will replace by older ones is already queued again.
LEMMA GroupInv ==
  ASSUME TileInv, FreezeTileUpdates \/ UnfreezeTileUpdates
  PROVE  TileInv'
<1>1. UNCHANGED <<tile_maps, in_progress, queued, layers_buffer, worker_buffer, complete,
                  rebuild_tile_thread, worker_maps, overtaken>>
  BY DEF FreezeTileUpdates, UnfreezeTileUpdates
<1>2. tiles' = tiles \/ tiles' = tile_maps
  BY <1>1 DEF FreezeTileUpdates, UnfreezeTileUpdates, RebuildTiles
<1>3. updates_frozen' \in 0..MaxNesting
  BY NestingAssumption DEF FreezeTileUpdates, UnfreezeTileUpdates, TileInv, TilesTypeOK
<1>4. TilesTypeOK' /\ ThreadInProgress'
  BY <1>1, <1>2, <1>3 DEF TileInv, TilesTypeOK, ThreadInProgress
<1>5. NoChangeForgotten' /\ OldCopyQueued'
  BY <1>1, <1>2 DEF TileInv, NoChangeForgotten, OldCopyQueued, Promised
<1>6. QED BY <1>4, <1>5 DEF TileInv

\* The end of the thread's work, and stuttering.
LEMMA RemainingInv ==
  ASSUME TileInv, BuildTiles \/ UNCHANGED tileVars
  PROVE  TileInv'
<1>1. CASE BuildTiles
  BY <1>1 DEF BuildTiles, TileInv, TilesTypeOK, ThreadInProgress, NoChangeForgotten,
              OldCopyQueued, Promised
<1>2. CASE UNCHANGED tileVars
  BY <1>2 DEF tileVars, TileInv, TilesTypeOK, ThreadInProgress, NoChangeForgotten,
              OldCopyQueued, Promised
<1>3. QED BY <1>1, <1>2

\* The invariant holds in every reachable state.
THEOREM TileInvariant == TilesSpec => []TileInv
<1>1. InitTiles => TileInv BY InitTilesInv
<1>2. TileInv /\ [NextTiles]_tileVars => TileInv'
  BY EditInv, DragInv, GlobalUpdateInv, GroupInv, CompleteInv, RemainingInv
  DEF NextTiles
<1>3. QED BY <1>1, <1>2, PTL DEF TilesSpec

\* The flags and buffers keep their shape (level.cpp:756-785).
THEOREM TileTypes == TilesSpec => []TilesTypeOK
<1>1. TileInv => TilesTypeOK BY DEF TileInv
<1>2. QED BY <1>1, TileInvariant, PTL

\* tile_rebuild_in_progress is set exactly while there is a thread, so
\* complete_rebuild_tiles_in_background never joins a thread that is not there.
THEOREM ProgressMeansThread == TilesSpec => []ThreadInProgress
<1>1. TileInv => ThreadInProgress BY DEF TileInv
<1>2. QED BY <1>1, TileInvariant, PTL

\* No change of a layer is forgotten, unless maps were changed without a request
\* under a running thread.
THEOREM ChangesReachTheScreen == TilesSpec => []NoChangeForgotten
<1>1. TileInv => NoChangeForgotten BY DEF TileInv
<1>2. QED BY <1>1, TileInvariant, PTL

\* A layer built from an old copy is queued behind the running thread, unless
\* maps were changed under it without a request (level.cpp:822 merges what is
\* asked for meanwhile).
THEOREM OldCopiesAreQueued == TilesSpec => []OldCopyQueued
<1>1. TileInv => OldCopyQueued BY DEF TileInv
<1>2. QED BY <1>1, TileInvariant, PTL

-----------------------------------------------------------------------------

\* The ids handed out are those with a thread, and a task stays in the map
\* while its thread runs.
Threads ==
  \A t \in Task :
    /\ thread[t] = "none" <=> t >= next_task_id
    /\ thread[t] \in {"job", "pushing"} => t \in task_map

\* Unless two threads raced, an id is stored once, by its own thread, for a
\* task that is not completed yet.
StoredOnce ==
  raced \/
    /\ completed_tasks \union completed \subseteq {t \in task_map : thread[t] = "ended"}
    /\ completed_tasks \intersect completed = {}

\* pump has ids of its own only in its loop.
OwnInLoop == pumping # "loop" => completed = {}

PoolInv == TypeOK /\ CompletedOnce /\ NoneForgotten /\ Threads /\ StoredOnce /\ OwnInLoop

-----------------------------------------------------------------------------

LEMMA Ids == MaxTasks \in Nat /\ \A t \in Task : t \in Nat /\ t < MaxTasks
  BY BoundAssumption DEF Task

LEMMA InitPoolInv == Init => PoolInv
  <1> SUFFICES ASSUME Init PROVE PoolInv
    OBVIOUS
  <1>1. TypeOK
    <2>1. next_task_id \in 0 .. MaxTasks
      BY Ids DEF Init
    <2>2. task_map \union completed_tasks \union completed \subseteq {t \in Task : t < next_task_id}
      BY DEF Init
    <2>3. thread \in [Task -> {"none", "job", "pushing", "ended"}] /\ called \in [Task -> Nat]
      BY DEF Init
    <2> QED
      BY <2>1, <2>2, <2>3 DEF Init, TypeOK
  <1>2. CompletedOnce /\ NoneForgotten /\ Threads
    BY Ids DEF Init, CompletedOnce, NoneForgotten, Threads
  <1> QED
    BY <1>1, <1>2 DEF Init, PoolInv, StoredOnce, OwnInLoop

LEMMA SubmitStep == PoolInv /\ Submit => PoolInv'
  <1> SUFFICES ASSUME PoolInv, Submit PROVE PoolInv'
    OBVIOUS
  <1>1. next_task_id \in Nat /\ next_task_id < MaxTasks /\ next_task_id \in Task
    BY BoundAssumption DEF PoolInv, TypeOK, Submit, Task
  <1>2. /\ thread' = [thread EXCEPT ![next_task_id] = "job"]
        /\ task_map' = task_map \union {next_task_id}
        /\ next_task_id' = next_task_id + 1
        /\ UNCHANGED <<completed_tasks, completed, pumping, closing, called, raced>>
    BY DEF Submit, NewTask
  <1>3. TypeOK'
    <2>1. next_task_id' \in 0 .. MaxTasks
      BY <1>1, <1>2, Ids
    <2>2. (task_map \union completed_tasks \union completed)' \subseteq {t \in Task : t < next_task_id'}
      <3>1. \A t \in task_map \union completed_tasks \union completed : t \in Task /\ t < next_task_id
        BY DEF PoolInv, TypeOK
      <3>2. \A t \in Task : t < next_task_id => t < next_task_id'
        BY <1>1, <1>2, Ids
      <3>3. next_task_id < next_task_id'
        BY <1>1, <1>2
      <3> QED
        BY <1>1, <1>2, <3>1, <3>2, <3>3
    <2>3. thread' \in [Task -> {"none", "job", "pushing", "ended"}]
      BY <1>1, <1>2 DEF PoolInv, TypeOK
    <2> QED
      BY <1>2, <2>1, <2>2, <2>3 DEF PoolInv, TypeOK
  <1>4. thread[next_task_id] = "none" /\ next_task_id \notin task_map
    BY <1>1 DEF PoolInv, Threads, TypeOK
  <1>5. Threads'
    BY <1>1, <1>2, Ids DEF PoolInv, Threads, TypeOK
  <1>6. CompletedOnce'
    BY <1>1, <1>2, <1>4, Ids DEF PoolInv, CompletedOnce, TypeOK
  <1>7. NoneForgotten'
    BY <1>1, <1>2, <1>4, Ids DEF PoolInv, NoneForgotten, TypeOK
  <1>8. StoredOnce' /\ OwnInLoop'
    BY <1>1, <1>2, <1>4 DEF PoolInv, StoredOnce, OwnInLoop, TypeOK
  <1> QED
    BY <1>3, <1>5, <1>6, <1>7, <1>8 DEF PoolInv

LEMMA BeginPushStep == \A t \in Task : PoolInv /\ BeginPush(t) => PoolInv'
  <1> SUFFICES ASSUME NEW t \in Task, PoolInv, BeginPush(t) PROVE PoolInv'
    OBVIOUS
  <1>1. /\ thread[t] = "job" /\ thread' = [thread EXCEPT ![t] = "pushing"]
        /\ UNCHANGED <<next_task_id, task_map, completed_tasks, completed, pumping, closing, called>>
    BY DEF BeginPush
  <1>2. raced' \in BOOLEAN /\ (raced => raced')
    BY DEF BeginPush
  <1>3. TypeOK'
    BY <1>1, <1>2 DEF PoolInv, TypeOK
  <1>4. Threads'
    BY <1>1, Ids DEF PoolInv, Threads, TypeOK
  <1>5. CompletedOnce' /\ NoneForgotten'
    BY <1>1, <1>2 DEF PoolInv, CompletedOnce, NoneForgotten, TypeOK
  <1>6. StoredOnce' /\ OwnInLoop'
    BY <1>1, <1>2 DEF PoolInv, StoredOnce, OwnInLoop, TypeOK
  <1> QED
    BY <1>3, <1>4, <1>5, <1>6 DEF PoolInv

LEMMA EndPushStep == \A t \in Task : PoolInv /\ EndPush(t) => PoolInv'
  <1> SUFFICES ASSUME NEW t \in Task, PoolInv, EndPush(t) PROVE PoolInv'
    OBVIOUS
  <1>1. /\ thread[t] = "pushing" /\ thread' = [thread EXCEPT ![t] = "ended"]
        /\ UNCHANGED <<next_task_id, task_map, completed, pumping, closing, called, raced>>
    BY DEF EndPush
  <1>2. PICK kept \in Stored({t}) : completed_tasks' = completed_tasks \union kept
    BY DEF EndPush
  <1>3. kept \subseteq {t} /\ (~raced => kept = {t})
    BY <1>2 DEF Stored
  <1>4. t \in task_map /\ t < next_task_id /\ thread[t] # "ended"
    BY <1>1, Ids DEF PoolInv, Threads, TypeOK
  <1>5. TypeOK'
    BY <1>1, <1>2, <1>3, <1>4 DEF PoolInv, TypeOK
  <1>6. Threads'
    BY <1>1, <1>4, Ids DEF PoolInv, Threads, TypeOK
  <1>7. CompletedOnce'
    BY <1>1 DEF PoolInv, CompletedOnce
  <1>8. NoneForgotten'
    BY <1>1, <1>2, <1>3 DEF PoolInv, NoneForgotten, TypeOK
  <1>9. StoredOnce' /\ OwnInLoop'
    BY <1>1, <1>2, <1>3, <1>4 DEF PoolInv, StoredOnce, OwnInLoop, TypeOK
  <1> QED
    BY <1>5, <1>6, <1>7, <1>8, <1>9 DEF PoolInv

LEMMA BeginSwapStep == PoolInv /\ BeginSwap => PoolInv'
  <1> SUFFICES ASSUME PoolInv, BeginSwap PROVE PoolInv'
    OBVIOUS
  <1>1. /\ pumping = "out" /\ pumping' = "swap"
        /\ UNCHANGED <<next_task_id, task_map, thread, completed_tasks, completed, closing, called>>
    BY DEF BeginSwap, MayPump
  <1>2. raced' \in BOOLEAN /\ (raced => raced')
    BY DEF BeginSwap
  <1>3. TypeOK'
    BY <1>1, <1>2 DEF PoolInv, TypeOK
  <1>4. CompletedOnce' /\ NoneForgotten' /\ Threads'
    BY <1>1, <1>2 DEF PoolInv, CompletedOnce, NoneForgotten, Threads
  <1>5. StoredOnce' /\ OwnInLoop'
    BY <1>1, <1>2 DEF PoolInv, StoredOnce, OwnInLoop
  <1> QED
    BY <1>3, <1>4, <1>5 DEF PoolInv

LEMMA EndSwapStep == PoolInv /\ EndSwap => PoolInv'
  <1> SUFFICES ASSUME PoolInv, EndSwap PROVE PoolInv'
    OBVIOUS
  <1>1. /\ pumping = "swap" /\ pumping' = "loop" /\ completed_tasks' = {}
        /\ UNCHANGED <<next_task_id, task_map, thread, closing, called, raced>>
    BY DEF EndSwap
  <1>2. PICK kept \in Stored(completed_tasks) : completed' = kept
    BY DEF EndSwap
  <1>3. kept \subseteq completed_tasks /\ (~raced => kept = completed_tasks)
    BY <1>2 DEF Stored
  <1>4. completed = {}
    BY <1>1 DEF PoolInv, OwnInLoop
  <1>5. TypeOK'
    BY <1>1, <1>2, <1>3 DEF PoolInv, TypeOK
  <1>6. CompletedOnce' /\ Threads' /\ OwnInLoop'
    BY <1>1 DEF PoolInv, CompletedOnce, Threads, OwnInLoop
  <1>7. NoneForgotten' /\ StoredOnce'
    BY <1>1, <1>2, <1>3, <1>4 DEF PoolInv, NoneForgotten, StoredOnce
  <1> QED
    BY <1>5, <1>6, <1>7 DEF PoolInv

LEMMA CompleteStep == \A t \in Task : PoolInv /\ Complete(t) => PoolInv'
  <1> SUFFICES ASSUME NEW t \in Task, PoolInv, Complete(t) PROVE PoolInv'
    OBVIOUS
  <1>1. /\ pumping = "loop" /\ t \in completed /\ thread[t] = "ended"
        /\ called' = [called EXCEPT ![t] = @ + 1]
        /\ task_map' = task_map \ {t}
        /\ completed' = completed \ {t}
        /\ UNCHANGED <<next_task_id, thread, completed_tasks, pumping, closing, raced>>
    BY DEF Complete
  <1>2. TypeOK'
    BY <1>1 DEF PoolInv, TypeOK
  <1>3. Threads' /\ OwnInLoop'
    BY <1>1 DEF PoolInv, Threads, OwnInLoop
  <1>4. ~raced => t \in task_map /\ t \notin completed_tasks
    BY <1>1 DEF PoolInv, StoredOnce
  <1>5. t < next_task_id
    BY <1>1, Ids DEF PoolInv, Threads, TypeOK
  <1>6. CompletedOnce'
    <2> SUFFICES ASSUME ~raced, NEW u \in Task
                 PROVE  called'[u] = IF u < next_task_id /\ u \notin task_map \ {t} THEN 1 ELSE 0
      BY <1>1 DEF CompletedOnce
    <2>1. called[u] = IF u < next_task_id /\ u \notin task_map THEN 1 ELSE 0
      BY DEF PoolInv, CompletedOnce
    <2>2. CASE u = t
      <3>1. called'[u] = called[u] + 1
        BY <1>1, <2>2 DEF PoolInv, TypeOK
      <3> QED
        BY <1>4, <1>5, <2>1, <2>2, <3>1
    <2>3. CASE u # t
      <3>1. called'[u] = called[u]
        BY <1>1, <2>3 DEF PoolInv, TypeOK
      <3> QED
        BY <2>1, <2>3, <3>1
    <2> QED
      BY <2>2, <2>3
  <1>7. NoneForgotten' /\ StoredOnce'
    BY <1>1, <1>4 DEF PoolInv, NoneForgotten, StoredOnce
  <1> QED
    BY <1>2, <1>3, <1>6, <1>7 DEF PoolInv

LEMMA EndPumpAndCloseStep == PoolInv /\ (EndPump \/ Close) => PoolInv'
  <1> SUFFICES ASSUME PoolInv, EndPump \/ Close PROVE PoolInv'
    OBVIOUS
  <1>1. TypeOK'
    BY DEF PoolInv, TypeOK, EndPump, Close
  <1>2. CompletedOnce' /\ NoneForgotten' /\ Threads'
    BY DEF PoolInv, CompletedOnce, NoneForgotten, Threads, EndPump, Close
  <1>3. StoredOnce' /\ OwnInLoop'
    BY DEF PoolInv, StoredOnce, OwnInLoop, EndPump, Close
  <1> QED
    BY <1>1, <1>2, <1>3 DEF PoolInv

LEMMA NextPoolInv == PoolInv /\ [Next]_vars => PoolInv'
  <1> SUFFICES ASSUME PoolInv, [Next]_vars PROVE PoolInv'
    OBVIOUS
  <1>1. CASE UNCHANGED vars
    BY <1>1 DEF vars, PoolInv, TypeOK, CompletedOnce, NoneForgotten, Threads, StoredOnce, OwnInLoop
  <1>2. CASE Pump
    BY <1>2, BeginSwapStep, EndSwapStep, EndPumpAndCloseStep, CompleteStep DEF Pump
  <1>3. ASSUME NEW t \in Task, Run(t) PROVE PoolInv'
    BY <1>3, BeginPushStep, EndPushStep DEF Run
  <1> QED
    BY <1>1, <1>2, <1>3, SubmitStep, EndPumpAndCloseStep DEF Next

-----------------------------------------------------------------------------

\* The inductive invariant of the pool holds for any number of tasks.
THEOREM PoolInvariant == Spec => []PoolInv
  BY InitPoolInv, NextPoolInv, PTL DEF Spec

\* The ids in the pool's containers are those of submitted tasks, even after a
\* race.
THEOREM PoolTypes == Spec => []TypeOK
  <1>1. PoolInv => TypeOK
    BY DEF PoolInv
  <1> QED
    BY <1>1, PoolInvariant, PTL

\* on_complete runs once for every task, unless two threads raced.
THEOREM TasksCompleteOnce == Spec => []CompletedOnce
  <1>1. PoolInv => CompletedOnce
    BY DEF PoolInv
  <1> QED
    BY <1>1, PoolInvariant, PTL

\* No task whose thread has ended is forgotten, unless two threads raced.
THEOREM TasksAreNotForgotten == Spec => []NoneForgotten
  <1>1. PoolInv => NoneForgotten
    BY DEF PoolInv
  <1> QED
    BY <1>1, PoolInvariant, PTL
=============================================================================
