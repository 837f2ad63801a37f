----------------------------- MODULE TileRebuild -----------------------------
(***************************************************************************)
(* Rebuilding a level's tiles in a background thread while the level is    *)
(* edited: level_tile_rebuild_info and the level functions around it, in   *)
(* src/src/level.cpp, and the editor commands that call them.              *)
(*                                                                         *)
(* A layer's tile map is abstracted to a version, and the drawn tiles of a *)
(* layer to the version of the map they were built from.  A set of layers  *)
(* that is empty stands for all layers, as the empty vector does.          *)
(***************************************************************************)
EXTENDS Naturals

CONSTANTS
  Layer,       \* the zorders of the level's tile maps
  MaxVersion,  \* bound: changes of one layer
  MaxNesting   \* bound: groups of commands within each other

ASSUME LayerAssumption == Layer # {}
ASSUME VersionAssumption == MaxVersion \in Nat
ASSUME NestingAssumption == MaxNesting \in Nat

VARIABLES
  tile_maps,           \* [l]: version of the tile map
  tiles,               \* [l]: version the tiles in tiles_ were built from
  in_progress,         \* tile_rebuild_in_progress
  queued,              \* tile_rebuild_queued
  layers_buffer,       \* rebuild_tile_layers_buffer
  worker_buffer,       \* rebuild_tile_layers_worker_buffer
  complete,            \* tile_rebuild_complete
  rebuild_tile_thread, \* "none" or "running"
  worker_maps,         \* the thread's own copy of tile_maps
  updates_frozen,      \* editor_tile_updates_frozen_: groups that are open
  overtaken            \* history: the maps were changed without a request
                       \* while a thread was running

tileVars == <<tile_maps, tiles, in_progress, queued, layers_buffer,
              worker_buffer, complete, rebuild_tile_thread, worker_maps,
              updates_frozen, overtaken>>

Covers(layers, l) == layers = {} \/ l \in layers

InitTiles ==
  /\ tile_maps = [l \in Layer |-> 0]
  /\ tiles = tile_maps
  /\ in_progress = FALSE /\ queued = FALSE /\ complete = FALSE
  /\ layers_buffer = {} /\ worker_buffer = {}
  /\ rebuild_tile_thread = "none" /\ worker_maps = tile_maps
  /\ updates_frozen = 0 /\ overtaken = FALSE

-----------------------------------------------------------------------------

\* Some operators come with a mistaken variant just before them, which is not
\* part of the model: it shows that the properties notice such a mistake.

\* The layers to rebuild, after a request for layers, given the queued flag
\* and the buffer: all layers stay all layers.
MergedForgettingAll(layers, q, buffer) ==
  IF layers = {} THEN {} ELSE buffer \union layers
Merged(layers, q, buffer) ==
  IF layers = {} THEN {}
  ELSE IF ~q \/ buffer # {} THEN buffer \union layers ELSE buffer

\* The second half of start_rebuild_tiles_in_background, with nothing in
\* progress: the thread starts on a copy of the maps.
StartThreadUnflagged(layers) ==
  /\ in_progress' = in_progress
  /\ complete' = FALSE
  /\ worker_buffer' = layers
  /\ layers_buffer' = {}
  /\ worker_maps' = tile_maps'
  /\ rebuild_tile_thread' = "running"
StartThread(layers) ==
  /\ in_progress' = TRUE
  /\ complete' = FALSE
  /\ worker_buffer' = layers
  /\ layers_buffer' = {}
  /\ worker_maps' = tile_maps'
  /\ rebuild_tile_thread' = "running"

\* start_rebuild_tiles_in_background.
StartRebuild(layers) ==
  LET merged == Merged(layers, queued, layers_buffer)
  IN IF in_progress
     THEN /\ queued' = TRUE
          /\ layers_buffer' = merged
          /\ UNCHANGED <<in_progress, complete, worker_buffer, worker_maps,
                          rebuild_tile_thread>>
     ELSE StartThread(merged) /\ UNCHANGED queued

\* Some layers of the level change: those in layers, or any if that is empty.
ChangeMaps(layers) ==
  \E changed \in SUBSET {l \in Layer : Covers(layers, l)} :
    /\ \A l \in changed : tile_maps[l] < MaxVersion
    /\ tile_maps' = [l \in Layer |-> IF l \in changed THEN tile_maps[l] + 1
                                     ELSE tile_maps[l]]

(* An editor command, alone or in a group: it changes tiles and requests a *)
(* rebuild, which freezing does not hold up.                               *)
Edit(layers) ==
  /\ ChangeMaps(layers)
  /\ StartRebuild(layers)
  /\ UNCHANGED <<tiles, updates_frozen, overtaken>>

\* A group of commands is one event handler: nothing else of the game thread
\* comes between its commands.
BetweenHandlers == updates_frozen = 0

(* A step of dragging a rectangle, between freeze_ and unfreeze_: the last *)
(* preview is undone and the new one made, each with its request; nothing  *)
(* starts before the end.                                                  *)
Drag(undone, added) ==
  LET merged == Merged(added, TRUE, Merged(undone, queued, layers_buffer))
  IN /\ BetweenHandlers
     /\ ChangeMaps(IF {} \in {undone, added} THEN {} ELSE undone \union added)
     /\ queued' = TRUE
     /\ IF rebuild_tile_thread = "running"
        THEN /\ layers_buffer' = merged
             /\ UNCHANGED <<in_progress, complete, worker_buffer, worker_maps,
                             rebuild_tile_thread>>
        ELSE StartThread(Merged(merged, TRUE, merged))
     /\ UNCHANGED <<tiles, updates_frozen, overtaken>>

\* rebuild_tiles: at once, whether or not a thread is running; nothing while
\* frozen, as neither of its callers below finds it.
RebuildTiles(frozen) == tiles' = IF frozen > 0 THEN tiles ELSE tile_maps'

(* The tile rules are edited as text, and tiles rebuilt with no request.   *)
GlobalTileUpdate ==
  /\ BetweenHandlers
  /\ ChangeMaps({})
  /\ RebuildTiles(updates_frozen)
  /\ overtaken' = (overtaken \/ rebuild_tile_thread = "running")
  /\ UNCHANGED <<in_progress, queued, layers_buffer, worker_buffer, complete,
                 rebuild_tile_thread, worker_maps, updates_frozen>>

(* editor_freeze_tile_updates, where a group, or its undo or redo, begins  *)
(* and ends.                                                               *)
FreezeTileUpdates ==
  /\ updates_frozen < MaxNesting
  /\ updates_frozen' = updates_frozen + 1
  /\ UNCHANGED <<tile_maps, tiles, in_progress, queued, layers_buffer,
                 worker_buffer, complete, rebuild_tile_thread, worker_maps,
                 overtaken>>
UnfreezeTileUpdates ==
  /\ updates_frozen > 0
  /\ updates_frozen' = updates_frozen - 1
  /\ UNCHANGED <<tile_maps, in_progress, queued, layers_buffer, worker_buffer,
                 complete, rebuild_tile_thread, worker_maps, overtaken>>
  /\ IF updates_frozen' = 0 THEN RebuildTiles(updates_frozen')
     ELSE UNCHANGED tiles

\* build_tiles_thread_function, as its end is seen through the mutex.
BuildTiles ==
  /\ rebuild_tile_thread = "running"
  /\ ~complete
  /\ complete' = TRUE
  /\ UNCHANGED <<tile_maps, tiles, in_progress, queued, layers_buffer,
                 worker_buffer, rebuild_tile_thread, worker_maps,
                 updates_frozen, overtaken>>

\* tiles_, with the layers the thread built replaced by its tiles.
TilesOfThread ==
  [l \in Layer |-> IF Covers(worker_buffer, l) THEN worker_maps[l] ELSE tiles[l]]

(* complete_rebuild_tiles_in_background, in every cycle of the editor: it  *)
(* joins the thread, takes its tiles, and starts what was queued meanwhile.*)
CompleteRebuildForgettingQueue ==
  /\ BetweenHandlers
  /\ in_progress /\ complete
  /\ tiles' = TilesOfThread
  /\ queued' = FALSE
  /\ in_progress' = FALSE
  /\ worker_buffer' = {}
  /\ rebuild_tile_thread' = "none"
  /\ UNCHANGED <<tile_maps, complete, layers_buffer, worker_maps,
                 updates_frozen, overtaken>>
CompleteRebuild ==
  /\ BetweenHandlers
  /\ in_progress /\ complete
  /\ tiles' = TilesOfThread
  /\ queued' = FALSE
  /\ UNCHANGED <<tile_maps, updates_frozen, overtaken>>
  /\ IF queued
     THEN StartThread(Merged(layers_buffer, FALSE, layers_buffer))
     ELSE /\ in_progress' = FALSE
          /\ worker_buffer' = {}
          /\ rebuild_tile_thread' = "none"
          /\ UNCHANGED <<complete, layers_buffer, worker_maps>>

-----------------------------------------------------------------------------

NextTiles ==
  \/ \E layers \in SUBSET Layer : Edit(layers)
  \/ \E undone, added \in SUBSET Layer : Drag(undone, added)
  \/ GlobalTileUpdate
  \/ FreezeTileUpdates
  \/ UnfreezeTileUpdates
  \/ BuildTiles
  \/ CompleteRebuild

TilesSpec == InitTiles /\ [][NextTiles]_tileVars

\* The thread ends, every event handler ends, whatever groups are in it, and the
\* editor's cycle goes on: it calls CompleteRebuild again and again between
\* handlers, which is why handlers do not keep it from running.
FairTilesSpec ==
  /\ TilesSpec
  /\ WF_tileVars(BuildTiles) /\ WF_tileVars(UnfreezeTileUpdates)
  /\ SF_tileVars(UnfreezeTileUpdates /\ BetweenHandlers')
  /\ SF_tileVars(CompleteRebuild)

-----------------------------------------------------------------------------
(* Properties.                                                             *)

\* Every variable keeps its shape.
TilesTypeOK ==
  /\ tile_maps \in [Layer -> Nat] /\ tiles \in [Layer -> Nat]
  /\ worker_maps \in [Layer -> Nat]
  /\ layers_buffer \subseteq Layer /\ worker_buffer \subseteq Layer
  /\ in_progress \in BOOLEAN /\ queued \in BOOLEAN
  /\ complete \in BOOLEAN /\ overtaken \in BOOLEAN
  /\ rebuild_tile_thread \in {"none", "running"}
  /\ updates_frozen \in 0..MaxNesting

\* A rebuild is in progress exactly when there is a thread: no frame joins a
\* thread that does not exist.
ThreadInProgress == in_progress <=> rebuild_tile_thread = "running"

\* The running thread, or the one queued behind it, will bring layer l up to
\* the present map.
Promised(l) ==
  \/ rebuild_tile_thread = "running" /\ Covers(worker_buffer, l)
     /\ worker_maps[l] = tile_maps[l]
  \/ rebuild_tile_thread = "running" /\ queued /\ Covers(layers_buffer, l)

\* However requests for some layers, for all layers, dragging and groups of
\* commands mix, no change is forgotten: a layer drawn from an old map is going
\* to be rebuilt.
NoChangeForgotten ==
  overtaken \/ \A l \in Layer : tiles[l] = tile_maps[l] \/ Promised(l)

\* A layer the running thread builds from an old map is queued again: what
\* makes NoChangeForgotten inductive.
OldCopyQueued ==
  overtaken \/ \A l \in Layer :
    (rebuild_tile_thread = "running" /\ Covers(worker_buffer, l)) =>
      \/ worker_maps[l] = tile_maps[l]
      \/ queued /\ Covers(layers_buffer, l)

\* When the editing ends, the level is drawn as it was edited.
TilesCatchUp == <>[](overtaken \/ tiles = tile_maps)
=============================================================================
