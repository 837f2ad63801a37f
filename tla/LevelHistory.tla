----------------------------- MODULE LevelHistory -----------------------------
(* Snapshots of a level, and going back and forth in them: backup and what   *)
(* restores from it (src/src/level.cpp), as the frames of level_runner.cpp   *)
(* use them when history is recorded, with the record of the local player's  *)
(* inputs (src/src/controls.cpp).  A level is deterministic: its state, and  *)
(* a snapshot of it, is known by the inputs it was played with.  The one     *)
(* player is local, and the editor is open.                                  *)
EXTENDS Integers, Sequences, SequencesExt

CONSTANTS
  Key,            \* states of the keyboard
  MaxBackups,     \* 250: snapshots kept
  StartingCycles, \* the cycle the level had when it was loaded
  MaxPlayed       \* bound: cycles played

ASSUME HistoryAssumption ==
  /\ MaxBackups \in Nat \ {0}
  /\ StartingCycles \in Nat
  /\ MaxPlayed \in Nat

VARIABLES
  at,        \* in a frame: at its "top" (T is looked at), or at its "events"
  played,    \* the level: the inputs of the cycles played
  controls,  \* controls[local_player]
  backups,   \* backups_
  paused,
  reversing, \* T was held in the last frame
  seams      \* history: what has torn the snapshots apart so far

vars == <<at, played, controls, backups, paused, reversing, seams>>

(* cycle_, of the level and of a snapshot.                                   *)
CycleOf(level) == StartingCycles + Len(level)

Init ==
  /\ at = "top"
  /\ played = << >>
  /\ controls = << >>
  /\ backups = << >>
  /\ paused = FALSE
  /\ reversing = FALSE
  /\ seams = {}

(* --------------------------------- snapshots ----------------------------- *)

NewestAndOne(snapshots) ==
  SubSeq(snapshots, IF Len(snapshots) > MaxBackups THEN Len(snapshots) - MaxBackups ELSE 1,
         Len(snapshots))

(* The oldest snapshots are dropped.                                         *)
Newest(snapshots) ==
  SubSeq(snapshots, IF Len(snapshots) > MaxBackups THEN Len(snapshots) - MaxBackups + 1 ELSE 1,
         Len(snapshots))

AllOf(snapshots, levels) == levels

(* No second snapshot is taken of the cycle the last one has.                *)
NotYet(snapshots, levels) ==
  IF snapshots # << >> /\ levels # << >> /\ CycleOf(Last(snapshots)) = CycleOf(Head(levels))
  THEN Tail(levels) ELSE levels

(* backup, of states of the level that follow each other.                    *)
BackedUp(snapshots, levels) == Newest(snapshots \o NotYet(snapshots, levels))

(* reverse_one_cycle *)
ReverseOneCycle(snapshots) ==
  IF snapshots = << >> THEN UNCHANGED <<played, backups>>
  ELSE played' = Last(snapshots) /\ backups' = Front(snapshots)

(* reverse_to_cycle drops later snapshots, but never the first.              *)
ReverseToCycle(ncycle) ==
  \/ backups = << >> /\ ReverseOneCycle(backups)
  \/ \E n \in DOMAIN backups :
       /\ n = 1 \/ CycleOf(backups[n]) <= ncycle
       /\ \A later \in n + 1 .. Len(backups) : CycleOf(backups[later]) > ncycle
       /\ ReverseOneCycle(SubSeq(backups, 1, n))

(* ---------------------------------- inputs ------------------------------- *)

ReadUntilMore(ncycle, key) ==
  IF Len(controls) <= ncycle + 1
  THEN controls \o [i \in 1 .. ncycle + 2 - Len(controls) |-> key]
  ELSE SubSeq(controls, 1, ncycle + 2)

(* read_until: inputs that are missing are what the keyboard says now.       *)
ReadUntil(ncycle, key) ==
  IF Len(controls) <= ncycle
  THEN controls \o [i \in 1 .. ncycle + 1 - Len(controls) |-> key]
  ELSE SubSeq(controls, 1, ncycle + 1)

NewestInput(cs, level) == Last(cs)

(* get_control_status: the input of the cycle that follows on a state.       *)
Input(cs, level) == cs[Len(level) + 1]

(* process after the keyboard was read.                                      *)
Processed(cs, level) == Append(level, Input(cs, level))

(* The states of the next n cycles, played with the inputs recorded: what    *)
(* process reads meanwhile is forgotten with the control_backup_scope.       *)
Ahead(n) == [i \in 1 .. n |-> played \o SubSeq(controls, Len(played) + 1, Len(played) + i)]

(* ------------------------------ frames and events ------------------------ *)

(* The level goes on from a cycle whose snapshot was taken out and not put   *)
(* back, which only the end of a frame does.                                 *)
Skipped == IF backups # << >> /\ Last(backups) # played THEN {"skipped"} ELSE {}

(* T is held: a cycle back, and an input is taken from the record.           *)
ReverseCycle ==
  /\ at = "top"
  /\ ReverseOneCycle(backups)
  /\ controls' = IF controls = << >> THEN << >> ELSE Front(controls)
  /\ reversing' = TRUE
  /\ seams' = seams \union {"rewound"}
  /\ UNCHANGED <<at, paused>>

BeginFrame ==
  /\ at = "top"
  /\ at' = "events"
  /\ \E key \in Key :
       controls' = IF reversing THEN ReadUntil(CycleOf(played), key) ELSE controls
  /\ reversing' = FALSE
  /\ UNCHANGED <<played, backups, paused, seams>>

Paused(flag) ==
  /\ paused' = flag
  /\ \E key \in Key :
       controls' = IF flag THEN controls ELSE ReadUntil(CycleOf(played), key)

TogglePause ==
  /\ at = "events"
  /\ Paused(~paused)
  /\ UNCHANGED <<at, played, backups, reversing, seams>>

CloseEditor ==
  /\ at = "events"
  /\ Paused(FALSE)
  /\ UNCHANGED <<at, played, backups, reversing, seams>>

(* on_history_change: the slider spans the frames from the earliest snapshot *)
(* to the end of the inputs.                                                 *)
FirstFrame == IF backups = << >> THEN CycleOf(played) ELSE CycleOf(Head(backups))
LastFrame == Len(controls)
Frames == IF FirstFrame > LastFrame THEN {LastFrame} ELSE FirstFrame .. LastFrame

HistoryChange(target_frame) ==
  LET ahead == Ahead(target_frame - CycleOf(played))
  IN
  /\ at = "events"
  /\ paused
  /\ target_frame \in Frames
  /\ target_frame <= StartingCycles + MaxPlayed
  /\ CASE target_frame < CycleOf(played) -> ReverseToCycle(target_frame)
       [] target_frame > CycleOf(played) ->
            /\ played' = Last(ahead)
            /\ backups' = BackedUp(backups, ahead)
       [] OTHER -> UNCHANGED <<played, backups>>
  /\ seams' = IF target_frame > CycleOf(played) THEN seams \union Skipped ELSE seams
  /\ UNCHANGED <<at, controls, paused, reversing>>

WithoutOldest(snapshots, starting_backups) ==
  SubSeq(snapshots, Len(snapshots) - starting_backups + 1, Len(snapshots))

(* backups_.resize in predict_future.                                        *)
Resized(snapshots, starting_backups) == SubSeq(snapshots, 1, starting_backups)

(* update_history_trails: predict_future plays to the end of the inputs, or  *)
(* until a formula fails, and looks at the snapshots taken meanwhile.  There *)
(* are trails only while the game is paused.                                 *)
PredictFuture(nframes) ==
  LET before == Front(BackedUp(backups, <<played>>))
      ahead == Ahead(nframes)
      there == IF nframes = 0 THEN played ELSE Last(ahead)
      traced == BackedUp(BackedUp(before, ahead), <<there>>)
  IN
  /\ at = "events"
  /\ paused
  /\ nframes = 0 \/ nframes <= LastFrame - CycleOf(played)
  /\ backups' = Resized(traced, Len(before))
  /\ UNCHANGED <<at, played, controls, paused, reversing, seams>>

(* The level gets the state of the editor's unplayed level (transfer_state_to*)
(* and new_level), but keeps its own snapshots.                              *)
Reset == played' = << >> /\ UNCHANGED backups

(* The player died.                                                          *)
ResetPlayingLevel ==
  /\ at = "events"
  /\ ~paused
  /\ Reset
  /\ controls' = << >>
  /\ seams' = seams \union {"reset"}
  /\ UNCHANGED <<at, paused, reversing>>

(* The editor is asked for again.                                            *)
StartEditor ==
  /\ at = "events"
  /\ Reset
  /\ paused' = ~paused
  /\ \E key \in Key :
       controls' = IF paused THEN [i \in 1 .. StartingCycles + 1 |-> key] ELSE << >>
  /\ seams' = seams \union {"reset"}
  /\ UNCHANGED <<at, reversing>>

(* A cycle is played unless paused, and the frame ends with a snapshot.      *)
EndFrame ==
  /\ at = "events"
  /\ at' = "top"
  /\ IF paused THEN UNCHANGED <<played, controls, seams>>
     ELSE /\ Len(played) < MaxPlayed
          /\ \E key \in Key : controls' = Append(controls, key)
          /\ played' = Processed(controls', played)
          /\ seams' = seams \union Skipped
  /\ backups' = BackedUp(backups, <<played'>>)
  /\ UNCHANGED <<paused, reversing>>

Next ==
  \/ ReverseCycle
  \/ BeginFrame
  \/ TogglePause
  \/ CloseEditor
  \/ \E target_frame \in Frames : HistoryChange(target_frame)
  \/ \E nframes \in 0 .. Len(controls) : PredictFuture(nframes)
  \/ ResetPlayingLevel
  \/ StartEditor
  \/ EndFrame

Spec == Init /\ [][Next]_vars

(* ------------------------------- properties ------------------------------ *)

(* Types, and the number of snapshots (level.cpp:4025).                      *)
TypeOK ==
  /\ at \in {"top", "events"}
  /\ played \in Seq(Key)
  /\ controls \in Seq(Key)
  /\ backups \in Seq(Seq(Key)) /\ Len(backups) <= MaxBackups
  /\ {paused, reversing} \subseteq BOOLEAN
  /\ seams \subseteq {"rewound", "reset", "skipped"}

(* When a cycle is played its input is there, as ASSERT_INDEX_INTO_VECTOR in *)
(* get_control_status wants (controls.cpp:332), and the keys pressed now     *)
(* are played at most one cycle late, plus the cycles the level had when it  *)
(* was loaded: read_until forgets to subtract starting_cycles.               *)
InputInReach ==
  at = "events" /\ ~paused =>
    Len(controls) \in Len(played) .. Len(played) + StartingCycles + 1

(* Going back and forth, the level is always one that was played with the    *)
(* recorded inputs, as are the snapshots: moving the slider shows what       *)
(* happened.  Rewinding with T takes the input of a cycle it does not undo,  *)
(* and a reset level keeps the snapshots of the game before.                 *)
HistoryIsWhatHappened ==
  seams = {} =>
    /\ IsPrefix(played, controls)
    /\ \A i \in DOMAIN backups : IsPrefix(backups[i], controls)

(* Snapshots are in the order of their cycles, and none is of the future:    *)
(* otherwise reverse_to_cycle stops at the wrong one.                        *)
SnapshotsAscend ==
  seams = {} =>
    /\ \A i \in 2 .. Len(backups) : Len(backups[i - 1]) < Len(backups[i])
    /\ backups # << >> => Len(Last(backups)) <= Len(played)

(* A prediction leaves nothing behind: predict_future plays ahead in the     *)
(* level itself, with snapshots, and then cuts backups_ back to its size     *)
(* before.  Were snapshots dropped at the other end meanwhile, predicted     *)
(* ones would stay (level.cpp:4160).                                         *)
PredictionLeavesNoTrace ==
  [][\A nframes \in 0 .. Len(controls) :
       seams = {} /\ PredictFuture(nframes) => backups' \in {backups, Front(BackedUp(backups, <<played>>))}]_vars

=============================================================================
