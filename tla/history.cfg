SPECIFICATION Spec
CONSTANTS
  Key = {up, down}
  MaxBackups = 3
  StartingCycles = 1
  MaxPlayed = 4
INVARIANTS TypeOK InputInReach HistoryIsWhatHappened SnapshotsAscend
PROPERTIES PredictionLeavesNoTrace
CHECK_DEADLOCK FALSE
