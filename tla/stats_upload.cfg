SPECIFICATION FairSpec
CONSTANTS
  MaxRecords = 3
  MaxFlushes = 3
INVARIANTS OnlyLastFlushLeftBehind EachRecordOnce
PROPERTIES QuitReturns
CHECK_DEADLOCK FALSE
