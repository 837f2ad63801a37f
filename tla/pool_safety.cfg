SPECIFICATION FairSpec
CONSTANT MaxTasks = 3
INVARIANTS CompletedOnce
PROPERTIES Drains
CHECK_DEADLOCK FALSE
