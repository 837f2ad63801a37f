SPECIFICATION Spec
CONSTANT MaxTasks = 2
INVARIANTS AccessesLocked
CHECK_DEADLOCK FALSE
