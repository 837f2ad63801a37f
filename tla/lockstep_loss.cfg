SPECIFICATION FairSpec
CONSTANTS
  Player = {p1, p2}
  Input = {none}
  NoInput = none
  CommonDelay = 1
  Slow = nobody
  Delay <- MCDelay
  MaxCycle = 3
  MaxLost = 4
INVARIANT LossTolerance
PROPERTY FinishesOrAborts
CHECK_DEADLOCK FALSE
