SPECIFICATION FairSpec
CONSTANTS
  NPlayers = 2
  LastRound = 2
  ExtraRounds = 2
  StartIn = 8
  DelayBefore = 6
  LatencyPerCycle = 1
  Latency = {1, 2}
  MaxLost = 1
INVARIANTS OneDelay SameDelay NoneStartsEarly NoneStartsLate StartsOnTime ConfirmationNeverFails
PROPERTIES EveryoneStarts

