SPECIFICATION FairSpec
CONSTANTS
  NPlayers = 2
  LastRound = 5
  ExtraRounds = 2
  StartIn = 4
  DelayBefore = 2
  LatencyPerCycle = 1
  Latency = {1}
  MaxLost = 0
PROPERTIES ConfirmationEnds

