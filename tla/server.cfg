SPECIFICATION FairSpec
CONSTANTS
  Client = {c1, c2, c3}
  Level = {arena}
  Wants <- MCWants
  NPlayers <- MCNPlayers
INVARIANTS TypeOK OnlyFirstUnreachable PlayersMatchInfo RelayTargetsKnown
PROPERTIES FullGameStarts
CHECK_DEADLOCK FALSE
