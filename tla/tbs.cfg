SPECIFICATION FairSpec
CONSTANTS
  Game = {g1, g2}
  NoGame = nogame
  s1 = s1
  s2 = s2
  Session = {s1, s2}
  Ai = ai
  NoSession = nosession
  Roster <- MCRoster
  Observer = {s2}
  MaxCommands = 4
  MaxAnswers = 1
INVARIANTS ClientsMatchGames OwnView
CHECK_DEADLOCK FALSE
PROPERTIES MessagesLeave LobbyCatchesUp
