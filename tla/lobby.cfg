SPECIFICATION FairSpec
CONSTANTS
  Queue = {q1, q2}
  NoQueue = noqueue
  Ip = {ip1, ip2}
  NoIp = noip
  RequestTimeout = 2
  SessionTimeout = 3
  RemoveTimeout = 5
  MaxRequests = 5
INVARIANTS RegisteredHasTimer
PROPERTIES UsedSessionsSurvive EventuallyForgotten
CHECK_DEADLOCK FALSE
