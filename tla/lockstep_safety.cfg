SPECIFICATION Spec
CONSTANTS
  Player = {p1, p2}
  Input = {none, key}
  NoInput = none
  CommonDelay = 0
  Slow = p2
  Delay <- MCDelay
  MaxCycle = 3
  MaxLost = 0
INVARIANTS TypeOK ConfirmedAgreement PacketsReachBack BoundedLead
PROPERTIES SimulatedInputsAreFinal ImplementsSharedInput
CHECK_DEADLOCK FALSE
