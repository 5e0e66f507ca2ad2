SPECIFICATION Spec
CONSTANTS
  NumMotors = 2
  CmdStale = 0
  GroupStale = 1
  Connects = FALSE
  FaultKinds = {}
  MaxQueue = 3
  MaxInputs = 3
  MaxFaults = 0
PROPERTIES StaleGroupDisablesLeg
CHECK_DEADLOCK FALSE
