SPECIFICATION FairSpec
CONSTANTS
  NumMotors = 1
  CmdStale = 0
  GroupStale = 1
  Connects = TRUE
  FaultKinds = {}
  MaxQueue = 1
  MaxInputs = 1
  MaxFaults = 0
PROPERTIES StaleCommandDisablesMotors
CHECK_DEADLOCK FALSE
