SPECIFICATION Spec
CONSTANTS
  NumMotors = 2
  CmdStale = 0
  GroupStale = 1
  Connects = FALSE
  FaultKinds = {}
  MaxQueue = 3
  MaxInputs = 1
  MaxFaults = 0
INVARIANTS ShutdownDisablesMotors
CHECK_DEADLOCK FALSE
