SPECIFICATION Spec
CONSTANTS
  NumMotors = 2
  CmdStale = 0
  GroupStale = 1
  Connects = TRUE
  FaultKinds = {"estop", "cmdIdx"}
  MaxQueue = 2
  MaxInputs = 2
  MaxFaults = 2
INVARIANTS TypeOK SerialConsistency NoLostMessage
CHECK_DEADLOCK FALSE
