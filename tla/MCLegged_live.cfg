\* Liveness: one motor is enough for a frame of one thread to fall between the
\* last frame and the flag of the other; two operator inputs let a mode change
\* race a disable and an enable that are still queued.
SPECIFICATION FairSpec
CONSTANTS
  NumMotors = 1
  CmdStale = 0
  GroupStale = 1
  Connects = FALSE
  FaultKinds = {"estop"}
  MaxQueue = 2
  MaxInputs = 2
  MaxFaults = 1
PROPERTIES EstopStopsMotors MessagesHandled
CHECK_DEADLOCK FALSE
