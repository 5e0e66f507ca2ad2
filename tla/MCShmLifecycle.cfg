\* Three starts of the robot: a crash leaves the first segment to the second start, and
\* the name may be removed before the third, so that the controller can hold a segment
\* that a robot took over, one without a name, and be too late for both.  One tick is more than the stale time.
SPECIFICATION Spec
CONSTANTS
  MaxSegments = 2
  MaxBoots = 3
  StaleAge = 0
INVARIANTS TypeOK AttachesToReady
PROPERTIES LeavesDead Reattaches
CHECK_DEADLOCK FALSE
