\* Four slots, and enough pushes for both counters to go round the ring with the ring
\* full and empty in between.
SPECIFICATION Spec
CONSTANTS
  Capacity = 4
  MaxPushes = 12
INVARIANTS SlotsApart
PROPERTIES ImplementsQueue
CHECK_DEADLOCK FALSE
