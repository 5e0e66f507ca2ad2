SPECIFICATION Spec
CONSTANTS
  Capacity = 1
  BatchSize = 2
  DrainLimit = 2
  Downsample = 2
  ConnectDelay = 1
  HighWater = 2
  BaseDelay = 1
  MaxDelay = 2
  MaxBatches = 4
INVARIANTS TypeOK EveryBatchOnce OneAttempt WsiNotFreed NoLostWakeup
PROPERTIES SentInOrder ImplementsChannel BackpressureEnds
CHECK_DEADLOCK FALSE
