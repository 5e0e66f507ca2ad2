\* The timeout is two ticks and the clock has four, so that "stale" needs more than the
\* steps of one check.
SPECIFICATION Spec
CONSTANTS
  Readers = {"composer"}
  Timeout = 2
  Word = 16
  MaxItems = 1
  MaxCycles = 2
  MaxTime = 4
PROPERTY StaleOnlyAfterTimeout
CHECK_DEADLOCK FALSE
