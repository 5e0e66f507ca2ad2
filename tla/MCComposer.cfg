\* Four items let the leg lap a read twice and four cycles separate a change from a
\* silence; the clock ticks so that a noted time can differ from the one before.
SPECIFICATION Spec
CONSTANTS
  Readers = {"composer"}
  Timeout = 1
  Word = 8
  MaxItems = 4
  MaxCycles = 4
  MaxTime = 3
INVARIANTS TypeOK ReadsNewest ChangeSeen
PROPERTIES SilenceNotRefreshed SilentLegReported LiveLegSpared
CHECK_DEADLOCK FALSE
