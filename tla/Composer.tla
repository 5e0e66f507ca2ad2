------------------------------ MODULE Composer ------------------------------
(***************************************************************************)
(* Liveness tracking of a motor group.  The leg thread stages its motor    *)
(* data in a double buffer under a sequence number it derives from the     *)
(* composer's own cycle counter.  In every cycle the composer thread reads *)
(* the staged data, notes the time if the number has changed, publishes a  *)
(* snapshot and counts the cycle.  The main thread's check_staleness       *)
(* compares the time of the last change with a clock it read before.       *)
(*                                                                         *)
(* The three sources are tracked alike and share nothing but the counter,  *)
(* so there is one here.                                                   *)
(***************************************************************************)
EXTENDS DoubleBuffer

CONSTANTS
  Timeout,    \* MOTOR_GROUP_STALE_TIMEOUT_MS, in ticks
  Word,       \* uint64_t arithmetic is modulo Word
  MaxItems,   \* bound: items the leg publishes
  MaxCycles,  \* bound: cycles of the composer
  MaxTime     \* bound: the clock

ASSUME ComposerAssumption ==
  /\ "composer" \in Readers
  /\ Timeout \in Nat \ {0} /\ MaxItems \in Nat /\ MaxCycles \in Nat
  /\ MaxTime \in Nat /\ Word \in Nat /\ Word > MaxTime + Timeout

VARIABLES
  pc,            \* the composer thread: where it is in compose_cycle
  composedSeq,   \* composed_sequence
  prevSeq,       \* prev_grp_a_seq_
  stamp,         \* sd.compose_timestamp_ns
  lastChange,    \* last_grp_a_change_ns_
  clock,         \* CLOCK_MONOTONIC
  checking,      \* the main thread is in check_staleness
  now, stale,    \* its clock and its answer
  news, due,     \* history: see ChangeSeen
  heard,         \* history: the time of the last cycle with due news
  quiet, moving  \* history: since when the leg is silent, see SilenceNotRefreshed

trackVars == <<composedSeq, prevSeq, stamp, lastChange>>
checkVars == <<checking, now, stale>>
histVars  == <<news, due, heard, quiet, moving>>
vars == <<dbVars, pc, trackVars, clock, checkVars, histVars>>

Never == -1   \* UINT64_MAX, the initial prev_grp_a_seq_

TypeOK ==
  /\ buf \in [{0, 1} -> Item] /\ idx \in {0, 1} /\ load \in Nat /\ done \in Nat
  /\ at \in {"idle", "first", "second", "flip"}
  /\ rd \in [Readers -> Read]
  /\ pc \in {"idle", "read", "track", "count"}
  /\ composedSeq \in Nat /\ prevSeq \in Nat \cup {Never}
  /\ stamp \in Nat /\ lastChange \in Nat /\ clock \in Nat /\ now \in Nat
  /\ checking \in BOOLEAN /\ stale \in BOOLEAN
  /\ news \in BOOLEAN /\ due \in BOOLEAN /\ moving \in BOOLEAN
  /\ heard \in Nat /\ quiet \in Nat

-----------------------------------------------------------------------------
(* The leg thread, at the end of controllerPeriodic.                       *)

\* stageData.sequence = composed_sequence + 1, then staging->publish(stageData).
StageBegin ==
  /\ done < MaxItems
  /\ PutBegin(composedSeq + 1)
  /\ UNCHANGED <<pc, trackVars, clock, checkVars, histVars>>

StageFirst == PutFirst /\ UNCHANGED <<pc, trackVars, clock, checkVars, histVars>>

StageSecond ==
  /\ PutSecond
  /\ quiet' = 0 /\ moving' = TRUE
  /\ UNCHANGED <<pc, trackVars, clock, checkVars, news, due, heard>>

StageFlip ==
  /\ Flip
  /\ news' = (news \/ load > composedSeq)
  /\ quiet' = 0 /\ moving' = TRUE
  /\ UNCHANGED <<pc, trackVars, clock, checkVars, due, heard>>

Leg == StageBegin \/ StageFirst \/ StageSecond \/ StageFlip

-----------------------------------------------------------------------------
(* The composer thread: compose_cycle.                                     *)

ReadBegin ==
  /\ pc = "idle" /\ composedSeq < MaxCycles
  /\ GetIndex("composer")
  /\ pc' = "read"
  /\ due' = news
  /\ quiet' = IF moving THEN 0 ELSE IF quiet = 0 THEN clock ELSE quiet
  /\ moving' = FALSE
  /\ UNCHANGED <<trackVars, clock, checkVars, news, heard>>

ReadHalf ==
  /\ GetFirst("composer") \/ GetSecond("composer")
  /\ UNCHANGED <<pc, trackVars, clock, checkVars, histVars>>

\* Mutant of Stamp: the time is that of the cycle before.
StampForgets ==
  /\ pc = "read" /\ ~rd["composer"].on
  /\ heard' = IF due THEN clock ELSE heard
  /\ pc' = "track"
  /\ UNCHANGED <<dbVars, trackVars, clock, checkVars, news, due, quiet, moving>>

\* The data is read: the time is taken ...
Stamp ==
  /\ pc = "read" /\ ~rd["composer"].on
  /\ stamp' = clock
  /\ heard' = IF due THEN clock ELSE heard
  /\ pc' = "track"
  /\ UNCHANGED <<dbVars, composedSeq, prevSeq, lastChange, clock, checkVars, news, due,
                 quiet, moving>>

\* Mutant of Track: prev_grp_a_seq_ is not assigned.
TrackForgets ==
  /\ pc = "track"
  /\ lastChange' = IF rd["composer"].seq # prevSeq THEN stamp ELSE lastChange
  /\ pc' = "count"
  /\ UNCHANGED <<dbVars, prevSeq, composedSeq, stamp, clock, checkVars, histVars>>

\* ... and noted if the sequence number has changed.  The snapshot is then written.
Track ==
  /\ pc = "track"
  /\ prevSeq' = rd["composer"].seq
  /\ lastChange' = IF rd["composer"].seq # prevSeq THEN stamp ELSE lastChange
  /\ pc' = "count"
  /\ UNCHANGED <<dbVars, composedSeq, stamp, clock, checkVars, histVars>>

\* Mutant of Count: composed_sequence is not incremented.
CountForgets ==
  /\ pc = "count"
  /\ pc' = "idle"
  /\ news' = FALSE
  /\ UNCHANGED <<dbVars, trackVars, clock, checkVars, due, heard, quiet, moving>>

\* composed_sequence.fetch_add(1).
Count ==
  /\ pc = "count"
  /\ composedSeq' = composedSeq + 1
  /\ pc' = "idle"
  /\ news' = FALSE
  /\ UNCHANGED <<dbVars, prevSeq, stamp, lastChange, clock, checkVars, due, heard, quiet,
                 moving>>

ComposeCycle == ReadBegin \/ ReadHalf \/ Stamp \/ Track \/ Count

-----------------------------------------------------------------------------
(* The main thread: check_staleness.                                       *)

\* The clock is read first ...
SampleClock ==
  /\ ~checking
  /\ now' = clock
  /\ checking' = TRUE
  /\ UNCHANGED <<dbVars, pc, trackVars, clock, stale, histVars>>

\* Mutant of CheckStaleness: it looks at the age of the snapshot, not of the group.
CheckStalenessOfSnapshot ==
  /\ checking
  /\ stale' = (lastChange = 0 \/ (now - stamp) % Word >= Timeout)
  /\ checking' = FALSE
  /\ UNCHANGED <<dbVars, pc, trackVars, clock, now, histVars>>

\* ... and the time of the last change after it; the difference is unsigned.
CheckStaleness ==
  /\ checking
  /\ stale' = (lastChange = 0 \/ (now - lastChange) % Word >= Timeout)
  /\ checking' = FALSE
  /\ UNCHANGED <<dbVars, pc, trackVars, clock, now, histVars>>

Tick ==
  /\ clock < MaxTime
  /\ clock' = clock + 1
  /\ UNCHANGED <<dbVars, pc, trackVars, checkVars, histVars>>

\* Composer::start over the zeroed segment, at time 1.
Init ==
  /\ DBInit
  /\ pc = "idle"
  /\ composedSeq = 0 /\ prevSeq = Never
  /\ stamp = 1 /\ lastChange = 1 /\ clock = 1
  /\ checking = FALSE /\ now = 1 /\ stale = FALSE
  /\ news = FALSE /\ due = FALSE /\ heard = 1 /\ quiet = 0 /\ moving = TRUE

Next == Leg \/ ComposeCycle \/ SampleClock \/ CheckStaleness \/ Tick

Spec == Init /\ [][Next]_vars

-----------------------------------------------------------------------------
\* A leg that publishes is seen to be alive: when a publish whose sequence number was
\* loaded after the composer's last cycle was complete before this cycle's read, the
\* composer finds the number changed, even if the read is torn.
ChangeSeen ==
  due /\ pc \in {"read", "track"} /\ ~rd["composer"].on => rd["composer"].seq # prevSeq

\* A leg that is silent is not kept alive, although its sequence numbers come from the
\* composer's own counter and the read may be torn: last_grp_a_change_ns_ moves only if
\* the leg has copied or published something since the read of the cycle before.
SilenceNotRefreshed == [][lastChange' # lastChange => quiet = 0]_vars

\* lib/composer/Composer.h:78 says of the bit that check_staleness sets: "Motor Group A
\* stale (> MOTOR_GROUP_STALE_TIMEOUT_MS)": it is set only if the timeout has passed
\* since the last change.  (The comment says more than the timeout, the code tests for
\* at least the timeout: the age that equals it is not what this is about, and it
\* counts as passed here.)
StaleOnlyAfterTimeout ==
  [][ checking /\ ~checking' /\ stale' => clock >= lastChange + Timeout ]_vars

\* A leg that falls silent is reported.  Once the composer has begun a cycle before which
\* the leg was silent for a whole one, any check_staleness that reads its clock more than
\* the timeout after that reports it, however reads were torn or lapped before, whatever
\* numbers the composer's own counter lent the leg and although the age is an unsigned
\* difference.
SilentLegReported ==
  [][ checking /\ ~checking' /\ quiet # 0 /\ now > quiet + Timeout => stale' ]_vars

\* A leg that publishes is not reported, but for one cause.  When a publish was complete
\* before a cycle that took its time at heard, and the cycle has noted it, a report means
\* that the timeout has passed since, or else that the composer noted a later change
\* between check_staleness's reading of the clock and its load.
LiveLegSpared ==
  [][ checking /\ ~checking' /\ stale' /\ pc # "track"
        => now >= heard + Timeout \/ lastChange > now ]_vars
=============================================================================
