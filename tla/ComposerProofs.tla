--------------------------- MODULE ComposerProofs ---------------------------
(***************************************************************************)
(* Liveness tracking is right for any timeout and any bounds: a leg that   *)
(* publishes is seen, a leg that is silent is not kept alive, and          *)
(* check_staleness reports accordingly.                                    *)
(***************************************************************************)
EXTENDS Composer, DoubleBufferProofs

me == rd["composer"]

\* The copy is under way while a half is missing, and only inside a cycle.
Phase ==
  /\ me.on <=> me.a = Unread \/ me.b = Unread
  /\ me.on => pc = "read"

\* No number is ahead of the cycle under way, numbers grow with the publishes, and the
\* number seen last is older than the cycle under way until the composer stores it.
Numbers ==
  /\ \A i \in {0, 1} : buf[i].seq <= composedSeq + 1
  /\ load <= composedSeq + 1 /\ me.seq <= composedSeq + 1
  /\ at # "idle" => buf[idx].seq <= load
  /\ at = "flip" => buf[1 - idx].seq = load
  /\ prevSeq <= composedSeq + 1
  /\ pc # "count" => prevSeq <= composedSeq

\* Why a change is seen: the newest item, the buffer being read and what was read of it
\* all bear the number of the cycle under way.
Seen ==
  /\ news => buf[idx].seq > composedSeq
  /\ due /\ pc \in {"read", "track"} =>
       /\ news
       /\ me.b = Unread => buf[me.slot].seq > composedSeq
       /\ me.b # Unread => me.seq > composedSeq

\* Why silence is not refreshed: while the leg has not moved, the read, the newest
\* item and the number seen last agree.
Silent ==
  /\ ~moving => /\ pc = "idle" \/ pc = "count" => prevSeq = buf[idx].seq
                /\ pc \in {"read", "track"} =>
                     /\ me.slot = idx
                     /\ me.b # Unread => me.seq = buf[idx].seq
  /\ quiet # 0 /\ pc \in {"read", "track"} => ~moving /\ prevSeq = buf[idx].seq

Inv == TypeOK /\ DBInv /\ Phase /\ Numbers /\ Seen /\ Silent

-----------------------------------------------------------------------------
\* Every step of the three threads is a step of the double buffer or leaves it alone.
LEMMA BufferStep == TypeOK /\ [Next]_vars => [DBNext]_dbVars
BY ComposerAssumption
   DEF TypeOK, Next, Leg, StageBegin, StageFirst, StageSecond, StageFlip, ComposeCycle,
       ReadBegin, ReadHalf, Stamp, Track, Count, SampleClock, CheckStaleness, Tick,
       DBNext, vars

\* The typing of the composer's variables is preserved.
LEMMA TypeStep == TypeOK /\ DBType' /\ [Next]_vars => TypeOK'
<1> SUFFICES ASSUME TypeOK, DBType', [Next]_vars PROVE TypeOK'
  OBVIOUS
<1> USE DEF TypeOK, DBType
<1>1. CASE StageBegin
  BY <1>1 DEF StageBegin, trackVars, checkVars, histVars
<1>2. CASE StageFirst
  BY <1>2 DEF StageFirst, trackVars, checkVars, histVars
<1>3. CASE StageSecond
  BY <1>3 DEF StageSecond, trackVars, checkVars, histVars
<1>4. CASE StageFlip
  BY <1>4 DEF StageFlip, trackVars, checkVars, histVars
<1>5. CASE ReadBegin
  BY <1>5, ComposerAssumption DEF ReadBegin, trackVars, checkVars, histVars
<1>6. CASE ReadHalf
  BY <1>6, ComposerAssumption DEF ReadHalf, trackVars, checkVars, histVars
<1>7. CASE Stamp
  BY <1>7, ComposerAssumption DEF Stamp, trackVars, checkVars, histVars
<1>8. CASE Track
  BY <1>8, ComposerAssumption DEF Track, trackVars, checkVars, histVars, Read
<1>9. CASE Count
  <2>1. composedSeq' \in Nat
    BY <1>9 DEF Count
  <2> QED BY <1>9, <2>1, Zenon DEF Count, trackVars, checkVars, histVars
<1>10. CASE SampleClock
  BY <1>10 DEF SampleClock, trackVars, checkVars, histVars
<1>11. CASE CheckStaleness
  BY <1>11 DEF CheckStaleness, trackVars, checkVars, histVars
<1>12. CASE Tick
  BY <1>12 DEF Tick, trackVars, checkVars, histVars
<1>13. CASE UNCHANGED vars
  BY <1>13 DEF vars, trackVars, checkVars, histVars
<1> QED BY <1>1, <1>2, <1>3, <1>4, <1>5, <1>6, <1>7, <1>8, <1>9, <1>10, <1>11, <1>12, <1>13
  DEF Next, Leg, ComposeCycle

\* A step preserves what the argument needs of phases, numbers and history.
LEMMA TrackStep ==
  Inv /\ TypeOK' /\ [Next]_vars => Phase' /\ Numbers' /\ Seen' /\ Silent'
<1> SUFFICES ASSUME Inv, TypeOK', [Next]_vars
             PROVE  Phase' /\ Numbers' /\ Seen' /\ Silent'
  OBVIOUS
<1> USE ComposerAssumption DEF Inv, TypeOK, Item, Read, Unread, Never, me
<1>1. CASE StageBegin
  <2>1. Phase'
    BY <1>1 DEF StageBegin, PutBegin, trackVars, checkVars, histVars, Phase
  <2>2. Numbers'
    BY <1>1 DEF StageBegin, PutBegin, trackVars, checkVars, histVars, Numbers
  <2>3. Seen'
    BY <1>1 DEF StageBegin, PutBegin, trackVars, checkVars, histVars, Seen, Numbers
  <2>4. Silent'
    BY <1>1 DEF StageBegin, PutBegin, trackVars, checkVars, histVars, Silent, Phase
  <2> QED BY <2>1, <2>2, <2>3, <2>4
<1>2. CASE StageFirst
  <2>1. Phase'
    BY <1>2 DEF StageFirst, PutFirst, trackVars, checkVars, histVars, Phase
  <2>2. Numbers'
    BY <1>2 DEF StageFirst, PutFirst, trackVars, checkVars, histVars, Numbers
  <2>3. Seen'
    BY <1>2 DEF StageFirst, PutFirst, trackVars, checkVars, histVars, Seen, Numbers
  <2>4. Silent'
    BY <1>2 DEF StageFirst, PutFirst, trackVars, checkVars, histVars, Silent, Phase
  <2> QED BY <2>1, <2>2, <2>3, <2>4
<1>3. CASE StageSecond
  <2>1. Phase'
    BY <1>3 DEF StageSecond, PutSecond, trackVars, checkVars, histVars, Phase
  <2>2. Numbers'
    BY <1>3 DEF StageSecond, PutSecond, trackVars, checkVars, histVars, Numbers
  <2>3. Seen'
    BY <1>3 DEF StageSecond, PutSecond, trackVars, checkVars, histVars, Seen, Numbers
  <2>4. Silent'
    BY <1>3 DEF StageSecond, PutSecond, trackVars, checkVars, histVars, Silent, Phase
  <2> QED BY <2>1, <2>2, <2>3, <2>4
<1>4. CASE StageFlip
  <2>1. Phase'
    BY <1>4 DEF StageFlip, Flip, trackVars, checkVars, histVars, Phase
  <2>2. Numbers'
    BY <1>4 DEF StageFlip, Flip, trackVars, checkVars, histVars, Numbers
  <2>3. Seen'
    BY <1>4 DEF StageFlip, Flip, trackVars, checkVars, histVars, Seen, Numbers
  <2>4. Silent'
    BY <1>4 DEF StageFlip, Flip, trackVars, checkVars, histVars, Silent, Phase
  <2> QED BY <2>1, <2>2, <2>3, <2>4
<1>5. CASE ReadBegin
  <2>1. Phase'
    BY <1>5 DEF ReadBegin, GetIndex, trackVars, checkVars, histVars, Phase
  <2>2. Numbers'
    BY <1>5 DEF ReadBegin, GetIndex, trackVars, checkVars, histVars, Numbers
  <2>3. Seen'
    BY <1>5 DEF ReadBegin, GetIndex, trackVars, checkVars, histVars, Seen, Numbers
  <2>4. Silent'
    BY <1>5 DEF ReadBegin, GetIndex, trackVars, checkVars, histVars, Silent, Phase
  <2> QED BY <2>1, <2>2, <2>3, <2>4
<1>6. CASE ReadHalf
  <2>1. Phase'
    BY <1>6 DEF ReadHalf, GetFirst, GetSecond, trackVars, checkVars, histVars, Phase
  <2>2. Numbers'
    BY <1>6 DEF ReadHalf, GetFirst, GetSecond, trackVars, checkVars, histVars, Numbers
  <2>3. Seen'
    BY <1>6 DEF ReadHalf, GetFirst, GetSecond, trackVars, checkVars, histVars, Seen, Numbers
  <2>4. Silent'
    BY <1>6 DEF ReadHalf, GetFirst, GetSecond, trackVars, checkVars, histVars, Silent, Phase
  <2> QED BY <2>1, <2>2, <2>3, <2>4
<1>7. CASE Stamp
  <2>1. Phase'
    BY <1>7 DEF Stamp, dbVars, trackVars, checkVars, histVars, Phase
  <2>2. Numbers'
    BY <1>7 DEF Stamp, dbVars, trackVars, checkVars, histVars, Numbers
  <2>3. Seen'
    BY <1>7 DEF Stamp, dbVars, trackVars, checkVars, histVars, Seen, Numbers
  <2>4. Silent'
    BY <1>7 DEF Stamp, dbVars, trackVars, checkVars, histVars, Silent, Phase
  <2> QED BY <2>1, <2>2, <2>3, <2>4
<1>8. CASE Track
  <2>1. Phase'
    BY <1>8 DEF Track, dbVars, trackVars, checkVars, histVars, Phase
  <2>2. Numbers'
    BY <1>8 DEF Track, dbVars, trackVars, checkVars, histVars, Numbers
  <2>3. Seen'
    BY <1>8 DEF Track, dbVars, trackVars, checkVars, histVars, Seen, Numbers
  <2>4. Silent'
    BY <1>8 DEF Track, dbVars, trackVars, checkVars, histVars, Silent, Phase
  <2> QED BY <2>1, <2>2, <2>3, <2>4
<1>9. CASE Count
  <2>1. Phase'
    BY <1>9 DEF Count, dbVars, trackVars, checkVars, histVars, Phase
  <2>2. Numbers'
    BY <1>9 DEF Count, dbVars, trackVars, checkVars, histVars, Numbers
  <2>3. Seen'
    BY <1>9 DEF Count, dbVars, trackVars, checkVars, histVars, Seen, Numbers
  <2>4. Silent'
    BY <1>9 DEF Count, dbVars, trackVars, checkVars, histVars, Silent, Phase
  <2> QED BY <2>1, <2>2, <2>3, <2>4
<1>10. CASE SampleClock
  <2>1. Phase'
    BY <1>10 DEF SampleClock, dbVars, trackVars, checkVars, histVars, Phase
  <2>2. Numbers'
    BY <1>10 DEF SampleClock, dbVars, trackVars, checkVars, histVars, Numbers
  <2>3. Seen'
    BY <1>10 DEF SampleClock, dbVars, trackVars, checkVars, histVars, Seen, Numbers
  <2>4. Silent'
    BY <1>10 DEF SampleClock, dbVars, trackVars, checkVars, histVars, Silent, Phase
  <2> QED BY <2>1, <2>2, <2>3, <2>4
<1>11. CASE CheckStaleness
  <2>1. Phase'
    BY <1>11 DEF CheckStaleness, dbVars, trackVars, checkVars, histVars, Phase
  <2>2. Numbers'
    BY <1>11 DEF CheckStaleness, dbVars, trackVars, checkVars, histVars, Numbers
  <2>3. Seen'
    BY <1>11 DEF CheckStaleness, dbVars, trackVars, checkVars, histVars, Seen, Numbers
  <2>4. Silent'
    BY <1>11 DEF CheckStaleness, dbVars, trackVars, checkVars, histVars, Silent, Phase
  <2> QED BY <2>1, <2>2, <2>3, <2>4
<1>12. CASE Tick
  <2>1. Phase'
    BY <1>12 DEF Tick, dbVars, trackVars, checkVars, histVars, Phase
  <2>2. Numbers'
    BY <1>12 DEF Tick, dbVars, trackVars, checkVars, histVars, Numbers
  <2>3. Seen'
    BY <1>12 DEF Tick, dbVars, trackVars, checkVars, histVars, Seen, Numbers
  <2>4. Silent'
    BY <1>12 DEF Tick, dbVars, trackVars, checkVars, histVars, Silent, Phase
  <2> QED BY <2>1, <2>2, <2>3, <2>4
<1>13. CASE UNCHANGED vars
  BY <1>13 DEF vars, dbVars, trackVars, checkVars, histVars, Phase, Numbers, Seen, Silent
<1> QED BY <1>1, <1>2, <1>3, <1>4, <1>5, <1>6, <1>7, <1>8, <1>9, <1>10, <1>11, <1>12, <1>13
  DEF Next, Leg, ComposeCycle

\* The invariant holds when Composer::start has run.
LEMMA TrackStart == Init => Inv
<1> SUFFICES ASSUME Init PROVE Inv
  OBVIOUS
<1>1. DBInv
  BY DBStart DEF Init
<1>2. TypeOK
  BY <1>1 DEF Init, TypeOK, DBInv, DBType, Never
<1>3. Phase /\ Numbers /\ Seen /\ Silent
  BY ComposerAssumption
     DEF Init, DBInit, Phase, Numbers, Seen, Silent, me, Unread, Never
<1> QED BY <1>1, <1>2, <1>3 DEF Inv

\* The invariant holds throughout.
THEOREM Invariance == Spec => []Inv
<1>1. Inv /\ [Next]_vars => Inv'
  <2> SUFFICES ASSUME Inv, [Next]_vars PROVE Inv'
    OBVIOUS
  <2>1. DBInv'
    BY BufferStep, DBStep DEF Inv
  <2>2. TypeOK'
    BY <2>1, TypeStep DEF Inv, DBInv
  <2> QED BY <2>1, <2>2, TrackStep DEF Inv
<1> QED BY TrackStart, <1>1, PTL DEF Spec

\* Every variable of the leg's, the composer's and the main thread stays in its type.
THEOREM ComposerTyped == Spec => []TypeOK
<1>1. Inv => TypeOK
  BY DEF Inv
<1> QED BY Invariance, <1>1, PTL

\* A leg that publishes in time is seen to be alive by compose_cycle.
THEOREM ComposerSeesChange == Spec => []ChangeSeen
<1>1. Inv => ChangeSeen
  BY ComposerAssumption DEF Inv, TypeOK, Read, Phase, Numbers, Seen, ChangeSeen, me, Unread, Never
<1> QED BY Invariance, <1>1, PTL

\* A silent leg does not have its time of last change renewed by compose_cycle.
THEOREM ComposerSeesSilence == Spec => SilenceNotRefreshed
<1>1. Inv /\ [Next]_vars => [lastChange' # lastChange => quiet = 0]_vars
  <2> SUFFICES ASSUME Inv, Next, lastChange' # lastChange PROVE quiet = 0
    BY DEF Inv
  <2>1. Track
    BY DEF Next, Leg, StageBegin, StageFirst, StageSecond, StageFlip, ComposeCycle,
           ReadBegin, ReadHalf, Stamp, Count, SampleClock, CheckStaleness, Tick, trackVars
  <2>2. pc = "track" /\ me.seq # prevSeq
    BY <2>1 DEF Track, me
  <2>3. me.b # Unread
    BY <2>2 DEF Inv, Phase
  <2> QED BY <2>2, <2>3 DEF Inv, Silent, TypeOK
<1> QED BY Invariance, <1>1, PTL DEF Spec, SilenceNotRefreshed

-----------------------------------------------------------------------------
(* The verdict of check_staleness.                                         *)

\* The unsigned difference of two times less than Word apart.
LEMMA ModForward ==
  ASSUME NEW w \in Nat \ {0}, NEW x \in 0 .. w - 1
  PROVE  x % w = x
  BY SMT

LEMMA ModBackward ==
  ASSUME NEW w \in Nat \ {0}, NEW x \in Nat, 0 < x, x < w
  PROVE  (0 - x) % w = w - x
  BY SMT

\* No time that a thread holds is zero or lies in the future, and the last change is
\* neither later than the time of the cycle, nor later than the leg's falling silent, nor,
\* outside the moment between the two steps, earlier than the last news.
Times ==
  /\ clock <= MaxTime \/ clock = 1
  /\ stamp \in 1 .. clock /\ lastChange \in 1 .. stamp /\ now \in 1 .. clock
  /\ heard \in 1 .. clock
  /\ quiet # 0 => lastChange <= quiet
  /\ pc # "track" => heard <= lastChange
  /\ pc = "track" => heard <= (IF due THEN stamp ELSE lastChange)

\* Every step keeps the times.
LEMMA TimesStep ==
  ASSUME Inv, Times, [Next]_vars
  PROVE  Times'
<1>0. TypeOK
  BY DEF Inv
<1> USE <1>0, ComposerAssumption DEF TypeOK, Times, trackVars, checkVars, histVars
<1>1. CASE Leg
  BY <1>1 DEF Leg, StageBegin, StageFirst, StageSecond, StageFlip
<1>2. CASE ReadBegin
  BY <1>2 DEF ReadBegin
<1>3. CASE ReadHalf \/ Count
  BY <1>3 DEF ReadHalf, Count
<1>4. CASE Stamp
  BY <1>4 DEF Stamp
<1>5. CASE Track
  <2>1. UNCHANGED <<clock, stamp, now, heard, quiet>> /\ pc = "track" /\ pc' = "count"
    BY <1>5 DEF Track
  <2>2. lastChange' = IF me.seq # prevSeq THEN stamp ELSE lastChange
    BY <1>5 DEF Track, me
  <2>3. due => me.seq # prevSeq
    <3>1. ~me.on
      BY <2>1 DEF Inv, Phase
    <3> QED BY <2>1, <3>1 DEF Inv, Phase, Numbers, Seen, me, Read, Unread, Never
  <2>4. quiet # 0 => me.seq = prevSeq
    <3>1. me.b # Unread
      BY <2>1 DEF Inv, Phase
    <3> QED BY <2>1, <3>1 DEF Inv, Silent
  <2> QED BY <2>1, <2>2, <2>3, <2>4
<1>6. CASE SampleClock \/ CheckStaleness
  BY <1>6 DEF SampleClock, CheckStaleness
<1>7. CASE Tick
  BY <1>7 DEF Tick
<1>8. CASE UNCHANGED vars
  BY <1>8 DEF vars
<1> QED BY <1>1, <1>2, <1>3, <1>4, <1>5, <1>6, <1>7, <1>8 DEF Next, ComposeCycle

\* The times hold throughout.
LEMMA TimesKept == Spec => [](Inv /\ Times)
<1>1. Init => Times
  BY DEF Init, Times
<1> QED BY <1>1, TimesStep, Invariance, PTL DEF Spec

\* What check_staleness answers: at the timeout or later, or if it was overtaken.
LEMMA Verdict ==
  ASSUME TypeOK, Times, Next, checking, ~checking'
  PROVE  stale' <=> now >= lastChange + Timeout \/ lastChange > now
<1>1. CheckStaleness
  BY DEF Next, Leg, StageBegin, StageFirst, StageSecond, StageFlip, ComposeCycle,
         ReadBegin, ReadHalf, Stamp, Track, Count, SampleClock, Tick, checkVars
<1>2. /\ Word \in Nat \ {0} /\ Timeout \in Nat /\ MaxTime \in Nat /\ Word > MaxTime + Timeout
      /\ lastChange \in Nat \ {0} /\ now \in Nat \ {0}
      /\ lastChange - now <= MaxTime /\ now - lastChange <= MaxTime
  BY ComposerAssumption DEF TypeOK, Times
<1>3. stale' <=> (now - lastChange) % Word >= Timeout
  BY <1>1, <1>2 DEF CheckStaleness, TypeOK
<1>4. CASE lastChange <= now
  <2>1. now - lastChange \in 0 .. Word - 1
    BY <1>2, <1>4
  <2>2. (now - lastChange) % Word = now - lastChange
    BY <2>1, <1>2, ModForward
  <2> QED BY <1>2, <1>3, <1>4, <2>2
<1>5. CASE lastChange > now
  <2>1. /\ lastChange - now \in Nat /\ 0 < lastChange - now /\ lastChange - now < Word
        /\ now - lastChange = 0 - (lastChange - now)
    BY <1>2, <1>5
  <2>2. (now - lastChange) % Word = Word - (lastChange - now)
    BY <2>1, <1>2, ModBackward
  <2> QED BY <1>2, <1>3, <1>5, <2>2
<1> QED BY <1>2, <1>4, <1>5

\* For every timeout, word size and clock, check_staleness reports a leg that has been
\* silent for longer than the timeout.
THEOREM ComposerReportsSilence == Spec => SilentLegReported
<1>1. Inv /\ Times /\ [Next]_vars
        => [checking /\ ~checking' /\ quiet # 0 /\ now > quiet + Timeout => stale']_vars
  <2> SUFFICES ASSUME Inv, Times, Next, checking, ~checking', quiet # 0, now > quiet + Timeout
               PROVE  stale'
    OBVIOUS
  <2>1. stale' <=> now >= lastChange + Timeout \/ lastChange > now
    BY Verdict DEF Inv
  <2>2. lastChange <= quiet
    BY DEF Times
  <2> QED BY <2>1, <2>2, ComposerAssumption DEF Inv, TypeOK
<1> QED BY <1>1, TimesKept, PTL DEF Spec, SilentLegReported

\* For every timeout, word size and clock, check_staleness reports a leg whose publish the
\* composer has noted only after the timeout, unless the composer overtakes the check.
THEOREM ComposerSparesLive == Spec => LiveLegSpared
<1>1. Inv /\ Times /\ [Next]_vars
        => [checking /\ ~checking' /\ stale' /\ pc # "track"
              => now >= heard + Timeout \/ lastChange > now]_vars
  <2> SUFFICES ASSUME Inv, Times, Next, checking, ~checking', stale', pc # "track"
               PROVE  now >= heard + Timeout \/ lastChange > now
    OBVIOUS
  <2>1. stale' <=> now >= lastChange + Timeout \/ lastChange > now
    BY Verdict DEF Inv
  <2>2. heard <= lastChange
    BY DEF Times
  <2> QED BY <2>1, <2>2, ComposerAssumption DEF Inv, TypeOK
<1> QED BY <1>1, TimesKept, PTL DEF Spec, LiveLegSpared
=============================================================================
