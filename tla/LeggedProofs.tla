---------------------------- MODULE LeggedProofs ----------------------------
(***************************************************************************)
(* Proofs about Legged, for every number of motors and every bound: the    *)
(* type invariant, SerialConsistency through the inductive invariant IInv, *)
(* and NoLostMessage.                                                      *)
(***************************************************************************)
EXTENDS Legged, TLAPS

\* What robotInit's events push is a sequence of subsystem messages.
LEMMA PushedType == \A pressed \in SUBSET Events : Pushed(pressed) \in Seq(Msgs)
<1> SUFFICES ASSUME NEW pressed \in SUBSET Events
             PROVE  Pushed(pressed) \in Seq(Msgs)
  OBVIOUS
<1>1. \A e : /\ Send(pressed, e, "ENABLE") \in Seq(Msgs)
             /\ Send(pressed, e, "DISABLE") \in Seq(Msgs)
  <2>1. <<>> \in Seq(Msgs) /\ <<"ENABLE">> \in Seq(Msgs) /\ <<"DISABLE">> \in Seq(Msgs)
    BY DEF Msgs
  <2> QED BY <2>1 DEF Send
<1> QED BY <1>1 DEF Pushed

\* A thread's record may be replaced by any record of OpSet.
LEMMA OpUpdate ==
  ASSUME NEW f \in [Threads -> OpSet], NEW t \in Threads, NEW r \in OpSet
  PROVE  [f EXCEPT ![t] = r] \in [Threads -> OpSet]
OBVIOUS

\* A thread outside setEnable has a well-typed record.
LEMMA IdleType == Idle \in OpSet
BY LegAssumption DEF Idle, OpSet, Motors

\* A call of setEnable starts from a well-typed record.
LEMMA CallType ==
  ASSUME op \in [Threads -> OpSet], NEW t \in Threads, NEW en \in BOOLEAN, Call(t, en)
  PROVE  op' \in [Threads -> OpSet]
<1>1. [en |-> en, at |-> "check", i |-> 1] \in OpSet
  BY LegAssumption DEF OpSet, Motors
<1> QED BY <1>1, OpUpdate DEF Call

\* disableAllMotorsOnce starts from a well-typed record.
LEMMA DisableType ==
  ASSUME op \in [Threads -> OpSet], DisableAllMotorsOnce
  PROVE  op' \in [Threads -> OpSet]
<1>1. [en |-> FALSE, at |-> "fault", i |-> 1] \in OpSet
  BY LegAssumption DEF OpSet, Motors
<1> QED BY <1>1, OpUpdate DEF DisableAllMotorsOnce, Threads

\* Every reachable state of the leg model is well typed.
THEOREM LegTyped == Spec => []TypeOK
<1>1. Init => TypeOK
  <2> SUFFICES ASSUME Init PROVE TypeOK
    OBVIOUS
  <2>1. op \in [Threads -> OpSet]
    BY IdleType DEF Init
  <2>2. FlagsOK
    BY DEF Init, FlagsOK
  <2>3. DataOK
    BY LegAssumption DEF Init, DataOK, Never
  <2> QED BY <2>1, <2>2, <2>3 DEF Init, TypeOK, ThreadsOK, Modes
<1>2. TypeOK /\ [Next]_vars => TypeOK'
  <2> SUFFICES ASSUME TypeOK, [Next]_vars PROVE TypeOK'
    OBVIOUS
  <2> USE LegAssumption DEF TypeOK, legVars, mailVars, envVars, ghostVars
  <2>1. ASSUME NEW t \in Threads, EnableCheck(t) PROVE TypeOK'
    <3>0. [op[t] EXCEPT !.at = "latch"] \in OpSet /\ [op[t] EXCEPT !.at = "motors"] \in OpSet
      BY DEF ThreadsOK, OpSet
    <3>1. FlagsOK'
      BY <2>1 DEF EnableCheck, Entered, FlagsOK
    <3>2. ThreadsOK'
      BY <2>1, <3>0, IdleType, OpUpdate DEF EnableCheck, ThreadsOK
    <3>3. DataOK'
      BY <2>1 DEF EnableCheck, DataOK
    <3> QED BY <3>1, <3>2, <3>3
  <2>2. ASSUME NEW t \in Threads, ClearLatch(t) PROVE TypeOK'
    <3>0. [op[t] EXCEPT !.at = "motors"] \in OpSet
      BY DEF ThreadsOK, OpSet
    <3>1. FlagsOK'
      BY <2>2 DEF ClearLatch, FlagsOK
    <3>2. ThreadsOK'
      BY <2>2, <3>0, OpUpdate DEF ClearLatch, ThreadsOK
    <3>3. DataOK'
      BY <2>2 DEF ClearLatch, DataOK
    <3> QED BY <3>1, <3>2, <3>3
  <2>3. ASSUME NEW t \in Threads, MotorFrame(t) PROVE TypeOK'
    <3>1. FlagsOK'
      BY <2>3 DEF MotorFrame, Ended, FlagsOK
    <3>2. ThreadsOK'
      BY <2>3 DEF MotorFrame, ThreadsOK, OpSet, Idle, Motors
    <3>3. DataOK'
      BY <2>3 DEF MotorFrame, DataOK, Motors, ThreadsOK, OpSet
    <3> QED BY <3>1, <3>2, <3>3
  <2>4. ASSUME NEW t \in Threads, StoreFlag(t) PROVE TypeOK'
    <3>1. FlagsOK'
      BY <2>4 DEF StoreFlag, Ended, FlagsOK, ThreadsOK, OpSet
    <3>2. ThreadsOK'
      BY <2>4, IdleType, OpUpdate DEF StoreFlag, ThreadsOK
    <3>3. DataOK'
      BY <2>4 DEF StoreFlag, DataOK
    <3> QED BY <3>1, <3>2, <3>3
  <2>5. CASE LegPoll
    <3>1. FlagsOK'
      BY <2>5 DEF LegPoll, FlagsOK
    <3>2. ThreadsOK'
      BY <2>5 DEF LegPoll, ThreadsOK
    <3>3. DataOK'
      BY <2>5 DEF LegPoll, DataOK
    <3> QED BY <3>1, <3>2, <3>3
  <2>6. CASE LegPop
    <3>1. FlagsOK'
      BY <2>6 DEF LegPop, FlagsOK
    <3>2. ThreadsOK'
      BY <2>6, CallType DEF LegPop, ThreadsOK, Threads
    <3>3. DataOK'
      BY <2>6 DEF LegPop, DataOK
    <3> QED BY <3>1, <3>2, <3>3
  <2>7. CASE LegDrained
    <3>1. FlagsOK'
      BY <2>7 DEF LegDrained, FlagsOK
    <3>2. ThreadsOK'
      BY <2>7 DEF LegDrained, ThreadsOK
    <3>3. DataOK'
      BY <2>7 DEF LegDrained, DataOK
    <3> QED BY <3>1, <3>2, <3>3
  <2>8. CASE LegCycle
    <3>1. FlagsOK'
      BY <2>8 DEF LegCycle, DisableAllMotorsOnce, Entered, FlagsOK
    <3>2. ThreadsOK'
      BY <2>8, DisableType DEF LegCycle, ThreadsOK, Threads
    <3>3. DataOK'
      BY <2>8 DEF LegCycle, DisableAllMotorsOnce, DataOK
    <3> QED BY <3>1, <3>2, <3>3
  <2>9. CASE LegGate
    <3>1. FlagsOK'
      BY <2>9 DEF LegGate, DisableAllMotorsOnce, Entered, FlagsOK
    <3>2. ThreadsOK'
      BY <2>9, DisableType DEF LegGate, ThreadsOK, Threads
    <3>3. DataOK'
      BY <2>9 DEF LegGate, DisableAllMotorsOnce, DataOK
    <3> QED BY <3>1, <3>2, <3>3
  <2>10. CASE LegDispatch
    <3>1. FlagsOK'
      BY <2>10 DEF LegDispatch, FlagsOK
    <3>2. ThreadsOK'
      BY <2>10 DEF LegDispatch, ThreadsOK
    <3>3. DataOK'
      BY <2>10 DEF LegDispatch, DataOK
    <3> QED BY <3>1, <3>2, <3>3
  <2>11. CASE LegStage
    <3>1. FlagsOK'
      BY <2>11 DEF LegStage, FlagsOK
    <3>2. ThreadsOK'
      BY <2>11 DEF LegStage, ThreadsOK
    <3>3. DataOK'
      BY <2>11 DEF LegStage, DataOK
    <3> QED BY <3>1, <3>2, <3>3
  <2>12. CASE RobotInit
    <3>1. FlagsOK'
      BY <2>12 DEF RobotInit, FlagsOK
    <3>2. ThreadsOK'
      BY <2>12 DEF RobotInit, ThreadsOK
    <3>3. DataOK'
      BY <2>12 DEF RobotInit, DataOK
    <3> QED BY <3>1, <3>2, <3>3
  <2>13. CASE LoopFunc
    <3>1. FlagsOK'
      BY <2>13 DEF LoopFunc, FlagsOK
    <3>2. ThreadsOK'
      BY <2>13 DEF LoopFunc, ThreadsOK
    <3>3. DataOK'
      <4>1. outbox' = outbox \/ outbox' = <<"ENABLE">>
        BY <2>13 DEF LoopFunc
      <4>2. outbox' \in Seq(Msgs)
        <5>1. <<"ENABLE">> \in Seq(Msgs)
          BY DEF Msgs
        <5> QED BY <4>1, <5>1 DEF DataOK
      <4>3. inputs' \in Nat
        <5>1. inputs' = inputs \/ inputs' = inputs + 1
          BY <2>13 DEF LoopFunc
        <5> QED BY <5>1 DEF DataOK
      <4> QED BY <2>13, <4>2, <4>3 DEF LoopFunc, DataOK
    <3> QED BY <3>1, <3>2, <3>3
  <2>14. CASE PollButtons
    <3>1. FlagsOK'
      BY <2>14 DEF PollButtons, FlagsOK
    <3>2. ThreadsOK'
      BY <2>14 DEF PollButtons, ThreadsOK
    <3>3. DataOK'
      BY <2>14, PushedType DEF PollButtons, DataOK
    <3> QED BY <3>1, <3>2, <3>3
  <2>15. CASE CheckGroup
    <3>1. FlagsOK'
      BY <2>15 DEF CheckGroup, FlagsOK
    <3>2. ThreadsOK'
      BY <2>15, CallType DEF CheckGroup, ThreadsOK, Threads
    <3>3. DataOK'
      BY <2>15 DEF CheckGroup, DataOK
    <3> QED BY <3>1, <3>2, <3>3
  <2>16. CASE RaiseFlags
    <3>1. FlagsOK'
      BY <2>16 DEF RaiseFlags, FlagsOK
    <3>2. ThreadsOK'
      BY <2>16 DEF RaiseFlags, ThreadsOK
    <3>3. DataOK'
      BY <2>16 DEF RaiseFlags, DataOK
    <3> QED BY <3>1, <3>2, <3>3
  <2>17. CASE BeginShutdown
    <3>1. FlagsOK'
      BY <2>17 DEF BeginShutdown, FlagsOK
    <3>2. ThreadsOK'
      BY <2>17, CallType DEF BeginShutdown, ThreadsOK, Threads
    <3>3. DataOK'
      BY <2>17 DEF BeginShutdown, DataOK
    <3> QED BY <3>1, <3>2, <3>3
  <2>18. CASE StopThread
    <3>1. FlagsOK'
      BY <2>18 DEF StopThread, FlagsOK
    <3>2. ThreadsOK'
      BY <2>18 DEF StopThread, ThreadsOK
    <3>3. DataOK'
      BY <2>18 DEF StopThread, DataOK
    <3> QED BY <3>1, <3>2, <3>3
  <2>19. CASE CloseServers
    <3>1. FlagsOK'
      BY <2>19 DEF CloseServers, FlagsOK
    <3>2. ThreadsOK'
      BY <2>19 DEF CloseServers, ThreadsOK
    <3>3. DataOK'
      BY <2>19 DEF CloseServers, DataOK
    <3> QED BY <3>1, <3>2, <3>3
  <2>20. CASE DestroyLeg
    <3>1. FlagsOK'
      BY <2>20 DEF DestroyLeg, FlagsOK
    <3>2. ThreadsOK'
      BY <2>20 DEF DestroyLeg, ThreadsOK
    <3>3. DataOK'
      BY <2>20 DEF DestroyLeg, DataOK
    <3> QED BY <3>1, <3>2, <3>3
  <2>21. CASE Tick
    <3>1. FlagsOK'
      BY <2>21 DEF Tick, FlagsOK
    <3>2. ThreadsOK'
      BY <2>21 DEF Tick, ThreadsOK
    <3>3. DataOK'
      BY <2>21 DEF Tick, DataOK, Never
    <3> QED BY <3>1, <3>2, <3>3
  <2>22. CASE WriteCommand
    <3>1. FlagsOK'
      BY <2>22 DEF WriteCommand, FlagsOK
    <3>2. ThreadsOK'
      BY <2>22 DEF WriteCommand, ThreadsOK
    <3>3. DataOK'
      BY <2>22 DEF WriteCommand, DataOK, Never
    <3> QED BY <3>1, <3>2, <3>3
  <2>23. CASE ChangeFaults
    <3>1. FlagsOK'
      BY <2>23 DEF ChangeFaults, FlagsOK
    <3>2. ThreadsOK'
      BY <2>23 DEF ChangeFaults, ThreadsOK
    <3>3. DataOK'
      BY <2>23 DEF ChangeFaults, DataOK
    <3> QED BY <3>1, <3>2, <3>3
  <2>24. CASE UNCHANGED vars
    BY <2>24 DEF vars, FlagsOK, ThreadsOK, DataOK
  <2>25. CASE LegWait
    <3>1. FlagsOK'
      BY <2>25 DEF LegWait, FlagsOK
    <3>2. ThreadsOK'
      BY <2>25 DEF LegWait, ThreadsOK
    <3>3. DataOK'
      BY <2>25 DEF LegWait, DataOK
    <3> QED BY <3>1, <3>2, <3>3
  <2>26. CASE FifoPush
    <3>1. FlagsOK'
      BY <2>26 DEF FifoPush, FlagsOK
    <3>2. ThreadsOK'
      BY <2>26 DEF FifoPush, ThreadsOK
    <3>3. DataOK'
      <4>1. queue' \in Seq(Msgs) /\ outbox' \in Seq(Msgs)
        <5>1. CASE ~notifying
          <6>1. queue' = Append(queue, Head(outbox)) /\ outbox' = outbox /\ outbox # <<>>
            BY <2>26, <5>1 DEF FifoPush
          <6>2. queue \in Seq(Msgs) /\ outbox \in Seq(Msgs)
            BY DEF DataOK
          <6>3. Head(outbox) \in Msgs
            BY <6>1, <6>2
          <6> QED BY <6>1, <6>2, <6>3
        <5>2. CASE notifying
          <6>1. queue' = queue /\ outbox' = Tail(outbox) /\ outbox # <<>>
            BY <2>26, <5>2 DEF FifoPush
          <6> QED BY <6>1 DEF DataOK
        <5> QED BY <5>1, <5>2 DEF FlagsOK
      <4> QED BY <2>26, <4>1 DEF FifoPush, DataOK
    <3> QED BY <3>1, <3>2, <3>3
  <2>27. CASE EnterMode
    <3>1. FlagsOK'
      BY <2>27 DEF EnterMode, FlagsOK
    <3>2. ThreadsOK'
      BY <2>27, CallType DEF EnterMode, ThreadsOK, Threads
    <3>3. DataOK'
      BY <2>27 DEF EnterMode, DataOK
    <3> QED BY <3>1, <3>2, <3>3
  <2> QED
    BY <2>1, <2>2, <2>3, <2>4, <2>5, <2>6, <2>7, <2>8, <2>9, <2>10, <2>11, <2>12, <2>13, <2>14, <2>15, <2>16, <2>17, <2>18, <2>19, <2>20, <2>21, <2>22, <2>23, <2>24, <2>25, <2>26, <2>27
       DEF Next, LegThread, MainThread, SetEnableStep, Threads
<1> QED BY <1>1, <1>2, PTL DEF Spec

-----------------------------------------------------------------------------
(* Where the threads can be.                                               *)

\* Every step keeps the shape: a thread calls setEnable only where it runs, and the
\* socket is closed only after both threads are done with the motors.
LEMMA ShapeStep == TypeOK /\ Shape /\ [Next]_vars => Shape'
<1> SUFFICES ASSUME TypeOK, Shape, [Next]_vars PROVE Shape'
  OBVIOUS
<1> USE DEF TypeOK, ThreadsOK, Free, Ready, Idle, Threads
<1>1. ASSUME NEW t \in Threads, EnableCheck(t) PROVE Shape'
  BY <1>1 DEF EnableCheck, Shape, OpSet
<1>2. ASSUME NEW t \in Threads, ClearLatch(t) PROVE Shape'
  BY <1>2 DEF ClearLatch, Shape, OpSet
<1>3. ASSUME NEW t \in Threads, MotorFrame(t) PROVE Shape'
  BY <1>3 DEF MotorFrame, Shape, OpSet
<1>4. ASSUME NEW t \in Threads, StoreFlag(t) PROVE Shape'
  BY <1>4 DEF StoreFlag, Shape, OpSet
<1>5. CASE LegPoll
  BY <1>5 DEF LegPoll, Shape
<1>6. CASE LegPop
  BY <1>6 DEF LegPop, Call, Shape
<1>7. CASE LegDrained
  BY <1>7 DEF LegDrained, Shape
<1>8. CASE LegCycle
  <2>1. \/ op' = op
        \/ op' = [op EXCEPT !["leg"] = [en |-> FALSE, at |-> "fault", i |-> 1]]
    BY <1>8 DEF LegCycle, DisableAllMotorsOnce
  <2>2. /\ lpc' \in {"poll", "gate", "dispatch", "stage"} /\ Free("leg")
        /\ lpc' \in {"gate", "dispatch"} => op' = op
    BY <1>8 DEF LegCycle, Shape
  <2>3. UNCHANGED <<mpc, udpOpen>> /\ lpc # "exited"
    BY <1>8 DEF LegCycle
  <2> QED BY <2>1, <2>2, <2>3 DEF Shape
<1>9. CASE LegGate
  <2>1. \/ op' = op
        \/ op' = [op EXCEPT !["leg"] = [en |-> FALSE, at |-> "fault", i |-> 1]]
    BY <1>9 DEF LegGate, DisableAllMotorsOnce
  <2>2. /\ lpc' \in {"poll", "gate", "dispatch", "stage"} /\ Free("leg")
        /\ lpc' \in {"gate", "dispatch"} => op' = op
    BY <1>9 DEF LegGate, Shape
  <2>3. UNCHANGED <<mpc, udpOpen>> /\ lpc # "exited"
    BY <1>9 DEF LegGate
  <2> QED BY <2>1, <2>2, <2>3 DEF Shape
<1>10. CASE LegDispatch
  BY <1>10 DEF LegDispatch, Shape
<1>11. CASE LegStage
  BY <1>11 DEF LegStage, Shape
<1>12. CASE RobotInit
  BY <1>12 DEF RobotInit, Shape
<1>13. CASE LoopFunc
  BY <1>13 DEF LoopFunc, Shape
<1>14. CASE PollButtons
  BY <1>14 DEF PollButtons, Shape
<1>15. CASE CheckGroup
  BY <1>15 DEF CheckGroup, Call, Shape
<1>16. CASE RaiseFlags
  BY <1>16 DEF RaiseFlags, Shape
<1>17. CASE BeginShutdown
  BY <1>17 DEF BeginShutdown, Call, Shape
<1>18. CASE StopThread
  BY <1>18 DEF StopThread, Shape
<1>19. CASE CloseServers
  BY <1>19 DEF CloseServers, Shape
<1>20. CASE DestroyLeg
  BY <1>20 DEF DestroyLeg, Shape
<1>21. CASE Tick \/ WriteCommand \/ ChangeFaults \/ UNCHANGED vars
  BY <1>21 DEF Tick, WriteCommand, ChangeFaults, vars, Shape
<1>22. CASE LegWait
  BY <1>22 DEF LegWait, Shape
<1>23. CASE FifoPush
  BY <1>23 DEF FifoPush, Shape
<1>24. CASE EnterMode
  BY <1>24 DEF EnterMode, Call, Shape
<1> QED
  BY <1>1, <1>2, <1>3, <1>4, <1>5, <1>6, <1>7, <1>8, <1>9, <1>10, <1>11, <1>12,
     <1>13, <1>14, <1>15, <1>16, <1>17, <1>18, <1>19, <1>20, <1>21, <1>22, <1>23, <1>24
     DEF Next, LegThread, MainThread, SetEnableStep

-----------------------------------------------------------------------------
(* The flags and the motors.                                               *)

\* The two threads, seen from one of them.
LEMMA TwoThreads ==
  \A t \in Threads : /\ Other(t) \in Threads /\ Other(t) # t /\ Other(Other(t)) = t
                     /\ \A u \in Threads : u = t \/ u = Other(t)
BY DEF Threads, Other

\* SerialInv, seen from one thread.
LEMMA SerialFrom ==
  ASSUME NEW t \in Threads
  PROVE  SerialInv <=>
           /\ Busy(t) /\ t \notin overlapped => ~Busy(Other(t)) /\ Stage(t)
           /\ Busy(Other(t)) /\ Other(t) \notin overlapped => ~Busy(t) /\ Stage(Other(t))
           /\ overlapped = {} /\ ~Busy(t) /\ ~Busy(Other(t)) => Settled
BY DEF SerialInv, Threads, Other

\* The same after a step.
LEMMA SerialFromNext ==
  ASSUME NEW t \in Threads
  PROVE  SerialInv' <=>
           /\ Busy(t)' /\ t \notin overlapped' => ~Busy(Other(t))' /\ Stage(t)'
           /\ Busy(Other(t))' /\ Other(t) \notin overlapped' => ~Busy(t)' /\ Stage(Other(t))'
           /\ overlapped' = {} /\ ~Busy(t)' /\ ~Busy(Other(t))' => Settled'
BY DEF SerialInv, Threads, Other, Busy, Stage, Served

\* SerialInv reads only these variables.
LEMMA SerialStutter ==
  SerialInv /\ UNCHANGED <<isEnabled, faultDisabled, motorOn, op, overlapped, armed>>
    => SerialInv'
BY DEF SerialInv, Busy, Settled, Stage, Served, AllOn, AllOff

\* A call of setEnable puts an idle thread before the test and nothing more.
LEMMA SerialCall ==
  ASSUME TypeOK, SerialInv, NEW t \in Threads, NEW en \in BOOLEAN, Free(t), Call(t, en),
         UNCHANGED <<isEnabled, faultDisabled, motorOn, overlapped, armed>>
  PROVE  SerialInv'
<1>1. op'[t].at = "check" /\ op'[Other(t)] = op[Other(t)]
  BY TwoThreads DEF Call, TypeOK, ThreadsOK
<1>2. ~Busy(t) /\ ~Busy(t)'
  BY <1>1 DEF Busy, Free
<1>3. /\ Busy(Other(t))' <=> Busy(Other(t))
      /\ Stage(Other(t)) => Stage(Other(t))'
      /\ Settled => Settled'
  BY <1>1 DEF Busy, Stage, Served, Settled, AllOn, AllOff
<1> QED BY <1>2, <1>3, SerialFrom, SerialFromNext

\* The test of m_isEnabled: the thread enters its loop in the first stage, whatever
\* the motors are, unless the other is in one, and then the loops overlap.
LEMMA SerialCheck ==
  ASSUME TypeOK, Shape, SerialInv, NEW t \in Threads, EnableCheck(t)
  PROVE  SerialInv'
<1> DEFINE u == Other(t)
<1>1. u \in Threads /\ u # t
  BY TwoThreads
<1>2. op'[u] = op[u] /\ ~Busy(t) /\ op[t].i = 1
  BY <1>1 DEF EnableCheck, TypeOK, ThreadsOK, Busy, Shape
<1>3. UNCHANGED <<isEnabled, faultDisabled, motorOn, armed>>
  BY DEF EnableCheck, legVars
<1>4. /\ Busy(u)' <=> Busy(u)
      /\ Stage(u) => Stage(u)'
      /\ Settled => Settled'
  BY <1>2, <1>3 DEF Busy, Stage, Served, Settled, AllOn, AllOff
<1>5. CASE op[t].en # isEnabled
  <2>1. overlapped' = IF Busy(u) THEN Threads ELSE overlapped \ {t}
    BY <1>5 DEF EnableCheck, Entered
  <2>2. /\ op'[t].at = IF op[t].en THEN "latch" ELSE "motors"
        /\ op'[t].en = op[t].en /\ op'[t].i = 1
    BY <1>2, <1>5 DEF EnableCheck, TypeOK, ThreadsOK, OpSet
  <2>3. Stage(t)' /\ Busy(t)'
    <3>1. op[t].en \in BOOLEAN /\ isEnabled \in BOOLEAN
      BY DEF TypeOK, ThreadsOK, FlagsOK, OpSet
    <3>2. Served(t)' = {}
      BY <2>2 DEF Served
    <3> QED BY <2>2, <3>1, <3>2, <1>3, <1>5 DEF Stage, Busy
  <2> QED BY <1>1, <1>4, <2>1, <2>3, SerialFromNext
<1>6. CASE op[t].en = isEnabled
  <2>1. overlapped' = overlapped /\ op'[t] = Idle
    BY <1>6 DEF EnableCheck, TypeOK, ThreadsOK
  <2>2. ~Busy(t)'
    BY <2>1 DEF Busy, Idle
  <2> QED BY <1>2, <1>4, <2>1, <2>2, SerialFrom, SerialFromNext
<1> QED BY <1>5, <1>6

\* The latch is cleared before the first enable frame.
LEMMA SerialLatch ==
  ASSUME TypeOK, Shape, SerialInv, NEW t \in Threads, ClearLatch(t)
  PROVE  SerialInv'
<1> DEFINE u == Other(t)
<1>1. u \in Threads /\ u # t
  BY TwoThreads
<1>2. /\ op'[t].at = "motors" /\ op'[t].en = op[t].en /\ op'[t].i = op[t].i
      /\ op'[u] = op[u]
      /\ op[t].i = 1 /\ op[t].en /\ op[t].at = "latch"
  BY <1>1 DEF ClearLatch, TypeOK, ThreadsOK, OpSet, Shape
<1>3. Busy(t) /\ Busy(t)' /\ (Busy(u)' <=> Busy(u))
  BY <1>2 DEF Busy
<1>4. UNCHANGED <<isEnabled, motorOn, armed, overlapped>> /\ ~faultDisabled'
  BY DEF ClearLatch, ghostVars
<1>5. Served(t)' = {}
  BY <1>2 DEF Served
<1>6. ASSUME Stage(t) PROVE Stage(t)'
  BY <1>2, <1>4, <1>5, <1>6 DEF Stage
<1> QED BY <1>3, <1>4, <1>6, SerialFrom, SerialFromNext

\* One more motor has had the loop's frame; after the last one all have.
LEMMA SerialFrame ==
  ASSUME TypeOK, Shape, SerialInv, NEW t \in Threads, MotorFrame(t)
  PROVE  SerialInv'
<1> DEFINE u == Other(t)
<1>1. u \in Threads /\ u # t
  BY TwoThreads
<1>2. op'[u] = op[u] /\ Busy(t) /\ udpOpen
  BY <1>1 DEF MotorFrame, TypeOK, ThreadsOK, Busy, Shape, Free, Threads
<1>3. UNCHANGED <<isEnabled, faultDisabled, armed>>
  BY DEF MotorFrame
<1>4. /\ Busy(u)' <=> Busy(u)
      /\ overlapped' = overlapped \/ (Ended(t) /\ ~Busy(t)')
  BY <1>2 DEF MotorFrame, Busy, Idle
<1>5. SUFFICES ASSUME t \notin overlapped, ~Busy(u), Stage(t)
               PROVE  IF Busy(t)' THEN Stage(t)' ELSE Settled'
  <2>1. CASE t \in overlapped
    <3>1. overlapped' = overlapped
      BY <2>1, <1>4 DEF Ended
    <3> QED BY <2>1, <3>1, <1>2, <1>4, SerialFrom, SerialFromNext
  <2>2. CASE t \notin overlapped
    <3>1. ~Busy(u) /\ Stage(t)
      BY <2>2, <1>2, SerialFrom
    <3>2. IF Busy(t)' THEN Stage(t)' ELSE Settled'
      BY <2>2, <3>1
    <3> QED BY <3>1, <3>2, <1>4, SerialFromNext
  <2> QED BY <2>1, <2>2
<1>6. motorOn' = IF op[t].en THEN motorOn \cup {op[t].i} ELSE motorOn \ {op[t].i}
  BY <1>2 DEF MotorFrame
<1>7. op[t].i \in 1 .. NumMotors /\ motorOn \subseteq Motors /\ op[t].en \in BOOLEAN
  BY DEF TypeOK, ThreadsOK, DataOK, OpSet, Motors
<1>8. CASE op[t].i < NumMotors
  <2>1. op'[t].at = op[t].at /\ op'[t].en = op[t].en /\ op'[t].i = op[t].i + 1
    BY <1>8 DEF MotorFrame, TypeOK, ThreadsOK, OpSet
  <2>2. Served(t)' = Served(t) \cup {op[t].i}
    BY <2>1, <1>7, LegAssumption DEF Served
  <2>3. Busy(t)'
    BY <2>1, <1>2 DEF Busy
  <2>4. op[t].at \in {"motors", "fault"}
    BY DEF MotorFrame
  <2>5. Stage(t)'
    <3>1. CASE op[t].en
      <4>1. op[t].at = "motors"
        BY <2>4, <3>1 DEF Shape
      <4>2. ~isEnabled' /\ ~faultDisabled' /\ Served(t)' \subseteq motorOn'
        BY <3>1, <4>1, <2>2, <1>3, <1>5, <1>6 DEF Stage
      <4> QED BY <2>1, <3>1, <4>1, <4>2 DEF Stage
    <3>2. CASE ~op[t].en
      <4>1. motorOn' \cap Served(t)' = {} /\ (AllOff => AllOff')
        BY <3>2, <2>2, <2>4, <1>5, <1>6 DEF Stage, AllOff
      <4> QED BY <2>1, <2>4, <3>2, <4>1, <1>3, <1>5 DEF Stage
    <3> QED BY <3>1, <3>2
  <2> QED BY <2>3, <2>5
<1>9. CASE op[t].i >= NumMotors
  <2>1. Motors = Served(t) \cup {op[t].i}
    BY <1>9, <1>7, LegAssumption DEF Served, Motors
  <2>2. CASE op[t].at = "motors"
    <3>1. op'[t].at = "flag" /\ op'[t].en = op[t].en /\ op'[t].i = op[t].i
      BY <1>9, <1>7, <2>2, LegAssumption DEF MotorFrame, TypeOK, ThreadsOK, OpSet
    <3>2. Served(t)' = Served(t) /\ Busy(t)'
      BY <3>1 DEF Served, Busy
    <3>3. Stage(t)'
      BY <3>1, <3>2, <2>1, <2>2, <1>3, <1>5, <1>6, <1>7 DEF Stage, AllOn, AllOff
    <3> QED BY <3>2, <3>3
  <2>3. CASE op[t].at = "fault"
    <3>1. op'[t] = Idle /\ ~Busy(t)'
      BY <1>9, <1>7, <2>3, LegAssumption DEF MotorFrame, TypeOK, ThreadsOK, OpSet, Busy, Idle
    <3>2. faultDisabled' /\ AllOff' /\ ~op[t].en
      BY <2>1, <2>3, <1>3, <1>5, <1>6, <1>7 DEF Stage, AllOff, Shape
    <3> QED BY <3>1, <3>2 DEF Settled, AllOff
  <2> QED BY <2>2, <2>3 DEF MotorFrame
<1> QED BY <1>8, <1>9, <1>7, LegAssumption

\* The flag is stored once every motor has had the frame.
LEMMA SerialFlag ==
  ASSUME TypeOK, Shape, SerialInv, NEW t \in Threads, StoreFlag(t)
  PROVE  SerialInv'
<1> DEFINE u == Other(t)
<1>1. u \in Threads /\ u # t
  BY TwoThreads
<1>2. op'[u] = op[u] /\ op'[t] = Idle /\ op[t].at = "flag"
  BY <1>1 DEF StoreFlag, TypeOK, ThreadsOK
<1>3. Busy(t) /\ ~Busy(t)' /\ (Busy(u)' <=> Busy(u))
  BY <1>2 DEF Busy, Idle
<1>4. /\ UNCHANGED <<faultDisabled, motorOn>>
      /\ overlapped' = IF t \in overlapped THEN overlapped ELSE {}
      /\ isEnabled' = op[t].en
      /\ op[t].en \in BOOLEAN
  BY DEF StoreFlag, Ended, TypeOK, ThreadsOK, OpSet
<1>5. ASSUME Stage(t) PROVE Settled'
  BY <1>2, <1>4, <1>5 DEF Stage, Settled, AllOn, AllOff
<1> QED BY <1>3, <1>4, <1>5, SerialFrom, SerialFromNext

\* disableAllMotorsOnce: nothing if the latch was set; else the loop starts, or the
\* loops overlap.
LEMMA SerialFault ==
  ASSUME TypeOK, Shape, SerialInv, Free("leg"), DisableAllMotorsOnce,
         UNCHANGED <<isEnabled, motorOn, armed>>
  PROVE  SerialInv'
<1>1. CASE faultDisabled
  BY <1>1, SerialStutter DEF DisableAllMotorsOnce
<1>2. CASE ~faultDisabled
  <2>1. /\ op'["leg"] = [en |-> FALSE, at |-> "fault", i |-> 1]
        /\ op'["main"] = op["main"]
    BY <1>2 DEF DisableAllMotorsOnce, TypeOK, ThreadsOK, Threads
  <2>2. ~Busy("leg") /\ Busy("leg")' /\ (Busy("main")' <=> Busy("main"))
    BY <2>1 DEF Busy, Free
  <2>3. /\ faultDisabled'
        /\ overlapped' = IF Busy("main") THEN Threads ELSE overlapped \ {"leg"}
    BY <1>2 DEF DisableAllMotorsOnce, Entered, Other
  <2>4. Served("leg")' = {}
    BY <2>1 DEF Served
  <2>5. Stage("leg")'
    BY <2>1, <2>3, <2>4 DEF Stage
  <2> QED BY <2>2, <2>3, <2>5 DEF SerialInv, Threads, Other
<1> QED BY <1>1, <1>2 DEF TypeOK, FlagsOK

\* Every step keeps SerialInv.
LEMMA SerialStep == TypeOK /\ Shape /\ SerialInv /\ [Next]_vars => SerialInv'
<1> SUFFICES ASSUME TypeOK, Shape, SerialInv, [Next]_vars PROVE SerialInv'
  OBVIOUS
<1>1. ASSUME NEW t \in Threads, SetEnableStep(t) PROVE SerialInv'
  BY <1>1, SerialCheck, SerialLatch, SerialFrame, SerialFlag DEF SetEnableStep
<1>2. CASE LegPop
  <2>1. Free("leg") /\ (Head(queue) = "ENABLE") \in BOOLEAN
    BY <1>2 DEF LegPop, Shape
  <2> QED BY <1>2, <2>1, SerialCall DEF LegPop, Threads, legVars, ghostVars
<1>3. CASE EnterMode
  <2>1. Free("main")
    BY <1>3 DEF EnterMode, Shape
  <2> QED BY <1>3, <2>1, SerialCall DEF EnterMode, Threads, legVars, ghostVars
<1>4. CASE CheckGroup
  <2>1. \/ op' = op
        \/ Free("main") /\ Call("main", FALSE)
    BY <1>4 DEF CheckGroup, Ready
  <2>2. UNCHANGED <<isEnabled, faultDisabled, motorOn, overlapped, armed>>
    BY <1>4 DEF CheckGroup, legVars, ghostVars
  <2> QED BY <2>1, <2>2, SerialCall, SerialStutter DEF Threads
<1>5. CASE BeginShutdown
  BY <1>5, SerialCall DEF BeginShutdown, Ready, Threads, legVars, ghostVars
<1>6. CASE LegCycle
  <2>1. UNCHANGED <<isEnabled, motorOn, armed>> /\ Free("leg")
    BY <1>6 DEF LegCycle
  <2>2. DisableAllMotorsOnce \/ UNCHANGED <<faultDisabled, op, overlapped>>
    BY <1>6 DEF LegCycle
  <2> QED BY <2>1, <2>2, SerialFault, SerialStutter
<1>7. CASE LegGate
  <2>1. UNCHANGED <<isEnabled, motorOn, armed>> /\ Free("leg")
    BY <1>7 DEF LegGate, Shape
  <2>2. DisableAllMotorsOnce \/ UNCHANGED <<faultDisabled, op, overlapped>>
    BY <1>7 DEF LegGate
  <2> QED BY <2>1, <2>2, SerialFault, SerialStutter
<1>8. CASE DestroyLeg
  <2>1. ~udpOpen
    BY <1>8 DEF DestroyLeg, Shape
  <2> QED BY <1>8, <2>1, SerialStutter DEF DestroyLeg, ghostVars
<1>9. CASE LegPoll \/ LegWait \/ LegDrained \/ LegDispatch \/ LegStage
  BY <1>9, SerialStutter
     DEF LegPoll, LegWait, LegDrained, LegDispatch, LegStage, legVars, ghostVars
<1>10. CASE RobotInit \/ FifoPush \/ LoopFunc \/ PollButtons \/ RaiseFlags \/ StopThread
              \/ CloseServers
  BY <1>10, SerialStutter
     DEF RobotInit, FifoPush, LoopFunc, PollButtons, RaiseFlags, StopThread, CloseServers, legVars, ghostVars
<1>11. CASE Tick \/ WriteCommand \/ ChangeFaults \/ UNCHANGED vars
  BY <1>11, SerialStutter DEF Tick, WriteCommand, ChangeFaults, vars, legVars, ghostVars
<1> QED
  BY <1>1, <1>2, <1>3, <1>4, <1>5, <1>6, <1>7, <1>8, <1>9, <1>10, <1>11
     DEF Next, LegThread, MainThread, Threads

\* For any number of motors, the leg's two flags tell whether its motors are on (see
\* SerialConsistency in Legged) except from the moment two motor loops overlap until one
\* has run alone: the only way to a leg that is disabled with a motor on is an overlap of
\* setEnable or disableAllMotorsOnce on the two threads, and it lasts until the next of
\* them that passes its test and runs alone.
THEOREM LegSerialConsistency == Spec => []SerialConsistency
<1>1. Init => Shape /\ SerialInv
  BY DEF Init, Shape, SerialInv, Settled, Stage, Busy, Free, Idle, Threads, AllOn, AllOff
<1>2. SerialInv => SerialConsistency
  BY DEF SerialInv, SerialConsistency
<1> QED BY <1>1, <1>2, LegTyped, ShapeStep, SerialStep, PTL DEF Spec
-----------------------------------------------------------------------------
(* The message queue.                                                      *)

\* Whatever the order in which push() and pop() touch the queue and its eventfd, the leg
\* thread of ControlledSubsystemBase::Run does not go to sleep on a queued message, for
\* any number of messages.
THEOREM LegNoLostMessage == Spec => []NoLostMessage
<1>1. Init => NoLostMessage
  BY DEF Init, NoLostMessage
<1>2. TypeOK /\ NoLostMessage /\ [Next]_vars => NoLostMessage'
  <2> SUFFICES ASSUME TypeOK, NoLostMessage, [Next]_vars PROVE NoLostMessage'
    OBVIOUS
  <2> USE DEF NoLostMessage, mailVars
  <2>1. ASSUME NEW t \in Threads, SetEnableStep(t) PROVE NoLostMessage'
    BY <2>1 DEF SetEnableStep, EnableCheck, ClearLatch, MotorFrame, StoreFlag
  <2>2. CASE LegPoll
    BY <2>2 DEF LegPoll
  <2>3. CASE LegWait \/ LegPop \/ LegDrained
    BY <2>3 DEF LegWait, LegPop, LegDrained
  <2>4. CASE LegCycle \/ LegGate \/ LegDispatch \/ LegStage
    BY <2>4 DEF LegCycle, LegGate, LegDispatch, LegStage
  <2>5. CASE FifoPush
    BY <2>5 DEF FifoPush
  <2>6. CASE RobotInit \/ LoopFunc \/ EnterMode \/ PollButtons \/ CheckGroup \/ RaiseFlags
    BY <2>6 DEF RobotInit, LoopFunc, EnterMode, PollButtons, CheckGroup, RaiseFlags
  <2>7. CASE BeginShutdown \/ StopThread \/ CloseServers \/ DestroyLeg
    BY <2>7 DEF BeginShutdown, StopThread, CloseServers, DestroyLeg
  <2>8. CASE Tick \/ WriteCommand \/ ChangeFaults \/ UNCHANGED vars
    BY <2>8 DEF Tick, WriteCommand, ChangeFaults, vars
  <2> QED
    BY <2>1, <2>2, <2>3, <2>4, <2>5, <2>6, <2>7, <2>8
       DEF Next, LegThread, MainThread, Threads
<1> QED BY <1>1, <1>2, LegTyped, PTL DEF Spec
=============================================================================
