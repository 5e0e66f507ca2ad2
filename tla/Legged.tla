------------------------------- MODULE Legged -------------------------------
(***************************************************************************)
(* One leg of the robot and the two threads that actuate it: the leg's     *)
(* real-time thread (ControlledSubsystemBase::Run, 400 Hz) and the main    *)
(* thread (IterativeRobotBase::loopFunc -> Robot::robotPeriodic, 100 Hz).  *)
(*                                                                         *)
(* Both threads call Legged::setEnable, which tests m_isEnabled, sends one *)
(* frame per motor and only then stores m_isEnabled; nothing excludes them *)
(* from each other.  The leg thread also runs disableAllMotorsOnce, which  *)
(* is gated by the latch m_motorsFaultDisabled.  The two legs are objects  *)
(* of one class that share none of this state, so one leg is modelled.     *)
(*                                                                         *)
(* Time is counted in ticks; cmdAge and groupAge are the ages the code     *)
(* computes from CLOCK_MONOTONIC, and stop growing once they are stale.    *)
(***************************************************************************)
EXTENDS Integers, Sequences

CONSTANTS
  NumMotors,   \* motors per leg (Config motor.motorsPerLeg)
  CmdStale,    \* COMMAND_STALE_THRESHOLD_NS = HEARTBEAT_STALE_NS, in ticks
  GroupStale,  \* Composer::MOTOR_STALE_TIMEOUT, in ticks
  Connects,    \* whether a controller ever attaches and writes commands
  FaultKinds,  \* the shared-memory faults the environment may cause
  MaxQueue,    \* bound: messages waiting in send_queue_
  MaxInputs,   \* bound: operator inputs (mode changes, polls with a button)
  MaxFaults    \* bound: changes of the fault fields by other processes

ASSUME LegAssumption ==
  /\ NumMotors \in Nat \ {0}
  /\ CmdStale \in Nat /\ GroupStale \in Nat \ {0}
  /\ Connects \in BOOLEAN
  /\ FaultKinds \subseteq {"layout", "estop", "cmdIdx"}
  /\ MaxQueue \in Nat /\ MaxInputs \in Nat /\ MaxFaults \in Nat

VARIABLES
  isEnabled,      \* m_isEnabled
  faultDisabled,  \* m_motorsFaultDisabled, the latch of disableAllMotorsOnce
  motorOn,        \* external: the motors that took an enable frame last
  driving,        \* external: the motors holding a MIT set point
  queue,          \* send_queue_: subsystem messages, oldest first
  signal,         \* its eventfd is readable
  outbox,         \* the messages the main thread has yet to push
  notifying,      \* it has queued the first of them and not yet notified
  op,             \* per thread: the setEnable / disableAllMotorsOnce under way
  lpc, mpc,       \* where the leg thread and the main thread are
  running,        \* m_entryThreadRunning
  attached,       \* m_shm of the leg is not null
  udpOpen,        \* the UdpServer's socket is open
  lastMode,       \* IterativeRobotBase::m_lastMode
  faults,         \* which checks of the shared segment would fail now
  cmdAge,         \* age of the selected command, or Never
  groupAge,       \* age of the last change of the group's staging sequence
  emergencyStop,  \* SharedMemoryLayout::emergency_stop
  inputs, toggles,\* counters for the bounds
  overlapped,     \* history: the threads whose motor loop overlapped another one,
                  \* since a loop last ran alone
  armed           \* history: setEnable(true) has completed once

mailVars  == <<queue, signal, outbox, notifying>>
legVars   == <<isEnabled, faultDisabled, motorOn, driving>>
envVars   == <<faults, cmdAge, toggles>>
ghostVars == <<overlapped, armed>>
vars == <<legVars, mailVars, op, lpc, mpc, running, attached, udpOpen, lastMode,
          envVars, groupAge, emergencyStop, inputs, ghostVars>>

Motors  == 1 .. NumMotors
Threads == {"main", "leg"}
Never   == -1   \* cmd.timestamp_ns = 0: no command was ever written
Msgs    == {"ENABLE", "DISABLE"}   \* MSG_EMERGENCY_STOP is handled as DISABLE
Modes   == {"kNone", "kAutonomous", "kTeleop"}

Idle  == [en |-> FALSE, at |-> "idle", i |-> 1]
OpSet == [en : BOOLEAN, i : Motors,
          at : {"idle", "check", "latch", "motors", "flag", "fault"}]

AllOn  == motorOn = Motors
AllOff == motorOn = {}

\* Thread t is past the test of m_isEnabled (or of the latch) and is changing
\* the motors.
Busy(t) == op[t].at \notin {"idle", "check"}
Free(t) == op[t].at = "idle"
Other(t) == IF t = "main" THEN "leg" ELSE "main"

\* History: thread t begins a motor loop; thread t ends one.
Entered(t) == overlapped' = IF Busy(Other(t)) THEN Threads ELSE overlapped \ {t}
Ended(t)   == overlapped' = IF t \in overlapped THEN overlapped ELSE {}

-----------------------------------------------------------------------------
(* Legged::setEnable, in the steps another thread can see between.         *)

\* A call of setEnable(en): thread t is about to test m_isEnabled.
Call(t, en) == op' = [op EXCEPT ![t] = [en |-> en, at |-> "check", i |-> 1]]

\* The two tests "_enable && !isEnabled()" and "!_enable && isEnabled()".
EnableCheck(t) ==
  /\ op[t].at = "check"
  /\ LET proceed == op[t].en # isEnabled
         next    == IF op[t].en THEN "latch" ELSE "motors"
     IN /\ op' = [op EXCEPT ![t] = IF proceed THEN [@ EXCEPT !.at = next] ELSE Idle]
        /\ IF proceed THEN Entered(t) ELSE UNCHANGED overlapped
  /\ UNCHANGED <<legVars, mailVars, lpc, mpc, running, attached, udpOpen, lastMode,
                 envVars, groupAge, emergencyStop, inputs, armed>>

\* Mutant of ClearLatch: the store of false to the latch is missing.
ClearLatchForgets(t) ==
  /\ op[t].at = "latch"
  /\ op' = [op EXCEPT ![t] = [@ EXCEPT !.at = "motors"]]
  /\ UNCHANGED <<legVars, mailVars, lpc, mpc, running, attached, udpOpen, lastMode,
                 envVars, groupAge, emergencyStop, inputs, ghostVars>>

\* m_motorsFaultDisabled.store(false), before the motors are enabled.
ClearLatch(t) ==
  /\ op[t].at = "latch"
  /\ faultDisabled' = FALSE
  /\ op' = [op EXCEPT ![t] = [@ EXCEPT !.at = "motors"]]
  /\ UNCHANGED <<isEnabled, motorOn, driving, mailVars, lpc, mpc, running, attached,
                 udpOpen, lastMode, envVars, groupAge, emergencyStop, inputs,
                 ghostVars>>

\* Mutant of MotorFrame: the loop over the motors runs one motor too far.
MotorFrameOverruns(t) ==
  /\ op[t].at \in {"motors", "fault"}
  /\ LET m == op[t].i IN
     /\ motorOn' = IF ~udpOpen THEN motorOn
                   ELSE IF op[t].en THEN motorOn \cup {m} ELSE motorOn \ {m}
     /\ driving' = IF udpOpen /\ ~op[t].en THEN driving \ {m} ELSE driving
     /\ op' = [op EXCEPT ![t] =
                 IF m <= NumMotors THEN [@ EXCEPT !.i = m + 1]
                 ELSE IF @.at = "motors" THEN [@ EXCEPT !.at = "flag"]
                 ELSE Idle]
  /\ IF op'[t] = Idle THEN Ended(t) ELSE UNCHANGED overlapped
  /\ UNCHANGED <<isEnabled, faultDisabled, mailVars, lpc, mpc, running, attached,
                 udpOpen, lastMode, envVars, groupAge, emergencyStop, inputs, armed>>

\* motor->enableMotor() or motor->disableMotor() for the next motor, of
\* setEnable or of disableAllMotorsOnce.  A frame sent after UdpServer::close
\* goes to a closed socket and is lost.
MotorFrame(t) ==
  /\ op[t].at \in {"motors", "fault"}
  /\ LET m == op[t].i IN
     /\ motorOn' = IF ~udpOpen THEN motorOn
                   ELSE IF op[t].en THEN motorOn \cup {m} ELSE motorOn \ {m}
     /\ driving' = IF udpOpen /\ ~op[t].en THEN driving \ {m} ELSE driving
     /\ op' = [op EXCEPT ![t] =
                 IF m < NumMotors THEN [@ EXCEPT !.i = m + 1]
                 ELSE IF @.at = "motors" THEN [@ EXCEPT !.at = "flag"]
                 ELSE Idle]
  /\ IF op'[t] = Idle THEN Ended(t) ELSE UNCHANGED overlapped
  /\ UNCHANGED <<isEnabled, faultDisabled, mailVars, lpc, mpc, running, attached,
                 udpOpen, lastMode, envVars, groupAge, emergencyStop, inputs, armed>>

\* enable() or disable(): m_isEnabled is stored after the last motor frame.
StoreFlag(t) ==
  /\ op[t].at = "flag"
  /\ isEnabled' = op[t].en
  /\ armed' = IF op[t].en THEN TRUE ELSE armed
  /\ op' = [op EXCEPT ![t] = Idle]
  /\ Ended(t)
  /\ UNCHANGED <<faultDisabled, motorOn, driving, mailVars, lpc, mpc, running, attached,
                 udpOpen, lastMode, envVars, groupAge, emergencyStop, inputs>>

SetEnableStep(t) == EnableCheck(t) \/ ClearLatch(t) \/ MotorFrame(t) \/ StoreFlag(t)

-----------------------------------------------------------------------------
(* The leg thread: ControlledSubsystemBase::Run.                           *)

\* poll() returned: the eventfd is readable, or the period has elapsed.  The
\* loop's condition is tested here and nowhere else.
LegPoll ==
  /\ lpc = "poll" /\ Free("leg")
  /\ lpc' = IF ~running THEN "exited" ELSE IF signal THEN "drain" ELSE "cycle"
  /\ UNCHANGED <<legVars, mailVars, op, mpc, running, attached, udpOpen, lastMode,
                 envVars, groupAge, emergencyStop, inputs, ghostVars>>

\* Fifo::pop, first FdEvent::wait: the eventfd does not block and is reset.
LegWait ==
  /\ lpc = "drain" /\ Free("leg")
  /\ signal' = FALSE
  /\ lpc' = "take"
  /\ UNCHANGED <<legVars, queue, outbox, notifying, op, mpc, running, attached, udpOpen,
                 lastMode, envVars, groupAge, emergencyStop, inputs, ghostVars>>

\* Mutant of LegPop: Run handles one message per poll, "if (f)" for "while (f)".
LegPopOnce ==
  /\ lpc = "take" /\ queue # <<>>
  /\ queue' = Tail(queue)
  /\ Call("leg", Head(queue) = "ENABLE")
  /\ lpc' = "cycle"
  /\ UNCHANGED <<legVars, signal, outbox, notifying, mpc, running, attached, udpOpen,
                 lastMode, envVars, groupAge, emergencyStop, inputs, ghostVars>>

\* ... then the queue under its lock.  onMessage: MSG_ENABLE_SUBSYSTEM calls
\* setEnable(true); MSG_DISABLE_SUBSYSTEM and MSG_EMERGENCY_STOP call setEnable(false).
\* Run then pops again.
LegPop ==
  /\ lpc = "take" /\ queue # <<>>
  /\ queue' = Tail(queue)
  /\ Call("leg", Head(queue) = "ENABLE")
  /\ lpc' = "drain"
  /\ UNCHANGED <<legVars, signal, outbox, notifying, mpc, running, attached, udpOpen,
                 lastMode, envVars, groupAge, emergencyStop, inputs, ghostVars>>

\* pop() returned null: on to controllerPeriodic() if it is due.
LegDrained ==
  /\ lpc = "take" /\ queue = <<>>
  /\ lpc' \in {"cycle", "poll"}
  /\ UNCHANGED <<legVars, mailVars, op, mpc, running, attached, udpOpen, lastMode,
                 envVars, groupAge, emergencyStop, inputs, ghostVars>>

\* disableAllMotorsOnce: only the caller that flips the latch sends frames.
DisableAllMotorsOnce ==
  /\ faultDisabled' = TRUE
  /\ op' = IF faultDisabled THEN op
           ELSE [op EXCEPT !["leg"] = [en |-> FALSE, at |-> "fault", i |-> 1]]
  /\ IF faultDisabled THEN UNCHANGED overlapped ELSE Entered("leg")

\* Mutant of LegCycle: a failing check still publishes to the staging buffer.
LegCycleStillStages ==
  /\ lpc = "cycle" /\ Free("leg")
  /\ \/ /\ ~attached
        /\ lpc' = "poll"
        /\ UNCHANGED <<faultDisabled, op, overlapped>>
     \/ /\ attached /\ faults \cap {"layout", "estop"} # {}
        /\ DisableAllMotorsOnce
        /\ lpc' = "stage"
     \/ /\ attached /\ faults \cap {"layout", "estop"} = {}
        /\ lpc' = "gate"
        /\ UNCHANGED <<faultDisabled, op, overlapped>>
  /\ UNCHANGED <<isEnabled, motorOn, driving, mailVars, mpc, running, attached, udpOpen,
                 lastMode, envVars, groupAge, emergencyStop, inputs, armed>>

\* controllerPeriodic, first part: the pointer snapshot, then magic and version
\* ("layout") and controller_emergency_stop; each failing check returns without
\* publishing to the staging buffer.
LegCycle ==
  /\ lpc = "cycle" /\ Free("leg")
  /\ \/ /\ ~attached
        /\ lpc' = "poll"
        /\ UNCHANGED <<faultDisabled, op, overlapped>>
     \/ /\ attached /\ faults \cap {"layout", "estop"} # {}
        /\ DisableAllMotorsOnce
        /\ lpc' = "poll"
     \/ /\ attached /\ faults \cap {"layout", "estop"} = {}
        /\ lpc' = "gate"
        /\ UNCHANGED <<faultDisabled, op, overlapped>>
  /\ UNCHANGED <<isEnabled, motorOn, driving, mailVars, mpc, running, attached, udpOpen,
                 lastMode, envVars, groupAge, emergencyStop, inputs, armed>>

\* The actuation gate: isEnabled(), the range of cmd_write_idx, the age of the
\* command (a command that was never written has no age).
LegGate ==
  /\ lpc = "gate"
  /\ \/ /\ isEnabled /\ "cmdIdx" \in faults
        /\ DisableAllMotorsOnce
        /\ lpc' = "stage"
     \/ /\ isEnabled /\ "cmdIdx" \notin faults /\ cmdAge <= CmdStale
        /\ lpc' = "dispatch"
        /\ UNCHANGED <<faultDisabled, op, overlapped>>
     \/ /\ ~isEnabled \/ ("cmdIdx" \notin faults /\ cmdAge > CmdStale)
        /\ lpc' = "stage"
        /\ UNCHANGED <<faultDisabled, op, overlapped>>
  /\ UNCHANGED <<isEnabled, motorOn, driving, mailVars, mpc, running, attached, udpOpen,
                 lastMode, envVars, groupAge, emergencyStop, inputs, armed>>

\* setMitControl for the joints the command enables: all of them in a command
\* of the controller, none in the zeroed buffer.  A motor that is off ignores it.
LegDispatch ==
  /\ lpc = "dispatch"
  /\ driving' = IF cmdAge = Never THEN driving ELSE driving \cup motorOn
  /\ lpc' = "stage"
  /\ UNCHANGED <<isEnabled, faultDisabled, motorOn, mailVars, op, mpc, running, attached,
                 udpOpen, lastMode, envVars, groupAge, emergencyStop, inputs,
                 ghostVars>>

\* staging->publish(stageData): the composer sees the group's sequence change.
LegStage ==
  /\ lpc = "stage" /\ Free("leg")
  /\ groupAge' = 0
  /\ lpc' = "poll"
  /\ UNCHANGED <<legVars, mailVars, op, mpc, running, attached, udpOpen, lastMode,
                 envVars, emergencyStop, inputs, ghostVars>>

LegThread ==
  \/ SetEnableStep("leg") \/ LegPoll \/ LegWait \/ LegPop \/ LegDrained
  \/ LegCycle \/ LegGate \/ LegDispatch \/ LegStage

-----------------------------------------------------------------------------
(* The main thread.                                                        *)

\* robotInit: the segment is created and the leg's pointers are set while the
\* leg thread is already running; startThread() then finds it running.
RobotInit ==
  /\ mpc = "init"
  /\ attached' = TRUE
  /\ mpc' = "mode"
  /\ UNCHANGED <<legVars, mailVars, op, lpc, running, udpOpen, lastMode,
                 envVars, groupAge, emergencyStop, inputs, ghostVars>>

\* The main thread is in no call: the next statement of its loop can run.
Ready == Free("main") /\ outbox = <<>>

\* Mutant of FifoPush: the eventfd is written before the message is queued.
FifoPushNotifiesFirst ==
  /\ outbox # <<>>
  /\ \/ /\ ~notifying
        /\ signal' = TRUE
        /\ notifying' = TRUE
        /\ UNCHANGED <<queue, outbox>>
     \/ /\ notifying
        /\ queue' = Append(queue, Head(outbox))
        /\ outbox' = Tail(outbox) /\ notifying' = FALSE
        /\ UNCHANGED signal
  /\ UNCHANGED <<legVars, op, lpc, mpc, running, attached, udpOpen, lastMode, envVars,
                 groupAge, emergencyStop, inputs, ghostVars>>

\* Fifo::push: the message is queued under the lock, and after it FdEvent::notify makes
\* the eventfd readable.
FifoPush ==
  /\ outbox # <<>>
  /\ \/ /\ ~notifying
        /\ queue' = Append(queue, Head(outbox))
        /\ notifying' = TRUE
        /\ UNCHANGED <<signal, outbox>>
     \/ /\ notifying
        /\ signal' = TRUE
        /\ outbox' = Tail(outbox) /\ notifying' = FALSE
        /\ UNCHANGED queue
  /\ UNCHANGED <<legVars, op, lpc, mpc, running, attached, udpOpen, lastMode, envVars,
                 groupAge, emergencyStop, inputs, ghostVars>>

\* loopFunc with the mode of the last refresh: entering kAutonomous or kTeleop
\* sends MSG_ENABLE_SUBSYSTEM ...
LoopFunc ==
  /\ mpc = "mode" /\ Ready
  /\ \E mode \in Modes :
       /\ lastMode' = mode
       /\ \/ /\ mode = lastMode
             /\ mpc' = "buttons"
             /\ UNCHANGED <<outbox, inputs>>
          \/ /\ mode # lastMode /\ mode = "kNone" /\ inputs < MaxInputs
             /\ inputs' = inputs + 1
             /\ mpc' = "buttons"
             /\ UNCHANGED outbox
          \/ /\ mode # lastMode /\ mode # "kNone" /\ inputs < MaxInputs
             /\ Len(queue) < MaxQueue
             /\ inputs' = inputs + 1
             /\ outbox' = <<"ENABLE">>
             /\ mpc' = "enter"
  /\ UNCHANGED <<legVars, queue, signal, notifying, op, lpc, running, attached, udpOpen,
                 envVars, groupAge, emergencyStop, ghostVars>>

\* ... and then calls setEnable(true) directly.
EnterMode ==
  /\ mpc = "enter" /\ outbox = <<>>
  /\ Call("main", TRUE)
  /\ mpc' = "buttons"
  /\ UNCHANGED <<legVars, mailVars, lpc, running, attached, udpOpen, lastMode, envVars,
                 groupAge, emergencyStop, inputs, ghostVars>>

\* The events bound in robotInit and, in the order m_loop runs them, the message
\* each sends to this leg when it rises.
Events == {"enableLeg", "disableLeg", "enableAll", "emergency"}
Send(pressed, event, msg) == IF event \in pressed THEN <<msg>> ELSE <<>>
Pushed(pressed) ==
  Send(pressed, "enableLeg", "ENABLE") \o Send(pressed, "disableLeg", "DISABLE") \o
  Send(pressed, "enableAll", "ENABLE") \o Send(pressed, "emergency", "DISABLE")

\* robotPeriodic: m_loop.poll() with the set of events that rose.
PollButtons ==
  /\ mpc = "buttons" /\ Ready
  /\ mpc' = "group"
  /\ \E pressed \in SUBSET Events :
       /\ pressed # {} => inputs < MaxInputs
       /\ Len(queue \o Pushed(pressed)) <= MaxQueue
       /\ inputs' = IF pressed = {} THEN inputs ELSE inputs + 1
       /\ outbox' = Pushed(pressed)
       /\ emergencyStop' = IF "emergency" \in pressed THEN TRUE ELSE emergencyStop
  /\ UNCHANGED <<legVars, queue, signal, notifying, op, lpc, running, attached, udpOpen,
                 lastMode, envVars, groupAge, ghostVars>>

\* The group's staleness bit: setEnable(false), on the main thread.
CheckGroup ==
  /\ mpc = "group" /\ Ready
  /\ mpc' = "flags"
  /\ IF groupAge >= GroupStale THEN Call("main", FALSE) ELSE UNCHANGED op
  /\ UNCHANGED <<legVars, mailVars, lpc, running, attached, udpOpen, lastMode, envVars,
                 groupAge, emergencyStop, inputs, ghostVars>>

\* The rest of robotPeriodic raises emergency_stop: for an IMU stale for more
\* than 20 cycles (an input here), a stale command, the controller's own stop.
\* A timestamp later than now, which also counts as stale, cannot be read: the controller
\* takes it before it stores it, and now is read after it, both from CLOCK_MONOTONIC.
\* Parameter queries change none of this state.
RaiseFlags ==
  /\ mpc = "flags" /\ Ready
  /\ mpc' = "mode"
  /\ \E imuCritical \in BOOLEAN :
       emergencyStop' = IF \/ imuCritical
                           \/ "cmdIdx" \notin faults /\ cmdAge > CmdStale
                           \/ "estop" \in faults
                        THEN TRUE ELSE emergencyStop
  /\ UNCHANGED <<legVars, mailVars, op, lpc, running, attached, udpOpen, lastMode,
                 envVars, groupAge, inputs, ghostVars>>

\* SIGTERM while the loop sleeps: exit() runs ~Robot, whose detachSharedMemory
\* first calls setEnable(false).
BeginShutdown ==
  /\ mpc = "mode" /\ Ready
  /\ mpc' = "stop"
  /\ Call("main", FALSE)
  /\ UNCHANGED <<legVars, mailVars, lpc, running, attached, udpOpen, lastMode, envVars,
                 groupAge, emergencyStop, inputs, ghostVars>>

\* stopThread: the flag, then pthread_join.
StopThread ==
  /\ mpc = "stop" /\ Ready
  /\ running' = FALSE
  /\ mpc' = "join"
  /\ UNCHANGED <<legVars, mailVars, op, lpc, attached, udpOpen, lastMode, envVars,
                 groupAge, emergencyStop, inputs, ghostVars>>

\* After the join: setShmPointers(nullptr, nullptr), and ~Robot closes the UDP
\* servers before the legs, its members, are destroyed.
CloseServers ==
  /\ mpc = "join" /\ lpc = "exited"
  /\ attached' = FALSE
  /\ udpOpen' = FALSE
  /\ mpc' = "destroy"
  /\ UNCHANGED <<legVars, mailVars, op, lpc, running, lastMode, envVars, groupAge,
                 emergencyStop, inputs, ghostVars>>

\* ~Legged: setZeroCommand and disableMotor for every motor.
DestroyLeg ==
  /\ mpc = "destroy"
  /\ motorOn' = IF udpOpen THEN {} ELSE motorOn
  /\ driving' = IF udpOpen THEN {} ELSE driving
  /\ mpc' = "done"
  /\ UNCHANGED <<isEnabled, faultDisabled, mailVars, op, lpc, running, attached, udpOpen,
                 lastMode, envVars, groupAge, emergencyStop, inputs, ghostVars>>

MainThread ==
  \/ SetEnableStep("main") \/ RobotInit \/ FifoPush \/ LoopFunc \/ EnterMode \/ PollButtons \/ CheckGroup
  \/ RaiseFlags \/ StopThread \/ CloseServers \/ DestroyLeg

-----------------------------------------------------------------------------
(* Time and the other process.                                             *)

\* One tick: ages grow until they are stale.
Tick ==
  /\ cmdAge' = IF cmdAge = Never \/ cmdAge > CmdStale THEN cmdAge ELSE cmdAge + 1
  /\ groupAge' = IF groupAge < GroupStale THEN groupAge + 1 ELSE groupAge
  /\ <<cmdAge', groupAge'>> # <<cmdAge, groupAge>>
  /\ UNCHANGED <<legVars, mailVars, op, lpc, mpc, running, attached, udpOpen, lastMode,
                 faults, toggles, emergencyStop, inputs, ghostVars>>

\* The controller publishes a command.
WriteCommand ==
  /\ attached /\ Connects
  /\ cmdAge' = 0
  /\ UNCHANGED <<legVars, mailVars, op, lpc, mpc, running, attached, udpOpen, lastMode,
                 faults, toggles, groupAge, emergencyStop, inputs, ghostVars>>

\* Another process with the segment mapped changes a field the leg validates.
ChangeFaults ==
  /\ attached /\ toggles < MaxFaults
  /\ toggles' = toggles + 1
  /\ \E k \in FaultKinds :
       faults' = IF k \in faults THEN faults \ {k} ELSE faults \cup {k}
  /\ UNCHANGED <<legVars, mailVars, op, lpc, mpc, running, attached, udpOpen, lastMode,
                 cmdAge, groupAge, emergencyStop, inputs, ghostVars>>

-----------------------------------------------------------------------------
\* The leg's constructor enables every motor and leaves m_isEnabled false.
Init ==
  /\ isEnabled = FALSE /\ faultDisabled = FALSE
  /\ motorOn = Motors /\ driving = {}
  /\ queue = <<>> /\ signal = FALSE /\ outbox = <<>> /\ notifying = FALSE
  /\ op = [t \in Threads |-> Idle]
  /\ lpc = "poll" /\ mpc = "init"
  /\ running = TRUE /\ attached = FALSE /\ udpOpen = TRUE
  /\ lastMode = "kNone"
  /\ faults = {} /\ cmdAge = Never /\ groupAge = 0
  /\ emergencyStop = FALSE
  /\ inputs = 0 /\ toggles = 0
  /\ overlapped = {} /\ armed = FALSE

Next ==
  \/ LegThread \/ MainThread \/ BeginShutdown
  \/ Tick \/ WriteCommand \/ ChangeFaults

\* Both threads are SCHED_FIFO loops that never block on one another, and time
\* passes.  Nothing is assumed of the operator, the controller or SIGTERM.
Spec == Init /\ [][Next]_vars
FairSpec == Spec /\ WF_vars(LegThread) /\ WF_vars(MainThread) /\ WF_vars(Tick)

-----------------------------------------------------------------------------
FlagsOK ==
  /\ isEnabled \in BOOLEAN /\ faultDisabled \in BOOLEAN
  /\ running \in BOOLEAN /\ attached \in BOOLEAN /\ udpOpen \in BOOLEAN
  /\ signal \in BOOLEAN /\ notifying \in BOOLEAN
  /\ emergencyStop \in BOOLEAN /\ overlapped \subseteq Threads /\ armed \in BOOLEAN

ThreadsOK ==
  /\ op \in [Threads -> OpSet]
  /\ lpc \in {"poll", "drain", "take", "cycle", "gate", "dispatch", "stage", "exited"}
  /\ mpc \in {"init", "mode", "enter", "buttons", "group", "flags", "stop", "join",
              "destroy", "done"}
  /\ lastMode \in Modes

DataOK ==
  /\ motorOn \subseteq Motors /\ driving \subseteq Motors
  /\ queue \in Seq(Msgs) /\ outbox \in Seq(Msgs)
  /\ faults \subseteq FaultKinds
  /\ cmdAge \in Never .. (CmdStale + 1) /\ groupAge \in 0 .. GroupStale
  /\ toggles \in Nat /\ inputs \in Nat

\* Every variable stays in its type: in particular the ages stop at their limits
\* and a thread's place in a motor loop is a motor.
TypeOK == FlagsOK /\ ThreadsOK /\ DataOK

-----------------------------------------------------------------------------
(* The inductive invariant behind SerialConsistency.                       *)

\* The motors 1 .. k-1 have had the current loop's frame.
Served(t) == 1 .. (op[t].i - 1)

\* Which thread can be inside a call, and when the socket is still open.
Shape ==
  /\ lpc \in {"take", "gate", "dispatch", "exited"} => Free("leg")
  /\ mpc \in {"init", "enter", "join", "destroy", "done"} => Free("main")
  /\ op["main"].at # "fault"
  /\ mpc \in {"destroy", "done"} <=> ~udpOpen
  /\ ~udpOpen => lpc = "exited"
  /\ \A t \in Threads : /\ op[t].at \in {"check", "latch"} => op[t].i = 1
                        /\ op[t].at = "latch" => op[t].en
                        /\ op[t].at = "fault" => ~op[t].en

\* The flags agree with the motors.
Settled ==
  /\ faultDisabled => AllOff
  /\ isEnabled /\ ~faultDisabled => AllOn
  /\ ~isEnabled /\ armed => AllOff

\* What the flags and the motors look like at each stage of a loop that runs alone,
\* wherever it started from.
Stage(t) ==
  /\ op[t].at = "latch" => ~isEnabled
  /\ op[t].at \in {"motors", "flag"} /\ op[t].en =>
       ~isEnabled /\ ~faultDisabled /\ Served(t) \subseteq motorOn
  /\ op[t].at \in {"motors", "flag"} /\ ~op[t].en =>
       isEnabled /\ motorOn \cap Served(t) = {}
  /\ op[t].at = "flag" => IF op[t].en THEN AllOn ELSE AllOff
  /\ op[t].at = "fault" => faultDisabled /\ motorOn \cap Served(t) = {}

SerialInv ==
  /\ \A t \in Threads : Busy(t) /\ t \notin overlapped => ~Busy(Other(t)) /\ Stage(t)
  /\ overlapped = {} /\ ~Busy("main") /\ ~Busy("leg") => Settled

IInv == TypeOK /\ Shape /\ SerialInv

\* The flags and the motors disagree only from the moment two motor loops overlap until
\* a loop has run alone: otherwise, whenever neither thread is inside one, a leg whose
\* fault latch is set has every motor off, an enabled leg without it has every motor on,
\* and a leg that was enabled and then disabled has every motor off.  So whatever an
\* overlap of Legged::setEnable or disableAllMotorsOnce, which take no lock, has left
\* behind, the next of them that passes its test and runs alone repairs it.
SerialConsistency == overlapped = {} /\ ~Busy("main") /\ ~Busy("leg") => Settled

\* A controller emergency stop that stays set ends with every motor off for good,
\* however setEnable calls of the two threads and the latch interleave: what the
\* latch of disableAllMotorsOnce misses, the group's staleness catches, because a
\* stopped leg publishes nothing.
EstopStopsMotors ==
  <>[]("estop" \in faults /\ running) => <>[](running => AllOff)

\* The leg thread never sleeps on a message.  pop() resets the eventfd before it looks into
\* the queue and push() writes it after the message is queued, each without the other's
\* lock: wherever the two fall, while messages are queued the eventfd is readable, or
\* push() is about to make it so, or the leg thread will look into the queue again before
\* it polls.
NoLostMessage == queue # <<>> => signal \/ notifying \/ lpc \in {"drain", "take"}

\* A message that was queued is handled while the leg thread runs.
MessagesHandled == (queue # <<>>) ~> (queue = <<>> \/ ~running)

\* doc/installation.md:205 says that a controller that stops is detected by its
\* stale command, and that the robot then "sets `emergency_stop`, disables motors".
StaleCommandDisablesMotors ==
  <>[](cmdAge > CmdStale /\ running) => <>(~running \/ AllOff)

\* src/Robot.cpp:239 says "Motor group staleness -> disable affected leg": when the
\* main thread's setEnable(false) stores the flag and the leg thread is not itself
\* changing the motors, no motor is on.
StaleGroupDisablesLeg ==
  [][ (op["main"].at = "flag" /\ ~op["main"].en /\ op'["main"] = Idle /\ ~Busy("leg"))
        => AllOff' ]_vars

\* src/subsystems/Legged.cpp:333 says "Reset all motors on shutdown (setZeroCommand
\* + disableMotor)": once the leg is destroyed no motor is on.
ShutdownDisablesMotors == mpc = "done" => AllOff

=============================================================================
