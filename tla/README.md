# Kuavo: TLA+ models of the robot program

Kuavo is the control program of a biped robot (C++20, `src/src`, `src/lib`,
`src/include`, `src/tools`; `srSimulator` and `LieGroup` are third-party code).
This directory holds TLA+ models of its concurrent core, TLC configurations that
check them on small instances, and TLAPS proofs of the most important properties
for every value of the constants.

Modules are checked with `tlc -workers 2 -config X.cfg M` and proved with
`tlapm M.tla`. `PROJECT.json` lists components, runs, the line map from
definitions to source, hazards, findings and theorems.

## 1. Inventory

### Threads and processes

| Actor | Scheduling | What it does |
|---|---|---|
| main | FIFO 75, 100 Hz | `loopFunc`: driver-station refresh, mode changes, `robotPeriodic` (buttons, staleness, emergency stop) |
| left leg, right leg | FIFO 90, 400 Hz | `ControlledSubsystemBase::Run`: messages, then `controllerPeriodic` |
| composer | FIFO 85, 400 Hz | reads the staging buffers, publishes the composed snapshot, batches it into the log ring |
| logger | other, 1 kHz | drains the log ring into the MQTT client's send queue |
| MQTT | other | receives the station's packets, sends telemetry, reconnects |
| UDP receive (x2) | FIFO 88 | motor replies |
| IMU reader | - | IMU staging buffer |
| mercury_controller | another process, 200 Hz by default | reads the composed snapshot, writes commands, over POSIX shared memory |

Almost no locks are shared between these actors: they communicate by atomic
flags, double buffers, an SPSC ring and an exchanged pointer. That is what the
models are about.

### Components

| Component | State | Operations | Interacts with | What makes it correct |
|---|---|---|---|---|
| Leg actuation (`Legged`, `ControlledSubsystemBase`) | `m_isEnabled`, `m_motorsFaultDisabled`, message queue, SHM pointers | `setEnable`, `disableAllMotorsOnce`, `onMessage`, `controllerPeriodic`, `stopThread`, destructor | main thread (direct calls, messages), motors (UDP frames), controller (SHM), composer (staging) | flags agree with the motors; stops lead to motors off; messages are handled |
| Main loop (`Robot`, `IterativeRobotBase`) | `m_lastMode`, event loop, `m_shm`, IMU stale counter | `robotInit`, `loopFunc`, `robotPeriodic`, `~Robot` | everything | staleness and emergency stops act on the legs; shutdown leaves motors off and nothing unmapped in use |
| Driver station (`FRCDriverStation`, `DriverStation`, `EventLoop`, `BooleanEvent`) | three caches and the pointers to them, control word, button edges | `newDataOccur`, `HAL_RefreshDSData`, `refreshData`, `waitForDsConnection`, `poll`, `rising` | MQTT thread writes, main thread reads | no torn or lost data, no return to old data, word and data in step, one action per press |
| Log ring (`SPSCRingBuffer`) | `head_`, `tail_`, slots, `dropped_` | `push`, `pop` | composer, logger | a bounded FIFO queue |
| Composer, `SourceDoubleBuffer` | two-slot buffers, last-change times, batch | `publish`, `read`, `compose_cycle`, `check_staleness`, `flush_batch` | legs, IMU, controller, main, logger | untorn snapshots; a source is reported stale iff it stopped; no sample lost before the ring |
| Logger, `MqttClient` | push gate, skip counter, send queue, reconnect state, stored `wsi` | `drainOnce`, `publish_binary`, the libwebsockets callbacks, `reconnect` | ring, broker | every batch at one place; order at the broker; one attempt to connect and always one; a full queue drains |
| SHM lifecycle | segment name, magic, version, lifecycle state, age of the composed data | create or reuse, initialise, unlink; attach, detach, reattach | robot, controller, service file | never a half initialised segment; a dead one is left; a started robot gets its controller |
| Motors, CAN API, `UdpServer` | last state per motor, sockets | `sendMsg`, `dispatchMessage` | legs, main, UDP threads | frames leave in order while the socket is open (the pending-reply table is unused: every send passes `reply = false`) |
| `Synchronization` | signal table, waiters | `waitForObjects`, `setSignalObject` | driver station, CAN API | no lost wake-up |
| Timers, configuration, IMU parsing, arm controllers, tools, simulator | - | - | - | not modelled (section 7) |

The hard behaviours are the calls of `setEnable` from two threads, the
unlocked hand-over of driver-station caches during start-up and operation,
non-atomic copies in the ring and the double buffers, ages computed from a clock
read at another time, the order of shutdown, and restarts of either process.
`PROJECT.json` lists each hazard at its line.

## 2. Plan

Done, in this order:

1. `Legged`: the leg and the main thread (safety of motors first).
2. `DriverStation`: the operator's input path.
3. `SpscRing` implements `LogQueue`.
4. `DoubleBuffer`, and `Composer` on top of it: staging, tracking, staleness.
5. `Telemetry`: the composer's batches, `Logger` and `MqttClient`, composed over
   `LogQueue`, the abstract queue that `SpscRing` implements.
6. `ShmLifecycle`: robot and controller creating, attaching, going stale,
   restarting, crashing.
7. Proofs of every invariant and action property of 1-6.
8. What two components promise, as abstract specifications they are proved to
   implement: `DriverStation` implements `Mailbox`, `Telemetry` implements
   `LossyChannel`.

Left:

9. The IMU reader's counting of frames under loss and duplication.
10. Lost motor frames in `Legged`: which of its properties survive them.

A module for the pending-reply table of the CAN API, planned at first, was
dropped: no send of the robot program asks for a reply.

## 3. Modules and how they correspond to the code

### `Legged` (one leg, the leg thread and the main thread)

`isEnabled`, `faultDisabled`, `queue`, `running`, `attached`, `lastMode`,
`emergencyStop` are the fields of the same names in the code. `op[t]` is the
activation record of `setEnable` or `disableAllMotorsOnce` in thread `t`: `at`
is the statement (`check` the test, `latch` the store of the latch, `motors` the
loop, `flag` the store of `m_isEnabled`, `fault` the loop of
`disableAllMotorsOnce`) and `i` the next motor. `lpc` and `mpc` are the places of
the two threads in `Run`/`controllerPeriodic` and in the main loop.

Messages go through `Fifo` in the steps another thread can see between: `outbox` is
what the main thread has still to push, `queue` the queue, `notifying` says that
`push` has released the lock and not yet written the eventfd, and `signal` that the
eventfd is readable (its counter does not matter: `wait` reads it, which resets it).
`LegWait` is that read, before `pop` takes the lock (`LegPop`). A mode change pushes
its ENABLE before it calls `setEnable(true)` itself (`EnterMode`).

`motorOn` and `driving` are the motors themselves (external): a frame takes
effect when it is sent while the socket is open. `cmdAge` and `groupAge` are the
ages the code computes; an age stops growing once it is over its threshold. The
composer is abstracted to `groupAge`: staging resets it, and the main thread's
staleness test reads it. `faults` holds which validations of the segment would
fail: `layout` (magic or version), `estop` (`controller_emergency_stop`),
`cmdIdx` (`cmd_write_idx` out of range).

| Action | Code |
|---|---|
| `EnableCheck`, `ClearLatch`, `MotorFrame`, `StoreFlag` | `Legged::setEnable`, `enable`, `disable` |
| `LegPoll`, `LegDrained`, `LegPop` | `ControlledSubsystemBase::Run`, `Legged::onMessage` |
| `FifoPush`, `LegWait` | `Fifo::push`, the `wait` of `Fifo::pop` |
| `LegCycle`, `LegGate`, `LegDispatch`, `LegStage` | `Legged::controllerPeriodic` |
| `DisableAllMotorsOnce` | `Legged::disableAllMotorsOnce` |
| `RobotInit`, `LoopFunc`, `EnterMode`, `PollButtons`, `CheckGroup`, `RaiseFlags` | `robotInit`, `loopFunc`, `autonomousInit` and `teleopInit`, `robotPeriodic` |
| `BeginShutdown`, `StopThread`, `CloseServers`, `DestroyLeg` | `~Robot`, `detachSharedMemory`, `UdpServer::close`, `~Legged` |
| `Tick`, `WriteCommand`, `ChangeFaults` | the clock, the controller, any process that has the segment mapped |

Abstractions: the legs share no state, so one is modelled. Button conditions are
an arbitrary set of rising events per poll; this includes what the combined
events (`lb && rb`, `back && start`) may return, whose lambdas refer to local
variables of `robotInit` after it returned (`Robot.cpp:147`, `:156`). SIGTERM is
taken when the main loop sleeps. `overlapped` and `armed` are history variables:
`overlapped` holds the threads whose motor loop ran while the other thread was in
one, and is emptied when a loop that ran alone ends; `armed` says whether the leg
was ever enabled.

### `DriverStation` (the MQTT thread and the main thread)

The three `caches` and the pointers `cacheToUpdate`, `currentReadLocal`,
`lastGiven`, `currentCache`, `currentRead` are the static variables of
`FRCDriverStation.cpp`; `given` is the local of `newDataOccur`. Each step between
which the other thread can intervene is an action: `UpdateJoystick`,
`UpdateWord`, `GiveCache` (the exchange), `StoreGiven`, `Wakeup` on one side;
`PeekPointer`, `PeekWord`, `TakeCache`, `PublishWord`, `RefreshData`,
`PollEvents` on the other, after the start-up steps `ProvideEvent`, `AwaitData`
and `BindEvents`. `phase` says which caller of `refreshData` is active: the wait
in `InitializeHAL`, the constructor of `RobotBase`, the loop.

Of a packet the model keeps its number, its control word and one button. The
getters are not actions of their own: they read `currentRead`, and what they rely
on is `ReaderUndisturbed`. `presses` counts what the operator did and `rises`
what the robot acted on; both are history.

`Mailbox` is what the exchange of three caches promises: a register that holds
the packet put last, whose content does not change under the one who took it. Its
`box` is the newest cache handed over, its `read` the cache behind `currentRead`
once the station is connected.

### `SpscRing` and `LogQueue`

`head`, `tail`, `dropped`, `buffer` are the members. An item is copied in two
halves, so a copy that overlaps another one is visible as a torn item. The
counters are loaded in `PushBegin` and `PopBegin`, where one thread's own counter
cannot change and the other's only moves in the safe direction, which is what the
acquire/release pairs guarantee. Counters are 64 bit and do not wrap in practice;
they are natural numbers here. `LogQueue` is the abstract queue; the refinement
mapping reads the queue's content from the slots between the counters.

### `DoubleBuffer` and `Composer`

`DoubleBuffer` is one hand-over: `buf` and `idx` are `buffers` and `write_idx`,
`at` the place of the writer in `publish`, `rd[r]` the copy of reader `r`. A
`memcpy` is two steps, in either order on the reading side. Halves carry the
number of the publish that wrote them, so that a torn copy is visible. The
members `sequence` and `heartbeat_ns` of the buffer are written by `publish` and
read by nobody; they are left out. The composed snapshot
(`Composer.cpp:213-215`, read by `mercury_controller`) and the command
(`mercury_controller.cpp:152-154`, read by the legs and the composer) repeat the
same steps inline, so `ReadsNewest`, proved for any set of readers, is about them
too.

`Composer` extends it with the three threads that track a motor group: the leg's
publish with `composed_sequence + 1` (`StageBegin` .. `StageFlip`), the composer's
cycle (`ReadBegin`, `ReadHalf`, `Stamp`, `Track`, `Count`) and the main thread's
`check_staleness` (`SampleClock`, then `CheckStaleness` with the unsigned
difference, `% Word`). The cycle's snapshot and batch are written between `Track`
and `Count` and after it, and have no effect on this state. `news`, `due`,
`heard`, `quiet`, `moving` and the fields `want` and `lapped` are history: `heard` is
the time of the last cycle before whose read a publish with a fresh number was
complete, `quiet` the time at which the first cycle began that was preceded by a
silent one (0 if the leg has moved since).

`Legged` uses an exact age of the group in the place of this mechanism; the
spurious report of finding 5 is therefore not among the behaviours of `Legged`.

### `Telemetry` (composer, logger and MQTT service thread)

A batch is its number (`batch_seq_`); samples are counted in `fill`. The ring is
an instance of `LogQueue`: `Accept`, `Refuse` and `Deliver` are a `push` that
succeeds, one that fails and a `pop`. `hand` is the local `batch` of `drainOnce`,
`skip` the counter modulo the thinning. `msgs` is `m_binaryMessages`,
`isConnected`, `pending`, `delay`, `reconnectAt` are the members of the same
names (the time as the ticks left, `Never` for `time_point::max()`), `wsi` the
entry of `m_wsiMap`. `delivered` and `lost` are history.

| Action | Code |
|---|---|
| `Compose`, `FlushBatch`, `ComposerExit` | the end of `compose_cycle`, `flush_batch`, the end of `Composer::run` |
| `Poll`, `Pop`, `Drained`, `Publish`, `CancelService` | `Logger::run`, `drainOnce`, `publish_binary` in and after its lock |
| `FirstConnect`, `Reconnect`, `ScheduleReconnect` | `notifyCallback`, the service loop and `reconnect`, `scheduleReconnect` |
| `Established`, `ConnectionError`, `Closed`, `WaitCancelled`, `Writeable`, `Subscribed`, `Ack`, `Resend` | the cases of `MqttClient::callback` |
| `StopLogger`, `StopComposer` | step 4 of `detachSharedMemory` |

libwebsockets is external: `link`, `writable`, `wake`, `acks` and `state` (its
per-session data) are modelled from how the client uses it. Assumed of it: its
callbacks run one at a time on the service thread; a connection attempt ends in
ESTABLISHED or CONNECTION_ERROR, an open connection in CLOSED, and after an error
of a write it is closed; it asks for a write itself when the subscription is
acknowledged; RESEND is reported at most once per connection, as the only QoS 1
message is the status. The client's `shutdown` and `disconnect` have no caller:
its thread runs until the process ends.

`LossyChannel` is what ring, logger and client together promise of the batches:
delivered at most once and in order, possibly lost. Its `inTransit` is what is in
the ring, in the logger's hand and in the send queue (`OnTheWay`).

### `ShmLifecycle` (robot, controller and the segment's name)

A segment is an inode (`seg[s]`), `name` what `SHM_NAME` leads to. Of a segment
are kept: whether it has its size, `version`, the other initialised `fields`,
the lifecycle, the magic number, and of the composed data whether there is any
and its age. `rpc` and `cpc` are the places of the two processes, `rseg` and
`cseg` the segment each has mapped.

| Action | Code |
|---|---|
| `Create`, `Truncate`, `Clear`, `Initialise`, `StartComposer`, `Compose` | `robotInit`, `attachSharedMemory`, `compose_cycle` |
| `ShutDown`, `Terminate`, `Join`, `Unlink` | `~Robot`, `detachSharedMemory` |
| `Crash`, `CleanUp` | a killed process; `ExecStartPre` and `ExecStopPost` of `Kuavo.service` |
| `Start`, `Open`, `Map`, `LoadMagic`, `LoadLifecycle`, `Validate` | `init` and `reattach` of `mercury_controller` (the same loop) |
| `ReadSensor`, `CheckAge`, `Exit` | its `run`, its end |

`memset` clears the words in any order, and between two loads of the controller
the robot may do any number of steps. Reading the composed data is one step here;
its copy in halves is `DoubleBuffer`. `inherited` is history.

## 4. Runs

| Run | Expect | What it shows |
|---|---|---|
| `leg` | pass | `TypeOK`, `SerialConsistency`, `NoLostMessage` |
| `leg_live` | pass | `EstopStopsMotors`, `MessagesHandled` under fairness |
| `leg_disable_race` | violation | `StaleGroupDisablesLeg` (finding 1) |
| `leg_shutdown` | violation | `ShutdownDisablesMotors` (finding 2) |
| `leg_stale_command` | violation | `StaleCommandDisablesMotors` (finding 3) |
| `driver_station` | pass | `TypeOK`, `ReaderUndisturbed`, `HoldsNewest`, `WordInSync`, `FiresOncePerPress`, `NeverGoesBack`, `ImplementsMailbox` |
| `ds_unplug` | violation | `FiresOncePerPress` with packets that lack a joystick section (finding 4) |
| `log_ring` | pass | `SlotsApart`, `ImplementsQueue` |
| `composer` | pass | `TypeOK`, `ReadsNewest`, `ChangeSeen`, `SilenceNotRefreshed`, `SilentLegReported`, `LiveLegSpared` |
| `telemetry` | pass | `TypeOK`, `EveryBatchOnce`, `OneAttempt`, `WsiNotFreed`, `NoLostWakeup`, `SentInOrder`, `ImplementsChannel`, `BackpressureEnds` |
| `shm_lifecycle` | pass | `TypeOK`, `AttachesToReady`, `LeavesDead`, `Reattaches` |
| `composer_false_stale` | violation | `StaleOnlyAfterTimeout` (finding 5) |

Bounds.
- `leg`: two motors (a loop with a first and a last motor, so that another
  thread's frame can fall between them), thresholds of 0 and 1 ticks (fresh and
  stale are both reachable in one tick), two operator inputs (a mode change and a
  poll with any set of buttons, so that a direct call, a queued ENABLE and a
  queued DISABLE can race), two changes of faults (a fault that appears and
  goes away, or two different ones), two messages in the queue (one can be pushed
  while the other is being handled, and an ENABLE and a DISABLE can wait together; a
  poll that would queue more is cut off). `leg_disable_race` has three.
- `leg_live`: one motor, one fault: a frame can still fall between the other
  thread's last frame and its flag. The liveness graph stays small.
- `driver_station`: five packets move each cache through every role before and
  after the connection. `detached` is among the words, so that the zeroing is
  exercised, although the station always sets `dsAttached`. There is one attached
  word, so the run of `WordInSync` shows mostly that the word is never zeroed; that
  it is the word of the cache being read is `DsWordInSync`, for any set of words.
- `log_ring`: four slots and twelve pushes take both counters three times round.
- `composer`: four publishes can lap one read twice and still leave one for a later
  cycle; four cycles separate a change from two silent cycles; three ticks let noted
  times differ and a check come more than the timeout after a silence was
  noticed. `composer_false_stale` has a timeout of two ticks, so that no single tick
  accounts for the report.
- `telemetry`: one slot in the ring, two messages in the send queue, two samples to
  a batch, two batches to a drain, every second one published: each limit is
  reached by four batches while others are still on their way, and the last batch
  can be a partial one. Delays of one and two ticks let the back-off double and
  reach its maximum; the number of reconnections is not bounded.
- `shm_lifecycle`: two segments and three starts: a crash leaves the first segment
  to the second start, and the name may be removed before the third, so that the
  controller can hold a segment that a robot took over, or one without a name. One
  tick is more than the stale time. The controller's starts, ends and tries are
  not bounded.

`CHECK_DEADLOCK FALSE` is used because the program ends (`mpc = "done"`), the
main thread waits for a first packet that may never come, and the bounds on
packets, pushes, publishes, cycles, batches, starts and inputs end a behaviour.

Fairness (`leg_live`, `leg_stale_command`): weak fairness of the leg thread, of
the main thread and of the clock. Both threads are real-time loops that wait
only for a timeout, and neither waits for the other (before `pthread_join` at
shutdown). Nothing is assumed of the operator, of the controller or of SIGTERM,
which are not in the fair actions; mode changes and polls with a button are
choices inside a fair loop.

Fairness (`telemetry`): the logger and service threads run, an attempt to connect
ends one way or the other, requested writes and acknowledgements come, a broken
connection is closed, time passes. Nothing makes an attempt succeed or a good
connection last, and neither the composer nor the shutdown is fair.
Fairness (`shm_lifecycle`): the controller's loops run and time passes. Nothing
makes the robot start, finish its start-up or compose, and the controller may end
at any time.

What the two liveness properties of `shm_lifecycle` leave out is a weakness of the
code: the controller looks at an age only if `compose_timestamp_ns` is set
(`mercury_controller.cpp:197`). If a robot dies between the store of the magic
number and its first compose, a controller attached to its segment stays there
for ever, also when the name is removed and another robot starts on a new
segment (`Blind`). `doc/installation.md:203` says that the controller also
detects an invalid lifecycle; after it has attached, it never reads it. Likewise
`OneAttempt` leaves out a first connect that libwebsockets refuses without a
callback: then `m_reconnectAt` stays at `time_point::max()`.

## 5. Findings

1. `leg_disable_race`: `setEnable(false)` on the main thread can complete with a
   motor on, because the leg thread's `setEnable(true)` sends its frames in
   between; `m_isEnabled` is false afterwards and later disables do nothing.
2. `leg_shutdown`: the disable frames of `~Legged` are sent after `~Robot` closed
   the sockets; a leg that was never enabled keeps the motors that its
   constructor switched on.
3. `leg_stale_command`: `doc/installation.md:205` promises that motors are
   disabled when the controller stops; `emergency_stop` is set but the leg's test
   of it is compiled out.
4. `ds_unplug`: a packet without a joystick section leaves old button states in
   reused caches, and `rising()` fires without a press.
5. `composer_false_stale`: `check_staleness` reads the clock before it loads the
   time of the last change; a change noted in between makes the age wrap around,
   and the main thread disables a leg that is alive.

`SerialConsistency` and `EstopStopsMotors` are what holds in spite of 1: the
flags are right except from an overlap of the two motor loops until a loop has run
alone, and a lasting controller emergency stop reaches the motors in the end
through the group's staleness. `LiveLegSpared` is what holds in spite of 5: if a leg
whose publish was noted is reported before its timeout, a change noted between the
two reads is the only cause. `SilentLegReported` is the other half: a leg that fell
silent is not missed.

Comment and code disagree on one tick: `Composer.h:77-79` defines the bits as stale
for more than the timeout (`>`), `check_staleness` tests for at least the timeout
(`>=`, `Composer.cpp:263-267`). The models follow the code. No property depends on
the tick: `SilentLegReported` asks for a report only above the timeout, and
`LiveLegSpared` and `StaleOnlyAfterTimeout` allow one from the timeout on.

The logger is stopped before the composer, so the last batches stay in the ring.
Nothing promises to publish them: `EveryBatchOnce` and `LossyChannel` count them as
on their way.

## 6. Proofs

All theorems hold for every value of the constants that satisfies the named
assumptions (`LegAssumption`, `DsAssumption`, `RingAssumption`, `ComposerAssumption`,
`TelemetryAssumption`, `ShmAssumption`: naturals, a positive number of motors,
positive capacities, known words). The
bounds are constants too, so a theorem covers any number of packets, pushes,
inputs and faults.

`LeggedProofs`: `LegTyped`, then `LegSerialConsistency`. Consistency is not
inductive: between the test and the store of `m_isEnabled` the flags and motors
disagree. `SerialInv` therefore says of every loop that runs alone, whatever
happened before it, what holds at its stage (`Stage`): the motors served so far,
the value of the flag the loop is about to change, and the latch. Because `Stage`
asks nothing of the motors the loop has not reached, it holds again for the first
loop that runs alone after an overlap, and its end repairs what the overlap left.
`Shape` says which
thread can be inside a call and that the socket is open until the leg thread has
ended, without which a frame would be lost in the middle of a loop.
`LegNoLostMessage` needs only the types: `NoLostMessage` is inductive by itself, as
each step that resets the eventfd leaves the leg thread in front of the queue.

`DriverStationProofs`: `DsTyped`, `DsReaderUndisturbed`, `DsHoldsNewest`,
`DsWordInSync`, `DsNeverGoesBack` from one invariant. `Apart` says that the
writer's three pointers differ; `Handover` that the reader holds the newest cache
exactly when none is waiting, and otherwise the one the writer remembers in
`currentReadLocal`, which is what makes the peeked and swapped pointers safe. The
initial pointers violate the reader's part, so it is stated from the first
refresh on, and the wait for the first packet (`signalled`) carries it until
then. `DsFiresOncePerPress` assumes that every packet has its joystick section: the
actions run so far, and the rising edges still on their way along the reader's
last poll, its cache, the newest one handed over and the last packet sent, are
together at most the presses (`Counted`). `Numbered` orders the packets of the caches; `WordsAttached` and
`WordPublished` follow the control word through the peek. `DsImplementsMailbox` maps
each step to a step of the mailbox (`MailSteps`): by `Apart` the writer's own stores
touch neither `box` nor `read`; by `Handover` the cache the reader gets is the newest
one; `Numbered` makes the packet handed over the next in number.

`SpscRingProofs`: `RingTyped`, `RingSlotsApart`, `RingImplementsQueue`. `Counters`
bounds the items in flight; two numbers less than `Capacity` apart have different
slots (`SlotsDiffer`), so a copy in never touches a slot between the counters
(`Whole`). The refinement has one lemma for each effect on the content: kept,
appended, removed.

`DoubleBufferProofs`: `BufferReadsNewest`. `Whole` says that the current buffer is
complete and how far the other one is written; `Reading` that a copy not lapped
reads the newest item, or the one before it while no publish is under way.

`ComposerProofs`: every step of the three threads is a step of the double buffer
or leaves it alone (`BufferStep`), so its invariant carries over. `Numbers` orders
sequence numbers against the cycle counter: none is ahead of the cycle under way,
and the one seen last is older. `Seen` follows a fresh number from the newest item
to the buffer being read and to what was read, through any number of laps
(`ComposerSeesChange`); `Silent` says that without a move of the leg the three
agree (`ComposerSeesSilence`). `Times`
says that no time the three threads hold is zero or in the future, so that two of
them are less than `Word` apart, and the unsigned difference is then either exact
(`ModForward`) or wraps to something above any timeout (`ModBackward`); with them
`Verdict` says when `check_staleness` reports in terms of the last change. `Times` also
places the last change: not after `quiet` once the leg is silent, not before `heard`
once the cycle has noted it. From these follow `ComposerReportsSilence` and
`ComposerSparesLive`.

`ComposerTyped` rests on the buffer's own type invariant.

`TelemetryProofs`: `Typed`; `ConnectionKept` and `WsiKept`, where `ConnInv` adds to
`OneAttempt` and `WsiNotFreed` what the callbacks leave in the other connection states;
`InOrder`, where `OrderInv` says that the numbers ascend inside the ring and
inside the send queue, and from what was sent through the queue and the logger's
hand to the ring; `Accounted`, from the same order: because it keeps the places
apart (`PlacesApart`), each action moves one batch from one place to another
(`BatchMove`). `PipelineImplementsChannel` reuses that move: kept, numbered, lost or
sent are the steps of `LossyChannel`, and the order makes the batch sent the oldest
one in transit. `FullQueueServed` proves `NoLostWakeup`, the safety part of
`BackpressureEnds`: it needs `ConnInv`, since a wake-up asks to write only if the
`wsi` of an open connection is stored.

`ShmLifecycleProofs`: `Typed`, in four independent parts; `ReadyWhenAttached`,
where `ReadyInv` follows the robot's stores one by one and what the controller has
loaded so far: a magic number that was seen is there to stay on a segment no
robot found at its start, and so is what was stored before it.

Every invariant and action property of the passing runs is a theorem. Only
model-checked: liveness (`EstopStopsMotors`, `MessagesHandled`,
`BackpressureEnds`, `LeavesDead`, `Reattaches`), which the prover cannot do, and
the violations.

## 7. Not modelled

- IMU reader (left in the plan) and lost UDP frames: in `Legged` a frame that is
  sent while the socket is open arrives.
- The CAN API's pending-reply table, the timers and the arm controllers: no thread
  of the robot program runs that code. The synchronization primitives are used
  once, for the first packet, and modelled by their promise.
- Configuration (one read of a file), the parsing of IMU and motor frames into
  floating-point values, statistics, serialisation and logging: data.
- Undefined behaviour of `std::exit` in the SIGTERM handler on a thread other than
  the main one.
- Test tools and simulators.
- `srSimulator` (with assimp, libpng, clipper, zlib) and `LieGroup`: vendored
  third-party code. They are about 95% of the repository's 342,000 lines of
  implementation; the robot's own code is some 18,500 lines, so that the line map
  covers a small share of the repository as a whole.
