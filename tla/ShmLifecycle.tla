---------------------------- MODULE ShmLifecycle ----------------------------
(***************************************************************************)
(* The life of the shared memory between the robot, which creates, fills   *)
(* and removes the segment, and the Mercury controller, which waits for    *)
(* it, attaches, and attaches again when the composed data has become      *)
(* stale.  Both processes end and start at any time, the robot with or     *)
(* without its destructor: a segment outlives a crash, and it outlives its *)
(* name as long as it is mapped.                                           *)
(*                                                                         *)
(* A segment is an inode; the name leads to one of them or to none.        *)
(***************************************************************************)
EXTENDS Naturals

CONSTANTS
  MaxSegments,  \* bound: segments ever created
  MaxBoots,     \* bound: starts of the robot
  StaleAge      \* HEARTBEAT_STALE_NS, in ticks

ASSUME ShmAssumption ==
  MaxSegments \in Nat \ {0} /\ MaxBoots \in Nat \ {0} /\ StaleAge \in Nat

Segments == 1 .. MaxSegments
None == 0

VARIABLES
  name,       \* the segment SHM_NAME leads to
  seg,        \* the segments' contents
  segments,   \* how many were created
  boots,      \* how often the robot was started
  rpc, rseg,  \* the robot: its place, its m_shm
  composing,  \* its composer thread runs
  cpc, cseg,  \* the controller: its place, its candidate or layout_
  magic, running,  \* what it has read of the candidate
  sensor,     \* its copy of the composed data
  inherited   \* history: the segments a robot found when it started

robotVars == <<name, segments, boots, rpc, rseg, composing, inherited>>
controllerVars == <<cpc, cseg, magic, running, sensor>>
vars == <<robotVars, seg, controllerVars>>

Lifecycles == {"uninitialized", "running", "shutting down", "terminated"}
Ages == 0 .. StaleAge + 1   \* saturated: the last one is stale

\* What is kept of the composed data: whether compose_timestamp_ns is set, and its age.
Snapshots == [composed : BOOLEAN, age : Ages]
Nothing == [composed |-> FALSE, age |-> 0]

\* size: ftruncate was done; fields: what is initialised after the version.
Contents == [size : BOOLEAN, version : BOOLEAN, fields : BOOLEAN, life : Lifecycles,
             magic : BOOLEAN, data : Snapshots]
Empty == [size |-> FALSE, version |-> FALSE, fields |-> FALSE, life |-> "uninitialized",
          magic |-> FALSE, data |-> Nothing]
Zeroed == [Empty EXCEPT !.size = TRUE]

Attached == cpc \in {"read", "check"}

FlagsOK == composing \in BOOLEAN /\ magic \in BOOLEAN /\ running \in BOOLEAN

RobotOK ==
  /\ name \in Segments \cup {None} /\ name <= segments
  /\ segments \in 0 .. MaxSegments /\ boots \in 0 .. MaxBoots
  /\ rpc \in {"off", "open", "clear", "version", "fields", "running", "magic", "up",
              "stopping", "terminated", "joined"}
  /\ rseg \in Segments \cup {None} /\ rseg <= segments /\ (rpc = "off" <=> rseg = None)
  /\ inherited \subseteq 1 .. segments

ControllerOK ==
  /\ cpc \in {"off", "wait", "opened", "mapped", "lifecycle", "version", "read", "check"}
  /\ cseg \in Segments \cup {None} /\ cseg <= segments
  /\ cpc \in {"off", "wait"} <=> cseg = None

ContentsOK == seg \in [Segments -> Contents] /\ sensor \in Snapshots

TypeOK == FlagsOK /\ RobotOK /\ ControllerOK /\ ContentsOK

Init ==
  /\ name = None /\ seg = [s \in Segments |-> Empty] /\ segments = 0 /\ boots = 0
  /\ rpc = "off" /\ rseg = None /\ composing = FALSE /\ inherited = {}
  /\ cpc = "off" /\ cseg = None /\ magic = FALSE /\ running = FALSE /\ sensor = Nothing

-----------------------------------------------------------------------------
(* The robot.                                                              *)

\* shm_open with O_CREAT, at the start of robotInit: the segment the name leads to, if
\* there is one, else a new one.
Create ==
  /\ rpc = "off" /\ boots < MaxBoots
  /\ boots' = boots + 1
  /\ rpc' = "open"
  /\ \/ /\ name # None
        /\ rseg' = name /\ inherited' = inherited \cup {name}
        /\ UNCHANGED <<name, segments>>
     \/ /\ name = None /\ segments < MaxSegments
        /\ segments' = segments + 1 /\ name' = segments' /\ rseg' = segments'
        /\ UNCHANGED inherited
  /\ UNCHANGED <<seg, composing, controllerVars>>

\* ftruncate and mmap.
Truncate ==
  /\ rpc = "open"
  /\ rpc' = "clear"
  /\ seg' = [seg EXCEPT ![rseg].size = TRUE]
  /\ UNCHANGED <<name, segments, boots, rseg, composing, inherited, controllerVars>>

\* memset, which the controller sees clear the words in any order.
Clear ==
  /\ rpc = "clear"
  /\ \/ /\ seg[rseg] # Zeroed
        /\ \E f \in {"version", "fields", "life", "magic", "data"} :
             seg[rseg][f] # Empty[f] /\ seg' = [seg EXCEPT ![rseg][f] = Empty[f]]
        /\ UNCHANGED rpc
     \/ seg[rseg] = Zeroed /\ rpc' = "version" /\ UNCHANGED seg
  /\ UNCHANGED <<name, segments, boots, rseg, composing, inherited, controllerVars>>

\* Mutant of Initialise: the other fields are filled in at the end.
InitialiseFieldsLast ==
  /\ \/ rpc = "version" /\ rpc' = "running" /\ seg' = [seg EXCEPT ![rseg].version = TRUE]
     \/ rpc = "running" /\ rpc' = "magic" /\ seg' = [seg EXCEPT ![rseg].life = "running"]
     \/ rpc = "magic" /\ rpc' = "fields" /\ seg' = [seg EXCEPT ![rseg].magic = TRUE]
     \/ rpc = "fields" /\ rpc' = "up" /\ seg' = [seg EXCEPT ![rseg].fields = TRUE]
  /\ UNCHANGED <<name, segments, boots, rseg, composing, inherited, controllerVars>>

\* The fields, then the lifecycle, then the magic number.
Initialise ==
  /\ \/ rpc = "version" /\ rpc' = "fields" /\ seg' = [seg EXCEPT ![rseg].version = TRUE]
     \/ rpc = "fields" /\ rpc' = "running" /\ seg' = [seg EXCEPT ![rseg].fields = TRUE]
     \/ rpc = "running" /\ rpc' = "magic" /\ seg' = [seg EXCEPT ![rseg].life = "running"]
     \/ rpc = "magic" /\ rpc' = "up" /\ seg' = [seg EXCEPT ![rseg].magic = TRUE]
  /\ UNCHANGED <<name, segments, boots, rseg, composing, inherited, controllerVars>>

\* attachSharedMemory starts the composer.
StartComposer ==
  /\ rpc = "up" /\ ~composing
  /\ composing' = TRUE
  /\ UNCHANGED <<name, segments, boots, rpc, rseg, inherited, seg, controllerVars>>

\* compose_cycle, which goes on while the destructor runs.
Compose ==
  /\ composing
  /\ seg' = [seg EXCEPT ![rseg].data = [composed |-> TRUE, age |-> 0]]
  /\ UNCHANGED <<robotVars, controllerVars>>

\* SIGTERM, at any time: exit runs ~Robot, which does nothing to a segment that is not
\* mapped yet.
ShutDown ==
  /\ rpc \in {"clear", "version", "fields", "running", "magic", "up"}
  /\ rpc' = "stopping"
  /\ seg' = [seg EXCEPT ![rseg].life = "shutting down"]
  /\ UNCHANGED <<name, segments, boots, rseg, composing, inherited, controllerVars>>

Terminate ==
  /\ rpc = "stopping"
  /\ rpc' = "terminated"
  /\ seg' = [seg EXCEPT ![rseg].life = "terminated"]
  /\ UNCHANGED <<name, segments, boots, rseg, composing, inherited, controllerVars>>

\* detachSharedMemory: the composer is joined ...
Join ==
  /\ rpc = "terminated"
  /\ rpc' = "joined"
  /\ composing' = FALSE
  /\ UNCHANGED <<name, segments, boots, rseg, inherited, seg, controllerVars>>

\* ... and the segment unmapped and unlinked.
Unlink ==
  /\ rpc = "joined"
  /\ rpc' = "off" /\ rseg' = None
  /\ name' = None
  /\ UNCHANGED <<segments, boots, composing, inherited, seg, controllerVars>>

\* The process ends without its destructor, or before it has mapped the segment.
Crash ==
  /\ rpc # "off"
  /\ rpc' = "off" /\ rseg' = None /\ composing' = FALSE
  /\ UNCHANGED <<name, segments, boots, inherited, seg, controllerVars>>

\* The service file's removal of a segment that was left, before a start and after a stop.
\* A robot started by hand has none.
CleanUp ==
  /\ rpc = "off" /\ name # None
  /\ name' = None
  /\ UNCHANGED <<segments, boots, rpc, rseg, composing, inherited, seg, controllerVars>>

RobotStep ==
  \/ Create \/ Truncate \/ Clear \/ Initialise \/ StartComposer \/ Compose
  \/ ShutDown \/ Terminate \/ Join \/ Unlink \/ Crash \/ CleanUp

-----------------------------------------------------------------------------
(* The controller.                                                         *)

\* main, and init's loop.
Start ==
  /\ cpc = "off"
  /\ cpc' = "wait"
  /\ UNCHANGED <<robotVars, seg, cseg, magic, running, sensor>>

\* The end of the process, wherever it is.
Exit ==
  /\ cpc # "off"
  /\ cpc' = "off" /\ cseg' = None /\ magic' = FALSE /\ running' = FALSE /\ sensor' = Nothing
  /\ UNCHANGED <<robotVars, seg>>

\* init and reattach: shm_open; without the name, another try.
Open ==
  /\ cpc = "wait" /\ name # None
  /\ cpc' = "opened" /\ cseg' = name
  /\ UNCHANGED <<robotVars, seg, magic, running, sensor>>

\* fstat and mmap; a segment that is too small is closed.
Map ==
  /\ cpc = "opened"
  /\ \/ seg[cseg].size /\ cpc' = "mapped" /\ UNCHANGED cseg
     \/ ~seg[cseg].size /\ cpc' = "wait" /\ cseg' = None
  /\ UNCHANGED <<robotVars, seg, magic, running, sensor>>

LoadMagic ==
  /\ cpc = "mapped"
  /\ cpc' = "lifecycle"
  /\ magic' = seg[cseg].magic
  /\ UNCHANGED <<robotVars, seg, cseg, running, sensor>>

LoadLifecycle ==
  /\ cpc = "lifecycle"
  /\ cpc' = "version"
  /\ running' = (seg[cseg].life = "running")
  /\ UNCHANGED <<robotVars, seg, cseg, magic, sensor>>

\* Mutant of Validate: a segment that is not ready stays mapped and is looked at again.
ValidateSame ==
  /\ cpc = "version"
  /\ \/ magic /\ running /\ seg[cseg].version /\ cpc' = "read" /\ UNCHANGED cseg
     \/ ~(magic /\ running /\ seg[cseg].version) /\ cpc' = "mapped" /\ UNCHANGED cseg
  /\ magic' = FALSE /\ running' = FALSE
  /\ UNCHANGED <<robotVars, seg, sensor>>

\* Mutant of Validate: a segment that is not ready is not unmapped.
ValidateLeaks ==
  /\ cpc = "version"
  /\ cpc' = IF magic /\ running /\ seg[cseg].version THEN "read" ELSE "wait"
  /\ magic' = FALSE /\ running' = FALSE
  /\ UNCHANGED <<robotVars, seg, cseg, sensor>>

\* The version is read, and the segment taken if everything is as it should be;
\* otherwise it is unmapped and the next try begins with the name.
Validate ==
  /\ cpc = "version"
  /\ \/ magic /\ running /\ seg[cseg].version /\ cpc' = "read" /\ UNCHANGED cseg
     \/ ~(magic /\ running /\ seg[cseg].version) /\ cpc' = "wait" /\ cseg' = None
  /\ magic' = FALSE /\ running' = FALSE
  /\ UNCHANGED <<robotVars, seg, sensor>>

\* The cycle of run: a command is written into the segment (Legged has its part in the
\* robot), and the composed data is copied ...
ReadSensor ==
  /\ cpc = "read"
  /\ cpc' = "check"
  /\ sensor' = seg[cseg].data
  /\ UNCHANGED <<robotVars, seg, cseg, magic, running>>

\* Mutant of CheckAge: the segment is left only when its robot says that it stops.
CheckAgeTrustsLifecycle ==
  /\ cpc = "check"
  /\ \/ /\ seg[cseg].life # "running"
        /\ cpc' = "wait" /\ cseg' = None
     \/ seg[cseg].life = "running" /\ cpc' = "read" /\ UNCHANGED cseg
  /\ sensor' = Nothing
  /\ UNCHANGED <<robotVars, seg, magic, running>>

\* ... and its age is looked at, if it was ever composed: stale data is left for reattach.
CheckAge ==
  /\ cpc = "check"
  /\ \/ /\ sensor.composed /\ sensor.age > StaleAge
        /\ cpc' = "wait" /\ cseg' = None
     \/ ~(sensor.composed /\ sensor.age > StaleAge) /\ cpc' = "read" /\ UNCHANGED cseg
  /\ sensor' = Nothing
  /\ UNCHANGED <<robotVars, seg, magic, running>>

ControllerStep ==
  \/ Start \/ Open \/ Map \/ LoadMagic \/ LoadLifecycle \/ Validate
  \/ ReadSensor \/ CheckAge

-----------------------------------------------------------------------------
Older(d) == [d EXCEPT !.age = IF d.composed /\ d.age <= StaleAge THEN d.age + 1 ELSE d.age]

\* CLOCK_MONOTONIC, the same for both processes.
Tick ==
  /\ seg' = [s \in Segments |-> [seg[s] EXCEPT !.data = Older(seg[s].data)]]
  /\ sensor' = Older(sensor)
  /\ UNCHANGED <<robotVars, cpc, cseg, magic, running>>

Next == RobotStep \/ ControllerStep \/ Exit \/ Tick

\* The controller's loops run and time passes.  Nothing makes the robot start, finish
\* starting or compose.
Fairness == WF_vars(ControllerStep) /\ WF_vars(Tick)

Spec == Init /\ [][Next]_vars /\ Fairness

-----------------------------------------------------------------------------
\* A robot is at work on segment s.
Owned(s) == rpc # "off" /\ rseg = s

\* The controller never works on a half initialised segment: whatever the two processes
\* did in between, on a segment that no crashed robot left behind everything robotInit
\* fills in is there.  (One that was left behind still has its magic number while the
\* next robot clears it.)
AttachesToReady ==
  Attached /\ cseg \notin inherited =>
    seg[cseg].version /\ seg[cseg].fields /\ seg[cseg].magic

\* The controller leaves a segment whose robot has crashed or ended, unless another robot
\* takes the segment over, or it was never composed: then no age is looked at.
LeavesDead ==
  \A s \in Segments :
    (Attached /\ cseg = s /\ ~Owned(s) /\ seg[s].data.composed)
      ~> (~(Attached /\ cseg = s) \/ Owned(s))

\* Attached to a segment that was never composed and that nobody will compose.
Blind == Attached /\ ~seg[cseg].data.composed /\ ~Owned(cseg)

\* A robot that has started gets its controller: however it found the segment, and
\* whichever segment the controller was holding when it started, the controller comes to
\* work on the robot's segment, unless one of them ends first or the controller is blind.
Reattaches ==
  rpc = "up" ~> ((Attached /\ cseg = rseg) \/ rpc # "up" \/ cpc = "off" \/ Blind)
=============================================================================
