------------------------- MODULE ShmLifecycleProofs -------------------------
(***************************************************************************)
(* Proofs about ShmLifecycle: the types, and that the controller never     *)
(* works on a half initialised segment, for any number of segments, of     *)
(* starts and any stale time.                                              *)
(***************************************************************************)
EXTENDS ShmLifecycle, TLAPS

\* An edit of one field keeps the contents well formed.
LEMMA FlagEdit ==
  ASSUME NEW c \in Contents, NEW b \in BOOLEAN
  PROVE  /\ [c EXCEPT !.size = b] \in Contents
         /\ [c EXCEPT !.version = b] \in Contents
         /\ [c EXCEPT !.fields = b] \in Contents
         /\ [c EXCEPT !.magic = b] \in Contents
  BY DEF Contents

LEMMA LifeEdit ==
  ASSUME NEW c \in Contents, NEW l \in Lifecycles
  PROVE  [c EXCEPT !.life = l] \in Contents
  BY DEF Contents

LEMMA DataEdit ==
  ASSUME NEW c \in Contents, NEW d \in Snapshots
  PROVE  [c EXCEPT !.data = d] \in Contents
  BY DEF Contents

\* The empty contents are well formed, and data stays so when it ages.
LEMMA EmptyContents == Nothing \in Snapshots /\ Empty \in Contents
  BY ShmAssumption DEF Nothing, Snapshots, Ages, Empty, Contents, Lifecycles

LEMMA OlderData ==
  ASSUME NEW d \in Snapshots
  PROVE  Older(d) \in Snapshots
  BY ShmAssumption DEF Snapshots, Ages, Older

LEMMA FreshData == [composed |-> TRUE, age |-> 0] \in Snapshots
  BY ShmAssumption DEF Snapshots, Ages

-----------------------------------------------------------------------------
(* Types.                                                                  *)

LEMMA TypeInit == Init => TypeOK
<1> SUFFICES ASSUME Init PROVE TypeOK
  OBVIOUS
<1>1. FlagsOK
  BY DEF Init, FlagsOK
<1>2. RobotOK
  BY ShmAssumption DEF Init, RobotOK, Segments, None
<1>3. ControllerOK
  BY ShmAssumption DEF Init, ControllerOK, Segments, None
<1>4. ContentsOK
  BY EmptyContents DEF Init, ContentsOK
<1> QED
  BY <1>1, <1>2, <1>3, <1>4 DEF TypeOK

LEMMA FlagsStep ==
  ASSUME TypeOK, [Next]_vars
  PROVE  FlagsOK'
<1> USE DEF TypeOK, FlagsOK, robotVars, controllerVars
<1>1. CASE RobotStep
  BY <1>1 DEF RobotStep, Create, Truncate, Clear, Initialise, StartComposer, Compose, ShutDown,
     Terminate, Join, Unlink, Crash, CleanUp
<1>2. CASE LoadMagic
  <2>1. seg[cseg].magic \in BOOLEAN
    <3>1. cseg \in Segments
      BY <1>2 DEF LoadMagic, ControllerOK
    <3> QED
      BY <3>1 DEF ContentsOK, Contents
  <2> QED
    BY <1>2, <2>1 DEF LoadMagic
<1>3. CASE Start \/ Exit \/ Open \/ Map \/ LoadLifecycle \/ Validate \/ ReadSensor \/ CheckAge
           \/ Tick
  BY <1>3 DEF Start, Exit, Open, Map, LoadLifecycle, Validate, ReadSensor, CheckAge, Tick
<1>4. CASE UNCHANGED vars
  BY <1>4 DEF vars
<1> QED
  BY <1>1, <1>2, <1>3, <1>4 DEF Next, ControllerStep

LEMMA RobotTypeStep ==
  ASSUME RobotOK, [Next]_vars
  PROVE  RobotOK' /\ segments <= segments' /\ segments \in Nat /\ segments' \in Nat
<1> USE DEF RobotOK
<1>0. ASSUME UNCHANGED <<name, segments, boots, rpc, rseg, inherited>>
      PROVE  RobotOK' /\ segments <= segments' /\ segments \in Nat /\ segments' \in Nat
  BY <1>0
<1>1. CASE Create
  <2>1. CASE name # None /\ rseg' = name /\ inherited' = inherited \cup {name}
               /\ UNCHANGED <<name, segments>>
    BY <1>1, <2>1, ShmAssumption DEF Create, Segments, None
  <2>2. CASE /\ name = None /\ segments < MaxSegments /\ UNCHANGED inherited
             /\ segments' = segments + 1 /\ name' = segments' /\ rseg' = segments'
    BY <1>1, <2>2, ShmAssumption DEF Create, Segments, None
  <2> QED
    BY <1>1, <2>1, <2>2 DEF Create
<1>2. CASE Truncate \/ Clear \/ Initialise \/ ShutDown \/ Terminate \/ Join
  <2>1. /\ rpc # "off" /\ UNCHANGED <<name, segments, boots, rseg, inherited>>
        /\ rpc' \in {"clear", "version", "fields", "running", "magic", "up", "stopping",
                     "terminated", "joined"}
    BY <1>2 DEF Truncate, Clear, Initialise, ShutDown, Terminate, Join
  <2> QED
    BY <2>1
<1>3. CASE Unlink \/ Crash \/ CleanUp
  <2>1. /\ UNCHANGED <<segments, boots, inherited>> /\ name' \in {name, None}
        /\ rpc' = "off" /\ rseg' = None
    BY <1>3 DEF Unlink, Crash, CleanUp
  <2> QED
    BY <2>1 DEF None
<1>4. CASE StartComposer \/ Compose \/ ControllerStep \/ Exit \/ Tick
  BY <1>0, <1>4 DEF StartComposer, Compose, ControllerStep, Start, Exit, Open, Map, LoadMagic,
     LoadLifecycle, Validate, ReadSensor, CheckAge, Tick, robotVars
<1>5. CASE UNCHANGED vars
  BY <1>0, <1>5 DEF vars, robotVars
<1> QED
  BY <1>1, <1>2, <1>3, <1>4, <1>5 DEF Next, RobotStep

LEMMA ControllerTypeStep ==
  ASSUME RobotOK, ControllerOK, [Next]_vars
  PROVE  ControllerOK'
<1> USE DEF ControllerOK
<1>1. segments <= segments' /\ segments \in Nat /\ segments' \in Nat
  BY RobotTypeStep
<1>2. ASSUME UNCHANGED <<cpc, cseg>>
      PROVE  ControllerOK'
  BY <1>1, <1>2 DEF Segments, None
<1>3. CASE Start \/ LoadMagic \/ LoadLifecycle \/ ReadSensor
  BY <1>3 DEF Start, LoadMagic, LoadLifecycle, ReadSensor, robotVars
<1>4. CASE Open
  BY <1>4 DEF Open, robotVars, RobotOK
<1>5. CASE cpc' \in {"off", "wait"} /\ cseg' = None
  BY <1>1, <1>5 DEF None
<1>6. CASE Map \/ Validate \/ CheckAge \/ Exit
  BY <1>5, <1>6 DEF Map, Validate, CheckAge, Exit, robotVars
<1>7. CASE RobotStep \/ Tick \/ UNCHANGED vars
  BY <1>2, <1>7 DEF RobotStep, vars, Create, Truncate, Clear, Initialise, StartComposer, Compose,
     ShutDown, Terminate, Join, Unlink, Crash, CleanUp, Tick, controllerVars
<1> QED
  BY <1>3, <1>4, <1>6, <1>7 DEF Next, ControllerStep

\* An edit of the robot's segment keeps the contents well formed.
LEMMA SegmentEdit ==
  ASSUME NEW f \in [Segments -> Contents], NEW r, NEW c, r \in Segments => c \in Contents
  PROVE  [f EXCEPT ![r] = c] \in [Segments -> Contents]
  OBVIOUS

\* Every step keeps the contents and the controller's copy well formed.
LEMMA ContentsStep ==
  ASSUME TypeOK, [Next]_vars
  PROVE  ContentsOK'
<1>1. /\ seg \in [Segments -> Contents] /\ sensor \in Snapshots
      /\ rseg \in Segments \cup {None} /\ cseg \in Segments \cup {None}
      /\ \A s \in Segments : seg[s] \in Contents
  BY DEF TypeOK, ContentsOK, RobotOK, ControllerOK
<1>2. ASSUME UNCHANGED controllerVars, NEW c, rseg \in Segments => c \in Contents,
             seg' = [seg EXCEPT ![rseg] = c]
      PROVE  ContentsOK'
  BY <1>1, <1>2, SegmentEdit DEF ContentsOK, controllerVars
<1>3. CASE Truncate
  <2>1. rseg \in Segments => [seg[rseg] EXCEPT !.size = TRUE] \in Contents
    BY <1>1, FlagEdit
  <2> QED
    BY <1>2, <1>3, <2>1 DEF Truncate
<1>4. CASE Clear
  <2>1. CASE UNCHANGED seg
    BY <1>1, <1>4, <2>1 DEF Clear, controllerVars, ContentsOK
  <2>2. ASSUME NEW f \in {"version", "fields", "life", "magic", "data"},
               seg' = [seg EXCEPT ![rseg][f] = Empty[f]]
        PROVE  ContentsOK'
    <3>1. rseg \in Segments => [seg[rseg] EXCEPT ![f] = Empty[f]] \in Contents
      <4>1. CASE f = "data"
        BY <1>1, <4>1, EmptyContents DEF Contents, Empty
      <4>2. CASE f = "life"
        BY <1>1, <4>2 DEF Contents, Empty, Lifecycles
      <4>3. CASE f \in {"version", "fields", "magic"}
        <5>1. Empty[f] = FALSE
          BY <4>3 DEF Empty
        <5> QED
          BY <1>1, <4>3, <5>1, FlagEdit
      <4> QED
        BY <4>1, <4>2, <4>3
    <3>2. seg' = [seg EXCEPT ![rseg] = [seg[rseg] EXCEPT ![f] = Empty[f]]]
      BY <2>2
    <3> QED
      BY <1>2, <1>4, <3>1, <3>2 DEF Clear
  <2> QED
    BY <1>4, <2>1, <2>2 DEF Clear
<1>5. CASE Initialise
  <2>1. PICK c : seg' = [seg EXCEPT ![rseg] = c] /\ (rseg \in Segments => c \in Contents)
    BY <1>1, <1>5, FlagEdit, LifeEdit DEF Initialise, Lifecycles
  <2> QED
    BY <1>2, <1>5, <2>1 DEF Initialise
<1>6. CASE Compose
  <2>1. rseg \in Segments =>
          [seg[rseg] EXCEPT !.data = [composed |-> TRUE, age |-> 0]] \in Contents
    BY <1>1, DataEdit, FreshData
  <2> QED
    BY <1>2, <1>6, <2>1 DEF Compose
<1>7. CASE ShutDown \/ Terminate
  <2>1. PICK c : seg' = [seg EXCEPT ![rseg] = c] /\ (rseg \in Segments => c \in Contents)
    BY <1>1, <1>7, LifeEdit DEF ShutDown, Terminate, Lifecycles
  <2> QED
    BY <1>2, <1>7, <2>1 DEF ShutDown, Terminate
<1>8. CASE Tick
  <2>1. sensor' \in Snapshots
    BY <1>1, <1>8, OlderData DEF Tick
  <2>2. \A s \in Segments : [seg[s] EXCEPT !.data = Older(seg[s].data)] \in Contents
    <3>1. \A s \in Segments : seg[s].data \in Snapshots
      BY <1>1 DEF Contents
    <3> QED
      BY <1>1, <3>1, OlderData, DataEdit
  <2> QED
    BY <1>8, <2>1, <2>2 DEF Tick, ContentsOK
<1>9. CASE ReadSensor
  <2>1. cseg \in Segments
    BY <1>9 DEF ReadSensor, TypeOK, ControllerOK
  <2> QED
    BY <1>1, <1>9, <2>1 DEF ReadSensor, ContentsOK, Contents
<1>10. CASE Exit \/ CheckAge
  BY <1>1, <1>10, EmptyContents DEF Exit, CheckAge, ContentsOK
<1>11. CASE \/ Create \/ StartComposer \/ Join \/ Unlink \/ Crash \/ CleanUp
            \/ Start \/ Open \/ Map \/ LoadMagic \/ LoadLifecycle \/ Validate
            \/ UNCHANGED vars
  BY <1>1, <1>11 DEF Create, StartComposer, Join, Unlink, Crash, CleanUp, Start, Open, Map,
     LoadMagic, LoadLifecycle, Validate, vars, controllerVars, ContentsOK
<1> QED
  BY <1>3, <1>4, <1>5, <1>6, <1>7, <1>8, <1>9, <1>10, <1>11 DEF Next, RobotStep, ControllerStep

\* Every variable stays in its range, whatever the numbers of segments and starts.
THEOREM Typed == Spec => []TypeOK
<1>1. TypeOK /\ [Next]_vars => TypeOK'
  BY FlagsStep, RobotTypeStep, ControllerTypeStep, ContentsStep DEF TypeOK
<1> QED
  BY <1>1, TypeInit, PTL DEF Spec

-----------------------------------------------------------------------------
(* The controller works on initialised segments only.                      *)

\* The segments with a magic number, with a version, with everything else.
Magic   == {s \in Segments : seg[s].magic}
Version == {s \in Segments : seg[s].version}
Fields  == {s \in Segments : seg[s].fields}

Preparing == {"open", "clear", "version", "fields", "running", "magic"}

\* The magic number comes last: it is on no segment beyond those created, nor on one that
\* is being prepared, unless it was left there by a crash; what the controller has seen
\* of it lasts, with the same exception.
ReadyInv ==
  /\ Magic \subseteq 1 .. segments
  /\ Magic \ inherited \subseteq Version \cap Fields
  /\ rpc \in {"fields", "running", "magic"} => rseg \in Version
  /\ rpc \in {"running", "magic"} => rseg \in Fields
  /\ rpc \in Preparing /\ rseg \notin inherited => rseg \notin Magic
  /\ (cpc \in {"lifecycle", "version"} /\ magic) \/ Attached => cseg \in Magic \cup inherited

\* Only clearing and filling in change what is initialised.
LEMMA InitialisedKept ==
  ASSUME TypeOK, [Next]_vars, ~Clear, ~Initialise
  PROVE  UNCHANGED <<Magic, Version, Fields>>
<1>1. /\ seg \in [Segments -> Contents] /\ \A s \in Segments : seg[s] \in Contents
      /\ rseg \in Segments \cup {None}
  BY DEF TypeOK, ContentsOK, RobotOK
<1>2. ASSUME \A s \in Segments : /\ seg'[s].magic = seg[s].magic
                                 /\ seg'[s].version = seg[s].version
                                 /\ seg'[s].fields = seg[s].fields
      PROVE  UNCHANGED <<Magic, Version, Fields>>
  BY <1>2 DEF Magic, Version, Fields
<1>3. CASE Truncate \/ Compose
  BY <1>1, <1>2, <1>3 DEF Truncate, Compose, Contents
<1>4. CASE ShutDown \/ Terminate
  <2>1. PICK l : seg' = [seg EXCEPT ![rseg].life = l]
    BY <1>4 DEF ShutDown, Terminate
  <2> QED
    BY <1>1, <1>2, <2>1 DEF Contents
<1>5. CASE Tick
  BY <1>1, <1>2, <1>5 DEF Tick, Contents
<1>6. CASE UNCHANGED seg
  BY <1>6 DEF Magic, Version, Fields
<1> QED
  BY <1>3, <1>4, <1>5, <1>6 DEF Next, RobotStep, ControllerStep, Create, StartComposer, Join,
     Unlink, Crash, CleanUp, Start, Exit, Open, Map, LoadMagic, LoadLifecycle, Validate,
     ReadSensor, CheckAge, vars

\* Clearing removes, filling in adds, on the robot's segment only.
LEMMA Cleared ==
  ASSUME TypeOK, Clear
  PROVE  /\ Magic' \in {Magic, Magic \ {rseg}}
         /\ Version' \in {Version, Version \ {rseg}}
         /\ Fields' \in {Fields, Fields \ {rseg}}
<1>1. seg \in [Segments -> Contents] /\ rseg \in Segments
  BY DEF TypeOK, ContentsOK, RobotOK, Clear
<1>2. CASE UNCHANGED seg
  BY <1>2 DEF Magic, Version, Fields
<1>3. ASSUME NEW f \in {"version", "fields", "life", "magic", "data"},
             seg' = [seg EXCEPT ![rseg][f] = Empty[f]]
      PROVE  /\ Magic' \in {Magic, Magic \ {rseg}}
             /\ Version' \in {Version, Version \ {rseg}}
             /\ Fields' \in {Fields, Fields \ {rseg}}
  <2>1. \A s \in Segments : s # rseg => seg'[s] = seg[s]
    BY <1>1, <1>3
  <2>2. seg'[rseg].magic = seg[rseg].magic \/ ~seg'[rseg].magic
    BY <1>1, <1>3 DEF Contents, Empty
  <2>3. seg'[rseg].version = seg[rseg].version \/ ~seg'[rseg].version
    BY <1>1, <1>3 DEF Contents, Empty
  <2>4. seg'[rseg].fields = seg[rseg].fields \/ ~seg'[rseg].fields
    BY <1>1, <1>3 DEF Contents, Empty
  <2>5. Magic' = Magic \/ Magic' = Magic \ {rseg}
    BY <2>1, <2>2 DEF Magic
  <2>6. Version' = Version \/ Version' = Version \ {rseg}
    BY <2>1, <2>3 DEF Version
  <2>7. Fields' = Fields \/ Fields' = Fields \ {rseg}
    BY <2>1, <2>4 DEF Fields
  <2> QED
    BY <2>5, <2>6, <2>7
<1> QED
  BY <1>2, <1>3 DEF Clear

LEMMA FilledIn ==
  ASSUME TypeOK, Initialise
  PROVE  /\ rseg \in Segments
         /\ \/ rpc = "version" /\ rpc' = "fields" /\ Version' = Version \cup {rseg}
               /\ UNCHANGED <<Magic, Fields>>
            \/ rpc = "fields" /\ rpc' = "running" /\ Fields' = Fields \cup {rseg}
               /\ UNCHANGED <<Magic, Version>>
            \/ rpc = "running" /\ rpc' = "magic" /\ UNCHANGED <<Magic, Version, Fields>>
            \/ rpc = "magic" /\ rpc' = "up" /\ Magic' = Magic \cup {rseg}
               /\ UNCHANGED <<Version, Fields>>
<1>1. seg \in [Segments -> Contents] /\ rseg \in Segments
  BY DEF TypeOK, ContentsOK, RobotOK, Initialise
<1> USE DEF Contents, Magic, Version, Fields
<1>2. CASE rpc = "version" /\ rpc' = "fields" /\ seg' = [seg EXCEPT ![rseg].version = TRUE]
  BY <1>1, <1>2
<1>3. CASE rpc = "fields" /\ rpc' = "running" /\ seg' = [seg EXCEPT ![rseg].fields = TRUE]
  BY <1>1, <1>3
<1>4. CASE rpc = "running" /\ rpc' = "magic" /\ seg' = [seg EXCEPT ![rseg].life = "running"]
  BY <1>1, <1>4
<1>5. CASE rpc = "magic" /\ rpc' = "up" /\ seg' = [seg EXCEPT ![rseg].magic = TRUE]
  BY <1>1, <1>5
<1> QED
  BY <1>1, <1>2, <1>3, <1>4, <1>5 DEF Initialise

\* Every step keeps the magic number last.
LEMMA ReadyStep ==
  ASSUME TypeOK, TypeOK', ReadyInv, [Next]_vars
  PROVE  ReadyInv'
<1>1. CASE Clear
  <2>1. /\ UNCHANGED <<name, segments, boots, rseg, inherited, cpc, cseg, magic>>
        /\ rpc = "clear" /\ rpc' \in {"clear", "version"}
    BY <1>1 DEF Clear, controllerVars
  <2>2. /\ Magic' \subseteq Magic /\ Magic \ {rseg} \subseteq Magic'
        /\ Version \ {rseg} \subseteq Version' /\ Fields \ {rseg} \subseteq Fields'
    BY <1>1, Cleared
  <2>3. rseg \in inherited \/ rseg \notin Magic
    BY <2>1 DEF ReadyInv, Preparing
  <2> QED
    BY <2>1, <2>2, <2>3 DEF ReadyInv, Attached, Preparing
<1>2. CASE Initialise
  <2>1. /\ UNCHANGED <<name, segments, boots, rseg, inherited, cpc, cseg, magic>>
        /\ rseg \in Segments /\ rseg <= segments
    BY <1>2, FilledIn DEF Initialise, controllerVars, TypeOK, RobotOK
  <2>2. rseg \in 1 .. segments
    BY <2>1 DEF TypeOK, RobotOK, Segments
  <2> HIDE DEF TypeOK
  <2> QED
    BY <1>2, <2>1, <2>2, FilledIn DEF ReadyInv, Attached, Preparing
<1>3. CASE ~Clear /\ ~Initialise
  <2>1. UNCHANGED <<Magic, Version, Fields>>
    BY <1>3, InitialisedKept
  <2>2. CASE Create
    <3>1. UNCHANGED <<cpc, cseg, magic>> /\ rpc' = "open"
      BY <2>2 DEF Create, controllerVars
    <3>2. CASE name # None /\ rseg' = name /\ inherited' = inherited \cup {name}
               /\ UNCHANGED <<name, segments>>
      BY <2>1, <3>1, <3>2 DEF ReadyInv, Attached, Preparing
    <3>3. CASE segments' = segments + 1 /\ rseg' = segments' /\ UNCHANGED inherited
      <4>1. segments \in Nat
        BY DEF TypeOK, RobotOK
      <4>2. 1 .. segments \subseteq 1 .. segments' /\ rseg' \notin 1 .. segments
        BY <3>3, <4>1
      <4> QED
        BY <2>1, <3>1, <3>3, <4>2 DEF ReadyInv, Attached, Preparing
    <3> QED
      BY <2>2, <3>2, <3>3 DEF Create
  <2>3. CASE Truncate \/ StartComposer \/ Compose \/ ShutDown \/ Terminate \/ Join \/ Unlink
             \/ Crash \/ CleanUp
    <3>1. UNCHANGED <<segments, inherited, cpc, cseg, magic>>
      BY <2>3 DEF Truncate, StartComposer, Compose, ShutDown, Terminate, Join, Unlink, Crash,
         CleanUp, controllerVars, robotVars
    <3>2. \/ rpc' \notin Preparing
          \/ rpc' = "clear" /\ rpc = "open" /\ rseg' = rseg
          \/ rpc' = rpc /\ rseg' = rseg
      BY <2>3 DEF Truncate, StartComposer, Compose, ShutDown, Terminate, Join, Unlink, Crash,
         CleanUp, robotVars, Preparing
    <3> QED
      BY <2>1, <3>1, <3>2 DEF ReadyInv, Attached, Preparing
  <2>4. CASE ControllerStep \/ Exit \/ Tick
    <3>1. UNCHANGED <<segments, inherited, rpc, rseg>>
      BY <2>4 DEF ControllerStep, Start, Exit, Open, Map, LoadMagic, LoadLifecycle, Validate,
         ReadSensor, CheckAge, Tick, robotVars
    <3>2. (cpc' \in {"lifecycle", "version"} /\ magic') \/ Attached' =>
            cseg' \in Magic \cup inherited
      <4>1. CASE LoadMagic
        <5>1. cseg \in Segments
          BY <4>1 DEF LoadMagic, TypeOK, ControllerOK
        <5> QED
          BY <4>1, <5>1 DEF LoadMagic, Attached, Magic
      <4>2. CASE \/ Start \/ Exit \/ Open \/ Map \/ LoadLifecycle \/ Validate \/ ReadSensor
                 \/ CheckAge \/ Tick
        BY <4>2 DEF Start, Exit, Open, Map, LoadLifecycle, Validate, ReadSensor, CheckAge, Tick,
           ReadyInv, Attached
      <4> QED
        BY <2>4, <4>1, <4>2 DEF ControllerStep
    <3> QED
      BY <2>1, <3>1, <3>2 DEF ReadyInv
  <2>5. CASE UNCHANGED vars
    BY <2>1, <2>5 DEF vars, robotVars, controllerVars, ReadyInv, Attached
  <2> QED
    BY <1>3, <2>2, <2>3, <2>4, <2>5 DEF Next, RobotStep
<1> QED
  BY <1>1, <1>2, <1>3

\* The controller never works on a half initialised segment, unless a crashed robot left
\* it: for every number of segments and starts, and in whatever order the two processes
\* start, end, clear, fill in and read.
THEOREM ReadyWhenAttached == Spec => []AttachesToReady
<1>1. Init => ReadyInv
  BY DEF Init, ReadyInv, Magic, Version, Fields, Empty, Preparing, Attached
<1>2. TypeOK /\ ReadyInv => AttachesToReady
  BY DEF ReadyInv, AttachesToReady, Magic, Version, Fields
<1> QED
  BY <1>1, <1>2, Typed, ReadyStep, PTL DEF Spec
=============================================================================
