---------------------------- MODULE DriverStation ----------------------------
(***************************************************************************)
(* The driver station's data path: the MQTT thread applies each packet to  *)
(* one of three caches (newDataOccur), the main thread picks up the newest *)
(* one (HAL_RefreshDSData, DriverStation::refreshData) and polls the       *)
(* buttons (EventLoop, BooleanEvent::rising).  No lock is shared by the    *)
(* two threads: they only exchange the pointer currentCache, and the main  *)
(* thread peeks at lastGiven.                                              *)
(*                                                                         *)
(* Of a packet's data the model keeps its number, its control word and the *)
(* state of one button.  A packet without a joystick section leaves the    *)
(* button of the cache it is applied to as it was.                         *)
(***************************************************************************)
EXTENDS Integers

CONSTANTS
  PacketWords,  \* control words the station sends; "detached" lacks dsAttached
  Sticks,       \* whether packets carry a joystick section: a set of BOOLEANs
  MaxPackets    \* bound: packets received

ASSUME DsAssumption ==
  /\ PacketWords \subseteq {"autonomous", "teleop", "test", "detached"}
  /\ Sticks \subseteq BOOLEAN
  /\ MaxPackets \in Nat

VARIABLES
  caches,            \* caches[3]
  cacheToUpdate, currentReadLocal, given,  \* the MQTT thread's pointers
  lastGiven,         \* written by the MQTT thread, peeked at by the main thread
  currentCache,      \* the atomic hand-over pointer, or Null
  currentRead,       \* the main thread's pointer
  newestControlWord,
  packet, wpc,       \* the packet being applied and the MQTT thread's place
  peek, seen,        \* the main thread's copies of lastGiven and its control word
  phase, mpc,        \* who called refreshData, and the main thread's place
  registered, signalled,    \* the event of waitForDsConnection
  previousButton, buttonPressed, buttonReleased,  \* the edge flags of refreshData
  state, previous,   \* BooleanEvent: the button's state and rising()'s m_previous
  received, allAttached, sentButton, presses, rises   \* history

writerVars == <<cacheToUpdate, currentReadLocal, given, packet>>
pollVars   == <<state, previous, rises>>
edgeVars   == <<previousButton, buttonPressed, buttonReleased>>
sentVars   == <<received, allAttached, sentButton, presses>>
vars == <<caches, writerVars, lastGiven, currentCache, currentRead, newestControlWord,
          wpc, peek, seen, phase, mpc, registered, signalled, edgeVars, pollVars,
          sentVars>>

Null  == -1
Slots == 0 .. 2
Words == PacketWords \cup {"zero"}
Attached(word) == word \notin {"zero", "detached"}
Cache  == [num : Nat, word : Words, button : BOOLEAN]
Packet == [num : Nat, word : Words, stick : BOOLEAN, button : BOOLEAN]

-----------------------------------------------------------------------------
(* The MQTT thread: newDataOccur.                                          *)

\* A packet arrives.  The station's button state is history, for the properties.
Receive ==
  /\ wpc = "idle" /\ received < MaxPackets
  /\ \E word \in PacketWords, stick \in Sticks, button \in BOOLEAN :
       /\ packet' = [num |-> received + 1, word |-> word, stick |-> stick,
                     button |-> button]
       /\ allAttached' = IF Attached(word) THEN allAttached ELSE FALSE
       /\ sentButton' = IF stick THEN button ELSE FALSE
       /\ presses' = IF stick /\ button /\ ~sentButton THEN presses + 1 ELSE presses
  /\ received' = received + 1
  /\ wpc' = "joystick"
  /\ UNCHANGED <<caches, cacheToUpdate, currentReadLocal, given, lastGiven, currentCache,
                 currentRead, newestControlWord, peek, seen, phase, mpc, registered,
                 signalled, edgeVars, pollVars>>

\* JoystickDataCache::Update, the joystick section: each of the three parsers
\* returns at once when the packet has no joystick 0.
UpdateJoystick ==
  /\ wpc = "joystick"
  /\ caches' = IF packet.stick
               THEN [caches EXCEPT ![cacheToUpdate] = [@ EXCEPT !.button = packet.button]]
               ELSE caches
  /\ wpc' = "word"
  /\ UNCHANGED <<writerVars, lastGiven, currentCache, currentRead, newestControlWord,
                 peek, seen, phase, mpc, registered, signalled, edgeVars, pollVars,
                 sentVars>>

\* JoystickDataCache::Update, the control word.
UpdateWord ==
  /\ wpc = "word"
  /\ caches' = [caches EXCEPT ![cacheToUpdate] =
                  [@ EXCEPT !.word = packet.word, !.num = packet.num]]
  /\ wpc' = "give"
  /\ UNCHANGED <<writerVars, lastGiven, currentCache, currentRead, newestControlWord,
                 peek, seen, phase, mpc, registered, signalled, edgeVars, pollVars,
                 sentVars>>

\* Mutant of GiveCache: the case of a cache that was taken is missing.
GiveCacheUnchecked ==
  /\ wpc = "give"
  /\ currentCache' = cacheToUpdate
  /\ given' = cacheToUpdate
  /\ cacheToUpdate' = currentCache
  /\ wpc' = "store"
  /\ UNCHANGED <<caches, currentReadLocal, lastGiven, currentRead, newestControlWord,
                 packet, peek, seen, phase, mpc, registered, signalled, edgeVars,
                 pollVars, sentVars>>

\* currentCache.exchange(cacheToUpdate), then the choice of the next cache to
\* update; only this thread reads the pointers that choice assigns.
GiveCache ==
  /\ wpc = "give"
  /\ currentCache' = cacheToUpdate
  /\ given' = cacheToUpdate
  /\ IF currentCache = Null
     THEN cacheToUpdate' = currentReadLocal /\ currentReadLocal' = lastGiven
     ELSE cacheToUpdate' = currentCache /\ UNCHANGED currentReadLocal
  /\ wpc' = "store"
  /\ UNCHANGED <<caches, lastGiven, currentRead, newestControlWord, packet, peek, seen,
                 phase, mpc, registered, signalled, edgeVars, pollVars, sentVars>>

\* Mutant of StoreGiven: lastGiven is not kept up to date.
StoreGivenForgets ==
  /\ wpc = "store"
  /\ wpc' = "wakeup"
  /\ UNCHANGED <<caches, writerVars, lastGiven, currentCache, currentRead,
                 newestControlWord, peek, seen, phase, mpc, registered, signalled,
                 edgeVars, pollVars, sentVars>>

\* lastGiven = given, then newDataEvents.wakeup().
StoreGiven ==
  /\ wpc = "store"
  /\ lastGiven' = given
  /\ wpc' = "wakeup"
  /\ UNCHANGED <<caches, writerVars, currentCache, currentRead, newestControlWord,
                 peek, seen, phase, mpc, registered, signalled, edgeVars, pollVars,
                 sentVars>>

Wakeup ==
  /\ wpc = "wakeup"
  /\ signalled' = IF registered THEN TRUE ELSE signalled
  /\ wpc' = "idle"
  /\ UNCHANGED <<caches, writerVars, lastGiven, currentCache, currentRead,
                 newestControlWord, peek, seen, phase, mpc, registered, edgeVars,
                 pollVars, sentVars>>

MqttThread ==
  Receive \/ UpdateJoystick \/ UpdateWord \/ GiveCache \/ StoreGiven \/ Wakeup

-----------------------------------------------------------------------------
(* The main thread.                                                        *)

\* InitializeHAL: waitForDsConnection registers its event with newDataEvents.
ProvideEvent ==
  /\ mpc = "provide"
  /\ registered' = TRUE
  /\ mpc' = "wait"
  /\ UNCHANGED <<caches, writerVars, lastGiven, currentCache, currentRead,
                 newestControlWord, wpc, peek, seen, phase, signalled, edgeVars,
                 pollVars, sentVars>>

\* Mutant of AwaitData: the wait returns at once.
AwaitNothing ==
  /\ mpc = "wait"
  /\ registered' = FALSE
  /\ mpc' = "peek"
  /\ UNCHANGED <<caches, writerVars, lastGiven, currentCache, currentRead,
                 newestControlWord, wpc, peek, seen, phase, signalled, edgeVars,
                 pollVars, sentVars>>

\* waitForObject(event) without a timeout, then the event is removed.
AwaitData ==
  /\ mpc = "wait" /\ signalled
  /\ registered' = FALSE
  /\ mpc' = "peek"
  /\ UNCHANGED <<caches, writerVars, lastGiven, currentCache, currentRead,
                 newestControlWord, wpc, peek, seen, phase, signalled, edgeVars,
                 pollVars, sentVars>>

\* HAL_RefreshDSData: lastGiven is loaded without a lock ...
PeekPointer ==
  /\ mpc = "peek"
  /\ peek' = lastGiven
  /\ mpc' = "look"
  /\ UNCHANGED <<caches, writerVars, lastGiven, currentCache, currentRead,
                 newestControlWord, wpc, seen, phase, registered, signalled, edgeVars,
                 pollVars, sentVars>>

\* ... and dereferenced, possibly while the MQTT thread updates that cache.
PeekWord ==
  /\ mpc = "look"
  /\ seen' = caches[peek].word
  /\ mpc' = "take"
  /\ UNCHANGED <<caches, writerVars, lastGiven, currentCache, currentRead,
                 newestControlWord, wpc, peek, phase, registered, signalled, edgeVars,
                 pollVars, sentVars>>

\* Mutant of TakeCache: the cache taken is not made the current one.
TakeCacheKeeps ==
  /\ mpc = "take"
  /\ currentCache' = Null
  /\ mpc' = "publish"
  /\ UNCHANGED <<caches, writerVars, lastGiven, currentRead, newestControlWord, wpc,
                 peek, seen, phase, registered, signalled, edgeVars, pollVars, sentVars>>

\* Mutant of TakeCache: the current cache is what was peeked at, not what was taken.
TakeCachePeeked ==
  /\ mpc = "take"
  /\ currentCache' = Null
  /\ currentRead' = IF currentCache # Null THEN peek ELSE currentRead
  /\ mpc' = "publish"
  /\ UNCHANGED <<caches, writerVars, lastGiven, newestControlWord, wpc, peek, seen,
                 phase, registered, signalled, edgeVars, pollVars, sentVars>>

\* currentCache.exchange(nullptr).
TakeCache ==
  /\ mpc = "take"
  /\ currentCache' = Null
  /\ currentRead' = IF currentCache # Null THEN currentCache ELSE currentRead
  /\ mpc' = "publish"
  /\ UNCHANGED <<caches, writerVars, lastGiven, newestControlWord, wpc, peek, seen,
                 phase, registered, signalled, edgeVars, pollVars, sentVars>>

\* The word of the cache just taken is zeroed unless the word seen was attached.
PublishWord ==
  /\ mpc = "publish"
  /\ LET word == IF Attached(seen) THEN caches[currentRead].word ELSE "zero" IN
     /\ caches' = [caches EXCEPT ![currentRead] = [@ EXCEPT !.word = word]]
     /\ newestControlWord' = word
  /\ mpc' = "edges"
  /\ UNCHANGED <<writerVars, lastGiven, currentCache, currentRead, wpc, peek, seen,
                 phase, registered, signalled, edgeVars, pollVars, sentVars>>

\* DriverStation::refreshData after the HAL: the edge flags of the button.  The
\* first call is waitForDsConnection's; it creates the Instance, whose constructor
\* initialises the HAL again and so clears newestControlWord.  The second call is
\* RobotBase's constructor's; then robotInit binds the events, and loopFunc calls
\* it in every cycle.
RefreshData ==
  /\ mpc = "edges"
  /\ LET button == caches[currentRead].button IN
     /\ buttonPressed' = IF button /\ ~previousButton THEN TRUE ELSE buttonPressed
     /\ buttonReleased' = IF previousButton /\ ~button THEN TRUE ELSE buttonReleased
     /\ previousButton' = button
  /\ \/ phase = "hal" /\ phase' = "constructor" /\ mpc' = "peek"
     \/ phase = "constructor" /\ phase' = "robotInit" /\ mpc' = "bind"
     \/ phase = "loop" /\ phase' = "loop" /\ mpc' = "poll"
  /\ newestControlWord' = IF phase = "hal" THEN "zero" ELSE newestControlWord
  /\ UNCHANGED <<caches, writerVars, lastGiven, currentCache, currentRead, wpc,
                 peek, seen, registered, signalled, pollVars,
                 sentVars>>

\* robotInit: the BooleanEvent of the button and its rising() take their initial
\* state from the button.
BindEvents ==
  /\ mpc = "bind"
  /\ state' = caches[currentRead].button
  /\ previous' = caches[currentRead].button
  /\ phase' = "loop" /\ mpc' = "peek"
  /\ UNCHANGED <<caches, writerVars, lastGiven, currentCache, currentRead,
                 newestControlWord, wpc, peek, seen, registered, signalled, edgeVars,
                 rises, sentVars>>

\* Mutant of PollEvents: rising() does not remember the present state.
PollEventsForgets ==
  /\ mpc = "poll"
  /\ state' = caches[currentRead].button
  /\ rises' = IF ~previous /\ state' THEN rises + 1 ELSE rises
  /\ mpc' = "peek"
  /\ UNCHANGED <<caches, writerVars, lastGiven, currentCache, currentRead, previous,
                 newestControlWord, wpc, peek, seen, phase, registered, signalled,
                 edgeVars, sentVars>>

\* EventLoop::poll runs the bindings in the order they were made: the button's
\* state, then rising()'s, then the action of ifHigh, counted in rises.
PollEvents ==
  /\ mpc = "poll"
  /\ state' = caches[currentRead].button
  /\ previous' = state'
  /\ rises' = IF ~previous /\ state' THEN rises + 1 ELSE rises
  /\ mpc' = "peek"
  /\ UNCHANGED <<caches, writerVars, lastGiven, currentCache, currentRead,
                 newestControlWord, wpc, peek, seen, phase, registered, signalled,
                 edgeVars, sentVars>>

MainThread ==
  \/ ProvideEvent \/ AwaitData \/ PeekPointer \/ PeekWord \/ TakeCache \/ PublishWord
  \/ RefreshData \/ BindEvents \/ PollEvents

-----------------------------------------------------------------------------
\* The static initialisers of FRCDriverStation.cpp and of DriverStation.cpp.
Init ==
  /\ caches = [c \in Slots |-> [num |-> 0, word |-> "zero", button |-> FALSE]]
  /\ cacheToUpdate = 2 /\ currentReadLocal = 0 /\ given = 1
  /\ lastGiven = 1 /\ currentCache = Null /\ currentRead = 0
  /\ newestControlWord = "zero"
  /\ packet = [num |-> 0, word |-> "zero", stick |-> FALSE, button |-> FALSE]
  /\ wpc = "idle"
  /\ peek = 1 /\ seen = "zero"
  /\ phase = "hal" /\ mpc = "provide"
  /\ registered = FALSE /\ signalled = FALSE
  /\ previousButton = FALSE /\ buttonPressed = FALSE /\ buttonReleased = FALSE
  /\ state = FALSE /\ previous = FALSE
  /\ received = 0 /\ allAttached = TRUE /\ sentButton = FALSE /\ presses = 0 /\ rises = 0

Next == MqttThread \/ MainThread

Spec == Init /\ [][Next]_vars

-----------------------------------------------------------------------------
PointersOK ==
  /\ cacheToUpdate \in Slots /\ currentReadLocal \in Slots /\ given \in Slots
  /\ lastGiven \in Slots /\ currentRead \in Slots /\ peek \in Slots
  /\ currentCache \in Slots \cup {Null}

PlacesOK ==
  /\ wpc \in {"idle", "joystick", "word", "give", "store", "wakeup"}
  /\ mpc \in {"provide", "wait", "peek", "look", "take", "publish", "edges", "bind",
              "poll"}
  /\ phase \in {"hal", "constructor", "robotInit", "loop"}
  /\ registered \in BOOLEAN /\ signalled \in BOOLEAN

DataOK ==
  /\ caches \in [Slots -> Cache] /\ packet \in Packet
  /\ newestControlWord \in Words /\ seen \in Words
  /\ received \in Nat /\ presses \in Nat /\ rises \in Nat

ButtonsOK ==
  /\ previousButton \in BOOLEAN /\ buttonPressed \in BOOLEAN
  /\ buttonReleased \in BOOLEAN
  /\ state \in BOOLEAN /\ previous \in BOOLEAN
  /\ sentButton \in BOOLEAN /\ allAttached \in BOOLEAN

\* Every variable stays in its type: in particular every pointer but currentCache
\* always points to one of the three caches.
TypeOK == PointersOK /\ PlacesOK /\ DataOK /\ ButtonsOK

\* The main thread has taken a cache: waitForDsConnection returned and refreshed.
Connected == phase # "hal" \/ mpc \in {"publish", "edges"}

\* Packets whose cache was handed over.
Handed == IF wpc \in {"joystick", "word", "give"} THEN received - 1 ELSE received

\* The cache handed over last, whether or not lastGiven was stored yet.
Newest == IF wpc = "store" THEN given ELSE lastGiven

-----------------------------------------------------------------------------
(* The inductive invariant behind the properties.                          *)

\* Where the main thread can be in each phase.
Places ==
  /\ mpc \in {"provide", "wait"} => phase = "hal"
  /\ mpc = "bind" <=> phase = "robotInit"
  /\ mpc = "poll" => phase = "loop"

\* The MQTT thread's three pointers never coincide.
Apart ==
  /\ cacheToUpdate # currentReadLocal
  /\ cacheToUpdate # Newest
  /\ currentReadLocal # Newest

\* Once an event was signalled a cache was handed over, and it is the newest one
\* that either waits in currentCache or is being read.
Handover ==
  /\ currentCache # Null => currentCache = Newest
  /\ Connected \/ mpc \in {"peek", "look", "take"} => signalled
  /\ wpc = "wakeup" /\ ~Connected => currentCache # Null
  /\ wpc = "store" => given # lastGiven /\ (~Connected => currentCache # Null)
  /\ signalled /\ ~Connected => currentCache # Null
  /\ Connected => currentRead = IF currentCache = Null THEN Newest ELSE currentReadLocal

\* The packet numbers of the caches.
Numbered ==
  /\ wpc \in {"joystick", "word", "give"} => received > 0 /\ packet.num = received
  /\ wpc = "give" => caches[cacheToUpdate].num = received
  /\ caches[Newest].num = Handed
  /\ \A c \in Slots : c # cacheToUpdate => caches[c].num <= Handed

\* While every packet is attached, every control word the main thread may look at is.
WordsAttached ==
  allAttached =>
    /\ wpc \in {"joystick", "word"} => Attached(packet.word)
    /\ wpc = "give" => Attached(caches[cacheToUpdate].word)
    /\ wpc = "store" => Attached(caches[given].word)
    /\ signalled \/ wpc = "wakeup" => Attached(caches[lastGiven].word)
    /\ mpc = "look" => Attached(caches[peek].word)
    /\ mpc \in {"take", "publish"} => Attached(seen)
    /\ Connected => Attached(caches[currentRead].word)

\* From the end of HAL_RefreshDSData on, the published word is the one being read.
WordPublished ==
  mpc \in {"edges", "bind", "poll"} => newestControlWord = caches[currentRead].word

IInv == TypeOK /\ Places /\ Apart /\ Handover /\ Numbered /\ WordsAttached /\ WordPublished

\* Once the robot is connected the MQTT thread never has the cache in hand that the
\* main thread reads, although no lock separates the two and the initial pointers
\* overlap: newDataOccur may update cacheToUpdate, and the getters and
\* HAL_RefreshDSData may read and clear currentRead, at any moment.
ReaderUndisturbed == Connected => cacheToUpdate # currentRead

\* When no cache is waiting, the main thread holds the newest packet handed over:
\* HAL_RefreshDSData misses no data however it interleaves with newDataOccur.
HoldsNewest ==
  Connected /\ currentCache = Null => caches[currentRead].num = Handed

\* A refresh never goes back to an older packet.
NeverGoesBack ==
  [][Connected => caches'[currentRead'].num >= caches[currentRead].num]_vars

\* The comment at lib/ds/FRCDriverStation.cpp:208 says that while a station is
\* attached the control word is "the one in sync with the data": while every packet
\* had dsAttached set, as the station's packets do, the word the robot acts on is the
\* one of the cache whose joystick data it reads, and never the zeroed word (which
\* loopFunc would take for teleoperation).
WordInSync ==
  allAttached /\ mpc \in {"bind", "poll"} =>
     newestControlWord = caches[currentRead].word /\ newestControlWord # "zero"

\* doc/ModuleDocumentation-Robot_LegSubsystem_DriverStation_IMU_UDPServer.md:302 says
\* that "a held button only fires once on press": the actions bound to rising()
\* never run more often than the operator pressed the button.
FiresOncePerPress == rises <= presses

\* What a cache holds of its packet.
Item(c) == [num |-> caches[c].num, button |-> caches[c].button]

\* The box is the cache handed over last; the packet taken is the one being read.
Mail == INSTANCE Mailbox
  WITH box  <- Item(Newest),
       read <- IF Connected THEN Item(currentRead) ELSE [num |-> 0, button |-> FALSE]

\* The three caches and the pointers the two threads exchange without a lock behave as
\* one register: a packet appears whole, at the exchange of newDataOccur, every packet
\* in turn; HAL_RefreshDSData's exchange gets the newest one whole; and what the getters
\* read changes at no other moment.
ImplementsMailbox == Mail!Spec
=============================================================================
