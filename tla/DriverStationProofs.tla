------------------------ MODULE DriverStationProofs ------------------------
(***************************************************************************)
(* Proofs about DriverStation: the lock-free hand-over of the three caches *)
(* is safe for every number of packets and every interleaving.             *)
(***************************************************************************)
EXTENDS DriverStation, TLAPS

(* Types.                                                                  *)

\* Every step keeps the pointers on the three caches.
LEMMA PointersStep ==
  ASSUME TypeOK, [Next]_vars
  PROVE  PointersOK'
<1> USE DEF TypeOK, PointersOK, PlacesOK, Slots, Null, writerVars, pollVars,
            edgeVars, sentVars
<1>1. CASE Receive
  BY <1>1 DEF Receive
<1>2. CASE UpdateJoystick
  BY <1>2 DEF UpdateJoystick
<1>3. CASE UpdateWord
  BY <1>3 DEF UpdateWord
<1>4. CASE GiveCache
  BY <1>4 DEF GiveCache
<1>5. CASE StoreGiven
  BY <1>5 DEF StoreGiven
<1>6. CASE Wakeup
  BY <1>6 DEF Wakeup
<1>7. CASE ProvideEvent
  BY <1>7 DEF ProvideEvent
<1>8. CASE AwaitData
  BY <1>8 DEF AwaitData
<1>9. CASE PeekPointer
  BY <1>9 DEF PeekPointer
<1>10. CASE PeekWord
  BY <1>10 DEF PeekWord
<1>11. CASE TakeCache
  BY <1>11 DEF TakeCache
<1>12. CASE PublishWord
  BY <1>12 DEF PublishWord
<1>13. CASE RefreshData
  BY <1>13 DEF RefreshData
<1>14. CASE BindEvents
  BY <1>14 DEF BindEvents
<1>15. CASE PollEvents
  BY <1>15 DEF PollEvents
<1>16. CASE UNCHANGED vars
  BY <1>16 DEF vars
<1> QED
  BY <1>1, <1>2, <1>3, <1>4, <1>5, <1>6, <1>7, <1>8, <1>9, <1>10, <1>11, <1>12,
     <1>13, <1>14, <1>15, <1>16 DEF Next, MqttThread, MainThread

\* Every step keeps both threads at a place of the program.
LEMMA PlacesStep ==
  ASSUME TypeOK, [Next]_vars
  PROVE  PlacesOK'
<1> USE DEF TypeOK, PlacesOK, writerVars, pollVars, edgeVars, sentVars
<1>1. CASE Receive
  BY <1>1 DEF Receive
<1>2. CASE UpdateJoystick
  BY <1>2 DEF UpdateJoystick
<1>3. CASE UpdateWord
  BY <1>3 DEF UpdateWord
<1>4. CASE GiveCache
  BY <1>4 DEF GiveCache
<1>5. CASE StoreGiven
  BY <1>5 DEF StoreGiven
<1>6. CASE Wakeup
  BY <1>6 DEF Wakeup
<1>7. CASE ProvideEvent
  BY <1>7 DEF ProvideEvent
<1>8. CASE AwaitData
  BY <1>8 DEF AwaitData
<1>9. CASE PeekPointer
  BY <1>9 DEF PeekPointer
<1>10. CASE PeekWord
  BY <1>10 DEF PeekWord
<1>11. CASE TakeCache
  BY <1>11 DEF TakeCache
<1>12. CASE PublishWord
  BY <1>12 DEF PublishWord
<1>13. CASE RefreshData
  BY <1>13 DEF RefreshData
<1>14. CASE BindEvents
  BY <1>14 DEF BindEvents
<1>15. CASE PollEvents
  BY <1>15 DEF PollEvents
<1>16. CASE UNCHANGED vars
  BY <1>16 DEF vars
<1> QED
  BY <1>1, <1>2, <1>3, <1>4, <1>5, <1>6, <1>7, <1>8, <1>9, <1>10, <1>11, <1>12,
     <1>13, <1>14, <1>15, <1>16 DEF Next, MqttThread, MainThread

\* Every step keeps the button flags Boolean.
LEMMA ButtonsStep ==
  ASSUME TypeOK, [Next]_vars
  PROVE  ButtonsOK'
<1> USE DEF TypeOK, ButtonsOK, DataOK, PointersOK, Cache, writerVars, pollVars,
            edgeVars, sentVars
<1>1. CASE Receive
  BY <1>1 DEF Receive
<1>2. CASE UpdateJoystick
  BY <1>2 DEF UpdateJoystick
<1>3. CASE UpdateWord
  BY <1>3 DEF UpdateWord
<1>4. CASE GiveCache
  BY <1>4 DEF GiveCache
<1>5. CASE StoreGiven
  BY <1>5 DEF StoreGiven
<1>6. CASE Wakeup
  BY <1>6 DEF Wakeup
<1>7. CASE ProvideEvent
  BY <1>7 DEF ProvideEvent
<1>8. CASE AwaitData
  BY <1>8 DEF AwaitData
<1>9. CASE PeekPointer
  BY <1>9 DEF PeekPointer
<1>10. CASE PeekWord
  BY <1>10 DEF PeekWord
<1>11. CASE TakeCache
  BY <1>11 DEF TakeCache
<1>12. CASE PublishWord
  BY <1>12 DEF PublishWord
<1>13. CASE RefreshData
  BY <1>13 DEF RefreshData
<1>14. CASE BindEvents
  BY <1>14 DEF BindEvents
<1>15. CASE PollEvents
  BY <1>15 DEF PollEvents
<1>16. CASE UNCHANGED vars
  BY <1>16 DEF vars
<1> QED
  BY <1>1, <1>2, <1>3, <1>4, <1>5, <1>6, <1>7, <1>8, <1>9, <1>10, <1>11, <1>12,
     <1>13, <1>14, <1>15, <1>16 DEF Next, MqttThread, MainThread

\* Every step keeps caches, packets and counters in their types.
LEMMA DataStep ==
  ASSUME TypeOK, [Next]_vars
  PROVE  DataOK'
<1> USE DEF TypeOK, DataOK, PointersOK, ButtonsOK, Cache, Packet, Words,
            writerVars, pollVars, edgeVars, sentVars
<1>1. CASE Receive
  <2>1. PICK word \in PacketWords, stick \in Sticks, button \in BOOLEAN :
          packet' = [num |-> received + 1, word |-> word, stick |-> stick,
                     button |-> button]
    BY <1>1 DEF Receive
  <2>2. stick \in BOOLEAN
    BY DsAssumption
  <2>3. packet' \in Packet
    BY <2>1, <2>2
  <2>4. received' \in Nat /\ presses' \in Nat
    BY <1>1 DEF Receive
  <2> QED
    BY <1>1, <2>3, <2>4 DEF Receive
<1>2. CASE UpdateJoystick
  <2>1. packet.button \in BOOLEAN /\ caches[cacheToUpdate] \in Cache
    BY DEF Packet
  <2>2. caches' \in [Slots -> Cache]
    <3>1. CASE packet.stick
      BY <1>2, <2>1, <3>1 DEF UpdateJoystick
    <3>2. CASE ~packet.stick
      BY <1>2, <3>2 DEF UpdateJoystick
    <3> QED
      BY <3>1, <3>2
  <2> QED
    BY <1>2, <2>2 DEF UpdateJoystick
<1>3. CASE UpdateWord
  BY <1>3 DEF UpdateWord
<1>4. CASE GiveCache
  BY <1>4 DEF GiveCache
<1>5. CASE StoreGiven
  BY <1>5 DEF StoreGiven
<1>6. CASE Wakeup
  BY <1>6 DEF Wakeup
<1>7. CASE ProvideEvent
  BY <1>7 DEF ProvideEvent
<1>8. CASE AwaitData
  BY <1>8 DEF AwaitData
<1>9. CASE PeekPointer
  BY <1>9 DEF PeekPointer
<1>10. CASE PeekWord
  BY <1>10 DEF PeekWord
<1>11. CASE TakeCache
  BY <1>11 DEF TakeCache
<1>12. CASE PublishWord
  BY <1>12 DEF PublishWord
<1>13. CASE RefreshData
  BY <1>13 DEF RefreshData
<1>14. CASE BindEvents
  BY <1>14 DEF BindEvents
<1>15. CASE PollEvents
  BY <1>15 DEF PollEvents
<1>16. CASE UNCHANGED vars
  BY <1>16 DEF vars
<1> QED
  BY <1>1, <1>2, <1>3, <1>4, <1>5, <1>6, <1>7, <1>8, <1>9, <1>10, <1>11, <1>12,
     <1>13, <1>14, <1>15, <1>16 DEF Next, MqttThread, MainThread

\* Init has the right types.
LEMMA InitTyped == Init => TypeOK
<1> SUFFICES ASSUME Init PROVE TypeOK
  OBVIOUS
<1>1. PointersOK
  BY DEF Init, PointersOK, Slots, Null
<1>2. PlacesOK
  BY Zenon DEF Init, PlacesOK
<1>3. ButtonsOK
  BY DEF Init, ButtonsOK
<1>4. DataOK
  <2>1. caches \in [Slots -> Cache]
    BY DEF Init, Cache, Words
  <2>2. packet \in Packet
    BY DEF Init, Packet, Words
  <2> QED
    BY <2>1, <2>2 DEF Init, DataOK, Words
<1> QED
  BY <1>1, <1>2, <1>3, <1>4 DEF TypeOK

\* Every behaviour keeps TypeOK: no exchange of newDataOccur or HAL_RefreshDSData
\* leaves a thread with a null pointer to a cache.
THEOREM DsTyped == Spec => []TypeOK
<1>1. TypeOK /\ [Next]_vars => TypeOK'
  BY PointersStep, PlacesStep, ButtonsStep, DataStep DEF TypeOK
<1> QED
  BY InitTyped, <1>1, PTL DEF Spec

-----------------------------------------------------------------------------
(* The hand-over.                                                          *)

\* Every step keeps the main thread's place in line with its phase.
LEMMA PlacesInv ==
  ASSUME TypeOK, Places, [Next]_vars
  PROVE  Places'
<1> USE DEF TypeOK, PlacesOK, Places, writerVars, pollVars, edgeVars, sentVars
<1>1. CASE Receive
  BY <1>1 DEF Receive
<1>2. CASE UpdateJoystick
  BY <1>2 DEF UpdateJoystick
<1>3. CASE UpdateWord
  BY <1>3 DEF UpdateWord
<1>4. CASE GiveCache
  BY <1>4 DEF GiveCache
<1>5. CASE StoreGiven
  BY <1>5 DEF StoreGiven
<1>6. CASE Wakeup
  BY <1>6 DEF Wakeup
<1>7. CASE ProvideEvent
  BY <1>7 DEF ProvideEvent
<1>8. CASE AwaitData
  BY <1>8 DEF AwaitData
<1>9. CASE PeekPointer
  BY <1>9 DEF PeekPointer
<1>10. CASE PeekWord
  BY <1>10 DEF PeekWord
<1>11. CASE TakeCache
  BY <1>11 DEF TakeCache
<1>12. CASE PublishWord
  BY <1>12 DEF PublishWord
<1>13. CASE RefreshData
  BY <1>13 DEF RefreshData
<1>14. CASE BindEvents
  BY <1>14 DEF BindEvents
<1>15. CASE PollEvents
  BY <1>15 DEF PollEvents
<1>16. CASE UNCHANGED vars
  BY <1>16 DEF vars
<1> QED
  BY <1>1, <1>2, <1>3, <1>4, <1>5, <1>6, <1>7, <1>8, <1>9, <1>10, <1>11, <1>12,
     <1>13, <1>14, <1>15, <1>16 DEF Next, MqttThread, MainThread

\* Every step keeps the MQTT thread's three pointers apart: after an exchange the
\* cache to update is the one the main thread gave up, or the one it never took.
LEMMA ApartStep ==
  ASSUME TypeOK, Apart, Handover, [Next]_vars
  PROVE  Apart'
<1> USE DEF TypeOK, PointersOK, PlacesOK, Apart, Handover, Newest, Slots, Null,
            writerVars, pollVars, edgeVars, sentVars
<1>1. CASE Receive
  BY <1>1 DEF Receive
<1>2. CASE UpdateJoystick
  BY <1>2 DEF UpdateJoystick
<1>3. CASE UpdateWord
  BY <1>3 DEF UpdateWord
<1>4. CASE GiveCache
  BY <1>4 DEF GiveCache
<1>5. CASE StoreGiven
  BY <1>5 DEF StoreGiven
<1>6. CASE Wakeup
  BY <1>6 DEF Wakeup
<1>7. CASE ProvideEvent
  BY <1>7 DEF ProvideEvent
<1>8. CASE AwaitData
  BY <1>8 DEF AwaitData
<1>9. CASE PeekPointer
  BY <1>9 DEF PeekPointer
<1>10. CASE PeekWord
  BY <1>10 DEF PeekWord
<1>11. CASE TakeCache
  BY <1>11 DEF TakeCache
<1>12. CASE PublishWord
  BY <1>12 DEF PublishWord
<1>13. CASE RefreshData
  BY <1>13 DEF RefreshData
<1>14. CASE BindEvents
  BY <1>14 DEF BindEvents
<1>15. CASE PollEvents
  BY <1>15 DEF PollEvents
<1>16. CASE UNCHANGED vars
  BY <1>16 DEF vars
<1> QED
  BY <1>1, <1>2, <1>3, <1>4, <1>5, <1>6, <1>7, <1>8, <1>9, <1>10, <1>11, <1>12,
     <1>13, <1>14, <1>15, <1>16 DEF Next, MqttThread, MainThread

\* Every step keeps the newest cache either waiting or being read.
LEMMA HandoverStep ==
  ASSUME TypeOK, Places, Apart, Handover, [Next]_vars
  PROVE  Handover'
<1> USE DEF TypeOK, PointersOK, PlacesOK, Places, Apart, Handover, Newest,
            Connected, Slots, Null, writerVars, pollVars, edgeVars, sentVars
<1>1. CASE Receive
  BY <1>1 DEF Receive
<1>2. CASE UpdateJoystick
  BY <1>2 DEF UpdateJoystick
<1>3. CASE UpdateWord
  BY <1>3 DEF UpdateWord
<1>4. CASE GiveCache
  BY <1>4 DEF GiveCache
<1>5. CASE StoreGiven
  BY <1>5 DEF StoreGiven
<1>6. CASE Wakeup
  BY <1>6 DEF Wakeup
<1>7. CASE ProvideEvent
  BY <1>7 DEF ProvideEvent
<1>8. CASE AwaitData
  BY <1>8 DEF AwaitData
<1>9. CASE PeekPointer
  BY <1>9 DEF PeekPointer
<1>10. CASE PeekWord
  BY <1>10 DEF PeekWord
<1>11. CASE TakeCache
  BY <1>11 DEF TakeCache
<1>12. CASE PublishWord
  BY <1>12 DEF PublishWord
<1>13. CASE RefreshData
  BY <1>13 DEF RefreshData
<1>14. CASE BindEvents
  BY <1>14 DEF BindEvents
<1>15. CASE PollEvents
  BY <1>15 DEF PollEvents
<1>16. CASE UNCHANGED vars
  BY <1>16 DEF vars
<1> QED
  BY <1>1, <1>2, <1>3, <1>4, <1>5, <1>6, <1>7, <1>8, <1>9, <1>10, <1>11, <1>12,
     <1>13, <1>14, <1>15, <1>16 DEF Next, MqttThread, MainThread

\* Every step keeps the packet numbers of the caches in order.
LEMMA NumberedStep ==
  ASSUME TypeOK, Apart, Handover, Numbered, [Next]_vars
  PROVE  Numbered'
<1> USE DEF TypeOK, PointersOK, PlacesOK, DataOK, Cache, Packet, Apart, Handover,
            Numbered, Newest, Handed, Slots, Null, writerVars, pollVars, edgeVars,
            sentVars
<1>1. CASE Receive
  BY <1>1 DEF Receive
<1>2. CASE UpdateJoystick
  BY <1>2 DEF UpdateJoystick
<1>3. CASE UpdateWord
  BY <1>3 DEF UpdateWord
<1>4. CASE GiveCache
  BY <1>4 DEF GiveCache
<1>5. CASE StoreGiven
  BY <1>5 DEF StoreGiven
<1>6. CASE Wakeup
  BY <1>6 DEF Wakeup
<1>7. CASE ProvideEvent
  BY <1>7 DEF ProvideEvent
<1>8. CASE AwaitData
  BY <1>8 DEF AwaitData
<1>9. CASE PeekPointer
  BY <1>9 DEF PeekPointer
<1>10. CASE PeekWord
  BY <1>10 DEF PeekWord
<1>11. CASE TakeCache
  BY <1>11 DEF TakeCache
<1>12. CASE PublishWord
  BY <1>12 DEF PublishWord
<1>13. CASE RefreshData
  BY <1>13 DEF RefreshData
<1>14. CASE BindEvents
  BY <1>14 DEF BindEvents
<1>15. CASE PollEvents
  BY <1>15 DEF PollEvents
<1>16. CASE UNCHANGED vars
  BY <1>16 DEF vars
<1> QED
  BY <1>1, <1>2, <1>3, <1>4, <1>5, <1>6, <1>7, <1>8, <1>9, <1>10, <1>11, <1>12,
     <1>13, <1>14, <1>15, <1>16 DEF Next, MqttThread, MainThread

\* Every step keeps the words the main thread may look at attached.
LEMMA WordsStep ==
  ASSUME TypeOK, Places, Apart, Handover, WordsAttached, [Next]_vars
  PROVE  WordsAttached'
<1> USE DEF TypeOK, PointersOK, PlacesOK, DataOK, ButtonsOK, Cache, Packet,
            Places, Apart, Handover, WordsAttached, Newest, Connected, Attached,
            Slots, Null, writerVars, pollVars, edgeVars, sentVars
<1>1. CASE Receive
  <2> HIDE DEF Attached
  <2>1. PICK word \in PacketWords, stick \in Sticks, button \in BOOLEAN :
          /\ packet' = [num |-> received + 1, word |-> word, stick |-> stick,
                        button |-> button]
          /\ allAttached' = IF Attached(word) THEN allAttached ELSE FALSE
    BY <1>1, Zenon DEF Receive
  <2>2. allAttached' => allAttached /\ Attached(packet'.word)
    BY <2>1
  <2>3. wpc' = "joystick" /\ mpc' = mpc /\ caches' = caches /\ phase' = phase
        /\ signalled' = signalled /\ lastGiven' = lastGiven /\ peek' = peek
        /\ seen' = seen /\ currentRead' = currentRead
    BY <1>1 DEF Receive
  <2> QED
    BY <2>2, <2>3
<1>2. CASE UpdateJoystick
  BY <1>2 DEF UpdateJoystick
<1>3. CASE UpdateWord
  BY <1>3 DEF UpdateWord
<1>4. CASE GiveCache
  BY <1>4 DEF GiveCache
<1>5. CASE StoreGiven
  BY <1>5 DEF StoreGiven
<1>6. CASE Wakeup
  BY <1>6 DEF Wakeup
<1>7. CASE ProvideEvent
  BY <1>7 DEF ProvideEvent
<1>8. CASE AwaitData
  BY <1>8 DEF AwaitData
<1>9. CASE PeekPointer
  BY <1>9 DEF PeekPointer
<1>10. CASE PeekWord
  BY <1>10 DEF PeekWord
<1>11. CASE TakeCache
  BY <1>11 DEF TakeCache
<1>12. CASE PublishWord
  BY <1>12 DEF PublishWord
<1>13. CASE RefreshData
  BY <1>13 DEF RefreshData
<1>14. CASE BindEvents
  BY <1>14 DEF BindEvents
<1>15. CASE PollEvents
  BY <1>15 DEF PollEvents
<1>16. CASE UNCHANGED vars
  BY <1>16 DEF vars
<1> QED
  BY <1>1, <1>2, <1>3, <1>4, <1>5, <1>6, <1>7, <1>8, <1>9, <1>10, <1>11, <1>12,
     <1>13, <1>14, <1>15, <1>16 DEF Next, MqttThread, MainThread

\* Every step keeps the published word equal to the one being read.
LEMMA PublishedStep ==
  ASSUME TypeOK, Places, Apart, Handover, WordPublished, [Next]_vars
  PROVE  WordPublished'
<1> USE DEF TypeOK, PointersOK, PlacesOK, DataOK, Cache, Places, Apart, Handover,
            WordPublished, Newest, Connected, Slots, Null, writerVars, pollVars,
            edgeVars, sentVars
<1>1. CASE Receive
  BY <1>1 DEF Receive
<1>2. CASE UpdateJoystick
  BY <1>2 DEF UpdateJoystick
<1>3. CASE UpdateWord
  BY <1>3 DEF UpdateWord
<1>4. CASE GiveCache
  BY <1>4 DEF GiveCache
<1>5. CASE StoreGiven
  BY <1>5 DEF StoreGiven
<1>6. CASE Wakeup
  BY <1>6 DEF Wakeup
<1>7. CASE ProvideEvent
  BY <1>7 DEF ProvideEvent
<1>8. CASE AwaitData
  BY <1>8 DEF AwaitData
<1>9. CASE PeekPointer
  BY <1>9 DEF PeekPointer
<1>10. CASE PeekWord
  BY <1>10 DEF PeekWord
<1>11. CASE TakeCache
  BY <1>11 DEF TakeCache
<1>12. CASE PublishWord
  BY <1>12 DEF PublishWord
<1>13. CASE RefreshData
  BY <1>13 DEF RefreshData
<1>14. CASE BindEvents
  BY <1>14 DEF BindEvents
<1>15. CASE PollEvents
  BY <1>15 DEF PollEvents
<1>16. CASE UNCHANGED vars
  BY <1>16 DEF vars
<1> QED
  BY <1>1, <1>2, <1>3, <1>4, <1>5, <1>6, <1>7, <1>8, <1>9, <1>10, <1>11, <1>12,
     <1>13, <1>14, <1>15, <1>16 DEF Next, MqttThread, MainThread

-----------------------------------------------------------------------------
(* The theorems.                                                           *)

\* The inductive invariant holds of the static initialisers' state.
LEMMA InitIInv == Init => IInv
<1> SUFFICES ASSUME Init PROVE IInv
  OBVIOUS
<1>1. TypeOK
  BY InitTyped
<1>2. Places /\ Apart /\ Handover /\ WordsAttached /\ WordPublished
  BY DEF Init, Places, Apart, Handover, WordsAttached, WordPublished, Newest, Connected,
         Null
<1>3. Numbered
  BY DEF Init, Numbered, Newest, Handed, Slots
<1> QED
  BY <1>1, <1>2, <1>3 DEF IInv

\* Every step of either thread keeps the inductive invariant.
LEMMA StepIInv == IInv /\ [Next]_vars => IInv'
<1> SUFFICES ASSUME IInv, [Next]_vars PROVE IInv'
  OBVIOUS
<1>1. TypeOK'
  BY PointersStep, PlacesStep, ButtonsStep, DataStep DEF IInv, TypeOK
<1>2. Places' /\ Apart' /\ Handover'
  BY PlacesInv, ApartStep, HandoverStep DEF IInv
<1>3. Numbered' /\ WordsAttached' /\ WordPublished'
  BY NumberedStep, WordsStep, PublishedStep DEF IInv
<1> QED
  BY <1>1, <1>2, <1>3 DEF IInv

\* Every behaviour keeps the inductive invariant.
LEMMA SpecIInv == Spec => []IInv
  BY InitIInv, StepIInv, PTL DEF Spec

\* The invariant separates the reader's cache from the writer's.
LEMMA IInvUndisturbed == IInv => ReaderUndisturbed
  BY DEF IInv, Apart, Handover, ReaderUndisturbed

\* For every number of packets, newDataOccur never updates the cache the connected
\* main thread reads.
THEOREM DsReaderUndisturbed == Spec => []ReaderUndisturbed
  BY SpecIInv, IInvUndisturbed, PTL

\* For every number of packets, a refresh that finds nothing waiting left the main
\* thread with the newest packet handed over.
THEOREM DsHoldsNewest == Spec => []HoldsNewest
<1>1. IInv => HoldsNewest
  BY DEF IInv, Handover, Numbered, HoldsNewest
<1> QED
  BY SpecIInv, <1>1, PTL

\* For every number of packets, the control word the robot acts on is the one of the
\* data it reads, as long as every packet was sent by an attached station.
THEOREM DsWordInSync == Spec => []WordInSync
<1>1. IInv => WordInSync
  BY DEF IInv, WordsAttached, WordPublished, WordInSync, Connected, Attached, Places
<1> QED
  BY SpecIInv, <1>1, PTL

\* For every number of packets, no step of either thread takes the connected main
\* thread back to an older packet.
THEOREM DsNeverGoesBack == Spec => NeverGoesBack
<1> DEFINE Forward == Connected => caches'[currentRead'].num >= caches[currentRead].num
<1>1. IInv /\ IInv' /\ [Next]_vars => [Forward]_vars
  <2> SUFFICES ASSUME IInv, [Next]_vars, Connected
               PROVE  Forward
    OBVIOUS
  <2> USE DEF IInv, TypeOK, PointersOK, PlacesOK, DataOK, Cache, Apart, Handover,
              Numbered, Newest, Handed, Connected, Slots, Null,
              writerVars, pollVars, edgeVars, sentVars
  <2>1. cacheToUpdate # currentRead /\ caches[currentRead].num <= Handed
        /\ caches[currentRead].num \in Int
    OBVIOUS
  <2>2. CASE UpdateJoystick \/ UpdateWord
    BY <2>1, <2>2 DEF UpdateJoystick, UpdateWord
  <2>3. CASE TakeCache
    BY <2>1, <2>3 DEF TakeCache
  <2>4. CASE PublishWord
    BY <2>1, <2>4 DEF PublishWord
  <2>5. CASE Receive \/ GiveCache \/ StoreGiven \/ Wakeup
    <3>1. caches' = caches /\ currentRead' = currentRead
      BY <2>5 DEF Receive, GiveCache, StoreGiven, Wakeup
    <3> QED
      BY <2>1, <3>1
  <2>6. CASE \/ ProvideEvent \/ AwaitData \/ PeekPointer \/ PeekWord \/ RefreshData
             \/ BindEvents \/ PollEvents \/ UNCHANGED vars
    <3>1. caches' = caches /\ currentRead' = currentRead
      BY <2>6 DEF ProvideEvent, AwaitData, PeekPointer, PeekWord, RefreshData,
                  BindEvents, PollEvents, vars
    <3> QED
      BY <2>1, <3>1
  <2> QED
    BY <2>2, <2>3, <2>4, <2>5, <2>6 DEF Next, MqttThread, MainThread
<1> QED
  BY SpecIInv, <1>1, PTL DEF Spec, NeverGoesBack

-----------------------------------------------------------------------------
(* The refinement of Mailbox.                                              *)

\* The packet the main thread holds, in the terms of Mailbox.
Held == IF Connected THEN Item(currentRead) ELSE [num |-> 0, button |-> FALSE]

\* What a step does to the cache handed over last and to the one being read: the
\* exchange of newDataOccur replaces the first by the next packet, the exchange of
\* HAL_RefreshDSData replaces the second by the first, and nothing else touches either.
LEMMA MailSteps ==
  ASSUME IInv, [Next]_vars
  PROVE  \/ UNCHANGED <<Item(Newest), Held>>
         \/ /\ \E button \in BOOLEAN :
                 Item(Newest)' = [num |-> Item(Newest).num + 1, button |-> button]
            /\ UNCHANGED Held
         \/ Held' = Item(Newest) /\ UNCHANGED Item(Newest)
<1> USE DEF IInv, TypeOK, PointersOK, PlacesOK, DataOK, Cache, Packet, Places, Apart,
            Handover, Item, Held, Newest, Connected, Slots, Null,
            writerVars, pollVars, edgeVars, sentVars
<1>1. CASE Receive \/ StoreGiven \/ Wakeup
  BY <1>1 DEF Receive, StoreGiven, Wakeup
<1>2. CASE UpdateJoystick
  BY <1>2 DEF UpdateJoystick
<1>3. CASE UpdateWord
  BY <1>3 DEF UpdateWord
<1>4. CASE GiveCache
  <2>1. Item(Newest)' = [num |-> caches[cacheToUpdate].num,
                         button |-> caches[cacheToUpdate].button]
    BY <1>4 DEF GiveCache
  <2>2. caches[cacheToUpdate].num = Item(Newest).num + 1
    BY <1>4 DEF GiveCache, Numbered, Handed
  <2>3. UNCHANGED Held /\ caches[cacheToUpdate].button \in BOOLEAN
    BY <1>4 DEF GiveCache
  <2> QED
    BY <2>1, <2>2, <2>3
<1>5. CASE ProvideEvent \/ AwaitData \/ PeekPointer \/ PeekWord
  BY <1>5 DEF ProvideEvent, AwaitData, PeekPointer, PeekWord
<1>6. CASE TakeCache
  BY <1>6 DEF TakeCache
<1>7. CASE PublishWord
  BY <1>7 DEF PublishWord
<1>8. CASE RefreshData
  BY <1>8 DEF RefreshData
<1>9. CASE BindEvents \/ PollEvents
  BY <1>9 DEF BindEvents, PollEvents
<1>10. CASE UNCHANGED vars
  BY <1>10 DEF vars
<1> QED
  BY <1>1, <1>2, <1>3, <1>4, <1>5, <1>6, <1>7, <1>8, <1>9, <1>10
     DEF Next, MqttThread, MainThread

\* For every number of packets, the three caches exchanged without a lock implement the
\* register Mailbox: newDataOccur's exchange puts the next packet, HAL_RefreshDSData's
\* takes the last one put, and both take effect at once.
THEOREM DsImplementsMailbox == Spec => ImplementsMailbox
<1>1. Init => Mail!Init
  <2> SUFFICES ASSUME Init PROVE Mail!Init
    OBVIOUS
  <2>1. Newest = 1 /\ ~Connected
    BY DEF Init, Newest, Connected
  <2>2. caches[1] = [num |-> 0, word |-> "zero", button |-> FALSE]
    BY DEF Init, Slots
  <2>3. caches[1].num = 0 /\ caches[1].button = FALSE
    BY <2>2
  <2>4. Item(1) = [num |-> 0, button |-> FALSE]
    BY <2>3, Zenon DEF Item
  <2> QED
    BY <2>1, <2>4, Zenon DEF Mail!Init, Mail!Nothing
<1>2. IInv /\ [Next]_vars => [Mail!Next]_(Mail!vars)
  BY MailSteps DEF Held, Mail!Next, Mail!Put, Mail!Take, Mail!vars
<1> QED
  BY SpecIInv, <1>1, <1>2, PTL DEF Spec, ImplementsMailbox, Mail!Spec

-----------------------------------------------------------------------------
(* The button's presses.                                                   *)

Rise(a, b) == IF ~a /\ b THEN 1 ELSE 0

\* The states of the button on their way from the station to the events: in the newest
\* cache, and in the one the main thread reads.
NewestButton == caches[Newest].button
ReadButton == IF Connected THEN caches[currentRead].button ELSE NewestButton

\* The button of a packet reaches its cache before the cache is handed over.
ButtonCarried ==
  /\ wpc = "joystick" => packet.stick /\ packet.button = sentButton
  /\ wpc \in {"word", "give"} => caches[cacheToUpdate].button = sentButton
  /\ wpc \in {"idle", "store", "wakeup"} => NewestButton = sentButton

\* What has fired and what is still to fire was pressed.
Counted ==
  rises + Rise(previous, ReadButton) + Rise(ReadButton, NewestButton)
        + Rise(NewestButton, sentButton) <= presses

\* A state left out on the way can only hide a press.
LEMMA RiseFacts ==
  ASSUME NEW a \in BOOLEAN, NEW b \in BOOLEAN, NEW c \in BOOLEAN
  PROVE  /\ Rise(a, b) \in Nat /\ Rise(b, c) \in Nat /\ Rise(a, c) \in Nat
         /\ Rise(a, a) = 0 /\ Rise(c, c) = 0
         /\ Rise(a, c) <= Rise(a, b) + Rise(b, c)
<1>1. CASE a = TRUE
  BY <1>1 DEF Rise
<1>2. CASE a = FALSE /\ b = TRUE
  BY <1>2 DEF Rise
<1>3. CASE a = FALSE /\ b = FALSE
  BY <1>3 DEF Rise
<1> QED
  BY <1>1, <1>2, <1>3

\* What a step does to the four states of the button and to the counts.
LEMMA ButtonSteps ==
  ASSUME Sticks \subseteq {TRUE}, IInv, ButtonCarried, [Next]_vars
  PROVE  /\ ButtonCarried'
         /\ \/ UNCHANGED <<previous, ReadButton, NewestButton, sentButton, rises, presses>>
            \/ /\ NewestButton = sentButton /\ presses' = presses + Rise(sentButton, sentButton')
               /\ UNCHANGED <<previous, ReadButton, NewestButton, rises>>
            \/ /\ NewestButton' = sentButton
               /\ \/ UNCHANGED ReadButton
                  \/ ReadButton = NewestButton /\ ReadButton' = sentButton
               /\ UNCHANGED <<previous, sentButton, rises, presses>>
            \/ /\ ReadButton' = NewestButton
               /\ UNCHANGED <<previous, NewestButton, sentButton, rises, presses>>
            \/ /\ previous' = ReadButton
               /\ rises' = rises + Rise(previous, ReadButton) \/ UNCHANGED rises
               /\ UNCHANGED <<ReadButton, NewestButton, sentButton, presses>>
<1> USE DEF IInv, TypeOK, PointersOK, PlacesOK, DataOK, ButtonsOK, Cache, Packet, Places, Apart,
            Handover, ButtonCarried, NewestButton, ReadButton, Newest, Connected, Slots, Null,
            writerVars, pollVars, edgeVars, sentVars
<1>1. CASE Receive
  <2>1. PICK word \in PacketWords, stick \in Sticks, button \in BOOLEAN :
          /\ packet' = [num |-> received + 1, word |-> word, stick |-> stick,
                        button |-> button]
          /\ sentButton' = IF stick THEN button ELSE FALSE
          /\ presses' = IF stick /\ button /\ ~sentButton THEN presses + 1 ELSE presses
    BY <1>1, Zenon DEF Receive
  <2>2. stick = TRUE
    OBVIOUS
  <2>3. sentButton' = button /\ packet'.button = button /\ packet'.stick
    BY <2>1, <2>2
  <2>4. presses' = presses + Rise(sentButton, sentButton')
    BY <2>1, <2>2, <2>3 DEF Rise
  <2>5. /\ wpc = "idle" /\ wpc' = "joystick"
        /\ UNCHANGED <<caches, given, lastGiven, currentRead, phase, mpc, previous, rises>>
    BY <1>1 DEF Receive
  <2> QED
    BY <2>3, <2>4, <2>5
<1>2. CASE UpdateJoystick
  BY <1>2 DEF UpdateJoystick
<1>3. CASE UpdateWord
  BY <1>3 DEF UpdateWord
<1>4. CASE GiveCache
  BY <1>4 DEF GiveCache
<1>5. CASE StoreGiven \/ Wakeup
  BY <1>5 DEF StoreGiven, Wakeup
<1>6. CASE ProvideEvent \/ AwaitData \/ PeekPointer \/ PeekWord
  BY <1>6 DEF ProvideEvent, AwaitData, PeekPointer, PeekWord
<1>7. CASE TakeCache
  BY <1>7 DEF TakeCache
<1>8. CASE PublishWord
  BY <1>8 DEF PublishWord
<1>9. CASE RefreshData
  BY <1>9 DEF RefreshData
<1>10. CASE BindEvents
  BY <1>10 DEF BindEvents
<1>11. CASE PollEvents
  BY <1>11 DEF PollEvents, Rise
<1>12. CASE UNCHANGED vars
  BY <1>12 DEF vars
<1> QED
  BY <1>1, <1>2, <1>3, <1>4, <1>5, <1>6, <1>7, <1>8, <1>9, <1>10, <1>11, <1>12
  DEF Next, MqttThread, MainThread

\* No step makes more fire than was pressed.
LEMMA CountedStep ==
  ASSUME Sticks \subseteq {TRUE}, IInv, IInv', ButtonCarried, Counted, [Next]_vars
  PROVE  Counted'
<1> DEFINE p == previous  r == ReadButton  n == NewestButton  s == sentButton
<1>1. p \in BOOLEAN /\ r \in BOOLEAN /\ n \in BOOLEAN /\ s \in BOOLEAN
  BY DEF IInv, TypeOK, PointersOK, DataOK, ButtonsOK, Cache, NewestButton, ReadButton, Newest
<1>2. sentButton' \in BOOLEAN
  BY DEF IInv, TypeOK, ButtonsOK
<1>3. rises \in Nat /\ presses \in Nat
  BY DEF IInv, TypeOK, DataOK
<1>4. rises + Rise(p, r) + Rise(r, n) + Rise(n, s) <= presses
  BY DEF Counted
<1>5. Counted' <=> rises' + Rise(p', r') + Rise(r', n') + Rise(n', s') <= presses'
  BY DEF Counted
<1> HIDE DEF p, r, n, s
<1>6. Rise(p, r) \in Nat /\ Rise(r, n) \in Nat /\ Rise(n, s) \in Nat
  BY <1>1, RiseFacts
<1>7. CASE UNCHANGED <<p, r, n, s, rises, presses>>
  BY <1>4, <1>5, <1>7
<1>8. CASE n = s /\ presses' = presses + Rise(s, s') /\ UNCHANGED <<p, r, n, rises>>
  <2>1. s' \in BOOLEAN
    BY <1>2 DEF s
  <2>2. Rise(s, s) = 0 /\ Rise(s, s') \in Nat
    BY <1>1, <2>1, RiseFacts
  <2> QED
    BY <1>3, <1>4, <1>5, <1>6, <1>8, <2>2
<1>9. CASE n' = s /\ UNCHANGED <<r, p, s, rises, presses>>
  <2>1. Rise(s, s) = 0 /\ Rise(r, s) <= Rise(r, n) + Rise(n, s) /\ Rise(r, s) \in Nat
    BY <1>1, RiseFacts
  <2> QED
    BY <1>3, <1>4, <1>5, <1>6, <1>9, <2>1
<1>10. CASE n' = s /\ r = n /\ r' = s /\ UNCHANGED <<p, s, rises, presses>>
  <2>1. Rise(s, s) = 0 /\ Rise(n, n) = 0 /\ Rise(p, s) <= Rise(p, n) + Rise(n, s)
        /\ Rise(p, s) \in Nat
    BY <1>1, RiseFacts
  <2> QED
    BY <1>3, <1>4, <1>5, <1>6, <1>10, <2>1
<1>11. CASE r' = n /\ UNCHANGED <<p, n, s, rises, presses>>
  <2>1. Rise(n, n) = 0 /\ Rise(p, n) <= Rise(p, r) + Rise(r, n) /\ Rise(p, n) \in Nat
    BY <1>1, RiseFacts
  <2> QED
    BY <1>3, <1>4, <1>5, <1>6, <1>11, <2>1
<1>12. CASE /\ p' = r /\ UNCHANGED <<r, n, s, presses>>
            /\ rises' = rises + Rise(p, r) \/ UNCHANGED rises
  <2>1. Rise(r, r) = 0
    BY <1>1, RiseFacts
  <2> QED
    BY <1>3, <1>4, <1>5, <1>6, <1>12, <2>1
<1> QED
  BY <1>7, <1>8, <1>9, <1>10, <1>11, <1>12, ButtonSteps DEF p, r, n, s

\* As long as every packet has its joystick section, a press fires at most once, for
\* every number of packets and however the two threads interleave.
THEOREM DsFiresOncePerPress ==
  ASSUME Sticks \subseteq {TRUE}
  PROVE  Spec => []FiresOncePerPress
<1>1. Init => ButtonCarried /\ Counted
  <2> SUFFICES ASSUME Init PROVE ButtonCarried /\ Counted
    OBVIOUS
  <2>1. NewestButton = FALSE /\ ReadButton = FALSE
    BY DEF Init, NewestButton, ReadButton, Newest, Connected, Slots
  <2>2. previous = FALSE /\ sentButton = FALSE /\ wpc = "idle" /\ rises = 0 /\ presses = 0
    BY DEF Init
  <2>3. Rise(FALSE, FALSE) = 0
    BY DEF Rise
  <2>4. Counted
    <3>1. rises + Rise(previous, ReadButton) + Rise(ReadButton, NewestButton)
            + Rise(NewestButton, sentButton) = 0 + 0 + 0 + 0
      BY <2>1, <2>2, <2>3, Zenon
    <3> QED
      BY <2>2, <3>1 DEF Counted
  <2> QED
    BY <2>1, <2>2, <2>4 DEF ButtonCarried
<1>2. IInv /\ ButtonCarried /\ Counted => FiresOncePerPress
  <2> SUFFICES ASSUME IInv, Counted PROVE FiresOncePerPress
    OBVIOUS
  <2> DEFINE a == Rise(previous, ReadButton)  b == Rise(ReadButton, NewestButton)
             c == Rise(NewestButton, sentButton)
  <2>1. previous \in BOOLEAN /\ ReadButton \in BOOLEAN /\ NewestButton \in BOOLEAN
        /\ sentButton \in BOOLEAN
    BY DEF IInv, TypeOK, PointersOK, DataOK, ButtonsOK, Cache, NewestButton, ReadButton, Newest
  <2>2. a \in Nat /\ b \in Nat /\ c \in Nat
    BY <2>1, RiseFacts
  <2>3. rises \in Nat /\ presses \in Nat /\ rises + a + b + c <= presses
    BY DEF IInv, TypeOK, DataOK, Counted
  <2> HIDE DEF a, b, c
  <2> QED
    BY <2>2, <2>3 DEF FiresOncePerPress
<1>3. IInv /\ IInv' /\ ButtonCarried /\ Counted /\ [Next]_vars => ButtonCarried' /\ Counted'
  BY ButtonSteps, CountedStep
<1> QED
  BY <1>1, <1>2, <1>3, SpecIInv, PTL DEF Spec
=============================================================================
