--------------------------- MODULE TelemetryProofs ---------------------------
(***************************************************************************)
(* Proofs about Telemetry, for every ring, batch, queue and delay.         *)
(***************************************************************************)
EXTENDS Telemetry, TLAPS

-----------------------------------------------------------------------------
(* The types, thread by thread.                                            *)

\* The back-off stays within its bounds.
LEMMA DoubledBounded ==
  ASSUME NEW d \in BaseDelay .. MaxDelay
  PROVE  Doubled(d) \in BaseDelay .. MaxDelay
<1>1. MaxDelay \in Nat /\ BaseDelay \in Nat
  BY TelemetryAssumption
<1>2. CASE d < MaxDelay \div 2
  BY <1>1, <1>2 DEF Doubled
<1>3. CASE ~(d < MaxDelay \div 2)
  BY <1>1, <1>3 DEF Doubled
<1> QED
  BY <1>2, <1>3

\* The initial state has the types.
LEMMA TypeInit == Init => TypeOK
<1> SUFFICES ASSUME Init PROVE TypeOK
  OBVIOUS
<1>1. ComposerOK
  BY TelemetryAssumption DEF Init, ComposerOK
<1>2. LoggerOK
  BY TelemetryAssumption DEF Init, LoggerOK
<1>3. ConnectionOK
  BY TelemetryAssumption DEF Init, ConnectionOK, Never
<1>4. SendingOK
  BY TelemetryAssumption DEF Init, SendingOK
<1>5. FlagsOK
  BY DEF Init, FlagsOK
<1> QED
  BY <1>1, <1>2, <1>3, <1>4, <1>5 DEF TypeOK

\* Every step keeps the flags Boolean.
LEMMA FlagsStep ==
  ASSUME FlagsOK, [Next]_vars
  PROVE  FlagsOK'
<1> USE DEF FlagsOK, composerVars, loggerVars, connVars, sendVars
<1>1. CASE Compose \/ ComposerExit \/ StopLogger \/ StopComposer \/ Tick
  BY <1>1 DEF Compose, ComposerExit, StopLogger, StopComposer, Tick
<1>2. CASE Poll
  BY <1>2 DEF Poll
<1>3. CASE Pop \/ Drained \/ Publish \/ CancelService
  BY <1>3 DEF Pop, Drained, Publish, PublishBinary, CancelService
<1>4. CASE FirstConnect \/ ConnectionError \/ Closed
  BY <1>4 DEF FirstConnect, ConnectionError, Closed, ScheduleReconnect, NoConnection
<1>5. CASE Reconnect
  BY <1>5 DEF Reconnect, ScheduleReconnect
<1>6. CASE Established
  BY <1>6 DEF Established
<1>7. CASE WaitCancelled \/ Writeable \/ Subscribed \/ Ack \/ Resend
  BY <1>7 DEF WaitCancelled, Writeable, Send, SendSubscribe, Subscribed, Ack, Resend
<1>8. CASE UNCHANGED vars
  BY <1>8 DEF vars
<1> QED
  BY <1>1, <1>2, <1>3, <1>4, <1>5, <1>6, <1>7, <1>8 DEF Next, LoggerStep, ServiceStep

\* What flush_batch does to the types.
LEMMA FlushType ==
  ASSUME ComposerOK, FlushBatch
  PROVE  /\ fill' \in 0 .. BatchSize - 1 /\ made' = made + 1 /\ made' \in Nat \ {0}
         /\ ring' \in Seq(Nat \ {0}) /\ Len(ring') <= Capacity
         /\ dropped' \in Nat /\ hand' = hand /\ hand' \in Nat
<1> USE DEF ComposerOK
<1>1. fill' \in 0 .. BatchSize - 1 /\ made' = made + 1 /\ made' \in Nat \ {0}
  BY TelemetryAssumption DEF FlushBatch
<1>2. CASE LogRing!Accept(made')
  <2>1. ring' = Append(ring, made') /\ Len(ring) < Capacity /\ UNCHANGED <<dropped, hand>>
    BY <1>2 DEF LogRing!Accept
  <2>2. ring' \in Seq(Nat \ {0}) /\ Len(ring') = Len(ring) + 1 /\ Len(ring) \in Nat
    BY <1>1, <2>1
  <2> QED
    BY <1>1, <2>1, <2>2, TelemetryAssumption
<1>3. CASE LogRing!Refuse
  BY <1>1, <1>3 DEF LogRing!Refuse
<1> QED
  BY <1>1, <1>2, <1>3 DEF FlushBatch

\* Every step keeps the types of the composer and the ring.
LEMMA ComposerStep ==
  ASSUME TypeOK, [Next]_vars
  PROVE  ComposerOK'
<1> USE DEF TypeOK, ComposerOK, composerVars, ringVars
<1>1. CASE Compose
  <2>1. CASE FlushBatch
    BY <1>1, <2>1, FlushType DEF Compose
  <2>2. CASE fill + 1 < BatchSize /\ fill' = fill + 1 /\ UNCHANGED <<made, ringVars, lost>>
    BY <1>1, <2>2, TelemetryAssumption DEF Compose
  <2> QED
    BY <1>1, <2>1, <2>2 DEF Compose
<1>2. CASE ComposerExit
  <2>1. CASE FlushBatch
    BY <1>2, <2>1, FlushType DEF ComposerExit
  <2>2. CASE UNCHANGED <<fill, made, ringVars, lost>>
    BY <1>2, <2>2 DEF ComposerExit
  <2> QED
    BY <1>2, <2>1, <2>2 DEF ComposerExit
<1>3. CASE Pop
  <2>1. ring # <<>> /\ hand' = Head(ring) /\ ring' = Tail(ring) /\ UNCHANGED dropped
    BY <1>3 DEF Pop, LogRing!Deliver
  <2>2. ring' \in Seq(Nat \ {0}) /\ Len(ring') = Len(ring) - 1 /\ hand' \in Nat
    BY <2>1
  <2>3. Len(ring) \in Nat /\ Capacity \in Nat
    BY TelemetryAssumption
  <2> QED
    BY <1>3, <2>1, <2>2, <2>3 DEF Pop
<1>4. CASE StopComposer
  BY <1>4 DEF StopComposer
<1>5. CASE Poll \/ Drained \/ Publish \/ CancelService \/ StopLogger \/ Tick
  BY <1>5 DEF Poll, Drained, Publish, CancelService, StopLogger, Tick
<1>6. CASE ServiceStep
  BY <1>6 DEF ServiceStep, FirstConnect, Reconnect, Established, ConnectionError, Closed,
     WaitCancelled, Writeable, Subscribed, Ack, Resend
<1>7. CASE UNCHANGED vars
  BY <1>7 DEF vars
<1> QED
  BY <1>1, <1>2, <1>3, <1>4, <1>5, <1>6, <1>7 DEF Next, LoggerStep

\* Every step keeps the types of the logger.
LEMMA LoggerTypeStep ==
  ASSUME TypeOK, [Next]_vars
  PROVE  LoggerOK'
<1> USE DEF TypeOK, LoggerOK, loggerVars
<1>1. CASE Compose \/ ComposerExit \/ StopComposer
  BY <1>1 DEF Compose, ComposerExit, StopComposer
<1>2. CASE Poll
  BY <1>2, TelemetryAssumption DEF Poll
<1>3. CASE Pop
  BY <1>3, TelemetryAssumption DEF Pop
<1>4. CASE Drained \/ CancelService \/ StopLogger
  BY <1>4 DEF Drained, CancelService, StopLogger
<1>5. CASE Publish
  BY <1>5 DEF Publish, PublishBinary
<1>6. CASE ServiceStep
  BY <1>6 DEF ServiceStep, FirstConnect, Reconnect, Established, ConnectionError, Closed,
     WaitCancelled, Writeable, Subscribed, Ack, Resend
<1>7. CASE Tick
  BY <1>7, TelemetryAssumption DEF Tick
<1>8. CASE UNCHANGED vars
  BY <1>8 DEF vars
<1> QED
  BY <1>1, <1>2, <1>3, <1>4, <1>5, <1>6, <1>7, <1>8 DEF Next, LoggerStep

\* Every step keeps the types of the connection.
LEMMA ConnectionStep ==
  ASSUME TypeOK, [Next]_vars
  PROVE  ConnectionOK'
<1> USE DEF TypeOK, ConnectionOK, connVars
<1>1. CASE Compose \/ ComposerExit \/ StopComposer \/ StopLogger
  BY <1>1 DEF Compose, ComposerExit, StopComposer, StopLogger
<1>2. CASE LoggerStep
  BY <1>2 DEF LoggerStep, Poll, Pop, Drained, Publish, CancelService
<1>3. delay \in BaseDelay .. MaxDelay
  OBVIOUS
<1>4. /\ Doubled(delay) \in BaseDelay .. MaxDelay
      /\ Doubled(Doubled(delay)) \in BaseDelay .. MaxDelay
  BY <1>3, DoubledBounded
<1>5. MaxDelay \in Nat /\ BaseDelay \in Nat /\ BaseDelay <= MaxDelay
  BY TelemetryAssumption
<1>6. CASE FirstConnect
  BY <1>4, <1>5, <1>6 DEF FirstConnect, ScheduleReconnect, Never
<1>7. CASE Reconnect
  BY <1>4, <1>5, <1>7 DEF Reconnect, ScheduleReconnect, Never
<1>8. CASE Established
  BY <1>5, <1>8 DEF Established, Never
<1>9. CASE ConnectionError
  BY <1>4, <1>5, <1>9 DEF ConnectionError, ScheduleReconnect, Never
<1>10. CASE Closed
  BY <1>4, <1>5, <1>10 DEF Closed, ScheduleReconnect, Never
<1>11. CASE WaitCancelled \/ Subscribed \/ Ack \/ Resend
  BY <1>11 DEF WaitCancelled, Subscribed, Ack, Resend
<1>12. CASE Writeable
  BY <1>12 DEF Writeable, SendSubscribe, Send
<1>13. CASE Tick
  BY <1>5, <1>13 DEF Tick, Never
<1>14. CASE UNCHANGED vars
  BY <1>14 DEF vars
<1> QED
  BY <1>1, <1>2, <1>6, <1>7, <1>8, <1>9, <1>10, <1>11, <1>12, <1>13, <1>14
  DEF Next, ServiceStep

\* Every step keeps the types of the messages and of what libwebsockets knows.
LEMMA SendingStep ==
  ASSUME TypeOK, [Next]_vars
  PROVE  SendingOK'
<1> USE DEF TypeOK, SendingOK, sendVars
<1>0. made' \in Nat /\ hand' \in Nat /\ hand \in Nat
  BY ComposerStep DEF ComposerOK
<1>1. CASE Compose
  <2>1. lost' = lost \/ lost' = lost \cup {made'}
    BY <1>1 DEF Compose, FlushBatch
  <2>2. lost' \subseteq Nat
    BY <1>0, <2>1
  <2> QED
    BY <1>1, <2>2 DEF Compose
<1>2. CASE ComposerExit
  <2>1. lost' = lost \/ lost' = lost \cup {made'}
    BY <1>2 DEF ComposerExit, FlushBatch
  <2>2. lost' \subseteq Nat
    BY <1>0, <2>1
  <2> QED
    BY <1>2, <2>2 DEF ComposerExit
<1>3. CASE Pop
  <2>1. lost' = lost \/ lost' = lost \cup {hand'}
    BY <1>3 DEF Pop
  <2>2. lost' \subseteq Nat
    BY <1>0, <2>1
  <2> QED
    BY <1>3, <2>2 DEF Pop
<1>4. CASE Publish
  <2>1. CASE lost' = lost \cup {hand} /\ UNCHANGED msgs
    BY <1>0, <1>4, <2>1 DEF Publish
  <2>2. CASE Len(msgs) < HighWater /\ msgs' = Append(msgs, hand) /\ UNCHANGED lost
    <3>1. msgs' \in Seq(Nat) /\ Len(msgs') = Len(msgs) + 1 /\ Len(msgs) \in Nat
      BY <1>0, <2>2
    <3> QED
      BY <1>4, <2>2, <3>1, TelemetryAssumption DEF Publish
  <2> QED
    BY <1>4, <2>1, <2>2 DEF Publish, PublishBinary
<1>5. CASE Poll \/ Drained \/ CancelService \/ StopLogger \/ StopComposer \/ Tick
  BY <1>5 DEF Poll, Drained, CancelService, StopLogger, StopComposer, Tick
<1>6. CASE FirstConnect \/ Reconnect \/ ConnectionError
  BY <1>6 DEF FirstConnect, Reconnect, ConnectionError
<1>7. CASE Established
  BY <1>7, TelemetryAssumption DEF Established, Subscribe, Status
<1>8. CASE Closed
  BY <1>8 DEF Closed, NoConnection, Subscribe
<1>9. CASE WaitCancelled
  BY <1>9 DEF WaitCancelled
<1>10. CASE Writeable
  <2>1. CASE SendSubscribe
    BY <1>10, <2>1 DEF Writeable, SendSubscribe, Acks
  <2>2. CASE Send
    <3>1. /\ msgs # <<>> /\ msgs' = Tail(msgs) /\ UNCHANGED state
          /\ acks' \subseteq acks \cup {"ack", "puback"}
          /\ delivered' \subseteq delivered \cup {Head(msgs)}
          /\ lost' \subseteq lost \cup {Head(msgs)}
      BY <2>2 DEF Send
    <3>2. Head(msgs) \in Nat /\ msgs' \in Seq(Nat) /\ Len(msgs') <= HighWater
      BY <3>1, TelemetryAssumption
    <3> QED
      BY <3>1, <3>2 DEF Acks
  <2>3. CASE UNCHANGED <<msgs, link, state, acks, delivered, lost>>
    BY <2>3
  <2> QED
    BY <1>10, <2>1, <2>2, <2>3 DEF Writeable
<1>11. CASE Subscribed \/ Ack \/ Resend
  BY <1>11 DEF Subscribed, Ack, Resend
<1>12. CASE UNCHANGED vars
  BY <1>12 DEF vars
<1> QED
  BY <1>1, <1>2, <1>3, <1>4, <1>5, <1>6, <1>7, <1>8, <1>9, <1>10, <1>11, <1>12
  DEF Next, LoggerStep, ServiceStep

\* Everything stays in its range, for every value of the constants; above all, the ring
\* and the send queue never grow past their limits.
THEOREM Typed == Spec => []TypeOK
<1>1. TypeOK /\ [Next]_vars => TypeOK'
  BY FlagsStep, ComposerStep, LoggerTypeStep, ConnectionStep, SendingStep DEF TypeOK
<1> QED
  BY <1>1, TypeInit, PTL DEF Spec

-----------------------------------------------------------------------------
(* The connection.                                                         *)

\* OneAttempt and WsiNotFreed, with what makes them inductive: an attempt is pending only
\* while it is under way, and nothing is scheduled before the first.
ConnInv ==
  /\ OneAttempt
  /\ WsiNotFreed
  /\ pending => link = "connecting"
  /\ link \in {"unborn", "refused"} => reconnectAt = Never

\* The initial state satisfies it.
LEMMA ConnInit == Init => ConnInv
  BY DEF Init, ConnInv, OneAttempt, WsiNotFreed

\* A delay is a time that comes.
LEMMA DelayIsNotNever ==
  ASSUME NEW d \in BaseDelay .. MaxDelay
  PROVE  d # Never
  BY TelemetryAssumption DEF Never

\* Every step keeps it.
LEMMA ConnStep ==
  ASSUME TypeOK, ConnInv, [Next]_vars
  PROVE  ConnInv'
<1> USE DEF ConnInv, OneAttempt, WsiNotFreed, connVars
<1>1. delay \in BaseDelay .. MaxDelay /\ Doubled(delay) \in BaseDelay .. MaxDelay
  BY DoubledBounded DEF TypeOK, ConnectionOK
<1>2. delay # Never /\ Doubled(delay) # Never
  BY <1>1, DelayIsNotNever
<1>3. CASE Compose \/ ComposerExit \/ LoggerStep \/ StopLogger \/ StopComposer
  BY <1>3 DEF Compose, ComposerExit, LoggerStep, Poll, Pop, Drained, Publish, CancelService,
     StopLogger, StopComposer
<1>4. CASE FirstConnect
  BY <1>2, <1>4 DEF FirstConnect, ScheduleReconnect
<1>5. CASE Reconnect
  <2>1. 0 # Never
    BY TelemetryAssumption DEF Never
  <2>2. link = "idle"
    BY <1>5, <2>1 DEF Reconnect, TypeOK, ConnectionOK
  <2> QED
    BY <1>2, <1>5, <2>2 DEF Reconnect, ScheduleReconnect
<1>6. CASE Established
  BY <1>6 DEF Established
<1>7. CASE ConnectionError
  BY <1>2, <1>7 DEF ConnectionError, ScheduleReconnect
<1>8. CASE Closed
  BY <1>2, <1>8 DEF Closed, ScheduleReconnect
<1>9. CASE WaitCancelled \/ Subscribed \/ Ack \/ Resend
  BY <1>9 DEF WaitCancelled, Subscribed, Ack, Resend
<1>10. CASE Writeable
  <2>1. link = "up" /\ link' \in {"up", "broken"}
    BY <1>10 DEF Writeable, SendSubscribe, Send
  <2> QED
    BY <1>10, <2>1 DEF Writeable
<1>11. CASE Tick
  <2>1. /\ reconnectAt = Never => reconnectAt' = Never
        /\ reconnectAt # Never => reconnectAt' # Never
    BY <1>11, TelemetryAssumption DEF Tick, Never, TypeOK, ConnectionOK
  <2> QED
    BY <1>11, <2>1 DEF Tick
<1>12. CASE UNCHANGED vars
  BY <1>12 DEF vars
<1> QED
  BY <1>3, <1>4, <1>5, <1>6, <1>7, <1>8, <1>9, <1>10, <1>11, <1>12 DEF Next, ServiceStep

\* Both hold in every state.
LEMMA SpecConn == Spec => []ConnInv
  BY Typed, ConnInit, ConnStep, PTL DEF Spec

\* The connection is never given up or attempted twice at once: for every back-off,
\* whatever libwebsockets does in whatever order.
THEOREM ConnectionKept == Spec => []OneAttempt
<1>1. ConnInv => OneAttempt
  BY DEF ConnInv
<1> QED
  BY <1>1, SpecConn, PTL

\* The wsi that other threads' wake-ups make the service thread write to is never a freed
\* one, in whatever order connections are made, fail and close.
THEOREM WsiKept == Spec => []WsiNotFreed
<1>1. ConnInv => WsiNotFreed
  BY DEF ConnInv
<1> QED
  BY <1>1, SpecConn, PTL

-----------------------------------------------------------------------------
(* The order of the batches.                                               *)

\* The last batch popped separates what is still in the ring from what has left it; ring
\* and queue are ascending; what was sent is older than what is queued.
RingOrder ==
  /\ \A i \in 1 .. Len(ring) : hand < ring[i] /\ ring[i] <= made
  /\ \A i, j \in 1 .. Len(ring) : i < j => ring[i] < ring[j]

QueueOrder ==
  /\ \A i \in 1 .. Len(msgs) : msgs[i] <= hand /\ (lpc = "publish" => msgs[i] < hand)
  /\ \A i, j \in 1 .. Len(msgs) : i < j /\ msgs[j] # Status => msgs[i] < msgs[j]

SentOrder ==
  \A d \in delivered :
    /\ 0 < d /\ d <= hand /\ (lpc = "publish" => d < hand)
    /\ \A i \in 1 .. Len(msgs) : msgs[i] # Status => d < msgs[i]

OrderInv ==
  /\ hand <= made /\ (lpc = "publish" => hand > 0)
  /\ RingOrder /\ QueueOrder /\ SentOrder

\* The initial state satisfies it.
LEMMA OrderInit == Init => OrderInv
  BY DEF Init, OrderInv, RingOrder, QueueOrder, SentOrder

\* The elements of a sequence that grows, and of one that loses its head.
LEMMA AppendElements ==
  ASSUME NEW S, NEW s \in Seq(S), NEW x \in S
  PROVE  /\ Len(Append(s, x)) = Len(s) + 1
         /\ \A i \in 1 .. Len(s) : Append(s, x)[i] = s[i]
         /\ Append(s, x)[Len(s) + 1] = x
         /\ Len(s) \in Nat
  OBVIOUS

LEMMA TailElements ==
  ASSUME NEW S, NEW s \in Seq(S), s # <<>>
  PROVE  /\ Len(s) \in Nat \ {0}
         /\ Len(Tail(s)) = Len(s) - 1
         /\ \A i \in 1 .. Len(s) - 1 : Tail(s)[i] = s[i + 1]
         /\ Head(s) = s[1]
         /\ Tail(s) \in Seq(S)
  OBVIOUS

\* Appending something greater keeps a sequence ascending.
LEMMA AppendAscending ==
  ASSUME NEW s \in Seq(Nat), NEW x \in Nat,
         \A i, j \in 1 .. Len(s) : i < j => s[i] < s[j],
         \A i \in 1 .. Len(s) : s[i] < x
  PROVE  \A i, j \in 1 .. Len(Append(s, x)) :
           i < j => Append(s, x)[i] < Append(s, x)[j]
<1> DEFINE t == Append(s, x)
<1>1. /\ Len(t) = Len(s) + 1 /\ Len(s) \in Nat /\ t[Len(s) + 1] = x
      /\ \A i \in 1 .. Len(s) : t[i] = s[i]
  BY AppendElements
<1> HIDE DEF t
<1> SUFFICES ASSUME NEW i \in 1 .. Len(t), NEW j \in 1 .. Len(t), i < j
             PROVE  t[i] < t[j]
  BY DEF t
<1>2. i \in 1 .. Len(s) /\ t[i] = s[i]
  BY <1>1
<1>3. CASE j = Len(s) + 1
  BY <1>1, <1>2, <1>3
<1>4. CASE j \in 1 .. Len(s)
  BY <1>1, <1>2, <1>4
<1> QED
  BY <1>1, <1>3, <1>4

\* flush_batch keeps the order.
LEMMA OrderFlush ==
  ASSUME TypeOK, OrderInv, FlushBatch, UNCHANGED <<lpc, msgs, delivered>>
  PROVE  OrderInv'
<1> USE DEF TypeOK, ComposerOK
<1>1. made' = made + 1 /\ hand' = hand
  BY FlushType
<1>2. hand' <= made' /\ (lpc' = "publish" => hand' > 0)
  BY <1>1 DEF OrderInv
<1>3. QueueOrder' /\ SentOrder'
  BY <1>1 DEF OrderInv, QueueOrder, SentOrder
<1>4. \A i \in 1 .. Len(ring) : ring[i] \in Nat /\ hand < ring[i] /\ ring[i] < made'
  BY <1>1 DEF OrderInv, RingOrder
<1>5. CASE ring' = ring
  BY <1>1, <1>2, <1>3, <1>4, <1>5 DEF OrderInv, RingOrder
<1>6. CASE ring' = Append(ring, made')
  <2>1. /\ Len(ring') = Len(ring) + 1 /\ Len(ring) \in Nat /\ ring'[Len(ring) + 1] = made'
        /\ \A i \in 1 .. Len(ring) : ring'[i] = ring[i]
    BY <1>1, <1>6, AppendElements
  <2>2. ring \in Seq(Nat) /\ made' \in Nat
    BY <1>1
  <2>3. \A i, j \in 1 .. Len(ring') : i < j => ring'[i] < ring'[j]
    BY <1>4, <1>6, <2>2, AppendAscending DEF OrderInv, RingOrder
  <2>4. ASSUME NEW i \in 1 .. Len(ring')
        PROVE  hand' < ring'[i] /\ ring'[i] <= made'
    <3>1. CASE i = Len(ring) + 1
      BY <1>1, <2>1, <3>1 DEF OrderInv
    <3>2. CASE i \in 1 .. Len(ring)
      BY <1>1, <1>4, <2>1, <3>2
    <3> QED
      BY <2>1, <3>1, <3>2
  <2> QED
    BY <1>2, <1>3, <2>3, <2>4 DEF OrderInv, RingOrder
<1> QED
  BY <1>5, <1>6 DEF FlushBatch, LogRing!Accept, LogRing!Refuse

\* Popping keeps the order.
LEMMA OrderPop ==
  ASSUME TypeOK, OrderInv, Pop
  PROVE  OrderInv'
<1> USE DEF TypeOK, ComposerOK, SendingOK, composerVars, sendVars
<1>1. ring # <<>> /\ hand' = Head(ring) /\ ring' = Tail(ring)
  BY DEF Pop, LogRing!Deliver
<1>2. /\ Len(ring) \in Nat \ {0} /\ Len(ring') = Len(ring) - 1 /\ hand' = ring[1]
      /\ \A i \in 1 .. Len(ring) - 1 : ring'[i] = ring[i + 1]
      /\ ring' \in Seq(Nat \ {0})
  BY <1>1, TailElements
<1>3. hand' \in Nat /\ hand < hand' /\ hand' <= made /\ hand' > 0
  BY <1>2 DEF OrderInv, RingOrder
<1>4. made' = made /\ msgs' = msgs /\ delivered' = delivered
  BY DEF Pop
<1>5. \A i \in 1 .. Len(ring') : i + 1 \in 1 .. Len(ring) /\ ring'[i] = ring[i + 1]
  BY <1>2
<1>6. RingOrder'
  <2>1. ASSUME NEW i \in 1 .. Len(ring')
        PROVE  hand' < ring'[i] /\ ring'[i] <= made'
    <3>1. 1 \in 1 .. Len(ring) /\ i + 1 \in 1 .. Len(ring) /\ 1 < i + 1
      BY <1>2, <1>5
    <3> QED
      BY <1>2, <1>4, <1>5, <3>1 DEF OrderInv, RingOrder
  <2>2. ASSUME NEW i \in 1 .. Len(ring'), NEW j \in 1 .. Len(ring'), i < j
        PROVE  ring'[i] < ring'[j]
    <3>1. i + 1 \in 1 .. Len(ring) /\ j + 1 \in 1 .. Len(ring) /\ i + 1 < j + 1
      BY <1>2, <1>5, <2>2
    <3> QED
      BY <1>5, <3>1 DEF OrderInv, RingOrder
  <2> QED
    BY <2>1, <2>2 DEF RingOrder
<1>7. QueueOrder'
  <2>1. ASSUME NEW i \in 1 .. Len(msgs)
        PROVE  msgs[i] < hand' /\ msgs[i] <= hand'
    <3>1. msgs[i] \in Nat /\ msgs[i] <= hand
      BY DEF OrderInv, QueueOrder
    <3> QED
      BY <1>3, <3>1
  <2> QED
    BY <1>4, <2>1 DEF OrderInv, QueueOrder
<1>8. SentOrder'
  <2>1. ASSUME NEW d \in delivered
        PROVE  0 < d /\ d <= hand' /\ d < hand'
    <3>1. d \in Nat /\ 0 < d /\ d <= hand
      BY DEF OrderInv, SentOrder
    <3> QED
      BY <1>3, <3>1
  <2> QED
    BY <1>4, <2>1 DEF OrderInv, SentOrder
<1> QED
  BY <1>3, <1>4, <1>6, <1>7, <1>8 DEF OrderInv

\* Queueing a message that is newer than all, or the status, keeps the order.
LEMMA OrderQueue ==
  ASSUME TypeOK, OrderInv, NEW m \in Nat, msgs' = Append(msgs, m),
         m = Status \/ (m = hand /\ lpc = "publish"),
         lpc' = "publish" => lpc = "publish" /\ m = Status,
         UNCHANGED <<made, hand, ring, delivered>>
  PROVE  OrderInv'
<1> USE DEF TypeOK, ComposerOK, SendingOK, Status
<1>1. /\ Len(msgs') = Len(msgs) + 1 /\ Len(msgs) \in Nat /\ msgs'[Len(msgs) + 1] = m
      /\ \A i \in 1 .. Len(msgs) : msgs'[i] = msgs[i]
  BY AppendElements
<1>2. \A i \in 1 .. Len(msgs) :
        msgs[i] \in Nat /\ msgs[i] <= hand /\ (lpc = "publish" => msgs[i] < hand)
  BY DEF OrderInv, QueueOrder
<1>3. ASSUME NEW i \in 1 .. Len(msgs')
      PROVE  msgs'[i] <= hand /\ (lpc' = "publish" => msgs'[i] < hand)
  <2>1. CASE i \in 1 .. Len(msgs)
    BY <1>1, <1>2, <2>1
  <2>2. CASE i = Len(msgs) + 1
    BY <1>1, <2>2 DEF OrderInv
  <2> QED
    BY <1>1, <2>1, <2>2
<1>4. ASSUME NEW i \in 1 .. Len(msgs'), NEW j \in 1 .. Len(msgs'), i < j, msgs'[j] # Status
      PROVE  msgs'[i] < msgs'[j]
  <2>1. i \in 1 .. Len(msgs) /\ msgs'[i] = msgs[i]
    BY <1>1, <1>4
  <2>2. CASE j \in 1 .. Len(msgs)
    BY <1>1, <1>4, <2>1, <2>2 DEF OrderInv, QueueOrder
  <2>3. CASE j = Len(msgs) + 1
    BY <1>1, <1>2, <1>4, <2>1, <2>3
  <2> QED
    BY <1>1, <2>2, <2>3
<1>5. ASSUME NEW d \in delivered
      PROVE  /\ 0 < d /\ d <= hand /\ (lpc' = "publish" => d < hand)
             /\ \A i \in 1 .. Len(msgs') : msgs'[i] # Status => d < msgs'[i]
  <2>1. 0 < d /\ d <= hand /\ (lpc = "publish" => d < hand)
    BY DEF OrderInv, SentOrder
  <2>2. ASSUME NEW i \in 1 .. Len(msgs'), msgs'[i] # Status
        PROVE  d < msgs'[i]
    <3>1. CASE i \in 1 .. Len(msgs)
      BY <1>1, <2>2, <3>1 DEF OrderInv, SentOrder
    <3>2. CASE i = Len(msgs) + 1
      BY <1>1, <2>1, <2>2, <3>2
    <3> QED
      BY <1>1, <3>1, <3>2
  <2> QED
    BY <2>1, <2>2
<1>6. hand <= made /\ (lpc' = "publish" => hand > 0)
  BY DEF OrderInv
<1> QED
  BY <1>3, <1>4, <1>5, <1>6 DEF OrderInv, RingOrder, QueueOrder, SentOrder

\* Sending the oldest message keeps the order.
LEMMA OrderSend ==
  ASSUME TypeOK, OrderInv, Send, UNCHANGED <<made, hand, ring, lpc>>
  PROVE  OrderInv'
<1> USE DEF TypeOK, ComposerOK, SendingOK, Status
<1>1. /\ msgs # <<>> /\ msgs' = Tail(msgs)
      /\ delivered' \subseteq delivered \cup ({Head(msgs)} \ {Status})
  BY DEF Send
<1>2. /\ Len(msgs) \in Nat \ {0} /\ Len(msgs') = Len(msgs) - 1 /\ Head(msgs) = msgs[1]
      /\ \A i \in 1 .. Len(msgs) - 1 : msgs'[i] = msgs[i + 1]
      /\ msgs' \in Seq(Nat)
  BY <1>1, TailElements
<1>3. 1 \in 1 .. Len(msgs) /\ \A i \in 1 .. Len(msgs') :
        i + 1 \in 1 .. Len(msgs) /\ msgs'[i] = msgs[i + 1] /\ 1 < i + 1
  <2> DEFINE n == Len(msgs)
  <2>1. n \in Nat \ {0} /\ Len(msgs') = n - 1
    BY <1>2
  <2>2. \A i \in 1 .. n - 1 : msgs'[i] = msgs[i + 1]
    BY <1>2
  <2> HIDE DEF n
  <2>3. 1 \in 1 .. n /\ \A i \in 1 .. n - 1 : i + 1 \in 1 .. n /\ 1 < i + 1
    BY <2>1
  <2>4. \A i \in 1 .. Len(msgs') : i \in 1 .. n - 1
    BY <2>1
  <2>5. 1 \in 1 .. n /\ \A i \in 1 .. Len(msgs') :
          i + 1 \in 1 .. n /\ msgs'[i] = msgs[i + 1] /\ 1 < i + 1
    BY <2>2, <2>3, <2>4
  <2> QED
    BY <2>5 DEF n
<1>4. \A i \in 1 .. Len(msgs') : msgs'[i] <= hand /\ (lpc = "publish" => msgs'[i] < hand)
  BY <1>3 DEF OrderInv, QueueOrder
<1>5. ASSUME NEW i \in 1 .. Len(msgs'), NEW j \in 1 .. Len(msgs'), i < j, msgs'[j] # Status
      PROVE  msgs'[i] < msgs'[j]
  <2>1. i + 1 \in 1 .. Len(msgs) /\ j + 1 \in 1 .. Len(msgs) /\ i + 1 < j + 1
    BY <1>2, <1>3, <1>5
  <2> QED
    BY <1>3, <1>5, <2>1 DEF OrderInv, QueueOrder
<1>6. ASSUME NEW d \in delivered'
      PROVE  /\ 0 < d /\ d <= hand /\ (lpc = "publish" => d < hand)
             /\ \A i \in 1 .. Len(msgs') : msgs'[i] # Status => d < msgs'[i]
  <2>1. CASE d \in delivered
    BY <1>3, <2>1 DEF OrderInv, SentOrder
  <2>2. CASE d = msgs[1] /\ d # Status
    <3>1. d \in Nat /\ 0 < d /\ d <= hand /\ (lpc = "publish" => d < hand)
      BY <1>3, <2>2 DEF OrderInv, QueueOrder
    <3>2. \A i \in 1 .. Len(msgs') : msgs'[i] # Status => d < msgs'[i]
      BY <1>3, <2>2 DEF OrderInv, QueueOrder
    <3> QED
      BY <3>1, <3>2
  <2> QED
    BY <1>1, <1>2, <2>1, <2>2
<1> QED
  BY <1>4, <1>5, <1>6 DEF OrderInv, RingOrder, QueueOrder, SentOrder

\* Every step keeps the order.
LEMMA OrderStep ==
  ASSUME TypeOK, OrderInv, [Next]_vars
  PROVE  OrderInv'
<1> USE DEF composerVars, ringVars, sendVars, loggerVars
<1>0. ASSUME UNCHANGED <<made, hand, ring, msgs, delivered>>, lpc' = "publish" => lpc = "publish"
      PROVE  OrderInv'
  BY <1>0 DEF OrderInv, RingOrder, QueueOrder, SentOrder
<1>1. CASE Compose
  <2>1. CASE FlushBatch
    BY <1>1, <2>1, OrderFlush DEF Compose
  <2>2. CASE UNCHANGED <<made, ringVars, lost>>
    BY <1>0, <1>1, <2>2 DEF Compose
  <2> QED
    BY <1>1, <2>1, <2>2 DEF Compose
<1>2. CASE ComposerExit
  <2>1. CASE FlushBatch
    BY <1>2, <2>1, OrderFlush DEF ComposerExit
  <2>2. CASE UNCHANGED <<made, ringVars, lost>>
    BY <1>0, <1>2, <2>2 DEF ComposerExit
  <2> QED
    BY <1>2, <2>1, <2>2 DEF ComposerExit
<1>3. CASE Pop
  BY <1>3, OrderPop
<1>4. CASE Publish
  <2>1. CASE Len(msgs) < HighWater /\ msgs' = Append(msgs, hand) /\ lpc' = "wake"
    BY <1>4, <2>1, OrderQueue DEF Publish, TypeOK, ComposerOK
  <2>2. CASE UNCHANGED msgs /\ lpc' = "drain"
    BY <1>0, <1>4, <2>2 DEF Publish
  <2> QED
    BY <1>4, <2>1, <2>2 DEF Publish, PublishBinary
<1>5. CASE Poll \/ Drained \/ CancelService \/ StopLogger \/ StopComposer \/ Tick
  BY <1>0, <1>5 DEF Poll, Drained, CancelService, StopLogger, StopComposer, Tick
<1>6. CASE Established
  <2>1. CASE msgs' = Append(msgs, Status)
    BY <1>6, <2>1, OrderQueue DEF Established, Status
  <2>2. CASE UNCHANGED msgs
    BY <1>0, <1>6, <2>2 DEF Established
  <2> QED
    BY <1>6, <2>1, <2>2 DEF Established
<1>7. CASE Writeable
  <2>1. CASE Send
    BY <1>7, <2>1, OrderSend DEF Writeable
  <2>2. CASE UNCHANGED <<msgs, delivered>>
    BY <1>0, <1>7, <2>2 DEF Writeable
  <2> QED
    BY <1>7, <2>1, <2>2 DEF Writeable, SendSubscribe
<1>8. CASE FirstConnect \/ Reconnect \/ ConnectionError \/ Closed \/ WaitCancelled
           \/ Subscribed \/ Ack \/ Resend
  BY <1>0, <1>8 DEF FirstConnect, Reconnect, ConnectionError, Closed, WaitCancelled,
     Subscribed, Ack, Resend
<1>9. CASE UNCHANGED vars
  BY <1>0, <1>9 DEF vars
<1> QED
  BY <1>1, <1>2, <1>3, <1>4, <1>5, <1>6, <1>7, <1>8, <1>9 DEF Next, LoggerStep, ServiceStep

\* The broker receives the batches in order and none twice, for every size of the ring
\* and the queue and every thinning.
THEOREM InOrder == Spec => SentInOrder
<1>1. TypeOK /\ OrderInv /\ [Next]_vars
        => [\A b \in delivered' \ delivered : \A d \in delivered : d < b]_vars
  <2> SUFFICES ASSUME TypeOK, OrderInv, Next, NEW b \in delivered' \ delivered,
                      NEW d \in delivered
               PROVE  d < b
    BY DEF vars
  <2> USE DEF composerVars, ringVars, sendVars, loggerVars
  <2>1. Writeable
    BY DEF Next, LoggerStep, ServiceStep, Compose, ComposerExit, StopLogger, StopComposer,
       Tick, Poll, Pop, Drained, Publish, CancelService, FirstConnect, Reconnect, Established,
       ConnectionError, Closed, WaitCancelled, Subscribed, Ack, Resend
  <2>2. msgs # <<>> /\ b = Head(msgs) /\ b # Status
    BY <2>1 DEF Writeable, Send, SendSubscribe
  <2>3. Len(msgs) \in Nat \ {0} /\ b = msgs[1]
    BY <2>2, TailElements DEF TypeOK, SendingOK
  <2> QED
    BY <2>2, <2>3 DEF OrderInv, SentOrder
<1> QED
  BY <1>1, Typed, OrderInit, OrderStep, PTL DEF Spec, SentInOrder

-----------------------------------------------------------------------------
(* What becomes of the batches.                                            *)

Elements(s) == {s[i] : i \in 1 .. Len(s)}

\* The set of elements of a sequence that grows, and of one that loses its head.
LEMMA AppendRange ==
  ASSUME NEW S, NEW s \in Seq(S), NEW x \in S
  PROVE  Elements(Append(s, x)) = Elements(s) \cup {x}
<1> DEFINE t == Append(s, x)
<1>1. /\ Len(t) = Len(s) + 1 /\ Len(s) \in Nat /\ t[Len(s) + 1] = x
      /\ \A i \in 1 .. Len(s) : t[i] = s[i]
  BY AppendElements
<1> HIDE DEF t
<1>2. \A i \in 1 .. Len(t) : i \in 1 .. Len(s) \/ i = Len(s) + 1
  BY <1>1
<1>3. Len(s) + 1 \in 1 .. Len(t) /\ \A i \in 1 .. Len(s) : i \in 1 .. Len(t)
  BY <1>1
<1>4. Elements(t) \subseteq Elements(s) \cup {x}
  BY <1>1, <1>2 DEF Elements
<1>5. Elements(s) \cup {x} \subseteq Elements(t)
  BY <1>1, <1>3 DEF Elements
<1> QED
  BY <1>4, <1>5 DEF t

LEMMA TailRange ==
  ASSUME NEW S, NEW s \in Seq(S), s # <<>>
  PROVE  Elements(s) = Elements(Tail(s)) \cup {Head(s)}
<1> DEFINE t == Tail(s)
<1>1. /\ Len(s) \in Nat \ {0} /\ Len(t) = Len(s) - 1 /\ Head(s) = s[1]
      /\ \A i \in 1 .. Len(s) - 1 : t[i] = s[i + 1]
  BY TailElements
<1> HIDE DEF t
<1>2. \A i \in 1 .. Len(t) : i + 1 \in 1 .. Len(s) /\ t[i] = s[i + 1]
  BY <1>1
<1>3. \A i \in 1 .. Len(s) : i = 1 \/ (i - 1 \in 1 .. Len(t) /\ t[i - 1] = s[i])
  BY <1>1
<1>4. 1 \in 1 .. Len(s)
  BY <1>1
<1>5. Elements(t) \cup {Head(s)} \subseteq Elements(s)
  BY <1>1, <1>2, <1>4 DEF Elements
<1>6. Elements(s) \subseteq Elements(t) \cup {Head(s)}
  BY <1>1, <1>3 DEF Elements
<1> QED
  BY <1>5, <1>6 DEF t

\* The three places a batch can be in, by their order: queued batches are older than the
\* one in the logger's hand, and that one is older than those in the ring.
LEMMA PlacesApart ==
  ASSUME TypeOK, OrderInv
  PROVE  /\ \A b \in Queued : b \in Nat /\ 0 < b /\ b <= hand /\ (lpc = "publish" => b < hand)
         /\ \A b \in InRing : b \in Nat /\ hand < b
         /\ \A b \in InHand : b = hand /\ 0 < hand
         /\ hand \in Nat /\ made \in Nat
<1> USE DEF TypeOK, ComposerOK, SendingOK
<1>1. \A b \in Queued : b \in Nat /\ 0 < b /\ b <= hand /\ (lpc = "publish" => b < hand)
  BY DEF Queued, Status, OrderInv, QueueOrder
<1>2. \A b \in InRing : b \in Nat /\ hand < b
  BY DEF InRing, OrderInv, RingOrder
<1>3. \A b \in InHand : b = hand /\ 0 < hand
  BY DEF InHand, OrderInv
<1> QED
  BY <1>1, <1>2, <1>3

\* What a step can do to the batches: nothing that shows, number a new one, end the way
\* of one in a loss, or end the way of the oldest one at the broker.
Kept == UNCHANGED <<made, OnTheWay, delivered, lost>>
Numbered ==
  /\ made' = made + 1 /\ UNCHANGED delivered
  /\ \/ OnTheWay' = OnTheWay \cup {made'} /\ UNCHANGED lost
     \/ OnTheWay' = OnTheWay /\ lost' = lost \cup {made'}
Lost(b) ==
  /\ OnTheWay' = OnTheWay \ {b} /\ lost' = lost \cup {b}
  /\ UNCHANGED <<made, delivered>>
Sent(b) ==
  /\ \A c \in OnTheWay : b <= c
  /\ OnTheWay' = OnTheWay \ {b} /\ delivered' = delivered \cup {b}
  /\ UNCHANGED <<made, lost>>
BatchMove == Kept \/ Numbered \/ \E b \in OnTheWay : Lost(b) \/ Sent(b)

\* flush_batch: the new batch goes into the ring or is lost there.
LEMMA BatchFlush ==
  ASSUME TypeOK, OrderInv, FlushBatch, UNCHANGED <<lpc, msgs, delivered>>
  PROVE  Numbered
<1> USE DEF TypeOK, ComposerOK
<1>1. made \in Nat /\ made' = made + 1 /\ hand' = hand
  BY FlushType
<1>3. Queued' = Queued /\ InHand' = InHand
  BY <1>1 DEF Queued, InHand, Status
<1>4. CASE ring' = Append(ring, made') /\ lost' = lost
  <2>1. InRing' = InRing \cup {made'}
    <3>1. ring \in Seq(Nat) /\ made' \in Nat
      BY <1>1
    <3> QED
      BY <1>4, <3>1, AppendRange DEF InRing, Elements
  <2>2. OnTheWay' = OnTheWay \cup {made'}
    BY <1>3, <2>1 DEF OnTheWay
  <2> QED
    BY <1>1, <1>4, <2>2 DEF Numbered
<1>5. CASE ring' = ring /\ lost' = lost \cup {made'}
  <2>1. OnTheWay' = OnTheWay
    BY <1>3, <1>5 DEF OnTheWay, InRing
  <2> QED
    BY <1>1, <1>5, <2>1 DEF Numbered
<1> QED
  BY <1>4, <1>5 DEF FlushBatch, LogRing!Accept, LogRing!Refuse

\* Popping: the batch moves into the logger's hand, or is thinned out.
LEMMA BatchPop ==
  ASSUME TypeOK, OrderInv, Pop
  PROVE  Kept \/ \E b \in OnTheWay : Lost(b)
<1> USE DEF composerVars, sendVars
<1>1. ring # <<>> /\ hand' = Head(ring) /\ ring' = Tail(ring) /\ lpc = "drain"
      /\ UNCHANGED <<made, msgs, delivered>>
  BY DEF Pop, LogRing!Deliver
<1>2. ring \in Seq(Nat)
  BY DEF TypeOK, ComposerOK
<1>3. InRing = InRing' \cup {hand'}
  BY <1>1, <1>2, TailRange DEF InRing, Elements
<1>4. OrderInv'
  BY OrderPop
<1>5. hand' \in InRing /\ hand' \notin InRing'
  <2>1. \A b \in InRing' : b \in Nat /\ hand' < b /\ hand' \in Nat
    BY <1>3, <1>4, PlacesApart DEF OrderInv, RingOrder, InRing
  <2> QED
    BY <1>3, <2>1
<1>6. hand' \notin Queued /\ Queued' = Queued /\ InHand = {}
  <2>1. \A b \in Queued : b \in Nat /\ b <= hand /\ hand \in Nat /\ hand < hand' /\ hand' \in Nat
    BY <1>5, PlacesApart
  <2> QED
    BY <1>1, <2>1 DEF Queued, Status, InHand
<1>7. CASE lpc' = "publish" /\ UNCHANGED lost
  BY <1>1, <1>3, <1>6, <1>7 DEF Kept, OnTheWay, InHand
<1>8. CASE lost' = lost \cup {hand'} /\ UNCHANGED lpc
  <2>1. OnTheWay' = OnTheWay \ {hand'} /\ hand' \in OnTheWay
    BY <1>1, <1>3, <1>5, <1>6, <1>8 DEF OnTheWay, InHand
  <2> QED
    BY <1>1, <1>8, <2>1 DEF Lost
<1> QED
  BY <1>7, <1>8 DEF Pop

\* Publishing: the batch moves into the send queue, or is refused.
LEMMA BatchPublish ==
  ASSUME TypeOK, OrderInv, Publish
  PROVE  Kept \/ \E b \in OnTheWay : Lost(b)
<1> USE DEF composerVars, ringVars
<1>1. lpc = "publish" /\ UNCHANGED <<made, hand, ring, delivered>> /\ InHand = {hand}
      /\ InRing' = InRing
  BY DEF Publish, InHand, InRing
<1>2. hand \in Nat /\ 0 < hand /\ hand \notin Queued /\ hand \notin InRing
  <2>1. hand \in Nat /\ 0 < hand
    BY <1>1, PlacesApart
  <2>2. \A b \in Queued : b \in Nat /\ b < hand
    BY <1>1, PlacesApart
  <2>3. \A b \in InRing : b \in Nat /\ hand < b
    BY PlacesApart
  <2> QED
    BY <2>1, <2>2, <2>3
<1>3. CASE msgs' = Append(msgs, hand) /\ lpc' = "wake" /\ UNCHANGED lost
  <2>1. Elements(msgs') = Elements(msgs) \cup {hand}
    BY <1>2, <1>3, AppendRange DEF TypeOK, SendingOK
  <2>2. Queued' = Queued \cup {hand} /\ InHand' = {}
    BY <1>2, <1>3, <2>1 DEF Queued, Elements, Status, InHand
  <2> QED
    BY <1>1, <1>3, <2>2 DEF Kept, OnTheWay
<1>4. CASE lost' = lost \cup {hand} /\ lpc' = "drain" /\ UNCHANGED msgs
  <2>1. Queued' = Queued /\ InHand' = {}
    BY <1>4 DEF Queued, Status, InHand
  <2>2. OnTheWay' = OnTheWay \ {hand} /\ hand \in OnTheWay
    BY <1>1, <1>2, <2>1 DEF OnTheWay
  <2> QED
    BY <1>1, <1>4, <2>2 DEF Lost
<1> QED
  BY <1>3, <1>4 DEF Publish, PublishBinary

\* Sending: a batch reaches the broker or is lost with the failed write; the status
\* message is none.
LEMMA BatchSend ==
  ASSUME TypeOK, OrderInv, Send, UNCHANGED <<made, hand, ring, lpc>>
  PROVE  Kept \/ \E b \in OnTheWay : Lost(b) \/ Sent(b)
<1> DEFINE h == Head(msgs)
<1>1. /\ msgs # <<>> /\ msgs' = Tail(msgs)
      /\ \/ delivered' = delivered \cup ({h} \ {Status}) /\ UNCHANGED lost
         \/ lost' = lost \cup ({h} \ {Status}) /\ UNCHANGED delivered
  BY DEF Send
<1>2. msgs \in Seq(Nat)
  BY DEF TypeOK, SendingOK
<1>3. Elements(msgs) = Elements(msgs') \cup {h}
  BY <1>1, <1>2, TailRange
<1>4. InHand' = InHand /\ InRing' = InRing
  BY DEF InHand, InRing
<1>5. CASE h = Status
  <2>1. Queued' = Queued
    BY <1>3, <1>5 DEF Queued, Elements, Status
  <2> QED
    BY <1>1, <1>4, <1>5, <2>1 DEF Kept, OnTheWay
<1>6. CASE h # Status
  <2>1. h \in Queued
    BY <1>3, <1>6 DEF Queued, Elements
  <2>2. h \notin Queued' /\ h \in Nat /\ \A c \in Queued : c \in Nat /\ h <= c
    <3>1. /\ Len(msgs) \in Nat \ {0} /\ Len(msgs') = Len(msgs) - 1 /\ h = msgs[1]
          /\ \A i \in 1 .. Len(msgs) - 1 : msgs'[i] = msgs[i + 1]
      BY <1>1, <1>2, TailElements
    <3> HIDE DEF h
    <3>2. \A i \in 1 .. Len(msgs') :
            1 \in 1 .. Len(msgs) /\ i + 1 \in 1 .. Len(msgs) /\ 1 < i + 1 /\ msgs'[i] = msgs[i + 1]
      BY <3>1
    <3>3. ASSUME NEW i \in 1 .. Len(msgs'), msgs'[i] # Status
          PROVE  h \in Nat /\ msgs'[i] \in Nat /\ h < msgs'[i]
      <4>1. h < msgs'[i]
        BY <3>1, <3>2, <3>3 DEF OrderInv, QueueOrder
      <4>2. \A k \in 1 .. Len(msgs) : msgs[k] \in Nat
        BY <1>2
      <4>3. h \in Nat /\ msgs'[i] \in Nat
        BY <3>1, <3>2, <4>2
      <4> QED
        BY <4>1, <4>3
    <3>4. \A c \in Queued' : c \in Nat /\ h < c
      BY <3>3 DEF Queued, Status
    <3>5. h \in Nat
      BY <1>2, <3>1
    <3>6. \A c \in Queued : c \in Queued' \/ c = h
      BY <1>3 DEF Queued, Elements, Status
    <3> QED
      BY <3>4, <3>5, <3>6
  <2>3. h \notin InHand /\ h \notin InRing
    <3>1. h \in Nat /\ h <= hand /\ (lpc = "publish" => h < hand) /\ hand \in Nat
      BY <2>1, PlacesApart
    <3>2. h \notin InRing
      BY <3>1, PlacesApart
    <3>3. h \notin InHand
      BY <3>1 DEF InHand
    <3> QED
      BY <3>2, <3>3
  <2>4. Queued' = Queued \ {h}
    BY <1>3, <1>6, <2>2 DEF Queued, Elements, Status
  <2>5. OnTheWay' = OnTheWay \ {h} /\ h \in OnTheWay
    BY <1>4, <2>1, <2>3, <2>4 DEF OnTheWay
  <2>6. \A c \in OnTheWay : h <= c
    <3>1. h <= hand /\ hand \in Nat
      BY <2>1, PlacesApart
    <3>2. \A c \in InHand \cup InRing : c \in Nat /\ hand <= c
      BY PlacesApart
    <3> HIDE DEF h
    <3> QED
      BY <2>2, <3>1, <3>2 DEF OnTheWay
  <2>7. \/ delivered' = delivered \cup {h} /\ UNCHANGED lost
        \/ lost' = lost \cup {h} /\ UNCHANGED delivered
    BY <1>1, <1>6
  <2> HIDE DEF h
  <2> QED
    BY <2>5, <2>6, <2>7 DEF Lost, Sent
<1> QED
  BY <1>5, <1>6

\* Every step moves the batches in one of these ways.
LEMMA BatchMoves ==
  ASSUME TypeOK, OrderInv, [Next]_vars
  PROVE  BatchMove
<1> USE DEF BatchMove, composerVars, ringVars, sendVars, loggerVars
<1>0. ASSUME UNCHANGED <<made, hand, ring, msgs, delivered, lost>>,
             lpc' = "publish" <=> lpc = "publish"
      PROVE  BatchMove
  <2>1. OnTheWay' = OnTheWay
    BY <1>0 DEF OnTheWay, Queued, InHand, InRing, Status
  <2> QED
    BY <1>0, <2>1 DEF Kept
<1>1. CASE Compose
  <2>1. CASE FlushBatch
    BY <1>1, <2>1, BatchFlush DEF Compose
  <2>2. CASE UNCHANGED <<made, ringVars, lost>>
    BY <1>0, <1>1, <2>2 DEF Compose
  <2> QED
    BY <1>1, <2>1, <2>2 DEF Compose
<1>2. CASE ComposerExit
  <2>1. CASE FlushBatch
    BY <1>2, <2>1, BatchFlush DEF ComposerExit
  <2>2. CASE UNCHANGED <<made, ringVars, lost>>
    BY <1>0, <1>2, <2>2 DEF ComposerExit
  <2> QED
    BY <1>2, <2>1, <2>2 DEF ComposerExit
<1>3. CASE Pop \/ Publish
  BY <1>3, BatchPop, BatchPublish
<1>4. CASE Poll \/ Drained \/ CancelService \/ StopLogger \/ StopComposer \/ Tick
  BY <1>0, <1>4 DEF Poll, Drained, CancelService, StopLogger, StopComposer, Tick
<1>5. CASE Established
  <2>1. UNCHANGED <<made, hand, ring, delivered, lost, lpc>>
    BY <1>5 DEF Established
  <2>2. CASE msgs' = Append(msgs, Status)
    <3>1. Elements(msgs') = Elements(msgs) \cup {Status}
      BY <2>2, AppendRange DEF TypeOK, SendingOK, Status
    <3>2. Queued' = Queued
      BY <3>1 DEF Queued, Elements, Status
    <3> QED
      BY <2>1, <3>2 DEF Kept, OnTheWay, InHand, InRing
  <2>3. CASE UNCHANGED msgs
    BY <1>0, <2>1, <2>3
  <2> QED
    BY <1>5, <2>2, <2>3 DEF Established
<1>6. CASE Writeable
  <2>1. CASE Send
    BY <1>6, <2>1, BatchSend DEF Writeable
  <2>2. CASE UNCHANGED <<msgs, delivered, lost>>
    BY <1>0, <1>6, <2>2 DEF Writeable
  <2> QED
    BY <1>6, <2>1, <2>2 DEF Writeable, SendSubscribe
<1>7. CASE FirstConnect \/ Reconnect \/ ConnectionError \/ Closed \/ WaitCancelled
           \/ Subscribed \/ Ack \/ Resend
  BY <1>0, <1>7 DEF FirstConnect, Reconnect, ConnectionError, Closed, WaitCancelled,
     Subscribed, Ack, Resend
<1>8. CASE UNCHANGED vars
  BY <1>0, <1>8 DEF vars
<1> QED
  BY <1>1, <1>2, <1>3, <1>4, <1>5, <1>6, <1>7, <1>8 DEF Next, LoggerStep, ServiceStep

\* None of these moves doubles a batch or makes one vanish.
LEMMA BatchStep ==
  ASSUME made \in Nat, EveryBatchOnce, BatchMove
  PROVE  EveryBatchOnce'
<1>1. CASE Kept
  BY <1>1 DEF EveryBatchOnce, Kept
<1>2. CASE Numbered
  <2>1. 1 .. made' = (1 .. made) \cup {made'} /\ made' \notin 1 .. made
    BY <1>2 DEF Numbered
  <2> QED
    BY <1>2, <2>1 DEF EveryBatchOnce, Numbered
<1>3. ASSUME NEW b \in OnTheWay, Lost(b) \/ Sent(b) PROVE EveryBatchOnce'
  <2>1. /\ UNCHANGED made /\ OnTheWay' = OnTheWay \ {b}
        /\ \/ delivered' = delivered \cup {b} /\ UNCHANGED lost
           \/ lost' = lost \cup {b} /\ UNCHANGED delivered
    BY <1>3 DEF Lost, Sent
  <2>2. delivered' \cup lost' = delivered \cup lost \cup {b}
    BY <2>1
  <2>3. OnTheWay' \cup delivered' \cup lost' = OnTheWay \cup delivered \cup lost
    BY <2>1, <2>2
  <2>4. OnTheWay' \cap (delivered' \cup lost') = {}
    BY <2>1, <2>2 DEF EveryBatchOnce
  <2>5. b \notin delivered \cup lost
    BY DEF EveryBatchOnce
  <2>6. delivered' \cap lost' = {}
    BY <2>1, <2>5 DEF EveryBatchOnce
  <2> QED
    BY <2>1, <2>3, <2>4, <2>6 DEF EveryBatchOnce
<1> QED
  BY <1>1, <1>2, <1>3 DEF BatchMove

\* Every batch is accounted for, exactly once, for every size of the ring and the queue,
\* every thinning and every number of reconnections.
THEOREM Accounted == Spec => []EveryBatchOnce
<1>1. Init => EveryBatchOnce
  BY DEF Init, EveryBatchOnce, OnTheWay, Queued, InHand, InRing
<1>2. TypeOK /\ OrderInv /\ EveryBatchOnce /\ [Next]_vars => EveryBatchOnce'
  BY BatchMoves, BatchStep DEF TypeOK, ComposerOK
<1> QED
  BY <1>1, <1>2, Typed, OrderInit, OrderStep, PTL DEF Spec

\* The pipeline implements LossyChannel, for every size of the ring and the queue, every
\* thinning and every number of reconnections: flush_batch offers a batch, a successful
\* write delivers the oldest one on its way, and all other places can only lose one.
THEOREM PipelineImplementsChannel == Spec => ImplementsChannel
<1>1. Init => Channel!Init
  BY DEF Init, Channel!Init, OnTheWay, Queued, InHand, InRing
<1>2. TypeOK /\ OrderInv /\ [Next]_vars => [Channel!Next]_(Channel!vars)
  <2> SUFFICES ASSUME BatchMove PROVE [Channel!Next]_(Channel!vars)
    BY BatchMoves
  <2>1. CASE Kept
    BY <2>1 DEF Kept, Channel!vars
  <2>2. CASE Numbered
    BY <2>2 DEF Numbered, Channel!Next, Channel!Offer
  <2>3. ASSUME NEW b \in OnTheWay, Lost(b) \/ Sent(b) PROVE Channel!Next
    BY <2>3 DEF Lost, Sent, Channel!Next, Channel!Lose, Channel!Deliver
  <2> QED
    BY <2>1, <2>2, <2>3 DEF BatchMove
<1> QED
  BY <1>1, <1>2, Typed, OrderInit, OrderStep, PTL DEF Spec, ImplementsChannel, Channel!Spec

-----------------------------------------------------------------------------
(* The wake-ups.                                                           *)

\* Every step keeps a full queue on an open connection with somebody to serve it.
LEMMA WakeupStep ==
  ASSUME TypeOK, ConnInv, NoLostWakeup, [Next]_vars
  PROVE  NoLostWakeup'
<1> USE DEF NoLostWakeup, TypeOK, SendingOK, ConnInv, composerVars, ringVars, loggerVars,
            connVars, sendVars
<1>1. CASE Compose \/ ComposerExit \/ StopLogger \/ StopComposer \/ Tick
  BY <1>1 DEF Compose, ComposerExit, StopLogger, StopComposer, Tick
<1>2. CASE Poll \/ Pop \/ Drained
  BY <1>2 DEF Poll, Pop, Drained
<1>3. CASE Publish
  BY <1>3 DEF Publish, PublishBinary
<1>4. CASE CancelService
  BY <1>4 DEF CancelService
<1>5. CASE FirstConnect \/ Reconnect \/ ConnectionError \/ Closed
  BY <1>5 DEF FirstConnect, Reconnect, ConnectionError, Closed
<1>6. CASE Established
  BY <1>6 DEF Established
<1>7. CASE WaitCancelled
  <2>1. link = "up" => wsi = "live"
    BY DEF WsiNotFreed
  <2>2. Len(msgs) = HighWater => msgs # <<>>
    BY TelemetryAssumption
  <2> QED
    BY <1>7, <2>1, <2>2 DEF WaitCancelled
<1>8. CASE Writeable
  <2>1. CASE SendSubscribe
    BY <1>8, <2>1 DEF Writeable, SendSubscribe
  <2>2. CASE Send
    <3>1. Len(msgs') = Len(msgs) - 1 /\ Len(msgs) \in Nat
      BY <2>2, TailElements DEF Send
    <3> QED
      BY <3>1, TelemetryAssumption
  <2>3. CASE msgs = <<>> /\ UNCHANGED msgs
    BY <2>3, TelemetryAssumption
  <2> QED
    BY <1>8, <2>1, <2>2, <2>3 DEF Writeable
<1>9. CASE Subscribed \/ Ack \/ Resend
  BY <1>9 DEF Subscribed, Ack, Resend
<1>10. CASE UNCHANGED vars
  BY <1>10 DEF vars
<1> QED
  BY <1>1, <1>2, <1>3, <1>4, <1>5, <1>6, <1>7, <1>8, <1>9, <1>10
  DEF Next, LoggerStep, ServiceStep

\* A full send queue always has somebody to serve it on an open connection, for every
\* limit of the queue: although refused messages wake nobody, no sequence of callbacks
\* leaves the service thread asleep over it.
THEOREM FullQueueServed == Spec => []NoLostWakeup
<1>1. Init => NoLostWakeup
  BY DEF Init, NoLostWakeup
<1> QED
  BY <1>1, WakeupStep, Typed, ConnInit, ConnStep, PTL DEF Spec
=============================================================================
