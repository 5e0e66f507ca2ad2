----------------------------- MODULE Telemetry -----------------------------
(***************************************************************************)
(* The telemetry pipeline.  The composer thread collects samples into      *)
(* numbered batches and pushes them into the log ring; the logger thread   *)
(* pops them, thins them out and hands them to the MQTT client; the        *)
(* client's service thread sends them to the broker and re-establishes the *)
(* connection when it is lost; the main thread stops the logger and then   *)
(* the composer.  The client is never stopped: no code calls its shutdown. *)
(*                                                                         *)
(* The ring is the queue that SpscRing is shown to implement.  Callbacks   *)
(* of libwebsockets all run on the service thread, one after the other.    *)
(***************************************************************************)
EXTENDS Naturals, Sequences, FiniteSets

CONSTANTS
  Capacity,      \* LOG_RING_CAPACITY
  BatchSize,     \* BATCH_SIZE
  DrainLimit,    \* DRAIN_BATCH_LIMIT
  Downsample,    \* downsample_every_
  ConnectDelay,  \* CONNECT_DELAY_NS, in ticks
  HighWater,     \* m_highWater
  BaseDelay,     \* the first m_reconnectDelay, in ticks
  MaxDelay,      \* the greatest m_reconnectDelay, in ticks
  MaxBatches     \* bound: batches the composer fills

ASSUME TelemetryAssumption ==
  /\ Capacity \in Nat \ {0} /\ BatchSize \in Nat \ {0} /\ DrainLimit \in Nat \ {0}
  /\ Downsample \in Nat \ {0} /\ ConnectDelay \in Nat /\ HighWater \in Nat \ {0}
  /\ BaseDelay \in Nat \ {0} /\ MaxDelay \in Nat /\ BaseDelay <= MaxDelay
  /\ MaxBatches \in Nat

VARIABLES
  composing, fill, made, cpc,   \* Composer: running_, batch_idx_, batch_seq_, its place
  ring, dropped,                \* the log ring, Composer::dropped_
  running, lpc, hand, drained,  \* Logger: running_, its place, batch, i
  pushEnabled, connectSeen, since, skip,
  msgs, isConnected, pending, delay, reconnectAt, wsi,  \* MqttClient
  link, state, wake, writable, acks,                    \* libwebsockets
  delivered, lost               \* history: what became of the batches

composerVars == <<composing, fill, made, cpc>>
ringVars     == <<ring, dropped, hand>>
loggerVars   == <<running, lpc, drained, pushEnabled, connectSeen, skip>>
connVars     == <<isConnected, pending, delay, reconnectAt, wsi, link>>
sendVars     == <<msgs, wake, state, writable, acks>>
vars == <<composerVars, ringVars, loggerVars, since, connVars, sendVars, delivered, lost>>

LogRing == INSTANCE LogQueue
             WITH Items <- Nat, queue <- ring, lost <- dropped, out <- hand

Status == 0                      \* the "online" message; batches are numbered from 1
Never == MaxDelay + 1            \* steady_clock::time_point::max()
Subscribe == 0                   \* STATE_SUBSCRIBE, STATE_PUBLISH_QOS0
PublishQos0 == 1
Acks == {"suback", "ack", "puback"}  \* of a subscription, of a QoS 0 and a QoS 1 message

FlagsOK ==
  /\ composing \in BOOLEAN /\ running \in BOOLEAN
  /\ pushEnabled \in BOOLEAN /\ connectSeen \in BOOLEAN
  /\ isConnected \in BOOLEAN /\ pending \in BOOLEAN
  /\ wake \in BOOLEAN /\ writable \in BOOLEAN

ComposerOK ==
  /\ fill \in 0 .. BatchSize - 1 /\ made \in Nat /\ cpc \in {"run", "done"}
  /\ ring \in Seq(Nat \ {0}) /\ Len(ring) <= Capacity /\ dropped \in Nat /\ hand \in Nat

LoggerOK ==
  /\ lpc \in {"poll", "drain", "publish", "wake", "done"}
  /\ drained \in 0 .. DrainLimit /\ skip \in 0 .. Downsample - 1
  /\ since \in 0 .. ConnectDelay

ConnectionOK ==
  /\ delay \in BaseDelay .. MaxDelay /\ reconnectAt \in 0 .. Never
  /\ wsi \in {"none", "live", "freed"}
  /\ link \in {"unborn", "refused", "idle", "connecting", "up", "broken"}

SendingOK ==
  /\ msgs \in Seq(Nat) /\ Len(msgs) <= HighWater
  /\ state \in {Subscribe, PublishQos0} /\ acks \subseteq Acks
  /\ delivered \subseteq Nat /\ lost \subseteq Nat

TypeOK == FlagsOK /\ ComposerOK /\ LoggerOK /\ ConnectionOK /\ SendingOK

-----------------------------------------------------------------------------
(* The composer thread.                                                    *)

\* Mutant of FlushBatch: the number is counted up only if the batch was pushed.
FlushBatchReuses ==
  /\ fill' = 0
  /\ \/ LogRing!Accept(made + 1) /\ made' = made + 1 /\ UNCHANGED lost
     \/ LogRing!Refuse /\ lost' = lost \cup {made + 1} /\ UNCHANGED made

\* flush_batch: the batch gets the next number; a full ring drops it.
FlushBatch ==
  /\ made' = made + 1
  /\ fill' = 0
  /\ \/ LogRing!Accept(made') /\ UNCHANGED lost
     \/ LogRing!Refuse /\ lost' = lost \cup {made'}

\* The end of compose_cycle: a sample is added, a full batch flushed.
Compose ==
  /\ cpc = "run" /\ composing /\ made < MaxBatches
  /\ \/ fill + 1 < BatchSize /\ fill' = fill + 1 /\ UNCHANGED <<made, ringVars, lost>>
     \/ fill + 1 = BatchSize /\ FlushBatch
  /\ UNCHANGED <<composing, cpc, loggerVars, since, connVars, sendVars, delivered>>

\* The loop has ended: a partial batch is flushed too.
ComposerExit ==
  /\ cpc = "run" /\ ~composing
  /\ cpc' = "done"
  /\ \/ fill = 0 /\ UNCHANGED <<fill, made, ringVars, lost>>
     \/ fill > 0 /\ FlushBatch
  /\ UNCHANGED <<composing, loggerVars, since, connVars, sendVars, delivered>>

-----------------------------------------------------------------------------
(* The logger thread.                                                      *)

\* The top of run: nothing is drained until ConnectDelay after a connection was first
\* seen, whatever has become of it in between.
Poll ==
  /\ lpc = "poll"
  /\ IF ~running
     THEN lpc' = "done" /\ UNCHANGED <<pushEnabled, connectSeen, drained>>
     ELSE /\ connectSeen' = (connectSeen \/ (~pushEnabled /\ isConnected))
          /\ pushEnabled' = (pushEnabled \/ (isConnected /\ since = ConnectDelay))
          /\ lpc' = IF pushEnabled' THEN "drain" ELSE "poll"
          /\ drained' = 0
  /\ UNCHANGED <<running, skip, composerVars, ringVars, since, connVars, sendVars,
                 delivered, lost>>

\* drainOnce: a batch is popped; all but every Downsample-th are discarded.
Pop ==
  /\ lpc = "drain" /\ drained < DrainLimit
  /\ LogRing!Deliver
  /\ drained' = drained + 1
  /\ skip' = (skip + 1) % Downsample
  /\ \/ skip = 0 /\ lpc' = "publish" /\ UNCHANGED lost
     \/ skip # 0 /\ lost' = lost \cup {hand'} /\ UNCHANGED lpc
  /\ UNCHANGED <<running, pushEnabled, connectSeen, composerVars, since, connVars,
                 sendVars, delivered>>

Drained ==
  /\ lpc = "drain" /\ (drained = DrainLimit \/ ring = <<>>)
  /\ lpc' = "poll"
  /\ UNCHANGED <<running, drained, pushEnabled, connectSeen, skip, composerVars, ringVars,
                 since, connVars, sendVars, delivered, lost>>

\* Mutant of PublishBinary: the message is queued although the queue is full.
PublishBinaryUnchecked ==
  /\ msgs' = Append(msgs, hand)
  /\ lpc' = "wake"
  /\ UNCHANGED lost

\* Mutant of PublishBinary: the service thread is woken only for the first message.
PublishBinaryWakesOnce ==
  \/ /\ Len(msgs) < HighWater /\ msgs' = Append(msgs, hand)
     /\ lpc' = (IF msgs = <<>> THEN "wake" ELSE "drain") /\ UNCHANGED lost
  \/ Len(msgs) >= HighWater /\ lost' = lost \cup {hand} /\ lpc' = "drain" /\ UNCHANGED msgs

\* publish_binary, under its lock: a full queue refuses the batch, and does not wake the
\* service thread.
PublishBinary ==
  \/ Len(msgs) < HighWater /\ msgs' = Append(msgs, hand) /\ lpc' = "wake" /\ UNCHANGED lost
  \/ Len(msgs) >= HighWater /\ lost' = lost \cup {hand} /\ lpc' = "drain" /\ UNCHANGED msgs

Publish ==
  /\ lpc = "publish"
  /\ PublishBinary
  /\ UNCHANGED <<running, drained, pushEnabled, connectSeen, skip, composerVars, ringVars,
                 since, connVars, wake, state, writable, acks, delivered>>

\* lws_cancel_service, after the lock is released.
CancelService ==
  /\ lpc = "wake"
  /\ wake' = TRUE
  /\ lpc' = "drain"
  /\ UNCHANGED <<running, drained, pushEnabled, connectSeen, skip, composerVars, ringVars,
                 since, connVars, msgs, state, writable, acks, delivered, lost>>

LoggerStep == Poll \/ Pop \/ Drained \/ Publish \/ CancelService

-----------------------------------------------------------------------------
(* The service thread: the connection.                                     *)

Doubled(d) == IF d < MaxDelay \div 2 THEN 2 * d ELSE MaxDelay

ScheduleReconnect ==
  /\ pending' = FALSE
  /\ reconnectAt' = delay
  /\ delay' = Doubled(delay)

\* What libwebsockets keeps per connection is gone with it.
NoConnection == state' = Subscribe /\ writable' = FALSE /\ acks' = {}

\* notifyCallback: the first connect.  libwebsockets may refuse it at once, with or
\* without a CONNECTION_ERROR; only the callback schedules another attempt.
FirstConnect ==
  /\ link = "unborn"
  /\ \/ link' = "connecting" /\ UNCHANGED <<pending, delay, reconnectAt>>
     \/ link' = "idle" /\ ScheduleReconnect
     \/ link' = "refused" /\ UNCHANGED <<pending, delay, reconnectAt>>
  /\ UNCHANGED <<isConnected, wsi, composerVars, ringVars, loggerVars, since, sendVars,
                 delivered, lost>>

\* Mutant of Reconnect: m_reconnectPending is not set.
ReconnectNotPending ==
  /\ ~isConnected /\ ~pending /\ reconnectAt = 0
  /\ link' = "connecting"
  /\ UNCHANGED <<pending, delay, reconnectAt, isConnected, wsi, composerVars, ringVars,
                 loggerVars, since, sendVars, delivered, lost>>

\* The service loop: reconnect, when it is due.  A refusal is scheduled here, and by the
\* callback before if there was one.
Reconnect ==
  /\ ~isConnected /\ ~pending /\ reconnectAt = 0
  /\ \/ pending' = TRUE /\ link' = "connecting" /\ UNCHANGED <<delay, reconnectAt>>
     \/ ScheduleReconnect /\ UNCHANGED link
     \/ /\ pending' = FALSE /\ reconnectAt' = Doubled(delay)
        /\ delay' = Doubled(Doubled(delay)) /\ UNCHANGED link
  /\ UNCHANGED <<isConnected, wsi, composerVars, ringVars, loggerVars, since, sendVars,
                 delivered, lost>>

\* Mutant of Established: the client does not ask to write, but relies on being woken.
EstablishedQuiet ==
  /\ link = "connecting"
  /\ link' = "up" /\ isConnected' = TRUE
  /\ pending' = FALSE /\ delay' = BaseDelay /\ reconnectAt' = Never
  /\ wsi' = IF wsi = "none" THEN "live" ELSE wsi
  /\ \/ Len(msgs) < HighWater /\ msgs' = Append(msgs, Status) /\ wake' = TRUE
     \/ Len(msgs) >= HighWater /\ UNCHANGED <<msgs, wake>>
  /\ NoConnection
  /\ UNCHANGED <<composerVars, ringVars, loggerVars, since, delivered, lost>>

\* MQTT_CLIENT_ESTABLISHED: addWsiInstance keeps an entry that exists; the status
\* message is queued, unless the queue is full.
Established ==
  /\ link = "connecting"
  /\ link' = "up" /\ isConnected' = TRUE
  /\ pending' = FALSE /\ delay' = BaseDelay /\ reconnectAt' = Never
  /\ wsi' = IF wsi = "none" THEN "live" ELSE wsi
  /\ \/ Len(msgs) < HighWater /\ msgs' = Append(msgs, Status) /\ wake' = TRUE
     \/ Len(msgs) >= HighWater /\ UNCHANGED <<msgs, wake>>
  /\ state' = Subscribe /\ writable' = TRUE /\ acks' = {}
  /\ UNCHANGED <<composerVars, ringVars, loggerVars, since, delivered, lost>>

\* CLIENT_CONNECTION_ERROR.
ConnectionError ==
  /\ link = "connecting"
  /\ link' = "idle" /\ isConnected' = FALSE
  /\ ScheduleReconnect
  /\ UNCHANGED <<wsi, composerVars, ringVars, loggerVars, since, sendVars, delivered, lost>>

\* Mutant of Closed: removeWsiInstance is not called.
ClosedKeepsWsi ==
  /\ link \in {"up", "broken"}
  /\ link' = "idle" /\ isConnected' = FALSE
  /\ wsi' = IF wsi = "live" THEN "freed" ELSE wsi
  /\ ScheduleReconnect /\ NoConnection
  /\ UNCHANGED <<msgs, wake, composerVars, ringVars, loggerVars, since, delivered, lost>>

\* MQTT_CLIENT_CLOSED: the connection is gone and its wsi is freed.
Closed ==
  /\ link \in {"up", "broken"}
  /\ link' = "idle" /\ isConnected' = FALSE
  /\ wsi' = "none"
  /\ ScheduleReconnect /\ NoConnection
  /\ UNCHANGED <<msgs, wake, composerVars, ringVars, loggerVars, since, delivered, lost>>

-----------------------------------------------------------------------------
(* The service thread: sending.                                            *)

\* EVENT_WAIT_CANCELLED.
WaitCancelled ==
  /\ wake
  /\ wake' = FALSE
  /\ writable' = (writable \/ (wsi # "none" /\ msgs # <<>>))
  /\ UNCHANGED <<msgs, state, acks, connVars, composerVars, ringVars, loggerVars, since,
                 delivered, lost>>

\* Mutant of Send: a message that could not be written is queued again.
SendRequeues ==
  /\ msgs # <<>> /\ state = PublishQos0
  /\ \/ /\ msgs' = Tail(msgs)
        /\ acks' = acks \cup {IF Head(msgs) = Status THEN "puback" ELSE "ack"}
        /\ delivered' = delivered \cup ({Head(msgs)} \ {Status})
        /\ UNCHANGED <<link, lost>>
     \/ /\ msgs' = Append(Tail(msgs), Head(msgs))
        /\ link' = "broken"
        /\ UNCHANGED <<acks, delivered, lost>>
  /\ UNCHANGED state

\* onClientWriteAble, STATE_PUBLISH_QOS0: one message is popped and sent.  If the write
\* fails it is lost, and the connection will be closed.
Send ==
  /\ msgs # <<>> /\ state = PublishQos0
  /\ msgs' = Tail(msgs)
  /\ \/ /\ acks' = acks \cup {IF Head(msgs) = Status THEN "puback" ELSE "ack"}
        /\ delivered' = delivered \cup ({Head(msgs)} \ {Status})
        /\ UNCHANGED <<link, lost>>
     \/ /\ link' = "broken" /\ lost' = lost \cup ({Head(msgs)} \ {Status})
        /\ UNCHANGED <<acks, delivered>>
  /\ UNCHANGED state

\* STATE_SUBSCRIBE: the topics are subscribed; failing or not, messages come next.
SendSubscribe ==
  /\ state = Subscribe
  /\ state' = PublishQos0
  /\ \/ acks' = acks \cup {"suback"} /\ UNCHANGED link
     \/ link' = "broken" /\ UNCHANGED acks
  /\ UNCHANGED <<msgs, delivered, lost>>

\* MQTT_CLIENT_WRITEABLE.
Writeable ==
  /\ link = "up" /\ writable
  /\ writable' = FALSE
  /\ \/ SendSubscribe
     \/ Send
     \/ /\ state = PublishQos0 /\ msgs = <<>>
        /\ UNCHANGED <<msgs, link, state, acks, delivered, lost>>
  /\ UNCHANGED <<wake, isConnected, pending, delay, reconnectAt, wsi, composerVars,
                 ringVars, loggerVars, since>>

\* libwebsockets lets the client write when the subscription is acknowledged; the
\* client's own MQTT_SUBSCRIBED does nothing.
Subscribed ==
  /\ link = "up" /\ "suback" \in acks
  /\ acks' = acks \ {"suback"}
  /\ writable' = TRUE
  /\ UNCHANGED <<msgs, wake, state, connVars, composerVars, ringVars, loggerVars, since,
                 delivered, lost>>

\* MQTT_ACK.
Ack ==
  /\ link = "up"
  /\ \E a \in acks \cap {"ack", "puback"} : acks' = acks \ {a}
  /\ writable' = (writable \/ (state = PublishQos0 /\ msgs # <<>>))
  /\ UNCHANGED <<msgs, wake, state, connVars, composerVars, ringVars, loggerVars, since,
                 delivered, lost>>

\* MQTT_RESEND, for a status message that was not acknowledged: it is not sent again
\* but the topics are.  There is one such message per connection, so that the retries
\* are not counted out and the state is that of publishing.
Resend ==
  /\ link = "up" /\ "puback" \in acks
  /\ acks' = acks \ {"puback"}
  /\ state' = Subscribe
  /\ UNCHANGED <<msgs, wake, writable, connVars, composerVars, ringVars, loggerVars, since,
                 delivered, lost>>

ServiceStep ==
  \/ FirstConnect \/ Reconnect \/ Established \/ ConnectionError \/ Closed
  \/ WaitCancelled \/ Writeable \/ Subscribed \/ Ack \/ Resend

-----------------------------------------------------------------------------
(* The main thread and the clock.                                          *)

\* detachSharedMemory stops the logger ...
StopLogger ==
  /\ running
  /\ running' = FALSE
  /\ UNCHANGED <<lpc, drained, pushEnabled, connectSeen, skip, composerVars, ringVars,
                 since, connVars, sendVars, delivered, lost>>

\* ... and, once it has joined it, the composer.
StopComposer ==
  /\ lpc = "done" /\ composing
  /\ composing' = FALSE
  /\ UNCHANGED <<fill, made, cpc, ringVars, loggerVars, since, connVars, sendVars,
                 delivered, lost>>

Tick ==
  /\ (connectSeen /\ since < ConnectDelay) \/ reconnectAt \in 1 .. MaxDelay
  /\ since' = IF connectSeen /\ since < ConnectDelay THEN since + 1 ELSE since
  /\ reconnectAt' = IF reconnectAt \in 1 .. MaxDelay THEN reconnectAt - 1 ELSE reconnectAt
  /\ UNCHANGED <<composerVars, ringVars, loggerVars, isConnected, pending, delay, wsi, link,
                 sendVars, delivered, lost>>

Init ==
  /\ composing = TRUE /\ fill = 0 /\ made = 0 /\ cpc = "run"
  /\ ring = <<>> /\ dropped = 0 /\ hand = 0
  /\ running = TRUE /\ lpc = "poll" /\ drained = 0 /\ skip = 0
  /\ pushEnabled = FALSE /\ connectSeen = FALSE /\ since = 0
  /\ msgs = <<>> /\ isConnected = FALSE /\ pending = FALSE
  /\ delay = BaseDelay /\ reconnectAt = Never /\ wsi = "none"
  /\ link = "unborn" /\ state = Subscribe /\ wake = FALSE /\ writable = FALSE /\ acks = {}
  /\ delivered = {} /\ lost = {}

Next ==
  \/ Compose \/ ComposerExit
  \/ LoggerStep
  \/ ServiceStep
  \/ StopLogger \/ StopComposer
  \/ Tick

\* The threads run; libwebsockets acknowledges, wakes and lets write, closes a connection
\* it could not write to, and time passes.  Nothing makes a healthy connection fail or an
\* attempt succeed.
Fairness ==
  /\ WF_vars(LoggerStep)
  /\ WF_vars(FirstConnect) /\ WF_vars(Reconnect) /\ WF_vars(Established \/ ConnectionError)
  /\ WF_vars(WaitCancelled) /\ WF_vars(Writeable) /\ WF_vars(Subscribed)
  /\ WF_vars(Ack \/ Resend) /\ WF_vars(link = "broken" /\ Closed)
  /\ WF_vars(Tick)

Spec == Init /\ [][Next]_vars /\ Fairness

-----------------------------------------------------------------------------
\* The batches on their way: queued for sending, in the logger's hand, in the ring.
Queued   == {msgs[i] : i \in 1 .. Len(msgs)} \ {Status}
InHand   == IF lpc = "publish" THEN {hand} ELSE {}
InRing   == {ring[i] : i \in 1 .. Len(ring)}
OnTheWay == Queued \cup InHand \cup InRing

\* No batch vanishes without trace and none is two: between the threads, refusals,
\* reconnections and the shutdown, every batch the composer ever numbered is on its way,
\* or was sent, or was lost at one of the places that may lose one (a full ring, the
\* thinning, a full send queue, a failed write); those left in the ring when the threads
\* have stopped are on their way still.
EveryBatchOnce ==
  /\ 1 .. made = OnTheWay \cup delivered \cup lost
  /\ OnTheWay \cap (delivered \cup lost) = {} /\ delivered \cap lost = {}

Channel == INSTANCE LossyChannel WITH inTransit <- OnTheWay

\* Ring, logger, send queue and connection together are one channel: from the composer's
\* flush_batch to lws_mqtt_client_send_publish a batch passes three threads' hands and two
\* bounded queues and comes out at most once, never ahead of an older one that is still on
\* its way, and is never seen again once it was lost.
ImplementsChannel == Channel!Spec

\* The broker receives the batches in the order of their numbers and none twice, across
\* reconnections and failed writes too.
SentInOrder ==
  [][\A b \in delivered' \ delivered : \A d \in delivered : d < b]_vars

\* The connection is never given up and never attempted twice at once: while there is
\* none, an attempt is under way or one is scheduled, and not both.  The exception is a
\* first connect that libwebsockets refuses without a callback.
OneAttempt ==
  /\ isConnected <=> link \in {"up", "broken"}
  /\ link = "connecting" => pending \/ reconnectAt = Never
  /\ link = "idle" => reconnectAt # Never /\ ~pending

\* The wsi that EVENT_WAIT_CANCELLED asks to write to is that of the open connection,
\* never one that libwebsockets has freed.
WsiNotFreed == wsi = IF link \in {"up", "broken"} THEN "live" ELSE "none"

\* A full send queue never waits for a wake-up that nobody will send.  publish_binary wakes
\* the service thread only for a message it accepts, and none is accepted while the queue is
\* full: so on an open connection a request to write must be pending, or a wake-up (sent, or
\* about to be by the logger), or the acknowledgement of a subscription, whatever sequence
\* of reconnections, acknowledgements and resends led to it.
NoLostWakeup ==
  link = "up" /\ Len(msgs) = HighWater =>
    writable \/ wake \/ lpc = "wake" \/ "suback" \in acks

\* A full send queue does not stay full on an open connection, although refused messages
\* do not wake the service thread: what was queued during an outage is sent after it.
BackpressureEnds ==
  (Len(msgs) = HighWater /\ isConnected) ~> (Len(msgs) < HighWater \/ ~isConnected)
=============================================================================
