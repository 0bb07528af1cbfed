---------------------------- MODULE MovementStream ----------------------------
(***************************************************************************)
(* The account movements over WebSocket: a task that connects, publishes   *)
(* into a bounded queue and drops what does not fit; the loop that drains  *)
(* it; and an order's tracking, which takes events out of the queue while  *)
(* it waits and defers them (src/src/iol_client.rs, app.rs).               *)
(*                                                                         *)
(* An event is the number it was published with and the status it carries, *)
(* "Movement" or "Notice" if none.                                         *)
(***************************************************************************)
EXTENDS Integers, FiniteSets, SequencesExt

CONSTANTS
    EventCapacity,
    MaxDelay,
    MaxEvents       \* bound: events published

ASSUME StreamAssumption ==
    /\ EventCapacity \in Nat \ {0} /\ MaxDelay \in Nat \ {0} /\ MaxEvents \in Nat

VARIABLES
    socket,         \* of the task: "connecting", "backoff", "authenticating", "connected", "ended"
    delay,          \* retry_delay
    queue,          \* the channel
    dropped,        \* dropped_events, not reported yet
    command,        \* the command channel: "none" or "Shutdown"
    stream,         \* of the client: "running", "stopping" (shutdown), "none"
    deferred,       \* deferred_realtime_events
    shown,          \* websocket_status
    published,      \* history: events published, queued or not
    delivered,      \* history: the numbers of the events the loop saw
    lost,           \* history: the events dropped so far
    told            \* history: how many of them the loop was told of

streamVars == <<socket, delay, queue, dropped, command, stream, deferred, shown, published, delivered,
                lost, told>>
task == <<socket, delay>>
history == <<published, delivered, lost, told>>

Ended == socket = "ended"

StreamInit ==
    /\ socket = "connecting" /\ delay = 1
    /\ queue = <<>> /\ dropped = 0 /\ command = "none"
    /\ stream = "running" /\ deferred = <<>> /\ shown = "Connecting"
    /\ published = 0 /\ delivered = <<>> /\ lost = {} /\ told = 0

-----------------------------------------------------------------------------
(* The task                                                                *)

\* Mutant: a full queue makes room by dropping its oldest event, uncounted.
PublishOverwriting(kind) ==
    /\ published < MaxEvents
    /\ published' = published + 1
    /\ queue' = Append(IF Len(queue) = EventCapacity THEN Tail(queue) ELSE queue,
                       [id |-> published + 1, kind |-> kind])
    /\ UNCHANGED <<dropped, lost>>

\* publish_realtime_event: try_send
Publish(kind) ==
    /\ published < MaxEvents
    /\ published' = published + 1
    /\ IF Len(queue) < EventCapacity
       THEN queue' = Append(queue, [id |-> published + 1, kind |-> kind])
            /\ UNCHANGED <<dropped, lost>>
       ELSE dropped' = dropped + 1 /\ lost' = lost \cup {published + 1}
            /\ UNCHANGED queue

TaskLeaves == UNCHANGED <<stream, deferred, shown, delivered, told>>

\* A command is looked at before connecting, during the backoff and while connected.
ObeyShutdown ==
    /\ socket \in {"connecting", "backoff", "connected"} /\ command = "Shutdown"
    /\ socket' = "ended" /\ command' = "none"
    /\ UNCHANGED <<delay, queue, dropped, published, lost>> /\ TaskLeaves

\* connect_async errs or takes more than ten seconds.
ConnectFails ==
    /\ socket = "connecting"
    /\ Publish("Reconnecting")
    /\ socket' = "backoff"
    /\ UNCHANGED <<delay, command>> /\ TaskLeaves

Backoff ==
    /\ socket = "backoff" /\ command = "none"
    /\ socket' = "connecting"
    /\ delay' = IF 2 * delay > MaxDelay THEN MaxDelay ELSE 2 * delay
    /\ UNCHANGED <<queue, dropped, command, published, lost>> /\ TaskLeaves

Connect ==
    /\ socket = "connecting"
    /\ socket' = "authenticating"
    /\ UNCHANGED <<delay, queue, dropped, command, published, lost>> /\ TaskLeaves

\* The credentials cannot be sent: the next attempt does not wait.
AuthNotSent ==
    /\ socket = "authenticating"
    /\ socket' = "connecting"
    /\ UNCHANGED <<delay, queue, dropped, command, published, lost>> /\ TaskLeaves

\* The password cannot be used, or IOL does not accept it: the task gives up.
AuthRejected ==
    /\ socket = "authenticating"
    /\ Publish("Offline")
    /\ socket' = "ended"
    /\ UNCHANGED <<delay, command>> /\ TaskLeaves

AuthAccepted ==
    /\ socket = "authenticating"
    /\ Publish("Connected")
    /\ socket' = "connected" /\ delay' = 1
    /\ UNCHANGED command /\ TaskLeaves

ReceiveMovement ==
    /\ socket = "connected"
    /\ Publish("Movement")
    /\ UNCHANGED <<task, command>> /\ TaskLeaves

\* Closed by the peer, an error, or a ping that cannot be sent.
Disconnect ==
    /\ socket = "connected"
    /\ Publish("Reconnecting")
    /\ socket' = "connecting"
    /\ UNCHANGED <<delay, command>> /\ TaskLeaves

-----------------------------------------------------------------------------
(* The client                                                              *)

ClientLeaves == UNCHANGED <<published, lost>>

Ids(events) == [i \in DOMAIN events |-> events[i].id]
\* Where a batch says how the connection is.
Statuses(events) == {i \in DOMAIN events : events[i].kind \notin {"Movement", "Notice"}}
\* Mutant: the first status of a batch wins.
StatusAfterFirst(events) ==
    IF Statuses(events) = {} THEN shown ELSE events[Min(Statuses(events))].kind
StatusAfter(events) ==
    IF Statuses(events) = {} THEN shown ELSE events[Max(Statuses(events))].kind

\* Mutant: what the channel holds comes before what was deferred.
DrainOrderSwapped == queue \o deferred

\* drain_realtime_events: the deferred, a notice of what was dropped, the channel.
DrainOrder == deferred \o queue

\* Mutant: the drops are forgotten, not reported.
ReportDropsNever == told' = told /\ dropped' = 0
ReportDrops == told' = told + dropped /\ dropped' = 0

\* sync_realtime_events
SyncRealtimeEvents ==
    /\ stream = "running"
    /\ DrainOrder # <<>> \/ dropped > 0
    /\ shown' = StatusAfter(DrainOrder)
    /\ delivered' = delivered \o Ids(DrainOrder)
    /\ ReportDrops
    /\ queue' = <<>> /\ deferred' = <<>>
    /\ UNCHANGED <<task, command, stream>> /\ ClientLeaves

\* wait_for_order_signal takes one event and keeps it for later.
WaitForOrderSignal ==
    /\ stream = "running" /\ queue # <<>>
    /\ deferred' = Append(deferred, Head(queue))
    /\ queue' = Tail(queue)
    /\ UNCHANGED <<task, dropped, command, stream, shown, delivered, told>> /\ ClientLeaves

\* shutdown: asks, waits two seconds, aborts.
AskShutdown ==
    /\ stream = "running"
    /\ stream' = "stopping"
    /\ command' = "Shutdown"
    /\ UNCHANGED <<task, queue, dropped, deferred, shown, delivered, told>> /\ ClientLeaves

EndShutdown ==
    /\ stream = "stopping"
    /\ stream' = "none" /\ socket' = "ended"
    /\ UNCHANGED <<delay, queue, dropped, command, deferred, shown, delivered, told>> /\ ClientLeaves

TaskStep ==
    \/ ObeyShutdown \/ ConnectFails \/ Backoff \/ Connect \/ AuthNotSent \/ AuthRejected
    \/ AuthAccepted \/ ReceiveMovement \/ Disconnect

StreamNext == TaskStep \/ SyncRealtimeEvents \/ WaitForOrderSignal \/ AskShutdown \/ EndShutdown

-----------------------------------------------------------------------------

\* Every event IOL or the task produced is delivered, waiting in its order, or
\* counted as dropped: an order that takes events out of the channel in the
\* middle loses and reorders nothing.
NoEventIsLostSilently ==
    LET inHand == delivered \o Ids(deferred) \o Ids(queue)
    IN  /\ \A i \in 2..Len(inHand) : inHand[i - 1] < inHand[i]
        /\ 1..published = ToSet(inHand) \cup lost
        /\ Cardinality(lost) = told + dropped

\* Where the task is, in the words of the last status it said.
SocketStatus == CASE socket = "connected" -> "Connected"
                  [] socket = "ended" -> "Offline"
                  [] socket \in {"connecting", "authenticating"} /\ published = 0 -> "Connecting"
                  [] OTHER -> "Reconnecting"

\* Once the loop has drained, what the screen shows of the connection is where
\* the task is, unless the loop was told that events were dropped: a status that
\* did not fit is not said again.
ShownStatusIsCurrentOrExcused ==
    (stream = "running" /\ queue = <<>> /\ deferred = <<>> /\ dropped = 0 /\ told = 0)
    => shown = SocketStatus
=============================================================================
