----------------------------- MODULE ListEvents -----------------------------
(***************************************************************************)
(* The events of list-service's handlers.  A handler runs its statement    *)
(* and hands an event to the publisher, whose queue is a bounded Go        *)
(* channel that never blocks the caller; one goroutine, publishLoop, takes *)
(* the events off the queue and publishes them to the exchange "list",     *)
(* reconnecting and trying once more when that fails.                      *)
(*                                                                         *)
(* An event is named by the request it belongs to.  Two requests of one    *)
(* user may run at a time: nothing orders their events by their commits.   *)
(***************************************************************************)
EXTENDS Faults, Sequences, Functions

CONSTANTS
  Requests,   \* requests that change a list
  QueueSize,  \* queueSize, 256 in the code
  NoEvent

ASSUME ListEventsAssumption ==
  /\ QueueSize \in Nat \ {0}
  /\ NoEvent \notin Requests

VARIABLES
  request,   \* new; committed: before Publish; accepted, dropped; failed
  changed,   \* requests whose statement changed the list
  events,    \* the publisher's queue
  loop,      \* publishLoop: idle, publish, reconnect, retry; down: no process
  msg,       \* the event doPublish works on
  chOpen,    \* its AMQP channel is open
  wire,      \* written to the socket, not yet read by the broker
  exchange,  \* what the exchange "list" received
  rabbitUp   \* RabbitMQ accepts connections

publisherVars == <<events, loop, msg>>
amqpVars == <<chOpen, wire, exchange, rabbitUp>>
eventVars == <<request, changed, publisherVars, amqpVars, faults>>

Waiting == Range(events) \cup ({msg} \ {NoEvent}) \cup Range(wire)

EventsTypeOK ==
  /\ request \in [Requests -> {"new", "committed", "accepted", "dropped", "failed"}]
  /\ changed \subseteq Requests
  /\ events \in Seq(Requests) /\ Len(events) <= QueueSize
  /\ loop \in {"idle", "publish", "reconnect", "retry", "down"}
  /\ msg \in Requests \cup {NoEvent}
  /\ chOpen \in BOOLEAN
  /\ wire \in Seq(Requests)
  /\ exchange \in Seq(Requests)
  /\ rabbitUp \in BOOLEAN
  /\ faults \in 0..MaxFaults

EventsInit ==
  /\ FaultsInit
  /\ request = [r \in Requests |-> "new"]
  /\ changed = {}
  /\ events = <<>>
  /\ loop = "idle" /\ msg = NoEvent
  /\ chOpen = TRUE /\ wire = <<>> /\ exchange = <<>> /\ rabbitUp = TRUE

----------------------------------------------------------------------------
(* A request                                                               *)

Answer(r, a) == request' = [request EXCEPT ![r] = a]

(* The event goes out whatever became of the statement. *)
StatementUnchecked(r) ==
  /\ loop # "down"
  /\ request[r] = "new"
  /\ Answer(r, "committed")
  /\ changed' \in {changed, changed \cup {r}}
  /\ NoFault
  /\ UNCHANGED <<publisherVars, amqpVars>>

(* The statement succeeds, or fails or matches no row; an error may be the *)
(* answer to one that was carried out.                                     *)
Statement(r) ==
  /\ loop # "down"
  /\ request[r] = "new"
  /\ \/ Answer(r, "committed") /\ changed' = changed \cup {r} /\ NoFault
     \/ Answer(r, "failed") /\ UNCHANGED changed /\ NoFault
     \/ Answer(r, "failed") /\ changed' = changed \cup {r} /\ Fault("listdb")
  /\ UNCHANGED <<publisherVars, amqpVars>>

(* The queue grows as it needs to. *)
PublishUnbounded(r) ==
  /\ request[r] = "committed"
  /\ Answer(r, "accepted")
  /\ events' = Append(events, r)
  /\ NoFault
  /\ UNCHANGED <<changed, loop, msg, amqpVars>>

Publish(r) ==
  /\ request[r] = "committed"
  /\ IF Len(events) < QueueSize
     THEN Answer(r, "accepted") /\ events' = Append(events, r)
     ELSE Answer(r, "dropped") /\ UNCHANGED events
  /\ NoFault
  /\ UNCHANGED <<changed, loop, msg, amqpVars>>

----------------------------------------------------------------------------
(* publishLoop and doPublish                                               *)

Take ==
  /\ loop = "idle"
  /\ events # <<>>
  /\ msg' = Head(events)
  /\ events' = Tail(events)
  /\ loop' = "publish"
  /\ NoFault
  /\ UNCHANGED <<request, changed, amqpVars>>

(* doPublish returns. *)
Return == loop' = "idle" /\ msg' = NoEvent /\ UNCHANGED events

Sent == wire' = Append(wire, msg) /\ UNCHANGED <<chOpen, exchange, rabbitUp>>

PublishNoRetry ==
  /\ loop = "publish"
  /\ IF chOpen THEN Sent ELSE UNCHANGED amqpVars
  /\ Return
  /\ NoFault
  /\ UNCHANGED <<request, changed>>

PublishOnce ==
  /\ loop = "publish"
  /\ IF chOpen
     THEN Sent /\ Return
     ELSE loop' = "reconnect" /\ UNCHANGED <<events, msg, amqpVars>>
  /\ NoFault
  /\ UNCHANGED <<request, changed>>

(* The loop waits until RabbitMQ is back. *)
ReconnectWaits ==
  /\ loop = "reconnect"
  /\ rabbitUp
  /\ chOpen' = TRUE
  /\ loop' = "retry"
  /\ NoFault
  /\ UNCHANGED <<events, msg, wire, exchange, rabbitUp, request, changed>>

(* An event that could not be published goes back into the queue. *)
ReconnectRequeues ==
  /\ loop = "reconnect"
  /\ \/ /\ rabbitUp
        /\ chOpen' = TRUE
        /\ loop' = "retry"
        /\ UNCHANGED <<events, msg, wire, exchange, rabbitUp>>
     \/ /\ ~rabbitUp
        /\ loop' = "idle" /\ msg' = NoEvent /\ events' = Append(events, msg)
        /\ UNCHANGED amqpVars
  /\ NoFault
  /\ UNCHANGED <<request, changed>>

(* One attempt to dial, open and declare; if it fails, so does doPublish.  *)
ReconnectOnce ==
  /\ loop = "reconnect"
  /\ \/ /\ rabbitUp
        /\ chOpen' = TRUE
        /\ loop' = "retry"
        /\ NoFault
        /\ UNCHANGED <<events, msg, wire, exchange, rabbitUp>>
     \/ /\ IF rabbitUp THEN Fault("dial") ELSE NoFault
        /\ Return
        /\ UNCHANGED amqpVars
  /\ UNCHANGED <<request, changed>>

Retry ==
  /\ loop = "retry"
  /\ IF chOpen THEN Sent ELSE UNCHANGED amqpVars
  /\ Return
  /\ NoFault
  /\ UNCHANGED <<request, changed>>

PublishLoop == Take \/ PublishOnce \/ ReconnectOnce \/ Retry

----------------------------------------------------------------------------
(* RabbitMQ, the connection and the process                                *)

Arrive ==
  /\ wire # <<>>
  /\ exchange' = Append(exchange, Head(wire))
  /\ wire' = Tail(wire)
  /\ NoFault
  /\ UNCHANGED <<request, changed, publisherVars, chOpen, rabbitUp>>

(* What the broker has not read is lost, and nobody is told. *)
BreakChannel == chOpen' = FALSE /\ wire' = <<>> /\ UNCHANGED exchange

ConnectionBreaks ==
  /\ chOpen
  /\ Fault("conn")
  /\ BreakChannel
  /\ UNCHANGED <<request, changed, publisherVars, rabbitUp>>

RabbitStops ==
  /\ rabbitUp
  /\ Fault("broker")
  /\ BreakChannel
  /\ rabbitUp' = FALSE
  /\ UNCHANGED <<request, changed, publisherVars>>

RabbitStarts ==
  /\ ~rabbitUp
  /\ rabbitUp' = TRUE
  /\ NoFault
  /\ UNCHANGED <<request, changed, publisherVars, chOpen, wire, exchange>>

(* The queue dies with the process, and so do the requests in it. *)
Crash ==
  /\ loop # "down"
  /\ Fault("crash")
  /\ loop' = "down" /\ msg' = NoEvent /\ events' = <<>>
  /\ request' = [r \in Requests |-> IF request[r] = "committed" THEN "failed" ELSE request[r]]
  /\ BreakChannel
  /\ UNCHANGED <<changed, rabbitUp>>

(* main exits again unless NewPublisher reaches RabbitMQ. *)
Restart ==
  /\ loop = "down"
  /\ rabbitUp
  /\ loop' = "idle"
  /\ chOpen' = TRUE
  /\ NoFault
  /\ UNCHANGED <<request, changed, events, msg, wire, exchange, rabbitUp>>

----------------------------------------------------------------------------

EventsNext ==
  \/ \E r \in Requests : Statement(r) \/ Publish(r)
  \/ PublishLoop
  \/ Arrive
  \/ ConnectionBreaks
  \/ RabbitStops
  \/ RabbitStarts
  \/ Crash
  \/ Restart

EventsSpec == EventsInit /\ [][EventsNext]_eventVars

(* The goroutine is scheduled and TCP delivers.  RabbitMQ may stay away.   *)
EventsFairSpec == EventsSpec /\ WF_eventVars(PublishLoop) /\ WF_eventVars(Arrive)

----------------------------------------------------------------------------
(* Properties                                                              *)

(* Every event is about a change that was made: a handler whose statement  *)
(* failed publishes nothing (list_service.go, all six handlers).           *)
NoPhantomEvents == Waiting \cup Range(exchange) \subseteq changed

(* The publisher is a lossy FIFO: one goroutine, one channel at a time and *)
(* one retry neither reorder nor duplicate events.                         *)
Fifo == INSTANCE LossyFifo WITH
  Events <- Requests,
  accepted <- {r \in Requests : request[r] = "accepted"},
  pending <- wire \o (IF msg = NoEvent THEN <<>> ELSE <<msg>>) \o events,
  received <- exchange

IsLossyFifo == Fifo!FifoSpec

InOrder(a, b) ==
  \A i, j \in DOMAIN exchange : exchange[i] = a /\ exchange[j] = b => i < j

(* The order of the events is that of the calls as far as a client can     *)
(* tell: of two requests, the second sent after the first was answered,    *)
(* the events reach the exchange in that order if both do.  Requests that  *)
(* overlap have no order (list_service.go: the statement and Publish are   *)
(* two steps of a handler).                                                *)
AnsweredFirstComesFirst ==
  \A a, b \in Requests :
    [](request[a] = "accepted" /\ request[b] = "new" => []InOrder(a, b))

Lost(r) == request[r] = "accepted" /\ r \notin Waiting \cup Range(exchange)

(* An accepted event is lost by a crash, by a break that catches it on the *)
(* wire, or when the reconnect or the retry fails: a connection found      *)
(* broken costs nothing by itself (publisher.go doPublish).                *)
LossesExplained ==
  [][\A r \in Requests : ~Lost(r) /\ Lost(r)' =>
       \/ loop' = "down"
       \/ r \in Range(wire) /\ ~chOpen'
       \/ r = msg /\ loop \in {"reconnect", "retry"} /\ ~chOpen]_eventVars

(* The loop gets every event off its hands, and does not wait for RabbitMQ *)
(* to come back while the queue fills up (publisher.go doPublish).         *)
NobodyWaits ==
  \A r \in Requests : r \in Waiting ~> r \notin Waiting
=============================================================================
