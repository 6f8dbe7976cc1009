--------------------------- MODULE UserEventBroker ---------------------------
(***************************************************************************)
(* RabbitMQ as the services use it for user.deleted: the fanout exchange   *)
(* "user" and the durable queue list.user-events behind it.  The queue is  *)
(* declared and bound by list-service's consumer and by nobody else, so an *)
(* event published before the first successful connect is routed nowhere.  *)
(*                                                                         *)
(* Every message is {"type": "user.deleted", "user_id": u}: a queue is the *)
(* number of ready copies per user.  Order is abstracted, since a requeued *)
(* message may overtake or be overtaken by the others.                     *)
(***************************************************************************)
EXTENDS Users, Faults

VARIABLES
  brokerUp,   \* RabbitMQ accepts connections
  bound,      \* list.user-events exists and is bound to the exchange
  queue       \* ready copies of user.deleted, per user

brokerVars == <<brokerUp, bound, queue>>

BrokerTypeOK ==
  /\ brokerUp \in BOOLEAN
  /\ bound \in BOOLEAN
  /\ queue \in [UserIds -> Nat]

BrokerInit(isBound) ==
  /\ brokerUp = TRUE
  /\ bound = isBound
  /\ queue = [u \in UserIds |-> 0]

(* The exchange routes one persistent message about u. *)
Route(u) ==
  /\ queue' = IF bound THEN [queue EXCEPT ![u] = @ + 1] ELSE queue
  /\ UNCHANGED <<brokerUp, bound>>

(* Back into the queue: a nack with requeue, or a channel that closed over *)
(* an unacknowledged delivery.                                             *)
Requeue(u) == queue' = [queue EXCEPT ![u] = @ + 1]

(* RabbitMQ goes down, and comes back with its durable queue.  What that    *)
(* does to the connections is up to the modules that hold them.            *)
BrokerStopped ==
  /\ brokerUp
  /\ Fault("broker")
  /\ brokerUp' = FALSE

BrokerStarted ==
  /\ ~brokerUp
  /\ brokerUp' = TRUE
  /\ NoFault
  /\ UNCHANGED <<bound, queue>>
=============================================================================
