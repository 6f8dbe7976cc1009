----------------------------- MODULE UserCleanup -----------------------------
(***************************************************************************)
(* The two parts of list-service that soft-delete a vanished user's lists: *)
(* the consumer of user.deleted and the periodic orphan job.  Both run as  *)
(* goroutines beside the HTTP handlers, and both issue two statements with *)
(* no transaction around them.                                             *)
(***************************************************************************)
EXTENDS ListRepo, UserEventBroker

VARIABLES
  listUp,    \* the process runs
  consumer,  \* absent: never started; retry: to reconnect; idle: reading;
             \* items, sections, ack: inside handleMessage
  cmsg,      \* the user of the delivery in hand
  conCh,     \* the consumer's channel is open
  scan,      \* user ids of the orphan job's current run still to be checked
  orphan,    \* idle, or the next statement of cleanupUser
  orphanOf   \* the user cleanupUser works on

conVars == <<consumer, cmsg, conCh>>
orphanVars == <<scan, orphan, orphanOf>>
cleanupVars == <<listUp, conVars, orphanVars>>

CleanupTypeOK ==
  /\ listUp \in BOOLEAN
  /\ consumer \in {"absent", "retry", "idle", "items", "sections", "ack"}
  /\ cmsg \in UserIds \cup {NoUser}
  /\ conCh \in BOOLEAN
  /\ scan \subseteq UserIds
  /\ orphan \in {"idle", "items", "sections"}
  /\ orphanOf \in UserIds \cup {NoUser}

(* list-service has not started yet. *)
CleanupInit ==
  /\ listUp = FALSE
  /\ consumer = "absent" /\ cmsg = NoUser /\ conCh = FALSE
  /\ scan = {} /\ orphan = "idle" /\ orphanOf = NoUser

(* main exits unless it reaches RabbitMQ for its own publisher.  The       *)
(* consumer dials once more: if that fails it is never started, and main   *)
(* carries on with a warning.                                              *)
ListStart ==
  /\ ~listUp
  /\ brokerUp
  /\ listUp' = TRUE
  /\ \/ consumer' = "retry" /\ NoFault
     \/ Fault("dial") /\ UNCHANGED consumer
  /\ UNCHANGED <<cmsg, conCh, orphanVars, listVars, brokerVars>>

----------------------------------------------------------------------------
(* The consumer of list.user-events                                        *)

(* connect declares the queue, binds it and starts consuming. *)
Connect ==
  /\ consumer = "retry"
  /\ brokerUp
  /\ consumer' = "idle"
  /\ conCh' = TRUE
  /\ bound' = TRUE
  /\ NoFault
  /\ UNCHANGED <<listUp, cmsg, orphanVars, listVars, brokerUp, queue>>

(* A delivery out of thin air. *)
ReceiveUnchecked(u) ==
  /\ consumer = "idle" /\ conCh
  /\ queue' = [queue EXCEPT ![u] = @ - 1]
  /\ cmsg' = u
  /\ consumer' = "items"
  /\ NoFault
  /\ UNCHANGED <<listUp, conCh, orphanVars, listVars, brokerUp, bound>>

Receive(u) ==
  /\ consumer = "idle"
  /\ conCh
  /\ queue[u] > 0
  /\ queue' = [queue EXCEPT ![u] = @ - 1]
  /\ cmsg' = u
  /\ consumer' = "items"
  /\ NoFault
  /\ UNCHANGED <<listUp, conCh, orphanVars, listVars, brokerUp, bound>>

(* An ack takes the message off the broker's hands, a nack with requeue    *)
(* puts it back.  On a closed channel both fail, are logged, and the       *)
(* broker has requeued the delivery already.                               *)
Settle(requeue) ==
  /\ consumer' = IF conCh THEN "idle" ELSE "retry"
  /\ cmsg' = NoUser
  /\ IF requeue /\ conCh THEN Requeue(cmsg) ELSE UNCHANGED queue
  /\ UNCHANGED <<conCh, brokerUp, bound>>

(* An error is settled like a success. *)
ConsumeItemsOnce ==
  /\ consumer = "items"
  /\ \/ /\ SoftDeleteItemsOf(cmsg)
        /\ consumer' = "sections"
        /\ NoFault
        /\ UNCHANGED <<cmsg, conCh, brokerVars>>
     \/ Fault("listdb") /\ Settle(FALSE) /\ UNCHANGED listVars
  /\ UNCHANGED <<listUp, orphanVars>>

(* An error is logged, and the second statement follows. *)
ConsumeItemsAnyway ==
  /\ consumer = "items"
  /\ consumer' = "sections"
  /\ \/ SoftDeleteItemsOf(cmsg) /\ NoFault
     \/ Fault("listdb") /\ UNCHANGED listVars
  /\ UNCHANGED <<listUp, cmsg, conCh, orphanVars, brokerVars>>

(* svc.SoftDeleteAllByUser, first statement; an error nacks. *)
ConsumeItems ==
  /\ consumer = "items"
  /\ \/ /\ SoftDeleteItemsOf(cmsg)
        /\ consumer' = "sections"
        /\ NoFault
        /\ UNCHANGED <<cmsg, conCh, brokerVars>>
     \/ Fault("listdb") /\ Settle(TRUE) /\ UNCHANGED listVars
  /\ UNCHANGED <<listUp, orphanVars>>

ConsumeSections ==
  /\ consumer = "sections"
  /\ \/ /\ SoftDeleteSectionsOf(cmsg)
        /\ consumer' = "ack"
        /\ NoFault
        /\ UNCHANGED <<cmsg, conCh, brokerVars>>
     \/ Fault("listdb") /\ Settle(TRUE) /\ UNCHANGED listVars
  /\ UNCHANGED <<listUp, orphanVars>>

Ack ==
  /\ consumer = "ack"
  /\ Settle(FALSE)
  /\ NoFault
  /\ UNCHANGED <<listUp, orphanVars, listVars>>

(* The channel breaks: the broker requeues what is not acknowledged, while *)
(* handleMessage runs on and notices only when it settles the delivery.    *)
DropConsumer ==
  /\ conCh' = FALSE
  /\ consumer' = IF consumer = "idle" THEN "retry" ELSE consumer
  /\ IF conCh /\ cmsg # NoUser THEN Requeue(cmsg) ELSE UNCHANGED queue
  /\ UNCHANGED <<listUp, cmsg, orphanVars, listVars>>

LoseConsumer ==
  /\ conCh
  /\ Fault("conn")
  /\ DropConsumer
  /\ UNCHANGED <<brokerUp, bound>>

ListCrash ==
  /\ listUp
  /\ Fault("crash")
  /\ listUp' = FALSE
  /\ consumer' = "absent" /\ cmsg' = NoUser /\ conCh' = FALSE
  /\ scan' = {} /\ orphan' = "idle" /\ orphanOf' = NoUser
  /\ IF conCh /\ cmsg # NoUser THEN Requeue(cmsg) ELSE UNCHANGED queue
  /\ UNCHANGED <<listVars, brokerUp, bound>>

----------------------------------------------------------------------------
(* The orphan job, every ten minutes                                       *)

(* SELECT DISTINCT user_id FROM sections WHERE deleted_at IS NULL *)
Scan ==
  /\ listUp
  /\ orphan = "idle"
  /\ scan = {}
  /\ scan' = {secOwner[s] : s \in secLive}
  /\ NoFault
  /\ UNCHANGED <<listUp, conVars, orphan, orphanOf, listVars, brokerVars>>

(* One user of the run, with userExists' verdict. *)
Check(u, exists) ==
  /\ orphan = "idle"
  /\ u \in scan
  /\ scan' = scan \ {u}
  /\ IF exists THEN UNCHANGED <<orphan, orphanOf>>
               ELSE orphan' = "items" /\ orphanOf' = u
  /\ UNCHANGED <<listUp, conVars, listVars, brokerVars>>

OrphanDone == orphan' = "idle" /\ orphanOf' = NoUser

(* cleanupUser: an error ends it, the job goes on with the next user. *)
OrphanItems ==
  /\ orphan = "items"
  /\ \/ SoftDeleteItemsOf(orphanOf) /\ orphan' = "sections" /\ NoFault /\ UNCHANGED orphanOf
     \/ Fault("listdb") /\ OrphanDone /\ UNCHANGED listVars
  /\ UNCHANGED <<listUp, conVars, scan, brokerVars>>

OrphanSections ==
  /\ orphan = "sections"
  /\ \/ SoftDeleteSectionsOf(orphanOf) /\ NoFault
     \/ Fault("listdb") /\ UNCHANGED listVars
  /\ OrphanDone
  /\ UNCHANGED <<listUp, conVars, scan, brokerVars>>

----------------------------------------------------------------------------

Consume == (\E u \in UserIds : Receive(u)) \/ ConsumeItems \/ ConsumeSections \/ Ack
=============================================================================
