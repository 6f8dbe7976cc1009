--------------------------- MODULE AccountDeletion ---------------------------
(***************************************************************************)
(* Deleting an account across the two services: user-service with its      *)
(* outbox, RabbitMQ, and list-service with its handlers, its consumer and  *)
(* its orphan job, which asks user-service whether a user exists.          *)
(*                                                                         *)
(* list-service trusts a token and never asks whether its user still       *)
(* exists, so writes may arrive until the token expires.                   *)
(***************************************************************************)
EXTENDS UserService, UserCleanup

deletionVars == <<userVars, cleanupVars, listVars, brokerVars, faults>>

(* The stack comes up: user-service runs, list-service never did. *)
DeletionInit ==
  /\ FaultsInit
  /\ BrokerInit(FALSE)
  /\ UserInit
  /\ ListInit
  /\ CleanupInit

----------------------------------------------------------------------------

(* A request to list-service that passed its JWT middleware. *)
ClientWrites(u) ==
  /\ listUp
  /\ u \in tokens
  /\ HandlerStatement(u)
  /\ NoFault
  /\ UNCHANGED <<userVars, cleanupVars, brokerVars>>

(* No answer counts as "does not exist". *)
CheckUserStrict(u) ==
  /\ Check(u, userUp /\ UserExists(u))
  /\ NoFault
  /\ UNCHANGED userVars

(* Only a definite "no" of the caller's own would count. *)
CheckUserNever(u) == Check(u, TRUE) /\ NoFault /\ UNCHANGED userVars

(* userExists: no answer counts as "exists", 200 does, and every other     *)
(* status does not.  The endpoint answers 404 for any error of its own     *)
(* queries, and the middleware 401 for a wrong key: the "oracle" fault.    *)
CheckUser(u) ==
  /\ \/ Check(u, userUp => UserExists(u)) /\ NoFault
     \/ userUp /\ Fault("oracle") /\ Check(u, FALSE)
  /\ UNCHANGED userVars

BrokerStop ==
  /\ BrokerStopped
  /\ LoseAllChannels
  /\ DropConsumer
  /\ UNCHANGED bound

BrokerStart == BrokerStarted /\ UNCHANGED <<userVars, cleanupVars, listVars>>

DeletionNext ==
  \/ UserNext /\ UNCHANGED <<cleanupVars, listVars>>
  \/ ListStart /\ UNCHANGED userVars
  \/ Connect /\ UNCHANGED userVars
  \/ Consume /\ UNCHANGED userVars
  \/ LoseConsumer /\ UNCHANGED userVars
  \/ ListCrash /\ UNCHANGED userVars
  \/ Scan /\ UNCHANGED userVars
  \/ OrphanItems /\ UNCHANGED userVars
  \/ OrphanSections /\ UNCHANGED userVars
  \/ \E u \in UserIds : ClientWrites(u) \/ CheckUser(u)
  \/ BrokerStop
  \/ BrokerStart

DeletionSpec == DeletionInit /\ [][DeletionNext]_deletionVars

(* Goroutines are scheduled, the orphan job's ticker fires, dead           *)
(* containers are restarted and RabbitMQ comes back.                       *)
DeletionFairness ==
  /\ WF_deletionVars(Poll /\ UNCHANGED <<cleanupVars, listVars>>)
  /\ \A r \in Requests : WF_deletionVars(Handler(r) /\ UNCHANGED <<cleanupVars, listVars>>)
  /\ \A u \in UserIds : WF_deletionVars(CheckUser(u))
  /\ WF_deletionVars(UserStart /\ UNCHANGED <<cleanupVars, listVars>>)
  /\ WF_deletionVars(BrokerStart)
  /\ WF_deletionVars(ListStart /\ UNCHANGED userVars)
  /\ WF_deletionVars(Connect /\ UNCHANGED userVars)
  /\ WF_deletionVars(Consume /\ UNCHANGED userVars)
  /\ WF_deletionVars(Scan /\ UNCHANGED userVars)
  /\ WF_deletionVars((OrphanItems \/ OrphanSections) /\ UNCHANGED userVars)

DeletionFairSpec == DeletionSpec /\ DeletionFairness

----------------------------------------------------------------------------
(* Properties                                                              *)

DeletionTypeOK ==
  /\ UserTypeOK
  /\ BrokerTypeOK
  /\ ListTypeOK
  /\ CleanupTypeOK
  /\ faults \in 0..MaxFaults

(* Whoever soft-deletes all of a user's lists, the consumer of a possibly  *)
(* redelivered message or the orphan job on a possibly stale scan, does so *)
(* for a user whose account is gone for good (consumer.go handleMessage,   *)
(* orphan_cleanup.go run).                                                 *)
OnlyDeletedPurged ==
  \A u \in UserIds : cmsg = u \/ orphanOf = u => acct[u] = "deleted"

(* The lists have no rows of users that never had a complete account, and  *)
(* a live owner's account is complete, so the endpoint that needs both of  *)
(* its rows answers 200 for every live owner (handler.go UserExists).      *)
OwnersAnswered ==
  \A s \in SectionIds : secOwner[s] # NoUser =>
    acct[secOwner[s]] = "deleted" \/ UserExists(secOwner[s])

(* The stack implements the promise, read off the rows. *)
Promise == INSTANCE DeletionPromise WITH
  account <- acct,
  visible <- [u \in UserIds |-> GetSections(u)]

(* Safety half of the promise: the refinement itself. *)
KeepsPromise == Promise!PromiseSpec

(* With its liveness half: a deleted user's sections are all soft-deleted  *)
(* sooner or later, whichever messages were lost (the orphan job).         *)
FulfilsPromise == Promise!PromiseFairSpec

(* To whoever reads list_db the stack is users who write and cleanups for  *)
(* users who are gone, nothing else: what FullList says of a reader holds  *)
(* of the stack.                                                           *)
Writers == INSTANCE ListWriters WITH gone <- {u \in UserIds : acct[u] = "deleted"}

WritesLikeThat == Writers!WritersSpec

(* The deletion event of u is in the outbox, with the handler of the       *)
(* fallback, in the queue or with the consumer, unacknowledged.            *)
EventOwed(u) ==
  \/ outbox[u] = "pending" /\ marking # u
  \/ \E r \in Requests : Announcing(r, u)
  \/ queue[u] > 0
  \/ cmsg = u /\ conCh

(* The three ways to lose one: published before the queue was ever bound,  *)
(* dead on the wire unconfirmed, or owed by the fallback, which publishes  *)
(* once.                                                                   *)
EventLost(u) ==
  \/ ~bound
  \/ marking' = u /\ pollCh \notin openCh'
  \/ \E r \in Requests : Announcing(r, u)

EventEnds(u) == EventLost(u) \/ (cmsg = u /\ consumer = "ack")

(* From the outbox to the ack that follows both of the consumer's          *)
(* statements no event gets lost, whatever crashes, breaks or fails, but   *)
(* in those ways, which are left to the orphan job (outbox.go poll,        *)
(* consumer.go handleMessage).                                             *)
EventsKept ==
  [][\A u \in UserIds : EventOwed(u) /\ ~EventOwed(u)' => EventEnds(u)]_deletionVars

(* What the consumer has done so far for the delivery in hand. *)
Handled(u) ==
  /\ consumer \in {"sections", "ack"} => itemLive \cap ItemsOf(u) = {}
  /\ consumer = "ack" => GetSections(u) = {}

(* Deleted, no longer able to write, and still owed the cleanup. *)
Pledged(u) ==
  /\ acct[u] = "deleted" /\ u \notin tokens
  /\ EventOwed(u)
  /\ cmsg = u => Handled(u)

Clean(u) == GetSections(u) = {} /\ itemLive \cap ItemsOf(u) = {}

(* Such a user stays so until no row of the user is active, or the event   *)
(* is lost in one of the three ways: a consumer that crashes between its   *)
(* statements, settles on a dead channel or has one of them fail does not  *)
(* end it with half of the rows (user_service.go DeleteUser, consumer.go   *)
(* handleMessage, list_repo.go SoftDeleteAllByUser).                       *)
PledgesMet ==
  [][\A u \in UserIds :
       Pledged(u) /\ ~Pledged(u)' => Clean(u)' \/ EventLost(u)]_deletionVars

(* Deleted, no longer able to write, and off the lists. *)
Vanished(u) == acct[u] = "deleted" /\ u \notin tokens /\ GetSections(u) = {}

(* Which is final: nothing gives a deleted user a token again, no late     *)
(* delivery or cleanup brings a row back, and nobody writes for somebody   *)
(* else (user_service.go Login, list_repo.go CreateSection).               *)
VanishedStays == [][\A u \in UserIds : Vanished(u) => Vanished(u)']_deletionVars
=============================================================================
