------------------------ MODULE AccountDeletionProofs ------------------------
(***************************************************************************)
(* What the two services together guarantee, for any number of users,      *)
(* sections, items, handlers and faults.                                   *)
(*                                                                         *)
(* A cleanup needs no transaction to be safe: what makes it safe is who it *)
(* runs for.  The consumer's user came out of the queue, so it is deleted  *)
(* (QueueInv).  The orphan job's user came out of the sections table, and  *)
(* whoever owns a section holds or held a token, so it once had a complete *)
(* account; when user-service denies it, it must have been deleted since.  *)
(* Hence the strengthening: everyone the list tables or the current scan   *)
(* mention is Settled, deleted or complete, which no step ever undoes.     *)
(***************************************************************************)
EXTENDS AccountDeletion, UserServiceProofs

(* A user with a complete account, or one that was deleted. *)
Settled(u) == acct[u] = "deleted" \/ UserExists(u)

ScanSettled == \A u \in scan : Settled(u)

(* The consumer's statements and the orphan job's run for some user. *)
CleanupBusy ==
  /\ consumer \in {"items", "sections", "ack"} => cmsg \in UserIds
  /\ orphan # "idle" => orphanOf \in UserIds

ConsumerOfDeleted == \A u \in UserIds : cmsg = u => acct[u] = "deleted"

OrphanOfDeleted == \A u \in UserIds : orphanOf = u => acct[u] = "deleted"

ListInv == ListTypeOK /\ OwnersAnswered

CleanupInv ==
  /\ CleanupTypeOK
  /\ CleanupBusy
  /\ ScanSettled
  /\ ConsumerOfDeleted

DeletionInv == ServiceInv /\ ListInv /\ CleanupInv

(* The exists endpoint's only error-free answers are the faithful ones. *)
FaithfulOracle == "oracle" \notin FaultKinds

----------------------------------------------------------------------------

(* A step of user-service opens an account, closes one, or leaves them all. *)
LEMMA AccountStep ==
  ASSUME UserInv, UserNext
  PROVE  \/ UNCHANGED acct
         \/ \E u \in UserIds :
              \/ acct[u] = "unused" /\ acct' = [acct EXCEPT ![u] = "live"]
              \/ acct[u] = "live" /\ acct' = [acct EXCEPT ![u] = "deleted"]
BY DEF UserInv, UserTypeOK, HandlersBusy, UserNext, Poll, Handler, Register,
       RegisterProfile, Login, ExpireToken, DeleteUserWithOutbox, FallbackDelete, RemoveUser,
       CaptureChannel, PublishDirect, Reconnect, PollFetch, PollPublish, PollMark,
       LoseChannel, UserCrash, UserStart, dbVars

(* Nothing user-service does unsettles a user: a profile goes only with its *)
(* users row.                                                              *)
LEMMA SettledForGood ==
  ASSUME UserInv, UserNext, NEW v \in UserIds, Settled(v)
  PROVE  Settled(v)'
BY DEF UserInv, UserTypeOK, HandlersBusy, Settled, UserExists, UserNext, Poll, Handler,
       Register, RegisterProfile, Login, ExpireToken, DeleteUserWithOutbox, FallbackDelete,
       RemoveUser, CaptureChannel, PublishDirect, Reconnect, PollFetch, PollPublish,
       PollMark, LoseChannel, UserCrash, UserStart, dbVars

(* Whoever holds a token is settled, and so is every owner. *)
LEMMA OwnersSettled ==
  ASSUME DeletionInv
  PROVE  /\ \A u \in tokens : Settled(u)
         /\ \A s \in secLive : secOwner[s] \in UserIds /\ Settled(secOwner[s])
BY DEF DeletionInv, ServiceInv, UserInv, ListInv, OwnersAnswered, TokenMeansProfile, Settled,
       ListTypeOK

(* The parts of the invariant that a step leaves alone. *)
LEMMA ListKept ==
  ASSUME ListInv, UNCHANGED listVars, \A u \in UserIds : Settled(u) => Settled(u)'
  PROVE  ListInv'
<1>1. ListTypeOK'
  BY DEF ListInv, ListTypeOK, listVars, secVars, itemVars
<1>2. OwnersAnswered'
  BY DEF ListInv, ListTypeOK, OwnersAnswered, Settled, UserExists, listVars, secVars
<1> QED
  BY <1>1, <1>2 DEF ListInv

LEMMA UsersKept ==
  ASSUME UNCHANGED userVars
  PROVE  /\ UserInv => UserInv'
         /\ \A u \in UserIds : Settled(u)' = Settled(u)
<1>1. UserInv => UserInv'
  BY QuietStep DEF userVars, UserInv, UserTypeOK, PollerHoldsRows, dbVars, chanVars, pollVars
<1>2. \A u \in UserIds : Settled(u)' = Settled(u)
  BY DEF Settled, UserExists, userVars, dbVars
<1> QED
  BY <1>1, <1>2

(* The statements of list_repo.go keep the tables well-formed, and only a  *)
(* token holder becomes an owner.                                          *)
LEMMA WriteStep ==
  ASSUME DeletionInv, NEW u \in UserIds, ClientWrites(u)
  PROVE  ListInv'
<1> USE NoUserAssumption, ListIdsAssumption DEF ListInv
<1>1. ListTypeOK /\ OwnersAnswered /\ Settled(u) /\ UNCHANGED <<acct, profiles>>
  BY OwnersSettled DEF DeletionInv, ClientWrites, userVars, dbVars
<1>2. ASSUME NEW s \in SectionIds, NEW n \in Names, NEW p \in Positions,
             CreateSection(u, s, n, p)
      PROVE  ListInv'
  BY <1>1, <1>2
  DEF CreateSection, ListTypeOK, OwnersAnswered, Settled, UserExists, SectionRows, itemVars
<1>3. ASSUME NEW s \in SectionIds, UpdateSection(u, s) PROVE ListInv'
  <2>1. PICK n \in Names \cup {secRow[s].name}, p \in Positions \cup {secRow[s].pos} :
          secRow' = [secRow EXCEPT ![s] = [name |-> n, pos |-> p]]
    BY <1>3 DEF UpdateSection
  <2>2. n \in Names /\ p \in Int
    BY <1>1, <2>1 DEF ListTypeOK, SectionRows
  <2> QED
    BY <1>1, <1>3, <2>1, <2>2
    DEF UpdateSection, ListTypeOK, OwnersAnswered, UserExists, SectionRows, itemVars
<1>4. ASSUME NEW s \in SectionIds, DeleteSection(u, s) PROVE ListInv'
  BY <1>1, <1>4 DEF DeleteSection, ListTypeOK, OwnersAnswered, UserExists, itemVars
<1>5. ASSUME NEW s \in SectionIds, NEW i \in ItemIds, NEW n \in Names,
             NEW t \in Translations \cup {NoTranslation}, NEW q \in Quantities,
             CreateItem(u, s, i, n, t, q)
      PROVE  ListInv'
  BY <1>1, <1>5
  DEF CreateItem, ListTypeOK, OwnersAnswered, UserExists, ItemRows, secVars
<1>6. ASSUME NEW i \in ItemIds, UpdateItem(u, i) PROVE ListInv'
  <2>1. PICK n \in Names \cup {itemRow[i].name}, t \in Translations \cup {itemRow[i].second},
             q \in Quantities \cup {itemRow[i].qty}, c \in BOOLEAN :
          itemRow' = [itemRow EXCEPT ![i] = [name |-> n, second |-> t, qty |-> q, checked |-> c]]
    BY <1>6 DEF UpdateItem
  <2>2. n \in Names /\ t \in Translations \cup {NoTranslation} /\ q \in Int
    BY <1>1, <2>1 DEF ListTypeOK, ItemRows
  <2> QED
    BY <1>1, <1>6, <2>1, <2>2
    DEF UpdateItem, ListTypeOK, OwnersAnswered, UserExists, ItemRows, secVars
<1>7. ASSUME NEW i \in ItemIds, DeleteItem(u, i) PROVE ListInv'
  BY <1>1, <1>7 DEF DeleteItem, ListTypeOK, OwnersAnswered, UserExists, secVars
<1> QED
  BY <1>2, <1>3, <1>4, <1>5, <1>6, <1>7 DEF ClientWrites, HandlerStatement

(* The cleanup statements only take rows out of the live ones. *)
LEMMA CleanupStatements ==
  ASSUME ListInv, UNCHANGED userVars,
         NEW v, SoftDeleteItemsOf(v) \/ SoftDeleteSectionsOf(v)
  PROVE  ListInv'
BY DEF ListInv, ListTypeOK, OwnersAnswered, UserExists, SoftDeleteItemsOf,
       SoftDeleteSectionsOf, secVars, itemVars, userVars, dbVars


----------------------------------------------------------------------------
(* The steps of list-service, which leave user-service alone.              *)

LEMMA SettleStep ==
  ASSUME CleanupInv, QueueInv, NEW b \in BOOLEAN, Settle(b), cmsg \in UserIds,
         UNCHANGED <<userVars, listUp, orphanVars>>
  PROVE  CleanupInv' /\ QueueInv'
<1> USE NoUserAssumption DEF CleanupInv, userVars, dbVars, orphanVars
<1>1. CleanupTypeOK' /\ CleanupBusy'
  BY DEF Settle, CleanupTypeOK, CleanupBusy
<1>2. ScanSettled' /\ ConsumerOfDeleted'
  BY DEF Settle, ScanSettled, ConsumerOfDeleted, Settled, UserExists
<1>3. QueueInv'
  <2>1. CASE UNCHANGED queue
    BY <2>1 DEF Settle, QueueInv, BrokerTypeOK
  <2>2. CASE Requeue(cmsg)
    BY <2>2 DEF Settle, Requeue, QueueInv, BrokerTypeOK, ConsumerOfDeleted
  <2> QED
    BY <2>1, <2>2 DEF Settle
<1> QED
  BY <1>1, <1>2, <1>3

LEMMA ConsumeStep ==
  ASSUME DeletionInv, Consume, UNCHANGED userVars
  PROVE  ListInv' /\ CleanupInv' /\ QueueInv'
<1> USE NoUserAssumption DEF CleanupInv, DeletionInv, ServiceInv
<1>1. ASSUME NEW u \in UserIds, Receive(u) PROVE ListInv' /\ CleanupInv' /\ QueueInv'
  <2>1. acct[u] = "deleted" /\ UNCHANGED <<acct, profiles>>
    BY <1>1 DEF Receive, QueueInv, userVars, dbVars
  <2>2. QueueInv'
    BY <1>1, <2>1 DEF Receive, QueueInv, BrokerTypeOK
  <2>3. CleanupTypeOK' /\ CleanupBusy'
    BY <1>1 DEF Receive, CleanupTypeOK, CleanupBusy, orphanVars
  <2>4. ScanSettled' /\ ConsumerOfDeleted'
    BY <1>1, <2>1
    DEF Receive, ScanSettled, ConsumerOfDeleted, Settled, UserExists, orphanVars
  <2> QED
    BY <1>1, <2>2, <2>3, <2>4, ListKept, UsersKept DEF Receive
<1>2. ASSUME UNCHANGED <<listUp, orphanVars, cmsg, conCh, brokerVars>>,
             cmsg \in UserIds, consumer' \in {"sections", "ack"}
      PROVE  CleanupInv' /\ QueueInv'
  <2>1. UNCHANGED <<acct, profiles>>
    BY DEF userVars, dbVars
  <2>2. CleanupTypeOK' /\ CleanupBusy'
    BY <1>2 DEF CleanupTypeOK, CleanupBusy, orphanVars
  <2>3. ScanSettled' /\ ConsumerOfDeleted' /\ QueueInv'
    BY <1>2, <2>1
    DEF ScanSettled, ConsumerOfDeleted, Settled, UserExists, orphanVars, QueueInv,
        BrokerTypeOK, brokerVars
  <2> QED
    BY <2>2, <2>3
<1>3. CASE ConsumeItems
  <2>1. cmsg \in UserIds
    BY <1>3 DEF ConsumeItems, CleanupBusy
  <2>2. CASE SoftDeleteItemsOf(cmsg) /\ consumer' = "sections" /\ UNCHANGED <<cmsg, conCh, brokerVars>>
    BY <1>2, <1>3, <2>1, <2>2, CleanupStatements DEF ConsumeItems
  <2>3. CASE Settle(TRUE) /\ UNCHANGED listVars
    BY <1>3, <2>1, <2>3, SettleStep, ListKept, UsersKept DEF ConsumeItems
  <2> QED
    BY <1>3, <2>2, <2>3 DEF ConsumeItems
<1>4. CASE ConsumeSections
  <2>1. cmsg \in UserIds
    BY <1>4 DEF ConsumeSections, CleanupBusy
  <2>2. CASE SoftDeleteSectionsOf(cmsg) /\ consumer' = "ack" /\ UNCHANGED <<cmsg, conCh, brokerVars>>
    BY <1>2, <1>4, <2>1, <2>2, CleanupStatements DEF ConsumeSections
  <2>3. CASE Settle(TRUE) /\ UNCHANGED listVars
    BY <1>4, <2>1, <2>3, SettleStep, ListKept, UsersKept DEF ConsumeSections
  <2> QED
    BY <1>4, <2>2, <2>3 DEF ConsumeSections
<1>5. CASE Ack
  <2>1. cmsg \in UserIds
    BY <1>5 DEF Ack, CleanupBusy
  <2> QED
    BY <1>5, <2>1, SettleStep, ListKept, UsersKept DEF Ack
<1> QED
  BY <1>1, <1>3, <1>4, <1>5 DEF Consume

(* A broken channel or a dead process: the delivery in hand goes back.     *)
LEMMA BreakStep ==
  ASSUME DeletionInv, UNCHANGED <<userVars, listVars>>,
         DropConsumer \/ ListCrash
  PROVE  ListInv' /\ CleanupInv' /\ queue' \in [UserIds -> Nat]
         /\ \A u \in UserIds : queue'[u] > 0 => acct'[u] = "deleted"
<1> USE NoUserAssumption DEF CleanupInv, DeletionInv, ServiceInv, userVars, dbVars
<1>1. UNCHANGED queue \/ (cmsg # NoUser /\ Requeue(cmsg))
  BY DEF DropConsumer, ListCrash
<1>2. /\ queue' \in [UserIds -> Nat]
      /\ \A u \in UserIds : queue'[u] > 0 => acct'[u] = "deleted"
  BY <1>1 DEF Requeue, QueueInv, BrokerTypeOK, CleanupTypeOK, ConsumerOfDeleted
<1>3. CleanupTypeOK' /\ CleanupBusy'
  BY DEF DropConsumer, ListCrash, CleanupTypeOK, CleanupBusy, orphanVars
<1>4. ScanSettled' /\ ConsumerOfDeleted'
  BY DEF DropConsumer, ListCrash, ScanSettled, ConsumerOfDeleted, Settled, UserExists,
         orphanVars
<1>5. ListInv'
  BY ListKept, UsersKept
<1> QED
  BY <1>2, <1>3, <1>4, <1>5

LEMMA StartStep ==
  ASSUME DeletionInv, UNCHANGED userVars, ListStart \/ Connect
  PROVE  ListInv' /\ CleanupInv' /\ QueueInv'
<1> USE DEF CleanupInv, DeletionInv, ServiceInv, userVars, dbVars
<1>1. CleanupTypeOK' /\ CleanupBusy'
  BY DEF ListStart, Connect, CleanupTypeOK, CleanupBusy, orphanVars
<1>2. ScanSettled' /\ ConsumerOfDeleted' /\ QueueInv'
  BY DEF ListStart, Connect, ScanSettled, ConsumerOfDeleted, Settled, UserExists, orphanVars,
         QueueInv, BrokerTypeOK, brokerVars
<1>3. ListInv'
  BY ListKept, UsersKept DEF ListStart, Connect
<1> QED
  BY <1>1, <1>2, <1>3

(* The orphan job: its scan is made of owners.                             *)
LEMMA OrphanStep ==
  ASSUME DeletionInv, UNCHANGED userVars,
         Scan \/ OrphanItems \/ OrphanSections \/ \E u \in UserIds : CheckUser(u)
  PROVE  ListInv' /\ CleanupInv' /\ QueueInv'
<1> USE DEF CleanupInv, DeletionInv, ServiceInv, userVars, dbVars
<1>1. UNCHANGED <<listUp, conVars, brokerVars>>
  BY DEF Scan, OrphanItems, OrphanSections, CheckUser, Check
<1>2. QueueInv' /\ ConsumerOfDeleted'
  BY <1>1 DEF QueueInv, BrokerTypeOK, brokerVars, ConsumerOfDeleted, conVars
<1>3. CASE Scan
  <2>1. \A u \in scan' : u \in UserIds /\ Settled(u)
    BY <1>3, OwnersSettled DEF Scan
  <2>2. CleanupTypeOK' /\ CleanupBusy' /\ ScanSettled'
    BY <1>1, <1>3, <2>1
    DEF Scan, CleanupTypeOK, CleanupBusy, ScanSettled, Settled, UserExists, conVars
  <2> QED
    BY <1>2, <1>3, <2>2, ListKept, UsersKept DEF Scan
<1>4. ASSUME NEW u \in UserIds, CheckUser(u) PROVE ListInv' /\ CleanupInv'
  <2>1. CleanupTypeOK' /\ CleanupBusy' /\ ScanSettled'
    BY <1>1, <1>4
    DEF CheckUser, Check, CleanupTypeOK, CleanupBusy, ScanSettled, Settled, UserExists,
        conVars
  <2> QED
    BY <1>2, <1>4, <2>1, ListKept, UsersKept DEF CheckUser, Check
<1>5. CASE OrphanItems \/ OrphanSections
  <2>1. CleanupTypeOK' /\ CleanupBusy' /\ ScanSettled'
    BY <1>1, <1>5, NoUserAssumption
    DEF OrphanItems, OrphanSections, OrphanDone, CleanupTypeOK, CleanupBusy, ScanSettled,
        Settled, UserExists, conVars
  <2>2. ListInv'
    BY <1>5, CleanupStatements, ListKept, UsersKept DEF OrphanItems, OrphanSections
  <2> QED
    BY <1>2, <2>1, <2>2
<1> QED
  BY <1>2, <1>3, <1>4, <1>5


----------------------------------------------------------------------------
(* The whole stack.                                                        *)

LEMMA UserSideStep ==
  ASSUME DeletionInv, UserNext, UNCHANGED <<cleanupVars, listVars>>
  PROVE  DeletionInv'
<1> USE DEF DeletionInv, ServiceInv
<1>1. UserInv' /\ QueueInv' /\ faults' \in 0..MaxFaults
  BY UserInvStep, QueueStep, FaultBudgetStep
<1>2. \A u \in UserIds : Settled(u) => Settled(u)'
  BY SettledForGood
<1>3. ListInv'
  BY <1>2, ListKept
<1>4. CleanupTypeOK' /\ CleanupBusy'
  BY DEF CleanupInv, CleanupTypeOK, CleanupBusy, cleanupVars, conVars, orphanVars
<1>5. ScanSettled' /\ ConsumerOfDeleted'
  BY <1>2, DeletedForGood
  DEF CleanupInv, CleanupTypeOK, ScanSettled, ConsumerOfDeleted, cleanupVars, conVars, orphanVars
<1> QED
  BY <1>1, <1>3, <1>4, <1>5 DEF CleanupInv

LEMMA ListSideBudget ==
  ASSUME faults \in 0..MaxFaults, DeletionNext
  PROVE  faults' \in 0..MaxFaults
<1>1. CASE UserNext
  BY <1>1, FaultBudgetStep
<1>2. NoFault \/ (\E k \in FaultKinds : Fault(k)) \/ UserNext
  BY DEF DeletionNext, ListStart, Connect, Consume, Receive, ConsumeItems, ConsumeSections, Ack,
         LoseConsumer, ListCrash, Scan, OrphanItems, OrphanSections, ClientWrites, CheckUser,
         BrokerStop, BrokerStopped, BrokerStart, BrokerStarted, Fault
<1> QED
  BY <1>1, <1>2, MaxFaultsAssumption DEF Fault, NoFault

LEMMA DeletionInitInv == DeletionInit => DeletionInv
<1> SUFFICES ASSUME DeletionInit PROVE DeletionInv
  OBVIOUS
<1> USE NoUserAssumption, ListIdsAssumption DEF DeletionInit
<1>1. ServiceInv
  <2>1. BrokerInit(FALSE)
    OBVIOUS
  <2>2. QueueInv
    <3>1. brokerUp \in BOOLEAN /\ bound \in BOOLEAN
      BY <2>1, Zenon DEF BrokerInit
    <3>2. queue \in [UserIds -> Nat] /\ \A u \in UserIds : queue[u] = 0
      BY <2>1 DEF BrokerInit
    <3> QED
      BY <3>1, <3>2 DEF QueueInv, BrokerTypeOK
  <2>3. faults \in 0..MaxFaults
    BY MaxFaultsAssumption DEF FaultsInit
  <2> QED
    BY <2>2, <2>3, UserInitInv DEF ServiceInv
<1>2. ListInv
  BY DEF ListInv, ListInit, ListTypeOK, OwnersAnswered, SectionRows, ItemRows
<1>3. CleanupInv
  BY DEF CleanupInv, CleanupInit, CleanupTypeOK, CleanupBusy, ScanSettled, ConsumerOfDeleted
<1> QED
  BY <1>1, <1>2, <1>3 DEF DeletionInv

LEMMA DeletionInvStep == DeletionInv /\ [DeletionNext]_deletionVars => DeletionInv'
<1> SUFFICES ASSUME DeletionInv, [DeletionNext]_deletionVars PROVE DeletionInv'
  OBVIOUS
<1> USE DEF DeletionInv, ServiceInv
<1>1. faults' \in 0..MaxFaults
  BY ListSideBudget DEF deletionVars
<1>2. ASSUME UNCHANGED userVars, ListInv' /\ CleanupInv' /\ QueueInv' PROVE DeletionInv'
  BY <1>1, <1>2, UsersKept
<1>3. CASE UserNext /\ UNCHANGED <<cleanupVars, listVars>>
  BY <1>3, UserSideStep
<1>4. CASE (ListStart \/ Connect) /\ UNCHANGED userVars
  BY <1>2, <1>4, StartStep
<1>5. CASE Consume /\ UNCHANGED userVars
  BY <1>2, <1>5, ConsumeStep
<1>6. CASE (LoseConsumer \/ ListCrash) /\ UNCHANGED userVars
  <2>1. UNCHANGED <<listVars, brokerUp, bound>> /\ (DropConsumer \/ ListCrash)
    BY <1>6 DEF LoseConsumer, DropConsumer, ListCrash
  <2>2. QueueInv'
    BY <1>6, <2>1, BreakStep DEF QueueInv, BrokerTypeOK
  <2> QED
    BY <1>2, <1>6, <2>1, <2>2, BreakStep
<1>7. CASE (Scan \/ OrphanItems \/ OrphanSections) /\ UNCHANGED userVars
  BY <1>2, <1>7, OrphanStep
<1>8. ASSUME NEW u \in UserIds, CheckUser(u) PROVE DeletionInv'
  BY <1>2, <1>8, OrphanStep DEF CheckUser
<1>9. ASSUME NEW u \in UserIds, ClientWrites(u) PROVE DeletionInv'
  <2>1. UNCHANGED <<userVars, cleanupVars, brokerVars>> /\ ListInv'
    BY <1>9, WriteStep DEF ClientWrites
  <2>2. QueueInv' /\ ConsumerOfDeleted'
    BY <2>1
    DEF QueueInv, BrokerTypeOK, brokerVars, CleanupInv, ConsumerOfDeleted, cleanupVars, conVars,
        userVars, dbVars
  <2>3. CleanupTypeOK' /\ CleanupBusy' /\ ScanSettled'
    BY <2>1
    DEF CleanupInv, CleanupTypeOK, CleanupBusy, ScanSettled, Settled, UserExists, cleanupVars,
        conVars, orphanVars, userVars, dbVars
  <2> QED
    BY <1>2, <2>1, <2>2, <2>3 DEF CleanupInv
<1>10. CASE BrokerStop
  <2>1. UNCHANGED <<dbVars, req, userUp, pubCh, pollCh, pollVars>> /\ openCh' = {}
    BY <1>10 DEF BrokerStop, LoseAllChannels
  <2>2. UserInv'
    BY <2>1, QuietStep DEF UserInv, UserTypeOK, PollerHoldsRows, dbVars, pollVars
  <2>3. CleanupTypeOK' /\ CleanupBusy'
    BY <1>10
    DEF BrokerStop, DropConsumer, CleanupInv, CleanupTypeOK, CleanupBusy, orphanVars
  <2>4. ScanSettled' /\ ConsumerOfDeleted'
    BY <1>10, <2>1
    DEF BrokerStop, DropConsumer, CleanupInv, ScanSettled, ConsumerOfDeleted, Settled,
        UserExists, orphanVars, dbVars
  <2>5. ListInv'
    BY <1>10, <2>1, ListKept
    DEF BrokerStop, DropConsumer, Settled, UserExists, dbVars
  <2>6. QueueInv'
    <3>1. UNCHANGED queue \/ (cmsg \in UserIds /\ acct[cmsg] = "deleted" /\ Requeue(cmsg))
      BY <1>10 DEF BrokerStop, DropConsumer, CleanupInv, CleanupTypeOK, ConsumerOfDeleted
    <3>2. brokerUp' = FALSE /\ bound' = bound /\ UNCHANGED acct
      BY <1>10, <2>1 DEF BrokerStop, BrokerStopped, dbVars
    <3>3. queue' \in [UserIds -> Nat]
      BY <3>1 DEF Requeue, QueueInv, BrokerTypeOK
    <3>4. \A u \in UserIds : queue'[u] > 0 => acct'[u] = "deleted"
      BY <3>1, <3>2 DEF Requeue, QueueInv, BrokerTypeOK
    <3> QED
      BY <3>2, <3>3, <3>4 DEF QueueInv, BrokerTypeOK
  <2> QED
    BY <1>1, <2>2, <2>3, <2>4, <2>5, <2>6 DEF CleanupInv
<1>11. CASE BrokerStart \/ UNCHANGED deletionVars
  <2>1. /\ UNCHANGED <<userVars, cleanupVars, listVars, queue, bound>>
        /\ brokerUp' \in BOOLEAN
    BY <1>11 DEF BrokerStart, BrokerStarted, deletionVars, brokerVars, QueueInv, BrokerTypeOK
  <2>2. QueueInv' /\ ConsumerOfDeleted'
    BY <2>1
    DEF QueueInv, BrokerTypeOK, CleanupInv, ConsumerOfDeleted, cleanupVars, conVars, userVars,
        dbVars
  <2>3. CleanupTypeOK' /\ CleanupBusy' /\ ScanSettled'
    BY <2>1
    DEF CleanupInv, CleanupTypeOK, CleanupBusy, ScanSettled, Settled, UserExists, cleanupVars,
        conVars, orphanVars, userVars, dbVars
  <2> QED
    BY <1>2, <2>1, <2>2, <2>3, ListKept, UsersKept DEF CleanupInv
<1> QED
  BY <1>3, <1>4, <1>5, <1>6, <1>7, <1>8, <1>9, <1>10, <1>11 DEF DeletionNext

LEMMA DeletionInvariant == DeletionSpec => []DeletionInv
  BY DeletionInitInv, DeletionInvStep, PTL DEF DeletionSpec


(* Every variable of the stack keeps its type. *)
THEOREM DeletionTypesHold == DeletionSpec => []DeletionTypeOK
<1>1. DeletionInv => DeletionTypeOK
  BY DEF DeletionInv, ServiceInv, UserInv, QueueInv, ListInv, CleanupInv, DeletionTypeOK
<1> QED
  BY <1>1, DeletionInvariant, PTL

(* Whoever owns a section has a complete account or a deleted one: the     *)
(* orphan job's question about an owner has a definite answer              *)
(* (orphan_cleanup.go userExists, handler.go UserExists).                  *)
THEOREM OwnersAreAnswered == DeletionSpec => []OwnersAnswered
<1>1. DeletionInv => OwnersAnswered
  BY DEF DeletionInv, ListInv
<1> QED
  BY <1>1, DeletionInvariant, PTL

(* The job goes to work on a user only when user-service denies one whom   *)
(* the sections table mentions.                                            *)
LEMMA OrphanOfDeletedStep ==
  ASSUME FaithfulOracle, DeletionInv, OrphanOfDeleted, [DeletionNext]_deletionVars
  PROVE  OrphanOfDeleted'
<1> USE NoUserAssumption DEF DeletionInv, ServiceInv
<1>1. CASE UserNext /\ UNCHANGED <<cleanupVars, listVars>>
  BY <1>1, DeletedForGood DEF OrphanOfDeleted, cleanupVars, orphanVars
<1>2. ASSUME UNCHANGED acct, orphanOf' \in {orphanOf, NoUser} PROVE OrphanOfDeleted'
  BY <1>2 DEF OrphanOfDeleted
<1>3. CASE (ListStart \/ Connect \/ Consume \/ LoseConsumer \/ ListCrash \/ Scan) /\ UNCHANGED userVars
  BY <1>2, <1>3
  DEF ListStart, Connect, Consume, Receive, ConsumeItems, ConsumeSections, Ack, LoseConsumer,
      DropConsumer, ListCrash, Scan, orphanVars, userVars, dbVars
<1>4. CASE (OrphanItems \/ OrphanSections) /\ UNCHANGED userVars
  BY <1>2, <1>4 DEF OrphanItems, OrphanSections, OrphanDone, userVars, dbVars
<1>5. ASSUME NEW u \in UserIds, ClientWrites(u) PROVE OrphanOfDeleted'
  BY <1>2, <1>5 DEF ClientWrites, cleanupVars, orphanVars, userVars, dbVars
<1>6. ASSUME NEW u \in UserIds, CheckUser(u) PROVE OrphanOfDeleted'
  <2>1. u \in scan /\ UNCHANGED acct /\ (orphanOf' = orphanOf \/ (orphanOf' = u /\ ~UserExists(u)))
    BY <1>6 DEF CheckUser, Check, Fault, FaithfulOracle, userVars, dbVars
  <2>2. acct[u] = "deleted" \/ orphanOf' = orphanOf
    BY <2>1 DEF CleanupInv, ScanSettled, Settled
  <2> QED
    BY <2>1, <2>2 DEF OrphanOfDeleted
<1>7. CASE BrokerStop \/ BrokerStart \/ UNCHANGED deletionVars
  BY <1>2, <1>7
  DEF BrokerStop, LoseAllChannels, DropConsumer, BrokerStart, deletionVars, cleanupVars,
      orphanVars, userVars, dbVars
<1> QED
  BY <1>1, <1>3, <1>4, <1>5, <1>6, <1>7 DEF DeletionNext

LEMMA PurgeInvariant ==
  ASSUME FaithfulOracle
  PROVE  DeletionSpec => [](DeletionInv /\ OrphanOfDeleted)
<1>1. DeletionInit => DeletionInv /\ OrphanOfDeleted
  BY DeletionInitInv, NoUserAssumption DEF DeletionInit, CleanupInit, OrphanOfDeleted
<1>2. DeletionInv /\ OrphanOfDeleted /\ [DeletionNext]_deletionVars
        => (DeletionInv /\ OrphanOfDeleted)'
  BY DeletionInvStep, OrphanOfDeletedStep
<1> QED
  BY <1>1, <1>2, PTL DEF DeletionSpec

(* While the exists endpoint answers 404 for no other reason than the      *)
(* user's absence, both cleanups work only for users that are gone for     *)
(* good, across stale scans, redeliveries, crashes and lost connections    *)
(* (consumer.go handleMessage, orphan_cleanup.go run).                     *)
THEOREM CleanupsAreSafe ==
  ASSUME FaithfulOracle
  PROVE  DeletionSpec => []OnlyDeletedPurged
<1>1. DeletionInv /\ OrphanOfDeleted => OnlyDeletedPurged
  BY DEF DeletionInv, CleanupInv, ConsumerOfDeleted, OrphanOfDeleted, OnlyDeletedPurged
<1> QED
  BY <1>1, PurgeInvariant, PTL


----------------------------------------------------------------------------
(* The refinement of DeletionPromise, and what cleanups leave alone.       *)

(* Outside ClientWrites and the cleanup statements no list row changes.    *)
LEMMA ListStep ==
  ASSUME DeletionInv, OrphanOfDeleted, [DeletionNext]_deletionVars
  PROVE  \/ UNCHANGED <<acct, listVars>>
         \/ UserNext /\ UNCHANGED listVars
         \/ UNCHANGED acct /\ \E u \in UserIds : ClientWrites(u)
         \/ UNCHANGED acct
            /\ \E u \in UserIds :
                 acct[u] = "deleted" /\ (SoftDeleteItemsOf(u) \/ SoftDeleteSectionsOf(u))
<1> DEFINE Cleaned == \E u \in UserIds :
                        acct[u] = "deleted" /\ (SoftDeleteItemsOf(u) \/ SoftDeleteSectionsOf(u))
<1> USE DEF DeletionInv, CleanupInv, userVars, dbVars
<1>1. CASE UserNext /\ UNCHANGED <<cleanupVars, listVars>>
  BY <1>1
<1>2. CASE (ListStart \/ Connect \/ LoseConsumer \/ ListCrash \/ Scan) /\ UNCHANGED userVars
  BY <1>2 DEF ListStart, Connect, LoseConsumer, DropConsumer, ListCrash, Scan
<1>3. CASE Consume /\ UNCHANGED userVars
  <2>1. ASSUME ConsumeItems \/ ConsumeSections PROVE UNCHANGED listVars \/ Cleaned
    <3>1. cmsg \in UserIds /\ acct[cmsg] = "deleted"
      BY <2>1 DEF ConsumeItems, ConsumeSections, CleanupBusy, ConsumerOfDeleted
    <3> QED
      BY <2>1, <3>1 DEF ConsumeItems, ConsumeSections
  <2> QED
    BY <1>3, <2>1 DEF Consume, Receive, Ack
<1>4. CASE (OrphanItems \/ OrphanSections) /\ UNCHANGED userVars
  <2>1. orphanOf \in UserIds /\ acct[orphanOf] = "deleted"
    BY <1>4 DEF OrphanItems, OrphanSections, CleanupBusy, OrphanOfDeleted
  <2>2. UNCHANGED listVars \/ Cleaned
    BY <1>4, <2>1 DEF OrphanItems, OrphanSections
  <2> QED
    BY <1>4, <2>2
<1>5. ASSUME NEW u \in UserIds, ClientWrites(u) \/ CheckUser(u)
      PROVE  UNCHANGED acct /\ (ClientWrites(u) \/ UNCHANGED listVars)
  BY <1>5 DEF ClientWrites, CheckUser, Check
<1>6. CASE BrokerStop \/ BrokerStart \/ UNCHANGED deletionVars
  BY <1>6
  DEF BrokerStop, LoseAllChannels, DropConsumer, BrokerStart, deletionVars
<1> QED
  BY <1>1, <1>2, <1>3, <1>4, <1>5, <1>6 DEF DeletionNext

(* A request to list-service adds one section to its user's list, removes  *)
(* one, or leaves every list as it was.                                    *)
LEMMA WriteRefines ==
  ASSUME DeletionInv, NEW u \in UserIds, ClientWrites(u), UNCHANGED acct
  PROVE  Promise!PromiseNext \/ UNCHANGED Promise!promiseVars
<1> USE NoUserAssumption
    DEF Promise!promiseVars, GetSections, SectionsOf
<1>1. ListTypeOK /\ acct[u] # "unused"
  BY OwnersSettled DEF DeletionInv, ListInv, ClientWrites, Settled, UserExists
<1>2. ASSUME NEW s \in SectionIds, NEW n \in Names, NEW p \in Positions,
             CreateSection(u, s, n, p)
      PROVE  Promise!Add(u, s)
  <2>1. s \notin secLive /\ secOwner' = [secOwner EXCEPT ![s] = u] /\ secLive' = secLive \cup {s}
    BY <1>1, <1>2 DEF CreateSection, ListTypeOK
  <2>2. \A v \in UserIds :
          GetSections(v)' = IF v = u THEN GetSections(v) \cup {s} ELSE GetSections(v)
    BY <1>1, <2>1 DEF ListTypeOK
  <2> QED
    BY <1>1, <2>1, <2>2 DEF Promise!Add
<1>3. ASSUME NEW s \in SectionIds, DeleteSection(u, s) PROVE Promise!Remove(u, s)
  <2>1. \A v \in UserIds :
          GetSections(v)' = IF v = u THEN GetSections(v) \ {s} ELSE GetSections(v)
    BY <1>1, <1>3 DEF DeleteSection, ListTypeOK
  <2>2. s \in GetSections(u) /\ u \in UserIds
    BY <1>3 DEF DeleteSection
  <2>3. [v \in UserIds |-> GetSections(v)]'
          = [[v \in UserIds |-> GetSections(v)] EXCEPT ![u] = GetSections(u) \ {s}]
    BY <2>1
  <2> QED
    BY <2>2, <2>3 DEF Promise!Remove
<1>4. ASSUME UNCHANGED <<secOwner, secLive>> PROVE UNCHANGED Promise!promiseVars
  BY <1>4
<1> QED
  BY <1>2, <1>3, <1>4
  DEF ClientWrites, HandlerStatement, UpdateSection, CreateItem, UpdateItem, DeleteItem, secVars,
      Promise!PromiseNext

(* Every step of the stack is a step of the promise or a stutter. *)
LEMMA StepRefines ==
  ASSUME DeletionInv, OrphanOfDeleted, [DeletionNext]_deletionVars
  PROVE  [Promise!PromiseNext]_(Promise!promiseVars)
<1> USE DEF Promise!promiseVars
<1>1. ASSUME UNCHANGED <<secOwner, secLive>>
      PROVE  [u \in UserIds |-> GetSections(u)]' = [u \in UserIds |-> GetSections(u)]
  BY <1>1 DEF GetSections, SectionsOf
<1>2. CASE UNCHANGED <<acct, listVars>>
  BY <1>1, <1>2 DEF listVars, secVars
<1>3. CASE UserNext /\ UNCHANGED listVars
  <2>1. CASE UNCHANGED acct
    BY <1>1, <1>3, <2>1 DEF listVars, secVars
  <2>2. ASSUME NEW u \in UserIds, acct[u] = "unused", acct' = [acct EXCEPT ![u] = "live"]
        PROVE  Promise!Open(u)
    BY <1>1, <1>3, <2>2 DEF Promise!Open, listVars, secVars
  <2>3. ASSUME NEW u \in UserIds, acct[u] = "live", acct' = [acct EXCEPT ![u] = "deleted"]
        PROVE  Promise!Close(u)
    BY <1>1, <1>3, <2>3 DEF Promise!Close, listVars, secVars
  <2> QED
    BY <1>3, <2>1, <2>2, <2>3, AccountStep DEF DeletionInv, ServiceInv, Promise!PromiseNext
<1>4. ASSUME NEW u \in UserIds, ClientWrites(u), UNCHANGED acct
      PROVE  Promise!PromiseNext \/ UNCHANGED Promise!promiseVars
  BY <1>4, WriteRefines
<1>5. ASSUME NEW u \in UserIds, acct[u] = "deleted", UNCHANGED acct,
             SoftDeleteItemsOf(u) \/ SoftDeleteSectionsOf(u)
      PROVE  Promise!PromiseNext \/ UNCHANGED Promise!promiseVars
  <2>1. CASE SoftDeleteItemsOf(u)
    BY <1>1, <1>5, <2>1 DEF SoftDeleteItemsOf, secVars
  <2>2. CASE SoftDeleteSectionsOf(u)
    <3>1. \A v \in UserIds : GetSections(v)' = IF v = u THEN {} ELSE GetSections(v)
      BY <2>2 DEF SoftDeleteSectionsOf, GetSections, SectionsOf
    <3>2. CASE GetSections(u) = {}
      BY <1>5, <3>1, <3>2
    <3>3. CASE GetSections(u) # {}
      BY <1>5, <3>1, <3>3 DEF Promise!Purge, Promise!PromiseNext
    <3> QED
      BY <3>2, <3>3
  <2> QED
    BY <1>5, <2>1, <2>2
<1> QED
  BY <1>2, <1>3, <1>4, <1>5, ListStep

(* The two services implement DeletionPromise: lists are only ever purged  *)
(* as a whole after the account was deleted, and otherwise change one      *)
(* section at a time by their user's hand (list_repo.go, consumer.go,      *)
(* orphan_cleanup.go).                                                     *)
THEOREM StackKeepsPromise ==
  ASSUME FaithfulOracle
  PROVE  DeletionSpec => KeepsPromise
<1>1. DeletionInit => Promise!PromiseInit
  BY NoUserAssumption
  DEF DeletionInit, UserInit, ListInit, Promise!PromiseInit, GetSections, SectionsOf
<1>2. DeletionInv /\ OrphanOfDeleted /\ [DeletionNext]_deletionVars
        => [Promise!PromiseNext]_(Promise!promiseVars)
  BY StepRefines
<1> QED
  BY <1>1, <1>2, PurgeInvariant, PTL DEF DeletionSpec, KeepsPromise, Promise!PromiseSpec

(* The statements as ListWriters knows them are the stack's. *)
LEMMA SameStatements ==
  ASSUME NEW u
  PROVE  /\ HandlerStatement(u) => Writers!HandlerStatement(u)
         /\ SoftDeleteItemsOf(u) => Writers!SoftDeleteItemsOf(u)
         /\ SoftDeleteSectionsOf(u) => Writers!SoftDeleteSectionsOf(u)
         /\ UNCHANGED listVars => UNCHANGED Writers!listVars
<1> USE DEF GetSections, ItemsOf, SectionsOf, listVars, secVars, itemVars,
            Writers!GetSections, Writers!ItemsOf, Writers!SectionsOf, Writers!listVars,
            Writers!secVars, Writers!itemVars
<1>1. ASSUME NEW s, NEW n, NEW p, CreateSection(u, s, n, p)
      PROVE  Writers!CreateSection(u, s, n, p)
  BY <1>1 DEF CreateSection, Writers!CreateSection
<1>2. ASSUME NEW s, UpdateSection(u, s) PROVE Writers!UpdateSection(u, s)
  BY <1>2 DEF UpdateSection, Writers!UpdateSection
<1>3. ASSUME NEW s, DeleteSection(u, s) PROVE Writers!DeleteSection(u, s)
  BY <1>3 DEF DeleteSection, Writers!DeleteSection
<1>4. ASSUME NEW s, NEW i, NEW n, NEW t, NEW q, CreateItem(u, s, i, n, t, q)
      PROVE  Writers!CreateItem(u, s, i, n, t, q)
  BY <1>4 DEF CreateItem, Writers!CreateItem
<1>5. ASSUME NEW i, UpdateItem(u, i) PROVE Writers!UpdateItem(u, i)
  BY <1>5 DEF UpdateItem, Writers!UpdateItem
<1>6. ASSUME NEW i, DeleteItem(u, i) PROVE Writers!DeleteItem(u, i)
  BY <1>6 DEF DeleteItem, Writers!DeleteItem
<1>7. HandlerStatement(u) => Writers!HandlerStatement(u)
  BY <1>1, <1>2, <1>3, <1>4, <1>5, <1>6, ZenonT(90) DEF HandlerStatement, Writers!HandlerStatement
<1>8. /\ SoftDeleteItemsOf(u) => Writers!SoftDeleteItemsOf(u)
      /\ SoftDeleteSectionsOf(u) => Writers!SoftDeleteSectionsOf(u)
  BY DEF SoftDeleteItemsOf, SoftDeleteSectionsOf, Writers!SoftDeleteItemsOf,
         Writers!SoftDeleteSectionsOf
<1> QED
  BY <1>7, <1>8

(* The stack implements ListWriters: a cleanup statement is always for a   *)
(* user that is gone (consumer.go, orphan_cleanup.go).                     *)
THEOREM StackIsWriters ==
  ASSUME FaithfulOracle
  PROVE  DeletionSpec => WritesLikeThat
<1>1. DeletionInit => Writers!WritersInit
  BY DEF DeletionInit, UserInit, ListInit, Writers!WritersInit, Writers!ListInit
<1>2. ASSUME DeletionInv, OrphanOfDeleted, [DeletionNext]_deletionVars
      PROVE  [Writers!WritersNext]_(Writers!writerVars)
  <2> DEFINE out == {u \in UserIds : acct[u] = "deleted"}
  <2> USE DEF Writers!writerVars
  <2>1. CASE UNCHANGED <<acct, listVars>>
    BY <2>1, SameStatements
  <2>2. CASE UserNext /\ UNCHANGED listVars
    <3>1. ASSUME NEW u \in UserIds, acct[u] = "unused", acct' = [acct EXCEPT ![u] = "live"]
          PROVE  out' = out
      BY <1>2, <3>1 DEF DeletionInv, ServiceInv, UserInv, UserTypeOK
    <3>2. ASSUME NEW u \in UserIds, acct' = [acct EXCEPT ![u] = "deleted"]
          PROVE  Writers!DeleteAccount(u)
      <4>1. out' = out \cup {u}
        BY <1>2, <3>2 DEF DeletionInv, ServiceInv, UserInv, UserTypeOK
      <4> QED
        BY <2>2, <4>1, SameStatements DEF Writers!DeleteAccount
    <3> QED
      BY SameStatements, <1>2, <2>2, <3>1, <3>2, AccountStep DEF DeletionInv, ServiceInv, Writers!WritersNext
  <2>3. ASSUME NEW u \in UserIds, ClientWrites(u), UNCHANGED acct PROVE Writers!Request(u)
    BY <2>3, SameStatements DEF ClientWrites, Writers!Request
  <2>4. ASSUME NEW u \in UserIds, acct[u] = "deleted", UNCHANGED acct,
               SoftDeleteItemsOf(u) \/ SoftDeleteSectionsOf(u)
        PROVE  Writers!Cleanup(u)
    BY <2>4, SameStatements DEF Writers!Cleanup
  <2> QED
    BY <1>2, <2>1, <2>2, <2>3, <2>4, ListStep DEF Writers!WritersNext
<1>3. DeletionInv /\ OrphanOfDeleted /\ [DeletionNext]_deletionVars
        => [Writers!WritersNext]_(Writers!writerVars)
  BY <1>2
<1> QED
  BY <1>1, <1>3, PurgeInvariant, PTL DEF DeletionSpec, WritesLikeThat, Writers!WritersSpec

(* An item disappears by a request of its owner, alone, or after the owner *)
(* was deleted: no cleanup, whoever it is for, touches another user's list *)
(* (the joins on sections.user_id).                                        *)
OwnersDoing(i) ==
  LET u == secOwner[itemSec[i]]
  IN  \/ acct[u] = "deleted"
      \/ u \in tokens /\ itemLive' = itemLive \ {i}

OwnersDoings == \A i \in itemLive \ itemLive' : OwnersDoing(i)

ItemsKept == [][OwnersDoings]_deletionVars

(* No cleanup touches an item of a user who was not deleted, and a request *)
(* takes one item away at most (list_repo.go DeleteItem and the joins on   *)
(* sections.user_id).                                                      *)
THEOREM OthersItemsKept ==
  ASSUME FaithfulOracle
  PROVE  DeletionSpec => ItemsKept
<1>1. ASSUME DeletionInv, OrphanOfDeleted, [DeletionNext]_deletionVars,
             NEW i \in itemLive \ itemLive'
      PROVE  OwnersDoing(i)
  <2>1. CASE UNCHANGED listVars
    BY <1>1, <2>1 DEF listVars, itemVars
  <2>2. ASSUME NEW u \in UserIds, ClientWrites(u) PROVE OwnersDoing(i)
    BY <1>1, <2>2
    DEF ClientWrites, HandlerStatement, CreateSection, UpdateSection, DeleteSection, CreateItem, UpdateItem,
        DeleteItem, ItemsOf, SectionsOf, itemVars, OwnersDoing
  <2>3. ASSUME NEW u \in UserIds, acct[u] = "deleted",
               SoftDeleteItemsOf(u) \/ SoftDeleteSectionsOf(u)
        PROVE  OwnersDoing(i)
    BY <1>1, <2>3 DEF SoftDeleteItemsOf, SoftDeleteSectionsOf, ItemsOf, SectionsOf, itemVars,
        OwnersDoing
  <2> QED
    BY <1>1, <2>1, <2>2, <2>3, ListStep
<1>2. DeletionInv /\ OrphanOfDeleted /\ [DeletionNext]_deletionVars
        => [OwnersDoings]_deletionVars
  BY <1>1 DEF OwnersDoings
<1> QED
  BY <1>2, PurgeInvariant, PTL DEF DeletionSpec, ItemsKept

(* With wrong verdicts among the faults: an item of a user who was not     *)
(* deleted is taken by a request of the owner, alone, or by the orphan job *)
(* while it works for that very owner.  A misheard answer costs the lists  *)
(* of the user it was about and of nobody else, and the event consumer     *)
(* never adds to it (orphan_cleanup.go userExists, cleanupUser).           *)
Blamed(i) == OwnersDoing(i) \/ orphanOf = secOwner[itemSec[i]]

THEOREM WrongVerdictsAreConfined ==
  DeletionSpec => /\ []ConsumerOfDeleted
                  /\ [][\A i \in itemLive \ itemLive' : Blamed(i)]_deletionVars
<1>1. ASSUME DeletionInv, [DeletionNext]_deletionVars, NEW i \in itemLive \ itemLive'
      PROVE  Blamed(i)
  <2>1. CASE UNCHANGED itemLive
    BY <1>1, <2>1
  <2>2. ASSUME NEW u \in UserIds, ClientWrites(u) PROVE Blamed(i)
    BY <1>1, <2>2
    DEF ClientWrites, HandlerStatement, CreateSection, UpdateSection, DeleteSection, CreateItem, UpdateItem,
        DeleteItem, ItemsOf, SectionsOf, itemVars, OwnersDoing, Blamed
  <2>3. CASE OrphanItems
    BY <1>1, <2>3 DEF OrphanItems, SoftDeleteItemsOf, ItemsOf, SectionsOf, listVars, itemVars, Blamed
  <2>4. CASE ConsumeItems
    <3>1. cmsg \in UserIds /\ acct[cmsg] = "deleted"
      BY <1>1, <2>4
      DEF ConsumeItems, DeletionInv, CleanupInv, CleanupBusy, ConsumerOfDeleted
    <3> QED
      BY <1>1, <2>4, <3>1
      DEF ConsumeItems, SoftDeleteItemsOf, ItemsOf, SectionsOf, listVars, itemVars, OwnersDoing,
          Blamed
  <2> QED
    BY <1>1, <2>1, <2>2, <2>3, <2>4
    DEF DeletionNext, ListStart, Connect, Consume, Receive, ConsumeSections, Ack, LoseConsumer,
        ListCrash, Scan, OrphanSections, CheckUser, Check, BrokerStop, DropConsumer, BrokerStart,
        SoftDeleteSectionsOf, listVars, itemVars, deletionVars
<1>2. DeletionInv /\ [DeletionNext]_deletionVars
        => [\A i \in itemLive \ itemLive' : Blamed(i)]_deletionVars
  BY <1>1
<1>3. DeletionInv => ConsumerOfDeleted
  BY DEF DeletionInv, CleanupInv
<1> QED
  BY <1>2, <1>3, DeletionInvariant, PTL DEF DeletionSpec

----------------------------------------------------------------------------
(* The way of an event                                                     *)

(* Between two deliveries the consumer has nothing in hand, and it does    *)
(* not outlive the process.                                                *)
HandsFree ==
  /\ consumer \in {"absent", "retry", "idle"} => cmsg = NoUser
  /\ ~listUp => consumer = "absent"

LEMMA HandsFreeInvariant == DeletionSpec => []HandsFree
<1>1. DeletionInit => HandsFree
  BY DEF DeletionInit, CleanupInit, HandsFree
<1>2. HandsFree /\ [DeletionNext]_deletionVars => HandsFree'
  <2> SUFFICES ASSUME HandsFree, [DeletionNext]_deletionVars PROVE HandsFree'
    OBVIOUS
  <2>1. CASE Consume
    <3>1. ASSUME NEW b \in BOOLEAN, Settle(b) PROVE cmsg' = NoUser
      BY <3>1 DEF Settle
    <3> QED
      BY <2>1, <3>1 DEF Consume, Receive, ConsumeItems, ConsumeSections, Ack, HandsFree
  <2>2. CASE DropConsumer \/ ListCrash
    BY <2>2 DEF DropConsumer, ListCrash, HandsFree
  <2>3. CASE ListStart \/ Connect
    BY <2>3 DEF ListStart, Connect, HandsFree
  <2>4. CASE UNCHANGED <<listUp, conVars>>
    BY <2>4 DEF conVars, HandsFree
  <2> QED
    BY <2>1, <2>2, <2>3, <2>4
    DEF DeletionNext, LoseConsumer, Scan, OrphanItems, OrphanSections, ClientWrites, CheckUser,
        Check, BrokerStop, BrokerStart, cleanupVars, deletionVars
<1> QED
  BY <1>1, <1>2, PTL DEF DeletionSpec

(* Whether u's event is owed by user-service, or by RabbitMQ. *)
Announced(u) ==
  (outbox[u] = "pending" /\ marking # u) \/ \E r \in Requests : Announcing(r, u)

Undelivered(u) == queue[u] > 0 \/ (cmsg = u /\ conCh)

(* A step of user-service puts events into the queue and takes none out;   *)
(* the event it stops owing is in the queue, or is lost for a reason.      *)
LEMMA AnnounceStep ==
  ASSUME DeletionInv, UserNext, UNCHANGED cleanupVars, NEW u \in UserIds,
         EventOwed(u), ~EventEnds(u)
  PROVE  EventOwed(u)'
<1>a. /\ queue \in [UserIds -> Nat] /\ marking \in UserIds \cup {NoUser} /\ u # NoUser
      /\ outbox \in [UserIds -> {"none", "pending", "published"}]
      /\ req \in [Requests ->
            [pc : {"idle", "fallback", "capture", "publish", "reconnect", "recapture",
                   "republish"},
             u : UserIds \cup {NoUser}, ch : Nat]]
  BY NoUserAssumption
  DEF DeletionInv, ServiceInv, UserInv, UserTypeOK, QueueInv, BrokerTypeOK
<1>b. UNCHANGED <<cmsg, conCh>> /\ bound /\ \A r \in Requests : ~Announcing(r, u)
  BY DEF cleanupVars, conVars, EventEnds, EventLost
<1>1. ASSUME NEW v \in UserIds, Route(v)
      PROVE  /\ queue'[v] > 0
             /\ Undelivered(u) => Undelivered(u)'
  BY <1>1, <1>a, <1>b DEF Route, Undelivered
<1>2. ASSUME UNCHANGED brokerVars
      PROVE  Undelivered(u) => Undelivered(u)'
  BY <1>2, <1>b DEF brokerVars, Undelivered
<1>3. ASSUME NEW r \in Requests, PublishDirect(r)
      PROVE  EventOwed(u)'
  <2>1. req[r].u \in UserIds
    BY <1>3 DEF PublishDirect, DeletionInv, ServiceInv, UserInv, HandlersBusy
  <2>2. Undelivered(u) => Undelivered(u)'
    BY <1>1, <1>2, <1>3, <2>1 DEF PublishDirect, PublishOn
  <2> QED
    BY <1>3, <1>b, <2>2 DEF PublishDirect, EventOwed, Undelivered, dbVars, pollVars
<1>4. ASSUME NEW v \in UserIds, PollPublish(v)
      PROVE  EventOwed(u)'
  <2>1. Undelivered(u) => Undelivered(u)'
    BY <1>1, <1>2, <1>4 DEF PollPublish, PublishOn
  <2>2. CASE Undelivered(u)
    BY <2>1, <2>2 DEF Undelivered, EventOwed
  <2>3. CASE outbox[u] = "pending" /\ v # u
    BY <1>4, <1>a, <2>3 DEF PollPublish, EventOwed, dbVars
  <2>4. CASE outbox[u] = "pending" /\ v = u
    <3>1. CASE Route(u)
      BY <3>1, <1>1 DEF EventOwed
    <3>2. CASE openCh' = openCh \ {pollCh} /\ marking' = u
      BY <1>4, <3>2 DEF PollPublish, EventEnds, EventLost
    <3>3. CASE UNCHANGED marking
      BY <1>4, <1>a, <2>4, <3>3 DEF PollPublish, EventOwed, dbVars
    <3> QED
      BY <1>4, <2>4, <3>1, <3>2, <3>3 DEF PollPublish, PublishOn
  <2> QED
    BY <1>b, <2>2, <2>3, <2>4 DEF EventOwed, Undelivered
<1>5. CASE PollMark
  BY <1>5, <1>a, <1>b, <1>2 DEF PollMark, EventOwed, Undelivered
<1>6. ASSUME NEW r \in Requests, NEW v \in UserIds, DeleteUserWithOutbox(r, v)
      PROVE  EventOwed(u)'
  <2>1. outbox[u] = "pending" => outbox'[u] = "pending"
    BY <1>6, <1>a DEF DeleteUserWithOutbox
  <2> QED
    BY <1>6, <1>a, <1>b, <1>2, <2>1 DEF DeleteUserWithOutbox, EventOwed, Undelivered, pollVars
<1>7. CASE UserCrash
  BY <1>7, <1>a, <1>b, <1>2 DEF UserCrash, EventOwed, Undelivered
<1>8. CASE UNCHANGED <<outbox, marking, brokerVars>>
  BY <1>8, <1>b, <1>2 DEF EventOwed, Undelivered
<1> QED
  BY <1>3, <1>4, <1>5, <1>6, <1>7, <1>8
  DEF UserNext, Poll, Handler, Register, RegisterProfile, Login, ExpireToken, FallbackDelete,
      CaptureChannel, Reconnect, PollFetch, LoseChannel, UserStart, dbVars, pollVars

(* The consumer's steps touch no announcement; a delivery in hand goes     *)
(* back into the queue unless it is acknowledged.                          *)
LEMMA DeliverStep ==
  ASSUME DeletionInv, HandsFree, NEW u \in UserIds, Undelivered(u), ~EventEnds(u),
         \/ Consume
         \/ DropConsumer
         \/ ListCrash
         \/ ListStart
         \/ Connect
         \/ UNCHANGED <<cmsg, conCh, queue>>
  PROVE  Undelivered(u)'
<1>a. /\ queue \in [UserIds -> Nat] /\ cmsg \in UserIds \cup {NoUser} /\ NoUser \notin UserIds
      /\ consumer \in {"items", "sections", "ack"} => cmsg \in UserIds
  BY NoUserAssumption
  DEF DeletionInv, ServiceInv, QueueInv, BrokerTypeOK, CleanupInv, CleanupTypeOK, CleanupBusy
<1>1. ASSUME cmsg \in UserIds, Requeue(cmsg)
      PROVE  Undelivered(u)'
  BY <1>1, <1>a DEF Requeue, Undelivered
<1>2. ASSUME NEW v \in UserIds, Receive(v)
      PROVE  Undelivered(u)'
  BY <1>2, <1>a DEF Receive, HandsFree, Undelivered
<1>3. ASSUME Settle(TRUE), cmsg \in UserIds
      PROVE  Undelivered(u)'
  BY <1>1, <1>3 DEF Settle, Undelivered
<1>4. CASE ConsumeItems \/ ConsumeSections
  BY <1>3, <1>4, <1>a DEF ConsumeItems, ConsumeSections, brokerVars, Undelivered
<1>5. CASE Ack
  BY <1>5 DEF Ack, Settle, EventEnds, Undelivered
<1>6. CASE DropConsumer \/ ListCrash
  BY <1>1, <1>6, <1>a DEF DropConsumer, ListCrash, Undelivered
<1>7. CASE ListStart \/ Connect
  BY <1>7, <1>a DEF ListStart, Connect, HandsFree, brokerVars, Undelivered
<1>8. CASE UNCHANGED <<cmsg, conCh, queue>>
  BY <1>8 DEF Undelivered
<1> QED
  BY <1>2, <1>4, <1>5, <1>6, <1>7, <1>8 DEF Consume

(* One step keeps an event owed, or ends it in a way that has a name. *)
LEMMA EventKeptStep ==
  ASSUME DeletionInv, HandsFree, DeletionNext, NEW u \in UserIds, EventOwed(u), ~EventEnds(u)
  PROVE  EventOwed(u)'
<1>1. CASE UserNext /\ UNCHANGED <<cleanupVars, listVars>>
  BY <1>1, AnnounceStep
<1>2. ASSUME UNCHANGED <<outbox, marking, req>>,
             \/ Consume
             \/ DropConsumer
             \/ ListCrash
             \/ ListStart
             \/ Connect
             \/ UNCHANGED <<cmsg, conCh, queue>>
      PROVE  EventOwed(u)'
  <2>1. Announced(u) => Announced(u)'
    BY <1>2 DEF Announced, Announcing
  <2>2. Undelivered(u) => Undelivered(u)'
    BY <1>2, DeliverStep
  <2> QED
    BY <2>1, <2>2 DEF EventOwed, Announced, Undelivered
<1> QED
  BY <1>1, <1>2
  DEF DeletionNext, LoseConsumer, Scan, OrphanItems, OrphanSections, ClientWrites, CheckUser,
      Check, BrokerStop, LoseAllChannels, BrokerStart, BrokerStarted, cleanupVars, conVars,
      brokerVars, userVars, dbVars, pollVars

(* From the outbox to the ack no event gets lost but in the named ways,    *)
(* for any number of users, deliveries, crashes and broken connections     *)
(* (outbox.go poll, publisher.go PublishUserDeleted, consumer.go           *)
(* handleMessage).                                                         *)
THEOREM EventsAreKept == DeletionSpec => EventsKept
<1>1. DeletionInv /\ HandsFree /\ [DeletionNext]_deletionVars
        => [\A u \in UserIds : EventOwed(u) /\ ~EventOwed(u)' => EventEnds(u)]_deletionVars
  BY EventKeptStep
<1> QED
  BY <1>1, DeletionInvariant, HandsFreeInvariant, PTL DEF DeletionSpec, EventsKept

----------------------------------------------------------------------------
(* The end                                                                 *)

(* A token is only ever handed out for a live account. *)
LEMMA TokensForTheLiving ==
  ASSUME UserNext, NEW u \in UserIds, acct[u] = "deleted", u \notin tokens
  PROVE  u \notin tokens'
BY DEF UserNext, Poll, Handler, Register, RegisterProfile, Login, ExpireToken,
       DeleteUserWithOutbox, FallbackDelete, CaptureChannel, PublishDirect, Reconnect, PollFetch,
       PollPublish, PollMark, LoseChannel, UserCrash, UserStart, dbVars

(* A deleted user without a token never gets one again. *)
LEMMA GoneForGood ==
  ASSUME DeletionInv, DeletionNext, NEW u \in UserIds, acct[u] = "deleted", u \notin tokens
  PROVE  acct'[u] = "deleted" /\ u \notin tokens'
<1>1. CASE UserNext
  BY <1>1, DeletedForGood, TokensForTheLiving DEF DeletionInv, ServiceInv
<1>2. CASE UNCHANGED <<acct, tokens>>
  BY <1>2
<1> QED
  BY <1>1, <1>2
  DEF DeletionNext, ClientWrites, CheckUser, BrokerStop, LoseAllChannels, BrokerStart,
      userVars, dbVars

(* Only a request of the user adds a section of the user. *)
LEMMA NobodyWritesForOthers ==
  ASSUME ListTypeOK, NEW u \in UserIds, NEW v \in UserIds, u # v, ClientWrites(v),
         GetSections(u) = {}
  PROVE  GetSections(u)' = {}
<1>1. ASSUME NEW s \in SectionIds, NEW n \in Names, NEW p \in Positions,
             CreateSection(v, s, n, p)
      PROVE  GetSections(u)' = {}
  BY <1>1 DEF CreateSection, GetSections, SectionsOf, ListTypeOK
<1>2. CASE UNCHANGED <<secOwner, secLive>>
  BY <1>2 DEF GetSections, SectionsOf
<1>3. ASSUME NEW s \in SectionIds, DeleteSection(v, s)
      PROVE  GetSections(u)' = {}
  BY <1>3 DEF DeleteSection, GetSections, SectionsOf
<1> QED
  BY <1>1, <1>2, <1>3
  DEF ClientWrites, HandlerStatement, UpdateSection, CreateItem, UpdateItem, DeleteItem, secVars

(* The same of the user's active items. *)
LEMMA NobodyWritesOthersItems ==
  ASSUME ListTypeOK, NEW u \in UserIds, NEW v \in UserIds, u # v, ClientWrites(v),
         itemLive \cap ItemsOf(u) = {}
  PROVE  (itemLive \cap ItemsOf(u))' = {}
<1>1. ASSUME NEW s \in SectionIds, NEW n \in Names, NEW p \in Positions,
             CreateSection(v, s, n, p)
      PROVE  (itemLive \cap ItemsOf(u))' = {}
  BY <1>1 DEF CreateSection, ItemsOf, SectionsOf, ListTypeOK, itemVars
<1>2. ASSUME NEW s \in SectionIds, NEW i \in ItemIds, NEW n \in Names,
             NEW t \in Translations \cup {NoTranslation}, NEW q \in Quantities,
             CreateItem(v, s, i, n, t, q)
      PROVE  (itemLive \cap ItemsOf(u))' = {}
  BY <1>2 DEF CreateItem, GetSections, ItemsOf, SectionsOf, ListTypeOK, secVars
<1>3. CASE itemLive' \subseteq itemLive /\ UNCHANGED <<secOwner, itemSec>>
  BY <1>3 DEF ItemsOf, SectionsOf
<1> QED
  BY <1>1, <1>2, <1>3
  DEF ClientWrites, HandlerStatement, UpdateSection, DeleteSection, UpdateItem, DeleteItem, secVars,
      itemVars

(* What is inactive of a user who can no longer write stays inactive. *)
LEMMA InactiveStays ==
  ASSUME DeletionInv, DeletionNext, NEW u \in UserIds, u \notin tokens
  PROVE  /\ GetSections(u) = {} => GetSections(u)' = {}
         /\ itemLive \cap ItemsOf(u) = {} => (itemLive \cap ItemsOf(u))' = {}
<1>1. ASSUME NEW v \in UserIds, ClientWrites(v)
      PROVE  /\ GetSections(u) = {} => GetSections(u)' = {}
             /\ itemLive \cap ItemsOf(u) = {} => (itemLive \cap ItemsOf(u))' = {}
  BY <1>1, NobodyWritesForOthers, NobodyWritesOthersItems DEF ClientWrites, DeletionInv, ListInv
<1>2. CASE /\ UNCHANGED <<secOwner, itemSec>>
           /\ secLive' \subseteq secLive /\ itemLive' \subseteq itemLive
  BY <1>2 DEF GetSections, ItemsOf, SectionsOf
<1> QED
  BY <1>1, <1>2
  DEF DeletionNext, ListStart, Connect, Consume, Receive, ConsumeItems, ConsumeSections, Ack,
      LoseConsumer, DropConsumer, ListCrash, Scan, OrphanItems, OrphanSections, CheckUser, Check,
      BrokerStop, BrokerStart, SoftDeleteItemsOf, SoftDeleteSectionsOf, listVars, secVars, itemVars

(* The delivery in hand gets on with its statements or out of hand. *)
LEMMA HandledStep ==
  ASSUME DeletionInv, HandsFree, DeletionNext, NEW u \in UserIds, u \notin tokens,
         cmsg = u => Handled(u), cmsg' = u
  PROVE  Handled(u)'
<1>a. u # NoUser
  BY NoUserAssumption
<1>b. /\ GetSections(u) = {} => GetSections(u)' = {}
      /\ itemLive \cap ItemsOf(u) = {} => (itemLive \cap ItemsOf(u))' = {}
  BY InactiveStays
<1>1. ASSUME NEW v \in UserIds, Receive(v) PROVE Handled(u)'
  BY <1>1 DEF Receive, Handled
<1>2. ASSUME NEW b \in BOOLEAN, Settle(b) PROVE FALSE
  BY <1>2, <1>a DEF Settle
<1>3. CASE ConsumeItems
  <2>1. SoftDeleteItemsOf(u) /\ consumer' = "sections"
    BY <1>2, <1>3 DEF ConsumeItems
  <2> QED
    BY <2>1 DEF SoftDeleteItemsOf, ItemsOf, SectionsOf, secVars, Handled
<1>4. CASE ConsumeSections
  <2>1. SoftDeleteSectionsOf(u) /\ consumer' = "ack" /\ cmsg = u /\ consumer = "sections"
    BY <1>2, <1>4 DEF ConsumeSections
  <2> QED
    BY <2>1, <1>b DEF SoftDeleteSectionsOf, GetSections, SectionsOf, Handled
<1>5. CASE Ack
  BY <1>2, <1>5 DEF Ack
<1>6. CASE ListCrash \/ ListStart \/ Connect
  BY <1>6, <1>a DEF ListCrash, ListStart, Connect, HandsFree, Handled
<1>7. CASE UNCHANGED cmsg /\ consumer' \in {consumer, "retry"}
  BY <1>7, <1>b DEF Handled
<1> QED
  BY <1>1, <1>3, <1>4, <1>5, <1>6, <1>7
  DEF DeletionNext, Consume, LoseConsumer, DropConsumer, Scan, OrphanItems, OrphanSections,
      ClientWrites, CheckUser, Check, BrokerStop, BrokerStart, cleanupVars, conVars

(* An event that is owed to a deleted user without tokens ends in a list   *)
(* of which no row is active, whatever crashes, breaks or fails on the     *)
(* way, or it is lost in one of the named ways (user_service.go            *)
(* DeleteUser, consumer.go handleMessage).                                 *)
THEOREM PledgesAreMet == DeletionSpec => PledgesMet
<1>1. DeletionInv /\ HandsFree /\ [DeletionNext]_deletionVars
        => [\A u \in UserIds :
              Pledged(u) /\ ~Pledged(u)' => Clean(u)' \/ EventLost(u)]_deletionVars
  <2> SUFFICES ASSUME DeletionInv, HandsFree, DeletionNext, NEW u \in UserIds,
                      Pledged(u), ~Pledged(u)', ~EventLost(u)
               PROVE  Clean(u)'
    OBVIOUS
  <2>1. acct'[u] = "deleted" /\ u \notin tokens'
    BY GoneForGood DEF Pledged
  <2>2. cmsg' = u => Handled(u)'
    BY HandledStep DEF Pledged
  <2>3. ~EventOwed(u)'
    BY <2>1, <2>2 DEF Pledged
  <2>4. cmsg = u /\ consumer = "ack"
    BY <2>3, EventKeptStep DEF EventEnds, Pledged
  <2> QED
    BY <2>4, InactiveStays DEF Pledged, Handled, Clean
<1> QED
  BY <1>1, DeletionInvariant, HandsFreeInvariant, PTL DEF DeletionSpec, PledgesMet

(* A deleted user who can no longer write and whose sections are gone is   *)
(* gone for good, for any faults, a wrong verdict included                 *)
(* (user_service.go Login, list_repo.go CreateSection).                    *)
THEOREM VanishedForGood == DeletionSpec => VanishedStays
<1>1. DeletionInv /\ [DeletionNext]_deletionVars
        => [\A u \in UserIds : Vanished(u) => Vanished(u)']_deletionVars
  BY GoneForGood, InactiveStays DEF Vanished
<1> QED
  BY <1>1, DeletionInvariant, PTL DEF DeletionSpec, VanishedStays

(* Nothing in user-service, in the queue or in the hands of the consumer   *)
(* is about u any more.                                                    *)
NoTrace(u) ==
  /\ acct[u] = "deleted" /\ u \notin tokens
  /\ outbox[u] # "pending" /\ u \notin batch /\ marking # u
  /\ \A r \in Requests : ~Announcing(r, u)
  /\ queue[u] = 0 /\ cmsg # u

(* An active item of such a user, when no active section of the user is    *)
(* left and the orphan job is not at work on the user.                     *)
UnseenOrphan(u, i) ==
  /\ NoTrace(u)
  /\ GetSections(u) = {}
  /\ u \notin scan /\ orphanOf # u
  /\ i \in itemLive \cap ItemsOf(u)

(* What the orphan job does not find once it never finds: nobody comes     *)
(* back to a deletion that was announced, and the job looks for users with *)
(* active sections, so such an item stays active for ever (outbox.go poll, *)
(* orphan_cleanup.go run).                                                 *)
UnseenStays ==
  [][\A u \in UserIds, i \in ItemIds : UnseenOrphan(u, i) => UnseenOrphan(u, i)']_deletionVars
LEMMA NoTraceStep ==
  ASSUME DeletionInv, NEW u \in UserIds, NoTrace(u), UserNext, UNCHANGED cmsg
  PROVE  NoTrace(u)'
<1>a. /\ queue \in [UserIds -> Nat] /\ u # NoUser
      /\ outbox \in [UserIds -> {"none", "pending", "published"}]
      /\ \A r \in Requests : req[r].pc # "idle" => req[r].u \in UserIds
      /\ req \in [Requests ->
            [pc : {"idle", "fallback", "capture", "publish", "reconnect", "recapture",
                   "republish"},
             u : UserIds \cup {NoUser}, ch : Nat]]
  BY NoUserAssumption
  DEF DeletionInv, ServiceInv, UserInv, UserTypeOK, HandlersBusy, QueueInv, BrokerTypeOK
<1>1. acct'[u] = "deleted" /\ u \notin tokens'
  BY DeletedForGood, TokensForTheLiving DEF NoTrace, DeletionInv, ServiceInv
<1>2. outbox'[u] # "pending"
  <2>1. ASSUME NEW r \in Requests, NEW v \in UserIds, DeleteUserWithOutbox(r, v)
        PROVE  outbox'[u] # "pending"
    BY <2>1, <1>a DEF DeleteUserWithOutbox, NoTrace
  <2>2. ASSUME PollMark PROVE outbox'[u] # "pending"
    BY <2>2, <1>a DEF PollMark, NoTrace
  <2> QED
    BY <2>1, <2>2
    DEF NoTrace, UserNext, Poll, Handler, Register, RegisterProfile, Login, ExpireToken,
        FallbackDelete, CaptureChannel, PublishDirect, Reconnect, PollFetch, PollPublish,
        LoseChannel, UserCrash, UserStart, dbVars
<1>3. u \notin batch' /\ marking' # u
  <2>1. ASSUME PollFetch PROVE u \notin batch' /\ marking' # u
    BY <2>1, <1>a DEF PollFetch, Pending, NoTrace
  <2>2. ASSUME NEW v \in UserIds, PollPublish(v) PROVE u \notin batch' /\ marking' # u
    BY <2>2, <1>a DEF PollPublish, NoTrace
  <2>3. ASSUME PollMark \/ UserCrash \/ UNCHANGED pollVars PROVE u \notin batch' /\ marking' # u
    BY <2>3, <1>a DEF PollMark, UserCrash, NoTrace, pollVars
  <2> QED
    BY <2>1, <2>2, <2>3
    DEF UserNext, Poll, Handler, Register, RegisterProfile, Login, ExpireToken,
        DeleteUserWithOutbox, FallbackDelete, CaptureChannel, PublishDirect, Reconnect,
        LoseChannel, UserStart, pollVars
<1>4. ASSUME NEW q \in Requests
      PROVE  ~Announcing(q, u)'
  <2>1. ASSUME NEW r \in Requests, NEW v \in UserIds, DeleteUserWithOutbox(r, v)
        PROVE  ~Announcing(q, u)'
    BY <2>1, <1>a DEF DeleteUserWithOutbox, ToFallback, Announcing, NoTrace
  <2>2. ASSUME NEW r \in Requests, FallbackDelete(r) PROVE ~Announcing(q, u)'
    BY <2>2, <1>a DEF FallbackDelete, Idle, Announcing, NoTrace
  <2>3. ASSUME NEW r \in Requests, CaptureChannel(r) \/ PublishDirect(r) \/ Reconnect(r)
        PROVE  ~Announcing(q, u)'
    BY <2>3, <1>a DEF CaptureChannel, PublishDirect, Reconnect, Idle, Announcing, NoTrace
  <2>4. ASSUME UserCrash \/ UNCHANGED req PROVE ~Announcing(q, u)'
    BY <2>4 DEF UserCrash, Idle, Announcing, NoTrace
  <2> QED
    BY <2>1, <2>2, <2>3, <2>4
    DEF UserNext, Poll, Handler, Register, RegisterProfile, Login, ExpireToken, PollFetch,
        PollPublish, PollMark, LoseChannel, UserStart
<1>5. queue'[u] = 0
  <2>1. ASSUME NEW r \in Requests, PublishDirect(r) PROVE queue'[u] = 0
    BY <2>1, <1>a DEF PublishDirect, PublishOn, Route, Announcing, NoTrace, brokerVars
  <2>2. ASSUME NEW v \in UserIds, PollPublish(v) PROVE queue'[u] = 0
    BY <2>2, <1>a DEF PollPublish, PublishOn, Route, NoTrace, brokerVars
  <2> QED
    BY <2>1, <2>2
    DEF NoTrace, UserNext, Poll, Handler, Register, RegisterProfile, Login, ExpireToken,
        DeleteUserWithOutbox, FallbackDelete, CaptureChannel, Reconnect, PollFetch, PollMark,
        LoseChannel, UserCrash, UserStart, brokerVars
<1> QED
  BY <1>1, <1>2, <1>3, <1>4, <1>5 DEF NoTrace

(* What the orphan job does not find once it never finds: such an item     *)
(* stays active for ever, whatever else happens (orphan_cleanup.go run     *)
(* looks for users with active sections).                                  *)
THEOREM UnseenForGood == DeletionSpec => UnseenStays
<1>1. ASSUME DeletionInv, DeletionNext, NEW u \in UserIds, NEW i \in ItemIds, UnseenOrphan(u, i)
      PROVE  UnseenOrphan(u, i)'
  <2>a. /\ ListTypeOK /\ queue \in [UserIds -> Nat]
        /\ cmsg \in UserIds \cup {NoUser} /\ u # NoUser
    BY <1>1, NoUserAssumption
    DEF DeletionInv, ListInv, CleanupInv, CleanupTypeOK, ServiceInv, QueueInv, BrokerTypeOK
  <2>1. CASE UserNext /\ UNCHANGED <<cleanupVars, listVars>>
    <3>1. NoTrace(u)'
      BY <1>1, <2>1, NoTraceStep DEF UnseenOrphan, cleanupVars, conVars
    <3> QED
      BY <1>1, <2>1, <3>1
      DEF UnseenOrphan, GetSections, SectionsOf, ItemsOf, cleanupVars, orphanVars, listVars,
          secVars, itemVars
  <2>2. ASSUME UNCHANGED <<dbVars, req, pollVars>> \/ UNCHANGED userVars,
               queue'[u] = 0, cmsg' # u
        PROVE  NoTrace(u)'
    BY <1>1, <2>2 DEF UnseenOrphan, NoTrace, Announcing, userVars, dbVars, pollVars
  <2>3. ASSUME NEW v \in UserIds, ClientWrites(v) PROVE UnseenOrphan(u, i)'
    <3>1. u # v
      BY <1>1, <2>3 DEF ClientWrites, UnseenOrphan, NoTrace
    <3>2. GetSections(u)' = {}
      BY <1>1, <2>a, <2>3, <3>1, NobodyWritesForOthers DEF UnseenOrphan
    <3>3. itemSec'[i] = itemSec[i] /\ \A s \in SectionIds : secOwner[s] = u => secOwner'[s] = u
      BY <1>1, <2>a, <2>3, ListIdsAssumption
      DEF ClientWrites, HandlerStatement, CreateSection, UpdateSection, DeleteSection, CreateItem,
          UpdateItem, DeleteItem, ListTypeOK, UnseenOrphan, secVars, itemVars
    <3>4. i \in itemLive'
      BY <1>1, <2>3, <3>1
      DEF ClientWrites, HandlerStatement, CreateSection, UpdateSection, DeleteSection, CreateItem,
          UpdateItem, DeleteItem, UnseenOrphan, ItemsOf, SectionsOf, itemVars
    <3>5. NoTrace(u)' /\ UNCHANGED orphanVars
      BY <1>1, <2>2, <2>3
      DEF ClientWrites, UnseenOrphan, NoTrace, cleanupVars, conVars, brokerVars
    <3>6. itemSec[i] \in SectionIds /\ secOwner[itemSec[i]] = u
      BY <1>1 DEF UnseenOrphan, ItemsOf, SectionsOf
    <3> QED
      BY <3>2, <3>3, <3>4, <3>5, <3>6, <1>1
      DEF UnseenOrphan, ItemsOf, SectionsOf, orphanVars
  <2>4. ASSUME UNCHANGED <<secOwner, itemSec>>, secLive' \subseteq secLive,
               itemLive' = itemLive \/ \E v \in UserIds \cup {NoUser} :
                                          v # u /\ itemLive' = itemLive \ ItemsOf(v)
        PROVE  GetSections(u)' = {} /\ i \in (itemLive \cap ItemsOf(u))'
    BY <1>1, <2>4 DEF UnseenOrphan, GetSections, ItemsOf, SectionsOf
  <2>5. CASE Consume /\ UNCHANGED userVars
    <3>1. ASSUME NEW b \in BOOLEAN, Settle(b) PROVE queue'[u] = 0 /\ cmsg' # u
      BY <1>1, <2>a, <3>1 DEF Settle, Requeue, UnseenOrphan, NoTrace
    <3>2. queue'[u] = 0 /\ cmsg' # u
      <4>a. queue[u] = 0 /\ cmsg # u
        BY <1>1 DEF UnseenOrphan, NoTrace
      <4>1. ASSUME NEW v \in UserIds, Receive(v) PROVE queue'[u] = 0 /\ cmsg' # u
        BY <2>a, <4>1, <4>a DEF Receive
      <4>2. ASSUME ConsumeItems PROVE queue'[u] = 0 /\ cmsg' # u
        BY <3>1, <4>2, <4>a DEF ConsumeItems, brokerVars
      <4>3. ASSUME ConsumeSections PROVE queue'[u] = 0 /\ cmsg' # u
        BY <3>1, <4>3, <4>a DEF ConsumeSections, brokerVars
      <4>4. ASSUME Ack PROVE queue'[u] = 0 /\ cmsg' # u
        BY <3>1, <4>4 DEF Ack
      <4> QED
        BY <2>5, <4>1, <4>2, <4>3, <4>4 DEF Consume
    <3>3. GetSections(u)' = {} /\ i \in (itemLive \cap ItemsOf(u))'
      BY <1>1, <2>a, <2>4, <2>5
      DEF Consume, Receive, ConsumeItems, ConsumeSections, Ack, SoftDeleteItemsOf,
          SoftDeleteSectionsOf, UnseenOrphan, NoTrace, listVars, secVars, itemVars
    <3>4. UNCHANGED orphanVars
      BY <2>5 DEF Consume, Receive, ConsumeItems, ConsumeSections, Ack
    <3> QED
      BY <1>1, <2>2, <2>5, <3>2, <3>3, <3>4 DEF UnseenOrphan, orphanVars
  <2>6. CASE \/ (ListStart \/ Connect \/ LoseConsumer \/ ListCrash) /\ UNCHANGED userVars
             \/ BrokerStop \/ BrokerStart
    <3>1. /\ UNCHANGED listVars
          /\ scan' \subseteq scan /\ orphanOf' \in {orphanOf, NoUser}
      BY <2>6
      DEF ListStart, Connect, LoseConsumer, DropConsumer, ListCrash, BrokerStop, BrokerStart,
          orphanVars, cleanupVars
    <3>a. queue[u] = 0 /\ cmsg # u
      BY <1>1 DEF UnseenOrphan, NoTrace
    <3>b. ASSUME queue' = queue \/ Requeue(cmsg), cmsg' \in {cmsg, NoUser}
          PROVE  queue'[u] = 0 /\ cmsg' # u
      BY <2>a, <3>a, <3>b DEF Requeue
    <3>2. queue'[u] = 0 /\ cmsg' # u
      <4>1. (queue' = queue \/ Requeue(cmsg)) /\ cmsg' \in {cmsg, NoUser}
        BY <2>6
        DEF ListStart, Connect, LoseConsumer, DropConsumer, ListCrash, BrokerStop, BrokerStart,
            BrokerStarted, conVars, cleanupVars, brokerVars
      <4> QED
        BY <3>b, <4>1
    <3>3. UNCHANGED <<dbVars, req, pollVars>>
      BY <2>6 DEF BrokerStop, BrokerStart, LoseAllChannels, userVars
    <3>4. GetSections(u)' = {} /\ i \in (itemLive \cap ItemsOf(u))'
      BY <2>4, <3>1 DEF listVars, secVars, itemVars
    <3> QED
      BY <1>1, <2>a, <2>2, <3>1, <3>2, <3>3, <3>4 DEF UnseenOrphan
  <2>7. CASE (Scan \/ OrphanItems \/ OrphanSections \/ \E v \in UserIds : CheckUser(v))
             /\ UNCHANGED userVars
    <3>1. queue'[u] = 0 /\ cmsg' # u
      BY <1>1, <2>7
      DEF Scan, OrphanItems, OrphanSections, CheckUser, Check, UnseenOrphan, NoTrace, conVars,
          brokerVars
    <3>2. u \notin scan' /\ orphanOf' # u
      <4>1. ASSUME Scan PROVE u \notin scan' /\ orphanOf' # u
        BY <1>1, <2>a, <4>1 DEF Scan, UnseenOrphan, GetSections, SectionsOf, ListTypeOK
      <4>2. ASSUME OrphanItems \/ OrphanSections PROVE u \notin scan' /\ orphanOf' # u
        BY <1>1, <2>a, <4>2 DEF OrphanItems, OrphanSections, OrphanDone, UnseenOrphan
      <4>3. ASSUME NEW v \in UserIds, CheckUser(v) PROVE u \notin scan' /\ orphanOf' # u
        BY <1>1, <2>a, <4>3 DEF CheckUser, Check, UnseenOrphan
      <4> QED
        BY <2>7, <4>1, <4>2, <4>3
    <3>3. GetSections(u)' = {} /\ i \in (itemLive \cap ItemsOf(u))'
      <4>1. orphanOf \in UserIds \cup {NoUser}
        BY <1>1 DEF DeletionInv, CleanupInv, CleanupTypeOK
      <4> QED
        BY <1>1, <2>4, <2>7, <4>1
        DEF Scan, OrphanItems, OrphanSections, CheckUser, Check, SoftDeleteItemsOf,
            SoftDeleteSectionsOf, UnseenOrphan, listVars, secVars, itemVars
    <3> QED
      BY <1>1, <2>2, <2>7, <3>1, <3>2, <3>3 DEF UnseenOrphan
  <2> QED
    BY <1>1, <2>1, <2>3, <2>5, <2>6, <2>7 DEF DeletionNext, CheckUser
<1>2. DeletionInv /\ [DeletionNext]_deletionVars
        => [\A u \in UserIds, i \in ItemIds :
              UnseenOrphan(u, i) => UnseenOrphan(u, i)']_deletionVars
  BY <1>1
<1> QED
  BY <1>2, DeletionInvariant, PTL DEF DeletionSpec, UnseenStays
=============================================================================
