-------------------------- MODULE UserServiceProofs --------------------------
(***************************************************************************)
(* What user-service guarantees for any number of users, addresses,        *)
(* concurrent handlers and faults of any kind.                             *)
(*                                                                         *)
(* The inductive invariant is UserInv on the service's own state, with     *)
(* QueueInv on the broker's queue.  It strengthens the invariants the runs *)
(* check by the types, by ProfilesLive (a profile row needs its live user, *)
(* the foreign key) and by what the poller holds, which is always a row of *)
(* the outbox: else it could mark a deletion that a handler announces.     *)
(* Both are kept by every step of UserNext, which the proofs about the     *)
(* whole stack use again.                                                  *)
(***************************************************************************)
EXTENDS UserService, TLAPS

(* A handler past its first statement works for some user. *)
HandlersBusy == \A r \in Requests : req[r].pc # "idle" => req[r].u \in UserIds

ProfilesLive == \A u \in profiles : acct[u] = "live"

(* The poller holds rows of the outbox. *)
PollerHoldsRows == \A u \in UserIds : u \in batch \/ marking = u => outbox[u] # "none"

(* Every outbox row and every announcement still owed names a deleted user. *)
SourcesDeleted ==
  \A u \in UserIds :
    outbox[u] # "none" \/ (\E r \in Requests : Announcing(r, u)) => acct[u] = "deleted"

UserInv ==
  /\ UserTypeOK
  /\ HandlersBusy
  /\ ProfilesLive
  /\ PollerHoldsRows
  /\ SourcesDeleted
  /\ OnePathAnnounces
  /\ TokenMeansProfile

QueueInv ==
  /\ BrokerTypeOK
  /\ \A u \in UserIds : queue[u] > 0 => acct[u] = "deleted"

----------------------------------------------------------------------------
(* Each part of the invariant over a step of the service.                  *)

(* Both services start empty. *)
LEMMA UserInitInv == UserInit => UserInv
  BY NoUserAssumption
  DEF UserInit, UserInv, UserTypeOK, HandlersBusy, ProfilesLive, PollerHoldsRows, SourcesDeleted,
      OnePathAnnounces, TokenMeansProfile, Announcing, Idle

(* The types survive every action. *)
LEMMA UserTypeStep ==
  ASSUME UserInv, UserNext
  PROVE  UserTypeOK'
<1> USE NoUserAssumption DEF UserInv, UserTypeOK, dbVars, chanVars, pollVars, Idle
<1>1. ASSUME NEW u \in UserIds, Register(u) PROVE UserTypeOK'
  BY <1>1 DEF Register
<1>2. ASSUME NEW u \in UserIds, RegisterProfile(u) PROVE UserTypeOK'
  BY <1>2 DEF RegisterProfile
<1>3. ASSUME NEW u \in UserIds, Login(u) PROVE UserTypeOK'
  BY <1>3 DEF Login
<1>4. ASSUME NEW u \in UserIds, ExpireToken(u) PROVE UserTypeOK'
  BY <1>4 DEF ExpireToken
<1>5. ASSUME NEW r \in Requests, NEW u \in UserIds, DeleteUserWithOutbox(r, u)
      PROVE  UserTypeOK'
  <2>1. CASE acct[u] = "live" /\ RemoveUser(u)
    BY <1>5, <2>1 DEF DeleteUserWithOutbox, RemoveUser, ToFallback
  <2>2. CASE ToFallback(r, u) /\ UNCHANGED <<acct, profiles, outbox>>
    BY <1>5, <2>2 DEF DeleteUserWithOutbox, ToFallback
  <2> QED
    BY <1>5, <2>1, <2>2 DEF DeleteUserWithOutbox
<1>6. ASSUME NEW r \in Requests, FallbackDelete(r) PROVE UserTypeOK'
  BY <1>6 DEF FallbackDelete, RemoveUser, HandlersBusy
<1>7. ASSUME NEW r \in Requests, CaptureChannel(r) PROVE UserTypeOK'
  BY <1>7 DEF CaptureChannel
<1>8. ASSUME NEW r \in Requests, PublishDirect(r) PROVE UserTypeOK'
  BY <1>8 DEF PublishDirect, PublishOn
<1>9. ASSUME NEW r \in Requests, Reconnect(r) PROVE UserTypeOK'
  BY <1>9 DEF Reconnect
<1>10. ASSUME PollFetch PROVE UserTypeOK'
  BY <1>10 DEF PollFetch, Pending
<1>11. ASSUME NEW u \in UserIds, PollPublish(u) PROVE UserTypeOK'
  BY <1>11 DEF PollPublish, PublishOn
<1>12. ASSUME PollMark PROVE UserTypeOK'
  BY <1>12 DEF PollMark
<1>13. ASSUME NEW ch \in openCh, LoseChannel(ch) PROVE UserTypeOK'
  BY <1>13 DEF LoseChannel
<1>14. ASSUME UserCrash PROVE UserTypeOK'
  BY <1>14 DEF UserCrash
<1>15. ASSUME UserStart PROVE UserTypeOK'
  <2>1. CASE brokerUp
    BY <1>15, <2>1 DEF UserStart
  <2>2. CASE ~brokerUp
    BY <1>15, <2>2 DEF UserStart
  <2> QED
    BY <2>1, <2>2
<1> QED
  BY <1>1, <1>2, <1>3, <1>4, <1>5, <1>6, <1>7, <1>8, <1>9, <1>10, <1>11, <1>12,
     <1>13, <1>14, <1>15
  DEF UserNext, Poll, Handler

(* A deleted user stays deleted: no action inserts the same id again. *)
LEMMA DeletedForGood ==
  ASSUME UserInv, UserNext, NEW v \in UserIds, acct[v] = "deleted"
  PROVE  acct'[v] = "deleted"
BY DEF UserInv, UserTypeOK, UserNext, Poll, Handler, Register, RegisterProfile, Login,
       ExpireToken, DeleteUserWithOutbox, FallbackDelete, RemoveUser, CaptureChannel,
       PublishDirect, Reconnect, PollFetch, PollPublish, PollMark, LoseChannel, UserCrash,
       UserStart, dbVars

(* The steps that touch neither user_db nor the handlers. *)
LEMMA QuietStep ==
  ASSUME UserInv, UserTypeOK', UNCHANGED <<acct, profiles, tokens, outbox, req>>,
         \A u \in UserIds : u \in batch' \/ marking' = u => outbox[u] # "none"
  PROVE  UserInv'
<1> USE DEF UserInv
<1>1. HandlersBusy' /\ ProfilesLive'
  BY DEF HandlersBusy, ProfilesLive
<1>2. PollerHoldsRows' /\ SourcesDeleted'
  BY DEF PollerHoldsRows, SourcesDeleted, Announcing
<1>3. OnePathAnnounces'
  BY DEF OnePathAnnounces, Announcing
<1>4. TokenMeansProfile'
  BY DEF TokenMeansProfile, UserExists
<1> QED
  BY <1>1, <1>2, <1>3, <1>4

(* The steps of one handler after its first statement: they go on with the *)
(* announcement they owe, or drop it.                                      *)
LEMMA PublisherStep ==
  ASSUME UserInv, UserTypeOK', NEW r \in Requests,
         UNCHANGED <<dbVars, pollVars>>,
         req[r].pc \notin {"idle", "fallback"},
         \A q \in Requests : q # r => req'[q] = req[q],
         req'[r] = Idle \/ (req'[r].u = req[r].u /\ req'[r].pc # "fallback")
  PROVE  UserInv'
<1> USE DEF UserInv, dbVars, pollVars
<1>1. ASSUME NEW q \in Requests, NEW u \in UserIds, Announcing(q, u)'
      PROVE  Announcing(q, u)
  BY <1>1 DEF Announcing, Idle
<1>2. HandlersBusy'
  BY DEF HandlersBusy, Idle
<1>3. ProfilesLive' /\ TokenMeansProfile'
  BY DEF ProfilesLive, TokenMeansProfile, UserExists
<1>4. PollerHoldsRows' /\ SourcesDeleted'
  BY <1>1 DEF PollerHoldsRows, SourcesDeleted
<1>5. OnePathAnnounces'
  BY <1>1 DEF OnePathAnnounces
<1> QED
  BY <1>2, <1>3, <1>4, <1>5

(* A user whose row is live is named by no announcement, so the step that   *)
(* deletes the row starts the only one.                                    *)
LEMMA UserInvStep == UserInv /\ UserNext => UserInv'
<1> SUFFICES ASSUME UserInv, UserNext PROVE UserInv'
  OBVIOUS
<1> USE UserTypeStep DEF dbVars, chanVars, pollVars
<1>a. UserTypeOK /\ UserTypeOK'
  BY DEF UserInv
<1>1. ASSUME NEW u \in UserIds, Register(u) PROVE UserInv'
  BY <1>1, <1>a DEF Register, UserInv, UserTypeOK, HandlersBusy, ProfilesLive,
     PollerHoldsRows, SourcesDeleted, OnePathAnnounces, TokenMeansProfile, UserExists,
     Announcing
<1>2. ASSUME NEW u \in UserIds, RegisterProfile(u) PROVE UserInv'
  BY <1>2, <1>a DEF RegisterProfile, UserInv, UserTypeOK, HandlersBusy, ProfilesLive,
     PollerHoldsRows, SourcesDeleted, OnePathAnnounces, TokenMeansProfile, UserExists,
     Announcing
<1>3. ASSUME NEW u \in UserIds, Login(u) PROVE UserInv'
  BY <1>3, <1>a DEF Login, UserInv, UserTypeOK, HandlersBusy, ProfilesLive,
     PollerHoldsRows, SourcesDeleted, OnePathAnnounces, TokenMeansProfile, UserExists,
     Announcing
<1>4. ASSUME NEW u \in UserIds, ExpireToken(u) PROVE UserInv'
  BY <1>4, <1>a DEF ExpireToken, UserInv, UserTypeOK, HandlersBusy, ProfilesLive,
     PollerHoldsRows, SourcesDeleted, OnePathAnnounces, TokenMeansProfile, UserExists,
     Announcing
<1>5. ASSUME NEW r \in Requests, NEW u \in UserIds, DeleteUserWithOutbox(r, u)
      PROVE  UserInv'
  <2> USE <1>5, <1>a DEF UserInv
  <2>a. req' = req \/ req' = [req EXCEPT ![r] = [pc |-> "fallback", u |-> u, ch |-> 0]]
    BY DEF DeleteUserWithOutbox, ToFallback
  <2>b. DOMAIN req = Requests /\ req[r].pc = "idle"
    BY DEF DeleteUserWithOutbox, UserTypeOK
  <2>1. /\ \A q \in Requests : q # r => req'[q] = req[q]
        /\ req'[r] = req[r] \/ (req'[r].u = u /\ req'[r].pc = "fallback")
    BY <2>a, <2>b
  <2>2. ASSUME NEW q \in Requests, NEW v \in UserIds, Announcing(q, v)'
        PROVE  Announcing(q, v)
    BY <2>1, <2>b, <2>2 DEF Announcing
  <2>3. /\ UNCHANGED <<batch, marking, tokens>>
        /\ \/ UNCHANGED <<acct, profiles, outbox>>
           \/ /\ acct[u] = "live"
              /\ RemoveUser(u)
              /\ outbox' = [outbox EXCEPT ![u] = "pending"]
    BY DEF DeleteUserWithOutbox
  <2>4. HandlersBusy'
    BY <2>1 DEF HandlersBusy
  <2>5. ProfilesLive' /\ TokenMeansProfile'
    BY <2>3 DEF ProfilesLive, TokenMeansProfile, UserExists, RemoveUser, UserTypeOK
  <2>6. PollerHoldsRows' /\ SourcesDeleted'
    BY <2>2, <2>3 DEF PollerHoldsRows, SourcesDeleted, RemoveUser, UserTypeOK
  <2>7. OnePathAnnounces'
    BY <2>2, <2>3 DEF OnePathAnnounces, SourcesDeleted, UserTypeOK
  <2> QED
    BY <2>4, <2>5, <2>6, <2>7
<1>6. ASSUME NEW r \in Requests, FallbackDelete(r) PROVE UserInv'
  <2> DEFINE u == req[r].u
  <2> USE <1>6, <1>a DEF UserInv
  <2>1. u \in UserIds /\ UNCHANGED <<batch, marking, tokens, outbox>>
    BY DEF FallbackDelete, HandlersBusy
  <2>2. CASE UNCHANGED <<acct, profiles>> /\ req' = [req EXCEPT ![r] = Idle]
    <3>1. ASSUME NEW q \in Requests, NEW v \in UserIds, Announcing(q, v)'
          PROVE  Announcing(q, v)
      BY <2>2, <3>1 DEF Announcing, Idle, UserTypeOK
    <3>2. HandlersBusy'
      BY <2>2 DEF HandlersBusy, Idle, UserTypeOK
    <3> QED
      BY <2>1, <2>2, <3>1, <3>2
      DEF ProfilesLive, TokenMeansProfile, UserExists, PollerHoldsRows, SourcesDeleted,
          OnePathAnnounces
  <2>3. CASE acct[u] = "live" /\ RemoveUser(u)
    <3>1. /\ \A q \in Requests : q # r => req'[q] = req[q]
          /\ req'[r] = Idle \/ req'[r].u = u
      BY <2>3 DEF FallbackDelete, UserTypeOK
    <3>2. \A q \in Requests : ~Announcing(q, u)
      BY <2>1, <2>3 DEF SourcesDeleted
    <3>3. outbox[u] = "none"
      BY <2>1, <2>3 DEF SourcesDeleted
    <3>4. ASSUME NEW q \in Requests, NEW v \in UserIds, Announcing(q, v)'
          PROVE  (q # r /\ Announcing(q, v)) \/ (q = r /\ v = u)
      <4>1. CASE q = r
        BY <3>1, <3>4, <4>1, NoUserAssumption DEF Announcing, Idle
      <4>2. CASE q # r
        BY <3>1, <3>4, <4>2 DEF Announcing
      <4> QED
        BY <4>1, <4>2
    <3>5. HandlersBusy'
      BY <2>1, <3>1 DEF HandlersBusy, Idle
    <3>6. ProfilesLive' /\ TokenMeansProfile'
      BY <2>1, <2>3 DEF ProfilesLive, TokenMeansProfile, UserExists, RemoveUser, UserTypeOK
    <3>7. PollerHoldsRows' /\ SourcesDeleted'
      BY <2>1, <2>3, <3>4 DEF PollerHoldsRows, SourcesDeleted, RemoveUser, UserTypeOK
    <3>8. OnePathAnnounces'
      BY <2>1, <3>2, <3>3, <3>4 DEF OnePathAnnounces
    <3> QED
      BY <3>5, <3>6, <3>7, <3>8
  <2> QED
    BY <2>2, <2>3 DEF FallbackDelete
<1>7. ASSUME NEW r \in Requests, CaptureChannel(r) PROVE UserInv'
  BY <1>7, <1>a, PublisherStep DEF CaptureChannel, UserTypeOK
<1>8. ASSUME NEW r \in Requests, PublishDirect(r) PROVE UserInv'
  <2>1. DOMAIN req = Requests /\ req[r].pc \in {"publish", "republish"}
    BY <1>8, <1>a DEF PublishDirect, UserTypeOK
  <2>2. req' = [req EXCEPT ![r] = Idle] \/ req' = [req EXCEPT ![r].pc = "reconnect"]
    BY <1>8 DEF PublishDirect
  <2>3. /\ \A q \in Requests : q # r => req'[q] = req[q]
        /\ req'[r] = Idle \/ (req'[r].u = req[r].u /\ req'[r].pc # "fallback")
    BY <1>a, <2>1, <2>2 DEF UserTypeOK
  <2> QED
    BY <1>8, <1>a, <2>1, <2>3, PublisherStep DEF PublishDirect
<1>9. ASSUME NEW r \in Requests, Reconnect(r) PROVE UserInv'
  <2>1. DOMAIN req = Requests /\ req[r].pc = "reconnect"
    BY <1>9, <1>a DEF Reconnect, UserTypeOK
  <2>2. req' = [req EXCEPT ![r] = Idle] \/ req' = [req EXCEPT ![r].pc = "recapture"]
    BY <1>9 DEF Reconnect
  <2>3. /\ \A q \in Requests : q # r => req'[q] = req[q]
        /\ req'[r] = Idle \/ (req'[r].u = req[r].u /\ req'[r].pc # "fallback")
    BY <1>a, <2>1, <2>2 DEF UserTypeOK
  <2> QED
    BY <1>9, <1>a, <2>1, <2>3, PublisherStep DEF Reconnect
<1>10. ASSUME PollFetch PROVE UserInv'
  BY <1>10, <1>a, QuietStep, NoUserAssumption
  DEF PollFetch, Pending
<1>11. ASSUME NEW u \in UserIds, PollPublish(u) PROVE UserInv'
  BY <1>11, <1>a, QuietStep DEF PollPublish, UserInv, PollerHoldsRows
<1>12. ASSUME PollMark PROVE UserInv'
  BY <1>12, <1>a, NoUserAssumption DEF PollMark, UserInv, UserTypeOK, HandlersBusy,
     ProfilesLive, PollerHoldsRows, SourcesDeleted, OnePathAnnounces, TokenMeansProfile,
     UserExists, Announcing
<1>13. ASSUME NEW ch \in openCh, LoseChannel(ch) PROVE UserInv'
  BY <1>13, <1>a, QuietStep DEF LoseChannel, UserInv, PollerHoldsRows
<1>14. ASSUME UserCrash PROVE UserInv'
  BY <1>14, <1>a, NoUserAssumption DEF UserCrash, Idle, UserInv, UserTypeOK, HandlersBusy,
     ProfilesLive, PollerHoldsRows, SourcesDeleted, OnePathAnnounces, TokenMeansProfile,
     UserExists, Announcing
<1>15. ASSUME UserStart PROVE UserInv'
  BY <1>15, <1>a, QuietStep DEF UserStart, UserInv, PollerHoldsRows
<1> QED
  BY <1>1, <1>2, <1>3, <1>4, <1>5, <1>6, <1>7, <1>8, <1>9, <1>10, <1>11, <1>12,
     <1>13, <1>14, <1>15
  DEF UserNext, Poll, Handler

(* Only PublishOn reaches the exchange, with a handler's or the poller's    *)
(* user; both are deleted.                                                 *)
LEMMA QueueStep == UserInv /\ QueueInv /\ UserNext => QueueInv'
<1> SUFFICES ASSUME UserInv, QueueInv, UserNext PROVE QueueInv'
  OBVIOUS
<1>1. \A v \in UserIds : acct[v] = "deleted" => acct'[v] = "deleted"
  BY DeletedForGood
<1>2. CASE UNCHANGED brokerVars
  BY <1>1, <1>2 DEF QueueInv, BrokerTypeOK, brokerVars
<1>3. ASSUME NEW u \in UserIds, Route(u), acct[u] = "deleted" PROVE QueueInv'
  BY <1>1, <1>3 DEF Route, QueueInv, BrokerTypeOK
<1>4. ASSUME NEW r \in Requests, PublishDirect(r) PROVE QueueInv'
  <2>1. acct[req[r].u] = "deleted" /\ req[r].u \in UserIds
    BY <1>4 DEF PublishDirect, UserInv, SourcesDeleted, HandlersBusy, Announcing
  <2> QED
    BY <1>2, <1>3, <1>4, <2>1 DEF PublishDirect, PublishOn
<1>5. ASSUME NEW u \in UserIds, PollPublish(u) PROVE QueueInv'
  <2>1. acct[u] = "deleted"
    BY <1>5 DEF PollPublish, UserInv, PollerHoldsRows, SourcesDeleted
  <2> QED
    BY <1>2, <1>3, <1>5, <2>1 DEF PollPublish, PublishOn
<1>6. CASE UserNext /\ UNCHANGED brokerVars
  BY <1>2, <1>6
<1> QED
  BY <1>4, <1>5, <1>6
  DEF UserNext, Poll, Handler, Register, RegisterProfile, Login, ExpireToken,
      DeleteUserWithOutbox, FallbackDelete, CaptureChannel, Reconnect, PollFetch, PollMark,
      LoseChannel, UserCrash, UserStart

(* The fault budget is respected. *)
LEMMA FaultBudgetStep ==
  ASSUME faults \in 0..MaxFaults, UserNext
  PROVE  faults' \in 0..MaxFaults
<1>1. NoFault \/ \E k \in FaultKinds : Fault(k)
  BY DEF UserNext, Poll, Handler, Register, RegisterProfile, Login, ExpireToken,
      DeleteUserWithOutbox, FallbackDelete, CaptureChannel, PublishDirect, PublishOn,
      Reconnect, PollFetch, PollPublish, PollMark, LoseChannel, UserCrash, UserStart, Fault
<1> QED
  BY <1>1, MaxFaultsAssumption DEF Fault, NoFault

----------------------------------------------------------------------------
(* user-service alone.                                                     *)

ServiceInv == UserInv /\ QueueInv /\ faults \in 0..MaxFaults

LEMMA ServiceInitInv == UserServiceInit => ServiceInv
  BY UserInitInv, MaxFaultsAssumption
  DEF UserServiceInit, ServiceInv, QueueInv, BrokerInit, BrokerTypeOK, FaultsInit

LEMMA ServiceInvStep == ServiceInv /\ [UserServiceNext]_userServiceVars => ServiceInv'
<1> SUFFICES ASSUME ServiceInv, [UserServiceNext]_userServiceVars PROVE ServiceInv'
  OBVIOUS
<1> USE DEF ServiceInv
<1>1. CASE UserNext
  BY <1>1, UserInvStep, QueueStep, FaultBudgetStep
<1>2. CASE BrokerStopped /\ LoseAllChannels /\ UNCHANGED <<bound, queue>>
  <2>1. UserInv'
    BY <1>2, QuietStep
    DEF LoseAllChannels, UserInv, UserTypeOK, PollerHoldsRows, dbVars, pollVars
  <2>2. QueueInv'
    BY <1>2 DEF BrokerStopped, LoseAllChannels, QueueInv, BrokerTypeOK, dbVars
  <2>3. faults' \in 0..MaxFaults
    BY <1>2, MaxFaultsAssumption DEF BrokerStopped, Fault
  <2> QED
    BY <2>1, <2>2, <2>3
<1>3. CASE (BrokerStarted /\ UNCHANGED userVars) \/ UNCHANGED userServiceVars
  <2>1. UserInv'
    BY <1>3, QuietStep
    DEF userServiceVars, userVars, UserInv, UserTypeOK, PollerHoldsRows, dbVars, chanVars,
        pollVars
  <2> QED
    BY <1>3, <2>1
    DEF BrokerStarted, NoFault, userServiceVars, userVars, dbVars, brokerVars, QueueInv,
        BrokerTypeOK
<1> QED
  BY <1>1, <1>2, <1>3 DEF UserServiceNext

LEMMA ServiceInvariant == UserServiceSpec => []ServiceInv
  BY ServiceInitInv, ServiceInvStep, PTL DEF UserServiceSpec

(* Every variable of user-service keeps its type. *)
THEOREM UserServiceTypesHold == UserServiceSpec => []UserServiceTypeOK
<1>1. ServiceInv => UserServiceTypeOK
  BY DEF ServiceInv, UserInv, QueueInv, UserServiceTypeOK
<1> QED
  BY <1>1, ServiceInvariant, PTL

(* No outbox row, pending announcement, held row or queued message ever    *)
(* names a user that still exists, whatever fails (user_service.go         *)
(* DeleteUser, outbox.go poll).                                            *)
THEOREM AnnouncementsAreTrue == UserServiceSpec => []OnlyDeletedAnnounced
<1>1. ServiceInv => OnlyDeletedAnnounced
  BY DEF ServiceInv, UserInv, QueueInv, PollerHoldsRows, SourcesDeleted, ProfilesLive,
     OnlyDeletedAnnounced
<1> QED
  BY <1>1, ServiceInvariant, PTL

(* One deletion is announced along one path, for any number of racing      *)
(* DELETE /me handlers (user_service.go DeleteUser).                       *)
THEOREM OneAnnouncement == UserServiceSpec => []OnePathAnnounces
<1>1. ServiceInv => OnePathAnnounces
  BY DEF ServiceInv, UserInv
<1> QED
  BY <1>1, ServiceInvariant, PTL

(* A token is only ever out for a complete or a deleted account            *)
(* (user_service.go Register, Login).                                      *)
THEOREM TokensAreForAccounts == UserServiceSpec => []TokenMeansProfile
<1>1. ServiceInv => TokenMeansProfile
  BY DEF ServiceInv, UserInv
<1> QED
  BY <1>1, ServiceInvariant, PTL

(* No message dies unconfirmed with its connection. *)
NoUnconfirmed == "unconfirmed" \notin FaultKinds

(* The queue is bound, and holds what is marked and what is about to be. *)
DeliveredInv ==
  /\ bound = TRUE
  /\ \A u \in UserIds : outbox[u] = "published" \/ marking = u => queue[u] > 0

LEMMA DeliveredStep ==
  ASSUME NoUnconfirmed, ServiceInv, DeliveredInv, [UserServiceNext]_userServiceVars
  PROVE  DeliveredInv'
<1> USE DEF ServiceInv, DeliveredInv
<1>a. marking \in UserIds \cup {NoUser} /\ outbox \in [UserIds -> {"none", "pending", "published"}]
      /\ queue \in [UserIds -> Nat]
  BY DEF UserInv, UserTypeOK, QueueInv, BrokerTypeOK
<1>1. ASSUME NEW u \in UserIds, NEW ch, PublishOn(ch, u)
      PROVE  /\ bound' = TRUE
             /\ queue'[u] > 0
             /\ \A v \in UserIds : queue[v] > 0 => queue'[v] > 0
  <2>1. ~Fault("unconfirmed")
    BY DEF Fault, NoUnconfirmed
  <2>2. Route(u) /\ bound
    BY <1>1, <2>1 DEF PublishOn
  <2>3. queue' = [queue EXCEPT ![u] = @ + 1] /\ bound' = bound
    BY <2>2 DEF Route
  <2> QED
    BY <1>a, <2>2, <2>3
<1>2. ASSUME NEW r \in Requests, PublishDirect(r)
      PROVE  DeliveredInv'
  <2>1. req[r].u \in UserIds
    BY <1>2 DEF PublishDirect, UserInv, HandlersBusy
  <2> QED
    BY <1>1, <1>2, <2>1 DEF PublishDirect, dbVars, pollVars, brokerVars
<1>3. ASSUME NEW u \in UserIds, PollPublish(u)
      PROVE  DeliveredInv'
  BY <1>1, <1>3, NoUserAssumption DEF PollPublish, dbVars, brokerVars
<1>4. CASE PollMark
  BY <1>4, <1>a, NoUserAssumption DEF PollMark, brokerVars
<1>5. ASSUME NEW r \in Requests, NEW u \in UserIds, DeleteUserWithOutbox(r, u)
      PROVE  DeliveredInv'
  BY <1>5, <1>a DEF DeleteUserWithOutbox, pollVars, brokerVars
<1>6. CASE UserCrash
  BY <1>6, NoUserAssumption DEF UserCrash, brokerVars
<1>7. ASSUME UNCHANGED <<bound, queue, outbox, marking>>
      PROVE  DeliveredInv'
  BY <1>7
<1> QED
  BY <1>2, <1>3, <1>4, <1>5, <1>6, <1>7
  DEF UserServiceNext, UserNext, Poll, Handler, Register, RegisterProfile, Login, ExpireToken,
      FallbackDelete, CaptureChannel, Reconnect, PollFetch, LoseChannel, UserStart,
      BrokerStopped, BrokerStarted, LoseAllChannels, userServiceVars, userVars, dbVars, chanVars,
      pollVars, brokerVars

(* A row is marked published only when its event is in the queue, for any  *)
(* batch size and any faults but a message that dies unconfirmed           *)
(* (outbox.go poll).                                                       *)
THEOREM MarkedMeansQueued ==
  ASSUME NoUnconfirmed
  PROVE  UserServiceSpec => []PublishedIsQueued
<1>1. UserServiceInit => DeliveredInv
  BY NoUserAssumption
  DEF UserServiceInit, UserInit, BrokerInit, DeliveredInv
<1>2. ServiceInv /\ DeliveredInv /\ [UserServiceNext]_userServiceVars => DeliveredInv'
  BY DeliveredStep
<1>3. DeliveredInv => PublishedIsQueued
  BY DEF DeliveredInv, PublishedIsQueued
<1> QED
  BY <1>1, <1>2, <1>3, ServiceInvariant, PTL DEF UserServiceSpec

(* Channel 0 is nobody's, and without a publisher no handler gets past its *)
(* delete: so whoever reconnects replaces a channel, and opens one that no *)
(* poller holds.                                                           *)
ChannelInv ==
  /\ 0 \notin openCh
  /\ pubCh = 0 => \A r \in Requests : req[r].pc \in {"idle", "fallback"}

LEMMA ChannelStep ==
  ASSUME UserInv, ChannelInv, UserNext
  PROVE  ChannelInv'
<1> USE DEF UserInv, UserTypeOK, ChannelInv
<1>1. ASSUME NEW r \in Requests, NEW u \in UserIds, DeleteUserWithOutbox(r, u)
      PROVE  ChannelInv'
  BY <1>1 DEF DeleteUserWithOutbox, ToFallback, chanVars
<1>2. ASSUME NEW r \in Requests, FallbackDelete(r) PROVE ChannelInv'
  BY <1>2 DEF FallbackDelete, Idle, chanVars
<1>3. ASSUME NEW r \in Requests, CaptureChannel(r) PROVE ChannelInv'
  BY <1>3 DEF CaptureChannel, chanVars
<1>4. ASSUME NEW r \in Requests, PublishDirect(r) PROVE ChannelInv'
  BY <1>4 DEF PublishDirect, PublishOn, Idle
<1>5. ASSUME NEW r \in Requests, Reconnect(r) PROVE ChannelInv'
  <2>1. pubCh # 0
    BY <1>5 DEF Reconnect
  <2> QED
    BY <1>5, <2>1 DEF Reconnect
<1>6. CASE UserCrash
  BY <1>6 DEF UserCrash, Idle
<1>7. CASE UserStart
  BY <1>7 DEF UserStart
<1>8. ASSUME openCh' \subseteq openCh, UNCHANGED <<pubCh, req>>
      PROVE  ChannelInv'
  BY <1>8
<1> QED
  BY <1>1, <1>2, <1>3, <1>4, <1>5, <1>6, <1>7, <1>8
  DEF UserNext, Poll, Handler, Register, RegisterProfile, Login, ExpireToken, PollFetch,
      PollPublish, PublishOn, PollMark, LoseChannel, chanVars

ServiceChannelInv == ServiceInv /\ ChannelInv

LEMMA ServiceChannelInvariant == UserServiceSpec => []ServiceChannelInv
<1>1. UserServiceInit => ServiceChannelInv
  BY ServiceInitInv DEF ServiceChannelInv, UserServiceInit, UserInit, ChannelInv
<1>2. ServiceChannelInv /\ [UserServiceNext]_userServiceVars => ServiceChannelInv'
  <2> SUFFICES ASSUME ServiceChannelInv, [UserServiceNext]_userServiceVars PROVE ServiceChannelInv'
    OBVIOUS
  <2>1. CASE UserNext
    BY <2>1, ServiceInvStep, ChannelStep DEF ServiceChannelInv, ServiceInv
  <2>2. CASE UNCHANGED <<pubCh, req>> /\ openCh' \subseteq openCh
    BY <2>2, ServiceInvStep DEF ServiceChannelInv, ChannelInv
  <2> QED
    BY <2>1, <2>2
    DEF UserServiceNext, LoseAllChannels, userServiceVars, userVars, chanVars
<1> QED
  BY <1>1, <1>2, PTL DEF UserServiceSpec

(* No step of a running process opens the channel its poller has lost.     *)
LEMMA PollerStaysDeaf ==
  ASSUME ServiceChannelInv, [UserServiceNext]_userServiceVars,
         userUp, userUp', pollCh \notin openCh
  PROVE  pollCh' = pollCh /\ pollCh' \notin openCh'
<1> USE DEF ServiceChannelInv, ServiceInv, UserInv, UserTypeOK, ChannelInv
<1>1. ASSUME NEW r \in Requests, Reconnect(r)
      PROVE  pollCh' = pollCh /\ pollCh' \notin openCh'
  <2>1. pubCh # 0
    BY <1>1 DEF Reconnect
  <2> QED
    BY <1>1, <2>1 DEF Reconnect
<1>2. CASE UserCrash \/ UserStart
  BY <1>2 DEF UserCrash, UserStart
<1>3. ASSUME openCh' \subseteq openCh, pollCh' = pollCh
      PROVE  pollCh' = pollCh /\ pollCh' \notin openCh'
  BY <1>3
<1> QED
  BY <1>1, <1>2, <1>3
  DEF UserServiceNext, UserNext, Poll, Handler, Register, RegisterProfile, Login, ExpireToken,
      DeleteUserWithOutbox, FallbackDelete, CaptureChannel, PublishDirect, PublishOn, PollFetch,
      PollPublish, PollMark, LoseChannel, LoseAllChannels, BrokerStarted, userServiceVars,
      userVars, chanVars

(* A row of the outbox is announced by the poller or not at all: without a *)
(* channel for it, no step of the service publishes its event.             *)
LEMMA NobodyElseAnnounces ==
  ASSUME ServiceChannelInv, [UserServiceNext]_userServiceVars, NEW u \in UserIds,
         pollCh \notin openCh, outbox[u] # "none"
  PROVE  queue'[u] = queue[u] /\ outbox'[u] # "none"
<1> USE DEF ServiceChannelInv, ServiceInv, UserInv, UserTypeOK, QueueInv, BrokerTypeOK
<1>1. ASSUME NEW r \in Requests, PublishDirect(r)
      PROVE  queue'[u] = queue[u]
  <2>1. req[r].u # u
    BY <1>1 DEF PublishDirect, OnePathAnnounces, Announcing
  <2> QED
    BY <1>1, <2>1 DEF PublishDirect, PublishOn, Route, brokerVars
<1>2. ASSUME NEW v \in UserIds, PollPublish(v)
      PROVE  queue'[u] = queue[u]
  BY <1>2 DEF PollPublish, PublishOn, brokerVars
<1>3. queue'[u] = queue[u]
  BY <1>1, <1>2
  DEF UserServiceNext, UserNext, Poll, Handler, Register, RegisterProfile, Login, ExpireToken,
      DeleteUserWithOutbox, FallbackDelete, CaptureChannel, Reconnect, PollFetch, PollMark,
      LoseChannel, UserCrash, UserStart, BrokerStopped, BrokerStarted, userServiceVars, brokerVars
<1>4. outbox'[u] # "none"
  BY DEF UserServiceNext, UserNext, Poll, Handler, Register, RegisterProfile, Login, ExpireToken,
      DeleteUserWithOutbox, FallbackDelete, CaptureChannel, PublishDirect, Reconnect, PollFetch,
      PollPublish, PollMark, LoseChannel, UserCrash, UserStart, LoseAllChannels, userServiceVars,
      userVars, dbVars
<1> QED
  BY <1>3, <1>4

(* An event that is in the outbox and not in the queue when the poller     *)
(* loses its channel stays out of the queue until the process restarts,    *)
(* however many handlers, reconnects and brokers that come back there are  *)
(* (outbox.go poll, publisher.go reconnect).                               *)
THEOREM StrandedUntilRestart == UserServiceSpec => StrandedStays
<1>1. ServiceChannelInv /\ [UserServiceNext]_userServiceVars
        => [\A u \in UserIds : Stranded(u) /\ userUp' => Stranded(u)']_userServiceVars
  BY PollerStaysDeaf, NobodyElseAnnounces DEF Stranded
<1> QED
  BY <1>1, ServiceChannelInvariant, PTL DEF UserServiceSpec, StrandedStays
=============================================================================
