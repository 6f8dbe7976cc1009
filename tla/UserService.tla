----------------------------- MODULE UserService -----------------------------
(***************************************************************************)
(* user-service: accounts in user_db, the delete handler with its outbox   *)
(* transaction and its direct-publish fallback, the AMQP publisher with    *)
(* its reconnect, and the outbox poller.                                   *)
(*                                                                         *)
(* A user id is a fresh uuid: it names at most one row of users, and the   *)
(* delete that removes that row writes at most one outbox row, so an       *)
(* outbox row is named by its user.  The e-mail a row will carry is fixed  *)
(* by EmailOf; two ids with one e-mail stand for two registrations of it.  *)
(*                                                                         *)
(* AMQP channels of one process are numbered in the order NewPublisher and *)
(* reconnect open them; 0 is the nil publisher.                            *)
(***************************************************************************)
EXTENDS UserEventBroker, FiniteSets

CONSTANTS
  EmailOf,     \* the e-mail address each user id registers with
  Requests,    \* concurrent DELETE /me handlers
  FetchLimit   \* rows one poll reads (100 in the code)

ASSUME FetchLimitAssumption == FetchLimit \in Nat \ {0}

VARIABLES
  acct,        \* the users row of an id: not yet inserted, live, deleted
  profiles,    \* ids with a profiles row
  registering, \* ids whose Register handler is between its two inserts
  tokens,      \* ids some client holds an unexpired JWT for
  outbox,      \* the outbox row of a deleted id
  req,         \* the DELETE handlers past their outbox transaction
  userUp,      \* the process runs
  pubCh,       \* the publisher's current channel, 0: no publisher
  openCh,      \* channels that are open
  pollCh,      \* the channel the poller captured at startup, 0: no poller
  batch,       \* rows of the current poll still to be handled
  marking      \* the row just published, not marked yet

dbVars == <<acct, profiles, registering, tokens, outbox>>
chanVars == <<userUp, pubCh, openCh, pollCh>>
pollVars == <<batch, marking>>
userVars == <<dbVars, req, chanVars, pollVars>>

Idle == [pc |-> "idle", u |-> NoUser, ch |-> 0]

UserTypeOK ==
  /\ acct \in [UserIds -> {"unused", "live", "deleted"}]
  /\ profiles \subseteq UserIds
  /\ registering \subseteq UserIds
  /\ tokens \subseteq UserIds
  /\ outbox \in [UserIds -> {"none", "pending", "published"}]
  /\ req \in [Requests ->
        [pc : {"idle", "fallback", "capture", "publish", "reconnect",
               "recapture", "republish"},
         u : UserIds \cup {NoUser}, ch : Nat]]
  /\ userUp \in BOOLEAN
  /\ pubCh \in Nat
  /\ openCh \subseteq Nat
  /\ pollCh \in {0, 1}
  /\ batch \subseteq UserIds
  /\ marking \in UserIds \cup {NoUser}

(* The service starts with RabbitMQ reachable. *)
UserInit ==
  /\ acct = [u \in UserIds |-> "unused"]
  /\ profiles = {}
  /\ registering = {}
  /\ tokens = {}
  /\ outbox = [u \in UserIds |-> "none"]
  /\ req = [r \in Requests |-> Idle]
  /\ userUp = TRUE
  /\ pubCh = 1
  /\ openCh = {1}
  /\ pollCh = 1
  /\ batch = {}
  /\ marking = NoUser

----------------------------------------------------------------------------
(* Registration, login, tokens                                             *)

(* INSERT INTO users: the UNIQUE index on email refuses a taken address.   *)
Register(u) ==
  /\ userUp
  /\ acct[u] = "unused"
  /\ \A v \in UserIds : acct[v] = "live" => EmailOf[v] # EmailOf[u]
  /\ acct' = [acct EXCEPT ![u] = "live"]
  /\ registering' = registering \cup {u}
  /\ NoFault
  /\ UNCHANGED <<profiles, tokens, outbox, req, chanVars, pollVars, brokerVars>>

(* The token does not wait for the profile. *)
RegisterTokenFirst(u) ==
  /\ u \in registering
  /\ registering' = registering \ {u}
  /\ tokens' = tokens \cup {u}
  /\ \/ profiles' = profiles \cup {u} /\ NoFault
     \/ Fault("userdb") /\ UNCHANGED profiles
  /\ UNCHANGED <<acct, outbox, req, chanVars, pollVars, brokerVars>>

(* INSERT INTO profiles, a second statement outside any transaction; the   *)
(* token is issued only when it succeeds.                                  *)
RegisterProfile(u) ==
  /\ u \in registering
  /\ registering' = registering \ {u}
  /\ \/ /\ acct[u] = "live"
        /\ profiles' = profiles \cup {u}
        /\ tokens' = tokens \cup {u}
        /\ NoFault
     \/ /\ Fault("userdb")
        /\ UNCHANGED <<profiles, tokens>>
  /\ UNCHANGED <<acct, outbox, req, chanVars, pollVars, brokerVars>>

(* The address is looked up in rows that are kept when an account goes. *)
LoginDeletedToo(u) ==
  /\ userUp
  /\ acct[u] # "unused"
  /\ tokens' = tokens \cup {u}
  /\ NoFault
  /\ UNCHANGED <<acct, profiles, registering, outbox, req, chanVars, pollVars,
                 brokerVars>>

(* Both rows must be there; the last read decides. *)
Login(u) ==
  /\ userUp
  /\ acct[u] = "live"
  /\ u \in profiles
  /\ tokens' = tokens \cup {u}
  /\ NoFault
  /\ UNCHANGED <<acct, profiles, registering, outbox, req, chanVars, pollVars,
                 brokerVars>>

(* Seven days after it was issued; deleting the account revokes nothing. *)
ExpireToken(u) ==
  /\ u \in tokens
  /\ tokens' = tokens \ {u}
  /\ NoFault
  /\ UNCHANGED <<acct, profiles, registering, outbox, req, chanVars, pollVars,
                 brokerVars>>

(* What GET /internal/exists/:id answers while the database answers:       *)
(* GetProfile needs the user and its profile.                              *)
UserExists(u) == acct[u] = "live" /\ u \in profiles

----------------------------------------------------------------------------
(* DELETE /me                                                              *)

(* The row goes and its profile with it (ON DELETE CASCADE). *)
RemoveUser(u) ==
  /\ acct' = [acct EXCEPT ![u] = "deleted"]
  /\ profiles' = profiles \ {u}

ToFallback(r, u) ==
  req' = [req EXCEPT ![r] = [pc |-> "fallback", u |-> u, ch |-> 0]]

(* DeleteUserWithOutbox, one transaction.  Any error, "user not found"     *)
(* included, sends the handler to the fallback; so does a commit whose     *)
(* outcome the client never learnt.                                        *)
DeleteUserWithOutbox(r, u) ==
  /\ userUp
  /\ req[r].pc = "idle"
  /\ u \in tokens
  /\ \/ /\ acct[u] = "live"
        /\ RemoveUser(u)
        /\ outbox' = [outbox EXCEPT ![u] = "pending"]
        /\ \/ NoFault /\ UNCHANGED req
           \/ Fault("commit") /\ ToFallback(r, u)
     \/ /\ acct[u] # "live"
        /\ ToFallback(r, u)
        /\ NoFault
        /\ UNCHANGED <<acct, profiles, outbox>>
     \/ /\ Fault("userdb")
        /\ ToFallback(r, u)
        /\ UNCHANGED <<acct, profiles, outbox>>
  /\ UNCHANGED <<registering, tokens, chanVars, pollVars, brokerVars>>

(* The handler does not look at RowsAffected. *)
FallbackUnchecked(r) ==
  /\ req[r].pc = "fallback"
  /\ RemoveUser(req[r].u)
  /\ req' = [req EXCEPT ![r].pc = "capture"]
  /\ NoFault
  /\ UNCHANGED <<registering, tokens, outbox, chanVars, pollVars, brokerVars>>

(* The handler announces a delete that failed. *)
FallbackIgnoresError(r) ==
  /\ req[r].pc = "fallback"
  /\ \/ acct[req[r].u] = "live" /\ RemoveUser(req[r].u) /\ NoFault
     \/ Fault("userdb") /\ UNCHANGED <<acct, profiles>>
  /\ req' = [req EXCEPT ![r].pc = "capture"]
  /\ UNCHANGED <<registering, tokens, outbox, chanVars, pollVars, brokerVars>>

(* The fallback's plain DELETE: an error is answered 500, also when the row *)
(* went and only the answer was lost; success goes on to publish directly  *)
(* when there is a publisher.                                              *)
FallbackDelete(r) ==
  /\ req[r].pc = "fallback"
  /\ \/ /\ acct[req[r].u] = "live"
        /\ RemoveUser(req[r].u)
        /\ req' = IF pubCh = 0 THEN [req EXCEPT ![r] = Idle]
                               ELSE [req EXCEPT ![r].pc = "capture"]
        /\ NoFault
     \/ /\ acct[req[r].u] = "live"
        /\ Fault("commit")
        /\ RemoveUser(req[r].u)
        /\ req' = [req EXCEPT ![r] = Idle]
     \/ /\ \/ acct[req[r].u] # "live" /\ NoFault
           \/ Fault("userdb")
        /\ req' = [req EXCEPT ![r] = Idle]
        /\ UNCHANGED <<acct, profiles>>
  /\ UNCHANGED <<registering, tokens, outbox, chanVars, pollVars, brokerVars>>

----------------------------------------------------------------------------
(* The publisher: read the channel under the mutex, publish outside it,    *)
(* on an error reconnect once and retry once.                              *)

CaptureChannel(r) ==
  /\ req[r].pc \in {"capture", "recapture"}
  /\ req' = [req EXCEPT ![r].ch = pubCh,
                        ![r].pc = IF @ = "capture" THEN "publish" ELSE "republish"]
  /\ NoFault
  /\ UNCHANGED <<dbVars, chanVars, pollVars, brokerVars>>

(* Publishing is a write to the socket, with no confirm from the broker:   *)
(* on an open channel it succeeds, and the message is routed or dies with  *)
(* the connection.                                                         *)
PublishOn(ch, u) ==
  /\ ch \in openCh
  /\ \/ Route(u) /\ NoFault /\ UNCHANGED openCh
     \/ Fault("unconfirmed") /\ openCh' = openCh \ {ch} /\ UNCHANGED brokerVars

PublishDirect(r) ==
  /\ req[r].pc \in {"publish", "republish"}
  /\ \/ /\ PublishOn(req[r].ch, req[r].u)
        /\ req' = [req EXCEPT ![r] = Idle]
     \/ /\ req[r].ch \notin openCh
        /\ req' = IF req[r].pc = "publish" THEN [req EXCEPT ![r].pc = "reconnect"]
                                           ELSE [req EXCEPT ![r] = Idle]
        /\ NoFault
        /\ UNCHANGED <<openCh, brokerVars>>
  /\ UNCHANGED <<dbVars, userUp, pubCh, pollCh, pollVars>>

(* reconnect closes the publisher's channel, whoever else still uses it,   *)
(* and dials again.  A failed dial leaves the closed channel in place.     *)
Reconnect(r) ==
  /\ req[r].pc = "reconnect"
  /\ IF brokerUp
     THEN /\ pubCh' = pubCh + 1
          /\ openCh' = (openCh \ {pubCh}) \cup {pubCh + 1}
          /\ req' = [req EXCEPT ![r].pc = "recapture"]
     ELSE /\ openCh' = openCh \ {pubCh}
          /\ req' = [req EXCEPT ![r] = Idle]
          /\ UNCHANGED pubCh
  /\ NoFault
  /\ UNCHANGED <<dbVars, userUp, pollCh, pollVars, brokerVars>>

----------------------------------------------------------------------------
(* The outbox poller: one goroutine, started only with a publisher.        *)

Pending == {u \in UserIds : outbox[u] = "pending"}

(* Rows are marked as they are fetched. *)
PollFetchMarks ==
  /\ userUp /\ pollCh # 0 /\ batch = {} /\ marking = NoUser
  /\ Pending # {}
  /\ batch' = Pending
  /\ outbox' = [u \in UserIds |-> IF u \in Pending THEN "published" ELSE outbox[u]]
  /\ NoFault
  /\ UNCHANGED <<acct, profiles, registering, tokens, req, chanVars, marking, brokerVars>>

(* The query stops one row early. *)
PollFetchShort ==
  /\ userUp /\ pollCh # 0 /\ batch = {} /\ marking = NoUser
  /\ Pending # {}
  /\ \E b \in SUBSET Pending : Cardinality(b) = FetchLimit - 1 /\ batch' = b
  /\ NoFault
  /\ UNCHANGED <<dbVars, req, chanVars, marking, brokerVars>>

(* The oldest FetchLimit unpublished rows; their age is abstracted. *)
PollFetch ==
  /\ userUp
  /\ pollCh # 0
  /\ batch = {}
  /\ marking = NoUser
  /\ Pending # {}
  /\ \E b \in SUBSET Pending :
       /\ Cardinality(b) = IF Cardinality(Pending) < FetchLimit
                           THEN Cardinality(Pending) ELSE FetchLimit
       /\ batch' = b
  /\ NoFault
  /\ UNCHANGED <<dbVars, req, chanVars, marking, brokerVars>>

(* One row of the batch: a failed publish leaves it for the next poll. *)
PollPublish(u) ==
  /\ u \in batch
  /\ marking = NoUser
  /\ batch' = batch \ {u}
  /\ \/ PublishOn(pollCh, u) /\ marking' = u
     \/ /\ pollCh \notin openCh
        /\ NoFault
        /\ UNCHANGED <<openCh, marking, brokerVars>>
  /\ UNCHANGED <<dbVars, req, userUp, pubCh, pollCh>>

(* MarkPublished; when it fails the row stays and will be published again. *)
PollMark ==
  /\ marking # NoUser
  /\ marking' = NoUser
  /\ \/ outbox' = [outbox EXCEPT ![marking] = "published"] /\ NoFault
     \/ Fault("mark") /\ UNCHANGED outbox
  /\ UNCHANGED <<acct, profiles, registering, tokens, req, chanVars, batch,
                 brokerVars>>

----------------------------------------------------------------------------
(* Connections, crashes and restarts                                       *)

(* One of the process's connections breaks. *)
LoseChannel(ch) ==
  /\ ch \in openCh
  /\ Fault("conn")
  /\ openCh' = openCh \ {ch}
  /\ UNCHANGED <<dbVars, req, userUp, pubCh, pollCh, pollVars, brokerVars>>

(* RabbitMQ going down breaks all of them; nothing reopens one by itself. *)
LoseAllChannels ==
  /\ openCh' = {}
  /\ UNCHANGED <<dbVars, req, userUp, pubCh, pollCh, pollVars>>

UserCrash ==
  /\ userUp
  /\ Fault("crash")
  /\ userUp' = FALSE
  /\ registering' = {}
  /\ req' = [r \in Requests |-> Idle]
  /\ pubCh' = 0 /\ openCh' = {} /\ pollCh' = 0
  /\ batch' = {} /\ marking' = NoUser
  /\ UNCHANGED <<acct, profiles, tokens, outbox, brokerVars>>

(* With RabbitMQ unreachable the service comes up with neither publisher   *)
(* nor poller, and stays so until it is restarted.                         *)
UserStart ==
  /\ ~userUp
  /\ userUp' = TRUE
  /\ IF brokerUp THEN pubCh' = 1 /\ openCh' = {1} /\ pollCh' = 1
                 ELSE UNCHANGED <<pubCh, openCh, pollCh>>
  /\ NoFault
  /\ UNCHANGED <<dbVars, req, pollVars, brokerVars>>

----------------------------------------------------------------------------

Poll == PollFetch \/ (\E u \in UserIds : PollPublish(u)) \/ PollMark

Handler(r) == FallbackDelete(r) \/ CaptureChannel(r) \/ PublishDirect(r) \/ Reconnect(r)

UserNext ==
  \/ \E u \in UserIds :
       Register(u) \/ RegisterProfile(u) \/ Login(u) \/ ExpireToken(u)
  \/ \E r \in Requests :
       \/ \E u \in UserIds : DeleteUserWithOutbox(r, u)
       \/ Handler(r)
  \/ Poll
  \/ \E ch \in openCh : LoseChannel(ch)
  \/ UserCrash
  \/ UserStart

(* user-service alone with its broker: list.user-events is bound and nobody *)
(* reads it.                                                               *)
UserServiceInit == FaultsInit /\ BrokerInit(TRUE) /\ UserInit

UserServiceNext ==
  \/ UserNext
  \/ BrokerStopped /\ LoseAllChannels /\ UNCHANGED <<bound, queue>>
  \/ BrokerStarted /\ UNCHANGED userVars

userServiceVars == <<userVars, brokerVars, faults>>

UserServiceSpec == UserServiceInit /\ [][UserServiceNext]_userServiceVars

(* Goroutines are scheduled, a dead container is restarted (restart:       *)
(* unless-stopped) and RabbitMQ comes back.                                *)
UserFairness ==
  /\ WF_userServiceVars(PollFetch)
  /\ \A u \in UserIds : WF_userServiceVars(PollPublish(u)) /\ WF_userServiceVars(RegisterProfile(u))
  /\ WF_userServiceVars(PollMark)
  /\ \A r \in Requests : WF_userServiceVars(Handler(r))
  /\ WF_userServiceVars(UserStart)

UserServiceFairSpec ==
  /\ UserServiceSpec
  /\ UserFairness
  /\ WF_userServiceVars(BrokerStarted /\ UNCHANGED userVars)

----------------------------------------------------------------------------
(* Properties                                                              *)

UserServiceTypeOK == UserTypeOK /\ BrokerTypeOK /\ faults \in 0..MaxFaults

(* Handler r has deleted u's row itself and still owes the announcement. *)
Announcing(r, u) == req[r].u = u /\ req[r].pc \notin {"idle", "fallback"}

(* An announcement always tells the truth: an outbox row, a handler about  *)
(* to publish, a row the poller holds and a message in the queue all name  *)
(* a user whose row is gone for good (user_service.go DeleteUser).         *)
OnlyDeletedAnnounced ==
  \A u \in UserIds :
    \/ outbox[u] # "none" \/ queue[u] > 0 \/ marking = u
    \/ \E r \in Requests : Announcing(r, u)
    => acct[u] = "deleted" /\ u \notin profiles

(* However many DELETE /me handlers race, and whether or not a commit's    *)
(* outcome was learnt, one deletion is announced along one path: by its    *)
(* outbox row or by exactly one handler (RowsAffected decides).            *)
OnePathAnnounces ==
  \A u \in UserIds, r \in Requests :
    Announcing(r, u) =>
      /\ outbox[u] = "none"
      /\ \A q \in Requests : Announcing(q, u) => q = r

(* The holder of a token has a complete account or had one: a token is     *)
(* never out while its user lacks a profile (Register issues it last).     *)
TokenMeansProfile ==
  \A u \in tokens : acct[u] = "deleted" \/ UserExists(u)

(* At least once: a row is marked published only when its event is in the  *)
(* queue, which nobody reads here, whatever failed in between (outbox.go   *)
(* poll: publish first, mark after; a failed publish is left for the next  *)
(* poll).  Only a message that dies unconfirmed on the wire escapes it.    *)
PublishedIsQueued ==
  \A u \in UserIds : outbox[u] = "published" => queue[u] > 0

(* Nothing strands an event in the outbox but a poller without a working   *)
(* channel: not a crash in the middle of a batch, a failed mark or a       *)
(* commit whose outcome nobody learnt (outbox.go Start).                   *)
OutboxDrains ==
  \A u \in UserIds :
    outbox[u] = "pending" ~> queue[u] > 0 \/ (userUp /\ pollCh \notin openCh)

(* A row of the outbox whose event never got into the queue, while the     *)
(* poller has no open channel.                                             *)
Stranded(u) ==
  userUp /\ pollCh \notin openCh /\ outbox[u] # "none" /\ queue[u] = 0

(* Only a restart of the process helps such a row: no broker that comes    *)
(* back, no reconnect of the shared publisher and no second DELETE of the  *)
(* same user gives the poller a channel or the event another way out       *)
(* (publisher.go reconnect replaces the publisher's channel only).         *)
StrandedStays ==
  [][\A u \in UserIds : Stranded(u) /\ userUp' => Stranded(u)']_userServiceVars

(* The retry the poller counts on (outbox.go "retry on next poll"): an     *)
(* event that reached the outbox reaches the queue.                        *)
OutboxReachesQueue ==
  \A u \in UserIds : outbox[u] = "pending" ~> queue[u] > 0
=============================================================================
