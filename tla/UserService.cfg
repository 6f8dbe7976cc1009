\* Every kind of fault but a message that dies unconfirmed on the wire, three of them: enough to
\* break the transaction, the first publish and the retry of one deletion, to crash and restart
\* between the steps of another, or to take the poller's channel away.
CONSTANTS
  u1 = u1
  u2 = u2
  r1 = r1
  r2 = r2
  email = email
  NoUser = NoUser
  UserIds <- MCUserIds
  EmailOf <- MCEmailOf
  Requests <- MCRequests
  FetchLimit = 1
  MaxFaults = 3
  FaultKinds = {"userdb", "commit", "mark", "conn", "crash", "broker"}
SPECIFICATION UserServiceFairSpec
INVARIANTS
  OnlyDeletedAnnounced
  OnePathAnnounces
  TokenMeansProfile
  PublishedIsQueued
PROPERTIES
  OutboxDrains
  StrandedStays
CHECK_DEADLOCK FALSE
