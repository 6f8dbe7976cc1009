\* One connection breaks once.
CONSTANTS
  u1 = u1
  u2 = u2
  r1 = r1
  r2 = r2
  email = email
  NoUser = NoUser
  UserIds <- MCUserIds
  EmailOf <- MCEmailOf
  Requests <- MCRequests
  FetchLimit = 1
  MaxFaults = 1
  FaultKinds = {"conn"}
SPECIFICATION UserServiceFairSpec
PROPERTY OutboxReachesQueue
CHECK_DEADLOCK FALSE
