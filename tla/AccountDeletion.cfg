\* One user, two sections, an item, and any one fault but a wrong verdict of the exists endpoint:
\* enough for every path of a deletion event (lost, duplicated, redelivered, never routed), for a
\* write by a stale token between any two steps, and for a crash of either service at any point.
CONSTANTS
  u1 = u1
  r1 = r1
  s1 = s1
  s2 = s2
  i1 = i1
  n1 = n1
  NoUser = NoUser
  NoSection = NoSection
  NoTranslation = NoTranslation
  UserIds <- MCUserIds
  EmailOf <- OwnEmail
  Requests <- MCRequests
  SectionIds <- TwoSections
  ItemIds <- MCItems
  Names <- MCNames
  Positions = {0}
  Quantities = {1}
  Translations = {}
  FetchLimit = 1
  MaxFaults = 1
  FaultKinds = {"userdb", "commit", "mark", "conn", "unconfirmed", "crash", "broker", "listdb", "dial"}
SPECIFICATION DeletionFairSpec
INVARIANTS
  DeletionTypeOK
  OnlyDeletedPurged
  OwnersAnswered
PROPERTIES
  KeepsPromise
  FulfilsPromise
  WritesLikeThat
  EventsKept
  PledgesMet
  VanishedStays
