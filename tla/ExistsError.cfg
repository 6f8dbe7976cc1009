\* The exists endpoint gives one answer other than 200 about a user who exists.
CONSTANTS
  u1 = u1
  r1 = r1
  s1 = s1
  s2 = s2
  i1 = i1
  n1 = n1
  NoUser = NoUser
  NoSection = NoSection
  NoTranslation = NoTranslation
  UserIds <- MCUserIds
  EmailOf <- OwnEmail
  Requests <- MCRequests
  SectionIds <- OneSection
  ItemIds <- MCItems
  Names <- MCNames
  Positions = {0}
  Quantities = {1}
  Translations = {}
  FetchLimit = 1
  MaxFaults = 1
  FaultKinds = {"oracle"}
SPECIFICATION DeletionSpec
INVARIANT OnlyDeletedPurged
