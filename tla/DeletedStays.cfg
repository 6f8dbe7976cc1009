\* No fault and one request at a time: the page deletes its only section.
CONSTANTS
  u1 = u1
  s1 = s1
  i1 = i1
  p1 = p1
  p2 = p2
  n1 = n1
  n2 = n2
  NoUser = NoUser
  NoSection = NoSection
  NoTranslation = NoTranslation
  NoReq = NoReq
  UserIds = {u1}
  Me = u1
  SectionIds = {s1}
  ItemIds = {i1}
  Names <- MCNames
  Positions = {0}
  Quantities = {1}
  Translations = {t1}
  Slots = {p1}
  MaxFaults = 0
  FaultKinds = {}
SPECIFICATION PageSpec
INVARIANTS
  DeletedLeaves
CHECK_DEADLOCK FALSE
