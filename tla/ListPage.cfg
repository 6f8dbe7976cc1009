\* Two requests at a time race; two faults lose an answer or open the page again.
CONSTANTS
  u1 = u1
  s1 = s1
  i1 = i1
  p1 = p1
  p2 = p2
  n1 = n1
  n2 = n2
  NoUser = NoUser
  NoSection = NoSection
  NoTranslation = NoTranslation
  NoReq = NoReq
  UserIds = {u1}
  Me = u1
  SectionIds = {s1}
  ItemIds = {i1}
  Names <- MCNames
  Positions = {0}
  Quantities = {1}
  Translations = {t1}
  Slots <- MCSlots
  MaxFaults = 2
  FaultKinds = {"net", "reload"}
SYMMETRY SlotSymmetry
SPECIFICATION PageSpec
INVARIANTS
  PageTypeOK
  QuietPageIsTrue
CHECK_DEADLOCK FALSE
