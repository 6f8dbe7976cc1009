\* Two users with two sections and three items between them: a read of two sections with every
\* statement of either user and of the cleanups between its own. All ids are interchangeable and
\* the properties are safety properties.
CONSTANTS
  u1 = u1
  u2 = u2
  s1 = s1
  s2 = s2
  i1 = i1
  i2 = i2
  i3 = i3
  n1 = n1
  NoUser = NoUser
  NoSection = NoSection
  NoTranslation = NoTranslation
  UserIds <- MCUserIds
  SectionIds <- MCSections
  ItemIds <- MCItems
  Names <- MCNames
  Positions = {0}
  Quantities = {1}
  Translations = {}
SYMMETRY Interchangeable
SPECIFICATION FullSpec
INVARIANTS
  FullTypeOK
  AnswerIsReal
  AnswerIsComplete
PROPERTY OthersRowsKept
