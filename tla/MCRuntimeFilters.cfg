CONSTANTS
  Pages = {p1, p2}
  Values = {0, 1, 2}
  One = 2
  DefaultFrac = 1
  Configs <- MCConfigs
  Typed <- MCTyped
  Empty = Empty
  NoPoll = NoPoll
  NoField = NoField
  MaxEdits = 2
  MaxSaves = 2
  MaxLost = 1
SPECIFICATION Spec
INVARIANTS
  TypeOK
PROPERTIES
  PostsAreJudgedWhole
  FormsSettle
CHECK_DEADLOCK FALSE
