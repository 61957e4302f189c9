\* Each part of the runtime on its own, up to its bound.
SPECIFICATION Spec
CONSTANTS
  Block = {b1, b2, b3, b4, b5, b6, b7}
  NULL = NULL
  Element = {x, y}
  Junk = Junk
  Sizes = {1, 2, 3}
  SizeMax = 15
  Thread = {t1, t2, t3}
  Digits = {0, 1}
  WordBytes = 2
  Clock = {0, 9}
  MaxIds = 5
  Wildcard = "any"
  Char = {"a", "b", "any"}
  MaxSubject = 4
  MaxPattern = 4
  Node <- MCNode
  Name = {"n", "m"}
  NoName = NoName
  MaxDepth = 2
  Inputs <- MCInputs
INVARIANTS
  NoBlockAstray
  MatchingIsExact
  PlacesExist
  IdsDistinct
  PointersInBounds
  InjectionTypeOK
  NestingBounded
  NamesUnique
PROPERTIES
  ArrayIsLog
  Terminates
  ImplementsMap
\* The array is full, the ids are made, the match has returned, every entry is applied.
CHECK_DEADLOCK FALSE
