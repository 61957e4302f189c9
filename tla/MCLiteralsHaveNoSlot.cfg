\* types.h 432-436, only a keyword is stamped with a slot, against the literal of a request entity.
SPECIFICATION EvaluationSpec
CONSTANTS
  MaxLong = 109
  FracDigits = 1
  HoursPerDay = 2
  MinutesPerHour = 2
  SecondsPerMinute = 2
  MsDigits = 1
  ByteBits = 2
  Octets = 1
  Groups = 1
  MaxIpText = 8
  MaxEqualsDepth = 2
  MaxEqualsElts = 3
  Loopback4 = NoRange
  Multicast4 = NoRange
  Loopback6 = NoRange
  Multicast6 = NoRange
  Wildcard = "any"
  MaxEvalDepth = 6
  Basic <- MCBasic
  MaxNest = 0
  LastYear = 0
  WatchedYears = {}
  Contexts <- MCContexts
  Leaves <- MCLeaves
  Operands <- MCOperands
  MaxHeight = 3
INVARIANT
  LiteralsHaveNoSlot
CHECK_DEADLOCK FALSE
