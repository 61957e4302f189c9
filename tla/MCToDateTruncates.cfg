\* expr.c 1505, toDate truncates to 00:00:00 of the same day, against the first day of the range.
\* A day has ten milliseconds, and the range begins within one.
SPECIFICATION ExtensionSpec
CONSTANTS
  MaxLong = 14
  FracDigits = 1
  HoursPerDay = 1
  MinutesPerHour = 1
  SecondsPerMinute = 1
  MsDigits = 1
  ByteBits = 2
  Octets = 1
  Groups = 1
  MaxIpText = 8
  MaxEqualsDepth = 2
  MaxEqualsElts = 3
  Loopback4 = NoRange
  Multicast4 = NoRange
  Loopback6 = NoRange
  Multicast6 = NoRange
  Wildcard = "any"
  MaxEvalDepth = 6
  Basic <- MCBasic
  MaxNest = 2
  LastYear = 0
  WatchedYears = {}
  Contexts <- MCContexts
  Leaves <- MCLeaves
  Operands <- MCOperands
  MaxHeight = 3
INVARIANT
  ToDateTruncates
CHECK_DEADLOCK FALSE
