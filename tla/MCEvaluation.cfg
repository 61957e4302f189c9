\* Values of small widths: a byte has two bits, a day 80 ticks, and equality two levels.
SPECIFICATION EvaluationSpec
CONSTANTS
  MaxLong = 109
  FracDigits = 1
  HoursPerDay = 2
  MinutesPerHour = 2
  SecondsPerMinute = 2
  MsDigits = 1
  ByteBits = 2
  Octets = 2
  Groups = 1
  MaxIpText = 8
  MaxEqualsDepth = 2
  MaxEqualsElts = 3
  Loopback4 = NoRange
  Multicast4 = NoRange
  Loopback6 = NoRange
  Multicast6 = NoRange
  Wildcard = "any"
  MaxEvalDepth = 6
  Basic <- MCBasic
  MaxNest = 2
  LastYear = 400
  WatchedYears <- MCWatchedYears
  Contexts <- MCContexts
  Leaves <- MCLeaves
  Operands <- MCOperands
  MaxHeight = 3
INVARIANTS
  ComparisonsExact
  MethodsExact
  CalendarExact
  LimitOnlyFails
  SlotsFollowNames
  OperatorsAbbreviate
\* Each input is as large as the instance lets it grow.
CHECK_DEADLOCK FALSE
