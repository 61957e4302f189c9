\* expr.c 350, `::` must expand to at least one zero group, against one behind all the groups.
SPECIFICATION ReaderSpec
CONSTANTS
  MaxLong = 109
  FracDigits = 1
  HoursPerDay = 2
  MinutesPerHour = 2
  SecondsPerMinute = 2
  MsDigits = 1
  ByteBits = 2
  Octets = 2
  Groups = 3
  MaxIpText = 8
  Wildcard = 255
  Alphabet <- MCAlphabet
  MaxText <- MCMaxText
INVARIANT
  GapIsZeroes
CHECK_DEADLOCK FALSE
