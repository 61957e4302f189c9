\* Longs of three digits, decimals of one behind the dot; addresses of two octets of two bits,
\* or of three groups of four bits.
SPECIFICATION ReaderSpec
CONSTANTS
  MaxLong = 109
  FracDigits = 1
  HoursPerDay = 2
  MinutesPerHour = 2
  SecondsPerMinute = 2
  MsDigits = 1
  ByteBits = 2
  Octets = 2
  Groups = 3
  MaxIpText = 8
  Wildcard = 255
  Alphabet <- MCAlphabet
  MaxText <- MCMaxText
INVARIANTS
  LiteralsExact
  TokensExact
  StringsAgree
\* A text of full length is not written further.
CHECK_DEADLOCK FALSE
