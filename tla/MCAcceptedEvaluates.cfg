\* The limits of php_cedar_types.h, and sums and products of up to 129 ones.
SPECIFICATION SumSpec
CONSTANTS
  MaxLong = 1000
  MaxParseDepth = 64
  MaxPolicies = 256
  MaxConditions = 16
  MaxAnnotations = 16
  MaxSetElements = 256
  MaxRecordEntries = 64
  MaxRecordDepth = 16
  MaxTypeParts = 16
  MaxBinopChain = 256
  MaxMemberChain = 16
  MaxEvalDepth = 128
  MaxEqualsDepth = 32
  MaxEqualsElts = 1024
  MaxNodes = 0
  MaxTokens = 0
  MaxWritten = 0
  MaxTerms = 129
  FracDigits = 1
  HoursPerDay = 2
  MinutesPerHour = 2
  SecondsPerMinute = 2
  MsDigits = 1
  ByteBits = 2
  Octets = 2
  Groups = 3
  MaxIpText = 12
  Loopback4 = NoRange
  Multicast4 = NoRange
  Loopback6 = NoRange
  Multicast6 = NoRange
  Wildcard = "any"
  Keywords <- MCKeywords
  Leaves <- MCLeaves
  Operands <- MCOperands
  Name <- IpName
  QuotedName <- Dashed
  TypeName <- TypeAB
  Alphabet <- MCAlphabet
  Forms <- MCForms
  Annotations <- MCAnnotations
  Expressions <- MCExpressions
INVARIANT AcceptedEvaluates
\* A sum of all its terms is not written further.
CHECK_DEADLOCK FALSE
