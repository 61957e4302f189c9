\* Limits that some of the expressions and policies exceed, and loads in every order and nesting.
SPECIFICATION StoreSpec
CONSTANTS
  MaxLong = 19
  MaxParseDepth = 4
  MaxPolicies = 2
  MaxConditions = 2
  MaxAnnotations = 2
  MaxSetElements = 2
  MaxRecordEntries = 1
  MaxRecordDepth = 2
  MaxTypeParts = 2
  MaxBinopChain = 2
  MaxMemberChain = 2
  MaxEvalDepth = 12
  MaxEqualsDepth = 3
  MaxEqualsElts = 3
  MaxNodes = 3
  MaxTokens = 5
  MaxWritten = 4
  MaxTerms = 2
  FracDigits = 1
  HoursPerDay = 2
  MinutesPerHour = 2
  SecondsPerMinute = 2
  MsDigits = 1
  ByteBits = 2
  Octets = 2
  Groups = 3
  MaxIpText = 12
  Loopback4 = NoRange
  Multicast4 = NoRange
  Loopback6 = NoRange
  Multicast6 = NoRange
  Wildcard = "any"
  Keywords <- MCKeywords
  Leaves <- MCLeaves
  Operands <- MCOperands
  Name <- IpName
  QuotedName <- Dashed
  TypeName <- TypeAB
  Alphabet <- MCAlphabet
  Forms <- MCForms
  Annotations <- MCAnnotations
  Expressions <- MCExpressions
  StoreObject = {s, t}
  StoreId = {i1, i2}
  NoId = NoId
  PolicyId = {p, q}
  Text = {"A", "B", "broken"}
  WellFormed = {"A", "B"}
  HeapBlock = {b1}
  MaxCalls = 2
SYMMETRY StoreSymmetry
INVARIANTS
  ReadsBack
  NothingLost
  RewordingIsIdle
  TypeOK
  AckedIsLoaded
PROPERTIES
  LoadsOnlyAppend
  RefusalChangesNothing
\* Each input is as large as the instance lets it grow; a store can always be called.
CHECK_DEADLOCK FALSE
