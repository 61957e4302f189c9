\* Requests step by step, and a client constructed again, freed, and called with tokens and without.
SPECIFICATION ClientMCSpec
CONSTANTS
  EntityType <- MCEntityType
  EntityId <- MCEntityId
  PolicyId = {"p1", "p2"}
  Name = {"n", "m"}
  Value = {"T", "F", "S"}
  Expr <- MCExpr
  ExprEval <- MCExprEval
  StoreId = {"s", "t"}
  NoStoreId = NoStoreId
  NoValue = NoValue
  NoName = NoName
  BadUid = BadUid
  ContextMap = ContextMap
  DetailInitialCap = 1
  Stores <- AllStores
  Requests <- AllRequests
  Object = {o, q}
  NoObject = NoObject
  StoreStates <- MCStoreStates
  Claim = {"sub", "uid", "groups"}
  Sub = "sub"
  None = None
  Sources <- MCSources
  Arguments <- MCArguments
  MaxRefs = 3
INVARIANTS
  TypeOK
  DetailInBounds
  TallyCorrect
  DecisionCorrect
  ParentsComplete
  AttributesComplete
  AttrNamesUnique
  ClientTypeOK
  BoundStoreAlive
  TokensMeanEntities
PROPERTIES
  ForbidIsFinal
  Returns
  ImplementsDecision
\* A call has returned, and the client is not called.
CHECK_DEADLOCK FALSE
