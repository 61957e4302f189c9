\* README.md:379, "the entry is skipped", against records and sets with a malformed child.
SPECIFICATION Spec
CONSTANTS
  EntityType <- MCEntityType
  EntityId <- MCEntityId
  PolicyId = {"p1", "p2"}
  Name = {"n", "m"}
  Value = {"T", "F", "S"}
  Expr <- MCExpr
  ExprEval <- MCExprEval
  StoreId = {"s", "t"}
  NoStoreId = NoStoreId
  NoValue = NoValue
  NoName = NoName
  BadUid = BadUid
  ContextMap = ContextMap
  DetailInitialCap = 1
  Stores <- ContextStores
  Requests <- AllContextRequests
INVARIANT
  MalformedSkipped
\* The call has returned.
CHECK_DEADLOCK FALSE
