\* cedar.c:803, attributes go to every target an identifier matches, against a malformed child.
SPECIFICATION Spec
CONSTANTS
  EntityType <- MCEntityType
  EntityId <- MCEntityId
  PolicyId = {"p1", "p2"}
  Name = {"n", "m"}
  Value = {"T", "F", "S"}
  Expr <- MCExpr
  ExprEval <- MCExprEval
  StoreId = {"s", "t"}
  NoStoreId = NoStoreId
  NoValue = NoValue
  NoName = NoName
  BadUid = BadUid
  ContextMap = ContextMap
  DetailInitialCap = 1
  Stores <- ContextStores
  Requests <- AllContextRequests
INVARIANT
  SharedIdentifierAgrees
\* The call has returned.
CHECK_DEADLOCK FALSE
