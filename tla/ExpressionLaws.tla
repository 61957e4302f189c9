--------------------------- MODULE ExpressionLaws ---------------------------
(***************************************************************************)
(* What an author of policies relies on when values are compared and       *)
(* expressions are evaluated.  To the kinds of input that ExtensionLaws    *)
(* has come two more:                                                      *)
(*                                                                         *)
(*   "values"      two values that nest into each other                    *)
(*   "expression"  one that grows by one node at a time, around or beside  *)
(*                 the leaves, in one evaluation context; each law is      *)
(*                 about the expression so far and the ones built from it  *)
(***************************************************************************)
EXTENDS Expressions, ExtensionLaws

CONSTANTS Basic,      \* the values to start from
          MaxNest,
          Contexts,   \* evaluation contexts
          Leaves,     \* the expressions to start from
          Operands,   \* the expressions to combine with
          MaxHeight

Entry(name, value) == [name |-> name, value |-> value]

\* Containers of x and y: in either order, repeated, as set elements and as attributes.
Containers(x, y) ==
  {SetValue(<<x>>), SetValue(<<x, y>>), SetValue(<<y, x>>),
   SetValue(<<x, x, y>>), SetValue(<<y, x, y>>), SetValue(<<x, y, x, y>>),
   RecordValue(<<Entry("n", x)>>), RecordValue(<<Entry("n", x), Entry("m", y)>>),
   RecordValue(<<Entry("m", y), Entry("n", x)>>)}

Nest ==
  /\ kind = "values" /\ input.nest < MaxNest
  /\ \E x, y \in Containers(input.a, input.b) :
       input' = [input EXCEPT !.a = x, !.b = y, !.nest = @ + 1]
  /\ UNCHANGED kind

ValueInit ==
  \/ ExtensionInit
  \/ kind = "values" /\ input \in [a : Basic, b : Basic, nest : {0}]

ValueNext == ExtensionNext \/ Nest
-----------------------------------------------------------------------------
(***************************************************************************)
(* Equality without an algorithm: sets are the same if their elements can  *)
(* be paired off, records if their attributes can, under equal names.      *)
(***************************************************************************)
Paired(x, y, same) ==
  CASE x.t # y.t      -> FALSE
    [] x.t = "set"    ->
         /\ Len(x.elts) = Len(y.elts)
         /\ \E f \in Permutations(DOMAIN x.elts) :
              \A k \in DOMAIN x.elts : same[x.elts[k]][y.elts[f[k]]]
    [] x.t = "record" ->
         /\ Len(x.attrs) = Len(y.attrs)
         /\ \A k \in DOMAIN x.attrs :
              \E l \in DOMAIN y.attrs : /\ x.attrs[k].name = y.attrs[l].name
                                        /\ same[x.attrs[k].value][y.attrs[l].value]
    [] x.t = "entity" -> x.uid = y.uid
    [] OTHER          -> x = y

\* Deeper than any value of a run, and than equality goes.
Deepest == MaxEqualsDepth + MaxNest + 1

Same(a, b) ==
  LET as == Depths(a, Deepest + 1)
      bs == Depths(b, Deepest + 1)
      same[r \in 0 .. Deepest] ==
        [x \in as[Deepest + 1 - r] |-> [y \in bs[Deepest + 1 - r] |->
           r # 0 /\ Paired(x, y, same[r - 1])]]
  IN  same[Deepest][a][b]

\* More than the depth or the number of elements that equality goes through.
OverLimit(v, depth) ==
  LET levels == Depths(v, MaxEqualsDepth - depth + 2)
  IN  \/ levels[MaxEqualsDepth - depth + 2] # {}
      \/ \E k \in DOMAIN levels : \E x \in levels[k] : Len(Inner(x)) > MaxEqualsElts

(***************************************************************************)
(* Matching each element with the first that is left finds a pairing iff   *)
(* there is one, and never says so of values that differ only in what is   *)
(* repeated; it gives up only when both values are over a limit.           *)
(* (php_cedar_value_equals)                                                *)
(***************************************************************************)
EqualsIsPairing ==
  kind = "values" =>
    LET r == ValueEquals(input.a, input.b)
    IN  /\ r = "eq" => Same(input.a, input.b)
        /\ r = "ne" => ~Same(input.a, input.b)
        /\ r = "error" => OverLimit(input.a, 0) /\ OverLimit(input.b, 0)

(***************************************************************************)
(* contains, containsAll and containsAny are the quantifiers they name,    *)
(* and an error is one of an equality they had to decide.                  *)
(* (php_cedar_eval_method_call)                                            *)
(***************************************************************************)
ContainsIsMembership ==
  kind = "values" /\ input.a.t = "set" =>
    LET a == input.a
        b == input.b
        within(x) == \E k \in DOMAIN a.elts : Same(a.elts[k], x)
        agrees(v, truth) ==
          v = BoolValue(truth) \/ (IsError(v) /\ OverLimit(a, -1) /\ OverLimit(b, -1))
    IN  /\ b.t = "set" =>
             /\ agrees(MethodCall(a, "containsAll", b), \A k \in DOMAIN b.elts : within(b.elts[k]))
             /\ agrees(MethodCall(a, "containsAny", b), \E k \in DOMAIN b.elts : within(b.elts[k]))
        /\ MethodCall(SetValue(<<a, b>>), "contains", b) = BoolValue(TRUE) \/ OverLimit(b, 0)

(***************************************************************************)
(* What is compared is what the values stand for: equality, and            *)
(* membership in a set.  (php_cedar_value_equals)                          *)
(***************************************************************************)
ComparisonsExact == EqualsIsPairing /\ ContainsIsMembership
-----------------------------------------------------------------------------
AttrNames == {"n", "m"}

\* An expression of more than n levels.
Higher(e, n) == Levels(e, n + 1)[n + 1] # {}

\* The expressions with e as an operand, alone or beside an operand.
Alone(e) ==
  {AttrNode(e, "n"), AttrNode(e, "m"), HasNode(e, "n"), UnNode("not", e), UnNode("neg", e),
   IsNode(e, "User", NoNode), LikeNode(e, <<"x", Wildcard>>), SetNode(<<e>>),
   RecordNode(<<[key |-> "n", value |-> e]>>), CallNode(e, "isEmpty", NoNode)}

Beside(e, o) ==
  {BinNode(op, e, o) : op \in {"and", "or", "eq", "in", "add"}} \cup
  {BinNode(op, o, e) : op \in {"and", "in"}} \cup
  {SetNode(<<e, o>>), IsNode(e, "User", o), IfNode(e, o, o), IfNode(o, e, o),
   CallNode(e, "contains", o), CallNode(o, "contains", e)}

(***************************************************************************)
(* Values as evaluation makes and injection leaves them: an array has as   *)
(* many elements as it says, and no element is an error or a request       *)
(* entity.  A value of n levels goes no further through the limits of      *)
(* equality than that.                                                     *)
(***************************************************************************)
IsArray(s) == s \in Seq(Range(s))

Clear(v) == v.t = "entity" => v.slot = NoSlot

WellFormed(v) ==
  /\ ~IsError(v)
  /\ v.t = "bool" => v \in {BoolValue(TRUE), BoolValue(FALSE)}
  /\ v.t = "ip" => v.v6 \in BOOLEAN
  /\ v.t = "entity" => v.slot \in Range(SlotOrder) \cup {NoSlot}
  /\ v.t = "set" => IsArray(v.elts)
  /\ v.t = "record" => IsArray(v.attrs) /\ v = RecordValue(v.attrs)
  /\ Len(Inner(v)) <= MaxEqualsElts
  /\ \A i \in DOMAIN Inner(v) : Clear(Inner(v)[i])

Sound(v, n) ==
  LET depths == Depths(v, n + 1)
  IN  depths[n + 1] = {} /\ \A k \in 1 .. n : \A x \in depths[k] : WellFormed(x)

\* What a value may have in levels beyond those of the expression that makes it.
DataLevels == MaxEqualsDepth + 2 - MaxHeight

\* A uid stands for the same entity in every slot that has it.  The exception that
\* the request loop can make, a half applied value, is SharedIdentifierAgrees.
ContextWellFormed(ctx) ==
  /\ Sound(RecordValue(ctx.attrs.context), DataLevels + 1)
  /\ \A s \in Range(SlotOrder) :
       /\ Sound(RecordValue(ctx.attrs[s]), DataLevels + 2)
       /\ \A t \in Range(SlotOrder) :
            ctx.uid[s] = ctx.uid[t] => ctx.attrs[s] = ctx.attrs[t] /\ ctx.parents[s] = ctx.parents[t]

(***************************************************************************)
(* Expressions as the parser makes them, of at most n levels.              *)
(***************************************************************************)
BinaryOps == {"and", "or", "eq", "ne", "in", "lt", "le", "gt", "ge", "add", "sub", "mul"}
OtherOps == {"lit", "ext", "entity", "var", "attr", "has", "like", "set", "record", "not", "neg",
             "call", "is", "if"}

NodeWellFormed(e) ==
  /\ e.op \in BinaryOps \cup OtherOps
  /\ e.op = "lit" => Clear(e.value) /\ Sound(e.value, DataLevels + 1)
  /\ e.op = "ext" => e.type \in {"ip", "decimal", "datetime", "duration"}
  /\ e.op = "var" => e.var \in Range(SlotOrder) \cup {"context"}
  /\ e.op = "set" => IsArray(e.elts) /\ Len(e.elts) <= MaxEqualsElts
  /\ e.op = "record" => IsArray(e.entries) /\ Len(e.entries) <= MaxEqualsElts

Legible(e, n) ==
  LET levels == Levels(e, n + 1)
  IN  levels[n + 1] = {} /\ \A k \in 1 .. n : \A x \in levels[k] : NodeWellFormed(x)

(***************************************************************************)
(* Expressions and values stay below the limits of evaluation and of       *)
(* equality, since the laws are about what expressions mean: which limits  *)
(* the parser lets an expression reach is AcceptedEvaluates.               *)
(***************************************************************************)
ASSUME ExpressionAssumption ==
  /\ {MaxHeight, MaxEqualsDepth, MaxEqualsElts} \subseteq Nat
  /\ MaxHeight >= 2 /\ MaxHeight + 3 <= MaxEvalDepth
  /\ MaxHeight <= MaxEqualsDepth + 1 /\ MaxEqualsElts >= 2
  /\ \A ctx \in Contexts : ContextWellFormed(ctx)
  /\ \A e \in Leaves : Legible(e, MaxHeight)
  /\ \A e \in Operands : Legible(e, MaxHeight - 1)

Grow ==
  /\ kind = "expression" /\ ~Higher(input.expr, MaxHeight - 1)
  /\ \E e \in Alone(input.expr) \cup UNION {Beside(input.expr, o) : o \in Operands} :
       input' = [input EXCEPT !.expr = e]
  /\ UNCHANGED kind

ExpressionInit == kind = "expression" /\ input \in [expr : Leaves, ctx : Contexts]

EvaluationInit == ValueInit \/ ExpressionInit
EvaluationNext == ValueNext \/ Grow
EvaluationSpec == EvaluationInit /\ [][EvaluationNext]_<<kind, input>>
-----------------------------------------------------------------------------
expr == input.expr
Value(e) == Eval(e, input.ctx, 0)
-----------------------------------------------------------------------------
(***************************************************************************)
(* The depth limit turns a value into an error and never into another      *)
(* value, and it leaves alone what is not as high as the limit is far.     *)
(* (php_cedar_expr_eval)                                                   *)
(***************************************************************************)
OnlyFails(d, limited, value) ==
  \/ limited = value
  \/ limited = ErrorValue /\ Higher(expr, MaxEvalDepth - d)

LimitOnlyFails ==
  kind = "expression" =>
  \A d \in 1 .. MaxEvalDepth : OnlyFails(d, Eval(expr, input.ctx, d), Value(expr))

(***************************************************************************)
(* `e has a && e.a ...` is safe: `has` is true iff reading the attribute   *)
(* gives a value, so that only an error of `has` itself is left.           *)
(* (php_cedar_eval_has, php_cedar_eval_attr_access)                        *)
(***************************************************************************)
Guards(has, read, guarded) ==
  /\ has = BoolValue(TRUE) <=> ~IsError(read)
  /\ IsError(guarded) <=> IsError(has)

HasGuardsAccess ==
  kind = "expression" =>
  \A name \in AttrNames :
    LET has  == HasNode(expr, name)
        read == AttrNode(expr, name)
    IN  Guards(Value(has), Value(read), Value(BinNode("and", has, BinNode("eq", read, read))))

(***************************************************************************)
(* A literal that names a request entity means what the keyword means, "so *)
(* attribute, has, and `in` resolution reach the matching per-slot arrays, *)
(* exactly as the bare keyword does" (expr.c 1971-1974): the attributes,   *)
(* the ancestors, and what is made of them.                                *)
(* (php_cedar_entity_request_slot)                                         *)
(***************************************************************************)
Respelled(e, part) ==
  CASE e.op = "var"    -> IF e.var = "context" THEN e ELSE EntityNode(input.ctx.uid[e.var])
    [] e.op \in {"lit", "ext", "entity"} -> e
    [] e.op = "attr"   -> AttrNode(part[e.object], e.attr)
    [] e.op = "has"    -> HasNode(part[e.object], e.attr)
    [] e.op = "like"   -> LikeNode(part[e.object], e.pattern)
    [] e.op = "set"    -> SetNode([k \in DOMAIN e.elts |-> part[e.elts[k]]])
    [] e.op = "record" ->
         RecordNode([k \in DOMAIN e.entries |->
                       [key |-> e.entries[k].key, value |-> part[e.entries[k].value]]])
    [] e.op \in {"not", "neg"} -> UnNode(e.op, part[e.operand])
    [] e.op = "call"   ->
         CallNode(part[e.object], e.method, IF e.arg = NoNode THEN NoNode ELSE part[e.arg])
    [] e.op = "is"     ->
         IsNode(part[e.object], e.type, IF e.within = NoNode THEN NoNode ELSE part[e.within])
    [] e.op = "if"     -> IfNode(part[e.cond], part[e.then], part[e.else])
    [] OTHER           -> BinNode(e.op, part[e.left], part[e.right])

Spelled(node) ==
  LET levels == Levels(node, MaxHeight + 1)
      spelled[r \in 0 .. MaxHeight] ==
        [e \in levels[MaxHeight + 1 - r] |-> IF r = 0 THEN e ELSE Respelled(e, spelled[r - 1])]
  IN  spelled[MaxHeight][node]

LiteralIsKeyword ==
  kind = "expression" => ClearSlot(Value(Spelled(expr))) = ClearSlot(Value(expr))

(***************************************************************************)
(* "NONE is the default for derived entities (literals, ...)", the slots   *)
(* are stamped only by the keywords (types.h 432-436).  The code stamps    *)
(* the literal that names a request entity as well, which is what          *)
(* LiteralIsKeyword rests on.  (php_cedar_expr_eval_body: ENTITY_REF)      *)
(***************************************************************************)
LiteralsHaveNoSlot ==
  kind = "expression" /\ expr.op = "entity" => Value(expr).slot = NoSlot

(***************************************************************************)
(* Only the keyword or the literal itself is a request entity: what passed *)
(* through a container, an attribute or an `if` is an arbitrary entity.    *)
(* (php_cedar_clear_entity_slot)                                           *)
(***************************************************************************)
Anonymous(v) ==
  \A level \in Range(Depths(v, MaxEvalDepth)) : \A x \in level : x.t = "entity" => x.slot = NoSlot

SlotsDoNotTravel ==
  kind = "expression" => expr.op \in {"var", "entity"} \/ Anonymous(Value(expr))

(***************************************************************************)
(* && and || are the conditionals they abbreviate, and De Morgan's laws    *)
(* hold, errors included: a decisive left side hides an error on the right *)
(* and never the other way round.  (php_cedar_expr_eval_body)              *)
(***************************************************************************)
True == Lit(BoolValue(TRUE))
False == Lit(BoolValue(FALSE))

SameValues(pairs) == \A k \in DOMAIN pairs : Value(pairs[k][1]) = Value(pairs[k][2])

ConnectivesAreConditionals ==
  kind = "expression" =>
  \A o \in Operands :
    SameValues(
      <<<<BinNode("and", expr, o), IfNode(expr, IfNode(o, True, False), False)>>,
        <<BinNode("or", o, expr),  IfNode(o, True, IfNode(expr, True, False))>>,
        <<UnNode("not", BinNode("and", o, expr)),
          BinNode("or", UnNode("not", o), UnNode("not", expr))>>>>)

(***************************************************************************)
(* `e is T in x` is `e is T && e in x`, errors of x included.              *)
(* (php_cedar_eval_is_check)                                               *)
(***************************************************************************)
IsInSplits ==
  kind = "expression" =>
  \A o \in Operands :
    SameValues(<<<<IsNode(expr, "User", o),
                   BinNode("and", IsNode(expr, "User", NoNode), BinNode("in", expr, o))>>>>)

(***************************************************************************)
(* `e in [x, y]` is `e in x || e in y` when x and y are entities, and an   *)
(* error when one of them is not, in whatever order they are written.  e   *)
(* is smaller here than in the other laws, since there are two operands.   *)
(* (php_cedar_eval_in)                                                     *)
(***************************************************************************)
InDistributes ==
  kind = "expression" /\ ~Higher(expr, MaxHeight - 1) =>
  \A x, y \in Operands :
    Value(BinNode("in", expr, SetNode(<<x, y>>))) =
      IF \A e \in {x, y} : Value(e).t = "entity"
      THEN Value(BinNode("or", BinNode("in", expr, x), BinNode("in", expr, y)))
      ELSE ErrorValue

(***************************************************************************)
(* A value is one of the request's entities iff the expression names it.   *)
(* (php_cedar_entity_request_slot, php_cedar_clear_entity_slot)            *)
(***************************************************************************)
SlotsFollowNames == LiteralIsKeyword /\ SlotsDoNotTravel

(***************************************************************************)
(* The operators may be written as what they abbreviate, and errors come   *)
(* to the same.  (php_cedar_expr_eval_body)                                *)
(***************************************************************************)
OperatorsAbbreviate ==
  HasGuardsAccess /\ ConnectivesAreConditionals /\ IsInSplits /\ InDistributes
=============================================================================
