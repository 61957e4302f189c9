---------------------------- MODULE Expressions ----------------------------
(***************************************************************************)
(* php_cedar_expr_eval: the value of a condition's expression in an        *)
(* evaluation context.  First values (php_cedar_value_t), their equality,  *)
(* order and methods; then the nodes, each a record whose op names its     *)
(* type.                                                                   *)
(*                                                                         *)
(* A set is the sequence of its elements and a record the sequence of its  *)
(* attributes, because both are arrays that the code walks in order.       *)
(*                                                                         *)
(* Evaluation only reads the context, so that it is an operator and not a  *)
(* process; what it changes on the way, ctx->eval_depth, is its argument   *)
(* depth.                                                                  *)
(***************************************************************************)
EXTENDS ExtensionTypes, Nodes

CONSTANTS MaxEqualsDepth,  \* PHP_CEDAR_MAX_VALUE_EQUALS_DEPTH
          MaxEqualsElts,   \* PHP_CEDAR_VALUE_EQUALS_MAX_ELTS
          MaxEvalDepth,    \* PHP_CEDAR_MAX_EVAL_DEPTH
          Loopback4, Multicast4, Loopback6, Multicast6

ASSUME EvalDepthAssumption == MaxEvalDepth \in Nat

BoolValue(b) == [t |-> "bool", b |-> b]
StringValue(s) == [t |-> "string", s |-> s]
EntityValue(uid, slot) == [t |-> "entity", uid |-> uid, slot |-> slot]
SetValue(elts) == [t |-> "set", elts |-> elts]
RecordValue(attrs) == [t |-> "record", attrs |-> attrs]
-----------------------------------------------------------------------------
(***************************************************************************)
(* php_cedar_value_equals: "eq", "ne", or "error" when the operands are    *)
(* nested too deep or too many.  Scalars are equal as records are, except  *)
(* that the slot of an entity is not compared.                             *)
(***************************************************************************)
ScalarEquals(a, b) ==
  IF a.t = "entity" THEN a.uid = b.uid ELSE a = b

\* What a value contains.
Inner(v) ==
  CASE v.t = "set"    -> v.elts
    [] v.t = "record" -> [k \in DOMAIN v.attrs |-> v.attrs[k].value]
    [] OTHER          -> <<>>

Inside(values) == UNION {{Inner(x)[i] : i \in DOMAIN Inner(x)} : x \in values}

\* The first n levels of a value, with what it contains one level down.
Depths(v, n) ==
  LET depths[k \in 1 .. n] ==
        IF k = 1 THEN <<{v}>>
        ELSE LET outer == depths[k - 1] IN Append(outer, Inside(outer[k - 1]))
  IN  depths[n]

(***************************************************************************)
(* Each of n elements takes the first partner that is free and that it     *)
(* does not skip; what it then finds ends the search unless it is equal.   *)
(***************************************************************************)
Take(before, result) ==
  LET hits == {l \in before.free : result[l] # "skip"}
  IN  IF before.r # "eq" THEN before
      ELSE IF hits = {} THEN [before EXCEPT !.r = "ne"]
      ELSE [free |-> before.free \ {First(hits)}, r |-> result[First(hits)]]

Search(results, n) ==
  LET taken[k \in 0 .. n] ==
        IF k = 0 THEN [free |-> 1 .. n, r |-> "eq"] ELSE Take(taken[k - 1], results[k])
  IN  taken[n].r

\* Variant: an element may be matched again, as without the bitmap.
EltsEqualAgain(as, bs, same) ==
  IF \A k \in DOMAIN as : \E l \in DOMAIN bs : same[as[k]][bs[l]] = "eq" THEN "eq" ELSE "ne"

EltsEqual(as, bs, same) ==
  Search([k \in DOMAIN as |-> [l \in DOMAIN bs |->
            LET found == same[as[k]][bs[l]] IN IF found = "ne" THEN "skip" ELSE found]], Len(as))

\* An attribute has one partner at most, since names are unique.
AttrsEqual(as, bs, same) ==
  Search([k \in DOMAIN as |-> [l \in DOMAIN bs |->
            IF as[k].name # bs[l].name THEN "skip" ELSE same[as[k].value][bs[l].value]]], Len(as))

\* One level of values, where same compares what they contain.
Alike(a, b, same) ==
  IF IsError(a) \/ IsError(b) THEN "error"
  ELSE IF a.t # b.t \/ Len(Inner(a)) # Len(Inner(b)) THEN "ne"
  ELSE IF Len(Inner(a)) > MaxEqualsElts THEN "error"
  ELSE IF a.t = "set" THEN EltsEqual(a.elts, b.elts, same)
  ELSE IF a.t = "record" THEN AttrsEqual(a.attrs, b.attrs, same)
  ELSE IF ScalarEquals(a, b) THEN "eq" ELSE "ne"

\* The depth is counted down, from that of the operands to the limit.
ValueEquals(a, b) ==
  LET room == MaxEqualsDepth + 1
      as   == Depths(a, room + 1)
      bs   == Depths(b, room + 1)
      same[r \in 0 .. room] ==
        [x \in as[room + 1 - r] |-> [y \in bs[room + 1 - r] |->
           IF r = 0 THEN "error" ELSE Alike(x, y, same[r - 1])]]
  IN  same[room][a][b]

\* == and !=, total on values of different types.
Compared(r, negated) == IF r = "error" THEN ErrorValue ELSE BoolValue((r = "eq") # negated)

EqualsValue(a, b, negated) == Compared(ValueEquals(a, b), negated)
-----------------------------------------------------------------------------
(***************************************************************************)
(* <, <=, >, >= on two values of one type that has an order.               *)
(***************************************************************************)
Ordered(op, a, b) ==
  CASE op = "lt" -> a < b [] op = "le" -> a <= b [] op = "gt" -> a > b [] op = "ge" -> a >= b

Compare(op, a, b) ==
  IF a.t # b.t \/ a.t \notin {"long", "datetime", "duration"} THEN ErrorValue
  ELSE BoolValue(Ordered(op, a.n, b.n))
-----------------------------------------------------------------------------
(***************************************************************************)
(* php_cedar_eval_method_call.                                             *)
(***************************************************************************)
IpCall(ip, method) ==
  CASE method = "isIpv4"      -> BoolValue(~ip.v6)
    [] method = "isIpv6"      -> BoolValue(ip.v6)
    [] method = "isLoopback"  -> BoolValue(CidrContains(ip, IF ip.v6 THEN Loopback6 ELSE Loopback4))
    [] method = "isMulticast" -> BoolValue(CidrContains(ip, IF ip.v6 THEN Multicast6 ELSE Multicast4))
    [] OTHER                  -> ErrorValue

CallWithout(obj, method) ==
  CASE method = "isEmpty" -> IF obj.t = "set" THEN BoolValue(obj.elts = <<>>) ELSE ErrorValue
    [] obj.t = "ip"       -> IpCall(obj, method)
    [] OTHER              -> TimeCall(obj, method, NoArg)

(***************************************************************************)
(* The linear search that contains, containsAll and containsAny share: the *)
(* first comparison with an element that is not "ne".                      *)
(***************************************************************************)
Find(comparisons) ==
  LET hits == {k \in DOMAIN comparisons : comparisons[k] # "ne"}
  IN  IF hits = {} THEN "ne" ELSE comparisons[First(hits)]

\* containsAll stops at the first that is missing, containsAny at the first found.
StopAt(stopAt, results) ==
  LET stops == {k \in DOMAIN results : results[k] \in {stopAt, "error"}}
  IN  IF stops = {} THEN BoolValue(stopAt = "ne")
      ELSE IF results[First(stops)] = "error" THEN ErrorValue
      ELSE BoolValue(stopAt = "eq")

FindEach(elts, wanted, stopAt) ==
  StopAt(stopAt, [k \in DOMAIN wanted |->
                    Find([l \in DOMAIN elts |-> ValueEquals(wanted[k], elts[l])])])

\* Variant: containsAll asks whether the argument has the elements of the receiver.
ContainsSubset(obj, method, arg) ==
  IF method = "containsAll" THEN FindEach(arg.elts, obj.elts, "ne")
  ELSE FindEach(obj.elts, arg.elts, "eq")

ContainsMany(obj, method, arg) ==
  FindEach(obj.elts, arg.elts, IF method = "containsAll" THEN "ne" ELSE "eq")

DecimalOrder == [lessThan |-> "lt", lessThanOrEqual |-> "le",
                 greaterThan |-> "gt", greaterThanOrEqual |-> "ge"]

CallWith(obj, method, arg) ==
  CASE method \in {"containsAll", "containsAny"} ->
         IF obj.t = "set" /\ arg.t = "set" THEN ContainsMany(obj, method, arg) ELSE ErrorValue
    [] method = "contains" ->
         IF obj.t # "set" THEN ErrorValue
         ELSE Compared(Find([k \in DOMAIN obj.elts |-> ValueEquals(obj.elts[k], arg)]), FALSE)
    [] method = "isInRange" ->
         IF obj.t = "ip" /\ arg.t = "ip" THEN BoolValue(CidrContains(obj, arg)) ELSE ErrorValue
    [] obj.t = "decimal" /\ arg.t = "decimal" /\ method \in DOMAIN DecimalOrder ->
         BoolValue(Ordered(DecimalOrder[method], obj.n, arg.n))
    [] OTHER -> TimeCall(obj, method, arg)

MethodCall(obj, method, arg) ==
  IF arg = NoArg THEN CallWithout(obj, method) ELSE CallWith(obj, method, arg)
-----------------------------------------------------------------------------
(***************************************************************************)
(* The context: attrs maps each home of attributes to an array of them,    *)
(* uid and parents map each slot.                                          *)
(***************************************************************************)
SlotOrder == <<"principal", "action", "resource">>
NoSlot == "none"

\* Variant: a literal is never one of the request's entities.
RequestSlotNever(ctx, uid) == NoSlot

\* php_cedar_entity_request_slot: principal wins when entities share a uid.
RequestSlot(ctx, uid) ==
  LET named == {k \in DOMAIN SlotOrder : ctx.uid[SlotOrder[k]] = uid}
  IN  IF named = {} THEN NoSlot ELSE SlotOrder[First(named)]

\* Variant: the tag stays on.
KeepSlot(v) == v

\* php_cedar_clear_entity_slot: nothing in a container, nor the result of an
\* `if`, is a request entity any more.
ClearSlot(v) == IF v.t = "entity" THEN EntityValue(v.uid, NoSlot) ELSE v

Parents(ctx, slot) == IF slot = NoSlot THEN {} ELSE ctx.parents[slot]

InTarget(ctx, entity, uid) ==
  entity.uid = uid \/ uid \in Parents(ctx, entity.slot)

\* Variant: the first element that matches decides.
InFirstMatch(left, right, ctx) ==
  IF left.t # "entity" THEN ErrorValue
  ELSE IF right.t = "entity" THEN BoolValue(InTarget(ctx, left, right.uid))
  ELSE IF right.t # "set" THEN ErrorValue
  ELSE LET decides == {k \in DOMAIN right.elts :
                         right.elts[k].t = "entity" => InTarget(ctx, left, right.elts[k].uid)}
       IN  IF decides = {} THEN BoolValue(FALSE)
           ELSE IF right.elts[First(decides)].t # "entity" THEN ErrorValue
           ELSE BoolValue(TRUE)

\* php_cedar_eval_in: a set has to hold entities only, found or not.
In(left, right, ctx) ==
  IF left.t # "entity" THEN ErrorValue
  ELSE IF right.t = "entity" THEN BoolValue(InTarget(ctx, left, right.uid))
  ELSE IF right.t # "set" THEN ErrorValue
  ELSE IF \E k \in DOMAIN right.elts : right.elts[k].t # "entity" THEN ErrorValue
  ELSE BoolValue(\E k \in DOMAIN right.elts : InTarget(ctx, left, right.elts[k].uid))

\* php_cedar_find_attr
FindAttr(attrs, name) ==
  LET named == {k \in DOMAIN attrs : attrs[k].name = name}
  IN  IF named = {} THEN ErrorValue ELSE attrs[First(named)].value

HasAttr(attrs, name) == \E k \in DOMAIN attrs : attrs[k].name = name

\* The literals of the extension types keep their text until they are evaluated.
Extension(type, text) ==
  CASE type = "ip" -> MakeIp(text) [] type = "decimal" -> MakeDecimal(text)
    [] type = "datetime" -> MakeDatetime(text) [] type = "duration" -> MakeDuration(text)

\* A variable as a value: an entity with its slot, or the record of the context.
Variable(ctx, var) ==
  IF var = "context" THEN RecordValue(ctx.attrs.context)
  ELSE EntityValue(ctx.uid[var], var)

Not(v) == IF v.t = "bool" THEN BoolValue(~v.b) ELSE ErrorValue

Like(v, pattern) ==
  IF v.t = "string" THEN BoolValue(Matches(v.s, pattern)) ELSE ErrorValue

Strict(op, left, right, ctx) ==
  CASE op \in {"eq", "ne"}             -> EqualsValue(left, right, op = "ne")
    [] op = "in"                       -> In(left, right, ctx)
    [] op \in {"lt", "le", "gt", "ge"} -> Compare(op, left, right)
    [] op \in {"add", "sub", "mul"}    -> Arith(op, left, right)
-----------------------------------------------------------------------------
(***************************************************************************)
(* What an attribute is read from: a record value with the attributes of   *)
(* the object, or an error.  A variable is not evaluated, and so takes no  *)
(* depth; any other object is, and is a record or a request entity.        *)
(***************************************************************************)
AttrsOf(object, ctx, value) ==
  IF object.op = "var" THEN RecordValue(ctx.attrs[object.var])
  ELSE LET v == value[object]
       IN  IF v.t = "entity" /\ v.slot # NoSlot THEN RecordValue(ctx.attrs[v.slot])
           ELSE IF v.t = "record" THEN v ELSE ErrorValue

\* php_cedar_eval_attr_access
AttrAccess(node, ctx, value) ==
  LET from == AttrsOf(node.object, ctx, value)
  IN  IF IsError(from) THEN ErrorValue ELSE FindAttr(from.attrs, node.attr)

\* Variant: what has no attributes has not this one.
HasOnAnything(node, ctx, value) ==
  LET from == AttrsOf(node.object, ctx, value)
  IN  IF IsError(from) THEN BoolValue(FALSE) ELSE BoolValue(HasAttr(from.attrs, node.attr))

\* Variant: an entity that is not a variable has no attributes.
HasOnRecords(node, ctx, value) ==
  LET v == value[node.object]
  IN  IF node.object.op = "var" THEN BoolValue(HasAttr(ctx.attrs[node.object.var], node.attr))
      ELSE IF v.t = "record" THEN BoolValue(HasAttr(v.attrs, node.attr)) ELSE ErrorValue

\* php_cedar_eval_has
Has(node, ctx, value) ==
  LET from == AttrsOf(node.object, ctx, value)
  IN  IF IsError(from) THEN ErrorValue ELSE BoolValue(HasAttr(from.attrs, node.attr))

\* A set literal: an array of no elements cannot be created.
SetLiteral(node, ctx, value) ==
  LET elts == [k \in DOMAIN node.elts |-> value[node.elts[k]]]
  IN  IF elts = <<>> \/ \E k \in DOMAIN elts : IsError(elts[k]) THEN ErrorValue
      ELSE SetValue([k \in DOMAIN elts |-> ClearSlot(elts[k])])

RecordLiteral(node, ctx, value) ==
  LET vals == [k \in DOMAIN node.entries |-> value[node.entries[k].value]]
  IN  IF \E k \in DOMAIN vals : IsError(vals[k]) THEN ErrorValue
      ELSE RecordValue([k \in DOMAIN vals |->
                          [name |-> node.entries[k].key, value |-> ClearSlot(vals[k])]])

\* Variant: both operands are looked at before the operator.
ConnectiveStrict(node, ctx, value, decisive) ==
  LET left  == value[node.left]
      right == value[node.right]
  IN  IF left.t # "bool" \/ right.t # "bool" THEN ErrorValue
      ELSE IF left.b = decisive THEN left ELSE right

\* && and ||: the decisive bool on the left leaves the right unevaluated.
Connective(node, ctx, value, decisive) ==
  LET left  == value[node.left]
      right == value[node.right]
  IN  IF left.t # "bool" THEN ErrorValue
      ELSE IF left.b = decisive THEN left
      ELSE IF right.t # "bool" THEN ErrorValue ELSE right

\* The operators that evaluate both sides, and fail if either fails.
Binary(node, ctx, value) ==
  LET left  == value[node.left]
      right == value[node.right]
  IN  IF IsError(left) \/ IsError(right) THEN ErrorValue
      ELSE Strict(node.op, left, right, ctx)

Call(node, ctx, value) ==
  LET object == value[node.object]
      arg    == IF node.arg = NoNode THEN NoArg ELSE value[node.arg]
  IN  IF IsError(object) \/ IsError(arg) THEN ErrorValue
      ELSE MethodCall(object, node.method, arg)

\* Variant: the ancestor is evaluated before the type is looked at.
IsCheckEager(node, ctx, value) ==
  LET object == value[node.object]
      within == value[node.within]
  IN  IF object.t # "entity" THEN ErrorValue
      ELSE IF node.within = NoNode THEN BoolValue(object.uid.type = node.type)
      ELSE IF IsError(within) THEN ErrorValue
      ELSE IF object.uid.type # node.type THEN BoolValue(FALSE)
      ELSE In(object, within, ctx)

\* php_cedar_eval_is_check: the type alone decides when it is another one.
IsCheck(node, ctx, value) ==
  LET object == value[node.object]
      within == value[node.within]
  IN  IF object.t # "entity" THEN ErrorValue
      ELSE IF object.uid.type # node.type THEN BoolValue(FALSE)
      ELSE IF node.within = NoNode THEN BoolValue(TRUE)
      ELSE IF IsError(within) THEN ErrorValue ELSE In(object, within, ctx)

\* Only the branch that the condition selects is evaluated.
IfThenElse(node, ctx, value) ==
  LET cond == value[node.cond]
  IN  IF cond.t # "bool" THEN ErrorValue
      ELSE ClearSlot(value[IF cond.b THEN node.then ELSE node.else])

(***************************************************************************)
(* php_cedar_expr_eval_body, one case for each type of node.               *)
(***************************************************************************)
Body(node, ctx, value) ==
  CASE node.op = "lit"    -> node.value
    [] node.op = "ext"    -> Extension(node.type, node.text)
    [] node.op = "entity" -> EntityValue(node.uid, RequestSlot(ctx, node.uid))
    [] node.op = "var"    -> Variable(ctx, node.var)
    [] node.op = "attr"   -> AttrAccess(node, ctx, value)
    [] node.op = "has"    -> Has(node, ctx, value)
    [] node.op = "set"    -> SetLiteral(node, ctx, value)
    [] node.op = "record" -> RecordLiteral(node, ctx, value)
    [] node.op = "and"    -> Connective(node, ctx, value, FALSE)
    [] node.op = "or"     -> Connective(node, ctx, value, TRUE)
    [] node.op = "not"    -> Not(value[node.operand])
    [] node.op = "neg"    -> Negate(value[node.operand])
    [] node.op = "like"   -> Like(value[node.object], node.pattern)
    [] node.op = "call"   -> Call(node, ctx, value)
    [] node.op = "is"     -> IsCheck(node, ctx, value)
    [] node.op = "if"     -> IfThenElse(node, ctx, value)
    [] OTHER              -> Binary(node, ctx, value)

(***************************************************************************)
(* php_cedar_expr_eval: nothing is evaluated below the depth limit.  A     *)
(* node that is k levels down is evaluated with k levels less to go.       *)
(***************************************************************************)
Eval(node, ctx, depth) ==
  LET room   == MaxEvalDepth - depth
      levels == Levels(node, room + 1)
      value[r \in 0 .. room] ==
        [e \in levels[room + 1 - r] |->
           IF r = 0 THEN ErrorValue ELSE Body(e, ctx, value[r - 1])]
  IN  IF room <= 0 THEN ErrorValue ELSE value[room][node]

\* The evaluator as it is called from outside, with ctx->eval_depth at depth.
ExprEval(node, ctx, depth) == Eval(node, ctx, depth)
=============================================================================
