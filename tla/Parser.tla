------------------------------- MODULE Parser -------------------------------
(***************************************************************************)
(* php_cedar_parser.c: the recursive descent from the tokens of a policy   *)
(* text to its policies.                                                   *)
(*                                                                         *)
(* A parse function is an operator on the context and the position of the  *)
(* current token, and returns the position behind what it read with the    *)
(* node it made of it.  Position 0 is ctx->error: no token is there, so    *)
(* that everything that follows fails too.                                 *)
(*                                                                         *)
(* The context is a record of the tokens (toks), the depth and the         *)
(* record_depth of the position.  Both are given back on the way up, and   *)
(* are therefore only passed down.                                         *)
(*                                                                         *)
(* Phrase(form, ctx, p) is the call of the parse function of a form: the   *)
(* functions call each other through it, and it is defined last.           *)
(***************************************************************************)
EXTENDS Lexer, Nodes

CONSTANTS MaxLong,           \* INT64_MAX
          MaxParseDepth,     \* PHP_CEDAR_MAX_PARSE_DEPTH
          MaxPolicies, MaxConditions, MaxAnnotations,
          MaxSetElements, MaxRecordEntries, MaxRecordDepth,
          MaxTypeParts, MaxBinopChain, MaxMemberChain

ASSUME LimitAssumption ==
  {MaxLong, MaxParseDepth, MaxPolicies, MaxConditions, MaxAnnotations, MaxSetElements,
   MaxRecordEntries, MaxRecordDepth, MaxTypeParts, MaxBinopChain, MaxMemberChain} \subseteq Nat \ {0}

TokenType(ctx, p) == IF p \in DOMAIN ctx.toks THEN ctx.toks[p].type ELSE "error"
TokenValue(ctx, p) == ctx.toks[p].value

Fail == [pos |-> 0, node |-> NoNode]
Parsed(p, node) == IF p = 0 THEN Fail ELSE [pos |-> p, node |-> node]

\* php_cedar_parser_expect: the position behind a token of this type.
Expect(ctx, p, type) == IF TokenType(ctx, p) = type THEN p + 1 ELSE 0

Deeper(ctx) == [ctx EXCEPT !.depth = @ + 1]

(***************************************************************************)
(* php_cedar_token_is_ident: the constructors of extension values are      *)
(* names of attributes too.                                                *)
(***************************************************************************)
Constructors == {"ip", "decimal", "datetime", "duration"}

ParseIdent(ctx, p) ==
  IF TokenType(ctx, p) \in {"ident"} \cup Constructors THEN Parsed(p + 1, TokenValue(ctx, p)) ELSE Fail

\* php_cedar_parser_consume_attr_name_string: a string without `\*`.
ParseString(ctx, p) ==
  IF TokenType(ctx, p) = "string" /\ ~ctx.toks[p].star THEN Parsed(p + 1, TokenValue(ctx, p)) ELSE Fail

ParseName(ctx, p) == IF TokenType(ctx, p) = "string" THEN ParseString(ctx, p) ELSE ParseIdent(ctx, p)

(***************************************************************************)
(* php_cedar_parse_long and php_cedar_parse_neg_long: the digits of a      *)
(* number, counted down when it is negative, which reaches -MaxLong - 1.   *)
(***************************************************************************)
TooLong == -MaxLong - 2

ParseLong(digits) ==
  FoldLeft(LAMBDA val, c : IF val = TooLong \/ val > (MaxLong - (c - Zero)) \div 10 THEN TooLong
                           ELSE val * 10 + (c - Zero), 0, digits)

ParseNegLong(digits) ==
  FoldLeft(LAMBDA val, c : IF val = TooLong \/ -val > (MaxLong + 1 - (c - Zero)) \div 10 THEN TooLong
                           ELSE val * 10 - (c - Zero), 0, digits)

LongNode(p, n) == IF n = TooLong THEN Fail ELSE Parsed(p, Lit([t |-> "long", n |-> n]))
-----------------------------------------------------------------------------
(***************************************************************************)
(* php_cedar_parser_append_type_segment, php_cedar_parse_type_name and     *)
(* php_cedar_parse_entity_ref_with_ident.                                  *)
(***************************************************************************)
RECURSIVE Segments(_, _, _, _)
Segments(ctx, p, name, parts) ==
  IF TokenType(ctx, p) # "coloncolon" \/ TokenType(ctx, p + 1) # "ident" THEN Parsed(p, name)
  ELSE IF parts = MaxTypeParts THEN Fail
  ELSE Segments(ctx, p + 2, name \o <<Colon, Colon>> \o TokenValue(ctx, p + 1), parts + 1)

ParsePath(ctx, p) ==
  IF TokenType(ctx, p) = "ident" THEN Segments(ctx, p + 1, TokenValue(ctx, p), 1) ELSE Fail

Complete(ctx, path) == IF TokenType(ctx, path.pos) = "coloncolon" THEN Fail ELSE path

ParseTypeName(ctx, p) == Complete(ctx, ParsePath(ctx, p))

EntityRef(path, id) == Parsed(id.pos, EntityNode([type |-> path.node, id |-> id.node]))

ParseEntityRef(ctx, p) ==
  LET path == ParsePath(ctx, p)
  IN  EntityRef(path, ParseString(ctx, Expect(ctx, path.pos, "coloncolon")))
-----------------------------------------------------------------------------
RECURSIVE Phrase(_, _, _)
RECURSIVE SetFrom(_, _, _)
RECURSIVE SetFromLenient(_, _, _)
RECURSIVE RecordFrom(_, _, _)

\* Variant: a comma after the last element is read and forgotten.
SetFromLenient(ctx, p, elts) ==
  LET elem  == Phrase("expr", ctx, p)
      grown == Append(elts, elem.node)
  IN  IF TokenType(ctx, p) = "rbracket" THEN Parsed(p + 1, SetNode(elts))
      ELSE IF TokenType(ctx, elem.pos) # "comma"
      THEN Parsed(Expect(ctx, elem.pos, "rbracket"), SetNode(grown))
      ELSE IF Len(grown) = MaxSetElements THEN Fail
      ELSE SetFromLenient(ctx, elem.pos + 1, grown)

(***************************************************************************)
(* php_cedar_parse_set_literal, behind the bracket: no comma after the     *)
(* last element.                                                           *)
(***************************************************************************)
SetFrom(ctx, p, elts) ==
  LET elem  == Phrase("expr", ctx, p)
      grown == Append(elts, elem.node)
  IN  IF TokenType(ctx, elem.pos) # "comma"
      THEN Parsed(Expect(ctx, elem.pos, "rbracket"), SetNode(grown))
      ELSE IF Len(grown) = MaxSetElements THEN Fail
      ELSE SetFrom(ctx, elem.pos + 1, grown)

ParseSet(ctx, p) ==
  IF TokenType(ctx, p) = "rbracket" THEN Parsed(p + 1, SetNode(<<>>)) ELSE SetFrom(ctx, p, <<>>)

\* Variant: keys may repeat, and the first one hides the others.
RepeatsNever(entries, key) == FALSE

Repeats(entries, key) == \E k \in DOMAIN entries : entries[k].key = key

(***************************************************************************)
(* php_cedar_parse_record_literal, behind the brace: a comma after the     *)
(* last entry is allowed, a key that repeats is not.                       *)
(***************************************************************************)
PutEntry(ctx, entries, key, value) ==
  LET grown == Append(entries, [key |-> key.node, value |-> value.node])
  IN  IF Len(entries) = MaxRecordEntries \/ Repeats(entries, key.node) THEN Fail
      ELSE IF TokenType(ctx, value.pos) # "comma"
      THEN Parsed(Expect(ctx, value.pos, "rbrace"), RecordNode(grown))
      ELSE IF TokenType(ctx, value.pos + 1) = "rbrace" THEN Parsed(value.pos + 2, RecordNode(grown))
      ELSE RecordFrom(ctx, value.pos + 1, grown)

RecordFrom(ctx, p, entries) ==
  LET key == ParseName(ctx, p)
  IN  PutEntry(ctx, entries, key, Phrase("expr", ctx, Expect(ctx, key.pos, "colon")))

ParseRecord(ctx, p) ==
  LET inside == [ctx EXCEPT !.records = @ + 1]
  IN  IF inside.records > MaxRecordDepth THEN Fail
      ELSE IF TokenType(ctx, p) = "rbrace" THEN Parsed(p + 1, RecordNode(<<>>))
      ELSE RecordFrom(inside, p, <<>>)

\* ip("..."), decimal("..."), datetime("...") and duration("...")
ParseConstructor(ctx, p) ==
  LET text == ParseString(ctx, Expect(ctx, p + 1, "lparen"))
  IN  Parsed(Expect(ctx, text.pos, "rparen"),
             [op |-> "ext", type |-> TokenType(ctx, p), text |-> text.node])

(***************************************************************************)
(* php_cedar_parse_primary                                                 *)
(***************************************************************************)
Variables == {"principal", "action", "resource", "context"}

ParsePrimary(ctx, p) ==
  LET type  == TokenType(ctx, p)
      inner == Phrase("expr", ctx, p + 1)
      text  == ParseString(ctx, p)
  IN  CASE type \in {"true", "false"} -> Parsed(p + 1, Lit([t |-> "bool", b |-> type = "true"]))
        [] type = "number"            -> LongNode(p + 1, ParseLong(TokenValue(ctx, p)))
        [] type = "string"            -> Parsed(text.pos, Lit([t |-> "string", s |-> text.node]))
        [] type \in Variables         -> Parsed(p + 1, Var(type))
        [] type \in Constructors      -> ParseConstructor(ctx, p)
        [] type = "ident"             -> ParseEntityRef(ctx, p)
        [] type = "lparen"            -> Parsed(Expect(ctx, inner.pos, "rparen"), inner.node)
        [] type = "lbracket"          -> Phrase("set", ctx, p + 1)
        [] type = "lbrace"            -> ParseRecord(ctx, p + 1)
        [] OTHER                      -> Fail

(***************************************************************************)
(* php_cedar_parse_bracket_step, php_cedar_parse_dot_step and              *)
(* php_cedar_parse_member_expr: what follows a primary, step by step.      *)
(***************************************************************************)
BracketStep(ctx, object) ==
  LET key == ParseString(ctx, object.pos + 1)
  IN  IF key.node = <<>> THEN Fail
      ELSE Parsed(Expect(ctx, key.pos, "rbracket"), AttrNode(object.node, key.node))

DotStep(ctx, object) ==
  LET name == ParseIdent(ctx, object.pos + 1)
      arg  == Phrase("expr", ctx, name.pos + 1)
  IN  IF name = Fail THEN Fail
      ELSE IF TokenType(ctx, name.pos) # "lparen"
      THEN Parsed(name.pos, AttrNode(object.node, name.node))
      ELSE IF TokenType(ctx, name.pos + 1) = "rparen"
      THEN Parsed(name.pos + 2, CallNode(object.node, name.node, NoNode))
      ELSE Parsed(Expect(ctx, arg.pos, "rparen"), CallNode(object.node, name.node, arg.node))

RECURSIVE MemberFrom(_, _, _)
MemberFrom(ctx, object, chain) ==
  IF TokenType(ctx, object.pos) \notin {"dot", "lbracket"} THEN object
  ELSE IF chain = MaxMemberChain THEN Fail
  ELSE MemberFrom(ctx, IF TokenType(ctx, object.pos) = "dot" THEN DotStep(ctx, object)
                       ELSE BracketStep(ctx, object), chain + 1)

ParseMember(ctx, p) == MemberFrom(ctx, ParsePrimary(ctx, p), 0)

(***************************************************************************)
(* php_cedar_parse_unary_expr: a minus and a number are one literal.       *)
(***************************************************************************)
ParseUnary(ctx, p) ==
  LET operand == Phrase("unary", Deeper(ctx), p + 1)
  IN  IF TokenType(ctx, p) \notin {"minus", "not"} THEN ParseMember(ctx, p)
      ELSE IF TokenType(ctx, p) = "minus" /\ TokenType(ctx, p + 1) = "number"
      THEN LongNode(p + 2, ParseNegLong(TokenValue(ctx, p + 1)))
      ELSE IF ctx.depth = MaxParseDepth THEN Fail
      ELSE Parsed(operand.pos, UnNode(IF TokenType(ctx, p) = "not" THEN "not" ELSE "neg", operand.node))

(***************************************************************************)
(* php_cedar_parse_relation_expr: at most one relation.                    *)
(***************************************************************************)
Relations == {"eq", "ne", "in", "lt", "gt", "le", "ge"}

ParseIs(ctx, object, p) ==
  LET type   == ParseTypeName(ctx, p)
      within == Phrase("add", ctx, type.pos + 1)
  IN  IF TokenType(ctx, type.pos) = "in" THEN Parsed(within.pos, IsNode(object, type.node, within.node))
      ELSE Parsed(type.pos, IsNode(object, type.node, NoNode))

ParseLike(ctx, object, p) ==
  LET pattern == CompilePattern(ctx.toks[p].raw)
  IN  IF TokenType(ctx, p) # "string" \/ pattern = BadPattern THEN Fail
      ELSE Parsed(p + 1, LikeNode(object, pattern))

ParseRelation(ctx, p) ==
  LET left  == Phrase("add", ctx, p)
      op    == TokenType(ctx, left.pos)
      next  == left.pos + 1
      attr  == ParseName(ctx, next)
      right == Phrase("add", ctx, next)
  IN  CASE op = "has"       -> Parsed(attr.pos, HasNode(left.node, attr.node))
        [] op = "is"        -> ParseIs(ctx, left.node, next)
        [] op = "like"      -> ParseLike(ctx, left.node, next)
        [] op \in Relations -> Parsed(right.pos, BinNode(op, left.node, right.node))
        [] OTHER            -> left

(***************************************************************************)
(* php_cedar_parse_or_expr, _and_expr, _add_expr and _mult_expr: operands  *)
(* of the next tighter level, joined from the left.                        *)
(***************************************************************************)
Operators == [or   |-> [or |-> "or"], and |-> [and |-> "and"],
              add  |-> [plus |-> "add", minus |-> "sub"], mult |-> [star |-> "mul"]]

Tighter == [or |-> "and", and |-> "relation", add |-> "mult", mult |-> "unary"]

RECURSIVE ChainFrom(_, _, _, _)

\* Variant: a chain is joined from the right.
ChainFromRight(level, ctx, left, chain) ==
  LET op    == TokenType(ctx, left.pos)
      right == Phrase(level, ctx, left.pos + 1)
  IN  IF op \notin DOMAIN Operators[level] THEN left
      ELSE Parsed(right.pos, BinNode(Operators[level][op], left.node, right.node))

ChainFrom(level, ctx, left, chain) ==
  LET op    == TokenType(ctx, left.pos)
      right == Phrase(Tighter[level], ctx, left.pos + 1)
  IN  IF op \notin DOMAIN Operators[level] THEN left
      ELSE IF chain = MaxBinopChain THEN Fail
      ELSE ChainFrom(level, ctx, Parsed(right.pos, BinNode(Operators[level][op], left.node, right.node)),
                     chain + 1)

ParseLevel(level, ctx, p) == ChainFrom(level, ctx, Phrase(Tighter[level], ctx, p), 0)

(***************************************************************************)
(* php_cedar_parse_expr                                                    *)
(***************************************************************************)
ParseIf(ctx, p) ==
  LET cond == Phrase("expr", ctx, p)
      then == Phrase("expr", ctx, Expect(ctx, cond.pos, "then"))
      else == Phrase("expr", ctx, Expect(ctx, then.pos, "else"))
  IN  Parsed(else.pos, IfNode(cond.node, then.node, else.node))

ParseExpr(ctx, p) ==
  IF ctx.depth = MaxParseDepth THEN Fail
  ELSE IF TokenType(ctx, p) = "if" THEN ParseIf(Deeper(ctx), p + 1)
  ELSE Phrase("or", Deeper(ctx), p)
-----------------------------------------------------------------------------
(***************************************************************************)
(* php_cedar_parse_scope.  Only an action can be in a set, which then has  *)
(* entities only, and only an action has no type.                          *)
(***************************************************************************)
ScopeOf(constraint, type, targets) == [type |-> type, constraint |-> constraint, targets |-> targets]

\* php_cedar_parser_validate_scope_set
AllEntities(set) == \A k \in DOMAIN set.elts : set.elts[k].op = "entity"

ParseActionSet(ctx, p) ==
  LET set == Phrase("set", ctx, p)
  IN  IF set = Fail \/ ~AllEntities(set.node) THEN Fail
      ELSE Parsed(set.pos, ScopeOf("in", <<>>, {set.node.elts[k].uid : k \in DOMAIN set.node.elts}))

ParseTarget(ctx, p, constraint, type) ==
  LET target == ParseEntityRef(ctx, p)
  IN  IF target = Fail THEN Fail ELSE Parsed(target.pos, ScopeOf(constraint, type, {target.node.uid}))

ParseScopeType(ctx, p) ==
  LET type == ParseTypeName(ctx, p)
  IN  IF TokenType(ctx, type.pos) = "in" THEN ParseTarget(ctx, type.pos + 1, "is_in", type.node)
      ELSE Parsed(type.pos, ScopeOf("is", type.node, {}))

ParseScope(ctx, p, slot) ==
  LET q  == Expect(ctx, p, slot)
      op == TokenType(ctx, q)
  IN  CASE op = "eq" -> ParseTarget(ctx, q + 1, "eq", <<>>)
        [] op = "in" -> IF slot = "action" /\ TokenType(ctx, q + 1) = "lbracket"
                        THEN ParseActionSet(ctx, q + 2) ELSE ParseTarget(ctx, q + 1, "in", <<>>)
        [] op = "is" -> IF slot = "action" THEN Fail ELSE ParseScopeType(ctx, q + 1)
        [] OTHER     -> Parsed(q, ScopeOf("none", <<>>, {}))

(***************************************************************************)
(* php_cedar_parse_condition and the conditions of a policy.               *)
(***************************************************************************)
RECURSIVE ConditionsFrom(_, _, _)
ConditionsFrom(ctx, p, conditions) ==
  LET expr == Phrase("expr", ctx, Expect(ctx, p + 1, "lbrace"))
  IN  IF TokenType(ctx, p) \notin {"when", "unless"} THEN Parsed(p, conditions)
      ELSE IF Len(conditions) = MaxConditions THEN Fail
      ELSE ConditionsFrom(ctx, Expect(ctx, expr.pos, "rbrace"),
                          Append(conditions, [isUnless |-> TokenType(ctx, p) = "unless", expr |-> expr.node]))

(***************************************************************************)
(* php_cedar_parse_annotations: a name, alone or with a string.            *)
(***************************************************************************)
ParseAnnotation(ctx, p) ==
  LET key   == ParseIdent(ctx, p)
      value == ParseString(ctx, key.pos + 1)
  IN  IF key = Fail THEN Fail
      ELSE IF TokenType(ctx, key.pos) # "lparen" THEN Parsed(key.pos, [key |-> key.node, value |-> <<>>])
      ELSE Parsed(Expect(ctx, value.pos, "rparen"), [key |-> key.node, value |-> value.node])

RECURSIVE AnnotationsFrom(_, _, _)
AnnotationsFrom(ctx, p, annotations) ==
  LET one == Phrase("annotation", ctx, p + 1)
  IN  IF TokenType(ctx, p) # "at" THEN Parsed(p, annotations)
      ELSE IF Len(annotations) = MaxAnnotations \/ one = Fail THEN Fail
      ELSE IF Repeats(annotations, one.node.key) THEN Fail
      ELSE AnnotationsFrom(ctx, one.pos, Append(annotations, one.node))

(***************************************************************************)
(* php_cedar_parse_policy                                                  *)
(***************************************************************************)
PolicyBody(ctx, p) ==
  LET annotations == Phrase("annotations", ctx, p)
      effect      == annotations.pos
      principal   == Phrase("principal", ctx, Expect(ctx, effect + 1, "lparen"))
      action      == Phrase("action", ctx, Expect(ctx, principal.pos, "comma"))
      resource    == Phrase("resource", ctx, Expect(ctx, action.pos, "comma"))
      conditions  == Phrase("conditions", ctx, Expect(ctx, resource.pos, "rparen"))
  IN  IF TokenType(ctx, effect) \notin {"permit", "forbid"} THEN Fail
      ELSE Parsed(conditions.pos,
                  [annotations |-> annotations.node,
                   isForbid    |-> TokenType(ctx, effect) = "forbid",
                   scope       |-> [principal |-> principal.node, action |-> action.node,
                                    resource |-> resource.node],
                   conditions  |-> conditions.node])

\* Variant: the last policy needs no semicolon.
ParsePolicyLenient(ctx, p) ==
  LET body == Phrase("body", ctx, p)
  IN  IF TokenType(ctx, body.pos) = "eof" THEN body
      ELSE Parsed(Expect(ctx, body.pos, "semicolon"), body.node)

ParsePolicy(ctx, p) ==
  LET body == Phrase("body", ctx, p)
  IN  Parsed(Expect(ctx, body.pos, "semicolon"), body.node)

(***************************************************************************)
(* php_cedar_parse: policies up to the end of the text.                    *)
(***************************************************************************)
RECURSIVE PoliciesFrom(_, _, _)
PoliciesFrom(ctx, p, policies) ==
  LET policy == Phrase("policy", ctx, p)
  IN  IF TokenType(ctx, p) \in {"permit", "forbid", "at"}
      THEN IF Len(policies) = MaxPolicies \/ policy = Fail THEN Fail
           ELSE PoliciesFrom(ctx, policy.pos, Append(policies, policy.node))
      ELSE IF TokenType(ctx, p) = "eof" THEN Parsed(p, policies) ELSE Fail

Phrase(form, ctx, p) ==
  CASE form \in DOMAIN Tighter -> ParseLevel(form, ctx, p)
    [] form \in {"principal", "action", "resource"} -> ParseScope(ctx, p, form)
    [] form = "policies"    -> PoliciesFrom(ctx, p, <<>>)
    [] form = "policy"      -> ParsePolicy(ctx, p)
    [] form = "body"        -> PolicyBody(ctx, p)
    [] form = "annotations" -> AnnotationsFrom(ctx, p, <<>>)
    [] form = "annotation"  -> ParseAnnotation(ctx, p)
    [] form = "conditions"  -> ConditionsFrom(ctx, p, <<>>)
    [] form = "expr"        -> ParseExpr(ctx, p)
    [] form = "relation"    -> ParseRelation(ctx, p)
    [] form = "unary"       -> ParseUnary(ctx, p)
    [] form = "set"         -> ParseSet(ctx, p)

Context(toks) == [toks |-> toks, depth |-> 0, records |-> 0]

Parse(toks) == Phrase("policies", Context(toks), 1)
=============================================================================
