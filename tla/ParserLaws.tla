----------------------------- MODULE ParserLaws -----------------------------
(***************************************************************************)
(* What is written down and parsed.  A behaviour has input of one kind,    *)
(* which its steps make longer:                                            *)
(*                                                                         *)
(*   "expression"  a node at a time, around or beside the leaves           *)
(*   "tokens"      a token at a time, which is mostly no expression        *)
(*   "policies"    policies with annotations, scopes and conditions, some  *)
(*                 of which Cedar does not allow                           *)
(*                                                                         *)
(* A scope is written in a form, with the nodes it names and a type.       *)
(***************************************************************************)
EXTENDS Parser

CONSTANTS Leaves,       \* the expressions to start from
          Operands,     \* the expressions to combine with
          Name, QuotedName, TypeName, MaxNodes,
          Alphabet, MaxTokens,
          Forms,        \* the scopes to write
          Annotations,  \* the annotations to write
          Expressions,  \* the conditions to write
          MaxWritten    \* the pieces of a text

VARIABLES kind, input
-----------------------------------------------------------------------------
(***************************************************************************)
(* How an author writes an expression down: Written(e) is its tokens, with *)
(* parentheses only where the grammar of Cedar needs them, and Fits(e)     *)
(* says whether it keeps the limits of php_cedar_types.h.                  *)
(***************************************************************************)
Token(type, value, raw) == [type |-> type, value |-> value, raw |-> raw, star |-> FALSE, end |-> 0]

Mark(type) == <<Token(type, <<>>, <<>>)>>
StringOf(s) == <<Token("string", s, s)>>

\* The names that are written without quotes.
IsName(s) == s # <<>> /\ s[1] \in IdentStart /\ Range(s) \subseteq IdentStart \cup Digits
NameOf(s) == <<Token(IF s \in DOMAIN Keywords THEN Keywords[s] ELSE "ident", s, s)>>
KeyOf(s) == IF IsName(s) THEN NameOf(s) ELSE StringOf(s)

RECURSIVE DigitsOf(_)
DigitsOf(n) == IF n < 10 THEN <<Zero + n>> ELSE Append(DigitsOf(n \div 10), Zero + (n % 10))
NumberOf(n) == <<Token("number", DigitsOf(n), DigitsOf(n))>>

Join(texts, separator) ==
  FlattenSeq([k \in DOMAIN texts |-> IF k = 1 THEN texts[k] ELSE separator \o texts[k]])

Parens(text) == Mark("lparen") \o text \o Mark("rparen")
Brackets(text) == Mark("lbracket") \o text \o Mark("rbracket")
Braces(text) == Mark("lbrace") \o text \o Mark("rbrace")

\* The identifiers of a type name.
Parts(name) ==
  FoldLeft(LAMBDA parts, c : IF c # Colon THEN Append(Front(parts), Append(Last(parts), c))
                             ELSE IF Last(parts) = <<>> THEN parts ELSE Append(parts, <<>>),
           <<<<>>>>, name)

TypeOf(name) == Join([k \in DOMAIN Parts(name) |-> NameOf(Parts(name)[k])], Mark("coloncolon"))
EntityOf(uid) == TypeOf(uid.type) \o Mark("coloncolon") \o StringOf(uid.id)

\* The pattern in which a star stands for itself.
RawOf(pattern) ==
  FlattenSeq([k \in DOMAIN pattern |-> CASE pattern[k] = Wild -> <<Star>>
                                         [] pattern[k] = Star -> <<Backslash, Star>>
                                         [] OTHER             -> <<pattern[k]>>])
-----------------------------------------------------------------------------
(***************************************************************************)
(* How tightly an expression binds, and what it is joined with.            *)
(***************************************************************************)
Joint == [or  |-> [level |-> 1, token |-> "or"],   and |-> [level |-> 2, token |-> "and"],
          add |-> [level |-> 4, token |-> "plus"], sub |-> [level |-> 4, token |-> "minus"],
          mul |-> [level |-> 5, token |-> "star"]]

Level(e) ==
  CASE e.op = "if"                                   -> 0
    [] e.op \in DOMAIN Joint                         -> Joint[e.op].level
    [] e.op \in Relations \cup {"has", "is", "like"} -> 3
    [] e.op \in {"not", "neg"}                       -> 6
    [] e.op = "lit"                                  -> IF e.value.t = "long" /\ e.value.n < 0 THEN 6 ELSE 8
    [] e.op \in {"attr", "call"}                     -> 7
    [] OTHER                                         -> 8

RECURSIVE Written(_)
Within(e, level) == IF Level(e) < level THEN Parens(Written(e)) ELSE Written(e)

\* `-5.a` would not be the negation of `5.a`.
StartsWithNumber(text) == text[1].type = "number"
Negated(e) == IF StartsWithNumber(Within(e, 6)) THEN Parens(Written(e)) ELSE Within(e, 6)

WrittenLiteral(v) ==
  CASE v.t = "bool"   -> Mark(IF v.b THEN "true" ELSE "false")
    [] v.t = "long"   -> IF v.n < 0 THEN Mark("minus") \o NumberOf(-v.n) ELSE NumberOf(v.n)
    [] v.t = "string" -> StringOf(v.s)

Written(e) ==
  CASE e.op = "lit"    -> WrittenLiteral(e.value)
    [] e.op = "var"    -> Mark(e.var)
    [] e.op = "ext"    -> Mark(e.type) \o Parens(StringOf(e.text))
    [] e.op = "entity" -> EntityOf(e.uid)
    [] e.op = "set"    -> Brackets(Join([k \in DOMAIN e.elts |-> Written(e.elts[k])], Mark("comma")))
    [] e.op = "record" -> Braces(Join([k \in DOMAIN e.entries |-> KeyOf(e.entries[k].key)
                                          \o Mark("colon") \o Written(e.entries[k].value)], Mark("comma")))
    [] e.op = "attr"   -> Within(e.object, 7) \o IF IsName(e.attr) THEN Mark("dot") \o NameOf(e.attr)
                                                 ELSE Brackets(StringOf(e.attr))
    [] e.op = "call"   -> Within(e.object, 7) \o Mark("dot") \o NameOf(e.method)
                            \o Parens(IF e.arg = NoNode THEN <<>> ELSE Written(e.arg))
    [] e.op = "not"    -> Mark("not") \o Within(e.operand, 6)
    [] e.op = "neg"    -> Mark("minus") \o Negated(e.operand)
    [] e.op = "has"    -> Within(e.object, 4) \o Mark("has") \o KeyOf(e.attr)
    [] e.op = "like"   -> Within(e.object, 4) \o Mark("like")
                            \o <<Token("string", <<>>, RawOf(e.pattern))>>
    [] e.op = "is"     -> Within(e.object, 4) \o Mark("is") \o TypeOf(e.type)
                            \o IF e.within = NoNode THEN <<>> ELSE Mark("in") \o Within(e.within, 4)
    [] e.op = "if"     -> Mark("if") \o Written(e.cond) \o Mark("then") \o Written(e.then)
                            \o Mark("else") \o Written(e.else)
    [] e.op \in Relations -> Within(e.left, 4) \o Mark(e.op) \o Within(e.right, 4)
    [] OTHER -> Within(e.left, Level(e)) \o Mark(Joint[e.op].token) \o Within(e.right, Level(e) + 1)
-----------------------------------------------------------------------------
(***************************************************************************)
(* The limits that the text of an expression has to keep: what is joined   *)
(* by operators of one level, the steps behind a primary, the elements,    *)
(* and how deep brackets, branches and unary operators are nested.         *)
(***************************************************************************)
Highest(depths) == FoldLeft(LAMBDA high, d : IF d > high THEN d ELSE high, 0, depths)

RECURSIVE Chain(_, _)
Chain(e, level) == IF Level(e) = level THEN 1 + Chain(e.left, level) ELSE 0

RECURSIVE Steps(_)
Steps(e) == IF e.op \in {"attr", "call"} THEN 1 + Steps(e.object) ELSE 0

RECURSIVE Records(_)
Records(e) ==
  (IF e.op = "record" THEN 1 ELSE 0) + Highest([k \in DOMAIN Children(e) |-> Records(Children(e)[k])])

\* How deep e is nested where a level is required, counting its own parentheses.
RECURSIVE Nesting(_, _)
Nesting(e, level) ==
  LET In(l) == Highest([k \in DOMAIN Children(e) |-> Nesting(Children(e)[k], l)])
      inside ==
        CASE e.op \in {"set", "record", "if"} -> IF Children(e) = <<>> THEN 0 ELSE 1 + In(0)
          [] e.op = "call" -> LET arg == IF e.arg = NoNode THEN 0 ELSE 1 + Nesting(e.arg, 0)
                              IN  Highest(<<Nesting(e.object, 7), arg>>)
          [] e.op = "attr" -> In(7)
          [] e.op = "not"  -> 1 + In(6)
          [] e.op = "neg"  -> IF StartsWithNumber(Within(e.operand, 6)) THEN 2 + In(0) ELSE 1 + In(6)
          [] e.op \in DOMAIN Joint -> Highest(<<Nesting(e.left, Level(e)), Nesting(e.right, Level(e) + 1)>>)
          [] OTHER -> In(4)
  IN  inside + IF Level(e) < level THEN 1 ELSE 0

RECURSIVE KeepsCounts(_)
KeepsCounts(e) ==
  /\ e.op \in DOMAIN Joint => Chain(e, Level(e)) <= MaxBinopChain
  /\ Steps(e) <= MaxMemberChain
  /\ e.op = "set" => Len(e.elts) <= MaxSetElements
  /\ e.op = "record" => Len(e.entries) <= MaxRecordEntries
  /\ e.op = "is" => Len(Parts(e.type)) <= MaxTypeParts
  /\ e.op = "entity" => Len(Parts(e.uid.type)) <= MaxTypeParts
  /\ \A k \in DOMAIN Children(e) : KeepsCounts(Children(e)[k])

Fits(e) == KeepsCounts(e) /\ Records(e) <= MaxRecordDepth /\ Nesting(e, 0) + 1 <= MaxParseDepth
-----------------------------------------------------------------------------
Entry(key, value) == [key |-> key, value |-> value]

Alone(e) ==
  {AttrNode(e, Name), AttrNode(e, QuotedName), HasNode(e, Name), HasNode(e, QuotedName),
   UnNode("not", e), UnNode("neg", e), IsNode(e, TypeName, NoNode),
   LikeNode(e, <<Star, Wild>>), SetNode(<<e>>), RecordNode(<<Entry(QuotedName, e)>>),
   CallNode(e, Name, NoNode)}

Beside(e, o) ==
  {BinNode(op, e, o) : op \in DOMAIN Joint \cup {"eq", "in"}} \cup
  {BinNode(op, o, e) : op \in DOMAIN Joint \cup {"lt"}} \cup
  {SetNode(<<e, o>>), SetNode(<<o, e, o>>), RecordNode(<<Entry(Name, e), Entry(QuotedName, o)>>),
   IsNode(o, TypeName, e), IfNode(e, o, o), IfNode(o, e, o), IfNode(o, o, e), CallNode(o, Name, e)}

Grow ==
  /\ kind = "expression" /\ input.nodes < MaxNodes
  /\ \E e \in Alone(input.expr) \cup UNION {Beside(input.expr, o) : o \in Operands} :
       input' = [input EXCEPT !.expr = e, !.nodes = @ + 1]
  /\ UNCHANGED kind

WriteToken ==
  /\ kind = "tokens" /\ Len(input.text) < MaxTokens
  /\ \E t \in Alphabet : input' = [input EXCEPT !.text = Append(@, t)]
  /\ UNCHANGED kind
-----------------------------------------------------------------------------
Form(constraint, type, elts) == [type |-> type, constraint |-> constraint, elts |-> elts]
Anything == Form("none", <<>>, <<>>)
Slots == {"principal", "action", "resource"}

Rewrite(policies) ==
  /\ input.written < MaxWritten
  /\ input' = [input EXCEPT !.policies = policies, !.written = @ + 1]
  /\ UNCHANGED kind

WritePolicy(isForbid) ==
  Rewrite(Append(input.policies, [annotations |-> <<>>, isForbid |-> isForbid,
                                  scope |-> [slot \in Slots |-> Anything], conditions |-> <<>>]))

\* The last policy gets a piece more.
Add(field, piece) ==
  /\ input.policies # <<>>
  /\ Rewrite([input.policies EXCEPT ![Len(input.policies)][field] = Append(@, piece)])

WriteScope(slot, form) ==
  /\ input.policies # <<>>
  /\ Last(input.policies).scope[slot] = Anything
  /\ Rewrite([input.policies EXCEPT ![Len(input.policies)].scope[slot] = form])

WritePiece ==
  \/ \E isForbid \in BOOLEAN : WritePolicy(isForbid)
  \/ \E slot \in Slots, form \in Forms : WriteScope(slot, form)
  \/ \E annotation \in Annotations : Add("annotations", annotation)
  \/ \E isUnless \in BOOLEAN, e \in Expressions :
       Add("conditions", [isUnless |-> isUnless, expr |-> e])

ParserInit ==
  \/ kind = "expression" /\ input \in [expr : Leaves, nodes : {0}]
  \/ kind = "tokens" /\ input = [text |-> <<>>]
  \/ kind = "policies" /\ input = [policies |-> <<>>, written |-> 0]

ParserNext == Grow \/ WriteToken \/ (kind = "policies" /\ WritePiece)
-----------------------------------------------------------------------------
(***************************************************************************)
(* An expression that is written with no more parentheses than it needs is *)
(* read back as itself, however its operators are mixed, and it is refused *)
(* exactly if it is beyond a limit.                                        *)
(* (php_cedar_parse_expr and what it calls)                                *)
(***************************************************************************)
ReadExpr(tokens) == Phrase("expr", Context(tokens \o Mark("eof")), 1)

ReadsAs(tokens, expr) ==
  ReadExpr(tokens) = IF Fits(expr) THEN Parsed(Len(tokens) + 1, expr) ELSE Fail

ExpressionsReadBack == kind = "expression" => ReadsAs(Written(input.expr), input.expr)

(***************************************************************************)
(* No token of an expression that is accepted is passed over or made up:   *)
(* the expression, written down again, differs in its parentheses only.    *)
(* (php_cedar_parse_expr and what it calls)                                *)
(***************************************************************************)
Bare(tokens) == SelectSeq(tokens, LAMBDA t : t.type \notin {"lparen", "rparen"})

Keeps(tokens, read) == read.pos = Len(tokens) + 1 => Bare(tokens) = Bare(Written(read.node))

TokensKept == kind = "tokens" => Keeps(input.text, ReadExpr(input.text))
-----------------------------------------------------------------------------
ScopeText(slot, form) ==
  LET target == Written(form.elts[1])
      type   == TypeOf(form.type)
      IsType == Mark("is") \o type
  IN  Mark(slot) \o
      CASE form.constraint = "none"   -> <<>>
        [] form.constraint = "eq"     -> Mark("eq") \o target
        [] form.constraint = "in"     -> Mark("in") \o target
        [] form.constraint = "in_set" -> Mark("in") \o Written(SetNode(form.elts))
        [] form.constraint = "is"     -> IsType
        [] form.constraint = "is_in"  -> IsType \o Mark("in") \o target

\* An empty value needs no string.
AnnotationText(annotation) ==
  Mark("at") \o NameOf(annotation.key)
    \o IF annotation.value = <<>> THEN <<>> ELSE Parens(StringOf(annotation.value))

ConditionText(condition) ==
  Mark(IF condition.isUnless THEN "unless" ELSE "when") \o Braces(Written(condition.expr))

Each(Text(_), pieces) == FlattenSeq([k \in DOMAIN pieces |-> Text(pieces[k])])

PolicyText(policy) ==
  Each(AnnotationText, policy.annotations)
    \o Mark(IF policy.isForbid THEN "forbid" ELSE "permit")
    \o Parens(Join([k \in 1 .. 3 |->
                      LET slot == <<"principal", "action", "resource">>[k]
                      IN  ScopeText(slot, policy.scope[slot])], Mark("comma")))
    \o Each(ConditionText, policy.conditions) \o Mark("semicolon")

TextOf(policies) == Each(PolicyText, policies)
ReadText(tokens) == Parse(tokens \o Mark("eof"))
-----------------------------------------------------------------------------
(***************************************************************************)
(* What Cedar allows, and what the evaluator is handed for it.             *)
(***************************************************************************)
LegalScope(slot, form) ==
  /\ form.constraint \in {"is", "is_in"} => slot # "action"
  /\ form.constraint = "in_set" => slot = "action" /\ Len(form.elts) <= MaxSetElements
  /\ Len(Parts(form.type)) <= MaxTypeParts
  /\ \A k \in DOMAIN form.elts : form.elts[k].op = "entity" /\ KeepsCounts(form.elts[k])

Legal(policy) ==
  /\ \A slot \in Slots : LegalScope(slot, policy.scope[slot])
  /\ Len(policy.annotations) <= MaxAnnotations
  /\ IsInjective([k \in DOMAIN policy.annotations |-> policy.annotations[k].key])
  /\ Len(policy.conditions) <= MaxConditions
  /\ \A k \in DOMAIN policy.conditions : Fits(policy.conditions[k].expr)

ScopeRead(form) ==
  ScopeOf(IF form.constraint = "in_set" THEN "in" ELSE form.constraint, form.type,
          {form.elts[k].uid : k \in DOMAIN form.elts})

PolicyRead(policy) == [policy EXCEPT !.scope = [slot \in Slots |-> ScopeRead(@[slot])]]
PoliciesRead(policies) == [k \in DOMAIN policies |-> PolicyRead(policies[k])]

(***************************************************************************)
(* A text of policies that Cedar allows is read as these policies, with    *)
(* each piece in the policy it was written in, and any other is refused as *)
(* a whole.  (php_cedar_parse and what it calls)                           *)
(***************************************************************************)
AllLegal(policies) == Len(policies) <= MaxPolicies /\ \A k \in DOMAIN policies : Legal(policies[k])

IsReadAs(text, policies) ==
  ReadText(text) = IF AllLegal(policies) THEN Parsed(Len(text) + 1, PoliciesRead(policies)) ELSE Fail

PoliciesReadBack == kind = "policies" => IsReadAs(TextOf(input.policies), input.policies)

(***************************************************************************)
(* A text that is cut short, as by a read that ends early, is refused or   *)
(* misses whole policies from its end: no policy of it lost a condition or *)
(* a part of its scope.  (php_cedar_parse_policy, php_cedar_parse)         *)
(***************************************************************************)
MissesFromTheEnd(cut, policies) ==
  cut = Fail \/ \E k \in 0 .. Len(policies) - 1 : cut.node = SubSeq(policies, 1, k)

CutAnywhere(text, whole) ==
  whole # Fail =>
    \A n \in 0 .. Len(text) - 1 : MissesFromTheEnd(ReadText(SubSeq(text, 1, n)), whole.node)

NoneCutInside(text) == CutAnywhere(text, ReadText(text))

CutPoliciesRefused == kind = "policies" => NoneCutInside(TextOf(input.policies))

(***************************************************************************)
(* What is written is read back, and refused exactly beyond a limit.       *)
(* (php_cedar_parse_expr, php_cedar_parse)                                 *)
(***************************************************************************)
ReadsBack == ExpressionsReadBack /\ PoliciesReadBack

(***************************************************************************)
(* What is read is all that is written: no token is dropped inside a text, *)
(* and no part of a policy at its end.                                     *)
(* (php_cedar_parse_expr, php_cedar_parse)                                 *)
(***************************************************************************)
NothingLost == TokensKept /\ CutPoliciesRefused
=============================================================================
