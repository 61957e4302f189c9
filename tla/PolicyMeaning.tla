--------------------------- MODULE PolicyMeaning ----------------------------
(***************************************************************************)
(* A policy text, parsed, and what its policy means for a request: the     *)
(* parser, the expression evaluator and the matching of policies composed. *)
(* Two kinds of input more:                                                *)
(*                                                                         *)
(*   "request"  a policy text, piece by piece, and an evaluation context   *)
(*   "sum"      a sum of ones, written longer and longer                   *)
(***************************************************************************)
EXTENDS ParserLaws

CONSTANTS
  FracDigits, HoursPerDay, MinutesPerHour, SecondsPerMinute, MsDigits, ByteBits, Octets,
  Groups, MaxIpText, MaxEqualsDepth, MaxEqualsElts, Loopback4, Multicast4, Loopback6,
  Multicast6, MaxEvalDepth,  \* the widths and limits of the evaluator
  Contexts, MaxTerms

Eval == INSTANCE Expressions

(***************************************************************************)
(* php_cedar_expr_eval as php_cedar_condition_matches calls it: the        *)
(* attributes of an evaluation context are arrays.                         *)
(***************************************************************************)
AsArrays(c) == [c EXCEPT !.attrs = [home \in DOMAIN @ |-> SetToSeq(@[home])]]

OutcomeOf(v) ==
  CASE v.t = "error"       -> "error"
    [] v.t = "bool" /\ v.b -> "true"
    [] v.t = "bool"        -> "false"
    [] OTHER               -> "nonbool"

Outcome(expr, c) == OutcomeOf(Eval!ExprEval(expr, AsArrays(c), 0))

\* Matching enumerates no names, types or values, and sees nothing of stores and responses.
Match == INSTANCE Evaluator WITH
  ExprEval <- Outcome, Expr <- {}, EntityType <- {}, EntityId <- {}, PolicyId <- {},
  Name <- {}, Value <- {}, StoreId <- {}, NoStoreId <- "none", NoValue <- "none",
  NoName <- "none", BadUid <- "none", ContextMap <- "none"

Verdict(read) ==
  CASE read = Fail                                  -> "refused"
    [] Match!PolicyMatches(read.node[1], input.ctx) -> "applies"
    [] OTHER                                        -> "does not apply"

Means(text) == Verdict(ReadText(text))

\* One wording is refused, for a limit it exceeds, or means the same as the other.
SameMeaning(one, other) == one \in {"refused", other}

MeaningInit ==
  \/ kind = "request" /\ input \in [policies : {<<>>}, written : {0}, ctx : Contexts]

MeaningNext == kind = "request" /\ WritePiece
-----------------------------------------------------------------------------
Policy1 == input.policies[1]

\* The policy with the constraints of its scope as conditions, in the same words.
AsCondition(slot) == Mark("when") \o Braces(ScopeText(slot, Policy1.scope[slot]))

Constrained == SetToSeq({slot \in Slots : Policy1.scope[slot].constraint # "none"})

WithoutScope ==
  LET plain == PolicyText([Policy1 EXCEPT !.scope = [slot \in Slots |-> Anything]])
  IN  Front(plain) \o Each(AsCondition, Constrained) \o Mark("semicolon")

(***************************************************************************)
(* A constraint in the scope means what the same words mean in a `when`:   *)
(* the scope has its own == , in, is and is-in, on the request's entities, *)
(* and the expressions have theirs, on values.                             *)
(* (php_cedar_scope_matches, php_cedar_eval_in, php_cedar_eval_is_check)   *)
(***************************************************************************)
ScopeIsCondition ==
  kind = "request" /\ input.policies # <<>> =>
    SameMeaning(Means(PolicyText(Policy1)), Means(WithoutScope))

(***************************************************************************)
(* The conditions of a policy are one `when` of their conjunction, an      *)
(* `unless` negated, also when some of them are errors or no booleans.     *)
(* (php_cedar_condition_matches, php_cedar_policy_matches)                 *)
(***************************************************************************)
Positive(condition) ==
  IF condition.isUnless THEN UnNode("not", condition.expr) ELSE condition.expr

Conjunction(conditions) ==
  FoldLeft(LAMBDA e, c : BinNode("and", e, Positive(c)), Positive(Head(conditions)),
           Tail(conditions))

ConditionsConjoin ==
  kind = "request" /\ input.policies # <<>> /\ Policy1.conditions # <<>> =>
    LET joined == <<[isUnless |-> FALSE, expr |-> Conjunction(Policy1.conditions)]>>
    IN  SameMeaning(Means(PolicyText(Policy1)),
                    Means(PolicyText([Policy1 EXCEPT !.conditions = joined])))

(***************************************************************************)
(* A policy that is worded otherwise applies to the same requests.         *)
(* (php_cedar_policy_matches)                                              *)
(***************************************************************************)
RewordingIsIdle == ScopeIsCondition /\ ConditionsConjoin
-----------------------------------------------------------------------------
\* Ones, added, subtracted or multiplied.
SumInit == kind = "sum" /\ input \in [terms : {1}, sign : {"plus", "minus", "star"}]

WriteTerm ==
  /\ kind = "sum" /\ input.terms < MaxTerms
  /\ input' = [input EXCEPT !.terms = @ + 1]
  /\ UNCHANGED kind

SumText == Join([k \in 1 .. input.terms |-> NumberOf(1)], Mark(input.sign))

Nobody == [uid     |-> [slot \in Slots |-> [type |-> slot, id |-> slot]],
           parents |-> [slot \in Slots |-> {}],
           attrs   |-> [home \in Slots \cup {"context"} |-> <<>>]]

(***************************************************************************)
(* "any AST the parser accepts evaluates without spuriously hitting the    *)
(* cap" (php_cedar_types.h, on PHP_CEDAR_MAX_EVAL_DEPTH): what the parser  *)
(* accepts has the value it has without the cap.                           *)
(***************************************************************************)
\* A sum has as many levels as terms: counted from here, its depth stays under the cap.
EvaluatesUncut(read) ==
  LET uncut == MaxEvalDepth - MaxTerms - 1
  IN  read # Fail =>
        Eval!ExprEval(read.node, Nobody, 0) = Eval!ExprEval(read.node, Nobody, uncut)

AcceptedEvaluates == kind = "sum" => EvaluatesUncut(ReadExpr(SumText))
=============================================================================
