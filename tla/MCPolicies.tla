----------------------------- MODULE MCPolicies -----------------------------
(***************************************************************************)
(* Expressions, tokens and policies for the laws of the parser, and        *)
(* policies and requests for what they mean.                               *)
(***************************************************************************)
EXTENDS ParserLaws

CONSTANTS
  FracDigits, HoursPerDay, MinutesPerHour, SecondsPerMinute, MsDigits, ByteBits, Octets,
  Groups, MaxIpText, MaxEqualsDepth, MaxEqualsElts, Loopback4, Multicast4, Loopback6,
  Multicast6, MaxEvalDepth, MaxTerms

\* "in" is a keyword and "ip" the name of a constructor.
A == <<97>>
B == <<98>>
IpName == <<105, 112>>
MCKeywords == <<105, 110>> :> "in" @@ IpName :> "ip"

Dashed == <<97, 45>>
TypeA == <<65>>
TypeAB == <<65, 58, 58, 66>>
TypeABC == <<65, 58, 58, 66, 58, 58, 67>>
Entity(type) == EntityNode([type |-> type, id |-> A])
True == Lit([t |-> "bool", b |-> TRUE])
Long(n) == Lit([t |-> "long", n |-> n])

\* The ends of the range of numbers, elements of other kinds, and a loose operand.
MCLeaves ==
  {Long(-MaxLong - 1), SetNode(<<Entity(TypeAB), Lit([t |-> "string", s |-> A])>>)}
MCOperands == {BinNode("sub", Long(MaxLong), Long(-1))}

(***************************************************************************)
(* The tokens that mean different things in different places, and a number *)
(* that is in range only behind a minus.                                   *)
(***************************************************************************)
Tokens == {NumberOf(1), NumberOf(MaxLong + 1), NameOf(A)} \cup
          {Mark(type) : type \in {"minus", "dot", "comma", "eq", "lparen", "rparen",
                                  "lbracket", "rbracket"}}
MCAlphabet == {t[1] : t \in Tokens}

(***************************************************************************)
(* Scopes of every form, annotations that may repeat, and conditions with  *)
(* braces of their own.                                                    *)
(***************************************************************************)
MCForms ==
  {Form("eq", <<>>, <<Entity(TypeA)>>), Form("in", <<>>, <<Entity(TypeABC)>>),
   Form("in_set", <<>>, <<>>), Form("in_set", <<>>, <<Entity(TypeA), Entity(TypeA)>>),
   Form("in_set", <<>>, <<Entity(TypeA), True>>), Form("is", TypeA, <<>>),
   Form("is_in", TypeA, <<Entity(TypeA)>>)}

MCAnnotations == {[key |-> A, value |-> <<>>], [key |-> A, value |-> B], [key |-> B, value |-> B]}

IpOfA == [op |-> "ext", type |-> "ip", text |-> A]
MCExpressions == {BinNode("eq", SetNode(<<>>), RecordNode(<<>>)),
                  AttrNode(RecordNode(<<Entry(A, IpOfA)>>), A),
                  UnNode("not", UnNode("not", UnNode("not", UnNode("not", True))))}
-----------------------------------------------------------------------------
(***************************************************************************)
(* Requests with distinct and with shared entities, scopes of every form,  *)
(* and conditions of every outcome.                                        *)
(***************************************************************************)
User == <<85>>
Group == <<71>>
UA == [type |-> User, id |-> A]
GA == [type |-> Group, id |-> A]
HasA(v) == {[value |-> v, name |-> A]}

Ctx(resource, principalParents, resourceParents, v) ==
  [uid     |-> [resource |-> resource, principal |-> UA, action |-> GA],
   parents |-> [resource |-> resourceParents, principal |-> principalParents, action |-> {}],
   attrs   |-> [resource |-> {}, principal |-> HasA(v), action |-> {}, context |-> {}]]

RequestContexts ==
  LET yes == [t |-> "bool", b |-> TRUE]
      one == [t |-> "long", n |-> 1]
  IN  {Ctx(GA, {GA}, {UA}, yes), Ctx(UA, {}, {GA}, one), Ctx(UA, {GA}, {}, yes)}

RequestForms ==
  {Form("eq", <<>>, <<EntityNode(UA)>>), Form("in", <<>>, <<EntityNode(GA)>>),
   Form("in_set", <<>>, <<>>), Form("in_set", <<>>, <<EntityNode(UA), EntityNode(GA)>>),
   Form("is", User, <<>>), Form("is_in", User, <<EntityNode(GA)>>)}

Read(slot) == AttrNode(Var(slot), A)
RequestExpressions ==
  {True, Read("principal"), Read("resource"), BinNode("in", Var("resource"), EntityNode(GA)),
   IfNode(BinNode("eq", Var("principal"), Var("resource")), True, Read("action"))}

\* The constraints of a scope need room among the conditions, and their conjunction depth.
Meaning == INSTANCE PolicyMeaning WITH
  MaxPolicies <- 1, MaxConditions <- MaxConditions + 4, MaxParseDepth <- MaxParseDepth + 2,
  MaxBinopChain <- MaxBinopChain + 2, Contexts <- RequestContexts, Forms <- RequestForms,
  Annotations <- {}, Expressions <- RequestExpressions, MaxWritten <- MaxWritten

PoliciesInit == ParserInit \/ Meaning!MeaningInit
PoliciesNext == ParserNext \/ Meaning!MeaningNext
PoliciesSpec == PoliciesInit /\ [][PoliciesNext]_<<kind, input>>

\* A policy that is worded otherwise applies to the same requests (php_cedar_policy_matches).
RewordingIsIdle == Meaning!RewordingIsIdle
-----------------------------------------------------------------------------
AtLimits == INSTANCE PolicyMeaning WITH Contexts <- {}

SumSpec == AtLimits!SumInit /\ [][AtLimits!WriteTerm]_<<kind, input>>

\* What the parser accepts is not cut off by the depth of evaluation (php_cedar_types.h).
AcceptedEvaluates == AtLimits!AcceptedEvaluates
=============================================================================
