------------------------------- MODULE MCData -------------------------------
(***************************************************************************)
(* Entities, conditions, policies and attributes for the instances that    *)
(* TLC checks.                                                             *)
(***************************************************************************)
EXTENDS Evaluator

MCEntityType == {"User", "Group", "Action"}
MCEntityId == {"a", "b"}
U(type, id) == [type |-> type, id |-> id]

UA == U("User", "a")
UB == U("User", "b")
GA == U("Group", "a")
GB == U("Group", "b")
AA == U("Action", "a")
AB == U("Action", "b")

(***************************************************************************)
(* Two kinds of condition stand for the expression language: an attribute  *)
(* read, which errors when the attribute is missing and is not a bool when *)
(* its value is not, and `slot in target`.                                 *)
(***************************************************************************)
AttrExpr(slot, name) == [op |-> "attr", slot |-> slot, name |-> name, target |-> GA]
InExpr(slot, target) == [op |-> "in", slot |-> slot, name |-> "n", target |-> target]

MCExpr == {AttrExpr(s, n) : s \in AttrSlot, n \in {"n", "m"}} \cup
          {InExpr(s, t) : s \in Slot, t \in {GA, GB}}

MCExprEval(expr, c) ==
  IF expr.op = "in"
  THEN IF EntityInTarget(c.uid[expr.slot], LookupParents(c, expr.slot), expr.target)
       THEN "true" ELSE "false"
  ELSE LET found == {a.value : a \in {b \in c.attrs[expr.slot] : b.name = expr.name}}
       IN  IF found = {} THEN "error"
           ELSE IF found = {"T"} THEN "true"
           ELSE IF found = {"F"} THEN "false" ELSE "nonbool"

Anyone == [type |-> "User", constraint |-> "none", targets |-> {}]
Eq(uid) == [type |-> "User", constraint |-> "eq", targets |-> {uid}]
In(uids) == [type |-> "User", constraint |-> "in", targets |-> uids]
IsType(type) == [type |-> type, constraint |-> "is", targets |-> {}]
IsIn(type, uid) == [type |-> type, constraint |-> "is_in", targets |-> {uid}]

Rule(isForbid, p, a, r, conditions) ==
  [isForbid   |-> isForbid,
   conditions |-> conditions,
   scope      |-> [principal |-> p, action |-> a, resource |-> r]]

When(expr) == [isUnless |-> FALSE, expr |-> expr]
Unless(expr) == [isUnless |-> TRUE, expr |-> expr]

Policies ==
  { Rule(FALSE, Anyone, Anyone, Anyone, <<>>),
    Rule(FALSE, In({GA}), In({AA, AB}), Anyone, <<When(AttrExpr("principal", "n"))>>),
    Rule(FALSE, IsIn("User", GA), Eq(AA), Anyone, <<Unless(AttrExpr("principal", "n"))>>),
    Rule(TRUE, IsType("User"), Anyone, Anyone, <<When(AttrExpr("principal", "n"))>>),
    Rule(TRUE, Eq(UA), Anyone, Anyone, <<Unless(AttrExpr("principal", "n")),
                                   When(InExpr("resource", GA))>>),
    Rule(TRUE, Anyone, In({AB}), Eq(UB), <<>>) }

MkStore(bundles) ==
  [id |-> "s", bundles |-> [b \in DOMAIN bundles |->
     [policyId |-> IF b = 1 THEN "p1" ELSE "p2", policies |-> bundles[b]]]]

NoEntry == [name |-> NoName, value |-> "T", ok |-> TRUE]
Good(name, value) == [name |-> name, value |-> value, ok |-> TRUE]
Half(name, value) == [name |-> name, value |-> value, ok |-> FALSE]
Refused(name) == [name |-> name, value |-> NoValue, ok |-> FALSE]

Ent(uid, attributes, parents) ==
  [identifier |-> uid, attributes |-> attributes, parents |-> parents]
=============================================================================
