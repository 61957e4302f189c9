--------------------------- MODULE MCEvaluation ----------------------------
(***************************************************************************)
(* Inputs of every kind for the laws of values and expressions.            *)
(***************************************************************************)
EXTENDS ExpressionLaws

U(type, id) == [type |-> type, id |-> id]
UA == U("User", "a")
GA == U("Group", "a")
AA == U("Action", "a")
DA == U("Doc", "a")

A(name, value) == [name |-> name, value |-> value]

\* m of the principal is a record with an entity in it: an injected value has no slot.
UserAttrs == <<A("n", BoolValue(TRUE)),
               A("m", RecordValue(<<A("n", EntityValue(UA, NoSlot))>>))>>

Ctx(resource, resourceAttrs, resourceParents) ==
  [uid     |-> [principal |-> UA, action |-> AA, resource |-> resource],
   parents |-> [principal |-> {GA}, action |-> {}, resource |-> resourceParents],
   attrs   |-> [principal |-> UserAttrs, action |-> <<>>, resource |-> resourceAttrs,
                context |-> <<A("m", LongValue(1))>>]]

\* A document, and the principal as its own resource.
MCContexts == {Ctx(DA, <<A("n", StringValue(<<"x", "y">>))>>, {}), Ctx(UA, UserAttrs, {GA})}

MCLeaves == {True, Lit(LongValue(MaxLong)), Var("principal"), Var("resource"), Var("context"),
             EntityNode(UA), EntityNode(GA),
             [op |-> "ext", type |-> "decimal", text |-> <<1, Dot, 5>>]}

\* A bool, a number, an error and two entities.
MCOperands == {False, AttrNode(Var("context"), "m"), AttrNode(Var("action"), "n"),
               Var("principal"), EntityNode(GA)}
-----------------------------------------------------------------------------
\* Numbers, one entity with and without a slot, and small containers in either order.
One == LongValue(1)
Two == LongValue(2)

MCBasic ==
  {One, EntityValue("u", "principal"), EntityValue("u", "none"), SetValue(<<>>),
   SetValue(<<One, Two, One>>),
   RecordValue(<<Entry("n", Two), Entry("m", One)>>),
   RecordValue(<<Entry("m", One), Entry("n", Two)>>)}

\* A leap year, a year that is none although it is a fourth one, and the last of four hundred.
MCWatchedYears == {0, 100, 399}
=============================================================================
