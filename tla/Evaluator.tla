------------------------------ MODULE Evaluator ------------------------------
(***************************************************************************)
(* The matching half of php_cedar_eval.c: whether one policy applies to an *)
(* evaluation context.  The operators keep the names and the case          *)
(* distinctions of the C functions.                                        *)
(***************************************************************************)
EXTENDS CedarTypes

\* Variant: an entity is not in itself.
InTargetStrictly(uid, parents, target) == target \in parents

(***************************************************************************)
(* php_cedar_entity_in_target: reflexive, and over the supplied ancestors. *)
(***************************************************************************)
EntityInTarget(uid, parents, target) == uid = target \/ target \in parents

(***************************************************************************)
(* php_cedar_eval_ctx_lookup_parents: only a value stamped with the slot   *)
(* of a request entity has ancestors.                                      *)
(***************************************************************************)
LookupParents(ctx, slot) == IF slot \in Slot THEN ctx.parents[slot] ELSE {}

(***************************************************************************)
(* php_cedar_scope_matches, one disjunct per constraint.                   *)
(***************************************************************************)
ScopeMatches(scope, uid, parents) ==
  \/ scope.constraint = "none"
  \/ /\ scope.constraint = "is"
     /\ uid.type = scope.type
  \/ /\ scope.constraint = "is_in"
     /\ uid.type = scope.type
     /\ \E t \in scope.targets : EntityInTarget(uid, parents, t)
  \/ /\ scope.constraint = "eq"
     /\ \E t \in scope.targets : uid.type = t.type /\ uid.id = t.id
  \/ /\ scope.constraint = "in"
     /\ \E t \in scope.targets : EntityInTarget(uid, parents, t)

(***************************************************************************)
(* Variant: the polarity is applied to whatever the expression gave, so an *)
(* `unless` whose expression errors would match.                           *)
(***************************************************************************)
ConditionMatchesIgnoringErrors(cond, ctx) ==
  LET val == ExprEval(cond.expr, ctx)
  IN  IF cond.isUnless THEN val # "true" ELSE val = "true"

(***************************************************************************)
(* php_cedar_condition_matches: an error or a value that is not a bool is  *)
(* "no match" before the polarity of the clause is looked at.              *)
(***************************************************************************)
ConditionMatches(cond, ctx) ==
  LET val == ExprEval(cond.expr, ctx)
  IN  /\ val \in {"true", "false"}
      /\ IF cond.isUnless THEN val # "true" ELSE val = "true"

(***************************************************************************)
(* php_cedar_policy_matches.                                               *)
(***************************************************************************)
PolicyMatches(policy, ctx) ==
  /\ \A slot \in Slot :
       ScopeMatches(policy.scope[slot], ctx.uid[slot], ctx.parents[slot])
  /\ \A j \in DOMAIN policy.conditions : ConditionMatches(policy.conditions[j], ctx)
=============================================================================
