----------------------------- MODULE CedarTypes -----------------------------
(***************************************************************************)
(* The data that the evaluator and the extension layer exchange: entity    *)
(* identifiers, attributes, scopes, conditions, policies, bundles and the  *)
(* evaluation context (php_cedar_types.h, php_cedar_eval.h).               *)
(*                                                                         *)
(* Strings are members of small sets.  An array whose order and            *)
(* multiplicity nothing reads (parents, the targets of a scope) is a set;  *)
(* one whose order is visible in a response is a sequence.                 *)
(***************************************************************************)
EXTENDS Integers, Sequences

CONSTANTS
  EntityType,     \* entity type names
  EntityId,       \* entity ids
  PolicyId,       \* the keys of PolicyStore.policies
  Name,           \* attribute names
  Value,          \* attribute values
  Expr,           \* condition expressions
  ExprEval(_, _), \* php_cedar_expr_eval: (expression, context) -> RVal
  StoreId,        \* policy store ids
  NoStoreId,      \* policyStoreId absent or not a string
  NoValue,        \* the value of an AttributeValue that is refused whole
  NoName,         \* an array key that is an integer, not a string
  BadUid,         \* an identifier that cedar_pick_entity_ids refuses
  ContextMap      \* the source of an error about context.contextMap

(***************************************************************************)
(* php_cedar_entity_ref_t: a pair of strings, compared byte by byte.       *)
(***************************************************************************)
Uid == [type : EntityType, id : EntityId]

ASSUME SentinelAssumption  == /\ NoName \notin Name
                              /\ NoValue \notin Value
                              /\ BadUid \notin Uid
                              /\ NoStoreId \notin StoreId

(***************************************************************************)
(* The three request entities; the context is a fourth home of attributes. *)
(***************************************************************************)
Slot == {"principal", "action", "resource"}
AttrSlot == Slot \cup {"context"}

(***************************************************************************)
(* php_cedar_attr_t and php_cedar_eval_ctx_t.                              *)
(***************************************************************************)
Attr == [name : Name, value : Value]

EvalCtx == [uid     : [Slot -> Uid],
            parents : [Slot -> SUBSET Uid],
            attrs   : [AttrSlot -> SUBSET Attr]]

(***************************************************************************)
(* The outcome of an expression as a condition sees it: a bool, a value of *)
(* another type, or PHP_CEDAR_RVAL_ERROR.                                  *)
(***************************************************************************)
RVal == {"true", "false", "nonbool", "error"}

(***************************************************************************)
(* php_cedar_scope_t.  targets holds the entity reference of == / in /     *)
(* is-in, or the references of an action's `in [...]`, and is empty for a  *)
(* bare scope and for `is`; type is read only by `is` and `is-in`.         *)
(***************************************************************************)
Scope == [constraint : {"none", "eq", "in", "is", "is_in"},
          type       : EntityType,
          targets    : SUBSET Uid]

Condition == [isUnless : BOOLEAN, expr : Expr]

(***************************************************************************)
(* php_cedar_policy_t, and a policy set under its id in the store.         *)
(***************************************************************************)
Policy == [isForbid : BOOLEAN, scope : [Slot -> Scope], conditions : Seq(Condition)]
Bundle == [policyId : PolicyId, policies : Seq(Policy)]

(***************************************************************************)
(* A store: the keys of its hash table are distinct (DistinctIds).         *)
(***************************************************************************)
Store == [id : StoreId, bundles : Seq(Bundle)]

DistinctIds(bundles) ==
  \A b, c \in DOMAIN bundles : bundles[b].policyId = bundles[c].policyId => b = c
-----------------------------------------------------------------------------
(***************************************************************************)
(* An entry of contextMap or of an entity's attributes, after its          *)
(* AttributeValue is resolved.  ok is the return code of                   *)
(* cedar_apply_top_attr on a name that is free, and value is what the call *)
(* leaves in the context: a record or set with a malformed child is        *)
(* pushed before its children are looked at, so it can have a value and    *)
(* still fail.                                                             *)
(***************************************************************************)
AttrEntry == {e \in [name : Name \cup {NoName}, value : Value \cup {NoValue}, ok : BOOLEAN] :
                e.ok => e.value # NoValue}

DistinctNames(entries) ==
  \A k, l \in DOMAIN entries :
    entries[k].name = entries[l].name /\ entries[k].name # NoName => k = l

Entity == [identifier : Uid \cup {BadUid},
           attributes : Seq(AttrEntry),
           parents    : Seq(Uid \cup {BadUid})]

Request == [policyStoreId : StoreId \cup {NoStoreId},
            uid           : [Slot -> Uid],
            context       : Seq(AttrEntry),
            entities      : Seq(Entity),
            groups        : Seq(Uid)]

ErrorEntry == [source : Uid \cup {ContextMap}, name : Name]

Answer == [outcome             : {"pending", "response", "Error", "ResourceNotFoundException"},
           decision            : {"none", "ALLOW", "DENY"},
           determiningPolicies : Seq(PolicyId),
           errors              : Seq(ErrorEntry)]
=============================================================================
