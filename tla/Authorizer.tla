----------------------------- MODULE Authorizer -----------------------------
(***************************************************************************)
(* One authorization request: cedar_evaluate_request of cedar.c with       *)
(* everything it calls in php_cedar_eval.c.                                *)
(*                                                                         *)
(* The call checks policyStoreId, fills an evaluation context from the     *)
(* request (context map, entity list, token groups), evaluates every       *)
(* bundle of the store against it (php_cedar_eval_detail: a forbid pass,   *)
(* then a permit pass) and builds the response.  A step is one iteration   *)
(* of one of those loops, or the code between two loops.                   *)
(***************************************************************************)
EXTENDS Evaluator

CONSTANTS
  DetailInitialCap,  \* first capacity of php_cedar_detail_push: 4 in the code
  Stores,            \* the stores a behaviour may start with
  Requests           \* the requests a behaviour may start with

ASSUME DetailCapAssumption == DetailInitialCap \in Nat \ {0}

(***************************************************************************)
(* The stores and requests are values the PHP side can pass: the names in  *)
(* one attribute array, like the ids of a store, are keys of a hash table. *)
(***************************************************************************)
ASSUME InputAssumption ==
  /\ Stores \subseteq Store
  /\ Requests \subseteq Request
  /\ \A s \in Stores : DistinctIds(s.bundles)
  /\ \A r \in Requests :
       /\ DistinctNames(r.context)
       /\ \A e \in DOMAIN r.entities : DistinctNames(r.entities[e].attributes)

VARIABLES
  store,      \* the PolicyStore bound to the client
  request,    \* the arguments of cedar_evaluate_request
  pc,         \* where in the call control is
  i,          \* index of the entity or of the bundle
  j,          \* index inside it: attribute, parent, group or policy
  ctx,        \* eval_ctx
  errors,     \* the errors array
  permitIds,  \* permit_ids
  forbidIds,  \* forbid_ids
  detail,     \* php_cedar_eval_detail: out->policies, cap, has_forbid, has_permit
  answer      \* return_value, or the exception thrown

vars == <<store, request, pc, i, j, ctx, errors, permitIds, forbidIds, detail, answer>>

Control == {"storeId", "context", "attributes", "parents", "groups",
            "bundles", "forbidPass", "permitPass", "done"}

(***************************************************************************)
(* The phases in which policies are matched against the finished context.  *)
(***************************************************************************)
EvalPhase == {"bundles", "forbidPass", "permitPass", "done"}

NoDetail == [policies |-> <<>>, cap |-> 0, hasForbid |-> FALSE, hasPermit |-> FALSE]

NoAnswer == [outcome |-> "pending", decision |-> "none",
             determiningPolicies |-> <<>>, errors |-> <<>>]

(***************************************************************************)
(* The call before its first step, whatever its arguments.                 *)
(***************************************************************************)
CallInit ==
  /\ pc = "storeId"
  /\ i = 1
  /\ j = 1
  /\ ctx = [uid     |-> request.uid,
            parents |-> [s \in Slot |-> {}],
            attrs   |-> [s \in AttrSlot |-> {}]]
  /\ errors = <<>>
  /\ permitIds = <<>>
  /\ forbidIds = <<>>
  /\ detail = NoDetail
  /\ answer = NoAnswer

Init == store \in Stores /\ request \in Requests /\ CallInit

(***************************************************************************)
(* php_cedar_attrs_has_name, and the outcome of cedar_apply_top_attr on    *)
(* one attribute array: a taken name is refused before anything is pushed. *)
(***************************************************************************)
HasName(attrs, name) == \E a \in attrs : a.name = name

\* Variants: the value is not looked at before the push; the name is not.
PushesUnparsed(attrs, entry) == ~HasName(attrs, entry.name)
PushesTwice(attrs, entry) == entry.value # NoValue

Pushes(attrs, entry) == entry.value # NoValue /\ ~HasName(attrs, entry.name)

Push(attrs, entry) ==
  IF Pushes(attrs, entry)
  THEN attrs \cup {[name |-> entry.name, value |-> entry.value]}
  ELSE attrs

\* Variant: the return code of the children of a record or set is dropped.
ApplyOkAtPush(attrs, entry) == Pushes(attrs, entry)

ApplyOk(attrs, entry) == Pushes(attrs, entry) /\ entry.ok

(***************************************************************************)
(* cedar_apply_entities tries the matched targets in the order principal,  *)
(* action, resource and stops at the first that fails.                     *)
(***************************************************************************)
Earlier(slot) ==
  {s \in Slot : \/ slot = "action" /\ s = "principal"
                \/ slot = "resource" /\ s \in {"principal", "action"}}

\* Variant: principal, else action, else resource, as an else-if chain.
MatchedFirst(entity) ==
  {s \in Slot : /\ request.uid[s] = entity.identifier
                /\ \A t \in Earlier(s) : request.uid[t] # entity.identifier}

Matched(entity) == {s \in Slot : request.uid[s] = entity.identifier}

Reached(slot, matched, entry) ==
  /\ slot \in matched
  /\ \A s \in Earlier(slot) \cap matched : ApplyOk(ctx.attrs[s], entry)

AddParent(targets, uid) ==
  [ctx EXCEPT !.parents =
     [s \in Slot |-> IF s \in targets THEN @[s] \cup {uid} ELSE @[s]]]

\* Variant: the buffer grows one push too late.
DetailPushLate(d, k) ==
  [d EXCEPT !.cap = IF Len(d.policies) <= @ THEN @
                    ELSE IF @ = 0 THEN DetailInitialCap ELSE 2 * @,
            !.policies = Append(@, k)]

(***************************************************************************)
(* php_cedar_detail_push: the capacity is 0, then the initial one, and     *)
(* then doubles.                                                           *)
(***************************************************************************)
DetailPush(d, k) ==
  [d EXCEPT !.cap = IF Len(d.policies) < @ THEN @
                    ELSE IF @ = 0 THEN DetailInitialCap ELSE 2 * @,
            !.policies = Append(@, k)]
-----------------------------------------------------------------------------
(***************************************************************************)
(* The checks before anything is allocated.                                *)
(***************************************************************************)
CheckStoreId ==
  /\ pc = "storeId"
  /\ IF request.policyStoreId = store.id
     THEN pc' = "context" /\ UNCHANGED answer
     ELSE /\ pc' = "done"
          /\ answer' = [answer EXCEPT !.outcome =
               IF request.policyStoreId = NoStoreId
               THEN "Error" ELSE "ResourceNotFoundException"]
  /\ UNCHANGED <<store, request, i, j, ctx, errors, permitIds, forbidIds, detail>>

(***************************************************************************)
(* cedar_apply_context_map: one entry of contextMap.                       *)
(***************************************************************************)
ApplyContextEntry ==
  /\ pc = "context"
  /\ j <= Len(request.context)
  /\ LET entry == request.context[j] IN
       IF entry.name = NoName
       THEN UNCHANGED <<ctx, errors>>
       ELSE /\ ctx' = [ctx EXCEPT !.attrs["context"] = Push(@, entry)]
            /\ errors' = IF ApplyOk(ctx.attrs["context"], entry) THEN errors
                         ELSE Append(errors, [source |-> ContextMap, name |-> entry.name])
  /\ j' = j + 1
  /\ UNCHANGED <<store, request, pc, i, permitIds, forbidIds, detail, answer>>

ContextDone ==
  /\ pc = "context"
  /\ j > Len(request.context)
  /\ pc' = "attributes"
  /\ j' = 1
  /\ UNCHANGED <<store, request, i, ctx, errors, permitIds, forbidIds, detail, answer>>

(***************************************************************************)
(* cedar_apply_entities.  An entry without a usable identifier is skipped. *)
(***************************************************************************)
CurrentEntity == request.entities[i]

SkipEntity ==
  /\ pc = "attributes"
  /\ i <= Len(request.entities)
  /\ CurrentEntity.identifier = BadUid
  /\ i' = i + 1
  /\ UNCHANGED <<store, request, pc, j, ctx, errors, permitIds, forbidIds, detail, answer>>

ApplyEntityAttr ==
  /\ pc = "attributes"
  /\ i <= Len(request.entities)
  /\ Matched(CurrentEntity) # {}
  /\ j <= Len(CurrentEntity.attributes)
  /\ LET entry   == CurrentEntity.attributes[j]
         matched == Matched(CurrentEntity)
     IN  IF entry.name = NoName
         THEN UNCHANGED <<ctx, errors>>
         ELSE /\ ctx' = [ctx EXCEPT !.attrs =
                           [s \in AttrSlot |-> IF Reached(s, matched, entry)
                                               THEN Push(@[s], entry) ELSE @[s]]]
              /\ errors' = IF \A s \in matched : ApplyOk(ctx.attrs[s], entry) THEN errors
                           ELSE Append(errors, [source |-> CurrentEntity.identifier,
                                                name   |-> entry.name])
  /\ j' = j + 1
  /\ UNCHANGED <<store, request, pc, i, permitIds, forbidIds, detail, answer>>

AttributesDone ==
  /\ pc = "attributes"
  /\ i <= Len(request.entities)
  /\ CurrentEntity.identifier # BadUid
  /\ Matched(CurrentEntity) = {} \/ j > Len(CurrentEntity.attributes)
  /\ pc' = "parents"
  /\ j' = 1
  /\ UNCHANGED <<store, request, i, ctx, errors, permitIds, forbidIds, detail, answer>>

ApplyEntityParent ==
  /\ pc = "parents"
  /\ j <= Len(CurrentEntity.parents)
  /\ LET parent == CurrentEntity.parents[j] IN
       IF parent = BadUid
       THEN UNCHANGED ctx
       ELSE ctx' = AddParent(Matched(CurrentEntity), parent)
  /\ j' = j + 1
  /\ UNCHANGED <<store, request, pc, i, errors, permitIds, forbidIds, detail, answer>>

ParentsDone ==
  /\ pc = "parents"
  /\ j > Len(CurrentEntity.parents)
  /\ pc' = "attributes"
  /\ i' = i + 1
  /\ j' = 1
  /\ UNCHANGED <<store, request, ctx, errors, permitIds, forbidIds, detail, answer>>

EntitiesDone ==
  /\ pc = "attributes"
  /\ i > Len(request.entities)
  /\ pc' = "groups"
  /\ j' = 1
  /\ UNCHANGED <<store, request, i, ctx, errors, permitIds, forbidIds, detail, answer>>

\* Variant: the groups go to whatever entity has the principal's identifier.
ApplyGroupByIdentity ==
  /\ pc = "groups"
  /\ j <= Len(request.groups)
  /\ ctx' = AddParent({s \in Slot : request.uid[s] = request.uid["principal"]},
                      request.groups[j])
  /\ j' = j + 1
  /\ UNCHANGED <<store, request, pc, i, errors, permitIds, forbidIds, detail, answer>>

(***************************************************************************)
(* Token groups become parents of the principal, and of nothing else.      *)
(***************************************************************************)
ApplyGroup ==
  /\ pc = "groups"
  /\ j <= Len(request.groups)
  /\ ctx' = AddParent({"principal"}, request.groups[j])
  /\ j' = j + 1
  /\ UNCHANGED <<store, request, pc, i, errors, permitIds, forbidIds, detail, answer>>

GroupsDone ==
  /\ pc = "groups"
  /\ j > Len(request.groups)
  /\ pc' = "bundles"
  /\ i' = 1
  /\ UNCHANGED <<store, request, j, ctx, errors, permitIds, forbidIds, detail, answer>>
-----------------------------------------------------------------------------
(***************************************************************************)
(* cedar_eval_one_bundle and php_cedar_eval_detail, for bundle i.          *)
(***************************************************************************)
CurrentBundle == store.bundles[i]

\* Variant: the out structure still holds the result of the bundle before.
BeginBundleKeepsDetail ==
  /\ pc = "bundles"
  /\ i <= Len(store.bundles)
  /\ pc' = "forbidPass"
  /\ j' = 1
  /\ UNCHANGED <<store, request, i, ctx, errors, permitIds, forbidIds, detail, answer>>

BeginBundle ==
  /\ pc = "bundles"
  /\ i <= Len(store.bundles)
  /\ detail' = NoDetail
  /\ pc' = "forbidPass"
  /\ j' = 1
  /\ UNCHANGED <<store, request, i, ctx, errors, permitIds, forbidIds, answer>>

\* Variant: `continue` on a permit skips the increment.
TestForbidStuck ==
  /\ pc = "forbidPass"
  /\ j <= Len(CurrentBundle.policies)
  /\ LET p == CurrentBundle.policies[j] IN
       /\ detail' = IF p.isForbid /\ PolicyMatches(p, ctx)
                    THEN [DetailPush(detail, j) EXCEPT !.hasForbid = TRUE]
                    ELSE detail
       /\ j' = IF p.isForbid THEN j + 1 ELSE j
  /\ UNCHANGED <<store, request, pc, i, ctx, errors, permitIds, forbidIds, answer>>

TestForbid ==
  /\ pc = "forbidPass"
  /\ j <= Len(CurrentBundle.policies)
  /\ LET p == CurrentBundle.policies[j] IN
       detail' = IF p.isForbid /\ PolicyMatches(p, ctx)
                 THEN [DetailPush(detail, j) EXCEPT !.hasForbid = TRUE]
                 ELSE detail
  /\ j' = j + 1
  /\ UNCHANGED <<store, request, pc, i, ctx, errors, permitIds, forbidIds, answer>>

(***************************************************************************)
(* A matching forbid ends the bundle with DENY; otherwise the permit pass  *)
(* begins, with cap reset and out->policies as the forbid pass left it.    *)
(***************************************************************************)
ForbidDone ==
  /\ pc = "forbidPass"
  /\ j > Len(CurrentBundle.policies)
  /\ IF detail.hasForbid
     THEN /\ forbidIds' = IF detail.policies # <<>>
                          THEN Append(forbidIds, CurrentBundle.policyId) ELSE forbidIds
          /\ pc' = "bundles"
          /\ i' = i + 1
          /\ UNCHANGED <<j, detail>>
     ELSE /\ detail' = [detail EXCEPT !.cap = 0]
          /\ pc' = "permitPass"
          /\ j' = 1
          /\ UNCHANGED <<i, forbidIds>>
  /\ UNCHANGED <<store, request, ctx, errors, permitIds, answer>>

TestPermit ==
  /\ pc = "permitPass"
  /\ j <= Len(CurrentBundle.policies)
  /\ LET p == CurrentBundle.policies[j] IN
       detail' = IF ~p.isForbid /\ PolicyMatches(p, ctx)
                 THEN [DetailPush(detail, j) EXCEPT !.hasPermit = TRUE]
                 ELSE detail
  /\ j' = j + 1
  /\ UNCHANGED <<store, request, pc, i, ctx, errors, permitIds, forbidIds, answer>>

\* Variant: every DENY is taken for a forbid, the implicit one included.
PermitDoneDenyIsForbid ==
  /\ pc = "permitPass"
  /\ j > Len(CurrentBundle.policies)
  /\ permitIds' = IF detail.hasPermit
                  THEN Append(permitIds, CurrentBundle.policyId) ELSE permitIds
  /\ forbidIds' = IF ~detail.hasPermit
                  THEN Append(forbidIds, CurrentBundle.policyId) ELSE forbidIds
  /\ pc' = "bundles"
  /\ i' = i + 1
  /\ UNCHANGED <<store, request, j, ctx, errors, detail, answer>>

(***************************************************************************)
(* ALLOW puts the bundle in permit_ids.  The implicit DENY has recorded no *)
(* policy, so it must not be taken for a forbid.                           *)
(***************************************************************************)
PermitDone ==
  /\ pc = "permitPass"
  /\ j > Len(CurrentBundle.policies)
  /\ permitIds' = IF detail.hasPermit
                  THEN Append(permitIds, CurrentBundle.policyId) ELSE permitIds
  /\ forbidIds' = IF ~detail.hasPermit /\ detail.policies # <<>>
                  THEN Append(forbidIds, CurrentBundle.policyId) ELSE forbidIds
  /\ pc' = "bundles"
  /\ i' = i + 1
  /\ UNCHANGED <<store, request, j, ctx, errors, detail, answer>>

\* Variant: permits are looked at first.
FinalizePermitFirst ==
  /\ pc = "bundles"
  /\ i > Len(store.bundles)
  /\ answer' = [outcome             |-> "response",
                decision            |-> IF permitIds # <<>> THEN "ALLOW" ELSE "DENY",
                determiningPolicies |-> IF permitIds # <<>> THEN permitIds ELSE forbidIds,
                errors              |-> errors]
  /\ pc' = "done"
  /\ UNCHANGED <<store, request, i, j, ctx, errors, permitIds, forbidIds, detail>>

(***************************************************************************)
(* cedar_finalize_response.                                                *)
(***************************************************************************)
Finalize ==
  /\ pc = "bundles"
  /\ i > Len(store.bundles)
  /\ answer' = [outcome             |-> "response",
                decision            |-> IF forbidIds = <<>> /\ permitIds # <<>>
                                        THEN "ALLOW" ELSE "DENY",
                determiningPolicies |-> IF forbidIds # <<>> THEN forbidIds ELSE permitIds,
                errors              |-> errors]
  /\ pc' = "done"
  /\ UNCHANGED <<store, request, i, j, ctx, errors, permitIds, forbidIds, detail>>

Next ==
  \/ CheckStoreId
  \/ ApplyContextEntry \/ ContextDone
  \/ SkipEntity \/ ApplyEntityAttr \/ AttributesDone
  \/ ApplyEntityParent \/ ParentsDone \/ EntitiesDone
  \/ ApplyGroup \/ GroupsDone
  \/ BeginBundle \/ TestForbid \/ ForbidDone \/ TestPermit \/ PermitDone
  \/ Finalize

(***************************************************************************)
(* The call runs on the caller's thread and waits for nothing, so it keeps *)
(* taking steps until it returns.                                          *)
(***************************************************************************)
Spec == Init /\ [][Next]_vars /\ WF_vars(Next)
=============================================================================
