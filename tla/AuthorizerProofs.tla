-------------------------- MODULE AuthorizerProofs --------------------------
(***************************************************************************)
(* Theorems about Authorizer for every store, request, expression language *)
(* and initial capacity: its invariants and, from the attributes that the  *)
(* policies see and the errors that are reported, that the request loop    *)
(* implements the one step of AuthzDecision.                               *)
(***************************************************************************)
EXTENDS AuthorizerProperties, SequenceLemmas

(***************************************************************************)
(* The inputs are well-typed and never change.                             *)
(***************************************************************************)
LEMMA InputTypes ==
  ASSUME store \in Stores, request \in Requests
  PROVE  store \in Store /\ request \in Request
  BY InputAssumption

(***************************************************************************)
(* Elements of sequences.                                                  *)
(***************************************************************************)
LEMMA ElementOf ==
  ASSUME NEW S, NEW s \in Seq(S), NEW k \in Nat \ {0}, k <= Len(s)
  PROVE  k \in DOMAIN s /\ s[k] \in S
  OBVIOUS

LEMMA ElementAt ==
  ASSUME NEW S, NEW s \in Seq(S), NEW k \in DOMAIN s
  PROVE  k \in Nat \ {0} /\ k <= Len(s) /\ s[k] \in S
  OBVIOUS

LEMMA AppendType ==
  ASSUME NEW S, NEW s \in Seq(S), NEW e \in S
  PROVE  Append(s, e) \in Seq(S)
  OBVIOUS

(***************************************************************************)
(* The parts of the store and of the request that a loop body reads.       *)
(***************************************************************************)
LEMMA StoreParts ==
  ASSUME store \in Store
  PROVE  /\ store.bundles \in Seq(Bundle)
         /\ \A b \in DOMAIN store.bundles :
              /\ store.bundles[b].policyId \in PolicyId
              /\ store.bundles[b].policies \in Seq(Policy)
<1>1. store.bundles \in Seq(Bundle)
  BY DEF Store
<1>2. \A b \in DOMAIN store.bundles : store.bundles[b] \in Bundle
  BY <1>1, ElementAt
<1> QED
  BY <1>1, <1>2 DEF Bundle

LEMMA RequestParts ==
  ASSUME request \in Request
  PROVE  /\ request.uid \in [Slot -> Uid]
         /\ request.context \in Seq(AttrEntry)
         /\ request.entities \in Seq(Entity)
         /\ request.groups \in Seq(Uid)
         /\ \A e \in DOMAIN request.entities :
              /\ request.entities[e].identifier \in Uid \cup {BadUid}
              /\ request.entities[e].attributes \in Seq(AttrEntry)
              /\ request.entities[e].parents \in Seq(Uid \cup {BadUid})
<1>1. request.entities \in Seq(Entity)
  BY DEF Request
<1>2. \A e \in DOMAIN request.entities : request.entities[e] \in Entity
  BY <1>1, ElementAt
<1> QED
  BY <1>1, <1>2 DEF Entity, Request

-----------------------------------------------------------------------------
(***************************************************************************)
(* Types of the helpers.                                                   *)
(***************************************************************************)
LEMMA PushType ==
  ASSUME NEW attrs \in SUBSET Attr, NEW entry \in AttrEntry, entry.name # NoName
  PROVE  Push(attrs, entry) \in SUBSET Attr
  BY DEF Push, Pushes, AttrEntry, Attr

LEMMA AddParentType ==
  ASSUME ctx \in EvalCtx, NEW targets, NEW uid \in Uid
  PROVE  /\ AddParent(targets, uid) \in EvalCtx
         /\ AddParent(targets, uid).uid = ctx.uid
         /\ AddParent(targets, uid).attrs = ctx.attrs
         /\ \A s \in Slot : AddParent(targets, uid).parents[s] =
              IF s \in targets THEN ctx.parents[s] \cup {uid} ELSE ctx.parents[s]
  BY DEF AddParent, EvalCtx

DetailType == [policies : Seq(Nat), cap : Nat, hasForbid : BOOLEAN, hasPermit : BOOLEAN]

LEMMA DetailPushType ==
  ASSUME NEW d \in DetailType, NEW k \in Nat
  PROVE  /\ DetailPush(d, k) \in DetailType
         /\ DetailPush(d, k).policies = Append(d.policies, k)
         /\ DetailPush(d, k).hasForbid = d.hasForbid
         /\ DetailPush(d, k).hasPermit = d.hasPermit
<1> DEFINE cap == IF Len(d.policies) < d.cap THEN d.cap
                  ELSE IF d.cap = 0 THEN DetailInitialCap ELSE 2 * d.cap
<1>1. d.policies \in Seq(Nat) /\ d.cap \in Nat
  BY DEF DetailType
<1>2. cap \in Nat /\ Append(d.policies, k) \in Seq(Nat)
  BY <1>1, DetailCapAssumption
<1>3. DetailPush(d, k) = [d EXCEPT !.cap = cap, !.policies = Append(d.policies, k)]
  BY DEF DetailPush
<1> HIDE DEF cap
<1> QED
  BY <1>2, <1>3 DEF DetailType
LEMMA DetailFlagType ==
  ASSUME NEW d \in DetailType, NEW k \in Nat
  PROVE  /\ [DetailPush(d, k) EXCEPT !.hasForbid = TRUE] \in DetailType
         /\ [DetailPush(d, k) EXCEPT !.hasPermit = TRUE] \in DetailType
<1>1. DetailPush(d, k) \in DetailType
  BY DetailPushType
<1> HIDE DEF DetailPush
<1> QED
  BY <1>1 DEF DetailType

(***************************************************************************)
(* Giving attrs' = f(attrs) keeps the context well-typed.                  *)
(***************************************************************************)
LEMMA ContextEntryType ==
  ASSUME ctx \in EvalCtx, NEW entry \in AttrEntry, entry.name # NoName
  PROVE  [ctx EXCEPT !.attrs["context"] = Push(@, entry)] \in EvalCtx
<1>1. ctx.attrs \in [AttrSlot -> SUBSET Attr] /\ "context" \in AttrSlot
  BY DEF EvalCtx, AttrSlot
<1>2. Push(ctx.attrs["context"], entry) \in SUBSET Attr
  BY <1>1, PushType
<1>3. [ctx.attrs EXCEPT !["context"] = Push(ctx.attrs["context"], entry)]
        \in [AttrSlot -> SUBSET Attr]
  BY <1>1, <1>2
<1> QED
  BY <1>3 DEF EvalCtx

LEMMA EntityAttrType ==
  ASSUME ctx \in EvalCtx, NEW entry \in AttrEntry, entry.name # NoName, NEW matched
  PROVE  [ctx EXCEPT !.attrs = [s \in AttrSlot |-> IF Reached(s, matched, entry)
                                                   THEN Push(@[s], entry) ELSE @[s]]]
           \in EvalCtx
<1> DEFINE f == [s \in AttrSlot |-> IF Reached(s, matched, entry)
                                    THEN Push(ctx.attrs[s], entry) ELSE ctx.attrs[s]]
<1>1. \A s \in AttrSlot : ctx.attrs[s] \in SUBSET Attr
  BY DEF EvalCtx
<1>2. \A s \in AttrSlot : Push(ctx.attrs[s], entry) \in SUBSET Attr
  BY <1>1, PushType
<1>3. f \in [AttrSlot -> SUBSET Attr]
  BY <1>1, <1>2
<1> HIDE DEF f
<1>4. [ctx EXCEPT !.attrs = f] \in EvalCtx
  BY <1>3 DEF EvalCtx
<1> QED
  BY <1>4 DEF f

-----------------------------------------------------------------------------
LEMMA InitType == Init => TypeOK
  <1> SUFFICES ASSUME Init PROVE TypeOK
    OBVIOUS
  <1>1. store \in Store /\ request \in Request
    BY InputTypes DEF Init, CallInit
  <1>2. ctx \in EvalCtx
    BY <1>1 DEF Init, CallInit, EvalCtx, Request
  <1> QED
    BY <1>1, <1>2 DEF Init, CallInit, TypeOK, IndicesInRange, Control, NoDetail, NoAnswer, Answer

LEMMA NextType == TypeOK /\ [Next]_vars => TypeOK'
  <1> SUFFICES ASSUME TypeOK, [Next]_vars PROVE TypeOK'
    OBVIOUS
  <1> USE DEF TypeOK, Control, IndicesInRange
  <1>1. CASE CheckStoreId
    BY <1>1 DEF CheckStoreId, Answer
  <1>2. CASE ApplyContextEntry
    <2> DEFINE entry == request.context[j]
    <2>1. entry \in AttrEntry
      BY <1>2, RequestParts, ElementOf DEF ApplyContextEntry
    <2>2. entry.name # NoName => [source |-> ContextMap, name |-> entry.name] \in ErrorEntry
      BY <2>1 DEF AttrEntry, ErrorEntry
    <2>3. ctx' \in EvalCtx
      BY <1>2, <2>1, ContextEntryType DEF ApplyContextEntry
    <2>4. errors' \in Seq(ErrorEntry)
      <3>1. CASE entry.name = NoName \/ ApplyOk(ctx.attrs["context"], entry)
        BY <1>2, <3>1 DEF ApplyContextEntry
      <3>2. CASE entry.name # NoName /\ ~ApplyOk(ctx.attrs["context"], entry)
        <4>1. errors' = Append(errors, [source |-> ContextMap, name |-> entry.name])
          BY <1>2, <3>2 DEF ApplyContextEntry
        <4> QED
          BY <4>1, <2>2, <3>2, AppendType
      <3> QED
        BY <3>1, <3>2
    <2> QED
      BY <1>2, <2>3, <2>4 DEF ApplyContextEntry
  <1>3. CASE ContextDone
    BY <1>3 DEF ContextDone
  <1>4. CASE SkipEntity
    BY <1>4 DEF SkipEntity
  <1>5. CASE ApplyEntityAttr
    <2> DEFINE entry == CurrentEntity.attributes[j]
    <2>1. i \in DOMAIN request.entities
      BY <1>5, RequestParts, ElementOf DEF ApplyEntityAttr
    <2>2. entry \in AttrEntry
      BY <1>5, <2>1, RequestParts, ElementOf DEF ApplyEntityAttr, CurrentEntity
    <2>3. CurrentEntity.identifier \in Uid
      BY <1>5, RequestParts DEF ApplyEntityAttr, Matched
    <2>4. entry.name # NoName =>
            [source |-> CurrentEntity.identifier, name |-> entry.name] \in ErrorEntry
      BY <2>2, <2>3 DEF AttrEntry, ErrorEntry
    <2>5. ctx' \in EvalCtx
      <3>1. CASE entry.name = NoName
        BY <1>5, <3>1 DEF ApplyEntityAttr
      <3>2. CASE entry.name # NoName
        <4>1. ctx' = [ctx EXCEPT !.attrs =
                        [s \in AttrSlot |-> IF Reached(s, Matched(CurrentEntity), entry)
                                            THEN Push(@[s], entry) ELSE @[s]]]
          BY <1>5, <3>2 DEF ApplyEntityAttr
        <4> QED
          BY <4>1, <2>2, <3>2, EntityAttrType
      <3> QED
        BY <3>1, <3>2
    <2>6. errors' \in Seq(ErrorEntry)
      <3>1. CASE errors' = errors
        BY <3>1
      <3>2. CASE errors' # errors
        <4>1. /\ entry.name # NoName
              /\ errors' = Append(errors, [source |-> CurrentEntity.identifier,
                                          name   |-> entry.name])
          BY <1>5, <3>2 DEF ApplyEntityAttr
        <4> QED
          BY <4>1, <2>4, AppendType
      <3> QED
        BY <3>1, <3>2
    <2> QED
      BY <1>5, <2>5, <2>6 DEF ApplyEntityAttr
  <1>6. CASE AttributesDone
    <2>1. i \in DOMAIN request.entities
      BY <1>6, RequestParts, ElementOf DEF AttributesDone
    <2> QED
      BY <1>6, <2>1 DEF AttributesDone, CurrentEntity
  <1>7. CASE ApplyEntityParent
    <2>1. CurrentEntity.parents[j] \in Uid \cup {BadUid}
      BY <1>7, RequestParts, ElementOf DEF ApplyEntityParent, CurrentEntity
    <2> QED
      BY <1>7, <2>1, AddParentType DEF ApplyEntityParent, CurrentEntity
  <1>8. CASE ParentsDone
    BY <1>8 DEF ParentsDone
  <1>9. CASE EntitiesDone
    BY <1>9 DEF EntitiesDone
  <1>10. CASE ApplyGroup
    <2>1. request.groups[j] \in Uid
      BY <1>10, RequestParts, ElementOf DEF ApplyGroup
    <2> QED
      BY <1>10, <2>1, AddParentType DEF ApplyGroup
  <1>11. CASE GroupsDone
    BY <1>11 DEF GroupsDone
  <1>12. CASE BeginBundle
    <2>1. i \in DOMAIN store.bundles
      BY <1>12, StoreParts, ElementOf DEF BeginBundle
    <2> QED
      BY <1>12, <2>1 DEF BeginBundle, NoDetail
  <1>13. CASE TestForbid
    <2>1. detail' \in DetailType
      BY <1>13, DetailFlagType DEF TestForbid, DetailType
    <2> QED
      BY <1>13, <2>1 DEF TestForbid, DetailType
  <1>14. CASE ForbidDone
    <2>1. CurrentBundle.policyId \in PolicyId
      BY <1>14, StoreParts DEF ForbidDone, CurrentBundle
    <2>2. Append(forbidIds, CurrentBundle.policyId) \in Seq(PolicyId)
      BY <2>1, AppendType
    <2>3. CASE detail.hasForbid
      <3>1. forbidIds' \in {forbidIds, Append(forbidIds, CurrentBundle.policyId)}
        BY <1>14, <2>3 DEF ForbidDone
      <3>2. forbidIds' \in Seq(PolicyId)
        BY <3>1, <2>2
      <3> QED
        BY <1>14, <2>3, <3>2 DEF ForbidDone
    <2>4. CASE ~detail.hasForbid
      <3>1. detail' = [detail EXCEPT !.cap = 0]
        BY <1>14, <2>4 DEF ForbidDone
      <3>2. detail' \in DetailType
        BY <3>1 DEF DetailType
      <3>3. /\ pc' = "permitPass" /\ j' = 1
            /\ UNCHANGED <<store, request, i, ctx, errors, permitIds, forbidIds, answer>>
        BY <1>14, <2>4 DEF ForbidDone
      <3>4. IndicesInRange'
        BY <1>14, <3>3 DEF ForbidDone
      <3> QED
        BY <3>2, <3>3, <3>4 DEF DetailType
    <2> QED
      BY <2>3, <2>4
  <1>15. CASE TestPermit
    <2>1. detail' \in DetailType
      BY <1>15, DetailFlagType DEF TestPermit, DetailType
    <2> QED
      BY <1>15, <2>1 DEF TestPermit, DetailType
  <1>16. CASE PermitDone
    <2>1. CurrentBundle.policyId \in PolicyId
      BY <1>16, StoreParts DEF PermitDone, CurrentBundle
    <2>2. forbidIds' \in Seq(PolicyId) /\ permitIds' \in Seq(PolicyId)
      BY <1>16, <2>1, AppendType DEF PermitDone
    <2> QED
      BY <1>16, <2>2 DEF PermitDone
  <1>17. CASE Finalize
    BY <1>17 DEF Finalize, Answer
  <1>18. CASE UNCHANGED vars
    BY <1>18 DEF vars, CurrentEntity
  <1> QED
    BY <1>1, <1>2, <1>3, <1>4, <1>5, <1>6, <1>7, <1>8, <1>9, <1>10, <1>11, <1>12, <1>13,
       <1>14, <1>15, <1>16, <1>17, <1>18 DEF Next

(***************************************************************************)
(* The evaluation state is well-typed throughout the call.                 *)
(***************************************************************************)
THEOREM TypeCorrect == Spec => []TypeOK
  BY InitType, NextType, PTL DEF Spec
-----------------------------------------------------------------------------
(***************************************************************************)
(* The evaluator's matching agrees with the reference semantics.           *)
(***************************************************************************)
LEMMA ScopeAgrees ==
  ASSUME NEW scope \in Scope, NEW c \in EvalCtx, NEW slot \in Slot
  PROVE  ScopeMatches(scope, c.uid[slot], c.parents[slot]) <=> InScope(scope, c, slot)
<1> DEFINE uid == c.uid[slot]
<1>1. uid \in Uid /\ scope.targets \subseteq Uid
  BY DEF EvalCtx, Scope
<1>2. (\E t \in scope.targets : uid.type = t.type /\ uid.id = t.id) <=> uid \in scope.targets
  BY <1>1 DEF Uid
<1>3. (\E t \in scope.targets : EntityInTarget(uid, c.parents[slot], t))
        <=> Reach(c, slot) \cap scope.targets # {}
  BY DEF EntityInTarget, Reach
<1>4. scope.constraint \in {"none", "eq", "in", "is", "is_in"}
  BY DEF Scope
<1> HIDE DEF uid
<1> QED
  BY <1>2, <1>3, <1>4 DEF ScopeMatches, InScope, uid

LEMMA ConditionAgrees ==
  ASSUME NEW cond \in Condition, NEW c
  PROVE  ConditionMatches(cond, c) <=> Holds(cond, c)
  BY DEF Condition, ConditionMatches, Holds

LEMMA PolicyAgrees ==
  ASSUME NEW policy \in Policy, NEW c \in EvalCtx
  PROVE  PolicyMatches(policy, c) <=> Satisfied(policy, c)
<1>1. \A slot \in Slot : policy.scope[slot] \in Scope
  BY DEF Policy
<1>2. policy.conditions \in Seq(Condition)
  BY DEF Policy
<1>3. \A k \in DOMAIN policy.conditions : policy.conditions[k] \in Condition
  BY <1>2, ElementAt
<1>4. \A slot \in Slot : ScopeMatches(policy.scope[slot], c.uid[slot], c.parents[slot])
                           <=> InScope(policy.scope[slot], c, slot)
  BY <1>1, ScopeAgrees
<1>5. \A k \in DOMAIN policy.conditions : ConditionMatches(policy.conditions[k], c)
                                            <=> Holds(policy.conditions[k], c)
  BY <1>3, ConditionAgrees
<1> QED
  BY <1>4, <1>5 DEF PolicyMatches, Satisfied
-----------------------------------------------------------------------------
(***************************************************************************)
(* Ranges of sequences, as the buckets use them.                           *)
(***************************************************************************)
LEMMA RangeAppend ==
  ASSUME NEW S, NEW s \in Seq(S), NEW e \in S
  PROVE  Range(Append(s, e)) = Range(s) \cup {e}
<1>1. DOMAIN s = 1 .. Len(s) /\ Len(s) \in Nat
  OBVIOUS
<1>2. DOMAIN Append(s, e) = 1 .. Len(s) + 1
  OBVIOUS
<1>3. \A k \in 1 .. Len(s) + 1 : Append(s, e)[k] = IF k <= Len(s) THEN s[k] ELSE e
  OBVIOUS
<1> QED
  BY <1>1, <1>2, <1>3 DEF Range

LEMMA RangeEmpty ==
  ASSUME NEW S, NEW s \in Seq(S)
  PROVE  Range(s) = {} <=> s = <<>>
  BY DEF Range

(***************************************************************************)
(* A policy joins the findings of the pass exactly when it is of the       *)
(* effect the pass is after and satisfied.                                 *)
(***************************************************************************)
LEMMA FoundStep ==
  ASSUME j \in Nat, CurrentBundle.policies \in Seq(Policy),
         j \in DOMAIN CurrentBundle.policies, j' = j + 1,
         UNCHANGED <<store, i, ctx>>, NEW effect \in BOOLEAN
  PROVE  Found(effect)' <=> \/ Found(effect)
                            \/ /\ CurrentBundle.policies[j].isForbid = effect
                               /\ Satisfied(CurrentBundle.policies[j], ctx)
<1>1. \A k \in Nat : k < j + 1 <=> (k < j \/ k = j)
  OBVIOUS
<1>2. \A k \in DOMAIN CurrentBundle.policies : k \in Nat
  OBVIOUS
<1> QED
  BY <1>1, <1>2 DEF Found, CurrentBundle

LEMMA CurrentTyped ==
  ASSUME TypeOK, pc \in {"forbidPass", "permitPass"}
  PROVE  /\ i \in DOMAIN store.bundles
         /\ CurrentBundle.policies \in Seq(Policy)
         /\ CurrentBundle.policyId \in PolicyId
         /\ \A k \in DOMAIN CurrentBundle.policies : CurrentBundle.policies[k] \in Policy
<1>1. i \in DOMAIN store.bundles
  BY DEF TypeOK, IndicesInRange
<1>2. CurrentBundle.policies \in Seq(Policy) /\ CurrentBundle.policyId \in PolicyId
  BY <1>1, StoreParts DEF TypeOK, CurrentBundle
<1> QED
  BY <1>1, <1>2, ElementAt

(***************************************************************************)
(* Moving on to the next bundle adds the current one to the side it is on. *)
(***************************************************************************)
LEMMA SoFarStep ==
  ASSUME TypeOK, i \in DOMAIN store.bundles, i' = i + 1, UNCHANGED <<store, ctx>>
  PROVE  /\ DenyingSoFar' = IF Denies(CurrentBundle, ctx)
                            THEN DenyingSoFar \cup {CurrentBundle.policyId} ELSE DenyingSoFar
         /\ AllowingSoFar' = IF Allows(CurrentBundle, ctx)
                             THEN AllowingSoFar \cup {CurrentBundle.policyId} ELSE AllowingSoFar
<1>1. i \in Nat /\ \A c \in DOMAIN store.bundles : c < i + 1 <=> (c < i \/ c = i)
  <2>1. store.bundles \in Seq(Bundle)
    BY StoreParts DEF TypeOK
  <2>2. \A c \in DOMAIN store.bundles : c \in Nat
    BY <2>1, ElementAt
  <2> QED
    BY <2>2 DEF TypeOK
<1>2. DenyingSoFar' = {store.bundles[b].policyId :
        b \in {c \in DOMAIN store.bundles : c < i + 1 /\ Denies(store.bundles[c], ctx)}}
  BY DEF DenyingSoFar
<1>3. AllowingSoFar' = {store.bundles[b].policyId :
        b \in {c \in DOMAIN store.bundles : c < i + 1 /\ Allows(store.bundles[c], ctx)}}
  BY DEF AllowingSoFar
<1> QED
  BY <1>1, <1>2, <1>3 DEF DenyingSoFar, AllowingSoFar, CurrentBundle

(***************************************************************************)
(* What a pass leaves in its result when it tests policy j.                *)
(***************************************************************************)
LEMMA TestForbidStep ==
  ASSUME TypeOK, ForbidPassExact, TestForbid
  PROVE  ForbidPassExact'
<1> DEFINE p == CurrentBundle.policies[j]
<1>1. /\ CurrentBundle.policies \in Seq(Policy)
      /\ j \in DOMAIN CurrentBundle.policies
      /\ p \in Policy
  BY CurrentTyped, ElementOf DEF TestForbid, TypeOK
<1>2. Found(TRUE)' <=> Found(TRUE) \/ (p.isForbid /\ Satisfied(p, ctx))
  <2>1. p.isForbid \in BOOLEAN
    BY <1>1 DEF Policy
  <2> QED
    BY <1>1, <2>1, FoundStep DEF TestForbid, TypeOK
<1>3. PolicyMatches(p, ctx) <=> Satisfied(p, ctx)
  BY <1>1, PolicyAgrees DEF TypeOK
<1>4. pc = "forbidPass" /\ ~detail.hasPermit
  BY DEF TestForbid, ForbidPassExact
<1>5. detail \in DetailType
  BY DEF TypeOK, DetailType
<1>6. CASE p.isForbid /\ PolicyMatches(p, ctx)
  <2>1. detail' = [DetailPush(detail, j) EXCEPT !.hasForbid = TRUE]
    BY <1>6 DEF TestForbid
  <2>2. DetailPush(detail, j) \in DetailType /\ DetailPush(detail, j).hasPermit = detail.hasPermit
        /\ DetailPush(detail, j).policies = Append(detail.policies, j)
    BY <1>5, DetailPushType DEF TypeOK
  <2>3. detail'.hasForbid = TRUE /\ detail'.hasPermit = detail.hasPermit
        /\ detail'.policies = Append(detail.policies, j)
    BY <2>1, <2>2 DEF DetailType
  <2>4. Append(detail.policies, j) # <<>>
    BY <1>5 DEF DetailType
  <2> QED
    BY <1>2, <1>3, <1>4, <1>6, <2>3, <2>4 DEF ForbidPassExact
<1>7. CASE ~(p.isForbid /\ PolicyMatches(p, ctx))
  <2>1. detail' = detail
    BY <1>7 DEF TestForbid
  <2> QED
    BY <1>2, <1>3, <1>4, <1>7, <2>1 DEF ForbidPassExact
<1> QED
  BY <1>6, <1>7

LEMMA TestPermitStep ==
  ASSUME TypeOK, PermitPassExact, TestPermit
  PROVE  PermitPassExact'
<1> DEFINE p == CurrentBundle.policies[j]
<1>1. /\ CurrentBundle.policies \in Seq(Policy)
      /\ j \in DOMAIN CurrentBundle.policies
      /\ p \in Policy
  BY CurrentTyped, ElementOf DEF TestPermit, TypeOK
<1>2. Found(FALSE)' <=> Found(FALSE) \/ (~p.isForbid /\ Satisfied(p, ctx))
  <2>1. p.isForbid \in BOOLEAN
    BY <1>1 DEF Policy
  <2> QED
    BY <1>1, <2>1, FoundStep DEF TestPermit, TypeOK
<1>3. PolicyMatches(p, ctx) <=> Satisfied(p, ctx)
  BY <1>1, PolicyAgrees DEF TypeOK
<1>4. /\ pc = "permitPass" /\ ~detail.hasForbid
      /\ CurrentBundle' = CurrentBundle /\ ctx' = ctx /\ ~Denies(CurrentBundle, ctx)
  BY DEF TestPermit, PermitPassExact, CurrentBundle
<1>5. detail \in DetailType
  BY DEF TypeOK, DetailType
<1>6. CASE ~p.isForbid /\ PolicyMatches(p, ctx)
  <2>1. detail' = [DetailPush(detail, j) EXCEPT !.hasPermit = TRUE]
    BY <1>6 DEF TestPermit
  <2>2. DetailPush(detail, j) \in DetailType /\ DetailPush(detail, j).hasForbid = detail.hasForbid
        /\ DetailPush(detail, j).policies = Append(detail.policies, j)
    BY <1>5, DetailPushType DEF TypeOK
  <2>3. detail'.hasPermit = TRUE /\ detail'.hasForbid = detail.hasForbid
        /\ detail'.policies = Append(detail.policies, j)
    BY <2>1, <2>2 DEF DetailType
  <2>4. Append(detail.policies, j) # <<>>
    BY <1>5 DEF DetailType
  <2> QED
    BY <1>2, <1>3, <1>4, <1>6, <2>3, <2>4 DEF PermitPassExact
<1>7. CASE ~(~p.isForbid /\ PolicyMatches(p, ctx))
  <2>1. detail' = detail
    BY <1>7 DEF TestPermit
  <2> QED
    BY <1>2, <1>3, <1>4, <1>7, <2>1 DEF PermitPassExact
<1> QED
  BY <1>6, <1>7

(***************************************************************************)
(* At the end of a pass, what it found is what the bundle holds.           *)
(***************************************************************************)
LEMMA FoundAll ==
  ASSUME TypeOK, pc \in {"forbidPass", "permitPass"}, j > Len(CurrentBundle.policies),
         NEW effect
  PROVE  Found(effect) <=> Some(CurrentBundle, effect, ctx)
<1>1. CurrentBundle.policies \in Seq(Policy)
  BY CurrentTyped
<1>2. \A k \in DOMAIN CurrentBundle.policies : k < j
  BY <1>1 DEF TypeOK
<1> QED
  BY <1>2 DEF Found, Some

-----------------------------------------------------------------------------
LEMMA InitTally == Init => TallyCorrect
  BY DEF Init, CallInit, TallyCorrect, NothingBefore, BucketsExact, ForbidPassExact, PermitPassExact,
         EvalPhase

(***************************************************************************)
(* The steps before the first bundle leave both buckets empty, and the     *)
(* last of them starts the evaluation with no bundle tried.                *)
(***************************************************************************)
Building ==
  \/ CheckStoreId \/ ApplyContextEntry \/ ContextDone \/ SkipEntity \/ ApplyEntityAttr
  \/ AttributesDone \/ ApplyEntityParent \/ ParentsDone \/ EntitiesDone \/ ApplyGroup

BuildPhase == Control \ EvalPhase

LEMMA BuildingStep ==
  ASSUME TypeOK, Building
  PROVE  /\ pc \in BuildPhase
         /\ pc' \in BuildPhase \/ (pc' = "done" /\ answer'.outcome # "response")
         /\ UNCHANGED <<permitIds, forbidIds>>
         /\ pc' # "done" => UNCHANGED answer
<1> USE DEF BuildPhase, Control, EvalPhase
<1>1. CASE CheckStoreId
  <2>1. answer \in Answer
    BY DEF TypeOK
  <2>2. pc = "storeId" /\ UNCHANGED <<permitIds, forbidIds>>
    BY <1>1 DEF CheckStoreId
  <2>3. CASE request.policyStoreId = store.id
    BY <1>1, <2>2, <2>3 DEF CheckStoreId
  <2>4. CASE request.policyStoreId # store.id
    BY <1>1, <2>1, <2>2, <2>4 DEF CheckStoreId, Answer
  <2> QED
    BY <2>3, <2>4
<1>2. CASE Building /\ ~CheckStoreId
  BY <1>2 DEF Building, ApplyContextEntry, ContextDone, SkipEntity, ApplyEntityAttr,
              AttributesDone, ApplyEntityParent, ParentsDone, EntitiesDone, ApplyGroup
<1> QED
  BY <1>1, <1>2

LEMMA NextTally == TypeOK /\ TallyCorrect /\ [Next]_vars => TallyCorrect'
  <1> SUFFICES ASSUME TypeOK, TallyCorrect, [Next]_vars PROVE TallyCorrect'
    OBVIOUS
  <1>a. TypeOK'
    BY NextType
  <1>1. CASE Building
    BY <1>1, BuildingStep
       DEF BuildPhase, Control, EvalPhase, TallyCorrect, NothingBefore, BucketsExact,
           ForbidPassExact, PermitPassExact
  <1>2. CASE GroupsDone
    <2>1. /\ pc = "groups" /\ pc' = "bundles" /\ i' = 1
          /\ UNCHANGED <<store, ctx, permitIds, forbidIds, answer>>
      BY <1>2 DEF GroupsDone
    <2>2. permitIds = <<>> /\ forbidIds = <<>> /\ answer = NoAnswer
      BY <2>1 DEF TallyCorrect, NothingBefore, EvalPhase
    <2>3. \A c \in DOMAIN store.bundles : ~(c < 1)
      BY StoreParts, ElementAt DEF TypeOK
    <2>4. DenyingSoFar' = {} /\ AllowingSoFar' = {}
      BY <2>1, <2>3 DEF DenyingSoFar, AllowingSoFar
    <2>5. Range(<<>>) = {}
      BY DEF Range
    <2> QED
      BY <2>1, <2>2, <2>4, <2>5 DEF TallyCorrect, NothingBefore, BucketsExact, ForbidPassExact,
                                    PermitPassExact, EvalPhase
  <1>3. CASE BeginBundle
    <2>1. /\ pc = "bundles" /\ pc' = "forbidPass" /\ j' = 1 /\ detail' = NoDetail
          /\ UNCHANGED <<store, i, ctx, permitIds, forbidIds, answer>>
      BY <1>3 DEF BeginBundle
    <2>2. BucketsExact'
      BY <2>1 DEF TallyCorrect, BucketsExact, EvalPhase, DenyingSoFar, AllowingSoFar
    <2>3. ~Found(TRUE)'
      <3>1. CurrentBundle.policies' \in Seq(Policy)
        BY <2>1, <1>a, StoreParts DEF TypeOK, IndicesInRange, CurrentBundle
      <3> QED
        BY <2>1, <3>1 DEF Found
    <2> QED
      BY <2>1, <2>2, <2>3 DEF TallyCorrect, NothingBefore, ForbidPassExact, PermitPassExact,
                              EvalPhase, NoDetail
  <1>4. CASE TestForbid
    <2>1. /\ pc = "forbidPass" /\ pc' = "forbidPass"
          /\ UNCHANGED <<store, i, ctx, permitIds, forbidIds, answer>>
      BY <1>4 DEF TestForbid
    <2>2. ForbidPassExact'
      BY <1>4, TestForbidStep DEF TallyCorrect
    <2> QED
      BY <2>1, <2>2 DEF TallyCorrect, NothingBefore, BucketsExact, PermitPassExact, EvalPhase,
                        DenyingSoFar, AllowingSoFar
  <1>5. CASE TestPermit
    <2>1. /\ pc = "permitPass" /\ pc' = "permitPass"
          /\ UNCHANGED <<store, i, ctx, permitIds, forbidIds, answer>>
      BY <1>5 DEF TestPermit
    <2>2. PermitPassExact'
      BY <1>5, TestPermitStep DEF TallyCorrect
    <2> QED
      BY <2>1, <2>2 DEF TallyCorrect, NothingBefore, BucketsExact, ForbidPassExact, EvalPhase,
                        DenyingSoFar, AllowingSoFar
  <1>6. CASE ForbidDone
    <2>1. /\ pc = "forbidPass" /\ j > Len(CurrentBundle.policies)
          /\ UNCHANGED <<store, ctx, permitIds, answer>>
      BY <1>6 DEF ForbidDone
    <2>2. /\ i \in DOMAIN store.bundles
          /\ CurrentBundle.policies \in Seq(Policy)
          /\ CurrentBundle.policyId \in PolicyId
      BY <2>1, CurrentTyped
    <2>3. detail.hasForbid <=> Denies(CurrentBundle, ctx)
      BY <2>1, FoundAll DEF TallyCorrect, ForbidPassExact, Denies
    <2>4. Range(forbidIds) = DenyingSoFar /\ Range(permitIds) = AllowingSoFar
      BY <2>1 DEF TallyCorrect, BucketsExact, EvalPhase
    <2>5. CASE detail.hasForbid
      <3>1. detail.policies # <<>>
        BY <2>1, <2>5 DEF TallyCorrect, ForbidPassExact
      <3>2. /\ forbidIds' = Append(forbidIds, CurrentBundle.policyId)
            /\ pc' = "bundles" /\ i' = i + 1
        BY <1>6, <2>5, <3>1 DEF ForbidDone
      <3>3. Range(forbidIds') = Range(forbidIds) \cup {CurrentBundle.policyId}
        BY <2>2, <3>2, RangeAppend DEF TypeOK
      <3>4. ~Allows(CurrentBundle, ctx)
        BY <2>3, <2>5 DEF Allows
      <3>5. BucketsExact'
        BY <2>1, <2>2, <2>3, <2>4, <2>5, <3>2, <3>3, <3>4, SoFarStep DEF BucketsExact
      <3> QED
        BY <2>1, <3>2, <3>5 DEF TallyCorrect, NothingBefore, ForbidPassExact, PermitPassExact,
                                EvalPhase
    <2>6. CASE ~detail.hasForbid
      <3>1. /\ detail' = [detail EXCEPT !.cap = 0] /\ pc' = "permitPass" /\ j' = 1
            /\ UNCHANGED <<i, forbidIds>>
        BY <1>6, <2>6 DEF ForbidDone
      <3>2. BucketsExact'
        BY <2>1, <2>4, <3>1 DEF BucketsExact, DenyingSoFar, AllowingSoFar
      <3>3. ~Found(FALSE)'
        BY <2>1, <2>2, <3>1 DEF Found, CurrentBundle
      <3>4. /\ detail'.hasForbid = detail.hasForbid /\ detail'.hasPermit = detail.hasPermit
            /\ detail'.policies = detail.policies
        BY <3>1 DEF TypeOK
      <3>5. ~detail.hasPermit /\ detail.policies = <<>>
        BY <2>1, <2>6 DEF TallyCorrect, ForbidPassExact
      <3>6. PermitPassExact'
        BY <2>1, <2>3, <2>6, <3>1, <3>3, <3>4, <3>5 DEF PermitPassExact, CurrentBundle
      <3> QED
        BY <2>1, <3>1, <3>2, <3>6 DEF TallyCorrect, NothingBefore, ForbidPassExact, EvalPhase
    <2> QED
      BY <2>5, <2>6
  <1>7. CASE PermitDone
    <2>1. /\ pc = "permitPass" /\ j > Len(CurrentBundle.policies) /\ pc' = "bundles"
          /\ i' = i + 1 /\ UNCHANGED <<store, ctx, answer>>
      BY <1>7 DEF PermitDone
    <2>2. i \in DOMAIN store.bundles /\ CurrentBundle.policyId \in PolicyId
      BY <2>1, CurrentTyped
    <2>3. /\ ~Denies(CurrentBundle, ctx)
          /\ detail.hasPermit <=> Allows(CurrentBundle, ctx)
          /\ detail.hasPermit <=> detail.policies # <<>>
      BY <2>1, FoundAll DEF TallyCorrect, PermitPassExact, Allows
    <2>4. Range(forbidIds) = DenyingSoFar /\ Range(permitIds) = AllowingSoFar
      BY <2>1 DEF TallyCorrect, BucketsExact, EvalPhase
    <2>5. forbidIds' = forbidIds
      BY <1>7, <2>3 DEF PermitDone
    <2>6. Range(permitIds') = IF detail.hasPermit
                              THEN Range(permitIds) \cup {CurrentBundle.policyId}
                              ELSE Range(permitIds)
      <3>1. CASE detail.hasPermit
        BY <1>7, <2>2, <3>1, RangeAppend DEF PermitDone, TypeOK
      <3>2. CASE ~detail.hasPermit
        BY <1>7, <3>2 DEF PermitDone
      <3> QED
        BY <3>1, <3>2
    <2>7. BucketsExact'
      BY <2>1, <2>2, <2>3, <2>4, <2>5, <2>6, SoFarStep DEF BucketsExact
    <2> QED
      BY <2>1, <2>7 DEF TallyCorrect, NothingBefore, ForbidPassExact, PermitPassExact, EvalPhase
  <1>8. CASE Finalize
    BY <1>8 DEF Finalize, TallyCorrect, NothingBefore, BucketsExact, ForbidPassExact,
                PermitPassExact, EvalPhase
  <1>9. CASE UNCHANGED vars
    BY <1>9 DEF vars, TallyCorrect, NothingBefore, BucketsExact, ForbidPassExact,
                PermitPassExact, DenyingSoFar, AllowingSoFar, Found, CurrentBundle
  <1> QED
    BY <1>1, <1>2, <1>3, <1>4, <1>5, <1>6, <1>7, <1>8, <1>9 DEF Next, Building

-----------------------------------------------------------------------------
(***************************************************************************)
(* DecisionCorrect is inductive relative to TypeOK and TallyCorrect: only  *)
(* Finalize sets a response, and it does so when every bundle is tallied.  *)
(***************************************************************************)
Decided == DecisionCorrect /\ (answer.outcome = "response" => pc = "done")

LEMMA FinalizeDecides ==
  ASSUME TypeOK, TallyCorrect, Finalize
  PROVE  Decided'
<1> DEFINE bundles == store.bundles
<1>1. /\ pc = "bundles" /\ i > Len(bundles) /\ pc' = "done"
      /\ UNCHANGED <<store, ctx>>
      /\ answer'.decision = IF forbidIds = <<>> /\ permitIds # <<>> THEN "ALLOW" ELSE "DENY"
      /\ answer'.determiningPolicies = IF forbidIds # <<>> THEN forbidIds ELSE permitIds
  BY DEF Finalize
<1>2. \A c \in DOMAIN bundles : c < i
  <2>1. bundles \in Seq(Bundle)
    BY StoreParts DEF TypeOK
  <2> QED
    BY <1>1, <2>1 DEF TypeOK
<1>3. /\ Range(forbidIds) = {bundles[b].policyId : b \in {c \in DOMAIN bundles : Denies(bundles[c], ctx)}}
      /\ Range(permitIds) = {bundles[b].policyId : b \in {c \in DOMAIN bundles : Allows(bundles[c], ctx)}}
  BY <1>1, <1>2 DEF TallyCorrect, BucketsExact, EvalPhase, DenyingSoFar, AllowingSoFar
<1>4. /\ forbidIds = <<>> <=> \A b \in DOMAIN bundles : ~Denies(bundles[b], ctx)
      /\ permitIds = <<>> <=> \A b \in DOMAIN bundles : ~Allows(bundles[b], ctx)
  <2>1. /\ Range(forbidIds) = {} <=> forbidIds = <<>>
        /\ Range(permitIds) = {} <=> permitIds = <<>>
    BY RangeEmpty DEF TypeOK
  <2> QED
    BY <1>3, <2>1
<1>5. answer'.decision = DecisionOf(bundles, ctx)
  BY <1>1, <1>4 DEF DecisionOf
<1>6. Range(answer'.determiningPolicies) =
        {bundles[b].policyId : b \in {c \in DOMAIN bundles : Determines(bundles[c], bundles, ctx)}}
  <2>1. CASE forbidIds = <<>>
    BY <1>1, <1>3, <1>4, <2>1 DEF Determines
  <2>2. CASE forbidIds # <<>>
    BY <1>1, <1>3, <1>4, <2>2 DEF Determines
  <2> QED
    BY <2>1, <2>2
<1> QED
  BY <1>1, <1>5, <1>6 DEF Decided, DecisionCorrect

LEMMA NextDecided == TypeOK /\ TallyCorrect /\ Decided /\ [Next]_vars => Decided'
  <1> SUFFICES ASSUME TypeOK, TallyCorrect, Decided, [Next]_vars PROVE Decided'
    OBVIOUS
  <1>1. CASE Building
    BY <1>1, BuildingStep
       DEF Decided, DecisionCorrect, TallyCorrect, NothingBefore, BuildPhase, EvalPhase, NoAnswer
  <1>2. CASE GroupsDone \/ BeginBundle \/ TestForbid \/ ForbidDone \/ TestPermit \/ PermitDone
    <2>1. answer' = answer /\ pc # "done"
      BY <1>2 DEF GroupsDone, BeginBundle, TestForbid, ForbidDone, TestPermit, PermitDone
    <2> QED
      BY <2>1 DEF Decided, DecisionCorrect
  <1>3. CASE Finalize
    BY <1>3, FinalizeDecides
  <1>4. CASE UNCHANGED vars
    BY <1>4 DEF vars, Decided, DecisionCorrect
  <1> QED
    BY <1>1, <1>2, <1>3, <1>4 DEF Next, Building

(***************************************************************************)
(* The buckets, the flags and the list of matched policies are right at    *)
(* every step, for every store and request.                                *)
(***************************************************************************)
THEOREM TallyIsCorrect == Spec => []TallyCorrect
<1>1. Init => TypeOK /\ TallyCorrect
  BY InitType, InitTally
<1>2. TypeOK /\ TallyCorrect /\ [Next]_vars => (TypeOK /\ TallyCorrect)'
  BY NextType, NextTally
<1> QED
  BY <1>1, <1>2, PTL DEF Spec

(***************************************************************************)
(* Forbid overrides permit, the default is DENY, and the determining       *)
(* policies are the ones that decided, for every store, request, condition *)
(* language and buffer capacity.                                           *)
(***************************************************************************)
THEOREM DecisionIsCorrect == Spec => []DecisionCorrect
<1>1. Init => TypeOK /\ TallyCorrect /\ Decided
  BY InitType, InitTally DEF Init, CallInit, NoAnswer, Decided, DecisionCorrect
<1>2. TypeOK /\ TallyCorrect /\ Decided /\ [Next]_vars => (TypeOK /\ TallyCorrect /\ Decided)'
  BY NextType, NextTally, NextDecided
<1>3. Decided => DecisionCorrect
  BY DEF Decided
<1> QED
  BY <1>1, <1>2, <1>3, PTL DEF Spec

-----------------------------------------------------------------------------
(***************************************************************************)
(* A recorded forbid is never outvoted, for every store and request.       *)
(***************************************************************************)
THEOREM ForbidNeverOutvoted == Spec => ForbidIsFinal
<1> DEFINE Kept == forbidIds # <<>> => forbidIds' # <<>> /\ answer'.decision # "ALLOW"
<1>1. TypeOK /\ TallyCorrect /\ [Next]_vars => [Kept]_vars
  <2> SUFFICES ASSUME TypeOK, TallyCorrect, Next, forbidIds # <<>>
               PROVE  forbidIds' # <<>> /\ answer'.decision # "ALLOW"
    OBVIOUS
  <2>1. pc \in EvalPhase
    BY DEF TallyCorrect, NothingBefore
  <2>2. pc # "done"
    BY DEF Next, CheckStoreId, ApplyContextEntry, ContextDone, SkipEntity, ApplyEntityAttr,
           AttributesDone, ApplyEntityParent, ParentsDone, EntitiesDone, ApplyGroup, GroupsDone,
           BeginBundle, TestForbid, ForbidDone, TestPermit, PermitDone, Finalize
  <2>3. answer.decision # "ALLOW"
    BY <2>2 DEF TallyCorrect, NothingBefore, NoAnswer
  <2>4. \A id : Append(forbidIds, id) # <<>>
    BY DEF TypeOK
  <2>5. CASE BeginBundle \/ TestForbid \/ TestPermit
    BY <2>3, <2>5 DEF BeginBundle, TestForbid, TestPermit
  <2>6. CASE ForbidDone \/ PermitDone
    <3>1. answer' = answer /\ forbidIds' \in {forbidIds, Append(forbidIds, CurrentBundle.policyId)}
      BY <2>6 DEF ForbidDone, PermitDone
    <3> QED
      BY <2>3, <2>4, <3>1
  <2>7. CASE Finalize
    BY <2>7 DEF Finalize
  <2> QED
    BY <2>1, <2>2, <2>5, <2>6, <2>7
    DEF Next, EvalPhase, CheckStoreId, ApplyContextEntry, ContextDone, SkipEntity,
        ApplyEntityAttr, AttributesDone, ApplyEntityParent, ParentsDone, EntitiesDone, ApplyGroup,
        GroupsDone
<1>2. Init => TypeOK /\ TallyCorrect
  BY InitType, InitTally
<1>3. TypeOK /\ TallyCorrect /\ [Next]_vars => (TypeOK /\ TallyCorrect)'
  BY NextType, NextTally
<1> QED
  BY <1>1, <1>2, <1>3, PTL DEF Spec, ForbidIsFinal

-----------------------------------------------------------------------------
(***************************************************************************)
(* The buffer of matched policies is large enough before every write.      *)
(***************************************************************************)
LEMMA DetailPushFits ==
  ASSUME NEW d \in DetailType, NEW k \in Nat, Len(d.policies) <= d.cap
  PROVE  Len(DetailPush(d, k).policies) <= DetailPush(d, k).cap
<1> DEFINE cap == IF Len(d.policies) < d.cap THEN d.cap
                  ELSE IF d.cap = 0 THEN DetailInitialCap ELSE 2 * d.cap
<1>1. d.policies \in Seq(Nat) /\ d.cap \in Nat /\ Len(d.policies) \in Nat
  BY DEF DetailType
<1>2. DetailPush(d, k).cap = cap /\ DetailPush(d, k).policies = Append(d.policies, k)
  BY <1>1 DEF DetailPush, DetailType
<1>3. Len(Append(d.policies, k)) = Len(d.policies) + 1
  BY <1>1
<1>4. Len(d.policies) + 1 <= cap
  BY <1>1, DetailCapAssumption
<1> QED
  BY <1>2, <1>3, <1>4

LEMMA PushedRecord ==
  ASSUME NEW d \in DetailType, NEW k \in Nat, Len(d.policies) <= d.cap,
         NEW e, e \in {[DetailPush(d, k) EXCEPT !.hasForbid = TRUE],
                       [DetailPush(d, k) EXCEPT !.hasPermit = TRUE]}
  PROVE  Len(e.policies) <= e.cap /\ e.policies = Append(d.policies, k)
<1>1. DetailPush(d, k) \in DetailType
  BY DetailPushType
<1>2. e.policies = DetailPush(d, k).policies /\ e.cap = DetailPush(d, k).cap
  BY <1>1 DEF DetailType
<1> QED
  BY <1>2, DetailPushFits, DetailPushType

LEMMA NextDetail == TypeOK /\ TallyCorrect /\ DetailInBounds /\ [Next]_vars => DetailInBounds'
  <1> SUFFICES ASSUME TypeOK, TallyCorrect, DetailInBounds, [Next]_vars PROVE DetailInBounds'
    OBVIOUS
  <1>0. detail \in DetailType /\ detail.policies \in Seq(Nat) /\ j \in Nat /\ Len(<<>>) = 0
    BY DEF TypeOK, DetailType
  <1>1. CASE detail' = detail /\ pc' \notin {"forbidPass", "permitPass"}
    BY <1>1 DEF DetailInBounds
  <1>2. CASE BeginBundle
    BY <1>2 DEF BeginBundle, NoDetail, DetailInBounds
  <1>3. CASE TestForbid \/ TestPermit
    <2> DEFINE p == CurrentBundle.policies[j]
               matches == p.isForbid = (pc = "forbidPass") /\ PolicyMatches(p, ctx)
    <2>1. /\ pc \in {"forbidPass", "permitPass"} /\ j <= Len(CurrentBundle.policies)
          /\ UNCHANGED <<store, pc, i>> /\ j' = j + 1 /\ CurrentBundle' = CurrentBundle
      BY <1>3 DEF TestForbid, TestPermit, CurrentBundle
    <2>2. p \in Policy /\ p.isForbid \in BOOLEAN
      BY <2>1, CurrentTyped, ElementOf DEF TypeOK, Policy
    <2>3. CASE matches
      <3>1. detail' \in {[DetailPush(detail, j) EXCEPT !.hasForbid = TRUE],
                         [DetailPush(detail, j) EXCEPT !.hasPermit = TRUE]}
        BY <1>3, <2>2, <2>3 DEF TestForbid, TestPermit
      <3>2. Len(detail'.policies) <= detail'.cap /\ detail'.policies = Append(detail.policies, j)
        BY <1>0, <3>1, PushedRecord DEF DetailInBounds
      <3>3. \A k \in DOMAIN detail'.policies :
              detail'.policies[k] = j \/ (k \in DOMAIN detail.policies
                                          /\ detail'.policies[k] = detail.policies[k])
        BY <1>0, <3>2
      <3>4. \A k \in DOMAIN detail.policies : detail.policies[k] \in Nat
        BY <1>0
      <3>5. \A k \in DOMAIN detail.policies :
              detail.policies[k] < j
              /\ CurrentBundle.policies[detail.policies[k]].isForbid = (pc = "forbidPass")
        BY <2>1 DEF DetailInBounds
      <3>6. \A k \in DOMAIN detail'.policies : detail'.policies[k] < j'
        BY <1>0, <2>1, <3>3, <3>4, <3>5
      <3>7. \A k \in DOMAIN detail'.policies :
              CurrentBundle.policies[detail'.policies[k]].isForbid = (pc = "forbidPass")
        BY <2>3, <3>3, <3>5
      <3> QED
        BY <2>1, <3>2, <3>6, <3>7 DEF DetailInBounds
    <2>4. CASE ~matches
      <3>1. detail' = detail
        BY <1>3, <2>2, <2>4 DEF TestForbid, TestPermit
      <3>2. \A k \in DOMAIN detail.policies : detail.policies[k] < j + 1
        BY <1>0, <2>1 DEF DetailInBounds
      <3> QED
        BY <2>1, <3>1, <3>2 DEF DetailInBounds
    <2> QED
      BY <2>3, <2>4
  <1>4. CASE ForbidDone
    <2>1. CASE detail.hasForbid
      BY <1>1, <1>4, <2>1 DEF ForbidDone
    <2>2. CASE ~detail.hasForbid
      <3>1. detail.policies = <<>>
        BY <1>4, <2>2 DEF ForbidDone, TallyCorrect, ForbidPassExact
      <3>2. detail' = [detail EXCEPT !.cap = 0]
        BY <1>4, <2>2 DEF ForbidDone
      <3>3. detail'.policies = <<>> /\ detail'.cap = 0
        BY <1>0, <3>1, <3>2 DEF DetailType
      <3> QED
        BY <1>0, <3>3 DEF DetailInBounds
    <2> QED
      BY <2>1, <2>2
  <1>5. CASE UNCHANGED vars
    BY <1>5 DEF vars, DetailInBounds, CurrentBundle
  <1>6. CASE Building
    BY <1>1, <1>6 DEF Building, CheckStoreId, ApplyContextEntry, ContextDone, SkipEntity,
       ApplyEntityAttr, AttributesDone, ApplyEntityParent, ParentsDone, EntitiesDone, ApplyGroup
  <1>7. CASE GroupsDone \/ PermitDone \/ Finalize
    BY <1>1, <1>7 DEF GroupsDone, PermitDone, Finalize
  <1> QED
    BY <1>2, <1>3, <1>4, <1>5, <1>6, <1>7 DEF Next, Building

(***************************************************************************)
(* php_cedar_detail_push stays inside its buffer for every positive first  *)
(* capacity, and records only matching policies of the pass's effect.      *)
(***************************************************************************)
THEOREM DetailStaysInBounds == Spec => []DetailInBounds
<1>1. Init => TypeOK /\ TallyCorrect /\ DetailInBounds
  BY InitType, InitTally DEF Init, CallInit, NoDetail, DetailInBounds
<1>2. TypeOK /\ TallyCorrect /\ DetailInBounds /\ [Next]_vars
        => (TypeOK /\ TallyCorrect /\ DetailInBounds)'
  BY NextType, NextTally, NextDetail
<1> QED
  BY <1>1, <1>2, PTL DEF Spec

-----------------------------------------------------------------------------
(***************************************************************************)
(* A name is never twice in an attribute array.                            *)
(***************************************************************************)
UniqueNames(attrs) == \A a, b \in attrs : a.name = b.name => a = b

LEMMA PushUnique ==
  ASSUME NEW attrs, NEW entry, UniqueNames(attrs)
  PROVE  UniqueNames(Push(attrs, entry))
<1> DEFINE new == [name |-> entry.name, value |-> entry.value]
<1>1. CASE Pushes(attrs, entry)
  <2>1. Push(attrs, entry) = attrs \cup {new} /\ \A a \in attrs : a.name # new.name
    BY <1>1 DEF Push, Pushes, HasName
  <2> HIDE DEF new
  <2> QED
    BY <2>1 DEF UniqueNames
<1>2. CASE ~Pushes(attrs, entry)
  BY <1>2 DEF Push
<1> QED
  BY <1>1, <1>2

THEOREM AttrNamesStayUnique == Spec => []AttrNamesUnique
<1>1. Init => AttrNamesUnique
  BY DEF Init, CallInit, AttrNamesUnique
<1>2. TypeOK /\ AttrNamesUnique /\ [Next]_vars => AttrNamesUnique'
  <2> SUFFICES ASSUME TypeOK, AttrNamesUnique, [Next]_vars PROVE AttrNamesUnique'
    OBVIOUS
  <2>0. /\ ctx \in EvalCtx /\ DOMAIN ctx.attrs = AttrSlot
        /\ \A s \in AttrSlot : UniqueNames(ctx.attrs[s])
    BY DEF TypeOK, EvalCtx, AttrNamesUnique, UniqueNames
  <2>1. CASE ctx'.attrs = ctx.attrs
    BY <2>1 DEF AttrNamesUnique
  <2>2. CASE ApplyContextEntry
    <3>1. CASE UNCHANGED ctx
      BY <2>1, <3>1
    <3>2. CASE ~UNCHANGED ctx
      <4>1. ctx'.attrs = [ctx.attrs EXCEPT !["context"] = Push(@, request.context[j])]
        BY <2>0, <2>2, <3>2 DEF ApplyContextEntry, EvalCtx
      <4>2. \A s \in AttrSlot : UniqueNames(ctx'.attrs[s])
        BY <2>0, <4>1, PushUnique
      <4> QED
        BY <4>2 DEF AttrNamesUnique, UniqueNames
    <3> QED
      BY <3>1, <3>2
  <2>3. CASE ApplyEntityAttr
    <3> DEFINE entry == CurrentEntity.attributes[j]
               f == [s \in AttrSlot |-> IF Reached(s, Matched(CurrentEntity), entry)
                                        THEN Push(ctx.attrs[s], entry) ELSE ctx.attrs[s]]
    <3>1. CASE UNCHANGED ctx
      BY <2>1, <3>1
    <3>2. CASE ~UNCHANGED ctx
      <4>1. ctx' = [ctx EXCEPT !.attrs = f]
        BY <2>3, <3>2 DEF ApplyEntityAttr
      <4>2. ctx'.attrs = f
        BY <2>0, <4>1 DEF EvalCtx
      <4>3. \A s \in AttrSlot : UniqueNames(f[s])
        BY <2>0, PushUnique
      <4> QED
        BY <4>2, <4>3 DEF AttrNamesUnique, UniqueNames
    <3> QED
      BY <3>1, <3>2
  <2>4. CASE ApplyEntityParent
    <3>1. CurrentEntity.parents[j] \in Uid \cup {BadUid}
      <4>1. i \in DOMAIN request.entities
        BY <2>4 DEF ApplyEntityParent, TypeOK, IndicesInRange
      <4> QED
        BY <2>4, <4>1, RequestParts, ElementOf DEF ApplyEntityParent, CurrentEntity, TypeOK
    <3> QED
      BY <2>0, <2>1, <2>4, <3>1, AddParentType DEF ApplyEntityParent
  <2>5. CASE ApplyGroup
    <3>1. request.groups[j] \in Uid
      BY <2>5, RequestParts, ElementOf DEF ApplyGroup, TypeOK
    <3> QED
      BY <2>0, <2>1, <2>5, <3>1, AddParentType DEF ApplyGroup
  <2>6. CASE ctx' = ctx
    BY <2>1, <2>6
  <2> QED
    BY <2>2, <2>3, <2>4, <2>5, <2>6
    DEF Next, vars, CheckStoreId, ContextDone, SkipEntity, AttributesDone, ParentsDone,
        EntitiesDone, GroupsDone, BeginBundle, TestForbid, ForbidDone, TestPermit, PermitDone,
        Finalize
<1>3. Init => TypeOK
  BY InitType
<1>4. TypeOK /\ [Next]_vars => TypeOK'
  BY NextType
<1> QED
  BY <1>1, <1>2, <1>3, <1>4, PTL DEF Spec

-----------------------------------------------------------------------------
(***************************************************************************)
(* The ancestors given to a slot so far: by the entities before entity n,  *)
(* by the parents before parent j of the current entity, by the groups     *)
(* before group j.                                                         *)
(***************************************************************************)
FromEntities(slot, n) ==
  {uid \in Uid : \E e \in DOMAIN request.entities :
                   /\ e < n
                   /\ request.entities[e].identifier = request.uid[slot]
                   /\ ListedUnder(request, e, uid)}

FromCurrent(slot) ==
  {uid \in Uid : /\ CurrentEntity.identifier = request.uid[slot]
                 /\ \E k \in DOMAIN CurrentEntity.parents :
                      k < j /\ CurrentEntity.parents[k] = uid}

FromGroups(slot) ==
  {uid \in Uid : /\ slot = "principal"
                 /\ \E g \in DOMAIN request.groups : g < j /\ request.groups[g] = uid}

(***************************************************************************)
(* The strengthening of ParentsComplete, phase by phase.                   *)
(***************************************************************************)
ParentsSoFar ==
  /\ pc \in {"storeId", "context"} => i = 1 /\ \A s \in Slot : ctx.parents[s] = {}
  /\ pc = "attributes" => \A s \in Slot : ctx.parents[s] = FromEntities(s, i)
  /\ pc = "parents" => \A s \in Slot : ctx.parents[s] = FromEntities(s, i) \cup FromCurrent(s)
  /\ pc = "groups" => /\ i > Len(request.entities)
                      /\ \A s \in Slot : ctx.parents[s] = FromEntities(s, i) \cup FromGroups(s)
  /\ ParentsComplete

LEMMA EntityIndex ==
  ASSUME TypeOK
  PROVE  /\ i \in Nat /\ j \in Nat
         /\ \A e \in DOMAIN request.entities : e \in Nat /\ e >= 1 /\ e <= Len(request.entities)
         /\ \A g \in DOMAIN request.groups : g \in Nat /\ g >= 1 /\ g <= Len(request.groups)
         /\ \A s \in Slot : request.uid[s] \in Uid /\ request.uid[s] # BadUid
<1>1. request.entities \in Seq(Entity) /\ request.groups \in Seq(Uid)
  BY RequestParts DEF TypeOK
<1>2. \A s \in Slot : request.uid[s] \in Uid
  BY RequestParts DEF TypeOK
<1> QED
  BY <1>1, <1>2, SentinelAssumption DEF TypeOK

(***************************************************************************)
(* One more parent, one more group, one more entity.                       *)
(***************************************************************************)
LEMMA ParentStep ==
  ASSUME TypeOK, pc = "parents", j <= Len(CurrentEntity.parents), j' = j + 1,
         UNCHANGED <<request, i>>, NEW slot \in Slot
  PROVE  FromCurrent(slot)' =
           IF slot \in Matched(CurrentEntity) /\ CurrentEntity.parents[j] # BadUid
           THEN FromCurrent(slot) \cup {CurrentEntity.parents[j]} ELSE FromCurrent(slot)
<1> DEFINE parents == CurrentEntity.parents
<1>1. parents \in Seq(Uid \cup {BadUid})
  BY RequestParts DEF TypeOK, IndicesInRange, CurrentEntity
<1>2. /\ j \in DOMAIN parents /\ parents[j] \in Uid \cup {BadUid}
      /\ \A k \in DOMAIN parents : k < j + 1 <=> (k < j \/ k = j)
  BY <1>1 DEF TypeOK
<1>3. CurrentEntity' = CurrentEntity
  BY DEF CurrentEntity
<1> HIDE DEF parents
<1>4. FromCurrent(slot)' = {uid \in Uid : /\ CurrentEntity.identifier = request.uid[slot]
                                         /\ \E k \in DOMAIN parents : k < j + 1 /\ parents[k] = uid}
  BY <1>3 DEF FromCurrent, parents
<1>5. FromCurrent(slot) = {uid \in Uid : /\ CurrentEntity.identifier = request.uid[slot]
                                        /\ \E k \in DOMAIN parents : k < j /\ parents[k] = uid}
  BY DEF FromCurrent, parents
<1>6. slot \in Matched(CurrentEntity) <=> CurrentEntity.identifier = request.uid[slot]
  BY DEF Matched
<1>7. {uid \in Uid : \E k \in DOMAIN parents : k < j + 1 /\ parents[k] = uid} =
        {uid \in Uid : \E k \in DOMAIN parents : k < j /\ parents[k] = uid}
          \cup (IF parents[j] # BadUid THEN {parents[j]} ELSE {})
  BY <1>2, SentinelAssumption
<1> QED
  BY <1>4, <1>5, <1>6, <1>7 DEF parents

LEMMA GroupStep ==
  ASSUME TypeOK, j <= Len(request.groups), j' = j + 1, UNCHANGED request, NEW slot \in Slot
  PROVE  FromGroups(slot)' = IF slot = "principal"
                             THEN FromGroups(slot) \cup {request.groups[j]} ELSE FromGroups(slot)
<1>1. /\ request.groups \in Seq(Uid) /\ j \in DOMAIN request.groups
      /\ request.groups[j] \in Uid
      /\ \A g \in DOMAIN request.groups : g < j + 1 <=> (g < j \/ g = j)
  BY RequestParts, ElementOf, EntityIndex DEF TypeOK
<1>2. FromGroups(slot)' =
        {uid \in Uid : /\ slot = "principal"
                       /\ \E g \in DOMAIN request.groups : g < j + 1 /\ request.groups[g] = uid}
  BY DEF FromGroups
<1> QED
  BY <1>1, <1>2 DEF FromGroups

LEMMA EntityStep ==
  ASSUME TypeOK, i \in DOMAIN request.entities, NEW slot \in Slot
  PROVE  FromEntities(slot, i + 1) =
           FromEntities(slot, i) \cup
             {uid \in Uid : CurrentEntity.identifier = request.uid[slot] /\ ListedUnder(request, i, uid)}
<1>1. \A e \in DOMAIN request.entities : e < i + 1 <=> (e < i \/ e = i)
  BY EntityIndex
<1> QED
  BY <1>1 DEF FromEntities, CurrentEntity

LEMMA InitParents == Init => ParentsSoFar
<1> SUFFICES ASSUME Init PROVE ParentsSoFar
  OBVIOUS
<1>1. \A s \in Slot : ctx.parents[s] = {}
  BY DEF Init, CallInit
<1> QED
  BY <1>1 DEF Init, CallInit, ParentsSoFar, ParentsComplete, Evaluating, EvalPhase

LEMMA NextParents == TypeOK /\ ParentsSoFar /\ [Next]_vars => ParentsSoFar'
  <1> SUFFICES ASSUME TypeOK, ParentsSoFar, [Next]_vars PROVE ParentsSoFar'
    OBVIOUS
  <1>0. /\ ctx \in EvalCtx /\ DOMAIN ctx.parents = Slot
        /\ \A s \in Slot : ctx.parents[s] \subseteq Uid
    BY DEF TypeOK, EvalCtx
  <1>1. CASE CheckStoreId
    <2>1. /\ pc = "storeId" /\ UNCHANGED <<store, request, i, j, ctx>>
          /\ pc' = IF request.policyStoreId = store.id THEN "context" ELSE "done"
      BY <1>1 DEF CheckStoreId
    <2> QED
      BY <2>1 DEF ParentsSoFar, ParentsComplete, Evaluating, EvalPhase
  <1>2. CASE ApplyContextEntry
    <2>1. pc = "context" /\ UNCHANGED <<request, pc, i>> /\ ctx'.parents = ctx.parents
      BY <1>0, <1>2 DEF ApplyContextEntry, EvalCtx
    <2> QED
      BY <2>1 DEF ParentsSoFar, ParentsComplete, Evaluating, EvalPhase
  <1>3. CASE ContextDone
    <2>1. /\ pc = "context" /\ pc' = "attributes" /\ i' = 1
          /\ \A s \in Slot : ctx'.parents[s] = {}
          /\ UNCHANGED request
      BY <1>3 DEF ContextDone, ParentsSoFar
    <2>2. \A s \in Slot : FromEntities(s, i)' = {}
      BY <2>1, EntityIndex DEF FromEntities
    <2> QED
      BY <2>1, <2>2 DEF ParentsSoFar, ParentsComplete, Evaluating, EvalPhase
  <1>4. CASE SkipEntity
    <2>1. /\ pc = "attributes" /\ i \in DOMAIN request.entities
          /\ CurrentEntity.identifier = BadUid
          /\ i' = i + 1 /\ UNCHANGED <<store, request, pc, ctx>>
      BY <1>4, RequestParts, ElementOf DEF SkipEntity, TypeOK
    <2>2. \A s \in Slot : FromEntities(s, i + 1) = FromEntities(s, i)
      BY <2>1, EntityStep, EntityIndex
    <2>3. \A s \in Slot : FromEntities(s, i)' = FromEntities(s, i + 1)
      BY <2>1 DEF FromEntities
    <2> QED
      BY <2>1, <2>2, <2>3 DEF ParentsSoFar, ParentsComplete, Evaluating, EvalPhase
  <1>5. CASE ApplyEntityAttr
    <2>1. pc = "attributes" /\ UNCHANGED <<store, request, pc, i>>
      BY <1>5 DEF ApplyEntityAttr
    <2>2. ctx'.parents = ctx.parents
      BY <1>0, <1>5 DEF ApplyEntityAttr, EvalCtx
    <2> QED
      BY <2>1, <2>2 DEF ParentsSoFar, ParentsComplete, Evaluating, EvalPhase, FromEntities
  <1>6. CASE AttributesDone
    <2>1. /\ pc = "attributes" /\ pc' = "parents" /\ j' = 1
          /\ i \in DOMAIN request.entities
          /\ UNCHANGED <<store, request, i, ctx>>
      BY <1>6, RequestParts, ElementOf DEF AttributesDone, TypeOK
    <2>2. \A s \in Slot : FromCurrent(s)' = {}
      <3>1. CurrentEntity.parents \in Seq(Uid \cup {BadUid}) /\ CurrentEntity' = CurrentEntity
        BY <2>1, RequestParts DEF TypeOK, CurrentEntity
      <3>2. \A k \in DOMAIN CurrentEntity.parents : ~(k < 1)
        BY <3>1
      <3> QED
        BY <2>1, <3>1, <3>2 DEF FromCurrent
    <2>3. \A s \in Slot : FromEntities(s, i)' = FromEntities(s, i)
      BY <2>1 DEF FromEntities
    <2> QED
      BY <2>1, <2>2, <2>3 DEF ParentsSoFar, ParentsComplete, Evaluating, EvalPhase
  <1>7. CASE ApplyEntityParent
    <2> DEFINE parent == CurrentEntity.parents[j]
               targets == Matched(CurrentEntity)
    <2>1. /\ pc = "parents" /\ j <= Len(CurrentEntity.parents) /\ j' = j + 1
          /\ UNCHANGED <<store, request, pc, i>>
      BY <1>7 DEF ApplyEntityParent
    <2>2. parent \in Uid \cup {BadUid}
      BY <2>1, RequestParts, ElementOf DEF TypeOK, IndicesInRange, CurrentEntity
    <2>3. \A s \in Slot : ctx'.parents[s] = IF s \in targets /\ parent # BadUid
                                            THEN ctx.parents[s] \cup {parent} ELSE ctx.parents[s]
      <3>1. CASE parent = BadUid
        BY <1>7, <3>1 DEF ApplyEntityParent
      <3>2. CASE parent # BadUid
        <4>1. ctx' = AddParent(targets, parent)
          BY <1>7, <3>2 DEF ApplyEntityParent
        <4> QED
          BY <1>0, <2>2, <3>2, <4>1, AddParentType
      <3> QED
        BY <3>1, <3>2
    <2>4. \A s \in Slot : FromCurrent(s)' = IF s \in targets /\ parent # BadUid
                                            THEN FromCurrent(s) \cup {parent} ELSE FromCurrent(s)
      BY <2>1, ParentStep
    <2>5. \A s \in Slot : FromEntities(s, i)' = FromEntities(s, i)
      BY <2>1 DEF FromEntities
    <2>6. \A s \in Slot : ctx.parents[s] = FromEntities(s, i) \cup FromCurrent(s)
      BY <2>1 DEF ParentsSoFar
    <2>7. \A s \in Slot : ctx'.parents[s] = FromEntities(s, i)' \cup FromCurrent(s)'
      BY <2>3, <2>4, <2>5, <2>6
    <2> QED
      BY <2>1, <2>7 DEF ParentsSoFar, ParentsComplete, Evaluating, EvalPhase
  <1>8. CASE ParentsDone
    <2>1. /\ pc = "parents" /\ j > Len(CurrentEntity.parents)
          /\ pc' = "attributes" /\ i' = i + 1
          /\ i \in DOMAIN request.entities
          /\ UNCHANGED <<store, request, ctx>>
      BY <1>8 DEF ParentsDone, TypeOK, IndicesInRange
    <2>2. \A k \in DOMAIN CurrentEntity.parents : k < j
      <3>1. CurrentEntity.parents \in Seq(Uid \cup {BadUid})
        BY <2>1, RequestParts DEF TypeOK, CurrentEntity
      <3> QED
        BY <2>1, <3>1, EntityIndex
    <2>3. \A s \in Slot : FromCurrent(s) =
            {uid \in Uid : CurrentEntity.identifier = request.uid[s] /\ ListedUnder(request, i, uid)}
      BY <2>2 DEF FromCurrent, ListedUnder, CurrentEntity
    <2>4. \A s \in Slot : FromEntities(s, i)' = FromEntities(s, i) \cup FromCurrent(s)
      <3>1. \A s \in Slot : FromEntities(s, i)' = FromEntities(s, i + 1)
        BY <2>1 DEF FromEntities
      <3> QED
        BY <2>1, <2>3, <3>1, EntityStep
    <2> QED
      BY <2>1, <2>4 DEF ParentsSoFar, ParentsComplete, Evaluating, EvalPhase
  <1>9. CASE EntitiesDone
    <2>1. /\ pc = "attributes" /\ pc' = "groups" /\ j' = 1 /\ i > Len(request.entities)
          /\ UNCHANGED <<store, request, i, ctx>>
      BY <1>9 DEF EntitiesDone
    <2>2. \A s \in Slot : FromGroups(s)' = {}
      BY <2>1, EntityIndex DEF FromGroups
    <2>3. \A s \in Slot : FromEntities(s, i)' = FromEntities(s, i)
      BY <2>1 DEF FromEntities
    <2> QED
      BY <2>1, <2>2, <2>3 DEF ParentsSoFar, ParentsComplete, Evaluating, EvalPhase
  <1>10. CASE ApplyGroup
    <2>1. /\ pc = "groups" /\ j <= Len(request.groups) /\ j' = j + 1
          /\ ctx' = AddParent({"principal"}, request.groups[j])
          /\ UNCHANGED <<store, request, pc, i>>
      BY <1>10 DEF ApplyGroup
    <2>2. request.groups[j] \in Uid
      BY <2>1, RequestParts, ElementOf DEF TypeOK
    <2>3. \A s \in Slot : ctx'.parents[s] = IF s = "principal"
                          THEN ctx.parents[s] \cup {request.groups[j]} ELSE ctx.parents[s]
      <3> DEFINE targets == {"principal"}
      <3>1. ctx' = AddParent(targets, request.groups[j])
        BY <2>1
      <3> HIDE DEF targets
      <3>2. \A s \in Slot : ctx'.parents[s] = IF s \in targets
                          THEN ctx.parents[s] \cup {request.groups[j]} ELSE ctx.parents[s]
        BY <1>0, <2>2, <3>1, AddParentType
      <3> QED
        BY <3>2 DEF targets
    <2>4. \A s \in Slot : FromGroups(s)' = IF s = "principal"
                          THEN FromGroups(s) \cup {request.groups[j]} ELSE FromGroups(s)
      BY <2>1, GroupStep
    <2>5. \A s \in Slot : FromEntities(s, i)' = FromEntities(s, i)
      BY <2>1 DEF FromEntities
    <2>6. \A s \in Slot : ctx.parents[s] = FromEntities(s, i) \cup FromGroups(s)
      BY <2>1 DEF ParentsSoFar
    <2>7. \A s \in Slot : ctx'.parents[s] = FromEntities(s, i)' \cup FromGroups(s)'
      BY <2>3, <2>4, <2>5, <2>6
    <2> QED
      BY <2>1, <2>7 DEF ParentsSoFar, ParentsComplete, Evaluating, EvalPhase
  <1>11. CASE GroupsDone
    <2>1. /\ pc = "groups" /\ pc' = "bundles" /\ j > Len(request.groups)
          /\ UNCHANGED <<store, request, ctx>>
      BY <1>11 DEF GroupsDone
    <2>2. i > Len(request.entities)
      BY <2>1 DEF ParentsSoFar
    <2>3. /\ \A e \in DOMAIN request.entities : e < i
          /\ \A g \in DOMAIN request.groups : g < j
      <3>1. request.entities \in Seq(Entity) /\ request.groups \in Seq(Uid) /\ i \in Nat /\ j \in Nat
        BY RequestParts DEF TypeOK
      <3>2. Len(request.entities) \in Nat /\ Len(request.groups) \in Nat
        BY <3>1
      <3> HIDE DEF TypeOK
      <3> QED
        BY <2>1, <2>2, <3>1, <3>2, EntityIndex
    <2>4. \A s \in Slot : FromEntities(s, i) \cup FromGroups(s) = DeclaredParents(request, s)
      BY <2>3 DEF FromEntities, FromGroups, DeclaredParents
    <2>5. \A s \in Slot : ctx'.parents[s] = DeclaredParents(request', s)
      BY <2>1, <2>4 DEF ParentsSoFar
    <2> QED
      BY <2>1, <2>5 DEF ParentsSoFar, ParentsComplete
  <1>12. CASE BeginBundle \/ TestForbid \/ ForbidDone \/ TestPermit \/ PermitDone \/ Finalize
    <2>1. /\ pc \in EvalPhase /\ pc' \in EvalPhase /\ UNCHANGED <<store, request, ctx>>
      BY <1>12 DEF BeginBundle, TestForbid, ForbidDone, TestPermit, PermitDone, Finalize, EvalPhase
    <2> QED
      BY <2>1 DEF ParentsSoFar, ParentsComplete, Evaluating, EvalPhase
  <1>13. CASE UNCHANGED vars
    BY <1>13 DEF vars, ParentsSoFar, ParentsComplete, Evaluating, FromEntities, FromCurrent,
                 FromGroups, CurrentEntity
  <1> QED
    BY <1>1, <1>2, <1>3, <1>4, <1>5, <1>6, <1>7, <1>8, <1>9, <1>10, <1>11, <1>12, <1>13 DEF Next

(***************************************************************************)
(* Every slot is evaluated with exactly the ancestors the request gives    *)
(* it, for every request.                                                  *)
(***************************************************************************)
THEOREM ParentsAreComplete == Spec => []ParentsComplete
<1>1. Init => TypeOK /\ ParentsSoFar
  BY InitType, InitParents
<1>2. TypeOK /\ ParentsSoFar /\ [Next]_vars => (TypeOK /\ ParentsSoFar)'
  BY NextType, NextParents
<1>3. ParentsSoFar => ParentsComplete
  BY DEF ParentsSoFar
<1> QED
  BY <1>1, <1>2, <1>3, PTL DEF Spec
-----------------------------------------------------------------------------
(***************************************************************************)
(* The call changes neither the store nor the request.                     *)
(***************************************************************************)
LEMMA InputsFixed == [Next]_vars => request' = request /\ store' = store
  BY DEF Next, vars, CheckStoreId, ApplyContextEntry, ContextDone, SkipEntity, ApplyEntityAttr,
         AttributesDone, ApplyEntityParent, ParentsDone, EntitiesDone, ApplyGroup, GroupsDone,
         BeginBundle, TestForbid, ForbidDone, TestPermit, PermitDone, Finalize

(***************************************************************************)
(* Where the request loop is among the attribute entries of the request.   *)
(***************************************************************************)
Cursor ==
  IF pc \in {"storeId", "context"} THEN <<0, j>>
  ELSE IF pc = "attributes" THEN <<i, j>>
  ELSE IF pc = "parents" THEN <<i + 1, 1>>
  ELSE <<Len(request.entities) + 1, 1>>

Before(slot, at) == {b \in Positions(request, slot) : Precedes(b, at)}

(***************************************************************************)
(* What the entries of a slot that are behind the cursor leave in it: the  *)
(* attributes that they give it and, in a leading slot, every name with a  *)
(* value.                                                                  *)
(***************************************************************************)
Gives(slot, at) ==
  /\ at \in FirstValued(request, slot)
  /\ EntryAt(request, at).ok \/ LeadingSlot(request, slot)

AttrOf(at) == [name |-> EntryAt(request, at).name, value |-> EntryAt(request, at).value]

Valued(past, name) ==
  \E b \in past : EntryAt(request, b).value # NoValue /\ EntryAt(request, b).name = name

Exact(slot, past, attrs) ==
  /\ attrs = {AttrOf(at) : at \in {b \in past : Gives(slot, b)}}
  /\ LeadingSlot(request, slot) => \A n \in Name : Valued(past, n) => HasName(attrs, n)

AttrsExact == \A s \in AttrSlot : Exact(s, Before(s, Cursor), ctx.attrs[s])

(***************************************************************************)
(* The strengthening of AttributesComplete.  The index of an entity starts *)
(* at its first attribute, also after an entity that is skipped.           *)
(***************************************************************************)
AttributesInOrder ==
  /\ pc \in {"storeId", "context"} => i = 1
  /\ pc = "storeId" => j = 1
  /\ pc = "attributes" /\ j # 1 => i \in DOMAIN request.entities /\ CurrentEntity.identifier # BadUid

AttributesSoFar ==
  /\ AttributesInOrder
  /\ (pc \in EvalPhase => Evaluating) => AttrsExact

LEMMA PositionParts ==
  ASSUME TypeOK, NEW s \in AttrSlot, NEW at \in Positions(request, s)
  PROVE  /\ at = <<at[1], at[2]>> /\ at[1] \in Nat /\ at[2] \in Nat \ {0}
         /\ EntryAt(request, at) \in AttrEntry /\ EntryAt(request, at).name # NoName
         /\ s = "context" => at[1] = 0 /\ at[2] \in DOMAIN request.context
         /\ s # "context" => /\ at[1] \in DOMAIN request.entities
                             /\ request.entities[at[1]].identifier = request.uid[s]
                             /\ at[2] \in DOMAIN request.entities[at[1]].attributes
<1>1. EntryAt(request, at).name # NoName
  BY DEF Positions
<1>2. CASE s = "context"
  <2>1. PICK k \in DOMAIN request.context : at = <<0, k>>
    BY <1>2 DEF Positions
  <2> QED
    BY <1>1, <1>2, <2>1, RequestParts, ElementAt DEF TypeOK, EntryAt
<1>3. CASE s # "context"
  <2>1. PICK e \in DOMAIN request.entities :
          /\ request.entities[e].identifier = request.uid[s]
          /\ \E k \in DOMAIN request.entities[e].attributes : at = <<e, k>>
    BY <1>3 DEF Positions
  <2>2. PICK k \in DOMAIN request.entities[e].attributes : at = <<e, k>>
    BY <2>1
  <2>3. e \in Nat /\ e # 0 /\ k \in Nat \ {0} /\ request.entities[e].attributes[k] \in AttrEntry
    BY RequestParts, ElementAt DEF TypeOK
  <2>4. EntryAt(request, at) = request.entities[e].attributes[k]
    BY <2>2, <2>3 DEF EntryAt
  <2> QED
    BY <1>1, <1>3, <2>1, <2>2, <2>3, <2>4
<1> QED
  BY <1>2, <1>3

LEMMA ContextPosition ==
  ASSUME NEW k \in DOMAIN request.context, request.context[k].name # NoName
  PROVE  /\ <<0, k>> \in Positions(request, "context")
         /\ EntryAt(request, <<0, k>>) = request.context[k]
  BY DEF Positions, EntryAt

LEMMA EntityPosition ==
  ASSUME TypeOK, NEW e \in DOMAIN request.entities, NEW s \in Slot,
         request.entities[e].identifier = request.uid[s],
         NEW k \in DOMAIN request.entities[e].attributes,
         request.entities[e].attributes[k].name # NoName
  PROVE  /\ <<e, k>> \in Positions(request, s)
         /\ EntryAt(request, <<e, k>>) = request.entities[e].attributes[k]
<1>1. e # 0 /\ s # "context"
  BY RequestParts DEF TypeOK, Slot
<1>2. EntryAt(request, <<e, k>>) = request.entities[e].attributes[k]
  BY <1>1 DEF EntryAt
<1> QED
  BY <1>1, <1>2 DEF Positions

(***************************************************************************)
(* Slots of one identifier have the same entries, and a slot that does not *)
(* lead follows one that does.                                             *)
(***************************************************************************)
LEMMA SameEntries ==
  ASSUME NEW s \in Slot, NEW t \in Slot, request.uid[s] = request.uid[t]
  PROVE  /\ Positions(request, s) = Positions(request, t)
         /\ FirstValued(request, s) = FirstValued(request, t)
         /\ \A c : Before(s, c) = Before(t, c)
<1>1. s # "context" /\ t # "context"
  BY DEF Slot
<1>2. Positions(request, s) = Positions(request, t)
  BY <1>1 DEF Positions
<1> QED
  BY <1>2 DEF FirstValued, Before

LEMMA LeaderOf ==
  ASSUME NEW s \in Slot
  PROVE  /\ LeadingSlot(request, s) <=> \A t \in Earlier(s) : request.uid[t] # request.uid[s]
         /\ ~LeadingSlot(request, s) =>
              \E t \in Earlier(s) : LeadingSlot(request, t) /\ request.uid[t] = request.uid[s]
         /\ Earlier(s) \subseteq Slot
  BY DEF Slot, Earlier, LeadingSlot

(***************************************************************************)
(* An entry gives a slot its value if it has one that none before it has.  *)
(***************************************************************************)
LEMMA GivesMeans ==
  ASSUME NEW s \in AttrSlot, NEW c \in Positions(request, s)
  PROVE  Gives(s, c) <=>
           /\ EntryAt(request, c).value # NoValue
           /\ ~Valued(Before(s, c), EntryAt(request, c).name)
           /\ EntryAt(request, c).ok \/ LeadingSlot(request, s)
  BY DEF Gives, FirstValued, Valued, Before

LEMMA NamesAreValued ==
  ASSUME NEW s \in AttrSlot, NEW past, NEW attrs, Exact(s, past, attrs), NEW n \in Name
  PROVE  /\ HasName(attrs, n) => Valued(past, n)
         /\ LeadingSlot(request, s) => (Valued(past, n) <=> HasName(attrs, n))
<1>1. ASSUME HasName(attrs, n) PROVE Valued(past, n)
  <2>1. PICK at \in past : Gives(s, at) /\ AttrOf(at).name = n
    BY <1>1 DEF HasName, Exact
  <2>2. EntryAt(request, at).value # NoValue /\ EntryAt(request, at).name = n
    BY <2>1 DEF Gives, FirstValued, AttrOf
  <2> QED
    BY <2>2 DEF Valued
<1> QED
  BY <1>1 DEF Exact

LEMMA ExactStep ==
  ASSUME NEW s \in AttrSlot, NEW c \in Positions(request, s), NEW attrs, NEW after,
         Exact(s, Before(s, c), attrs),
         EntryAt(request, c).name \in Name,
         after = IF Gives(s, c) THEN attrs \cup {AttrOf(c)} ELSE attrs
  PROVE  Exact(s, Before(s, c) \cup {c}, after)
<1> DEFINE past == Before(s, c)
<1>1. after = {AttrOf(at) : at \in {b \in past \cup {c} : Gives(s, b)}}
  <2>1. attrs = {AttrOf(at) : at \in {b \in past : Gives(s, b)}}
    BY DEF Exact
  <2> HIDE DEF past
  <2> QED
    BY <2>1
<1>2. ASSUME LeadingSlot(request, s), NEW n \in Name, Valued(past \cup {c}, n)
      PROVE  HasName(after, n)
  <2>1. CASE Valued(past, n)
    <3>1. HasName(attrs, n)
      BY <1>2, <2>1 DEF Exact
    <3> QED
      BY <3>1 DEF HasName
  <2>2. CASE ~Valued(past, n)
    <3>1. EntryAt(request, c).value # NoValue /\ EntryAt(request, c).name = n
      BY <1>2, <2>2 DEF Valued
    <3>2. Gives(s, c)
      BY <1>2, <2>2, <3>1, GivesMeans
    <3>3. AttrOf(c) \in after /\ AttrOf(c).name = n
      BY <3>1, <3>2 DEF AttrOf
    <3> QED
      BY <3>3 DEF HasName
  <2> QED
    BY <2>1, <2>2
<1> HIDE DEF past
<1> QED
  BY <1>1, <1>2 DEF Exact, past

(***************************************************************************)
(* The step of the cursor over one entry.                                  *)
(***************************************************************************)
LEMMA CursorStep ==
  ASSUME TypeOK, NEW s \in AttrSlot, NEW e \in Nat, NEW k \in Nat
  PROVE  Before(s, <<e, k + 1>>) =
           IF <<e, k>> \in Positions(request, s)
           THEN Before(s, <<e, k>>) \cup {<<e, k>>} ELSE Before(s, <<e, k>>)
<1>1. ASSUME NEW b \in Positions(request, s)
      PROVE  Precedes(b, <<e, k + 1>>) <=> (Precedes(b, <<e, k>>) \/ b = <<e, k>>)
  <2>1. b = <<b[1], b[2]>> /\ b[1] \in Nat /\ b[2] \in Nat
    BY PositionParts
  <2>2. b = <<e, k>> <=> (b[1] = e /\ b[2] = k)
    BY <2>1
  <2> QED
    BY <2>1, <2>2 DEF Precedes
<1> QED
  BY <1>1 DEF Before

LEMMA ExactKept ==
  ASSUME request' = request, ctx'.attrs = ctx.attrs, AttrsExact,
         \A s \in AttrSlot : Before(s, Cursor)' = Before(s, Cursor)
  PROVE  AttrsExact'
<1> SUFFICES ASSUME NEW s \in AttrSlot
             PROVE  Exact(s, Before(s, Cursor), ctx.attrs[s])'
  BY DEF AttrsExact
<1>1. Exact(s, Before(s, Cursor), ctx.attrs[s])
  BY DEF AttrsExact
<1> QED
  BY <1>1 DEF Exact, Valued, AttrOf, Gives

(***************************************************************************)
(* php_cedar_attrs_has_name lets exactly the entries through that give     *)
(* their slot a value, and the stop at the first slot that fails is what   *)
(* keeps a half-applied entry from the slots that follow.                  *)
(***************************************************************************)
LEMMA PushIsExact ==
  ASSUME TypeOK, AttrsExact, NEW s \in AttrSlot, NEW c \in Positions(request, s), c = Cursor,
         NEW entry, entry = EntryAt(request, c)
  PROVE  /\ LeadingSlot(request, s) => (Pushes(ctx.attrs[s], entry) <=> Gives(s, c))
         /\ Gives(s, c) => Pushes(ctx.attrs[s], entry)
<1>1. entry \in AttrEntry /\ entry.name # NoName
  BY PositionParts
<1>2. entry.name \in Name
  BY <1>1 DEF AttrEntry
<1>3. Exact(s, Before(s, c), ctx.attrs[s])
  BY DEF AttrsExact
<1>4. HasName(ctx.attrs[s], entry.name) => Valued(Before(s, c), entry.name)
  BY <1>2, <1>3, NamesAreValued
<1>5. LeadingSlot(request, s) =>
        (Valued(Before(s, c), entry.name) <=> HasName(ctx.attrs[s], entry.name))
  BY <1>2, <1>3, NamesAreValued
<1>6. Gives(s, c) <=> /\ entry.value # NoValue
                      /\ ~Valued(Before(s, c), entry.name)
                      /\ entry.ok \/ LeadingSlot(request, s)
  BY GivesMeans
<1> QED
  BY <1>4, <1>5, <1>6 DEF Pushes

LEMMA ReachedIsExact ==
  ASSUME TypeOK, AttrsExact, NEW e \in DOMAIN request.entities, NEW s \in Slot,
         s \in Matched(request.entities[e]),
         NEW c, c = Cursor, c \in Positions(request, s),
         NEW entry, entry = EntryAt(request, c)
  PROVE  (Reached(s, Matched(request.entities[e]), entry) /\ Pushes(ctx.attrs[s], entry))
           <=> Gives(s, c)
<1> DEFINE matched == Matched(request.entities[e])
<1>1. \A t \in matched : t \in Slot /\ request.uid[t] = request.uid[s]
  BY DEF Matched
<1>2. \A t \in Slot : request.uid[t] = request.uid[s] => t \in matched
  BY DEF Matched
<1>3. \A t \in matched : /\ t \in AttrSlot /\ c \in Positions(request, t)
                         /\ LeadingSlot(request, t) => (Pushes(ctx.attrs[t], entry) <=> Gives(t, c))
                         /\ Gives(t, c) => Pushes(ctx.attrs[t], entry)
  <2> SUFFICES ASSUME NEW t \in matched
               PROVE  /\ t \in AttrSlot /\ c \in Positions(request, t)
                      /\ LeadingSlot(request, t) => (Pushes(ctx.attrs[t], entry) <=> Gives(t, c))
                      /\ Gives(t, c) => Pushes(ctx.attrs[t], entry)
    OBVIOUS
  <2>1. t \in AttrSlot
    BY <1>1 DEF AttrSlot
  <2>2. c \in Positions(request, t)
    BY <1>1, SameEntries
  <2> QED
    BY <2>1, <2>2, PushIsExact
<1>4. \A t \in matched : Gives(t, c) <=> c \in FirstValued(request, s)
                                         /\ (entry.ok \/ LeadingSlot(request, t))
  <2>1. \A t \in matched : FirstValued(request, t) = FirstValued(request, s)
    BY <1>1, SameEntries
  <2> QED
    BY <2>1 DEF Gives
<1>5. Reached(s, matched, entry) <=> \A t \in Earlier(s) \cap matched : ApplyOk(ctx.attrs[t], entry)
  BY DEF Reached
<1> HIDE DEF matched
<1>6. CASE LeadingSlot(request, s)
  <2>1. Earlier(s) \cap matched = {}
    BY <1>1, <1>6, LeaderOf
  <2> QED
    BY <1>3, <1>5, <1>6, <2>1 DEF matched
<1>7. CASE ~LeadingSlot(request, s)
  <2>1. PICK t \in Earlier(s) : LeadingSlot(request, t) /\ t \in matched
    BY <1>2, <1>7, LeaderOf
  <2>2. ASSUME Reached(s, matched, entry) PROVE Gives(s, c)
    <3>1. ApplyOk(ctx.attrs[t], entry)
      BY <1>5, <2>1, <2>2
    <3>2. Gives(t, c) /\ entry.ok
      BY <1>3, <2>1, <3>1 DEF ApplyOk
    <3> QED
      BY <1>4, <2>1, <3>2 DEF matched
  <2>3. ASSUME Gives(s, c) PROVE Reached(s, matched, entry) /\ Pushes(ctx.attrs[s], entry)
    <3>1. c \in FirstValued(request, s) /\ entry.ok
      BY <1>4, <1>7, <2>3 DEF matched
    <3>2. \A u \in matched : ApplyOk(ctx.attrs[u], entry)
      BY <1>3, <1>4, <3>1 DEF ApplyOk
    <3> QED
      BY <1>3, <1>5, <2>3, <3>2 DEF matched
  <2> QED
    BY <2>2, <2>3 DEF matched
<1> QED
  BY <1>6, <1>7

LEMMA ExactPrimed ==
  ASSUME request' = request,
         \A s \in AttrSlot : Exact(s, Before(s, Cursor)', ctx'.attrs[s])
  PROVE  AttrsExact'
  BY DEF AttrsExact, Exact, Valued, AttrOf, Gives

LEMMA AddParentAttrs ==
  ASSUME TypeOK, NEW targets, NEW uid
  PROVE  AddParent(targets, uid).attrs = ctx.attrs
  BY DEF TypeOK, AddParent, EvalCtx

LEMMA InitAttributes == Init => AttributesSoFar
<1> SUFFICES ASSUME Init PROVE AttributesSoFar
  OBVIOUS
<1>1. TypeOK
  BY InitType
<1>2. pc = "storeId" /\ i = 1 /\ j = 1 /\ Cursor = <<0, 1>>
  BY DEF Init, CallInit, Cursor
<1>3. \A s \in AttrSlot : ctx.attrs[s] = {}
  BY DEF Init, CallInit
<1>4. \A s \in AttrSlot : Before(s, Cursor) = {}
  <2> SUFFICES ASSUME NEW s \in AttrSlot, NEW b \in Positions(request, s)
               PROVE  ~Precedes(b, <<0, 1>>)
    BY <1>2 DEF Before
  <2>1. b[1] \in Nat /\ b[2] \in Nat \ {0}
    BY <1>1, PositionParts
  <2> QED
    BY <2>1 DEF Precedes
<1>5. AttrsExact
  BY <1>3, <1>4 DEF AttrsExact, Exact, Valued
<1> QED
  BY <1>2, <1>5 DEF AttributesSoFar, AttributesInOrder

LEMMA NextAttributes == TypeOK /\ AttributesSoFar /\ [Next]_vars => AttributesSoFar'
<1> SUFFICES ASSUME TypeOK, AttributesSoFar, [Next]_vars PROVE AttributesSoFar'
  OBVIOUS
<1>1. /\ TypeOK' /\ request' = request /\ store' = store
      /\ i \in Nat \ {0} /\ j \in Nat \ {0}
  <2>1. TypeOK'
    BY NextType
  <2>2. request' = request /\ store' = store
    BY InputsFixed
  <2> QED
    BY <2>1, <2>2 DEF TypeOK
<1>2. \A s \in AttrSlot : \A b \in Positions(request, s) :
        /\ b = <<b[1], b[2]>> /\ b[1] \in Nat /\ b[2] \in Nat \ {0}
        /\ s = "context" => b[1] = 0 /\ b[2] \in DOMAIN request.context
        /\ s # "context" => /\ b[1] \in DOMAIN request.entities
                            /\ request.entities[b[1]].identifier = request.uid[s]
                            /\ b[2] \in DOMAIN request.entities[b[1]].attributes
  BY PositionParts
<1>3. ASSUME NEW c, AttrsExact, ctx'.attrs = ctx.attrs, Cursor' = c,
             \A s \in AttrSlot : \A b \in Positions(request, s) : Precedes(b, c) <=> Precedes(b, Cursor)
      PROVE  AttrsExact'
  <2>1. \A s \in AttrSlot : Before(s, Cursor)' = Before(s, Cursor)
    BY <1>1, <1>3 DEF Before
  <2> QED
    BY <1>1, <1>3, <2>1, ExactKept
<1>4. CASE CheckStoreId
  <2>1. pc = "storeId" /\ UNCHANGED <<i, j, ctx>> /\ Cursor = <<0, j>> /\ AttrsExact
    BY <1>4 DEF CheckStoreId, Cursor, AttributesSoFar, EvalPhase
  <2>2. CASE pc' = "context"
    <3>1. Cursor' = <<0, j>>
      BY <2>1, <2>2 DEF Cursor
    <3>2. AttrsExact'
      BY <1>3, <2>1, <3>1
    <3> QED
      BY <2>1, <2>2, <3>2 DEF AttributesSoFar, AttributesInOrder
  <2>3. CASE pc' # "context"
    <3>1. pc' = "done" /\ ~Evaluating'
      BY <1>1, <1>4, <2>3 DEF CheckStoreId, Evaluating
    <3> QED
      BY <3>1 DEF AttributesSoFar, AttributesInOrder, EvalPhase
  <2> QED
    BY <2>2, <2>3
<1>5. CASE ApplyContextEntry
  <2> DEFINE entry == request.context[j]
             at == <<0, j>>
  <2>1. /\ pc = "context" /\ pc' = "context" /\ i' = i /\ j' = j + 1
        /\ j \in DOMAIN request.context
        /\ Cursor = at /\ Cursor' = <<0, j + 1>> /\ AttrsExact
    BY <1>5, <1>1, RequestParts, ElementOf
    DEF ApplyContextEntry, Cursor, AttributesSoFar, EvalPhase, TypeOK
  <2>2. \A s \in AttrSlot : Before(s, Cursor)' =
          IF at \in Positions(request, s) THEN Before(s, at) \cup {at} ELSE Before(s, at)
    <3>1. \A s \in AttrSlot : Before(s, Cursor)' = Before(s, <<0, j + 1>>)
      BY <1>1, <2>1 DEF Before
    <3> QED
      BY <1>1, <3>1, CursorStep
  <2>3. \A s \in Slot : at \notin Positions(request, s)
    <3>1. \A s \in Slot : s \in AttrSlot /\ s # "context"
      BY DEF Slot, AttrSlot
    <3>2. 0 \notin DOMAIN request.entities
      BY RequestParts DEF TypeOK
    <3> QED
      BY <1>2, <3>1, <3>2
  <2>4. "context" \in AttrSlot /\ \A s \in AttrSlot : s = "context" \/ s \in Slot
    BY DEF AttrSlot
  <2>5. AttrsExact'
    <3>1. CASE entry.name = NoName
      <4>1. ctx' = ctx
        BY <1>5, <3>1 DEF ApplyContextEntry
      <4>2. at \notin Positions(request, "context")
        BY <3>1 DEF Positions, EntryAt
      <4>3. \A s \in AttrSlot : Before(s, Cursor)' = Before(s, Cursor)
        BY <2>1, <2>2, <2>3, <2>4, <4>2
      <4> QED
        BY <1>1, <2>1, <4>1, <4>3, ExactKept
    <3>2. CASE entry.name # NoName
      <4>1. at \in Positions(request, "context") /\ entry = EntryAt(request, at)
        BY <2>1, <3>2, ContextPosition
      <4>2. entry.name \in Name
        BY <2>1, <3>2, RequestParts, ElementAt DEF TypeOK, AttrEntry
      <4>3. LeadingSlot(request, "context")
        BY DEF LeadingSlot
      <4>4. Pushes(ctx.attrs["context"], entry) <=> Gives("context", at)
        BY <2>1, <2>4, <4>1, <4>3, PushIsExact
      <4>5. /\ ctx'.attrs["context"] = Push(ctx.attrs["context"], entry)
            /\ \A s \in Slot : ctx'.attrs[s] = ctx.attrs[s]
        <5>1. ctx' = [ctx EXCEPT !.attrs["context"] = Push(ctx.attrs["context"], entry)]
          BY <1>5, <3>2 DEF ApplyContextEntry
        <5>2. ctx.attrs \in [AttrSlot -> SUBSET Attr] /\ ctx \in EvalCtx
          BY DEF TypeOK, EvalCtx
        <5> QED
          BY <5>1, <5>2, <2>4 DEF EvalCtx, AttrSlot, Slot
      <4>6. ctx'.attrs["context"] = IF Gives("context", at)
                                    THEN ctx.attrs["context"] \cup {AttrOf(at)} ELSE ctx.attrs["context"]
        BY <4>1, <4>4, <4>5 DEF Push, AttrOf
      <4>7. Exact("context", Before("context", at) \cup {at}, ctx'.attrs["context"])
        <5>1. Exact("context", Before("context", at), ctx.attrs["context"])
          BY <2>1, <2>4 DEF AttrsExact
        <5> QED
          BY <2>4, <4>1, <4>2, <4>6, <5>1, ExactStep
      <4>8. \A s \in Slot : Exact(s, Before(s, at), ctx.attrs[s])
        BY <2>1 DEF AttrsExact, AttrSlot
      <4>9. ASSUME NEW s \in AttrSlot PROVE Exact(s, Before(s, Cursor)', ctx'.attrs[s])
        <5>1. CASE s = "context"
          BY <2>2, <4>1, <4>7, <5>1
        <5>2. CASE s \in Slot
          BY <2>2, <2>3, <2>4, <4>5, <4>8, <5>2
        <5> QED
          BY <2>4, <5>1, <5>2
      <4> QED
        BY <1>1, <4>9, ExactPrimed
    <3> QED
      BY <3>1, <3>2
  <2> QED
    BY <2>1, <2>5 DEF AttributesSoFar, AttributesInOrder
<1>6. CASE ContextDone
  <2>1. /\ pc = "context" /\ pc' = "attributes" /\ i = 1 /\ i' = 1 /\ j' = 1 /\ ctx' = ctx
        /\ j > Len(request.context)
        /\ Cursor = <<0, j>> /\ Cursor' = <<1, 1>> /\ AttrsExact
    BY <1>6 DEF ContextDone, Cursor, AttributesSoFar, AttributesInOrder, EvalPhase
  <2>2. ASSUME NEW s \in AttrSlot, NEW b \in Positions(request, s)
        PROVE  Precedes(b, <<1, 1>>) <=> Precedes(b, Cursor)
    <3>1. CASE s = "context"
      <4>1. b[1] = 0 /\ b[2] \in Nat /\ b[2] < j
        BY <1>1, <1>2, <2>1, <3>1, RequestParts, SMTT(30) DEF TypeOK
      <4> QED
        BY <1>1, <2>1, <4>1 DEF Precedes
    <3>2. CASE s # "context"
      <4>1. b[1] \in Nat \ {0} /\ b[2] \in Nat \ {0}
        BY <1>2, <3>2, RequestParts DEF TypeOK
      <4> QED
        BY <1>1, <2>1, <4>1 DEF Precedes
    <3> QED
      BY <3>1, <3>2
  <2>3. AttrsExact'
    BY <1>3, <2>1, <2>2
  <2> QED
    BY <2>1, <2>3 DEF AttributesSoFar, AttributesInOrder
<1>7. CASE SkipEntity
  <2>1. /\ pc = "attributes" /\ pc' = "attributes" /\ i' = i + 1 /\ j' = j /\ ctx' = ctx
        /\ j = 1 /\ i \in DOMAIN request.entities /\ request.entities[i].identifier = BadUid
        /\ Cursor = <<i, 1>> /\ Cursor' = <<i + 1, 1>> /\ AttrsExact
    BY <1>7, <1>1, RequestParts, ElementOf
    DEF SkipEntity, Cursor, AttributesSoFar, AttributesInOrder, EvalPhase, TypeOK, CurrentEntity
  <2>2. ASSUME NEW s \in AttrSlot, NEW b \in Positions(request, s)
        PROVE  Precedes(b, <<i + 1, 1>>) <=> Precedes(b, Cursor)
    <3>1. b[1] # i
      <4>1. CASE s = "context"
        BY <1>1, <1>2, <4>1
      <4>2. CASE s # "context"
        <5>1. s \in Slot
          BY <4>2 DEF AttrSlot
        <5> QED
          BY <1>2, <2>1, <4>2, <5>1, EntityIndex
      <4> QED
        BY <4>1, <4>2
    <3> QED
      BY <1>1, <1>2, <2>1, <3>1 DEF Precedes
  <2>3. AttrsExact'
    BY <1>3, <2>1, <2>2
  <2> QED
    BY <2>1, <2>3 DEF AttributesSoFar, AttributesInOrder
<1>8. CASE ApplyEntityAttr
  <2> DEFINE entry == CurrentEntity.attributes[j]
             matched == Matched(CurrentEntity)
             at == <<i, j>>
  <2>1. /\ pc = "attributes" /\ pc' = "attributes" /\ i' = i /\ j' = j + 1
        /\ i \in DOMAIN request.entities /\ j \in DOMAIN request.entities[i].attributes
        /\ CurrentEntity = request.entities[i] /\ matched # {}
        /\ Cursor = at /\ Cursor' = <<i, j + 1>> /\ AttrsExact
    <3>1. i \in DOMAIN request.entities /\ CurrentEntity = request.entities[i]
      BY <1>8, <1>1, RequestParts, ElementOf DEF ApplyEntityAttr, TypeOK, CurrentEntity
    <3>2. j \in DOMAIN request.entities[i].attributes
      BY <1>8, <1>1, <3>1, RequestParts, ElementOf DEF ApplyEntityAttr, TypeOK
    <3> QED
      BY <1>8, <3>1, <3>2 DEF ApplyEntityAttr, Cursor, AttributesSoFar, EvalPhase
  <2>2. \A s \in AttrSlot : Before(s, Cursor)' =
          IF at \in Positions(request, s) THEN Before(s, at) \cup {at} ELSE Before(s, at)
    <3>1. \A s \in AttrSlot : Before(s, Cursor)' = Before(s, <<i, j + 1>>)
      BY <1>1, <2>1 DEF Before
    <3> QED
      BY <1>1, <3>1, CursorStep
  <2>3. \A s \in matched : s \in Slot /\ s \in AttrSlot /\ CurrentEntity.identifier = request.uid[s]
    BY DEF Matched, AttrSlot
  <2>4. \A s \in AttrSlot \ matched : at \notin Positions(request, s)
    <3> SUFFICES ASSUME NEW s \in AttrSlot \ matched, at \in Positions(request, s) PROVE FALSE
      OBVIOUS
    <3>1. s # "context"
      BY <1>1, <1>2
    <3>2. s \in Slot /\ request.entities[i].identifier = request.uid[s]
      BY <1>2, <3>1 DEF AttrSlot
    <3> QED
      BY <2>1, <3>2 DEF Matched
  <2>5. AttrsExact'
    <3>1. CASE entry.name = NoName
      <4>1. ctx' = ctx
        BY <1>8, <3>1 DEF ApplyEntityAttr
      <4>2. \A s \in AttrSlot : at \notin Positions(request, s)
        BY <1>1, <2>1, <3>1 DEF Positions, EntryAt
      <4>3. \A s \in AttrSlot : Before(s, Cursor)' = Before(s, Cursor)
        BY <2>1, <2>2, <4>2
      <4> QED
        BY <1>1, <2>1, <4>1, <4>3, ExactKept
    <3>2. CASE entry.name # NoName
      <4>1. \A s \in matched : at \in Positions(request, s) /\ entry = EntryAt(request, at)
        BY <2>1, <2>3, <3>2, EntityPosition
      <4>2. entry.name \in Name
        <5>1. request.entities[i].attributes \in Seq(AttrEntry)
          BY <2>1, RequestParts DEF TypeOK
        <5>2. entry \in AttrEntry
          BY <2>1, <5>1, ElementAt
        <5> QED
          BY <3>2, <5>2 DEF AttrEntry
      <4>3. \A s \in AttrSlot : ctx'.attrs[s] = IF Reached(s, matched, entry)
                                                THEN Push(ctx.attrs[s], entry) ELSE ctx.attrs[s]
        <5>1. ctx' = [ctx EXCEPT !.attrs =
                        [s \in AttrSlot |-> IF Reached(s, matched, entry)
                                            THEN Push(@[s], entry) ELSE @[s]]]
          BY <1>8, <3>2 DEF ApplyEntityAttr
        <5>2. ctx \in EvalCtx
          BY DEF TypeOK
        <5> QED
          BY <5>1, <5>2 DEF EvalCtx
      <4>4. ASSUME NEW s \in AttrSlot PROVE Exact(s, Before(s, Cursor)', ctx'.attrs[s])
        <5>1. Exact(s, Before(s, at), ctx.attrs[s])
          BY <2>1 DEF AttrsExact
        <5>2. CASE s \in matched
          <6>1. (Reached(s, matched, entry) /\ Pushes(ctx.attrs[s], entry)) <=> Gives(s, at)
            BY <2>1, <2>3, <4>1, <5>2, ReachedIsExact
          <6>2. ctx'.attrs[s] = IF Gives(s, at) THEN ctx.attrs[s] \cup {AttrOf(at)} ELSE ctx.attrs[s]
            BY <4>1, <4>3, <5>2, <6>1 DEF Push, AttrOf
          <6>3. Exact(s, Before(s, at) \cup {at}, ctx'.attrs[s])
            BY <4>1, <4>2, <5>1, <5>2, <6>2, ExactStep
          <6> QED
            BY <2>2, <4>1, <5>2, <6>3
        <5>3. CASE s \notin matched
          <6>1. ctx'.attrs[s] = ctx.attrs[s]
            BY <4>3, <5>3 DEF Reached
          <6> QED
            BY <2>2, <2>4, <5>1, <5>3, <6>1
        <5> QED
          BY <5>2, <5>3
      <4> QED
        BY <1>1, <4>4, ExactPrimed
    <3> QED
      BY <3>1, <3>2
  <2>6. CurrentEntity' = CurrentEntity /\ CurrentEntity.identifier # BadUid
    <3>1. PICK s \in Slot : CurrentEntity.identifier = request.uid[s]
      BY <2>1, <2>3
    <3> QED
      BY <1>1, <2>1, <3>1, EntityIndex DEF CurrentEntity
  <2> QED
    BY <1>1, <2>1, <2>5, <2>6 DEF AttributesSoFar, AttributesInOrder
<1>9. CASE AttributesDone
  <2>1. /\ pc = "attributes" /\ pc' = "parents" /\ i' = i /\ j' = 1 /\ ctx' = ctx
        /\ i \in DOMAIN request.entities /\ CurrentEntity = request.entities[i]
        /\ Matched(CurrentEntity) = {} \/ j > Len(CurrentEntity.attributes)
        /\ Cursor = <<i, j>> /\ Cursor' = <<i + 1, 1>> /\ AttrsExact
    BY <1>9, <1>1, RequestParts, ElementOf
    DEF AttributesDone, Cursor, AttributesSoFar, EvalPhase, TypeOK, CurrentEntity
  <2>2. ASSUME NEW s \in AttrSlot, NEW b \in Positions(request, s)
        PROVE  Precedes(b, <<i + 1, 1>>) <=> Precedes(b, Cursor)
    <3>1. b[1] = i => b[2] < j
      <4> SUFFICES ASSUME b[1] = i PROVE b[2] < j
        OBVIOUS
      <4>1. s # "context"
        BY <1>1, <1>2
      <4>2. s \in Slot /\ s \in Matched(CurrentEntity)
        BY <1>2, <2>1, <4>1 DEF AttrSlot, Matched
      <4>3. b[2] \in Nat /\ b[2] <= Len(request.entities[i].attributes)
        BY <1>2, <2>1, <4>1, RequestParts, ElementAt, SMTT(30) DEF TypeOK
      <4>4. Len(request.entities[i].attributes) \in Nat
        BY <2>1, RequestParts DEF TypeOK
      <4> QED
        BY <1>1, <2>1, <4>2, <4>3, <4>4
    <3> QED
      BY <1>1, <1>2, <2>1, <3>1 DEF Precedes
  <2>3. AttrsExact'
    BY <1>3, <2>1, <2>2
  <2> QED
    BY <2>1, <2>3 DEF AttributesSoFar, AttributesInOrder
<1>10. CASE ApplyEntityParent
  <2>1. /\ pc = "parents" /\ pc' = "parents" /\ i' = i /\ ctx'.attrs = ctx.attrs
        /\ Cursor = <<i + 1, 1>> /\ Cursor' = <<i + 1, 1>> /\ AttrsExact
    <3>1. ctx'.attrs = ctx.attrs
      BY <1>10, AddParentAttrs DEF ApplyEntityParent
    <3> QED
      BY <1>10, <3>1 DEF ApplyEntityParent, Cursor, AttributesSoFar, EvalPhase
  <2>2. AttrsExact'
    BY <1>3, <2>1
  <2> QED
    BY <2>1, <2>2 DEF AttributesSoFar, AttributesInOrder
<1>11. CASE ParentsDone
  <2>1. /\ pc = "parents" /\ pc' = "attributes" /\ j' = 1 /\ ctx' = ctx
        /\ Cursor = <<i + 1, 1>> /\ Cursor' = <<i + 1, 1>> /\ AttrsExact
    BY <1>11 DEF ParentsDone, Cursor, AttributesSoFar, EvalPhase
  <2>2. AttrsExact'
    BY <1>3, <2>1
  <2> QED
    BY <2>1, <2>2 DEF AttributesSoFar, AttributesInOrder
<1>12. CASE EntitiesDone
  <2>1. /\ pc = "attributes" /\ pc' = "groups" /\ ctx' = ctx /\ i > Len(request.entities)
        /\ Cursor = <<i, j>> /\ Cursor' = <<Len(request.entities) + 1, 1>> /\ AttrsExact
    BY <1>1, <1>12 DEF EntitiesDone, Cursor, AttributesSoFar, EvalPhase
  <2>2. ASSUME NEW s \in AttrSlot, NEW b \in Positions(request, s)
        PROVE  Precedes(b, <<Len(request.entities) + 1, 1>>) <=> Precedes(b, Cursor)
    <3>1. Len(request.entities) \in Nat /\ b[1] \in Nat /\ b[1] <= Len(request.entities)
      BY <1>2, EntityIndex, RequestParts DEF TypeOK
    <3> QED
      BY <1>1, <2>1, <3>1 DEF Precedes
  <2>3. AttrsExact'
    BY <1>3, <2>1, <2>2
  <2> QED
    BY <2>1, <2>3 DEF AttributesSoFar, AttributesInOrder
<1>13. CASE ApplyGroup
  <2>1. /\ pc = "groups" /\ pc' = "groups" /\ ctx'.attrs = ctx.attrs
        /\ Cursor = <<Len(request.entities) + 1, 1>> /\ Cursor' = Cursor /\ AttrsExact
    BY <1>1, <1>13, AddParentAttrs DEF ApplyGroup, Cursor, AttributesSoFar, EvalPhase
  <2>2. AttrsExact'
    BY <1>3, <2>1
  <2> QED
    BY <2>1, <2>2 DEF AttributesSoFar, AttributesInOrder
<1>14. CASE GroupsDone
  <2>1. /\ pc = "groups" /\ pc' = "bundles" /\ ctx' = ctx /\ Cursor' = Cursor /\ AttrsExact
    BY <1>1, <1>14 DEF GroupsDone, Cursor, AttributesSoFar, EvalPhase
  <2>2. AttrsExact'
    BY <1>3, <2>1
  <2> QED
    BY <2>1, <2>2 DEF AttributesSoFar, AttributesInOrder
<1>15. CASE BeginBundle \/ TestForbid \/ ForbidDone \/ TestPermit \/ PermitDone \/ Finalize
  <2>1. pc \in EvalPhase /\ pc' \in EvalPhase /\ ctx' = ctx /\ Cursor' = Cursor
    BY <1>1, <1>15 DEF BeginBundle, TestForbid, ForbidDone, TestPermit, PermitDone, Finalize,
                       EvalPhase, Cursor
  <2>2. Evaluating' => Evaluating
    BY <1>1, <2>1 DEF Evaluating
  <2>3. Evaluating' => AttrsExact'
    BY <1>3, <2>1, <2>2 DEF AttributesSoFar
  <2> QED
    BY <2>1, <2>3 DEF AttributesSoFar, AttributesInOrder, EvalPhase
<1>16. CASE UNCHANGED vars
  <2>1. ctx' = ctx /\ Cursor' = Cursor /\ pc' = pc /\ i' = i /\ j' = j
        /\ Evaluating' = Evaluating /\ CurrentEntity' = CurrentEntity
    BY <1>16 DEF vars, Cursor, Evaluating, CurrentEntity
  <2>2. AttrsExact => AttrsExact'
    BY <1>3, <2>1
  <2> QED
    BY <1>1, <2>1, <2>2 DEF AttributesSoFar, AttributesInOrder
<1> QED
  BY <1>4, <1>5, <1>6, <1>7, <1>8, <1>9, <1>10, <1>11, <1>12, <1>13, <1>14, <1>15, <1>16 DEF Next

(***************************************************************************)
(* At the end every entry is behind the cursor.                            *)
(***************************************************************************)
LEMMA AttributesTaken == TypeOK /\ AttributesSoFar => AttributesComplete
<1> SUFFICES ASSUME TypeOK, AttributesSoFar, Evaluating, NEW s \in AttrSlot
             PROVE  ctx.attrs[s] = DeclaredAttrs(request, s)
  BY DEF AttributesComplete
<1>1. Exact(s, Before(s, Cursor), ctx.attrs[s])
  BY DEF AttributesSoFar, AttrsExact
<1>2. Cursor = <<Len(request.entities) + 1, 1>>
  BY DEF Evaluating, EvalPhase, Cursor
<1>3. \A b \in Positions(request, s) : Precedes(b, Cursor)
  <2> SUFFICES ASSUME NEW b \in Positions(request, s) PROVE Precedes(b, Cursor)
    OBVIOUS
  <2>1. /\ b[1] \in Nat
        /\ s = "context" => b[1] = 0
        /\ s # "context" => b[1] \in DOMAIN request.entities
    BY PositionParts
  <2>2. Len(request.entities) \in Nat /\ b[1] <= Len(request.entities)
    BY <2>1, EntityIndex, RequestParts DEF TypeOK
  <2> QED
    BY <1>2, <2>1, <2>2 DEF Precedes
<1>4. \A b : b \in Before(s, Cursor) /\ Gives(s, b) <=>
               b \in FirstValued(request, s)
               /\ (EntryAt(request, b).ok \/ LeadingSlot(request, s))
  BY <1>3 DEF Before, Gives, FirstValued
<1> QED
  BY <1>1, <1>4 DEF Exact, DeclaredAttrs, AttrOf

(***************************************************************************)
(* From the first bundle on, every slot has exactly the attributes that    *)
(* the request declares for it, whatever the order of good, malformed,     *)
(* half-applied and repeated entries, and whichever slots share an         *)
(* identifier (cedar_apply_context_map, cedar_apply_entities).             *)
(***************************************************************************)
THEOREM AttributesAreComplete == Spec => []AttributesComplete
<1>1. Init => TypeOK /\ AttributesSoFar
  BY InitType, InitAttributes
<1>2. TypeOK /\ AttributesSoFar /\ [Next]_vars => (TypeOK /\ AttributesSoFar)'
  BY NextType, NextAttributes
<1>3. TypeOK /\ AttributesSoFar => AttributesComplete
  BY AttributesTaken
<1> QED
  BY <1>1, <1>2, <1>3, PTL DEF Spec

-----------------------------------------------------------------------------
(***************************************************************************)
(* The errors of the first n entries of array e: 0 is the context map.     *)
(***************************************************************************)
ErrorOf(e) ==
  [k \in Nat |-> IF Reported(request, <<e, k>>) THEN <<ErrorAt(request, <<e, k>>)>> ELSE <<>>]

EntriesOf(e) == IF e = 0 THEN request.context ELSE request.entities[e].attributes

FirstErrors(e, n) == FlattenSeq([k \in 1 .. n |-> ErrorOf(e)[k]])

EntityErrors ==
  [e \in Nat |-> ErrorsOf(request, e, request.entities[e].attributes)]

FirstEntities(n) == FlattenSeq([e \in 1 .. n |-> EntityErrors[e]])

ContextErrors == ErrorsOf(request, 0, request.context)

(***************************************************************************)
(* What has been reported when the request loop is at <<e, k>>.            *)
(***************************************************************************)
ErrorsBefore(at) ==
  IF at[1] = 0 THEN FirstErrors(0, at[2] - 1)
  ELSE (ContextErrors \o FirstEntities(at[1] - 1)) \o FirstErrors(at[1], at[2] - 1)

(***************************************************************************)
(* The strengthening that the order of the errors needs: where the indices *)
(* stop, and that the attributes of an unmatched entity are not entered.   *)
(***************************************************************************)
IndicesStop ==
  /\ pc \in {"storeId", "context"} => j <= Len(request.context) + 1
  /\ pc = "attributes" => i <= Len(request.entities) + 1
  /\ pc = "attributes" /\ j # 1 => /\ i \in DOMAIN request.entities
                                   /\ Matched(CurrentEntity) # {}
                                   /\ j <= Len(CurrentEntity.attributes) + 1

ErrorsSoFar ==
  /\ IndicesStop
  /\ (pc \in EvalPhase => Evaluating) => errors = ErrorsBefore(Cursor)

-----------------------------------------------------------------------------
LEMMA ErrorType ==
  ASSUME TypeOK, NEW e \in Nat, NEW k \in Nat
  PROVE  ErrorOf(e)[k] \in Seq(ErrorEntry)
<1>1. CASE ~Reported(request, <<e, k>>)
  BY <1>1 DEF ErrorOf
<1>2. CASE Reported(request, <<e, k>>)
  <2> DEFINE at == <<e, k>>
  <2>1. PICK s \in AttrSlot : at \in Positions(request, s)
    BY <1>2 DEF Reported
  <2>2. /\ EntryAt(request, at) \in AttrEntry /\ EntryAt(request, at).name # NoName
        /\ s = "context" => e = 0
        /\ s # "context" => /\ e \in DOMAIN request.entities
                            /\ request.entities[e].identifier = request.uid[s]
    BY <2>1, PositionParts
  <2>3. EntryAt(request, at).name \in Name
    BY <2>2 DEF AttrEntry
  <2>4. e # 0 => request.entities[e].identifier \in Uid
    BY <2>2, EntityIndex DEF AttrSlot
  <2>5. ErrorAt(request, at) \in ErrorEntry
    BY <2>3, <2>4 DEF ErrorAt, ErrorEntry
  <2> QED
    BY <1>2, <2>5 DEF ErrorOf
<1> QED
  BY <1>1, <1>2

LEMMA FirstErrorsStep ==
  ASSUME TypeOK, NEW e \in Nat, NEW n \in Nat
  PROVE  /\ FirstErrors(e, n) \in Seq(ErrorEntry)
         /\ FirstErrors(e, n + 1) = FirstErrors(e, n) \o ErrorOf(e)[n + 1]
<1>1. \A k \in 1 .. n + 1 : ErrorOf(e)[k] \in Seq(ErrorEntry)
  BY ErrorType
<1> QED
  BY <1>1, FlattenStep DEF FirstErrors

LEMMA FirstErrorsNone ==
  ASSUME NEW e, NEW n \in Nat, \A k \in 1 .. n : ErrorOf(e)[k] = <<>>
  PROVE  FirstErrors(e, n) = <<>>
  BY FlattenNothing DEF FirstErrors

(***************************************************************************)
(* The errors of one array are those of all its entries.                   *)
(***************************************************************************)
LEMMA WholeArray ==
  ASSUME TypeOK
  PROVE  /\ ContextErrors = FirstErrors(0, Len(request.context))
         /\ \A e \in DOMAIN request.entities :
              EntityErrors[e] = FirstErrors(e, Len(request.entities[e].attributes))
<1>1. ASSUME NEW e \in Nat, NEW entries \in Seq(AttrEntry)
      PROVE  ErrorsOf(request, e, entries) = FirstErrors(e, Len(entries))
  <2>1. DOMAIN entries = 1 .. Len(entries) /\ Len(entries) \in Nat
    OBVIOUS
  <2>2. [k \in DOMAIN entries |->
           IF Reported(request, <<e, k>>) THEN <<ErrorAt(request, <<e, k>>)>> ELSE <<>>]
          = [k \in 1 .. Len(entries) |-> ErrorOf(e)[k]]
    BY <2>1 DEF ErrorOf
  <2> QED
    BY <2>2 DEF ErrorsOf, FirstErrors
<1>2. request.context \in Seq(AttrEntry)
  BY RequestParts DEF TypeOK
<1>3. ASSUME NEW e \in DOMAIN request.entities
      PROVE  e \in Nat /\ request.entities[e].attributes \in Seq(AttrEntry)
  BY RequestParts, EntityIndex DEF TypeOK
<1> QED
  BY <1>1, <1>2, <1>3 DEF ContextErrors, EntityErrors

LEMMA EntitiesStep ==
  ASSUME TypeOK, NEW n \in Nat, n + 1 \in DOMAIN request.entities
  PROVE  /\ FirstEntities(n) \in Seq(ErrorEntry)
         /\ EntityErrors[n + 1] \in Seq(ErrorEntry)
         /\ FirstEntities(n + 1) = FirstEntities(n) \o EntityErrors[n + 1]
<1>1. \A e \in 1 .. n + 1 : e \in DOMAIN request.entities
  BY RequestParts DEF TypeOK
<1>2. ASSUME NEW e \in 1 .. n + 1 PROVE EntityErrors[e] \in Seq(ErrorEntry)
  <2>1. request.entities[e].attributes \in Seq(AttrEntry)
    BY <1>1, RequestParts DEF TypeOK
  <2>2. Len(request.entities[e].attributes) \in Nat
    BY <2>1
  <2>3. FirstErrors(e, Len(request.entities[e].attributes)) \in Seq(ErrorEntry)
    <3> DEFINE last == Len(request.entities[e].attributes)
    <3>1. last \in Nat /\ e \in Nat
      BY <2>2
    <3> HIDE DEF last
    <3>2. FirstErrors(e, last) \in Seq(ErrorEntry)
      BY <3>1, FirstErrorsStep
    <3> QED
      BY <3>2 DEF last
  <2> QED
    BY <1>1, <2>3, WholeArray
<1>3. n + 1 \in 1 .. n + 1
  OBVIOUS
<1> QED
  BY <1>2, <1>3, FlattenStep DEF FirstEntities

LEMMA EntitiesNone ==
  ASSUME NEW n \in Nat, \A e \in 1 .. n : EntityErrors[e] = <<>>
  PROVE  FirstEntities(n) = <<>>
  BY FlattenNothing DEF FirstEntities

LEMMA EntitiesType ==
  ASSUME TypeOK, NEW n \in Nat, n <= Len(request.entities)
  PROVE  FirstEntities(n) \in Seq(ErrorEntry) /\ FirstEntities(0) = <<>>
<1>1. FirstEntities(0) = <<>>
  BY EntitiesNone
<1>2. CASE n = 0
  <2>1. FirstEntities(n) = <<>>
    BY <1>1, <1>2
  <2>2. <<>> \in Seq(ErrorEntry)
    OBVIOUS
  <2> QED
    BY <1>1, <2>1, <2>2
<1>3. CASE n # 0
  <2>1. n - 1 \in Nat /\ (n - 1) + 1 = n /\ n \in DOMAIN request.entities
    BY <1>3, RequestParts DEF TypeOK
  <2>2. /\ FirstEntities(n - 1) \in Seq(ErrorEntry) /\ EntityErrors[n] \in Seq(ErrorEntry)
        /\ FirstEntities(n) = FirstEntities(n - 1) \o EntityErrors[n]
    BY <2>1, EntitiesStep
  <2> QED
    BY <1>1, <2>2, ConcatProperties
<1> QED
  BY <1>2, <1>3

LEMMA ContextType ==
  ASSUME TypeOK
  PROVE  ContextErrors \in Seq(ErrorEntry)
<1>1. Len(request.context) \in Nat
  BY RequestParts DEF TypeOK
<1> QED
  BY <1>1, WholeArray, FirstErrorsStep

LEMMA ErrorsBeforeEntry ==
  ASSUME NEW e \in Nat \ {0}, NEW k \in Nat, NEW d, d = e - 1, NEW l, l = k - 1
  PROVE  ErrorsBefore(<<e, k>>) = (ContextErrors \o FirstEntities(d)) \o FirstErrors(e, l)
  BY DEF ErrorsBefore

(***************************************************************************)
(* One entry further, and one array further.                               *)
(***************************************************************************)
LEMMA EntryPassed ==
  ASSUME TypeOK, NEW e \in Nat, NEW k \in Nat \ {0}, e <= Len(request.entities) + 1
  PROVE  ErrorsBefore(<<e, k + 1>>) = ErrorsBefore(<<e, k>>) \o ErrorOf(e)[k]
<1>1. k - 1 \in Nat /\ (k - 1) + 1 = k /\ (k + 1) - 1 = k
  OBVIOUS
<1>2. /\ FirstErrors(e, k - 1) \in Seq(ErrorEntry)
      /\ FirstErrors(e, k) = FirstErrors(e, k - 1) \o ErrorOf(e)[k]
  BY <1>1, FirstErrorsStep
<1>3. CASE e = 0
  BY <1>1, <1>2, <1>3 DEF ErrorsBefore
<1>4. CASE e # 0
  <2> DEFINE past == ContextErrors \o FirstEntities(e - 1)
  <2>1. e - 1 \in Nat /\ e - 1 <= Len(request.entities)
    BY <1>4, RequestParts DEF TypeOK
  <2>2. past \in Seq(ErrorEntry)
    BY <2>1, EntitiesType, ContextType, ConcatProperties
  <2>3. ErrorOf(e)[k] \in Seq(ErrorEntry)
    BY ErrorType
  <2>4. /\ ErrorsBefore(<<e, k>>) = past \o FirstErrors(e, k - 1)
        /\ ErrorsBefore(<<e, k + 1>>) = past \o FirstErrors(e, k)
    BY <1>1, <1>4 DEF ErrorsBefore
  <2> HIDE DEF past
  <2> QED
    <3> DEFINE some == FirstErrors(e, k - 1)
               more == ErrorOf(e)[k]
    <3>1. some \in Seq(ErrorEntry) /\ more \in Seq(ErrorEntry)
      BY <1>2, <2>3
    <3>2. ErrorsBefore(<<e, k>>) = past \o some /\ ErrorsBefore(<<e, k + 1>>) = past \o (some \o more)
      BY <1>2, <2>4
    <3> HIDE DEF some, more
    <3>3. (past \o some) \o more = past \o (some \o more)
      BY <2>2, <3>1, ConcatAssociative, SMTT(30)
    <3> QED
      BY <3>2, <3>3 DEF more
<1> QED
  BY <1>3, <1>4

LEMMA ContextPassed ==
  ASSUME TypeOK
  PROVE  ErrorsBefore(<<1, 1>>) = ErrorsBefore(<<0, Len(request.context) + 1>>)
<1>1. Len(request.context) \in Nat /\ (Len(request.context) + 1) - 1 = Len(request.context)
      /\ Len(request.entities) \in Nat
  BY RequestParts DEF TypeOK
<1>2. ErrorsBefore(<<0, Len(request.context) + 1>>) = ContextErrors
  BY <1>1, WholeArray DEF ErrorsBefore
<1>3. FirstErrors(1, 0) = <<>> /\ FirstEntities(0) = <<>>
  BY <1>1, FirstErrorsNone, EntitiesType
<1>4. ErrorsBefore(<<1, 1>>) = (ContextErrors \o <<>>) \o <<>>
  <2>1. ErrorsBefore(<<1, 1>>) = (ContextErrors \o FirstEntities(0)) \o FirstErrors(1, 0)
    BY ErrorsBeforeEntry
  <2> QED
    BY <1>3, <2>1
<1> QED
  BY <1>2, <1>4, ContextType, ConcatEmptySeq

LEMMA EntityPassed ==
  ASSUME TypeOK, NEW e \in DOMAIN request.entities, NEW k \in Nat \ {0},
         FirstErrors(e, k - 1) = EntityErrors[e]
  PROVE  ErrorsBefore(<<e + 1, 1>>) = ErrorsBefore(<<e, k>>)
<1>1. e \in Nat \ {0} /\ e - 1 \in Nat /\ (e - 1) + 1 = e /\ (e + 1) - 1 = e
      /\ e - 1 <= Len(request.entities)
  BY EntityIndex
<1>2. /\ FirstEntities(e - 1) \in Seq(ErrorEntry) /\ EntityErrors[e] \in Seq(ErrorEntry)
      /\ FirstEntities(e) = FirstEntities(e - 1) \o EntityErrors[e]
  BY <1>1, EntitiesStep
<1>3. FirstErrors(e + 1, 0) = <<>>
  BY FirstErrorsNone
<1>4. ErrorsBefore(<<e, k>>) = (ContextErrors \o FirstEntities(e - 1)) \o EntityErrors[e]
  BY <1>1 DEF ErrorsBefore
<1>5. ErrorsBefore(<<e + 1, 1>>) = (ContextErrors \o FirstEntities(e)) \o <<>>
  <2>1. ErrorsBefore(<<e + 1, 1>>) = (ContextErrors \o FirstEntities(e)) \o FirstErrors(e + 1, 0)
    <3> DEFINE at == <<e + 1, 1>>
    <3>1. at[1] = e + 1 /\ at[1] # 0 /\ at[1] - 1 = e /\ at[2] - 1 = 0
      BY <1>1
    <3> HIDE DEF at
    <3>2. ErrorsBefore(at) = (ContextErrors \o FirstEntities(e)) \o FirstErrors(e + 1, 0)
      BY <3>1 DEF ErrorsBefore
    <3> QED
      BY <3>2 DEF at
  <2> QED
    BY <1>3, <2>1
<1>6. ContextErrors \o FirstEntities(e)
        = (ContextErrors \o FirstEntities(e - 1)) \o EntityErrors[e]
  <2> DEFINE some == FirstEntities(e - 1)
             more == EntityErrors[e]
  <2>1. /\ ContextErrors \in Seq(ErrorEntry) /\ some \in Seq(ErrorEntry)
        /\ more \in Seq(ErrorEntry) /\ FirstEntities(e) = some \o more
    BY <1>2, ContextType
  <2> HIDE DEF some, more
  <2>2. (ContextErrors \o some) \o more = ContextErrors \o (some \o more)
    BY <2>1, ConcatAssociative
  <2> QED
    BY <2>1, <2>2 DEF some, more
<1>7. ContextErrors \o FirstEntities(e) \in Seq(ErrorEntry)
  BY <1>2, ContextType, ConcatProperties
<1> QED
  BY <1>4, <1>5, <1>6, <1>7, ConcatEmptySeq

LEMMA AllPassed ==
  ASSUME TypeOK
  PROVE  ErrorsBefore(<<Len(request.entities) + 1, 1>>) = Errors(request)
<1> DEFINE n == Len(request.entities)
<1>1. n \in Nat /\ (n + 1) - 1 = n /\ DOMAIN request.entities = 1 .. n /\ n + 1 # 0
  BY RequestParts DEF TypeOK
<1>2. FirstErrors(n + 1, 0) = <<>>
  BY <1>1, FirstErrorsNone
<1>3. ContextErrors \o FirstEntities(n) \in Seq(ErrorEntry)
  BY <1>1, EntitiesType, ContextType, ConcatProperties
<1>4. [e \in DOMAIN request.entities |-> ErrorsOf(request, e, request.entities[e].attributes)]
        = [e \in 1 .. n |-> EntityErrors[e]]
  BY <1>1 DEF EntityErrors
<1>5. Errors(request) = ContextErrors \o FirstEntities(n)
  BY <1>4 DEF Errors, ContextErrors, FirstEntities
<1>6. ErrorsBefore(<<n + 1, 1>>) = (ContextErrors \o FirstEntities(n)) \o <<>>
  BY <1>1, <1>2 DEF ErrorsBefore
<1> QED
  BY <1>3, <1>5, <1>6, ConcatEmptySeq

LEMMA ErrorsPrimed ==
  ASSUME request' = request, NEW c, Cursor' = c
  PROVE  ErrorsBefore(Cursor)' = ErrorsBefore(c)
  BY DEF ErrorsBefore, FirstErrors, ErrorOf, ContextErrors, FirstEntities, EntityErrors

-----------------------------------------------------------------------------
(***************************************************************************)
(* An entry is reported exactly when the loop body finds that one of its   *)
(* targets did not take it whole.                                          *)
(***************************************************************************)
LEMMA ContextReport ==
  ASSUME TypeOK, AttrsExact, NEW k \in DOMAIN request.context, <<0, k>> = Cursor,
         NEW entry, entry = request.context[k]
  PROVE  ErrorOf(0)[k] =
           IF entry.name = NoName \/ ApplyOk(ctx.attrs["context"], entry)
           THEN <<>> ELSE <<[source |-> ContextMap, name |-> entry.name]>>
<1> DEFINE at == <<0, k>>
<1>1. \A s \in AttrSlot : at \in Positions(request, s) => s = "context"
  <2> SUFFICES ASSUME NEW s \in AttrSlot, at \in Positions(request, s), s # "context" PROVE FALSE
    OBVIOUS
  <2>1. at[1] \in DOMAIN request.entities
    BY PositionParts
  <2> QED
    BY <2>1, EntityIndex
<1>2. k \in Nat
  BY RequestParts DEF TypeOK
<1>3. ErrorOf(0)[k] = IF Reported(request, at) THEN <<ErrorAt(request, at)>> ELSE <<>>
  BY <1>2 DEF ErrorOf
<1>4. CASE entry.name = NoName
  <2>1. at \notin Positions(request, "context")
    BY <1>4 DEF Positions, EntryAt
  <2>2. ~Reported(request, at)
    BY <1>1, <2>1 DEF Reported
  <2> QED
    BY <1>3, <1>4, <2>2
<1>5. CASE entry.name # NoName
  <2>1. at \in Positions(request, "context") /\ entry = EntryAt(request, at)
    BY <1>5, ContextPosition
  <2>2. "context" \in AttrSlot /\ LeadingSlot(request, "context")
    BY DEF AttrSlot, LeadingSlot
  <2>3. Pushes(ctx.attrs["context"], entry) <=> Gives("context", at)
    BY <2>1, <2>2, PushIsExact
  <2>4. ApplyOk(ctx.attrs["context"], entry) <=> at \in FirstValued(request, "context") /\ entry.ok
    BY <2>2, <2>3 DEF ApplyOk, Gives
  <2>5. Reported(request, at) <=> ~ApplyOk(ctx.attrs["context"], entry)
    BY <1>1, <2>1, <2>2, <2>4 DEF Reported
  <2>6. ErrorAt(request, at) = [source |-> ContextMap, name |-> entry.name]
    BY <2>1 DEF ErrorAt
  <2> HIDE DEF at
  <2> QED
    BY <1>3, <1>5, <2>5, <2>6
<1> QED
  BY <1>4, <1>5

LEMMA EntityReport ==
  ASSUME TypeOK, AttrsExact, NEW e \in DOMAIN request.entities,
         NEW k \in DOMAIN request.entities[e].attributes, <<e, k>> = Cursor,
         NEW entry, entry = request.entities[e].attributes[k]
  PROVE  ErrorOf(e)[k] =
           IF \/ entry.name = NoName
              \/ \A s \in Matched(request.entities[e]) : ApplyOk(ctx.attrs[s], entry)
           THEN <<>> ELSE <<[source |-> request.entities[e].identifier, name |-> entry.name]>>
<1> DEFINE at == <<e, k>>
           matched == Matched(request.entities[e])
<1>1. e \in Nat /\ e # 0 /\ k \in Nat
  BY EntityIndex, RequestParts DEF TypeOK
<1>2. \A s \in AttrSlot : at \in Positions(request, s) => s \in matched
  <2> SUFFICES ASSUME NEW s \in AttrSlot, at \in Positions(request, s) PROVE s \in matched
    OBVIOUS
  <2>1. /\ s = "context" => at[1] = 0
        /\ s # "context" => request.entities[at[1]].identifier = request.uid[s]
    BY PositionParts
  <2> QED
    BY <1>1, <2>1 DEF Matched, AttrSlot
<1>3. \A s \in matched : /\ s \in Slot /\ s \in AttrSlot
                         /\ request.entities[e].identifier = request.uid[s]
  BY DEF Matched, AttrSlot
<1>4. ErrorOf(e)[k] = IF Reported(request, at) THEN <<ErrorAt(request, at)>> ELSE <<>>
  BY <1>1 DEF ErrorOf
<1>5. ErrorAt(request, at) = [source |-> request.entities[e].identifier, name |-> entry.name]
  BY <1>1 DEF ErrorAt, EntryAt
<1>6. CASE entry.name = NoName
  <2>1. EntryAt(request, at) = entry
    BY <1>1 DEF EntryAt
  <2>2. \A s \in AttrSlot : at \notin Positions(request, s)
    BY <1>6, <2>1 DEF Positions
  <2>3. ~Reported(request, at)
    BY <2>2 DEF Reported
  <2> QED
    BY <1>4, <1>6, <2>3
<1>7. CASE entry.name # NoName
  <2>1. \A s \in matched : at \in Positions(request, s) /\ entry = EntryAt(request, at)
    BY <1>3, <1>7, EntityPosition
  <2>2. \A s \in matched : /\ LeadingSlot(request, s) => (Pushes(ctx.attrs[s], entry) <=> Gives(s, at))
                           /\ Gives(s, at) => Pushes(ctx.attrs[s], entry)
    BY <1>3, <2>1, PushIsExact
  <2>3. \A s, t \in matched : FirstValued(request, s) = FirstValued(request, t)
    BY <1>3, SameEntries
  <2>4. ASSUME ~Reported(request, at), NEW s \in matched PROVE ApplyOk(ctx.attrs[s], entry)
    <3>1. at \in FirstValued(request, s) /\ entry.ok
      BY <1>3, <2>1, <2>4 DEF Reported
    <3>2. Gives(s, at)
      BY <2>1, <3>1 DEF Gives
    <3> QED
      BY <2>2, <3>1, <3>2 DEF ApplyOk
  <2>5. ASSUME \A s \in matched : ApplyOk(ctx.attrs[s], entry), Reported(request, at) PROVE FALSE
    <3>1. PICK s \in matched : ~(at \in FirstValued(request, s) /\ entry.ok)
      BY <1>2, <2>1, <2>5 DEF Reported
    <3>2. PICK t \in matched : LeadingSlot(request, t)
      <4>1. CASE LeadingSlot(request, s)
        BY <4>1
      <4>2. CASE ~LeadingSlot(request, s)
        <5>1. PICK t \in Earlier(s) : LeadingSlot(request, t) /\ request.uid[t] = request.uid[s]
          BY <1>3, <4>2, LeaderOf
        <5>2. t \in Slot
          BY <1>3, LeaderOf
        <5>3. t \in matched
          BY <1>3, <5>1, <5>2 DEF Matched
        <5> QED
          BY <5>1, <5>3
      <4> QED
        BY <4>1, <4>2
    <3>3. Pushes(ctx.attrs[t], entry) /\ entry.ok
      BY <2>5, <3>2 DEF ApplyOk
    <3>4. at \in FirstValued(request, t)
      BY <2>2, <3>2, <3>3 DEF Gives
    <3> QED
      BY <2>3, <3>1, <3>2, <3>3, <3>4
  <2> HIDE DEF at, matched
  <2>6. Reported(request, at) <=> ~\A s \in matched : ApplyOk(ctx.attrs[s], entry)
    BY <2>4, <2>5
  <2> QED
    BY <1>4, <1>5, <1>7, <2>6 DEF matched
<1> QED
  BY <1>6, <1>7

LEMMA UnmatchedSilent ==
  ASSUME TypeOK, NEW e \in DOMAIN request.entities, Matched(request.entities[e]) = {}
  PROVE  EntityErrors[e] = <<>>
<1> DEFINE last == Len(request.entities[e].attributes)
<1>1. last \in Nat /\ e \in Nat /\ e # 0
  BY EntityIndex, RequestParts DEF TypeOK
<1>2. ASSUME NEW k \in 1 .. last PROVE ErrorOf(e)[k] = <<>>
  <2>1. ASSUME NEW s \in AttrSlot, <<e, k>> \in Positions(request, s) PROVE FALSE
    <3>1. /\ s = "context" => e = 0
          /\ s # "context" => request.entities[e].identifier = request.uid[s]
      BY <2>1, PositionParts
    <3> QED
      BY <1>1, <3>1 DEF Matched, AttrSlot
  <2>2. ~Reported(request, <<e, k>>)
    BY <2>1 DEF Reported
  <2> QED
    BY <1>1, <2>2 DEF ErrorOf
<1>3. EntityErrors[e] = FirstErrors(e, last)
  BY WholeArray
<1> HIDE DEF last
<1> QED
  BY <1>1, <1>2, <1>3, FirstErrorsNone

LEMMA InitErrors == Init => ErrorsSoFar
<1> SUFFICES ASSUME Init PROVE ErrorsSoFar
  OBVIOUS
<1>1. TypeOK
  BY InitType
<1>2. pc = "storeId" /\ j = 1 /\ errors = <<>> /\ Cursor = <<0, 1>>
  BY DEF Init, CallInit, Cursor
<1>3. Len(request.context) \in Nat
  BY <1>1, RequestParts DEF TypeOK
<1>4. ErrorsBefore(<<0, 1>>) = FirstErrors(0, 0)
  BY DEF ErrorsBefore
<1>5. FirstErrors(0, 0) = <<>>
  BY FirstErrorsNone
<1> QED
  BY <1>2, <1>3, <1>4, <1>5 DEF ErrorsSoFar, IndicesStop

LEMMA ErrorsKept ==
  ASSUME request' = request, errors' = errors, errors = ErrorsBefore(Cursor),
         NEW c, Cursor' = c, ErrorsBefore(c) = ErrorsBefore(Cursor)
  PROVE  errors' = ErrorsBefore(Cursor)'
  BY ErrorsPrimed

-----------------------------------------------------------------------------
LEMMA NextErrors == TypeOK /\ AttributesSoFar /\ ErrorsSoFar /\ [Next]_vars => ErrorsSoFar'
<1> SUFFICES ASSUME TypeOK, AttributesSoFar, ErrorsSoFar, [Next]_vars PROVE ErrorsSoFar'
  OBVIOUS
<1>1. /\ request' = request /\ store' = store
      /\ i \in Nat \ {0} /\ j \in Nat \ {0} /\ errors \in Seq(ErrorEntry)
      /\ Len(request.context) \in Nat /\ Len(request.entities) \in Nat
  <2>1. request' = request /\ store' = store
    BY InputsFixed
  <2> QED
    BY <2>1, RequestParts DEF TypeOK
<1>2. ASSUME pc \notin EvalPhase \/ Evaluating
      PROVE  errors = ErrorsBefore(Cursor) /\ AttrsExact
  BY <1>2 DEF ErrorsSoFar, AttributesSoFar
<1>3. ASSUME errors' = errors, NEW c, Cursor' = c,
             pc \notin EvalPhase \/ Evaluating, ErrorsBefore(c) = ErrorsBefore(Cursor)
      PROVE  errors' = ErrorsBefore(Cursor)'
  BY <1>1, <1>2, <1>3, ErrorsKept
<1>4. CASE CheckStoreId
  <2>1. pc = "storeId" /\ UNCHANGED <<i, j, errors>> /\ Cursor = <<0, j>> /\ pc \notin EvalPhase
    BY <1>4 DEF CheckStoreId, Cursor, EvalPhase
  <2>2. CASE pc' = "context"
    <3>1. Cursor' = <<0, j>>
      BY <2>1, <2>2 DEF Cursor
    <3>2. errors' = ErrorsBefore(Cursor)'
      BY <1>3, <2>1, <3>1
    <3> QED
      BY <1>1, <2>1, <2>2, <3>2 DEF ErrorsSoFar, IndicesStop
  <2>3. CASE pc' # "context"
    <3>1. pc' = "done" /\ ~Evaluating'
      BY <1>1, <1>4, <2>3 DEF CheckStoreId, Evaluating
    <3> QED
      BY <3>1 DEF ErrorsSoFar, IndicesStop, EvalPhase
  <2> QED
    BY <2>2, <2>3
<1>5. CASE ApplyContextEntry
  <2> DEFINE entry == request.context[j]
  <2>1. /\ pc = "context" /\ pc' = "context" /\ j' = j + 1 /\ j <= Len(request.context)
        /\ j \in DOMAIN request.context /\ pc \notin EvalPhase
        /\ Cursor = <<0, j>> /\ Cursor' = <<0, j + 1>>
    BY <1>5, <1>1, RequestParts, ElementOf DEF ApplyContextEntry, Cursor, EvalPhase, TypeOK
  <2>2. errors = ErrorsBefore(<<0, j>>) /\ AttrsExact
    BY <1>2, <2>1
  <2>3. ErrorOf(0)[j] =
          IF entry.name = NoName \/ ApplyOk(ctx.attrs["context"], entry)
          THEN <<>> ELSE <<[source |-> ContextMap, name |-> entry.name]>>
    BY <2>1, <2>2, ContextReport
  <2>4. errors' = errors \o ErrorOf(0)[j]
    <3>1. CASE entry.name = NoName \/ ApplyOk(ctx.attrs["context"], entry)
      <4>1. errors' = errors
        BY <1>5, <3>1 DEF ApplyContextEntry
      <4> QED
        BY <1>1, <2>3, <3>1, <4>1, ConcatEmptySeq
    <3>2. CASE ~(entry.name = NoName \/ ApplyOk(ctx.attrs["context"], entry))
      <4> DEFINE error == [source |-> ContextMap, name |-> entry.name]
      <4>1. errors' = Append(errors, error)
        BY <1>5, <3>2 DEF ApplyContextEntry
      <4>2. error \in ErrorEntry
        BY <2>1, <3>2, RequestParts, ElementAt DEF TypeOK, AttrEntry, ErrorEntry
      <4> HIDE DEF error
      <4>3. Append(errors, error) = errors \o <<error>>
        BY <1>1, <4>2, AppendIsConcat
      <4> QED
        BY <2>3, <3>2, <4>1, <4>3 DEF error
    <3> QED
      BY <3>1, <3>2
  <2>5. ErrorsBefore(<<0, j + 1>>) = ErrorsBefore(<<0, j>>) \o ErrorOf(0)[j]
    <3>1. 0 \in Nat /\ 0 <= Len(request.entities) + 1
      BY <1>1
    <3> QED
      BY <1>1, <3>1, EntryPassed
  <2>6. errors' = ErrorsBefore(Cursor)'
    <3>1. ErrorsBefore(Cursor)' = ErrorsBefore(<<0, j + 1>>)
      BY <1>1, <2>1, ErrorsPrimed
    <3> QED
      BY <2>2, <2>4, <2>5, <3>1
  <2> QED
    BY <1>1, <2>1, <2>6 DEF ErrorsSoFar, IndicesStop
<1>6. CASE ContextDone
  <2>1. /\ pc = "context" /\ pc' = "attributes" /\ i = 1 /\ i' = 1 /\ j' = 1 /\ errors' = errors
        /\ j > Len(request.context) /\ j <= Len(request.context) + 1 /\ pc \notin EvalPhase
        /\ Cursor = <<0, j>> /\ Cursor' = <<1, 1>>
    BY <1>6 DEF ContextDone, Cursor, AttributesSoFar, AttributesInOrder, ErrorsSoFar, IndicesStop,
                EvalPhase
  <2>2. j = Len(request.context) + 1
    BY <1>1, <2>1
  <2>3. ErrorsBefore(<<1, 1>>) = ErrorsBefore(Cursor)
    BY <2>1, <2>2, ContextPassed
  <2>4. errors' = ErrorsBefore(Cursor)'
    BY <1>3, <2>1, <2>3
  <2> QED
    BY <1>1, <2>1, <2>4 DEF ErrorsSoFar, IndicesStop
<1>7. CASE SkipEntity
  <2>1. /\ pc = "attributes" /\ pc' = "attributes" /\ i' = i + 1 /\ j' = j /\ errors' = errors
        /\ j = 1 /\ i \in DOMAIN request.entities /\ request.entities[i].identifier = BadUid
        /\ Cursor = <<i, 1>> /\ Cursor' = <<i + 1, 1>> /\ pc \notin EvalPhase
        /\ i <= Len(request.entities)
    BY <1>7, <1>1, RequestParts, ElementOf
    DEF SkipEntity, Cursor, AttributesSoFar, AttributesInOrder, EvalPhase, TypeOK, CurrentEntity
  <2>2. EntityErrors[i] = <<>>
    <3>1. Matched(request.entities[i]) = {}
      BY <2>1, EntityIndex DEF Matched
    <3> QED
      BY <2>1, <3>1, UnmatchedSilent
  <2>3. ErrorsBefore(<<i + 1, 1>>) = ErrorsBefore(<<i, 1>>)
    <3>1. FirstErrors(i, 1 - 1) = <<>>
      BY FirstErrorsNone
    <3> QED
      BY <2>1, <2>2, <3>1, EntityPassed
  <2>4. errors' = ErrorsBefore(Cursor)'
    BY <1>3, <2>1, <2>3
  <2> QED
    BY <1>1, <2>1, <2>4 DEF ErrorsSoFar, IndicesStop
<1>8. CASE ApplyEntityAttr
  <2> DEFINE entry == CurrentEntity.attributes[j]
             matched == Matched(CurrentEntity)
             taken == \A s \in matched : ApplyOk(ctx.attrs[s], entry)
  <2>1. /\ pc = "attributes" /\ pc' = "attributes" /\ i' = i /\ j' = j + 1
        /\ i \in DOMAIN request.entities /\ j \in DOMAIN request.entities[i].attributes
        /\ CurrentEntity = request.entities[i] /\ CurrentEntity' = CurrentEntity /\ matched # {}
        /\ Cursor = <<i, j>> /\ Cursor' = <<i, j + 1>> /\ pc \notin EvalPhase
        /\ i <= Len(request.entities) /\ j <= Len(request.entities[i].attributes)
        /\ request.entities[i].attributes \in Seq(AttrEntry)
    <3>1. /\ i \in DOMAIN request.entities /\ CurrentEntity = request.entities[i]
          /\ CurrentEntity' = CurrentEntity
      BY <1>8, <1>1, RequestParts, ElementOf DEF ApplyEntityAttr, TypeOK, CurrentEntity
    <3>2. /\ j \in DOMAIN request.entities[i].attributes
          /\ request.entities[i].attributes \in Seq(AttrEntry)
      BY <1>8, <1>1, <3>1, RequestParts, ElementOf DEF ApplyEntityAttr, TypeOK
    <3> QED
      BY <1>8, <3>1, <3>2 DEF ApplyEntityAttr, Cursor, EvalPhase
  <2>2. errors = ErrorsBefore(<<i, j>>) /\ AttrsExact
    BY <1>2, <2>1
  <2>3. ErrorOf(i)[j] =
          IF entry.name = NoName \/ taken
          THEN <<>> ELSE <<[source |-> CurrentEntity.identifier, name |-> entry.name]>>
    BY <2>1, <2>2, EntityReport
  <2>4. errors' = errors \o ErrorOf(i)[j]
    <3>1. CASE entry.name = NoName \/ taken
      <4>1. errors' = errors
        BY <1>8, <3>1 DEF ApplyEntityAttr
      <4> QED
        BY <1>1, <2>3, <3>1, <4>1, ConcatEmptySeq
    <3>2. CASE ~(entry.name = NoName \/ taken)
      <4> DEFINE error == [source |-> CurrentEntity.identifier, name |-> entry.name]
      <4>1. errors' = Append(errors, error)
        BY <1>8, <3>2 DEF ApplyEntityAttr
      <4>2. error \in ErrorEntry
        <5>1. entry.name \in Name
          BY <2>1, <3>2, ElementAt DEF AttrEntry
        <5>2. CurrentEntity.identifier \in Uid
          BY <2>1, EntityIndex DEF Matched
        <5> QED
          BY <5>1, <5>2 DEF ErrorEntry
      <4> HIDE DEF error
      <4>3. Append(errors, error) = errors \o <<error>>
        BY <1>1, <4>2, AppendIsConcat
      <4> QED
        BY <2>3, <3>2, <4>1, <4>3 DEF error
    <3> QED
      BY <3>1, <3>2
  <2>5. ErrorsBefore(<<i, j + 1>>) = ErrorsBefore(<<i, j>>) \o ErrorOf(i)[j]
    <3>1. i \in Nat /\ i <= Len(request.entities) + 1
      BY <1>1, <2>1
    <3> QED
      BY <1>1, <3>1, EntryPassed
  <2>6. errors' = ErrorsBefore(Cursor)'
    <3>1. ErrorsBefore(Cursor)' = ErrorsBefore(<<i, j + 1>>)
      BY <1>1, <2>1, ErrorsPrimed
    <3> QED
      BY <2>2, <2>4, <2>5, <3>1
  <2>7. Matched(CurrentEntity)' = matched
    BY <1>1, <2>1 DEF Matched
  <2>8. j + 1 <= Len(CurrentEntity.attributes) + 1
    <3>1. Len(request.entities[i].attributes) \in Nat
      BY <2>1
    <3> QED
      BY <1>1, <2>1, <3>1
  <2> QED
    BY <1>1, <2>1, <2>6, <2>7, <2>8 DEF ErrorsSoFar, IndicesStop
<1>9. CASE AttributesDone
  <2>1. /\ pc = "attributes" /\ pc' = "parents" /\ i' = i /\ j' = 1 /\ errors' = errors
        /\ i \in DOMAIN request.entities /\ CurrentEntity = request.entities[i]
        /\ Matched(CurrentEntity) = {} \/ j > Len(CurrentEntity.attributes)
        /\ Cursor = <<i, j>> /\ Cursor' = <<i + 1, 1>> /\ pc \notin EvalPhase
    BY <1>9, <1>1, RequestParts, ElementOf
    DEF AttributesDone, Cursor, EvalPhase, TypeOK, CurrentEntity
  <2>2. FirstErrors(i, j - 1) = EntityErrors[i]
    <3>1. CASE Matched(CurrentEntity) = {}
      <4>1. j = 1
        BY <2>1, <3>1 DEF ErrorsSoFar, IndicesStop
      <4>2. FirstErrors(i, 0) = <<>>
        BY FirstErrorsNone
      <4>3. EntityErrors[i] = <<>>
        BY <2>1, <3>1, UnmatchedSilent
      <4> QED
        BY <4>1, <4>2, <4>3
    <3>2. CASE Matched(CurrentEntity) # {}
      <4>1. Len(request.entities[i].attributes) \in Nat
        BY <2>1, RequestParts, SMTT(30) DEF TypeOK
      <4>2. j - 1 = Len(request.entities[i].attributes)
        <5>1. j # 1 => j <= Len(request.entities[i].attributes) + 1
          BY <2>1 DEF ErrorsSoFar, IndicesStop
        <5> QED
          BY <1>1, <2>1, <3>2, <4>1, <5>1
      <4> QED
        BY <2>1, <4>2, WholeArray
    <3> QED
      BY <3>1, <3>2
  <2>3. ErrorsBefore(<<i + 1, 1>>) = ErrorsBefore(<<i, j>>)
    BY <1>1, <2>1, <2>2, EntityPassed
  <2>4. errors' = ErrorsBefore(Cursor)'
    BY <1>3, <2>1, <2>3
  <2> QED
    BY <2>1, <2>4 DEF ErrorsSoFar, IndicesStop
<1>10. CASE ApplyEntityParent \/ ParentsDone
  <2>1. /\ pc = "parents" /\ pc' \in {"parents", "attributes"} /\ errors' = errors
        /\ Cursor = <<i + 1, 1>> /\ Cursor' = <<i + 1, 1>> /\ pc \notin EvalPhase
        /\ pc' = "attributes" => i' = i + 1 /\ j' = 1
    BY <1>10 DEF ApplyEntityParent, ParentsDone, Cursor, EvalPhase
  <2>2. errors' = ErrorsBefore(Cursor)'
    BY <1>3, <2>1
  <2>3. i <= Len(request.entities)
    BY <2>1, EntityIndex DEF TypeOK, IndicesInRange
  <2> QED
    BY <1>1, <2>1, <2>2, <2>3 DEF ErrorsSoFar, IndicesStop
<1>11. CASE EntitiesDone
  <2>1. /\ pc = "attributes" /\ pc' = "groups" /\ errors' = errors /\ pc \notin EvalPhase
        /\ i > Len(request.entities) /\ i <= Len(request.entities) + 1
        /\ Cursor = <<i, j>> /\ Cursor' = <<Len(request.entities) + 1, 1>>
    BY <1>1, <1>11 DEF EntitiesDone, Cursor, ErrorsSoFar, IndicesStop, EvalPhase
  <2>2. j = 1
    BY <2>1, <1>1, EntityIndex DEF ErrorsSoFar, IndicesStop
  <2>3. i = Len(request.entities) + 1
    BY <1>1, <2>1
  <2>4. errors' = ErrorsBefore(Cursor)'
    BY <1>3, <2>1, <2>2, <2>3
  <2> QED
    BY <2>1, <2>4 DEF ErrorsSoFar, IndicesStop
<1>12. CASE ApplyGroup \/ GroupsDone
  <2>1. /\ pc = "groups" /\ pc' \in {"groups", "bundles"} /\ errors' = errors /\ pc \notin EvalPhase
        /\ Cursor = <<Len(request.entities) + 1, 1>> /\ Cursor' = Cursor
    BY <1>1, <1>12 DEF ApplyGroup, GroupsDone, Cursor, EvalPhase
  <2>2. errors' = ErrorsBefore(Cursor)'
    BY <1>3, <2>1
  <2> QED
    BY <2>1, <2>2 DEF ErrorsSoFar, IndicesStop
<1>13. CASE BeginBundle \/ TestForbid \/ ForbidDone \/ TestPermit \/ PermitDone \/ Finalize
  <2>1. pc \in EvalPhase /\ pc' \in EvalPhase /\ errors' = errors /\ Cursor' = Cursor
    BY <1>1, <1>13 DEF BeginBundle, TestForbid, ForbidDone, TestPermit, PermitDone, Finalize,
                       EvalPhase, Cursor
  <2>2. Evaluating' => Evaluating
    BY <1>1, <2>1 DEF Evaluating
  <2>3. Evaluating' => errors' = ErrorsBefore(Cursor)'
    BY <1>3, <2>1, <2>2
  <2> QED
    BY <2>1, <2>3 DEF ErrorsSoFar, IndicesStop, EvalPhase
<1>14. CASE UNCHANGED vars
  <2>1. errors' = errors /\ Cursor' = Cursor /\ pc' = pc /\ i' = i /\ j' = j
        /\ Evaluating' = Evaluating /\ CurrentEntity' = CurrentEntity
        /\ Matched(CurrentEntity)' = Matched(CurrentEntity)
    BY <1>14 DEF vars, Cursor, Evaluating, CurrentEntity, Matched
  <2>2. (pc \notin EvalPhase \/ Evaluating) => errors' = ErrorsBefore(Cursor)'
    BY <1>3, <2>1
  <2> QED
    BY <1>1, <2>1, <2>2 DEF ErrorsSoFar, IndicesStop
<1> QED
  BY <1>4, <1>5, <1>6, <1>7, <1>8, <1>9, <1>10, <1>11, <1>12, <1>13, <1>14 DEF Next

-----------------------------------------------------------------------------
(***************************************************************************)
(* The ids of the first n bundles that deny, and that allow, in load order.*)
(***************************************************************************)
DenyingIds ==
  [b \in Nat |-> IF Denies(store.bundles[b], ctx) THEN <<store.bundles[b].policyId>> ELSE <<>>]

AllowingIds ==
  [b \in Nat |-> IF Allows(store.bundles[b], ctx) THEN <<store.bundles[b].policyId>> ELSE <<>>]

FirstIds(ids, n) == FlattenSeq([b \in 1 .. n |-> ids[b]])

BucketsInOrder ==
  /\ ctx.uid = request.uid
  /\ pc = "bundles" => i <= Len(store.bundles) + 1
  /\ pc \in EvalPhase \ {"done"} => /\ forbidIds = FirstIds(DenyingIds, i - 1)
                                   /\ permitIds = FirstIds(AllowingIds, i - 1)

LEMMA FirstIdsNone == \A ids : FirstIds(ids, 0) = <<>>
<1> SUFFICES ASSUME NEW ids PROVE FirstIds(ids, 0) = <<>>
  OBVIOUS
<1>1. ASSUME NEW n \in Nat, \A b \in 1 .. n : ids[b] = <<>> PROVE FirstIds(ids, n) = <<>>
  BY <1>1, FlattenNothing DEF FirstIds
<1> QED
  BY <1>1

(***************************************************************************)
(* Going on to the next bundle.                                            *)
(***************************************************************************)
LEMMA NextIds ==
  ASSUME TypeOK, i \in DOMAIN store.bundles
  PROVE  /\ FirstIds(DenyingIds, i) =
              IF Denies(CurrentBundle, ctx)
              THEN Append(FirstIds(DenyingIds, i - 1), CurrentBundle.policyId)
              ELSE FirstIds(DenyingIds, i - 1)
         /\ FirstIds(AllowingIds, i) =
              IF Allows(CurrentBundle, ctx)
              THEN Append(FirstIds(AllowingIds, i - 1), CurrentBundle.policyId)
              ELSE FirstIds(AllowingIds, i - 1)
<1>1. /\ i - 1 \in Nat /\ (i - 1) + 1 = i /\ i \in 1 .. i /\ i \in Nat
      /\ \A b \in 1 .. i : b \in DOMAIN store.bundles /\ b \in Nat
  BY StoreParts DEF TypeOK
<1>2. \A b \in 1 .. i : store.bundles[b].policyId \in PolicyId
  BY <1>1, StoreParts DEF TypeOK
<1>3. ASSUME NEW ids, NEW yes, \A b \in 1 .. i : ids[b] \in Seq(PolicyId),
             ids[i] = IF yes THEN <<CurrentBundle.policyId>> ELSE <<>>
      PROVE  FirstIds(ids, i) = IF yes THEN Append(FirstIds(ids, i - 1), CurrentBundle.policyId)
                                ELSE FirstIds(ids, i - 1)
  <2> DEFINE past == FirstIds(ids, i - 1)
             id == CurrentBundle.policyId
             n == i - 1
  <2>1. past \in Seq(PolicyId) /\ FirstIds(ids, i) = past \o ids[i]
    <3>1. n \in Nat /\ n + 1 = i
      BY <1>1
    <3> HIDE DEF n
    <3>2. \A b \in 1 .. n + 1 : ids[b] \in Seq(PolicyId)
      BY <1>3, <3>1
    <3>3. /\ FirstIds(ids, n) \in Seq(PolicyId)
          /\ FirstIds(ids, n + 1) = FirstIds(ids, n) \o ids[n + 1]
      BY <3>1, <3>2, FlattenStep DEF FirstIds
    <3> QED
      BY <3>1, <3>3 DEF n
  <2>2. id \in PolicyId
    BY <1>1, <1>2 DEF CurrentBundle
  <2> HIDE DEF past, id
  <2>3. Append(past, id) = past \o <<id>>
    BY <2>1, <2>2, AppendIsConcat
  <2>4. past \o <<>> = past
    BY <2>1, ConcatEmptySeq
  <2>5. CASE yes
    BY <1>3, <2>1, <2>3, <2>5 DEF id, past
  <2>6. CASE ~yes
    BY <1>3, <2>1, <2>4, <2>6 DEF past
  <2> QED
    BY <2>5, <2>6
<1>4. /\ \A b \in 1 .. i : DenyingIds[b] \in Seq(PolicyId)
      /\ DenyingIds[i] = IF Denies(CurrentBundle, ctx) THEN <<CurrentBundle.policyId>> ELSE <<>>
  BY <1>1, <1>2 DEF DenyingIds, CurrentBundle
<1>5. /\ \A b \in 1 .. i : AllowingIds[b] \in Seq(PolicyId)
      /\ AllowingIds[i] = IF Allows(CurrentBundle, ctx) THEN <<CurrentBundle.policyId>> ELSE <<>>
  BY <1>1, <1>2 DEF AllowingIds, CurrentBundle
<1> QED
  BY <1>3, <1>4, <1>5

LEMMA InitBuckets == Init => BucketsInOrder
<1> SUFFICES ASSUME Init PROVE BucketsInOrder
  OBVIOUS
<1> QED
  BY DEF Init, CallInit, BucketsInOrder, EvalPhase

LEMMA NextBuckets == TypeOK /\ TallyCorrect /\ BucketsInOrder /\ [Next]_vars => BucketsInOrder'
<1> SUFFICES ASSUME TypeOK, TallyCorrect, BucketsInOrder, [Next]_vars PROVE BucketsInOrder'
  OBVIOUS
<1>1. /\ request' = request /\ store' = store /\ ctx'.uid = ctx.uid
      /\ i \in Nat \ {0} /\ Len(store.bundles) \in Nat
  <2>1. request' = request /\ store' = store
    BY InputsFixed
  <2>2. ctx'.uid = ctx.uid
    <3>1. ctx \in EvalCtx
      BY DEF TypeOK
    <3>2. CASE ApplyContextEntry \/ ApplyEntityAttr \/ ApplyEntityParent \/ ApplyGroup
      BY <3>1, <3>2 DEF ApplyContextEntry, ApplyEntityAttr, ApplyEntityParent, ApplyGroup,
                        AddParent, EvalCtx
    <3>3. CASE ctx' = ctx
      BY <3>3
    <3> QED
      BY <3>2, <3>3 DEF Next, vars, CheckStoreId, ContextDone, SkipEntity,
           AttributesDone, ParentsDone, EntitiesDone,
           GroupsDone, BeginBundle, TestForbid, ForbidDone, TestPermit, PermitDone, Finalize
  <2>3. Len(store.bundles) \in Nat
    BY StoreParts DEF TypeOK
  <2> QED
    BY <2>1, <2>2, <2>3 DEF TypeOK
<1>2. ctx'.uid = request'.uid
  BY <1>1 DEF BucketsInOrder
<1>3. ASSUME ctx' = ctx
      PROVE  DenyingIds' = DenyingIds /\ AllowingIds' = AllowingIds
  BY <1>1, <1>3 DEF DenyingIds, AllowingIds
<1>4. ASSUME ctx' = ctx, i' = i + 1
      PROVE  /\ FirstIds(DenyingIds, i - 1)' = FirstIds(DenyingIds, i)
             /\ FirstIds(AllowingIds, i - 1)' = FirstIds(AllowingIds, i)
  <2>1. i' - 1 = i
    BY <1>1, <1>4
  <2> QED
    BY <1>3, <1>4, <2>1 DEF FirstIds
<1>5. ASSUME ctx' = ctx, i' = i
      PROVE  /\ FirstIds(DenyingIds, i - 1)' = FirstIds(DenyingIds, i - 1)
             /\ FirstIds(AllowingIds, i - 1)' = FirstIds(AllowingIds, i - 1)
  BY <1>3, <1>5 DEF FirstIds
<1>6. CASE Building
  <2>1. pc' \in BuildPhase \/ pc' = "done"
    BY <1>6, BuildingStep
  <2> QED
    BY <1>2, <2>1 DEF BucketsInOrder, BuildPhase, EvalPhase
<1>7. CASE GroupsDone
  <2>1. pc = "groups" /\ pc' = "bundles" /\ i' = 1 /\ UNCHANGED <<permitIds, forbidIds>>
    BY <1>7 DEF GroupsDone
  <2>2. permitIds = <<>> /\ forbidIds = <<>>
    BY <2>1 DEF TallyCorrect, NothingBefore, EvalPhase
  <2>3. FirstIds(DenyingIds, i - 1)' = FirstIds(DenyingIds', 0)
        /\ FirstIds(AllowingIds, i - 1)' = FirstIds(AllowingIds', 0)
    <3>1. i' - 1 = 0
      BY <2>1
    <3> QED
      BY <3>1 DEF FirstIds
  <2>4. FirstIds(DenyingIds', 0) = <<>> /\ FirstIds(AllowingIds', 0) = <<>>
    BY FirstIdsNone
  <2> QED
    BY <1>1, <1>2, <2>1, <2>2, <2>3, <2>4 DEF BucketsInOrder
<1>8. CASE BeginBundle \/ TestForbid \/ TestPermit
  <2>1. /\ pc \in EvalPhase \ {"done"} /\ pc' \in {"forbidPass", "permitPass"}
        /\ i' = i /\ ctx' = ctx /\ UNCHANGED <<permitIds, forbidIds>>
    BY <1>8 DEF BeginBundle, TestForbid, TestPermit, EvalPhase
  <2> QED
    BY <1>2, <1>5, <2>1 DEF BucketsInOrder
<1>9. CASE ForbidDone
  <2>1. /\ pc = "forbidPass" /\ j > Len(CurrentBundle.policies)
        /\ ctx' = ctx /\ permitIds' = permitIds /\ i \in DOMAIN store.bundles
        /\ forbidIds = FirstIds(DenyingIds, i - 1) /\ permitIds = FirstIds(AllowingIds, i - 1)
    BY <1>9 DEF ForbidDone, BucketsInOrder, EvalPhase, TypeOK, IndicesInRange
  <2>2. detail.hasForbid <=> Denies(CurrentBundle, ctx)
    BY <2>1, FoundAll DEF TallyCorrect, ForbidPassExact, Denies
  <2>3. CASE detail.hasForbid
    <3>1. detail.policies # <<>>
      BY <2>1, <2>3 DEF TallyCorrect, ForbidPassExact
    <3>2. /\ forbidIds' = Append(forbidIds, CurrentBundle.policyId)
          /\ pc' = "bundles" /\ i' = i + 1
      BY <1>9, <2>3, <3>1 DEF ForbidDone
    <3>3. ~Allows(CurrentBundle, ctx)
      BY <2>2, <2>3 DEF Allows
    <3>4. forbidIds' = FirstIds(DenyingIds, i) /\ permitIds' = FirstIds(AllowingIds, i)
      BY <2>1, <2>2, <2>3, <3>2, <3>3, NextIds
    <3>5. i + 1 <= Len(store.bundles) + 1
      BY <1>1, <2>1, StoreParts, ElementAt DEF TypeOK
    <3> QED
      BY <1>1, <1>2, <1>4, <2>1, <3>2, <3>4, <3>5 DEF BucketsInOrder
  <2>4. CASE ~detail.hasForbid
    <3>1. pc' = "permitPass" /\ UNCHANGED <<i, forbidIds>>
      BY <1>9, <2>4 DEF ForbidDone
    <3> QED
      BY <1>2, <1>5, <2>1, <3>1 DEF BucketsInOrder
  <2> QED
    BY <2>3, <2>4
<1>10. CASE PermitDone
  <2>1. /\ pc = "permitPass" /\ j > Len(CurrentBundle.policies) /\ pc' = "bundles" /\ i' = i + 1
        /\ ctx' = ctx /\ i \in DOMAIN store.bundles
        /\ forbidIds = FirstIds(DenyingIds, i - 1) /\ permitIds = FirstIds(AllowingIds, i - 1)
    BY <1>10 DEF PermitDone, BucketsInOrder, EvalPhase, TypeOK, IndicesInRange
  <2>2. /\ ~Denies(CurrentBundle, ctx)
        /\ detail.hasPermit <=> Allows(CurrentBundle, ctx)
        /\ detail.hasPermit <=> detail.policies # <<>>
    BY <2>1, FoundAll DEF TallyCorrect, PermitPassExact, Allows
  <2>3. /\ forbidIds' = forbidIds
        /\ permitIds' = IF Allows(CurrentBundle, ctx)
                        THEN Append(permitIds, CurrentBundle.policyId) ELSE permitIds
    BY <1>10, <2>2 DEF PermitDone
  <2>4. forbidIds' = FirstIds(DenyingIds, i) /\ permitIds' = FirstIds(AllowingIds, i)
    BY <2>1, <2>2, <2>3, NextIds
  <2>5. i + 1 <= Len(store.bundles) + 1
    BY <1>1, <2>1, StoreParts, ElementAt DEF TypeOK
  <2> QED
    BY <1>1, <1>2, <1>4, <2>1, <2>4, <2>5 DEF BucketsInOrder
<1>11. CASE Finalize
  <2>1. pc' = "done"
    BY <1>11 DEF Finalize
  <2> QED
    BY <1>2, <2>1 DEF BucketsInOrder
<1>12. CASE UNCHANGED vars
  <2>1. UNCHANGED <<pc, i, ctx, forbidIds, permitIds>>
    BY <1>12 DEF vars
  <2> QED
    BY <1>1, <1>2, <1>5, <2>1 DEF BucketsInOrder
<1> QED
  BY <1>6, <1>7, <1>8, <1>9, <1>10, <1>11, <1>12 DEF Next, Building

-----------------------------------------------------------------------------
(***************************************************************************)
(* AuthzDecision reads the same rules.                                     *)
(***************************************************************************)
LEMMA SameContext ==
  \A req : Promise!DeclaredCtx(req) = DeclaredCtx(req)
<1>1. Promise!Slot = Slot /\ Promise!AttrSlot = AttrSlot /\ Promise!Uid = Uid
  BY DEF Promise!Slot, Slot, Promise!AttrSlot, AttrSlot, Promise!Uid, Uid
<1>2. \A req, s : Promise!DeclaredParents(req, s) = DeclaredParents(req, s)
  BY <1>1 DEF Promise!DeclaredParents, DeclaredParents, Promise!ListedUnder, ListedUnder
<1>3. \A req, at : Promise!EntryAt(req, at) = EntryAt(req, at)
  BY DEF Promise!EntryAt, EntryAt
<1>4. \A req, s : Promise!Positions(req, s) = Positions(req, s)
  BY <1>3 DEF Promise!Positions, Positions
<1>5. \A req, s : Promise!FirstValued(req, s) = FirstValued(req, s)
  BY <1>3, <1>4 DEF Promise!FirstValued, FirstValued, Promise!Precedes, Precedes
<1>6. \A req, s : Promise!LeadingSlot(req, s) <=> LeadingSlot(req, s)
  BY DEF Promise!LeadingSlot, LeadingSlot
<1>7. \A req, s : Promise!DeclaredAttrs(req, s) = DeclaredAttrs(req, s)
  BY <1>3, <1>5, <1>6 DEF Promise!DeclaredAttrs, DeclaredAttrs
<1> QED
  BY <1>1, <1>2, <1>7 DEF Promise!DeclaredCtx, DeclaredCtx

LEMMA SameErrors ==
  \A req : Promise!Errors(req) = Errors(req)
<1>1. Promise!AttrSlot = AttrSlot
  BY DEF Promise!Slot, Slot, Promise!AttrSlot, AttrSlot
<1>2. \A req, at : Promise!EntryAt(req, at) = EntryAt(req, at)
  BY DEF Promise!EntryAt, EntryAt
<1>3. \A req, s : Promise!Positions(req, s) = Positions(req, s)
  BY <1>2 DEF Promise!Positions, Positions
<1>4. \A req, s : Promise!FirstValued(req, s) = FirstValued(req, s)
  BY <1>2, <1>3 DEF Promise!FirstValued, FirstValued, Promise!Precedes, Precedes
<1>5. \A req, at : Promise!Reported(req, at) <=> Reported(req, at)
  BY <1>1, <1>2, <1>3, <1>4 DEF Promise!Reported, Reported
<1>6. \A req, at : Promise!ErrorAt(req, at) = ErrorAt(req, at)
  BY <1>2 DEF Promise!ErrorAt, ErrorAt
<1>7. \A seqs : Promise!FlattenSeq(seqs) = FlattenSeq(seqs)
  BY DEF Promise!FlattenSeq, FlattenSeq
<1>8. \A req, e, entries : Promise!ErrorsOf(req, e, entries) = ErrorsOf(req, e, entries)
  BY <1>5, <1>6, <1>7 DEF Promise!ErrorsOf, ErrorsOf
<1> QED
  BY <1>7, <1>8 DEF Promise!Errors, Errors

LEMMA SameDecision ==
  \A bundles, c : /\ Promise!DecisionOf(bundles, c) = DecisionOf(bundles, c)
                  /\ Promise!Determining(bundles, c) = Determining(bundles, c)
<1>1. Promise!Slot = Slot
  BY DEF Promise!Slot, Slot
<1>2. \A scope, c, s : Promise!InScope(scope, c, s) <=> InScope(scope, c, s)
  BY DEF Promise!InScope, InScope, Promise!Reach, Reach
<1>3. \A cond, c : Promise!Holds(cond, c) <=> Holds(cond, c)
  BY DEF Promise!Holds, Holds
<1>4. \A p, c : Promise!Satisfied(p, c) <=> Satisfied(p, c)
  BY <1>1, <1>2, <1>3 DEF Promise!Satisfied, Satisfied
<1>5. \A b, effect, c : Promise!Some(b, effect, c) <=> Some(b, effect, c)
  BY <1>4 DEF Promise!Some, Some
<1>6. \A b, c : /\ Promise!Denies(b, c) <=> Denies(b, c)
                /\ Promise!Allows(b, c) <=> Allows(b, c)
  BY <1>5 DEF Promise!Denies, Denies, Promise!Allows, Allows
<1>7. \A b, bundles, c : Promise!Determines(b, bundles, c) <=> Determines(b, bundles, c)
  BY <1>6 DEF Promise!Determines, Determines
<1>8. \A seqs : Promise!FlattenSeq(seqs) = FlattenSeq(seqs)
  BY DEF Promise!FlattenSeq, FlattenSeq
<1>9. \A bundles, c : Promise!DecisionOf(bundles, c) = DecisionOf(bundles, c)
  BY <1>6 DEF Promise!DecisionOf, DecisionOf
<1>10. \A bundles, c : Promise!Determining(bundles, c) = Determining(bundles, c)
  BY <1>7, <1>8 DEF Promise!Determining, Determining
<1> QED
  BY <1>9, <1>10

LEMMA SameVerdict ==
  /\ \A st, req : Promise!Verdict(st, req) = Verdict(st, req)
  /\ Promise!Blank = Blank
BY SameContext, SameErrors, SameDecision DEF Promise!Verdict, Verdict, Promise!Blank, Blank

-----------------------------------------------------------------------------
(***************************************************************************)
(* Past the first check, the request is one of this store.                 *)
(***************************************************************************)
Admitted == pc \notin {"storeId", "done"} => request.policyStoreId = store.id

(***************************************************************************)
(* Everything that the answer rests on.                                    *)
(***************************************************************************)
CallInv ==
  /\ TypeOK /\ TallyCorrect /\ ParentsSoFar /\ AttributesSoFar /\ ErrorsSoFar
  /\ BucketsInOrder /\ Admitted

LEMMA InitCall == Init => CallInv
<1> SUFFICES ASSUME Init PROVE CallInv
  OBVIOUS
<1>1. Admitted
  BY DEF Init, CallInit, Admitted
<1> QED
  BY <1>1, InitType, InitTally, InitParents, InitAttributes, InitErrors, InitBuckets DEF CallInv

LEMMA NextCall == CallInv /\ [Next]_vars => CallInv'
<1> SUFFICES ASSUME CallInv, [Next]_vars PROVE CallInv'
  OBVIOUS
<1>1. Admitted'
  <2>1. request' = request /\ store' = store
    BY InputsFixed
  <2>2. CASE CheckStoreId
    BY <2>1, <2>2 DEF CheckStoreId, Admitted
  <2>3. CASE pc \notin {"storeId", "done"}
    BY <2>1, <2>3 DEF CallInv, Admitted
  <2>4. CASE UNCHANGED vars
    BY <2>1, <2>4 DEF vars, CallInv, Admitted
  <2> QED
    BY <2>2, <2>3, <2>4 DEF Next, ApplyContextEntry, ContextDone, SkipEntity,
           ApplyEntityAttr, AttributesDone, ApplyEntityParent, ParentsDone, EntitiesDone, ApplyGroup,
           GroupsDone, BeginBundle, TestForbid, ForbidDone, TestPermit, PermitDone, Finalize
<1> QED
  BY <1>1, NextType, NextTally, NextParents, NextAttributes, NextErrors, NextBuckets DEF CallInv

(***************************************************************************)
(* The context that the bundles are matched against is the one that the    *)
(* request declares.                                                       *)
(***************************************************************************)
LEMMA ContextDeclared ==
  ASSUME CallInv, Evaluating
  PROVE  ctx = DeclaredCtx(request)
<1>1. ctx \in EvalCtx /\ ctx.uid = request.uid
  BY DEF CallInv, TypeOK, BucketsInOrder
<1>2. \A s \in Slot : ctx.parents[s] = DeclaredParents(request, s)
  BY DEF CallInv, ParentsSoFar, ParentsComplete
<1>3. \A s \in AttrSlot : ctx.attrs[s] = DeclaredAttrs(request, s)
  BY AttributesTaken DEF CallInv, AttributesComplete
<1>4. ctx.parents = [s \in Slot |-> DeclaredParents(request, s)]
  BY <1>1, <1>2 DEF EvalCtx
<1>5. ctx.attrs = [s \in AttrSlot |-> DeclaredAttrs(request, s)]
  BY <1>1, <1>3 DEF EvalCtx
<1> QED
  BY <1>1, <1>4, <1>5 DEF EvalCtx, DeclaredCtx

(***************************************************************************)
(* cedar_finalize_response returns the verdict.                            *)
(***************************************************************************)
LEMMA FinalizeAnswers ==
  ASSUME CallInv, Finalize
  PROVE  answer' = Verdict(store, request) /\ answer.outcome = "pending"
         /\ answer'.outcome # "pending" /\ UNCHANGED <<store, request>>
<1> DEFINE bundles == store.bundles
           n == Len(bundles)
<1>1. /\ pc = "bundles" /\ i > n /\ UNCHANGED <<store, request, ctx>>
      /\ answer' = [outcome             |-> "response",
                    decision            |-> IF forbidIds = <<>> /\ permitIds # <<>>
                                            THEN "ALLOW" ELSE "DENY",
                    determiningPolicies |-> IF forbidIds # <<>> THEN forbidIds ELSE permitIds,
                    errors              |-> errors]
  BY DEF Finalize
<1>2. Evaluating /\ request.policyStoreId = store.id
  BY <1>1 DEF CallInv, Admitted, Evaluating, EvalPhase
<1>3. ctx = DeclaredCtx(request)
  BY <1>2, ContextDeclared
<1>4. n \in Nat /\ i \in Nat /\ i - 1 = n /\ DOMAIN bundles = 1 .. n
  <2>1. bundles \in Seq(Bundle)
    BY StoreParts DEF CallInv, TypeOK
  <2>2. n \in Nat /\ DOMAIN bundles = 1 .. n
    BY <2>1
  <2>3. i \in Nat /\ i <= n + 1
    BY <1>1 DEF CallInv, TypeOK, BucketsInOrder
  <2> HIDE DEF n
  <2> QED
    BY <1>1, <2>2, <2>3
<1>5. errors = Errors(request)
  <2>1. errors = ErrorsBefore(Cursor)
    BY <1>2 DEF CallInv, ErrorsSoFar
  <2>2. Cursor = <<Len(request.entities) + 1, 1>>
    BY <1>1 DEF Cursor
  <2> QED
    BY <2>1, <2>2, AllPassed DEF CallInv
<1>6. answer'.decision = DecisionOf(bundles, ctx)
  <2>1. Decided'
    BY FinalizeDecides DEF CallInv
  <2> QED
    BY <1>1, <2>1 DEF Decided, DecisionCorrect
<1>7. /\ forbidIds = FirstIds(DenyingIds, n)
      /\ permitIds = FirstIds(AllowingIds, n)
  BY <1>1, <1>4 DEF CallInv, BucketsInOrder, EvalPhase
<1>8. forbidIds # <<>> <=> \E b \in DOMAIN bundles : Denies(bundles[b], ctx)
  <2>1. Range(forbidIds) = DenyingSoFar
    BY <1>1 DEF CallInv, TallyCorrect, BucketsExact, EvalPhase
  <2>2. \A c \in DOMAIN bundles : c < i
    BY <1>4
  <2>3. forbidIds # <<>> <=> Range(forbidIds) # {}
    BY RangeEmpty DEF CallInv, TypeOK
  <2> QED
    BY <2>1, <2>2, <2>3 DEF DenyingSoFar
<1>9. Determining(bundles, ctx) = IF forbidIds # <<>> THEN forbidIds ELSE permitIds
  <2> DEFINE ids == [b \in DOMAIN bundles |->
                       IF Determines(bundles[b], bundles, ctx)
                       THEN <<bundles[b].policyId>> ELSE <<>>]
  <2>1. CASE forbidIds # <<>>
    <3>1. ids = [b \in 1 .. n |-> DenyingIds[b]]
      BY <1>4, <1>8, <2>1 DEF Determines, DenyingIds
    <3> QED
      BY <1>7, <2>1, <3>1 DEF Determining, FirstIds
  <2>2. CASE forbidIds = <<>>
    <3>1. ids = [b \in 1 .. n |-> AllowingIds[b]]
      BY <1>4, <1>8, <2>2 DEF Determines, AllowingIds
    <3> QED
      BY <1>7, <2>2, <3>1 DEF Determining, FirstIds
  <2> QED
    BY <2>1, <2>2
<1>10. request.policyStoreId # NoStoreId
  BY <1>2, SentinelAssumption DEF CallInv, TypeOK, Store
<1>11. answer.outcome = "pending"
  BY <1>1 DEF CallInv, TallyCorrect, NothingBefore, NoAnswer
<1> HIDE DEF bundles, n
<1>12. answer' = [outcome             |-> "response",
                  decision            |-> DecisionOf(bundles, ctx),
                  determiningPolicies |-> Determining(bundles, ctx),
                  errors              |-> Errors(request)]
  BY <1>1, <1>5, <1>6, <1>9
<1> QED
  BY <1>1, <1>2, <1>3, <1>10, <1>11, <1>12 DEF Verdict, bundles

LEMMA RefusalAnswers ==
  ASSUME CallInv, CheckStoreId, request.policyStoreId # store.id
  PROVE  answer' = Verdict(store, request) /\ answer.outcome = "pending"
         /\ answer'.outcome # "pending" /\ UNCHANGED <<store, request>>
<1>1. answer = NoAnswer
  BY DEF CheckStoreId, CallInv, TallyCorrect, NothingBefore
<1>2. /\ answer' = [answer EXCEPT !.outcome = IF request.policyStoreId = NoStoreId
                                              THEN "Error" ELSE "ResourceNotFoundException"]
      /\ UNCHANGED <<store, request>>
  BY DEF CheckStoreId
<1> QED
  BY <1>1, <1>2 DEF Verdict, Blank, NoAnswer

(***************************************************************************)
(* Seen from outside, the call is one step: the loops, the early returns   *)
(* and the buffers are stutters, and what the caller gets - refusal or     *)
(* decision, determining policies in load order, errors in request order - *)
(* is the verdict that the store and the request define.                   *)
(***************************************************************************)
THEOREM AuthorizerImplementsDecision == Spec => ImplementsDecision
<1>1. Init => Promise!Init
  BY InputTypes, SameVerdict
  DEF Init, CallInit, Promise!Init, NoAnswer, Blank, Promise!Store, Store, Promise!Request, Request,
      Promise!Bundle, Bundle, Promise!Policy, Policy, Promise!Condition, Condition,
      Promise!Scope, Scope, Promise!Slot, Slot, Promise!Uid, Uid, Promise!Entity, Entity,
      Promise!AttrEntry, AttrEntry
<1>2. CallInv /\ [Next]_vars => [Promise!Respond]_(Promise!avars)
  <2> SUFFICES ASSUME CallInv, [Next]_vars PROVE [Promise!Respond]_(Promise!avars)
    OBVIOUS
  <2>1. CASE Finalize
    BY <2>1, FinalizeAnswers, SameVerdict DEF Promise!Respond, Promise!avars
  <2>2. CASE CheckStoreId /\ request.policyStoreId # store.id
    BY <2>2, RefusalAnswers, SameVerdict DEF Promise!Respond, Promise!avars
  <2>3. CASE CheckStoreId /\ request.policyStoreId = store.id
    BY <2>3 DEF CheckStoreId, Promise!avars
  <2>4. CASE UNCHANGED vars
    BY <2>4 DEF vars, Promise!avars
  <2>5. CASE Next /\ ~Finalize /\ ~CheckStoreId
    BY <2>5 DEF Next, ApplyContextEntry, ContextDone, SkipEntity,
           ApplyEntityAttr, AttributesDone, ApplyEntityParent, ParentsDone, EntitiesDone, ApplyGroup,
           GroupsDone, BeginBundle, TestForbid, ForbidDone, TestPermit, PermitDone, Promise!avars
  <2> QED
    BY <2>1, <2>2, <2>3, <2>4, <2>5
<1> QED
  BY <1>1, <1>2, InitCall, NextCall, PTL DEF Spec, ImplementsDecision, Promise!Spec
=============================================================================
