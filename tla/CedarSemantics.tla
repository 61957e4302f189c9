--------------------------- MODULE CedarSemantics ---------------------------
(***************************************************************************)
(* What an authorization decision should be, stated without loops, early   *)
(* returns or buffers: the Cedar rules the extension claims to follow      *)
(* (README.md, "AVP compatibility"; the AVP rules quoted above             *)
(* cedar_finalize_response).  The evaluator's modules are checked and      *)
(* proved against these definitions.                                       *)
(***************************************************************************)
EXTENDS CedarTypes, SequencesExt

(***************************************************************************)
(* The ancestors a request supplies for a slot: the parents listed under   *)
(* its identifier and, for the principal, the token groups.                *)
(***************************************************************************)
ListedUnder(request, e, uid) ==
  \E k \in DOMAIN request.entities[e].parents : request.entities[e].parents[k] = uid

DeclaredParents(request, slot) ==
  {uid \in Uid :
     \/ \E e \in DOMAIN request.entities :
          /\ request.entities[e].identifier = request.uid[slot]
          /\ ListedUnder(request, e, uid)
     \/ slot = "principal" /\ \E g \in DOMAIN request.groups : request.groups[g] = uid}

(***************************************************************************)
(* The attribute entries of the request, as positions: <<0, k>> is entry k *)
(* of the context map, <<e, k>> attribute k of entity e.                   *)
(***************************************************************************)
EntryAt(request, at) ==
  IF at[1] = 0 THEN request.context[at[2]]
  ELSE request.entities[at[1]].attributes[at[2]]

Positions(request, slot) ==
  {at \in IF slot = "context" THEN {<<0, k>> : k \in DOMAIN request.context}
          ELSE UNION {{<<e, k>> : k \in DOMAIN request.entities[e].attributes} :
                        e \in {d \in DOMAIN request.entities :
                                 request.entities[d].identifier = request.uid[slot]}} :
     EntryAt(request, at).name # NoName}

Precedes(a, b) == a[1] < b[1] \/ (a[1] = b[1] /\ a[2] < b[2])

(***************************************************************************)
(* The entries that give slot a value: the first of each name that has one *)
(* at all.  Any other entry of that name is an error.                      *)
(***************************************************************************)
FirstValued(request, slot) ==
  {at \in Positions(request, slot) :
     /\ EntryAt(request, at).value # NoValue
     /\ \A b \in Positions(request, slot) :
          /\ Precedes(b, at)
          /\ EntryAt(request, b).name = EntryAt(request, at).name
          => EntryAt(request, b).value = NoValue}

(***************************************************************************)
(* When slots share an identifier, an entry that fails half-way reaches    *)
(* the first of them and no other.                                         *)
(***************************************************************************)
LeadingSlot(request, slot) ==
  \/ slot \in {"context", "principal"}
  \/ slot = "action" /\ request.uid[slot] # request.uid["principal"]
  \/ slot = "resource" /\ request.uid[slot] \notin
                            {request.uid["principal"], request.uid["action"]}

DeclaredAttrs(request, slot) ==
  {[name |-> EntryAt(request, at).name, value |-> EntryAt(request, at).value] :
     at \in {b \in FirstValued(request, slot) :
               EntryAt(request, b).ok \/ LeadingSlot(request, slot)}}

DeclaredCtx(request) ==
  [uid     |-> request.uid,
   parents |-> [s \in Slot |-> DeclaredParents(request, s)],
   attrs   |-> [s \in AttrSlot |-> DeclaredAttrs(request, s)]]

(***************************************************************************)
(* An entry is reported unless it gave every slot it names its value.      *)
(***************************************************************************)
Reported(request, at) ==
  \E s \in AttrSlot :
    /\ at \in Positions(request, s)
    /\ ~(at \in FirstValued(request, s) /\ EntryAt(request, at).ok)
-----------------------------------------------------------------------------
(***************************************************************************)
(* Every entity an entity is `in`: itself and its supplied ancestors.      *)
(***************************************************************************)
Reach(ctx, slot) == {ctx.uid[slot]} \cup ctx.parents[slot]

InScope(scope, ctx, slot) ==
  /\ scope.constraint \in {"is", "is_in"} => ctx.uid[slot].type = scope.type
  /\ scope.constraint = "eq" => ctx.uid[slot] \in scope.targets
  /\ scope.constraint \in {"in", "is_in"} => Reach(ctx, slot) \cap scope.targets # {}

(***************************************************************************)
(* A `when` needs true and an `unless` needs false: a condition that       *)
(* errors, or is not a boolean, satisfies neither.                         *)
(***************************************************************************)
Holds(cond, ctx) ==
  ExprEval(cond.expr, ctx) = (IF cond.isUnless THEN "false" ELSE "true")

Satisfied(policy, ctx) ==
  /\ \A slot \in Slot : InScope(policy.scope[slot], ctx, slot)
  /\ \A k \in DOMAIN policy.conditions : Holds(policy.conditions[k], ctx)

(***************************************************************************)
(* The bundles that deny and, among the rest, the bundles that allow.      *)
(***************************************************************************)
Some(bundle, isForbid, ctx) ==
  \E k \in DOMAIN bundle.policies :
    /\ bundle.policies[k].isForbid = isForbid
    /\ Satisfied(bundle.policies[k], ctx)

Denies(bundle, ctx) == Some(bundle, TRUE, ctx)
Allows(bundle, ctx) == ~Denies(bundle, ctx) /\ Some(bundle, FALSE, ctx)

(***************************************************************************)
(* Forbid overrides permit, and the default is DENY.                       *)
(***************************************************************************)
DecisionOf(bundles, ctx) ==
  IF /\ \A b \in DOMAIN bundles : ~Denies(bundles[b], ctx)
     /\ \E b \in DOMAIN bundles : Allows(bundles[b], ctx)
  THEN "ALLOW"
  ELSE "DENY"

(***************************************************************************)
(* The bundles that determine the decision: the denying ones if there are  *)
(* any, and the allowing ones otherwise.                                   *)
(***************************************************************************)
Determines(bundle, bundles, ctx) ==
  IF \E b \in DOMAIN bundles : Denies(bundles[b], ctx)
  THEN Denies(bundle, ctx)
  ELSE Allows(bundle, ctx)
-----------------------------------------------------------------------------
(***************************************************************************)
(* The answer that a store and a request define: the decision, the         *)
(* determining policies in load order and the errors in request order.     *)
(***************************************************************************)
Blank == [outcome |-> "pending", decision |-> "none",
          determiningPolicies |-> <<>>, errors |-> <<>>]

(***************************************************************************)
(* The reported entries of one array, in its order: the context map is     *)
(* array 0, and array e has the attributes of entity e.                    *)
(***************************************************************************)
ErrorAt(req, at) ==
  [source |-> IF at[1] = 0 THEN ContextMap ELSE req.entities[at[1]].identifier,
   name   |-> EntryAt(req, at).name]

ErrorsOf(req, e, entries) ==
  FlattenSeq([k \in DOMAIN entries |->
                IF Reported(req, <<e, k>>) THEN <<ErrorAt(req, <<e, k>>)>> ELSE <<>>])

Errors(req) ==
  ErrorsOf(req, 0, req.context) \o
    FlattenSeq([e \in DOMAIN req.entities |-> ErrorsOf(req, e, req.entities[e].attributes)])

Determining(bundles, c) ==
  FlattenSeq([b \in DOMAIN bundles |->
                IF Determines(bundles[b], bundles, c) THEN <<bundles[b].policyId>> ELSE <<>>])

Verdict(st, req) ==
  IF req.policyStoreId = NoStoreId THEN [Blank EXCEPT !.outcome = "Error"]
  ELSE IF req.policyStoreId # st.id
       THEN [Blank EXCEPT !.outcome = "ResourceNotFoundException"]
  ELSE LET c == DeclaredCtx(req)
       IN  [outcome             |-> "response",
            decision            |-> DecisionOf(st.bundles, c),
            determiningPolicies |-> Determining(st.bundles, c),
            errors              |-> Errors(req)]
=============================================================================
