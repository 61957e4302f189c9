------------------------ MODULE AuthorizerProperties ------------------------
(***************************************************************************)
(* What the request loop of Authorizer keeps true while it runs, and what  *)
(* its answer means.                                                       *)
(***************************************************************************)
EXTENDS Authorizer, CedarSemantics, Functions

(***************************************************************************)
(* Inside a loop body the indices point into the array the body reads.     *)
(***************************************************************************)
IndicesInRange ==
  /\ pc = "parents" => i \in DOMAIN request.entities /\ CurrentEntity.identifier # BadUid
  /\ pc \in {"forbidPass", "permitPass"} => i \in DOMAIN store.bundles

(***************************************************************************)
(* The type invariant: cedar_evaluate_request's locals and the evaluation  *)
(* context of php_cedar_eval.c, and no unparsed value among the attributes.*)
(***************************************************************************)
TypeOK ==
  /\ IndicesInRange
  /\ store \in Store
  /\ request \in Request
  /\ pc \in Control
  /\ i \in Nat \ {0}
  /\ j \in Nat \ {0}
  /\ ctx \in EvalCtx
  /\ errors \in Seq(ErrorEntry)
  /\ permitIds \in Seq(PolicyId)
  /\ forbidIds \in Seq(PolicyId)
  /\ detail \in [policies : Seq(Nat), cap : Nat, hasForbid : BOOLEAN, hasPermit : BOOLEAN]
  /\ answer \in Answer

(***************************************************************************)
(* Policies are being matched, or have been.                               *)
(***************************************************************************)
Evaluating == pc \in EvalPhase /\ request.policyStoreId = store.id

(***************************************************************************)
(* No policy is matched before the context is complete: from the first     *)
(* bundle on, each slot has exactly the ancestors the request gives it, so *)
(* neither token groups nor the parents of an entity that is principal and *)
(* resource at once leak to a slot they are not for.                       *)
(***************************************************************************)
ParentsComplete ==
  Evaluating => \A s \in Slot : ctx.parents[s] = DeclaredParents(request, s)

(***************************************************************************)
(* Likewise for attributes, whatever the order of good, malformed, half    *)
(* applied and repeated entries across context map and entity list.        *)
(***************************************************************************)
AttributesComplete ==
  Evaluating => \A s \in AttrSlot : ctx.attrs[s] = DeclaredAttrs(request, s)

(***************************************************************************)
(* find_attr returns the first attribute of a name and record equality     *)
(* counts on unique names, so no name may be in an attribute array twice.  *)
(***************************************************************************)
AttrNamesUnique ==
  \A s \in AttrSlot : \A a, b \in ctx.attrs[s] : a.name = b.name => a = b

(***************************************************************************)
(* php_cedar_detail_push never writes past the buffer it allocated, across *)
(* the doublings and the reset of cap between the two passes; and what it  *)
(* records is a matching policy of the effect the pass is after.           *)
(***************************************************************************)
DetailInBounds ==
  /\ Len(detail.policies) <= detail.cap
  /\ pc \in {"forbidPass", "permitPass"} =>
       \A k \in DOMAIN detail.policies :
         /\ detail.policies[k] < j
         /\ CurrentBundle.policies[detail.policies[k]].isForbid = (pc = "forbidPass")

(***************************************************************************)
(* At every step of the evaluation, forbid_ids and permit_ids are exactly  *)
(* the bundles before bundle i that deny and that allow, and the flags and *)
(* list of php_cedar_eval_detail are those of the policies before policy j *)
(* of bundle i: nothing of an earlier bundle or of the forbid pass is left *)
(* over, and an implicit DENY is told from a forbid.                       *)
(***************************************************************************)
Found(isForbid) ==
  \E k \in DOMAIN CurrentBundle.policies :
    /\ k < j
    /\ CurrentBundle.policies[k].isForbid = isForbid
    /\ Satisfied(CurrentBundle.policies[k], ctx)

DenyingSoFar ==
  {store.bundles[b].policyId :
     b \in {c \in DOMAIN store.bundles : c < i /\ Denies(store.bundles[c], ctx)}}

AllowingSoFar ==
  {store.bundles[b].policyId :
     b \in {c \in DOMAIN store.bundles : c < i /\ Allows(store.bundles[c], ctx)}}

NothingBefore ==
  /\ pc \notin EvalPhase => permitIds = <<>> /\ forbidIds = <<>>
  /\ pc # "done" => answer = NoAnswer

BucketsExact ==
  pc \in EvalPhase \ {"done"} => /\ Range(forbidIds) = DenyingSoFar
                                /\ Range(permitIds) = AllowingSoFar

ForbidPassExact ==
  pc = "forbidPass" => /\ ~detail.hasPermit
                       /\ detail.hasForbid <=> Found(TRUE)
                       /\ detail.hasForbid <=> detail.policies # <<>>

PermitPassExact ==
  pc = "permitPass" => /\ ~detail.hasForbid
                       /\ ~Denies(CurrentBundle, ctx)
                       /\ detail.hasPermit <=> Found(FALSE)
                       /\ detail.hasPermit <=> detail.policies # <<>>

TallyCorrect == NothingBefore /\ BucketsExact /\ ForbidPassExact /\ PermitPassExact

(***************************************************************************)
(* Forbid overrides permit across bundles, and DENY is the default; the    *)
(* determining policies are the bundles with a satisfied forbid or, when   *)
(* there is none, those with a satisfied permit.  A policy whose condition *)
(* errors has no part in it.                                               *)
(***************************************************************************)
DecisionCorrect ==
  answer.outcome = "response" =>
    /\ answer.decision = DecisionOf(store.bundles, ctx)
    /\ Range(answer.determiningPolicies)
         = {store.bundles[b].policyId :
              b \in {c \in DOMAIN store.bundles :
                       Determines(store.bundles[c], store.bundles, ctx)}}

(***************************************************************************)
(* A forbid that has been recorded is never outvoted: once a bundle is in  *)
(* forbid_ids no later step can make the answer ALLOW or take it out.      *)
(***************************************************************************)
ForbidIsFinal ==
  [][forbidIds # <<>> => /\ forbidIds' # <<>>
                         /\ answer'.decision # "ALLOW"]_vars

(***************************************************************************)
(* The call, seen from outside, is the one step of AuthzDecision.          *)
(***************************************************************************)
Promise == INSTANCE AuthzDecision

ImplementsDecision == Promise!Spec

(***************************************************************************)
(* Every call returns: no loop of the evaluation is left without an exit.  *)
(***************************************************************************)
Returns == <>(pc = "done")
-----------------------------------------------------------------------------
(***************************************************************************)
(* README.md:379: a malformed AttributeValue does not abort the request,   *)
(* "the entry is skipped".  So no attribute has a value that only a        *)
(* malformed entry supplies.                                               *)
(***************************************************************************)
MalformedSkipped ==
  Evaluating =>
    \A s \in AttrSlot : \A a \in ctx.attrs[s] :
      \E at \in Positions(request, s) :
        /\ EntryAt(request, at).name = a.name
        /\ EntryAt(request, at).value = a.value
        /\ EntryAt(request, at).ok

(***************************************************************************)
(* cedar.c:803 and tests/027: an identifier that is principal and resource *)
(* at once has its attributes applied to both.                             *)
(***************************************************************************)
SharedIdentifierAgrees ==
  Evaluating =>
    \A s, t \in Slot : request.uid[s] = request.uid[t] => ctx.attrs[s] = ctx.attrs[t]
=============================================================================
