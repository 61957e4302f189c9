------------------------- MODULE AuthorizationClient -------------------------
(***************************************************************************)
(* A Cedar\AuthorizationClient over its life (cedar.c): it is constructed, *)
(* perhaps more than once, holds a reference to a PolicyStore, and answers *)
(* isAuthorized and isAuthorizedWithToken.                                 *)
(*                                                                         *)
(* No PHP code runs inside either method, so a call is one step.  What     *)
(* cedar_evaluate_request does with the arguments is CedarSemantics, which *)
(* Authorizer implements; here is what happens before it is called, and    *)
(* the reference counts that keep the store it reads in memory.            *)
(***************************************************************************)
EXTENDS CedarSemantics

CONSTANTS
  Object,      \* PolicyStore objects
  NoObject,    \* the client's policy_store is UNDEF
  StoreStates, \* what a PolicyStore may hold
  Claim,       \* claim names of a token
  Sub,         \* the default of principalIdClaim
  None,        \* an option, argument or claim that is absent or has another type
  Sources,     \* the identitySource options a constructor may be given
  Arguments,   \* the $params of the calls
  MaxRefs      \* bound on the references to one store

ASSUME SubAssumption == Sub \in Claim
ASSUME NoObjectAssumption == NoObject \notin Object
ASSUME NoneAssumption == None \notin EntityId

(***************************************************************************)
(* A token's payload: a claim is a string, a list, or neither.             *)
(***************************************************************************)
Payload == [Claim -> [str : EntityId \cup {None}, list : Seq(EntityId \cup {None}) \cup {None}]]

IdentitySource == [principalEntityType : EntityType \cup {None},
                   principalIdClaim    : Claim \cup {None},
                   groupEntityType     : EntityType \cup {None},
                   groupIdsClaim       : Claim \cup {None}]

Params == [policyStoreId : StoreId \cup {NoStoreId},
           principal     : Uid \cup {BadUid, None},
           action        : Uid \cup {BadUid},
           resource      : Uid \cup {BadUid},
           context       : Seq(AttrEntry),
           entities      : Seq(Entity),
           identityToken : Payload \cup {None},
           accessToken   : Payload \cup {None}]

ASSUME ClientInputAssumption ==
  /\ StoreStates \subseteq Store
  /\ Sources \subseteq IdentitySource
  /\ Arguments \subseteq Params

VARIABLES
  held,      \* the stores that a variable of the PHP program refers to
  refs,      \* the reference count of each store; 0 when it has been freed
  contents,  \* what each store holds
  bound,     \* intern->policy_store
  source,    \* intern->identity_source
  call,      \* the last call: its method and $params
  asked,     \* the request it handed to cedar_evaluate_request
  returned   \* what it returned or threw

clientVars == <<held, refs, contents, bound, source, call, asked, returned>>

NoCall == [method |-> "none"]
Nothing == [principal |-> None, reply |-> Blank]

ClientInit ==
  /\ held = {}
  /\ refs = [o \in Object |-> 0]
  /\ contents \in [Object -> StoreStates]
  /\ bound = NoObject
  /\ source = None
  /\ call = NoCall
  /\ asked = None
  /\ returned = Nothing

Idle == call' = NoCall /\ asked' = None /\ returned' = Nothing
-----------------------------------------------------------------------------
(***************************************************************************)
(* The PHP program: it creates stores, changes them (PolicyStore models    *)
(* how) and drops its variables.                                           *)
(***************************************************************************)
NewStore(o, st) ==
  /\ refs[o] = 0
  /\ refs' = [refs EXCEPT ![o] = 1]
  /\ held' = held \cup {o}
  /\ contents' = [contents EXCEPT ![o] = st]
  /\ Idle
  /\ UNCHANGED <<bound, source>>

ChangeStore(o, st) ==
  /\ o \in held
  /\ contents' = [contents EXCEPT ![o] = st]
  /\ Idle
  /\ UNCHANGED <<held, refs, bound, source>>

DropStore(o) ==
  /\ o \in held
  /\ held' = held \ {o}
  /\ refs' = [refs EXCEPT ![o] = @ - 1]
  /\ Idle
  /\ UNCHANGED <<contents, bound, source>>

(***************************************************************************)
(* AuthorizationClient::__construct.  Called again, it takes the new store *)
(* without giving back the old one, and keeps an identitySource it is not  *)
(* given anew.                                                             *)
(***************************************************************************)
Options == Sources \cup {None}

\* Variant: the store is borrowed, ZVAL_COPY_VALUE for ZVAL_COPY.
ConstructBorrowing(o, identitySource) ==
  /\ o \in held
  /\ refs[o] < MaxRefs
  /\ bound' = o
  /\ source' = IF identitySource = None THEN source ELSE identitySource
  /\ Idle
  /\ UNCHANGED <<held, refs, contents>>

Construct(o, identitySource) ==
  /\ o \in held
  /\ refs[o] < MaxRefs
  /\ bound' = o
  /\ refs' = [refs EXCEPT ![o] = @ + 1]
  /\ source' = IF identitySource = None THEN source ELSE identitySource
  /\ Idle
  /\ UNCHANGED <<held, contents>>

(***************************************************************************)
(* The object is freed, and another one created in its place, which stays  *)
(* unbound until its constructor runs.                                     *)
(***************************************************************************)
Free ==
  /\ bound # NoObject
  /\ refs' = [refs EXCEPT ![bound] = @ - 1]
  /\ bound' = NoObject
  /\ source' = None
  /\ Idle
  /\ UNCHANGED <<held, contents>>
-----------------------------------------------------------------------------
AsRequest(p, principal, groups) ==
  [policyStoreId |-> p.policyStoreId,
   uid           |-> [s \in Slot |-> IF s = "principal" THEN principal
                                      ELSE IF s = "action" THEN p.action ELSE p.resource],
   context       |-> p.context,
   entities      |-> p.entities,
   groups        |-> groups]

Throw(exception) == [principal |-> None, reply |-> [Blank EXCEPT !.outcome = exception]]

Refuse(exception) == asked' = None /\ returned' = Throw(exception)

(***************************************************************************)
(* cedar_evaluate_request, with the principal in a token call's response.  *)
(***************************************************************************)
Evaluate(request, principal) ==
  LET reply == Verdict(contents[bound], request)
  IN  /\ asked' = request
      /\ returned' = [principal |-> IF reply.outcome = "response" THEN principal ELSE None,
                      reply     |-> reply]

Called(method, p) ==
  /\ call' = [method |-> method, params |-> p]
  /\ UNCHANGED <<held, refs, contents, bound, source>>

MisshapenTarget(p) == BadUid \in {p.action, p.resource}

IsAuthorized(p) ==
  /\ Called("isAuthorized", p)
  /\ IF bound = NoObject THEN Refuse("EvaluationException")
     ELSE IF p.principal \in {BadUid, None} \/ MisshapenTarget(p) THEN Refuse("Error")
     ELSE Evaluate(AsRequest(p, p.principal, <<>>), None)

(***************************************************************************)
(* The identity token if it is an array, and the access token otherwise.   *)
(***************************************************************************)
TokenOf(p) == IF p.identityToken # None THEN p.identityToken ELSE p.accessToken

PrincipalClaim == IF source.principalIdClaim # None THEN source.principalIdClaim ELSE Sub

GroupList(token) ==
  IF \/ source.groupEntityType = None
     \/ source.groupIdsClaim = None
     \/ token[source.groupIdsClaim].list = None
  THEN <<>>
  ELSE token[source.groupIdsClaim].list

\* Variant: an element that is not a string is taken for an id.
AsGroupsUnfiltered(list) ==
  [k \in DOMAIN list |-> [type |-> source.groupEntityType, id |-> list[k]]]

AsGroup(g) == IF g = None THEN <<>> ELSE <<[type |-> source.groupEntityType, id |-> g]>>

AsGroups(list) == FlattenSeq([k \in DOMAIN list |-> AsGroup(list[k])])

\* Variants: memberships come from the access token whenever there is one; a
\* list ends at its first element that is not a string.
GroupsInAccessToken(p) ==
  AsGroups(GroupList(IF p.accessToken # None THEN p.accessToken ELSE p.identityToken))

GroupsUpToBad(p) ==
  LET list == GroupList(TokenOf(p))
      bad  == {k \in DOMAIN list : list[k] = None}
  IN  AsGroups(IF bad = {} THEN list
               ELSE SubSeq(list, 1, (CHOOSE k \in bad : \A l \in bad : k <= l) - 1))

(***************************************************************************)
(* cedar_build_group_parents: the strings of the group claim, none when it *)
(* is not configured or not a list.                                        *)
(***************************************************************************)
Groups(p) == AsGroups(GroupList(TokenOf(p)))

(***************************************************************************)
(* What isAuthorizedWithToken refuses with an Error, all before it builds  *)
(* the request.                                                            *)
(***************************************************************************)
TokenCallRefused(p) ==
  \/ source = None
  \/ p.principal # None
  \/ TokenOf(p) = None
  \/ source.principalEntityType = None
  \/ TokenOf(p)[PrincipalClaim].str = None
  \/ MisshapenTarget(p)

IsAuthorizedWithToken(p) ==
  /\ Called("isAuthorizedWithToken", p)
  /\ IF bound = NoObject THEN Refuse("EvaluationException")
     ELSE IF TokenCallRefused(p) THEN Refuse("Error")
     ELSE LET principal == [type |-> source.principalEntityType,
                            id   |-> TokenOf(p)[PrincipalClaim].str]
          IN  Evaluate(AsRequest(p, principal, Groups(p)), principal)

ClientNext ==
  \/ \E o \in Object, st \in StoreStates : NewStore(o, st) \/ ChangeStore(o, st)
  \/ \E o \in Object : DropStore(o)
  \/ \E o \in Object, options \in Options : Construct(o, options)
  \/ Free
  \/ \E p \in Arguments : IsAuthorized(p) \/ IsAuthorizedWithToken(p)

ClientSpec == ClientInit /\ [][ClientNext]_clientVars
-----------------------------------------------------------------------------
(***************************************************************************)
(* The type invariant; a request reaches the evaluation only whole.        *)
(***************************************************************************)
ClientTypeOK ==
  /\ held \subseteq Object
  /\ refs \in [Object -> Nat]
  /\ contents \in [Object -> Store]
  /\ bound \in Object \cup {NoObject}
  /\ source \in IdentitySource \cup {None}
  /\ call = NoCall \/ call.params \in Params
  /\ asked = None \/ asked \in Request
  /\ returned.principal \in Uid \cup {None}

(***************************************************************************)
(* The client never reads a store that has been freed: whatever variables  *)
(* are dropped, and however often the client is constructed, its own       *)
(* reference keeps the store it is bound to.                               *)
(***************************************************************************)
BoundStoreAlive == bound # NoObject => refs[bound] > 0

(***************************************************************************)
(* A token call is answered as the plain call would be for the principal   *)
(* of the response, with the groups of its token listed as that            *)
(* principal's parents (README.md, isAuthorizedWithToken): claims give     *)
(* nothing else, and nothing less.  An entity that is also the action or   *)
(* the resource is excepted: listing it gives parents to that role too.    *)
(***************************************************************************)
GroupsClaimed(p) ==
  IF source.groupEntityType = None \/ source.groupIdsClaim = None THEN {}
  ELSE {uid \in [type : {source.groupEntityType}, id : EntityId] :
          LET list == TokenOf(p)[source.groupIdsClaim].list
          IN  list # None /\ \E k \in DOMAIN list : list[k] = uid.id}

TokenAsEntities ==
  call.method = "isAuthorizedWithToken" /\ returned.principal # None =>
    LET p      == call.params
        listed == [identifier |-> returned.principal, attributes |-> <<>>,
                   parents |-> SetToSeq(GroupsClaimed(p))]
        plain  == [p EXCEPT !.entities = Append(@, listed)]
    IN  returned.principal \notin {p.action, p.resource} =>
          returned.reply = Verdict(contents[bound], AsRequest(plain, returned.principal, <<>>))

(***************************************************************************)
(* tests/021: the identity token wins.  Principal and groups then both     *)
(* come from it, and the access token has no influence at all.             *)
(***************************************************************************)
FromIdentityToken(p, request) ==
  /\ request.uid["principal"].id \in {p.identityToken[c].str : c \in Claim}
  /\ \A g \in DOMAIN request.groups :
       \E c \in Claim : LET list == p.identityToken[c].list
                        IN  list # None /\ \E k \in DOMAIN list : list[k] = request.groups[g].id

IdentityTokenWins ==
  /\ call.method = "isAuthorizedWithToken"
  /\ call.params.identityToken # None
  /\ asked # None
  => FromIdentityToken(call.params, asked)

(***************************************************************************)
(* A call with tokens is the call that its one token describes.            *)
(* (AuthorizationClient::isAuthorizedWithToken)                            *)
(***************************************************************************)
TokensMeanEntities == TokenAsEntities /\ IdentityTokenWins
=============================================================================
