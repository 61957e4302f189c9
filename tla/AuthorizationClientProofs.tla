---------------------- MODULE AuthorizationClientProofs ----------------------
(***************************************************************************)
(* For any stores, arguments and identity sources: the store a client is   *)
(* bound to is in memory, what it asks is a whole request, and what a      *)
(* token says is what the same entities would say.                         *)
(***************************************************************************)
EXTENDS AuthorizationClient, SequenceLemmas, FiniteSetTheorems

(***************************************************************************)
(* The count of a store covers its holders: the variable of the program    *)
(* and the client.  It may be higher, since a client constructed again     *)
(* does not give its first store back.                                     *)
(***************************************************************************)
One(b) == IF b THEN 1 ELSE 0

Covered == \A o \in Object : refs[o] >= One(o \in held) + One(bound = o)

CountInv ==
  /\ held \subseteq Object
  /\ refs \in [Object -> Nat]
  /\ bound \in Object \cup {NoObject}
  /\ Covered

LEMMA CountInit == ClientInit => CountInv
BY NoObjectAssumption DEF ClientInit, CountInv, Covered, One

LEMMA CountStep == CountInv /\ [ClientNext]_clientVars => CountInv'
<1> SUFFICES ASSUME CountInv, [ClientNext]_clientVars
             PROVE  CountInv'
  OBVIOUS
<1> USE NoObjectAssumption DEF CountInv, Covered, One
<1>1. ASSUME NEW o \in Object, NEW st \in StoreStates, NewStore(o, st)
      PROVE  CountInv'
  BY <1>1 DEF NewStore
<1>2. ASSUME NEW o \in Object, NEW st \in StoreStates, ChangeStore(o, st)
      PROVE  CountInv'
  BY <1>2 DEF ChangeStore
<1>3. ASSUME NEW o \in Object, DropStore(o)
      PROVE  CountInv'
  BY <1>3 DEF DropStore
<1>4. ASSUME NEW o \in Object, NEW options \in Options, Construct(o, options)
      PROVE  CountInv'
  <2>1. /\ bound' = o /\ held' = held
        /\ refs' = [refs EXCEPT ![o] = @ + 1]
    BY <1>4 DEF Construct
  <2> QED
    BY <2>1
<1>5. ASSUME Free
      PROVE  CountInv'
  <2>1. /\ bound \in Object /\ bound' = NoObject /\ held' = held
        /\ refs' = [refs EXCEPT ![bound] = @ - 1]
    BY <1>5 DEF Free
  <2> QED
    BY <2>1
<1>6. ASSUME NEW p \in Arguments, IsAuthorized(p) \/ IsAuthorizedWithToken(p)
      PROVE  CountInv'
  BY <1>6 DEF IsAuthorized, IsAuthorizedWithToken, Called
<1>7. CASE UNCHANGED clientVars
  BY <1>7 DEF clientVars
<1> QED
  BY <1>1, <1>2, <1>3, <1>4, <1>5, <1>6, <1>7 DEF ClientNext

LEMMA CountImplies == CountInv => BoundStoreAlive
BY NoObjectAssumption DEF CountInv, Covered, One, BoundStoreAlive

(***************************************************************************)
(* A client never reads a freed store, whatever order variables are        *)
(* dropped and clients constructed, constructed again and freed in         *)
(* (cedar.c, AuthorizationClient::__construct and free_obj).               *)
(***************************************************************************)
THEOREM BoundStoreStaysAlive == ClientSpec => []BoundStoreAlive
<1>1. ClientSpec => []CountInv
  BY CountInit, CountStep, PTL DEF ClientSpec
<1> QED
  BY <1>1, CountImplies, PTL
-----------------------------------------------------------------------------
(***************************************************************************)
(* The groups of a list: its strings, each with the configured type.       *)
(***************************************************************************)
LEMMA GroupsOfList ==
  ASSUME source \in IdentitySource, source.groupEntityType \in EntityType,
         NEW list \in Seq(EntityId \cup {None})
  PROVE  /\ AsGroups(list) \in Seq(Uid)
         /\ \A uid : Contains(AsGroups(list), uid) <=>
                       /\ uid \in [type : {source.groupEntityType}, id : EntityId]
                       /\ uid.id # None /\ Contains(list, uid.id)
<1>1. PICK n : n = Len(list)
  OBVIOUS
<1>2. n \in Nat /\ DOMAIN list = 1 .. n /\ \A k \in 1 .. n : list[k] \in EntityId \cup {None}
  BY <1>1
<1>3. PICK parts : parts = [k \in DOMAIN list |-> AsGroup(list[k])]
  OBVIOUS
<1>4. ASSUME NEW k \in 1 .. n PROVE parts[k] \in Seq(Uid)
  <2>1. parts[k] = AsGroup(list[k]) /\ list[k] \in EntityId \cup {None}
    BY <1>2, <1>3
  <2>2. CASE list[k] = None
    BY <2>1, <2>2 DEF AsGroup
  <2>3. CASE list[k] # None
    <3>1. PICK g : g = [type |-> source.groupEntityType, id |-> list[k]]
      OBVIOUS
    <3>2. g \in Uid
      BY <2>1, <2>3, <3>1 DEF Uid
    <3>3. parts[k] = <<g>>
      BY <2>1, <2>3, <3>1 DEF AsGroup
    <3> QED
      BY <3>2, <3>3
  <2> QED
    BY <2>2, <2>3
<1>5. DOMAIN parts = 1 .. n /\ parts \in Seq(Seq(Uid)) /\ AsGroups(list) = FlattenSeq(parts)
  BY <1>2, <1>3, <1>4 DEF AsGroups
<1>6. AsGroups(list) \in Seq(Uid)
  BY <1>5, FlattenType
<1>7. ASSUME NEW uid
      PROVE  Contains(AsGroups(list), uid) <=>
               /\ uid \in [type : {source.groupEntityType}, id : EntityId]
               /\ uid.id # None /\ Contains(list, uid.id)
  <2>1. Contains(AsGroups(list), uid) <=> \E k \in 1 .. n : Contains(parts[k], uid)
    BY <1>5, FlattenContains
  <2>2. ASSUME NEW k \in 1 .. n
        PROVE  Contains(parts[k], uid) <=>
                 list[k] # None /\ uid = [type |-> source.groupEntityType, id |-> list[k]]
    <3>1. parts[k] = AsGroup(list[k])
      BY <1>2, <1>3
    <3>2. CASE list[k] = None
      BY <3>1, <3>2 DEF AsGroup, Contains
    <3>3. CASE list[k] # None
      <4>1. PICK g : g = [type |-> source.groupEntityType, id |-> list[k]]
        OBVIOUS
      <4>2. parts[k] = <<g>> /\ DOMAIN <<g>> = {1}
        BY <3>1, <3>3, <4>1 DEF AsGroup
      <4> QED
        BY <3>3, <4>1, <4>2 DEF Contains
    <3> QED
      BY <3>2, <3>3
  <2>3. ASSUME NEW k \in 1 .. n, list[k] # None,
               uid = [type |-> source.groupEntityType, id |-> list[k]]
        PROVE  /\ uid \in [type : {source.groupEntityType}, id : EntityId]
               /\ uid.id # None /\ Contains(list, uid.id)
    BY <1>2, <2>3 DEF Contains
  <2>4. ASSUME uid \in [type : {source.groupEntityType}, id : EntityId],
               uid.id # None, Contains(list, uid.id)
        PROVE  \E k \in 1 .. n : list[k] # None
                 /\ uid = [type |-> source.groupEntityType, id |-> list[k]]
    <3>1. PICK k \in 1 .. n : list[k] = uid.id
      BY <1>2, <2>4 DEF Contains
    <3>2. uid = [type |-> source.groupEntityType, id |-> uid.id]
      BY <2>4
    <3> QED
      BY <2>4, <3>1, <3>2
  <2> QED
    BY <2>1, <2>2, <2>3, <2>4
<1> QED
  BY <1>6, <1>7

(***************************************************************************)
(* Where there are no groups to take, the list is empty.                   *)
(***************************************************************************)
LEMMA GroupListType ==
  ASSUME source \in IdentitySource, NEW token \in Payload
  PROVE  /\ GroupList(token) \in Seq(EntityId \cup {None})
         /\ source.groupEntityType \notin EntityType => GroupList(token) = <<>>
<1>1. \A c \in Claim : token[c].list \in Seq(EntityId \cup {None}) \cup {None}
  BY DEF Payload
<1>2. /\ source.groupEntityType \in EntityType \cup {None}
      /\ source.groupIdsClaim \in Claim \cup {None}
  BY DEF IdentitySource
<1> QED
  BY <1>1, <1>2 DEF GroupList

LEMMA GroupsType ==
  ASSUME source \in IdentitySource, NEW p, TokenOf(p) \in Payload
  PROVE  Groups(p) \in Seq(Uid)
<1>1. PICK list : list = GroupList(TokenOf(p))
  OBVIOUS
<1>2. list \in Seq(EntityId \cup {None}) /\ (source.groupEntityType \notin EntityType => list = <<>>)
  BY <1>1, GroupListType
<1>3. Groups(p) = AsGroups(list)
  BY <1>1 DEF Groups
<1>4. CASE source.groupEntityType \in EntityType
  BY <1>2, <1>3, <1>4, GroupsOfList
<1>5. CASE source.groupEntityType \notin EntityType
  <2>1. [k \in DOMAIN list |-> AsGroup(list[k])] = <<>>
    BY <1>2, <1>5
  <2>2. Groups(p) = <<>>
    BY <1>3, <2>1, FlattenEmpty DEF AsGroups
  <2> QED
    BY <2>2
<1> QED
  BY <1>4, <1>5

(***************************************************************************)
(* A request made of well typed parts is a request.                        *)
(***************************************************************************)
LEMMA RequestType ==
  ASSUME NEW p \in Params, NEW principal \in Uid, NEW groups \in Seq(Uid), ~MisshapenTarget(p)
  PROVE  AsRequest(p, principal, groups) \in Request
<1>1. p.action \in Uid /\ p.resource \in Uid
  BY DEF Params, MisshapenTarget
<1>2. PICK uids : uids = [s \in Slot |-> IF s = "principal" THEN principal
                                         ELSE IF s = "action" THEN p.action ELSE p.resource]
  OBVIOUS
<1>3. uids \in [Slot -> Uid]
  BY <1>1, <1>2
<1>4. /\ p.policyStoreId \in StoreId \cup {NoStoreId} /\ p.context \in Seq(AttrEntry)
      /\ p.entities \in Seq(Entity)
  BY DEF Params
<1> QED
  BY <1>2, <1>3, <1>4 DEF AsRequest, Request

(***************************************************************************)
(* What a token call that is not refused asks.                             *)
(***************************************************************************)
TokenPrincipal(p) == [type |-> source.principalEntityType, id |-> TokenOf(p)[PrincipalClaim].str]

LEMMA TokenCallType ==
  ASSUME source \in IdentitySource \cup {None}, NEW p \in Params, ~TokenCallRefused(p)
  PROVE  /\ source \in IdentitySource /\ TokenOf(p) \in Payload /\ PrincipalClaim \in Claim
         /\ TokenPrincipal(p) \in Uid /\ Groups(p) \in Seq(Uid)
         /\ p.action \in Uid /\ p.resource \in Uid
         /\ AsRequest(p, TokenPrincipal(p), Groups(p)) \in Request
<1>1. /\ source \in IdentitySource /\ source.principalEntityType # None
      /\ TokenOf(p) # None /\ TokenOf(p)[PrincipalClaim].str # None /\ ~MisshapenTarget(p)
  BY DEF TokenCallRefused
<1>2. TokenOf(p) \in Payload
  BY <1>1 DEF TokenOf, Params
<1>3. PrincipalClaim \in Claim
  BY <1>1, SubAssumption DEF PrincipalClaim, IdentitySource
<1>4. PICK token, c : token = TokenOf(p) /\ c = PrincipalClaim
  OBVIOUS
<1>5. token[c].str \in EntityId \cup {None}
  BY <1>2, <1>3, <1>4 DEF Payload
<1>6. TokenPrincipal(p) \in Uid
  BY <1>1, <1>4, <1>5 DEF TokenPrincipal, IdentitySource, Uid
<1>7. Groups(p) \in Seq(Uid)
  BY <1>1, <1>2, GroupsType
<1>8. p.action \in Uid /\ p.resource \in Uid
  BY <1>1 DEF Params, MisshapenTarget
<1> QED
  BY <1>1, <1>2, <1>3, <1>6, <1>7, <1>8, RequestType

LEMMA EvaluateType ==
  ASSUME NEW request \in Request, NEW principal \in Uid \cup {None}, Evaluate(request, principal)
  PROVE  asked' \in Request /\ returned'.principal \in Uid \cup {None}
<1>1. PICK reply : reply = Verdict(contents[bound], request)
  OBVIOUS
<1>2. /\ asked' = request
      /\ returned' = [principal |-> IF reply.outcome = "response" THEN principal ELSE None,
                      reply     |-> reply]
  BY <1>1 DEF Evaluate
<1> QED
  BY <1>2

LEMMA RefuseType ==
  ASSUME NEW exception, Refuse(exception)
  PROVE  asked' = None /\ returned'.principal = None
BY DEF Refuse, Throw

CallTypes ==
  /\ call = NoCall \/ call.params \in Params
  /\ asked = None \/ asked \in Request
  /\ returned.principal \in Uid \cup {None}

LEMMA CalledType ==
  ASSUME NEW p \in Arguments, source \in IdentitySource \cup {None},
         IsAuthorized(p) \/ IsAuthorizedWithToken(p)
  PROVE  CallTypes'
<1>1. p \in Params
  BY ClientInputAssumption
<1>2. call'.params = p
  BY DEF IsAuthorized, IsAuthorizedWithToken, Called
<1>3. ASSUME NEW exception, Refuse(exception) PROVE CallTypes'
  BY <1>1, <1>2, <1>3, RefuseType DEF CallTypes
<1>4. ASSUME NEW request \in Request, NEW principal \in Uid \cup {None}, Evaluate(request, principal)
      PROVE  CallTypes'
  BY <1>1, <1>2, <1>4, EvaluateType DEF CallTypes
<1>5. CASE IsAuthorized(p)
  <2>1. \/ \E exception : Refuse(exception)
        \/ /\ p.principal \notin {BadUid, None} /\ ~MisshapenTarget(p)
           /\ Evaluate(AsRequest(p, p.principal, <<>>), None)
    BY <1>5 DEF IsAuthorized
  <2>2. CASE \E exception : Refuse(exception)
    BY <1>3, <2>2
  <2>3. CASE /\ p.principal \notin {BadUid, None} /\ ~MisshapenTarget(p)
             /\ Evaluate(AsRequest(p, p.principal, <<>>), None)
    <3>1. p.principal \in Uid
      BY <1>1, <2>3 DEF Params
    <3>2. AsRequest(p, p.principal, <<>>) \in Request
      <4>1. <<>> \in Seq(Uid)
        OBVIOUS
      <4> QED
        BY <1>1, <2>3, <3>1, <4>1, RequestType
    <3> QED
      BY <1>4, <2>3, <3>2
  <2> QED
    BY <2>1, <2>2, <2>3
<1>6. CASE IsAuthorizedWithToken(p)
  <2>1. \/ \E exception : Refuse(exception)
        \/ ~TokenCallRefused(p) /\ Evaluate(AsRequest(p, TokenPrincipal(p), Groups(p)), TokenPrincipal(p))
    BY <1>6 DEF IsAuthorizedWithToken, TokenPrincipal
  <2>2. CASE \E exception : Refuse(exception)
    BY <1>3, <2>2
  <2>3. CASE ~TokenCallRefused(p) /\ Evaluate(AsRequest(p, TokenPrincipal(p), Groups(p)), TokenPrincipal(p))
    <3>1. TokenPrincipal(p) \in Uid /\ AsRequest(p, TokenPrincipal(p), Groups(p)) \in Request
      BY <1>1, <2>3, TokenCallType
    <3> QED
      BY <1>4, <2>3, <3>1
  <2> QED
    BY <2>1, <2>2, <2>3
<1> QED
  BY <1>5, <1>6

LEMMA InitClientTypes == ClientInit => ClientTypeOK
<1> SUFFICES ASSUME ClientInit PROVE ClientTypeOK
  OBVIOUS
<1>1. contents \in [Object -> Store]
  BY ClientInputAssumption DEF ClientInit
<1> QED
  BY <1>1 DEF ClientInit, ClientTypeOK, Nothing

LEMMA NextClientTypes == ClientTypeOK /\ CountInv /\ [ClientNext]_clientVars => ClientTypeOK'
<1> SUFFICES ASSUME ClientTypeOK, CountInv, [ClientNext]_clientVars PROVE ClientTypeOK'
  OBVIOUS
<1>1. held' \subseteq Object /\ refs' \in [Object -> Nat] /\ bound' \in Object \cup {NoObject}
  BY CountStep DEF CountInv
<1>2. source \in IdentitySource \cup {None} /\ contents \in [Object -> Store]
      /\ CallTypes
  BY DEF ClientTypeOK, CallTypes
<1>3. Idle => CallTypes'
  BY DEF Idle, CallTypes, Nothing
<1>4. source' \in IdentitySource \cup {None} /\ contents' \in [Object -> Store]
      /\ CallTypes'
  <2>1. ASSUME NEW o \in Object, NEW st \in StoreStates, NewStore(o, st) \/ ChangeStore(o, st)
        PROVE  source' = source /\ contents' \in [Object -> Store] /\ Idle
    <3>1. st \in Store
      BY ClientInputAssumption
    <3> QED
      BY <1>2, <2>1, <3>1 DEF NewStore, ChangeStore
  <2>2. ASSUME NEW o \in Object, DropStore(o)
        PROVE  source' = source /\ contents' = contents /\ Idle
    BY <2>2 DEF DropStore
  <2>3. ASSUME NEW o \in Object, NEW options \in Options, Construct(o, options)
        PROVE  source' \in IdentitySource \cup {None} /\ contents' = contents /\ Idle
    BY <1>2, <2>3, ClientInputAssumption DEF Construct, Options
  <2>4. ASSUME Free PROVE source' = None /\ contents' = contents /\ Idle
    BY <2>4 DEF Free
  <2>5. ASSUME NEW p \in Arguments, IsAuthorized(p) \/ IsAuthorizedWithToken(p)
        PROVE  source' = source /\ contents' = contents /\ CallTypes'
    <3>1. source' = source /\ contents' = contents
      BY <2>5 DEF IsAuthorized, IsAuthorizedWithToken, Called
    <3> QED
      BY <1>2, <2>5, <3>1, CalledType
  <2>6. CASE UNCHANGED clientVars
    BY <1>2, <2>6 DEF clientVars, CallTypes
  <2> QED
    BY <1>2, <1>3, <2>1, <2>2, <2>3, <2>4, <2>5, <2>6 DEF ClientNext
<1> QED
  BY <1>1, <1>4 DEF ClientTypeOK, CallTypes

(***************************************************************************)
(* Whatever the options, tokens and claims hold, a request reaches the     *)
(* evaluation only whole: nothing that is not a string becomes part of an  *)
(* identifier (cedar_payload_str, cedar_build_group_parents).              *)
(***************************************************************************)
THEOREM ClientTypeCorrect == ClientSpec => []ClientTypeOK
  BY CountInit, CountStep, InitClientTypes, NextClientTypes, PTL DEF ClientSpec

-----------------------------------------------------------------------------
(***************************************************************************)
(* Two requests that differ in one thing: the groups of r are, in q, the   *)
(* parents of an entity listed last, which is the principal.               *)
(***************************************************************************)
Listing(r, q) ==
  /\ r \in Request /\ q \in Request
  /\ q.policyStoreId = r.policyStoreId /\ q.uid = r.uid /\ q.context = r.context
  /\ q.groups = <<>>
  /\ Len(q.entities) = Len(r.entities) + 1
  /\ \A e \in 1 .. Len(r.entities) : q.entities[e] = r.entities[e]
  /\ LET listed == q.entities[Len(r.entities) + 1]
     IN  /\ listed.identifier = r.uid["principal"] /\ listed.attributes = <<>>
         /\ \A uid : Contains(listed.parents, uid) <=> Contains(r.groups, uid)
  /\ r.uid["principal"] \notin {r.uid["action"], r.uid["resource"]}

LEMMA ListingParts ==
  ASSUME NEW r, NEW q, Listing(r, q)
  PROVE  \E n \in Nat :
           /\ n = Len(r.entities) /\ DOMAIN r.entities = 1 .. n /\ DOMAIN q.entities = 1 .. n + 1
           /\ \A e \in 1 .. n : e \in 1 .. n + 1 /\ q.entities[e] = r.entities[e]
           /\ \A e \in 1 .. n + 1 : e \in 1 .. n \/ e = n + 1
           /\ q.entities[n + 1].identifier = r.uid["principal"]
           /\ q.entities[n + 1].attributes = <<>>
           /\ n + 1 \in 1 .. n + 1
<1>1. r.entities \in Seq(Entity) /\ q.entities \in Seq(Entity)
  BY DEF Listing, Request
<1>2. PICK n : n = Len(r.entities)
  OBVIOUS
<1>3. n \in Nat /\ DOMAIN r.entities = 1 .. n
  BY <1>1, <1>2
<1>4. Len(q.entities) = n + 1
  BY <1>2 DEF Listing
<1>5. DOMAIN q.entities = 1 .. n + 1
  BY <1>1, <1>4
<1>6. /\ \A e \in 1 .. n : q.entities[e] = r.entities[e]
      /\ q.entities[n + 1].identifier = r.uid["principal"]
      /\ q.entities[n + 1].attributes = <<>>
  BY <1>2 DEF Listing
<1>7. (\A e \in 1 .. n : e \in 1 .. n + 1) /\ n + 1 \in 1 .. n + 1
      /\ \A e \in 1 .. n + 1 : e \in 1 .. n \/ e = n + 1
  BY <1>3
<1> QED
  BY <1>2, <1>3, <1>5, <1>6, <1>7

LEMMA SameParents ==
  ASSUME NEW r, NEW q, Listing(r, q), NEW slot \in Slot
  PROVE  DeclaredParents(q, slot) = DeclaredParents(r, slot)
<1>1. PICK n \in Nat :
        /\ n = Len(r.entities) /\ DOMAIN r.entities = 1 .. n /\ DOMAIN q.entities = 1 .. n + 1
        /\ \A e \in 1 .. n : e \in 1 .. n + 1 /\ q.entities[e] = r.entities[e]
        /\ \A e \in 1 .. n + 1 : e \in 1 .. n \/ e = n + 1
        /\ q.entities[n + 1].identifier = r.uid["principal"]
        /\ n + 1 \in 1 .. n + 1
  BY ListingParts
<1>2. /\ q.uid = r.uid /\ q.groups = <<>> /\ r \in Request /\ q \in Request
      /\ r.uid["principal"] \notin {r.uid["action"], r.uid["resource"]}
      /\ \A uid : Contains(q.entities[n + 1].parents, uid) <=> Contains(r.groups, uid)
  BY <1>1 DEF Listing
<1>3. \A uid : Contains(q.entities[n + 1].parents, uid) <=> ListedUnder(q, n + 1, uid)
  <2>1. q.entities \in Seq(Entity)
    BY <1>2 DEF Request
  <2>2. q.entities[n + 1] \in Entity
    BY <1>1, <2>1
  <2>3. q.entities[n + 1].parents \in Seq(Uid \cup {BadUid})
    BY <2>2 DEF Entity
  <2> QED
    BY <2>3 DEF Contains, ListedUnder
<1>4. \A uid : Contains(r.groups, uid) <=> \E g \in DOMAIN r.groups : r.groups[g] = uid
  <2>1. r.groups \in Seq(Uid)
    BY <1>2 DEF Request
  <2> QED
    BY <2>1 DEF Contains
<1>5. \A e \in 1 .. n : \A uid : ListedUnder(q, e, uid) <=> ListedUnder(r, e, uid)
  BY <1>1 DEF ListedUnder
<1>6. slot # "principal" => r.uid[slot] # r.uid["principal"]
  BY <1>2 DEF Slot
<1>7. ASSUME NEW uid \in Uid
      PROVE  uid \in DeclaredParents(q, slot) <=> uid \in DeclaredParents(r, slot)
  <2> DEFINE Older == \E e \in 1 .. n : r.entities[e].identifier = r.uid[slot] /\ ListedUnder(r, e, uid)
  <2>1. uid \in DeclaredParents(r, slot) <=>
          Older \/ (slot = "principal" /\ Contains(r.groups, uid))
    BY <1>1, <1>4 DEF DeclaredParents
  <2>2. uid \in DeclaredParents(q, slot) <=>
          \E e \in 1 .. n + 1 : q.entities[e].identifier = r.uid[slot] /\ ListedUnder(q, e, uid)
    BY <1>1, <1>2 DEF DeclaredParents
  <2>3. (\E e \in 1 .. n + 1 : q.entities[e].identifier = r.uid[slot] /\ ListedUnder(q, e, uid)) <=>
          Older \/ (r.uid["principal"] = r.uid[slot] /\ ListedUnder(q, n + 1, uid))
    BY <1>1, <1>5
  <2>4. ListedUnder(q, n + 1, uid) <=> Contains(r.groups, uid)
    BY <1>2, <1>3
  <2> HIDE DEF Older
  <2> QED
    BY <1>6, <2>1, <2>2, <2>3, <2>4
<1>8. DeclaredParents(q, slot) \subseteq Uid /\ DeclaredParents(r, slot) \subseteq Uid
  BY DEF DeclaredParents
<1> QED
  BY <1>7, <1>8

LEMMA SamePositions ==
  ASSUME NEW r, NEW q, Listing(r, q), NEW slot
  PROVE  /\ Positions(q, slot) = Positions(r, slot)
         /\ \A at \in Positions(r, slot) : EntryAt(q, at) = EntryAt(r, at)
<1>1. PICK n \in Nat :
        /\ n = Len(r.entities) /\ DOMAIN r.entities = 1 .. n /\ DOMAIN q.entities = 1 .. n + 1
        /\ \A e \in 1 .. n : e \in 1 .. n + 1 /\ q.entities[e] = r.entities[e]
        /\ \A e \in 1 .. n + 1 : e \in 1 .. n \/ e = n + 1
        /\ q.entities[n + 1].attributes = <<>>
  BY ListingParts
<1>2. q.uid = r.uid /\ q.context = r.context
  BY DEF Listing
<1>3. CASE slot = "context"
  <2>1. \A k : EntryAt(q, <<0, k>>) = EntryAt(r, <<0, k>>)
    BY <1>2 DEF EntryAt
  <2> QED
    BY <1>2, <1>3, <2>1 DEF Positions
<1>4. CASE slot # "context"
  <2> DEFINE Here(s, at) == \E e \in DOMAIN s.entities : \E k \in DOMAIN s.entities[e].attributes :
                              s.entities[e].identifier = s.uid[slot] /\ at = <<e, k>>
  <2>1. \A at : at \in Positions(r, slot) <=> Here(r, at) /\ EntryAt(r, at).name # NoName
    BY <1>4 DEF Positions
  <2>2. \A at : at \in Positions(q, slot) <=> Here(q, at) /\ EntryAt(q, at).name # NoName
    BY <1>4 DEF Positions
  <2>3. \A at : Here(q, at) <=> Here(r, at)
    <3>1. DOMAIN q.entities[n + 1].attributes = {}
      BY <1>1
    <3> QED
      BY <1>1, <1>2, <3>1
  <2>4. \A at : Here(r, at) => EntryAt(q, at) = EntryAt(r, at)
    <3> SUFFICES ASSUME NEW e \in 1 .. n, NEW k PROVE EntryAt(q, <<e, k>>) = EntryAt(r, <<e, k>>)
      BY <1>1
    <3>1. e # 0
      OBVIOUS
    <3> QED
      BY <1>1, <3>1 DEF EntryAt
  <2> HIDE DEF Here
  <2>5. \A at : at \in Positions(q, slot) <=> at \in Positions(r, slot)
    BY <2>1, <2>2, <2>3, <2>4
  <2>6. \A at \in Positions(r, slot) : EntryAt(q, at) = EntryAt(r, at)
    BY <2>1, <2>4
  <2> QED
    BY <2>5, <2>6
<1> QED
  BY <1>3, <1>4

LEMMA SameFirst ==
  ASSUME NEW r, NEW q, Listing(r, q), NEW slot
  PROVE  FirstValued(q, slot) = FirstValued(r, slot)
BY SamePositions DEF FirstValued

LEMMA SameContext ==
  ASSUME NEW r, NEW q, Listing(r, q)
  PROVE  DeclaredCtx(q) = DeclaredCtx(r)
<1>1. q.uid = r.uid
  BY DEF Listing
<1>2. \A slot \in Slot : DeclaredParents(q, slot) = DeclaredParents(r, slot)
  BY SameParents
<1>3. ASSUME NEW slot \in AttrSlot PROVE DeclaredAttrs(q, slot) = DeclaredAttrs(r, slot)
  <2>1. FirstValued(q, slot) = FirstValued(r, slot)
    BY SameFirst
  <2>2. \A at \in FirstValued(r, slot) : EntryAt(q, at) = EntryAt(r, at)
    BY SamePositions DEF FirstValued
  <2>3. LeadingSlot(q, slot) <=> LeadingSlot(r, slot)
    BY <1>1 DEF LeadingSlot
  <2> QED
    BY <2>1, <2>2, <2>3 DEF DeclaredAttrs
<1> QED
  BY <1>1, <1>2, <1>3 DEF DeclaredCtx

LEMMA SameReports ==
  ASSUME NEW r, NEW q, Listing(r, q), NEW at
  PROVE  Reported(q, at) <=> Reported(r, at)
<1>1. \A slot \in AttrSlot :
        /\ Positions(q, slot) = Positions(r, slot) /\ FirstValued(q, slot) = FirstValued(r, slot)
        /\ at \in Positions(r, slot) => EntryAt(q, at) = EntryAt(r, at)
  BY SamePositions, SameFirst
<1> QED
  BY <1>1 DEF Reported

LEMMA SameErrorsOf ==
  ASSUME NEW r, NEW q, Listing(r, q), NEW e, NEW entries,
         \A k \in DOMAIN entries : ErrorAt(q, <<e, k>>) = ErrorAt(r, <<e, k>>)
  PROVE  ErrorsOf(q, e, entries) = ErrorsOf(r, e, entries)
<1>1. \A k \in DOMAIN entries : Reported(q, <<e, k>>) <=> Reported(r, <<e, k>>)
  BY SameReports
<1> QED
  BY <1>1 DEF ErrorsOf

LEMMA ErrorsOfType ==
  ASSUME NEW S, NEW r, NEW e, NEW entries \in Seq(AttrEntry),
         \A k \in Nat : ErrorAt(r, <<e, k>>) \in S
  PROVE  ErrorsOf(r, e, entries) \in Seq(S)
<1>1. PICK n, parts : n = Len(entries) /\ parts = [k \in DOMAIN entries |->
                  IF Reported(r, <<e, k>>) THEN <<ErrorAt(r, <<e, k>>)>> ELSE <<>>]
  OBVIOUS
<1>2. n \in Nat /\ DOMAIN entries = 1 .. n
  BY <1>1
<1>3. ASSUME NEW k \in 1 .. n PROVE parts[k] \in Seq(S)
  <2>1. PICK x : x = ErrorAt(r, <<e, k>>)
    OBVIOUS
  <2>2. x \in S /\ (parts[k] = <<x>> \/ parts[k] = <<>>)
    BY <1>1, <1>2, <2>1
  <2>3. <<x>> \in Seq(S) /\ <<>> \in Seq(S)
    BY <2>2
  <2> QED
    BY <2>2, <2>3
<1>4. parts \in Seq(Seq(S)) /\ ErrorsOf(r, e, entries) = FlattenSeq(parts)
  BY <1>1, <1>2, <1>3 DEF ErrorsOf
<1> QED
  BY <1>4, FlattenType

LEMMA SameErrors ==
  ASSUME NEW r, NEW q, Listing(r, q)
  PROVE  Errors(q) = Errors(r)
<1>1. PICK n \in Nat :
        /\ n = Len(r.entities) /\ DOMAIN r.entities = 1 .. n /\ DOMAIN q.entities = 1 .. n + 1
        /\ \A e \in 1 .. n : e \in 1 .. n + 1 /\ q.entities[e] = r.entities[e]
        /\ \A e \in 1 .. n + 1 : e \in 1 .. n \/ e = n + 1
        /\ q.entities[n + 1].attributes = <<>> /\ n + 1 \in 1 .. n + 1
  BY ListingParts
<1>2. q.context = r.context /\ q \in Request
  BY DEF Listing
<1>3. \A e \in 1 .. n + 1 : q.entities[e].attributes \in Seq(AttrEntry)
  <2>1. q.entities \in Seq(Entity)
    BY <1>2 DEF Request
  <2>2. \A e \in 1 .. n + 1 : q.entities[e] \in Entity
    BY <1>1, <2>1
  <2> QED
    BY <2>2 DEF Entity
<1>4. ErrorsOf(q, 0, q.context) = ErrorsOf(r, 0, r.context)
  <2>1. \A k : ErrorAt(q, <<0, k>>) = ErrorAt(r, <<0, k>>)
    BY <1>2 DEF ErrorAt, EntryAt
  <2> QED
    BY <1>2, <2>1, SameErrorsOf
<1>5. PICK f, g : /\ f = [e \in 1 .. n + 1 |-> ErrorsOf(q, e, q.entities[e].attributes)]
                  /\ g = [e \in 1 .. n |-> ErrorsOf(r, e, r.entities[e].attributes)]
  OBVIOUS
<1>6. ASSUME NEW e \in 1 .. n PROVE f[e] = g[e]
  <2>1. e # 0 /\ q.entities[e] = r.entities[e]
    BY <1>1
  <2>2. \A k : ErrorAt(q, <<e, k>>) = ErrorAt(r, <<e, k>>)
    BY <2>1 DEF ErrorAt, EntryAt
  <2>3. ErrorsOf(q, e, q.entities[e].attributes) = ErrorsOf(r, e, q.entities[e].attributes)
    BY <2>2, SameErrorsOf
  <2> QED
    BY <1>1, <1>5, <2>1, <2>3
<1>7. f[n + 1] = <<>>
  <2>1. f[n + 1] = ErrorsOf(q, n + 1, <<>>)
    BY <1>1, <1>5
  <2>2. PICK m : m = n + 1
    OBVIOUS
  <2>3. ErrorsOf(q, m, <<>>) = FlattenSeq(<<>>)
    BY DEF ErrorsOf
  <2> QED
    BY <2>1, <2>2, <2>3, FlattenEmpty
<1> DEFINE S == {ErrorAt(q, <<e, k>>) : e \in 1 .. n + 1, k \in Nat}
<1>8. \A e \in 1 .. n + 1, k \in Nat : ErrorAt(q, <<e, k>>) \in S
  OBVIOUS
<1> HIDE DEF S
<1>9. \A e \in 1 .. n + 1 : f[e] \in Seq(S)
  <2> TAKE e \in 1 .. n + 1
  <2>1. \A k \in Nat : ErrorAt(q, <<e, k>>) \in S
    BY <1>8
  <2>2. ErrorsOf(q, e, q.entities[e].attributes) \in Seq(S)
    BY <1>3, <2>1, ErrorsOfType
  <2> QED
    BY <1>5, <2>2
<1>10. PICK less, more : less = [e \in 1 .. n |-> f[e]] /\ more = [e \in 1 .. n + 1 |-> f[e]]
  OBVIOUS
<1>11. FlattenSeq(less) \in Seq(S) /\ FlattenSeq(more) = FlattenSeq(less) \o f[n + 1]
  BY <1>9, <1>10, FlattenStep
<1>12. less = g /\ more = f
  BY <1>5, <1>6, <1>10
<1>13. FlattenSeq(f) = FlattenSeq(g)
  <2>1. PICK z : z = FlattenSeq(less)
    OBVIOUS
  <2>2. z \in Seq(S) /\ FlattenSeq(more) = z \o <<>>
    BY <1>7, <1>11, <2>1
  <2>3. z \o <<>> = z
    BY <2>2
  <2> QED
    BY <1>12, <2>1, <2>2, <2>3
<1>14. /\ Errors(q) = ErrorsOf(q, 0, q.context) \o FlattenSeq(f)
       /\ Errors(r) = ErrorsOf(r, 0, r.context) \o FlattenSeq(g)
  BY <1>1, <1>5 DEF Errors
<1> QED
  BY <1>4, <1>13, <1>14

LEMMA SameAnswer ==
  ASSUME NEW st, NEW r, NEW q, Listing(r, q)
  PROVE  Verdict(st, q) = Verdict(st, r)
<1>1. q.policyStoreId = r.policyStoreId
  BY DEF Listing
<1> QED
  BY <1>1, SameContext, SameErrors DEF Verdict

-----------------------------------------------------------------------------
(***************************************************************************)
(* A finite set as a sequence, and the groups of a token as a set.         *)
(***************************************************************************)
LEMMA SetAsSequence ==
  ASSUME NEW S, IsFiniteSet(S)
  PROVE  SetToSeq(S) \in Seq(S) /\ \A x : Contains(SetToSeq(S), x) <=> x \in S
<1>1. PICK n : n = Cardinality(S)
  OBVIOUS
<1>2. n \in Nat /\ ExistsBijection(1 .. n, S)
  BY <1>1, FS_CardinalityType
<1>3. PICK b \in Bijection(1 .. n, S) : TRUE
  BY <1>2 DEF ExistsBijection
<1>4. b \in [1 .. n -> S] /\ IsInjective(b)
  BY <1>3 DEF Bijection, Injection
<1>5. PICK f : f = SetToSeq(S)
  OBVIOUS
<1>6. f \in [1 .. n -> S] /\ IsInjective(f)
  BY <1>1, <1>4, <1>5 DEF SetToSeq
<1>7. f \in Injection(1 .. n, S)
  BY <1>6 DEF Injection
<1>8. IsFiniteSet(1 .. n) /\ Cardinality(1 .. n) = n
  BY <1>2, FS_Interval
<1>9. f \in Surjection(1 .. n, S)
  BY <1>1, <1>7, <1>8, FS_Injection
<1>10. \A x \in S : \E k \in 1 .. n : f[k] = x
  BY <1>9 DEF Surjection
<1>11. f \in Seq(S) /\ Len(f) = n
  BY <1>2, <1>6
<1> QED
  BY <1>5, <1>6, <1>10, <1>11 DEF Contains

LEMMA ClaimedGroups ==
  ASSUME source \in IdentitySource, NEW p, TokenOf(p) \in Payload
  PROVE  /\ \A uid : Contains(Groups(p), uid) <=> uid \in GroupsClaimed(p)
         /\ GroupsClaimed(p) \subseteq Uid /\ IsFiniteSet(GroupsClaimed(p))
<1>1. PICK token : token = TokenOf(p)
  OBVIOUS
<1>2. PICK list : list = GroupList(token)
  OBVIOUS
<1>3. /\ list \in Seq(EntityId \cup {None}) /\ Groups(p) = AsGroups(list)
      /\ Groups(p) \in Seq(Uid)
  BY <1>1, <1>2, GroupListType, GroupsType DEF Groups
<1>4. /\ source.groupEntityType \in EntityType \cup {None}
      /\ source.groupIdsClaim \in Claim \cup {None}
  BY DEF IdentitySource
<1>5. CASE source.groupEntityType = None \/ source.groupIdsClaim = None
  <2>1. list = <<>>
    BY <1>2, <1>5 DEF GroupList
  <2>2. [k \in DOMAIN list |-> AsGroup(list[k])] = <<>>
    BY <2>1
  <2>3. Groups(p) = <<>> /\ GroupsClaimed(p) = {}
    BY <1>3, <1>5, <2>2, FlattenEmpty DEF AsGroups, GroupsClaimed
  <2> QED
    BY <2>3, FS_EmptySet DEF Contains
<1>6. CASE source.groupEntityType # None /\ source.groupIdsClaim # None
  <2>1. PICK l : l = token[source.groupIdsClaim].list
    OBVIOUS
  <2>2. list = IF l = None THEN <<>> ELSE l
    BY <1>2, <1>6, <2>1 DEF GroupList
  <2>3. ASSUME NEW uid PROVE Contains(Groups(p), uid) <=> uid \in GroupsClaimed(p)
    <3>1. Contains(Groups(p), uid) <=>
            /\ uid \in [type : {source.groupEntityType}, id : EntityId]
            /\ uid.id # None /\ Contains(list, uid.id)
      BY <1>3, <1>4, <1>6, GroupsOfList
    <3>2. uid \in GroupsClaimed(p) <=>
            /\ uid \in [type : {source.groupEntityType}, id : EntityId]
            /\ l # None /\ \E k \in DOMAIN l : l[k] = uid.id
      BY <1>1, <1>6, <2>1 DEF GroupsClaimed
    <3>3. uid \in [type : {source.groupEntityType}, id : EntityId] => uid.id # None
      BY NoneAssumption
    <3>4. Contains(list, uid.id) <=> l # None /\ \E k \in DOMAIN l : l[k] = uid.id
      <4>1. CASE l = None
        BY <2>2, <4>1 DEF Contains
      <4>2. CASE l # None
        <5>1. list = l /\ DOMAIN l = 1 .. Len(l)
          BY <1>3, <2>2, <4>2
        <5> QED
          BY <4>2, <5>1 DEF Contains
      <4> QED
        BY <4>1, <4>2
    <3> QED
      BY <3>1, <3>2, <3>3, <3>4
  <2>4. GroupsClaimed(p) \subseteq Uid
    <3>1. GroupsClaimed(p) \subseteq [type : {source.groupEntityType}, id : EntityId]
      BY <1>6 DEF GroupsClaimed
    <3> QED
      BY <1>4, <1>6, <3>1 DEF Uid
  <2>5. IsFiniteSet(GroupsClaimed(p))
    <3>1. PICK f, n, T : f = Groups(p) /\ n = Len(f) /\ T = GroupsClaimed(p)
      OBVIOUS
    <3>2. n \in Nat /\ DOMAIN f = 1 .. n /\ f \in Seq(Uid)
      BY <1>3, <3>1
    <3>3. \A x : (\E k \in 1 .. n : f[k] = x) <=> x \in T
      BY <2>3, <3>1 DEF Contains
    <3>4. f \in [1 .. n -> T]
      BY <3>2, <3>3
    <3>5. f \in Surjection(1 .. n, T)
      BY <3>3, <3>4 DEF Surjection
    <3>6. IsFiniteSet(1 .. n)
      BY <3>2, FS_Interval
    <3> QED
      BY <3>1, <3>5, <3>6, FS_Surjection
  <2> QED
    BY <2>3, <2>4, <2>5
<1> QED
  BY <1>4, <1>5, <1>6

LEMMA SameAsListed ==
  ASSUME source \in IdentitySource \cup {None}, NEW p \in Params, ~TokenCallRefused(p), NEW st,
         NEW x, x = TokenPrincipal(p), x \notin {p.action, p.resource},
         NEW listed, listed = [identifier |-> x, attributes |-> <<>>,
                               parents |-> SetToSeq(GroupsClaimed(p))]
  PROVE  Verdict(st, AsRequest([p EXCEPT !.entities = Append(@, listed)], x, <<>>))
           = Verdict(st, AsRequest(p, x, Groups(p)))
<1>1. /\ source \in IdentitySource /\ TokenOf(p) \in Payload /\ x \in Uid
      /\ Groups(p) \in Seq(Uid) /\ AsRequest(p, x, Groups(p)) \in Request /\ ~MisshapenTarget(p)
  BY TokenCallType DEF TokenCallRefused
<1>2. PICK parents : parents = SetToSeq(GroupsClaimed(p))
  OBVIOUS
<1>3. /\ parents \in Seq(Uid)
      /\ \A uid : Contains(parents, uid) <=> Contains(Groups(p), uid)
  <2>1. /\ \A uid : Contains(Groups(p), uid) <=> uid \in GroupsClaimed(p)
        /\ GroupsClaimed(p) \subseteq Uid /\ IsFiniteSet(GroupsClaimed(p))
    BY <1>1, ClaimedGroups
  <2>2. PICK T : T = GroupsClaimed(p)
    OBVIOUS
  <2>3. parents \in Seq(T) /\ \A uid : Contains(parents, uid) <=> uid \in T
    BY <1>2, <2>1, <2>2, SetAsSequence
  <2>4. parents \in Seq(Uid)
    BY <2>1, <2>2, <2>3
  <2> QED
    BY <2>1, <2>2, <2>3, <2>4
<1>4. listed \in Entity /\ listed.identifier = x /\ listed.attributes = <<>> /\ listed.parents = parents
  <2>1. parents \in Seq(Uid \cup {BadUid})
    BY <1>3
  <2>2. <<>> \in Seq(AttrEntry)
    OBVIOUS
  <2> QED
    BY <1>1, <1>2, <2>1, <2>2 DEF Entity
<1>5. PICK plain : plain = [p EXCEPT !.entities = Append(@, listed)]
  OBVIOUS
<1>6. p.entities \in Seq(Entity)
  BY DEF Params
<1>7. /\ plain \in Params /\ plain.entities = Append(p.entities, listed)
      /\ plain.policyStoreId = p.policyStoreId /\ plain.context = p.context
      /\ plain.action = p.action /\ plain.resource = p.resource
  <2>1. Append(p.entities, listed) \in Seq(Entity)
    BY <1>4, <1>6
  <2> QED
    BY <1>5, <2>1 DEF Params
<1>8. ~MisshapenTarget(plain)
  BY <1>1, <1>7 DEF MisshapenTarget
<1>9. PICK r, q : r = AsRequest(p, x, Groups(p)) /\ q = AsRequest(plain, x, <<>>)
  OBVIOUS
<1>10. r \in Request /\ q \in Request
  <2>1. <<>> \in Seq(Uid)
    OBVIOUS
  <2> QED
    BY <1>1, <1>7, <1>8, <1>9, <2>1, RequestType
<1>11. /\ q.policyStoreId = r.policyStoreId /\ q.context = r.context /\ q.uid = r.uid
       /\ q.groups = <<>> /\ r.groups = Groups(p)
       /\ r.entities = p.entities /\ q.entities = Append(p.entities, listed)
       /\ r.uid["principal"] = x /\ r.uid["action"] = p.action /\ r.uid["resource"] = p.resource
  BY <1>7, <1>9 DEF AsRequest, Slot
<1>12. PICK n, more : n = Len(p.entities) /\ more = Append(p.entities, listed)
  OBVIOUS
<1>13. Len(more) = n + 1 /\ more[n + 1] = listed /\ \A e \in 1 .. n : more[e] = p.entities[e]
  BY <1>4, <1>6, <1>12
<1>14. Listing(r, q)
  BY <1>3, <1>4, <1>10, <1>11, <1>12, <1>13 DEF Listing
<1> QED
  BY <1>5, <1>9, <1>14, SameAnswer

LEMMA TokenCallMeans ==
  ASSUME ClientTypeOK, NEW p \in Arguments, IsAuthorizedWithToken(p)
  PROVE  TokensMeanEntities'
<1>1. /\ p \in Params /\ source \in IdentitySource \cup {None}
      /\ call'.method = "isAuthorizedWithToken" /\ call'.params = p
      /\ UNCHANGED <<source, contents, bound>>
  BY ClientInputAssumption DEF IsAuthorizedWithToken, Called, ClientTypeOK
<1>2. CASE asked' = None /\ returned'.principal = None
  BY <1>2 DEF TokensMeanEntities, TokenAsEntities, IdentityTokenWins
<1>3. CASE /\ ~TokenCallRefused(p)
           /\ Evaluate(AsRequest(p, TokenPrincipal(p), Groups(p)), TokenPrincipal(p))
  <2>1. PICK x, st, r, s : /\ x = TokenPrincipal(p) /\ st = contents[bound]
                           /\ r = AsRequest(p, x, Groups(p)) /\ s = source
    OBVIOUS
  <2>2. PICK reply : reply = Verdict(st, r)
    OBVIOUS
  <2>3. /\ asked' = r /\ returned'.reply = reply
        /\ returned'.principal = IF reply.outcome = "response" THEN x ELSE None
    BY <1>3, <2>1, <2>2 DEF Evaluate
  <2>4. /\ source \in IdentitySource /\ TokenOf(p) \in Payload /\ PrincipalClaim \in Claim
        /\ x \in Uid /\ r.groups = Groups(p) /\ r.uid["principal"] = x
    BY <1>1, <1>3, <2>1, TokenCallType DEF AsRequest, Slot
  <2>5. TokenAsEntities'
    <3>1. GroupsClaimed(p)' = GroupsClaimed(p)
      BY <1>1 DEF GroupsClaimed
    <3>2. SUFFICES ASSUME returned'.principal # None, x \notin {p.action, p.resource},
                          NEW listed, listed = [identifier |-> x, attributes |-> <<>>,
                                                parents |-> SetToSeq(GroupsClaimed(p))]
                   PROVE  reply = Verdict(st, AsRequest([p EXCEPT !.entities = Append(@, listed)],
                                                        x, <<>>))
      BY <1>1, <2>1, <2>3, <3>1 DEF TokenAsEntities
    <3> QED
      BY <1>1, <1>3, <2>1, <2>2, <3>2, SameAsListed
  <2>6. IdentityTokenWins'
    <3>1. SUFFICES ASSUME p.identityToken # None PROVE FromIdentityToken(p, r)
      BY <1>1, <2>3 DEF IdentityTokenWins
    <3>2. TokenOf(p) = p.identityToken
      BY <3>1 DEF TokenOf
    <3>3. r.uid["principal"].id \in {p.identityToken[c].str : c \in Claim}
      BY <2>1, <2>4, <3>2 DEF TokenPrincipal
    <3>4. ASSUME NEW g \in DOMAIN r.groups
          PROVE  \E c \in Claim : LET list == p.identityToken[c].list
                                  IN  list # None /\ \E k \in DOMAIN list : list[k] = r.groups[g].id
      <4>1. PICK groups, uid : groups = Groups(p) /\ uid = groups[g]
        OBVIOUS
      <4>2. groups \in Seq(Uid) /\ g \in DOMAIN groups /\ uid = r.groups[g]
        BY <2>4, <3>4, <4>1, GroupsType
      <4>3. Contains(groups, uid)
        <5>1. g \in 1 .. Len(groups)
          BY <4>2
        <5> QED
          BY <4>1, <5>1 DEF Contains
      <4>4. uid \in GroupsClaimed(p)
        BY <2>4, <4>1, <4>3, ClaimedGroups
      <4>5. /\ source.groupIdsClaim # None /\ source.groupIdsClaim \in Claim \cup {None}
            /\ LET list == p.identityToken[source.groupIdsClaim].list
               IN  list # None /\ \E k \in DOMAIN list : list[k] = uid.id
        BY <2>4, <3>2, <4>4 DEF GroupsClaimed, IdentitySource
      <4> QED
        BY <4>2, <4>5
    <3> QED
      BY <3>3, <3>4 DEF FromIdentityToken
  <2> QED
    BY <2>5, <2>6 DEF TokensMeanEntities
<1>4. \/ asked' = None /\ returned'.principal = None
      \/ /\ ~TokenCallRefused(p)
         /\ Evaluate(AsRequest(p, TokenPrincipal(p), Groups(p)), TokenPrincipal(p))
  BY DEF IsAuthorizedWithToken, TokenPrincipal, Refuse, Throw
<1> QED
  BY <1>2, <1>3, <1>4

LEMMA InitTokens == ClientInit => TokensMeanEntities
BY DEF ClientInit, NoCall, TokensMeanEntities, TokenAsEntities, IdentityTokenWins

LEMMA NextTokens == ClientTypeOK /\ TokensMeanEntities /\ [ClientNext]_clientVars => TokensMeanEntities'
<1> SUFFICES ASSUME ClientTypeOK, TokensMeanEntities, [ClientNext]_clientVars PROVE TokensMeanEntities'
  OBVIOUS
<1>1. ASSUME call'.method # "isAuthorizedWithToken" PROVE TokensMeanEntities'
  BY <1>1 DEF TokensMeanEntities, TokenAsEntities, IdentityTokenWins
<1>2. CASE Idle
  BY <1>1, <1>2 DEF Idle, NoCall
<1>3. ASSUME NEW p \in Arguments, IsAuthorized(p) PROVE TokensMeanEntities'
  BY <1>1, <1>3 DEF IsAuthorized, Called
<1>4. ASSUME NEW p \in Arguments, IsAuthorizedWithToken(p) PROVE TokensMeanEntities'
  BY <1>4, TokenCallMeans
<1>5. CASE UNCHANGED clientVars
  <2>1. UNCHANGED <<contents, bound, source, call, asked, returned>>
    BY <1>5 DEF clientVars
  <2>2. \A p : GroupsClaimed(p)' = GroupsClaimed(p)
    BY <2>1 DEF GroupsClaimed
  <2> QED
    BY <2>1, <2>2 DEF TokensMeanEntities, TokenAsEntities, IdentityTokenWins
<1> QED
  BY <1>2, <1>3, <1>4, <1>5
  DEF ClientNext, NewStore, ChangeStore, DropStore, Construct, Free

(***************************************************************************)
(* A call with tokens is answered as the plain call would be, had it       *)
(* listed the groups of the token as the principal's parents, and where    *)
(* there is an identity token, principal and groups are both from it       *)
(* (AuthorizationClient::isAuthorizedWithToken).                           *)
(***************************************************************************)
THEOREM TokensAlwaysMeanEntities == ClientSpec => []TokensMeanEntities
  BY CountInit, CountStep, InitClientTypes, NextClientTypes, InitTokens, NextTokens, PTL DEF ClientSpec

=============================================================================
