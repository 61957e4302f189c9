---------------------------- MODULE MCAuthorizer ----------------------------
(***************************************************************************)
(* An instance of Authorizer for TLC.  Many stores are asked a few         *)
(* requests, for what is decided (DecisionStores, DecisionRequests), and   *)
(* many requests are put to a few stores, for the context that is built    *)
(* and the errors reported (ContextStores, ContextRequests).               *)
(***************************************************************************)
EXTENDS AuthorizerProperties, MCData

BundlesUpTo(n) == UNION {[1 .. k -> Policies] : k \in 0 .. n}

DecisionStores ==
  {MkStore(<<>>)} \cup
  {MkStore(<<b>>) : b \in BundlesUpTo(3)} \cup
  {MkStore(<<b, c>>) : b \in BundlesUpTo(2), c \in BundlesUpTo(1)}

Req(storeId, p, a, r, context, entities, groups) ==
  [policyStoreId |-> storeId,
   uid           |-> [s \in Slot |-> IF s = "principal" THEN p
                                     ELSE IF s = "action" THEN a ELSE r],
   context       |-> context,
   entities      |-> entities,
   groups        |-> groups]

DecisionRequests ==
  { Req("s", UA, AA, UB, <<>>, <<Ent(UA, <<Good("n", "T")>>, <<GA>>)>>, <<>>),
    Req("s", UA, AA, UA, <<>>, <<Ent(UA, <<Good("n", "F")>>, <<GA>>)>>, <<>>),
    Req("s", UA, AA, UB, <<>>, <<Ent(UA, <<Good("n", "S")>>, <<>>)>>, <<GA>>),
    Req("s", UA, AB, UA, <<>>, <<>>, <<GA>>),
    Req("s", GA, AB, UB, <<>>, <<>>, <<>>),
    Req("t", UA, AA, UB, <<>>, <<>>, <<>>),
    Req(NoStoreId, UA, AA, UB, <<>>, <<>>, <<>>) }

ContextStores ==
  {MkStore(<<<<Rule(FALSE, In({GA}), Anyone, Anyone, <<When(AttrExpr("resource", "n"))>>)>>,
             <<Rule(TRUE, Anyone, Anyone, In({GB}), <<When(AttrExpr("context", "n"))>>)>>>>)}

EntityChoices ==
  {Ent(uid, attributes, parents) :
     uid \in {UA, UB, BadUid},
     attributes \in {<<>>, <<Good("n", "T")>>, <<Half("n", "F")>>, <<Refused("n")>>,
                     <<NoEntry, Half("m", "T")>>, <<Good("m", "T"), Good("n", "F")>>},
     parents \in {<<>>, <<BadUid, GA>>}}

MixedContext == <<Half("n", "T"), NoEntry, Good("m", "F")>>

\* Context map and token groups touch different slots: each is there without the other.
ContextRequests ==
  {Req("s", UA, AA, r, around.context, entities, around.groups) :
     r \in {UA, UB},
     around \in {[context |-> MixedContext, groups |-> <<>>],
                 [context |-> <<>>, groups |-> <<GB>>]},
     entities \in UNION {[1 .. k -> EntityChoices] : k \in 0 .. 2}}

(***************************************************************************)
(* One entity in all three roles, for the rows where slots share an        *)
(* identifier.                                                             *)
(***************************************************************************)
SharedRequests ==
  {Req("s", UA, a, UA, <<>>, entities, <<>>) :
     a \in {UA, AA},
     entities \in UNION {[1 .. k -> {e \in EntityChoices : e.identifier # UB}] : k \in 0 .. 2}}

AllContextRequests == ContextRequests \cup SharedRequests

AllStores == DecisionStores \cup ContextStores
AllRequests == DecisionRequests \cup AllContextRequests

MCInit ==
  /\ \/ store \in DecisionStores /\ request \in DecisionRequests
     \/ store \in ContextStores /\ request \in AllContextRequests
  /\ CallInit
=============================================================================
