----------------------- MODULE MCAuthorizationClient -----------------------
(***************************************************************************)
(* The requests of MCAuthorizer, step by step, and after one of them the   *)
(* life of a client, whose calls are whole requests: two PolicyStore       *)
(* objects, whose contents tell groups from the principal's own identity   *)
(* apart and differ in id, and tokens whose claims are strings, lists,     *)
(* mixed lists or missing.                                                 *)
(***************************************************************************)
EXTENDS AuthorizationClient, MCAuthorizer

Named(policyId, policies) == [policyId |-> policyId, policies |-> policies]

MCStoreStates ==
  { [id |-> "s", bundles |->
       <<Named("p1", <<Rule(FALSE, In({GA}), Anyone, Anyone, <<>>),
                        Rule(TRUE, In({GB}), Anyone, Anyone, <<>>)>>)>>],
    [id |-> "t", bundles |->
       <<Named("p1", <<Rule(FALSE, Anyone, Anyone, Anyone, <<>>)>>),
         Named("p2", <<Rule(TRUE, Eq(UB), Anyone, In({GA}), <<>>)>>)>>] }

Claims(sub, uid, groups) ==
  [c \in {"sub", "uid", "groups"} |->
     [str  |-> IF c = "sub" THEN sub ELSE IF c = "uid" THEN uid ELSE None,
      list |-> IF c = "groups" THEN groups ELSE None]]

IdentityTokens == {None, Claims("a", None, None), Claims("a", "b", <<"a">>),
                   Claims(None, "a", <<"b">>)}
AccessTokens == {None, Claims("b", "b", <<"b">>), Claims("a", None, <<None, "a">>)}

Options4(type, claim, groupType, groupClaim) ==
  [principalEntityType |-> type, principalIdClaim |-> claim,
   groupEntityType |-> groupType, groupIdsClaim |-> groupClaim]

MCSources == { Options4("User", None, "Group", "groups"),
               Options4("User", "uid", "Group", "groups"),
               Options4("User", "uid", None, "groups"),
               Options4(None, None, None, None) }

Args(storeId, p, a, r, entities, identity, access) ==
  [policyStoreId |-> storeId, principal |-> p, action |-> a, resource |-> r,
   context |-> <<>>, entities |-> entities,
   identityToken |-> identity, accessToken |-> access]

Mixed == Claims("a", None, <<None, "a">>)

MCArguments ==
  {Args("s", None, AA, UB, <<Ent(UB, <<Refused("n")>>, <<GA>>)>>, identity, access) :
     identity \in IdentityTokens, access \in AccessTokens} \cup
  {Args("s", None, AA, UA, <<>>, identity, Mixed) : identity \in IdentityTokens} \cup
  {Args(storeId, p, AA, UB, <<>>, None, Mixed) :
     storeId \in {"s", "t", NoStoreId}, p \in {None, UA}} \cup
  {Args("s", UA, BadUid, UB, <<>>, None, None), Args("s", BadUid, AA, UB, <<>>, None, None),
   Args("s", None, AA, BadUid, <<>>, None, Mixed)}
-----------------------------------------------------------------------------
\* The request that the client is called after; it is at rest in all other behaviours.
Leads == store = MkStore(<<>>) /\ request.policyStoreId = NoStoreId

\* What an object holds that has not been created makes no difference.
ClientMCInit ==
  /\ MCInit /\ ClientInit
  /\ \A o \in Object : contents[o] = CHOOSE st \in MCStoreStates : TRUE

\* A call right after a call leads where it would lead by itself, so none is made.
ClientMCNext ==
  \/ Next /\ UNCHANGED clientVars
  \/ /\ Leads /\ pc = "done"
     /\ ClientNext
     /\ call = NoCall \/ call' = NoCall
     /\ UNCHANGED vars

ClientMCSpec ==
  ClientMCInit /\ [][ClientMCNext]_<<vars, clientVars>> /\ WF_vars(Next)
=============================================================================
