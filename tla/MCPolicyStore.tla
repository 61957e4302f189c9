---------------------------- MODULE MCPolicyStore ----------------------------
(***************************************************************************)
(* Policies as they are written, parsed and matched, and the stores that   *)
(* keep them: a behaviour is one of MCPolicies, or one of PolicyStore with *)
(* two interchangeable stores and ids, while the other rests.              *)
(***************************************************************************)
EXTENDS MCPolicies, PolicyStore, TLC

StoreSymmetry == Permutations(StoreObject) \cup Permutations(StoreId)

StoresRest == Init /\ bytes = [b \in HeapBlock |-> CHOOSE text \in Text : TRUE]

StoreInit ==
  \/ PoliciesInit /\ StoresRest
  \/ Init /\ kind = "stores" /\ input = <<>>

StoreNext ==
  \/ kind # "stores" /\ PoliciesNext /\ UNCHANGED vars
  \/ kind = "stores" /\ Next /\ UNCHANGED <<kind, input>>

StoreSpec == StoreInit /\ [][StoreNext]_<<kind, input, vars>>
=============================================================================
