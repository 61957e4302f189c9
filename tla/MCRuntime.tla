----------------------------- MODULE MCRuntime ------------------------------
(***************************************************************************)
(* The parts that share nothing with each other, in one run: the pool, the *)
(* array, the ids of stores, the matching of `like` and the injection of   *)
(* attributes.  A behaviour is one of a single part, while the others      *)
(* rest.                                                                   *)
(***************************************************************************)
EXTENDS Pool, StoreIds, LikeMatch, MCInjection

VARIABLE part

vars == <<part, poolVars, arrayVars, idVars, likeVars, injectionVars>>

LikeRests ==
  /\ subject = <<>> /\ pattern = <<>>
  /\ s = 1 /\ p = 1
  /\ starP = 0 /\ starS = 0
  /\ result = "yes"

RestInput == CHOOSE i \in Inputs : TRUE

InjectionRests ==
  /\ input = RestInput
  /\ entry = 1 /\ failed = <<>>
  /\ heap = <<[kind |-> "record", depth |-> 0, elts |-> <<>>]>> /\ stack = <<>>

Init ==
  /\ part \in {"pool", "array", "ids", "like", "injection"}
  /\ PoolInit /\ ArrayInit /\ IdsInit
  /\ IF part = "like" THEN LikeInit ELSE LikeRests
  /\ IF part = "injection" THEN InjectionInit ELSE InjectionRests

Next ==
  \/ /\ part = "pool" /\ PoolNext
     /\ UNCHANGED <<part, arrayVars, idVars, likeVars, injectionVars>>
  \/ /\ part = "array" /\ ArrayNext
     /\ UNCHANGED <<part, poolVars, idVars, likeVars, injectionVars>>
  \/ /\ part = "ids" /\ IdsNext
     /\ UNCHANGED <<part, poolVars, arrayVars, likeVars, injectionVars>>
  \/ /\ part = "like" /\ LikeNext
     /\ UNCHANGED <<part, poolVars, arrayVars, idVars, injectionVars>>
  \/ /\ part = "injection" /\ InjectionNext
     /\ UNCHANGED <<part, poolVars, arrayVars, idVars, likeVars>>

Spec == Init /\ [][Next]_vars /\ WF_likeVars(LikeNext)
=============================================================================
