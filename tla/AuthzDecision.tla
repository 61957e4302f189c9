--------------------------- MODULE AuthzDecision ---------------------------
(***************************************************************************)
(* What AuthorizationClient promises a caller, in one step: a request of   *)
(* another store is refused, and any other request gets the verdict that   *)
(* the store and the request define.                                       *)
(***************************************************************************)
EXTENDS CedarSemantics

VARIABLES store, request, answer

avars == <<store, request, answer>>

Init == store \in Store /\ request \in Request /\ answer = Blank

Respond ==
  /\ answer.outcome = "pending"
  /\ answer'.outcome # "pending"
  /\ answer' = Verdict(store, request)
  /\ UNCHANGED <<store, request>>

Spec == Init /\ [][Respond]_avars
=============================================================================
