----------------------------- MODULE MCInjection -----------------------------
(***************************************************************************)
(* Injection over every request made of a scalar, a malformed value and    *)
(* three containers of up to two children, the first of which nests one    *)
(* level deeper than MaxDepth = 2 allows.                                  *)
(***************************************************************************)
EXTENDS Injection

MCNode == 1 .. 5
Scalar == 4
Malformed == 5

Pair(a, b) == {<<x, y>> : x \in a, y \in b}

\* The children of containers 1, 2 and 3: later nodes, so that no value contains itself.
KidsOf1 == {<<>>} \cup {<<x>> : x \in {2, 3}} \cup Pair({2, 4}, {2, 3, 5}) \cup {<<5, 2>>}
KidsOf2 == {<<>>} \cup {<<x>> : x \in {3, 4, 5}} \cup Pair({3, 4}, {3, 4, 5}) \cup {<<5, 4>>}
KidsOf3 == {<<>>, <<4>>, <<4, 5>>, <<5, 4>>}

\* Children of a record have distinct names; one request has an integer key.
Keyed(nodes) == [k \in DOMAIN nodes |-> [name |-> IF k = 1 THEN "n" ELSE "m", node |-> nodes[k]]]
IntKeyed == <<[name |-> "n", node |-> Scalar], [name |-> NoName, node |-> Scalar]>>

E(name, node) == [name |-> name, node |-> node]

EntryLists ==
  { <<E("n", 1), E("m", Scalar)>>,
    <<E("n", Malformed), E(NoName, Scalar), E("n", 1), E("n", 2)>> }

MCInputs ==
  {[kind    |-> <<k1, k2, k3, "scalar", "malformed">>,
    kids    |-> <<Keyed(c1), Keyed(c2), c3, <<>>, <<>>>>,
    entries |-> entries] :
     k1 \in Container, k2 \in Container, k3 \in Container,
     c1 \in KidsOf1, c2 \in KidsOf2, c3 \in {Keyed(c) : c \in KidsOf3} \cup {IntKeyed},
     entries \in EntryLists}
=============================================================================
