------------------------------- MODULE Nodes -------------------------------
(***************************************************************************)
(* The nodes of an expression (php_cedar_node_t), which the parser makes   *)
(* and the evaluator reads.  op is the type of the node, or the operator   *)
(* of a binary one.                                                        *)
(***************************************************************************)
EXTENDS Naturals, Sequences

NoNode == [op |-> "none"]  \* a node that is NULL

Lit(v) == [op |-> "lit", value |-> v]
Var(v) == [op |-> "var", var |-> v]
EntityNode(uid) == [op |-> "entity", uid |-> uid]
AttrNode(e, name) == [op |-> "attr", object |-> e, attr |-> name]
HasNode(e, name) == [op |-> "has", object |-> e, attr |-> name]
SetNode(elts) == [op |-> "set", elts |-> elts]
RecordNode(entries) == [op |-> "record", entries |-> entries]
BinNode(op, l, r) == [op |-> op, left |-> l, right |-> r]
UnNode(op, e) == [op |-> op, operand |-> e]
CallNode(e, method, arg) == [op |-> "call", object |-> e, method |-> method, arg |-> arg]
IsNode(e, type, within) == [op |-> "is", object |-> e, type |-> type, within |-> within]
IfNode(c, a, b) == [op |-> "if", cond |-> c, then |-> a, else |-> b]
LikeNode(e, pattern) == [op |-> "like", object |-> e, pattern |-> pattern]

Children(e) ==
  CASE e.op \in {"lit", "ext", "entity", "var"} -> <<>>
    [] e.op \in {"attr", "has", "like"}         -> <<e.object>>
    [] e.op = "set"                             -> e.elts
    [] e.op = "record"                          -> [k \in DOMAIN e.entries |-> e.entries[k].value]
    [] e.op \in {"not", "neg"}                  -> <<e.operand>>
    [] e.op = "call" -> IF e.arg = NoNode THEN <<e.object>> ELSE <<e.object, e.arg>>
    [] e.op = "is"   -> IF e.within = NoNode THEN <<e.object>> ELSE <<e.object, e.within>>
    [] e.op = "if"   -> <<e.cond, e.then, e.else>>
    [] OTHER         -> <<e.left, e.right>>

Below(nodes) == UNION {{Children(e)[i] : i \in DOMAIN Children(e)} : e \in nodes}

\* The first n levels of a tree, from its root on.
Levels(node, n) ==
  LET levels[k \in 1 .. n] ==
        IF k = 1 THEN <<{node}>>
        ELSE LET above == levels[k - 1] IN Append(above, Below(above[k - 1]))
  IN  levels[n]
=============================================================================
