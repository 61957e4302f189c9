---------------------------- MODULE AttributeMap ----------------------------
(***************************************************************************)
(* What applying the attributes of one home should amount to, entry by     *)
(* entry: an entry whose name is free adds the value it resolves to, and   *)
(* it is reported unless all of it resolves.  This is the view Authorizer  *)
(* has of an AttributeValue (AttrEntry in CedarTypes: value and ok).       *)
(***************************************************************************)
EXTENDS Integers, Sequences

CONSTANTS NoName, MaxDepth

VARIABLES input, entry, attrs, failed

mvars == <<input, entry, attrs, failed>>

NoTree == [kind |-> "none", node |-> 0, elts |-> <<>>]

(***************************************************************************)
(* Outcome[room][n]: what AttributeValue n leaves behind where room more   *)
(* levels of containers fit.  A container keeps the children before the    *)
(* first that fails, and of that one whatever it leaves behind itself.     *)
(***************************************************************************)
Values == DOMAIN input.kind

Outcome[room \in 0 .. MaxDepth] ==
  [n \in Values |->
     LET kids  == input.kids[n]
         inner == Outcome[room - 1]
         Nameless(k) == input.kind[n] = "record" /\ kids[k].name = NoName
         Fails(k)    == Nameless(k) \/ ~inner[kids[k].node].ok
         kept  == {k \in DOMAIN kids : /\ \A l \in 1 .. k - 1 : ~Fails(l)
                                       /\ ~Nameless(k)
                                       /\ inner[kids[k].node].tree # NoTree}
     IN  IF input.kind[n] = "malformed" \/ (input.kind[n] # "scalar" /\ room = 0)
         THEN [ok |-> FALSE, tree |-> NoTree]
         ELSE IF input.kind[n] = "scalar"
         THEN [ok |-> TRUE, tree |-> [kind |-> "scalar", node |-> n, elts |-> <<>>]]
         ELSE [ok   |-> \A k \in DOMAIN kids : ~Fails(k),
               tree |-> [kind |-> input.kind[n], node |-> n,
                         elts |-> [k \in kept |->
                           [name |-> IF input.kind[n] = "record" THEN kids[k].name ELSE NoName,
                            tree |-> inner[kids[k].node].tree]]]]]

Free(name) == \A k \in DOMAIN attrs : attrs[k].name # name

Init == entry = 1 /\ attrs = <<>> /\ failed = <<>>

Apply ==
  /\ entry <= Len(input.entries)
  /\ entry' = entry + 1
  /\ LET e   == input.entries[entry]
         out == Outcome[MaxDepth][e.node]
     IN  IF e.name = NoName
         THEN UNCHANGED <<attrs, failed>>
         ELSE /\ attrs' = IF Free(e.name) /\ out.tree # NoTree
                          THEN Append(attrs, [name |-> e.name, tree |-> out.tree]) ELSE attrs
              /\ failed' = IF Free(e.name) /\ out.ok THEN failed ELSE Append(failed, e.name)
  /\ UNCHANGED input

Spec == Init /\ [][Apply]_mvars
=============================================================================
