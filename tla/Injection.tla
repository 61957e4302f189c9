------------------------------ MODULE Injection ------------------------------
(***************************************************************************)
(* How AttributeValues become attributes: cedar_apply_top_attr and the     *)
(* mutual recursion of cedar_apply_record_attr and cedar_apply_set_element *)
(* (cedar.c), over the record and set handles of php_cedar_eval.c.         *)
(*                                                                         *)
(* Authorizer takes a whole AttributeValue in one step and assumes what it *)
(* leaves behind; here every array write is a step, the C call stack is    *)
(* the variable stack, and a handle is the index of the array it shares    *)
(* with the value that owns it.                                            *)
(***************************************************************************)
EXTENDS Integers, Sequences, FiniteSetsExt

CONSTANTS
  Node,      \* the AttributeValues of the request, nested ones included
  Name,      \* attribute names
  NoName,    \* an integer key, or the position of a set element
  MaxDepth,  \* PHP_CEDAR_MAX_RECORD_DEPTH = PHP_CEDAR_MAX_SET_DEPTH: 16
  Inputs     \* the requests a behaviour may start with

ASSUME DepthAssumption == MaxDepth \in Nat \ {0}
ASSUME NoNameAssumption == NoName \notin Name

(***************************************************************************)
(* What cedar_resolve_attr_union and the test of the inner value make of   *)
(* an AttributeValue.  "scalar" is any kind without children that is well  *)
(* formed.  An inner value of a record or set that is not an array fails   *)
(* where its first child would: it is a malformed first child.             *)
(***************************************************************************)
Container == {"record", "set"}
Kind == {"malformed", "scalar"} \cup Container

Child == [name : Name \cup {NoName}, node : Node]

(***************************************************************************)
(* entries are, in request order, the attributes of one home: contextMap,  *)
(* or the attributes of every entity with the identifier of one slot.      *)
(***************************************************************************)
Input == [kind : [Node -> Kind], kids : [Node -> Seq(Child)], entries : Seq(Child)]

ASSUME InputsAssumption == Inputs \subseteq Input

\* The members of a record are the string keys of a PHP array, which are distinct.
ASSUME KeysAssumption ==
  \A i \in Inputs, n \in Node :
    i.kind[n] = "record" =>
      \A k, l \in DOMAIN i.kids[n] :
        i.kids[n][k].name # NoName /\ i.kids[n][k].name = i.kids[n][l].name => k = l

(***************************************************************************)
(* php_cedar_attr_t / php_cedar_value_t: array is the index of the array   *)
(* of a record or set value, 0 for a scalar.  An array of attributes or    *)
(* set elements carries the depth of its php_cedar_record_t or _set_t.     *)
(***************************************************************************)
Elem == [name : Name \cup {NoName}, node : Node, array : Nat]
Array == [kind : Container, depth : Nat, elts : Seq(Elem)]
Frame == [array : Nat, node : Node, next : Nat]

VARIABLES
  input,   \* the request
  entry,   \* index of the entry being applied
  heap,    \* the arrays of the evaluation pool; heap[1] is the home's own
  stack,   \* one frame per cedar_apply_{record,set}_children in progress
  failed   \* the names reported in errors[]

injectionVars == <<input, entry, heap, stack, failed>>

InjectionInit ==
  /\ input \in Inputs
  /\ entry = 1
  /\ heap = <<[kind |-> "record", depth |-> 0, elts |-> <<>>]>>
  /\ stack = <<>>
  /\ failed = <<>>

-----------------------------------------------------------------------------
IsContainer(e) == input.kind[e.node] \in Container

HasName(a, name) == \E k \in DOMAIN heap[a].elts : heap[a].elts[k].name = name

\* Variant: duplicates are left to the keys of the PHP array to exclude.
AcceptsDuplicate(a, e) ==
  /\ input.kind[e.node] # "malformed"
  /\ heap[a].kind = "record" => e.name # NoName
  /\ IsContainer(e) => heap[a].depth < MaxDepth

(***************************************************************************)
(* Whether e can be written to array a at all: the union resolves, a       *)
(* record has the name free, and a container stays within the ceiling that *)
(* records and sets share.                                                 *)
(***************************************************************************)
Accepts(a, e) ==
  /\ input.kind[e.node] # "malformed"
  /\ heap[a].kind = "record" => e.name # NoName /\ ~HasName(a, e.name)
  /\ IsContainer(e) => heap[a].depth < MaxDepth

\* Variant: a record inside a set, or a set inside a record, counts from 1.
NewArrayOfOwnKind(a, e) ==
  [kind  |-> input.kind[e.node],
   depth |-> IF heap[a].kind = input.kind[e.node] THEN heap[a].depth + 1 ELSE 1,
   elts  |-> <<>>]

(***************************************************************************)
(* The array of a new container, one level below the array it is in.       *)
(***************************************************************************)
NewArray(a, e) == [kind |-> input.kind[e.node], depth |-> heap[a].depth + 1, elts |-> <<>>]

(***************************************************************************)
(* The element is pushed, a container with its still empty array.          *)
(***************************************************************************)
Written(a, e) ==
  [name  |-> IF heap[a].kind = "record" THEN e.name ELSE NoName,
   node  |-> e.node,
   array |-> IF IsContainer(e) THEN Len(heap) + 1 ELSE 0]

Write(a, e) ==
  LET pushed == [heap EXCEPT ![a].elts = Append(@, Written(a, e))]
  IN  heap' = IF IsContainer(e) THEN Append(pushed, NewArray(a, e)) ELSE pushed

Top == stack[Len(stack)]
Callers == SubSeq(stack, 1, Len(stack) - 1)
Open(e) == [array |-> Len(heap) + 1, node |-> e.node, next |-> 1]

-----------------------------------------------------------------------------
(***************************************************************************)
(* cedar_apply_context_map and the attribute loop of cedar_apply_entities. *)
(***************************************************************************)
SkipEntry ==
  /\ stack = <<>>
  /\ entry <= Len(input.entries)
  /\ input.entries[entry].name = NoName
  /\ entry' = entry + 1
  /\ UNCHANGED <<input, heap, stack, failed>>

ApplyEntry ==
  /\ stack = <<>>
  /\ entry <= Len(input.entries)
  /\ LET e == input.entries[entry] IN
       /\ e.name # NoName
       /\ Accepts(1, e)
       /\ Write(1, e)
       /\ IF IsContainer(e)
          THEN stack' = <<Open(e)>> /\ UNCHANGED entry
          ELSE entry' = entry + 1 /\ UNCHANGED stack
  /\ UNCHANGED <<input, failed>>

\* Variant: an integer key is reported like a malformed value.
RefuseEntryUnnamed ==
  /\ stack = <<>>
  /\ entry <= Len(input.entries)
  /\ ~Accepts(1, input.entries[entry])
  /\ failed' = Append(failed, input.entries[entry].name)
  /\ entry' = entry + 1
  /\ UNCHANGED <<input, heap, stack>>

RefuseEntry ==
  /\ stack = <<>>
  /\ entry <= Len(input.entries)
  /\ LET e == input.entries[entry] IN
       /\ e.name # NoName
       /\ ~Accepts(1, e)
       /\ failed' = Append(failed, e.name)
  /\ entry' = entry + 1
  /\ UNCHANGED <<input, heap, stack>>

(***************************************************************************)
(* cedar_apply_record_children and cedar_apply_set_children.               *)
(***************************************************************************)
ApplyChild ==
  /\ stack # <<>>
  /\ Top.next <= Len(input.kids[Top.node])
  /\ LET e       == input.kids[Top.node][Top.next]
         resumed == Append(Callers, [Top EXCEPT !.next = @ + 1])
     IN  /\ Accepts(Top.array, e)
         /\ Write(Top.array, e)
         /\ stack' = IF IsContainer(e) THEN Append(resumed, Open(e)) ELSE resumed
  /\ UNCHANGED <<input, entry, failed>>

\* Variant: the caller goes on with its next child after a failed one.
RefuseChildOnly ==
  /\ stack # <<>>
  /\ Top.next <= Len(input.kids[Top.node])
  /\ ~Accepts(Top.array, input.kids[Top.node][Top.next])
  /\ stack' = Callers
  /\ failed' = IF Callers = <<>> THEN Append(failed, input.entries[entry].name) ELSE failed
  /\ entry' = IF Callers = <<>> THEN entry + 1 ELSE entry
  /\ UNCHANGED <<input, heap>>

(***************************************************************************)
(* A child that fails fails every caller up to the entry, which is         *)
(* reported once; what has been written stays.                             *)
(***************************************************************************)
RefuseChild ==
  /\ stack # <<>>
  /\ Top.next <= Len(input.kids[Top.node])
  /\ ~Accepts(Top.array, input.kids[Top.node][Top.next])
  /\ stack' = <<>>
  /\ failed' = Append(failed, input.entries[entry].name)
  /\ entry' = entry + 1
  /\ UNCHANGED <<input, heap>>

ChildrenDone ==
  /\ stack # <<>>
  /\ Top.next > Len(input.kids[Top.node])
  /\ stack' = Callers
  /\ entry' = IF Callers = <<>> THEN entry + 1 ELSE entry
  /\ UNCHANGED <<input, heap, failed>>

InjectionNext ==
  \/ SkipEntry \/ ApplyEntry \/ RefuseEntry
  \/ ApplyChild \/ RefuseChild \/ ChildrenDone

InjectionSpec == InjectionInit /\ [][InjectionNext]_injectionVars
-----------------------------------------------------------------------------
(***************************************************************************)
(* The type invariant.  A frame's handle is an array of the pool, and the  *)
(* entry that the frames belong to exists.                                 *)
(***************************************************************************)
InjectionTypeOK ==
  /\ input \in Input
  /\ entry \in Nat \ {0}
  /\ heap \in Seq(Array) /\ heap # <<>>
  /\ stack \in Seq(Frame)
  /\ \A f \in DOMAIN stack : stack[f].array \in DOMAIN heap /\ stack[f].next # 0
  /\ stack # <<>> => entry <= Len(input.entries) /\ input.entries[entry].name # NoName
  /\ failed \in Seq(Name)

(***************************************************************************)
(* Values are nested at most MaxDepth deep, however records and sets       *)
(* alternate: value_equals relies on it for its own recursion limit, and a *)
(* member chain could not reach anything deeper (php_cedar_types.h).       *)
(***************************************************************************)
Inner(a) == {heap[a].elts[k].array : k \in DOMAIN heap[a].elts} \ {0}

Nesting[a \in DOMAIN heap] ==
  IF Inner(a) = {} THEN 0 ELSE 1 + Max({Nesting[b] : b \in Inner(a)})

NestingBounded == Nesting[1] <= MaxDepth

(***************************************************************************)
(* A reference goes one level down and no array is below the ceiling: what *)
(* NestingBounded says, array by array.                                    *)
(***************************************************************************)
DepthCeiling ==
  \A a \in DOMAIN heap :
    /\ heap[a].depth <= MaxDepth
    /\ \A b \in Inner(a) : b \in DOMAIN heap /\ b > a /\ heap[b].depth = heap[a].depth + 1

(***************************************************************************)
(* Record equality and find_attr count on unique names in every record,    *)
(* also when an entity is listed twice with overlapping attributes.        *)
(***************************************************************************)
NamesUnique ==
  \A a \in DOMAIN heap :
    heap[a].kind = "record" =>
      \A k, l \in DOMAIN heap[a].elts : heap[a].elts[k].name = heap[a].elts[l].name => k = l
-----------------------------------------------------------------------------
(***************************************************************************)
(* The contents of the arrays of a heap h, as trees of values.             *)
(***************************************************************************)
Trees(h) ==
  LET elts[a \in DOMAIN h] ==
        [k \in DOMAIN h[a].elts |->
           LET e == h[a].elts[k]
           IN  [name |-> e.name,
                tree |-> [kind |-> IF e.array = 0 THEN "scalar" ELSE h[e.array].kind,
                          node |-> e.node,
                          elts |-> IF e.array = 0 THEN <<>> ELSE elts[e.array]]]]
  IN  elts

\* The entry whose children are still being applied is not there yet.
Attributes ==
  [k \in 1 .. IF stack = <<>> THEN Len(heap[1].elts) ELSE Len(heap[1].elts) - 1 |->
     Trees(heap)[1][k]]

Map == INSTANCE AttributeMap WITH attrs <- Attributes

(***************************************************************************)
(* A whole AttributeValue is, seen from the request loop, one step that    *)
(* adds what Outcome says and reports the entry once if any part fails.    *)
(***************************************************************************)
ImplementsMap == Map!Spec
=============================================================================
