--------------------------- MODULE InjectionProofs ---------------------------
(***************************************************************************)
(* Theorems about Injection for every request and every depth ceiling.     *)
(***************************************************************************)
EXTENDS Injection, SequenceLemmas

LEMMA EntryInput ==
  ASSUME InjectionTypeOK
  PROVE  /\ \A k \in DOMAIN input.entries : input.entries[k] \in Child
         /\ \A n \in Node : input.kids[n] \in Seq(Child) /\ input.kind[n] \in Kind
         /\ input.entries \in Seq(Child)
<1>1. input \in Input
  BY DEF InjectionTypeOK
<1>2. input.entries \in Seq(Child)
  BY <1>1 DEF Input
<1>3. \A k \in DOMAIN input.entries : input.entries[k] \in Child
  BY <1>2
<1> QED
  BY <1>1, <1>2, <1>3 DEF Input

(***************************************************************************)
(* The frame on top of a non-empty stack, and the stack below it.          *)
(***************************************************************************)
LEMMA TopFrame ==
  ASSUME InjectionTypeOK, stack # <<>>
  PROVE  /\ Top \in Frame /\ Top.array \in DOMAIN heap /\ Top.next \in Nat \ {0}
         /\ Callers \in Seq(Frame)
         /\ \A f \in DOMAIN Callers : Callers[f].array \in DOMAIN heap /\ Callers[f].next # 0
         /\ [Top EXCEPT !.next = @ + 1] \in Frame
         /\ [Top EXCEPT !.next = @ + 1].array = Top.array
         /\ [Top EXCEPT !.next = @ + 1].next # 0
         /\ entry \in DOMAIN input.entries /\ input.entries[entry].name \in Name
<1>1. stack \in Seq(Frame) /\ Len(stack) \in Nat \ {0}
  BY DEF InjectionTypeOK
<1>2. Len(stack) \in DOMAIN stack
  BY <1>1
<1>3. Top \in Frame /\ Top.array \in DOMAIN heap /\ Top.next # 0
  BY <1>1, <1>2 DEF Top, InjectionTypeOK
<1>4. /\ Callers \in Seq(Frame)
      /\ DOMAIN Callers = 1 .. Len(stack) - 1
      /\ \A f \in DOMAIN Callers : f \in DOMAIN stack /\ Callers[f] = stack[f]
  BY <1>1 DEF Callers
<1> HIDE DEF Top
<1>5. Top.next \in Nat /\ [Top EXCEPT !.next = @ + 1] \in Frame
      /\ [Top EXCEPT !.next = @ + 1].array = Top.array
      /\ [Top EXCEPT !.next = @ + 1].next = Top.next + 1
  BY <1>3 DEF Frame
<1>6. entry \in DOMAIN input.entries /\ input.entries[entry].name # NoName
  BY EntryInput DEF InjectionTypeOK
<1>7. input.entries[entry].name \in Name
  BY <1>6, EntryInput DEF Child
<1> QED
  BY <1>1, <1>3, <1>4, <1>5, <1>6, <1>7 DEF InjectionTypeOK

(***************************************************************************)
(* The child that the top frame is at.                                     *)
(***************************************************************************)
LEMMA TopChild ==
  ASSUME InjectionTypeOK, stack # <<>>, Top.next <= Len(input.kids[Top.node])
  PROVE  input.kids[Top.node][Top.next] \in Child
<1>1. Top.node \in Node /\ Top.next \in Nat \ {0}
  BY TopFrame DEF Frame
<1>2. input.kids[Top.node] \in Seq(Child)
  BY <1>1, EntryInput
<1> QED
  BY <1>1, <1>2

(***************************************************************************)
(* What a write does: the array it writes to gains one element, the other  *)
(* arrays are as they were, and a container comes with an array of its own *)
(* at the end of the heap.                                                 *)
(***************************************************************************)
LEMMA WriteEffect ==
  ASSUME InjectionTypeOK, NEW a \in DOMAIN heap, NEW e \in Child, Accepts(a, e), Write(a, e)
  PROVE  /\ heap' \in Seq(Array) /\ heap' # <<>>
         /\ Len(heap') = IF IsContainer(e) THEN Len(heap) + 1 ELSE Len(heap)
         /\ \A b \in DOMAIN heap : b \in DOMAIN heap'
         /\ \A b \in DOMAIN heap \ {a} : heap'[b] = heap[b]
         /\ heap'[a].kind = heap[a].kind /\ heap'[a].depth = heap[a].depth
         /\ heap'[a].elts = Append(heap[a].elts, Written(a, e))
         /\ IsContainer(e) => heap'[Len(heap) + 1] = NewArray(a, e)
<1> DEFINE pushed == [heap EXCEPT ![a].elts = Append(@, Written(a, e))]
           len == Len(heap)
<1>1. /\ heap \in Seq(Array) /\ heap[a] \in Array /\ len \in Nat /\ DOMAIN heap = 1 .. len
      /\ e.node \in Node /\ e.name \in Name \cup {NoName}
  BY DEF InjectionTypeOK, Child
<1>2. Written(a, e) \in Elem
  BY <1>1 DEF Written, Elem
<1>3. NewArray(a, e) \in Array \/ ~IsContainer(e)
  <2>1. heap[a].depth + 1 \in Nat
    BY <1>1 DEF Array
  <2> QED
    BY <2>1 DEF NewArray, Array, IsContainer
<1>4. /\ pushed \in Seq(Array) /\ Len(pushed) = len /\ DOMAIN pushed = 1 .. len
      /\ \A b \in 1 .. len : b # a => pushed[b] = heap[b]
      /\ pushed[a] = [heap[a] EXCEPT !.elts = Append(@, Written(a, e))]
  <2>1. heap[a].elts \in Seq(Elem)
    BY <1>1 DEF Array
  <2>2. Append(heap[a].elts, Written(a, e)) \in Seq(Elem)
    BY <1>2, <2>1
  <2>3. [heap[a] EXCEPT !.elts = Append(@, Written(a, e))] \in Array
    BY <1>1, <2>2 DEF Array
  <2> QED
    BY <1>1, <2>3
<1>5. /\ pushed[a].kind = heap[a].kind /\ pushed[a].depth = heap[a].depth
      /\ pushed[a].elts = Append(heap[a].elts, Written(a, e))
  BY <1>1, <1>4 DEF Array
<1> HIDE DEF pushed
<1>6. CASE IsContainer(e)
  <2>1. heap' = Append(pushed, NewArray(a, e))
    BY <1>6 DEF Write, pushed
  <2>2. /\ heap' \in Seq(Array) /\ Len(heap') = len + 1
        /\ \A b \in 1 .. len : heap'[b] = pushed[b]
        /\ heap'[len + 1] = NewArray(a, e)
    BY <1>1, <1>3, <1>4, <1>6, <2>1, SMTT(30)
  <2>3. heap' # <<>> /\ DOMAIN heap' = 1 .. len + 1
    BY <1>1, <2>2
  <2>4. \A b \in DOMAIN heap : b \in DOMAIN heap' /\ heap'[b] = pushed[b]
    BY <1>1, <2>2, <2>3
  <2> QED
    BY <1>1, <1>4, <1>5, <1>6, <2>2, <2>3, <2>4
<1>7. CASE ~IsContainer(e)
  <2>1. heap' = pushed
    BY <1>7 DEF Write, pushed
  <2>2. heap' # <<>>
    BY <1>1, <1>4, <2>1
  <2> QED
    BY <1>1, <1>4, <1>5, <1>7, <2>1, <2>2
<1> QED
  BY <1>6, <1>7

LEMMA OpenFrame ==
  ASSUME InjectionTypeOK, NEW e \in Child
  PROVE  Open(e) \in Frame /\ Open(e).array = Len(heap) + 1 /\ Open(e).next # 0
  BY DEF InjectionTypeOK, Open, Frame, Child

LEMMA InitType == InjectionInit => InjectionTypeOK
  <1> SUFFICES ASSUME InjectionInit PROVE InjectionTypeOK
    OBVIOUS
  <1>1. [kind |-> "record", depth |-> 0, elts |-> <<>>] \in Array
    BY DEF Array, Container
  <1> QED
    BY <1>1, InputsAssumption DEF InjectionInit, InjectionTypeOK

LEMMA NextType == InjectionTypeOK /\ [InjectionNext]_injectionVars => InjectionTypeOK'
  <1> SUFFICES ASSUME InjectionTypeOK, [InjectionNext]_injectionVars PROVE InjectionTypeOK'
    OBVIOUS
  <1>1. entry \in Nat \ {0} /\ entry + 1 \in Nat \ {0} /\ input.entries \in Seq(Child)
        /\ failed \in Seq(Name) /\ heap \in Seq(Array) /\ Len(heap) \in Nat
        /\ DOMAIN heap = 1 .. Len(heap) /\ 1 \in DOMAIN heap
    BY EntryInput DEF InjectionTypeOK
  <1>2. CASE SkipEntry
    BY <1>1, <1>2 DEF SkipEntry, InjectionTypeOK
  <1>3. CASE ApplyEntry
    <2> DEFINE e == input.entries[entry]
    <2>1. e \in Child
      BY <1>1, <1>3, EntryInput DEF ApplyEntry
    <2>2. heap' \in Seq(Array) /\ heap' # <<>>
          /\ Len(heap') = IF IsContainer(e) THEN Len(heap) + 1 ELSE Len(heap)
      BY <1>1, <1>3, <2>1, WriteEffect DEF ApplyEntry
    <2> HIDE DEF e
    <2>3. CASE IsContainer(e)
      <3>1. stack' = <<Open(e)>> /\ entry' = entry /\ failed' = failed /\ input' = input
            /\ entry <= Len(input.entries) /\ input.entries[entry].name # NoName
        BY <1>3, <2>3 DEF ApplyEntry, e
      <3>2. Open(e) \in Frame /\ Open(e).array \in DOMAIN heap' /\ Open(e).next # 0
        BY <1>1, <2>1, <2>2, <2>3, OpenFrame
      <3>3. stack' \in Seq(Frame) /\ \A f \in DOMAIN stack' : stack'[f] = Open(e)
        BY <3>1, <3>2
      <3> QED
        BY <2>2, <3>1, <3>2, <3>3 DEF InjectionTypeOK
    <2>4. CASE ~IsContainer(e)
      <3>1. stack' = <<>> /\ entry' = entry + 1 /\ failed' = failed /\ input' = input
        BY <1>3, <2>4 DEF ApplyEntry, e
      <3> QED
        BY <1>1, <2>2, <3>1 DEF InjectionTypeOK
    <2> QED
      BY <2>3, <2>4
  <1>4. CASE RefuseEntry
    <2>1. input.entries[entry].name \in Name
      BY <1>1, <1>4, EntryInput DEF RefuseEntry, Child
    <2> QED
      BY <1>1, <1>4, <2>1 DEF RefuseEntry, InjectionTypeOK
  <1>5. CASE ApplyChild
    <2> DEFINE e == input.kids[Top.node][Top.next]
               resumed == Append(Callers, [Top EXCEPT !.next = @ + 1])
    <2>1. e \in Child /\ Top.array \in DOMAIN heap
          /\ entry <= Len(input.entries) /\ input.entries[entry].name # NoName
      BY <1>5, TopFrame, TopChild DEF ApplyChild, InjectionTypeOK
    <2>2. heap' \in Seq(Array) /\ heap' # <<>> /\ (\A b \in DOMAIN heap : b \in DOMAIN heap')
          /\ Len(heap') = IF IsContainer(e) THEN Len(heap) + 1 ELSE Len(heap)
      BY <1>5, <2>1, WriteEffect DEF ApplyChild
    <2>3. resumed \in Seq(Frame)
          /\ \A f \in DOMAIN resumed : resumed[f].array \in DOMAIN heap /\ resumed[f].next # 0
      <3> DEFINE on == [Top EXCEPT !.next = @ + 1]
      <3>1. /\ Callers \in Seq(Frame) /\ on \in Frame /\ on.array \in DOMAIN heap /\ on.next # 0
            /\ \A f \in DOMAIN Callers : Callers[f].array \in DOMAIN heap /\ Callers[f].next # 0
        BY <1>5, TopFrame DEF ApplyChild
      <3> HIDE DEF on
      <3>2. Append(Callers, on) \in Seq(Frame)
            /\ \A f \in DOMAIN Append(Callers, on) :
                 Append(Callers, on)[f] = on \/ (f \in DOMAIN Callers
                                                 /\ Append(Callers, on)[f] = Callers[f])
        BY <3>1
      <3> QED
        BY <3>1, <3>2 DEF on
    <2>4. stack' = IF IsContainer(e) THEN Append(resumed, Open(e)) ELSE resumed
      BY <1>5 DEF ApplyChild
    <2>5. UNCHANGED <<input, entry, failed>>
      BY <1>5 DEF ApplyChild
    <2> HIDE DEF e, resumed
    <2>6. Open(e) \in Frame /\ Open(e).next # 0 /\ (IsContainer(e) => Open(e).array \in DOMAIN heap')
      BY <1>1, <2>1, <2>2, OpenFrame
    <2>7. stack' \in Seq(Frame)
          /\ \A f \in DOMAIN stack' : stack'[f].array \in DOMAIN heap' /\ stack'[f].next # 0
      <3>1. CASE IsContainer(e)
        <4>1. stack' = Append(resumed, Open(e))
          BY <2>4, <3>1
        <4>2. \A f \in DOMAIN stack' : stack'[f] = Open(e) \/ (f \in DOMAIN resumed
                                                               /\ stack'[f] = resumed[f])
          BY <2>3, <2>6, <4>1
        <4> QED
          BY <2>2, <2>3, <2>6, <3>1, <4>1, <4>2
      <3>2. CASE ~IsContainer(e)
        BY <2>2, <2>3, <2>4, <3>2
      <3> QED
        BY <3>1, <3>2
    <2> QED
      BY <2>1, <2>2, <2>5, <2>7 DEF InjectionTypeOK
  <1>6. CASE RefuseChild
    <2>1. input.entries[entry].name \in Name
      BY <1>6, TopFrame DEF RefuseChild
    <2> QED
      BY <1>1, <1>6, <2>1 DEF RefuseChild, InjectionTypeOK
  <1>7. CASE ChildrenDone
    <2>1. /\ Callers \in Seq(Frame)
          /\ entry <= Len(input.entries) /\ input.entries[entry].name # NoName
          /\ \A f \in DOMAIN Callers : Callers[f].array \in DOMAIN heap /\ Callers[f].next # 0
      BY <1>7, TopFrame DEF ChildrenDone, InjectionTypeOK
    <2>2. /\ stack' = Callers /\ entry' = IF Callers = <<>> THEN entry + 1 ELSE entry
          /\ UNCHANGED <<input, heap, failed>>
      BY <1>7 DEF ChildrenDone
    <2> HIDE DEF Callers
    <2> QED
      BY <1>1, <2>1, <2>2 DEF InjectionTypeOK
  <1>8. CASE UNCHANGED injectionVars
    BY <1>8 DEF injectionVars, InjectionTypeOK
  <1> QED
    BY <1>2, <1>3, <1>4, <1>5, <1>6, <1>7, <1>8 DEF InjectionNext

(***************************************************************************)
(* Handles, frames and error list are well-typed throughout.               *)
(***************************************************************************)
THEOREM InjectionTypeCorrect == InjectionSpec => []InjectionTypeOK
  BY InitType, NextType, PTL DEF InjectionSpec

-----------------------------------------------------------------------------
(***************************************************************************)
(* The heap changes only where something is written: an array of the heap  *)
(* and an entry that it accepts.                                           *)
(***************************************************************************)
LEMMA HeapStep ==
  ASSUME InjectionTypeOK, [InjectionNext]_injectionVars
  PROVE  \/ UNCHANGED <<heap, input>>
         \/ \E a \in DOMAIN heap, e \in Child :
              Accepts(a, e) /\ Write(a, e) /\ UNCHANGED input
<1>1. 1 \in DOMAIN heap
  BY DEF InjectionTypeOK
<1>2. CASE ApplyEntry
  <2> DEFINE e == input.entries[entry]
  <2>1. e \in Child
    BY <1>2, EntryInput DEF ApplyEntry, InjectionTypeOK
  <2>2. Accepts(1, e) /\ Write(1, e) /\ UNCHANGED input
    BY <1>2 DEF ApplyEntry
  <2> QED
    BY <1>1, <2>1, <2>2
<1>3. CASE ApplyChild
  <2> DEFINE e == input.kids[Top.node][Top.next]
  <2>1. e \in Child /\ Top.array \in DOMAIN heap
    BY <1>3, TopFrame, TopChild DEF ApplyChild
  <2>2. Accepts(Top.array, e) /\ Write(Top.array, e) /\ UNCHANGED input
    BY <1>3 DEF ApplyChild
  <2> QED
    BY <2>1, <2>2
<1>4. CASE SkipEntry \/ RefuseEntry \/ RefuseChild \/ ChildrenDone \/ UNCHANGED injectionVars
  BY <1>4 DEF SkipEntry, RefuseEntry, RefuseChild, ChildrenDone, injectionVars
<1> QED
  BY <1>2, <1>3, <1>4 DEF InjectionNext

LEMMA ArrayParts ==
  ASSUME InjectionTypeOK
  PROVE  /\ Len(heap) \in Nat /\ DOMAIN heap = 1 .. Len(heap)
         /\ \A a \in DOMAIN heap : /\ heap[a].kind \in Container /\ heap[a].depth \in Nat
                                   /\ heap[a].elts \in Seq(Elem)
<1>1. heap \in Seq(Array)
  BY DEF InjectionTypeOK
<1>2. \A a \in DOMAIN heap : heap[a] \in Array
  BY <1>1
<1> QED
  BY <1>1, <1>2 DEF Array

LEMMA WriteKeepsCeiling ==
  ASSUME InjectionTypeOK, DepthCeiling, NEW a \in DOMAIN heap, NEW e \in Child,
         Accepts(a, e), Write(a, e)
  PROVE  DepthCeiling'
<1> DEFINE len == Len(heap)
<1>1. /\ len \in Nat /\ DOMAIN heap = 1 .. len
      /\ heap[a].depth \in Nat /\ heap[a].elts \in Seq(Elem)
  BY ArrayParts
<1>2. DOMAIN heap' = 1 .. IF IsContainer(e) THEN len + 1 ELSE len
  BY WriteEffect
<1>3. \A b \in DOMAIN heap : b \in DOMAIN heap' /\ heap'[b].depth = heap[b].depth
  BY WriteEffect
<1>4. Inner(a)' = Inner(a) \cup (IF IsContainer(e) THEN {len + 1} ELSE {})
  <2>1. heap'[a].elts = Append(heap[a].elts, Written(a, e))
    BY WriteEffect
  <2>2. Written(a, e).array = IF IsContainer(e) THEN len + 1 ELSE 0
    BY DEF Written
  <2>3. {Append(heap[a].elts, Written(a, e))[k].array : k \in DOMAIN Append(heap[a].elts, Written(a, e))}
          = {heap[a].elts[k].array : k \in DOMAIN heap[a].elts} \cup {Written(a, e).array}
    <3> DEFINE s == heap[a].elts
               w == Written(a, e)
    <3> HIDE DEF s, w
    <3>1. s \in Seq(Elem)
      BY <1>1 DEF s
    <3>2. Len(s) \in Nat /\ DOMAIN s = 1 .. Len(s) /\ DOMAIN Append(s, w) = 1 .. Len(s) + 1
          /\ (\A k \in 1 .. Len(s) : Append(s, w)[k] = s[k]) /\ Append(s, w)[Len(s) + 1] = w
      BY <3>1
    <3> QED
      BY <3>2 DEF s, w
  <2>4. Inner(a)' = {Append(heap[a].elts, Written(a, e))[k].array :
                       k \in DOMAIN Append(heap[a].elts, Written(a, e))} \ {0}
    BY <2>1, Zenon DEF Inner
  <2>5. Inner(a)' = (Inner(a) \cup {Written(a, e).array}) \ {0}
    <3> DEFINE old == {heap[a].elts[k].array : k \in DOMAIN heap[a].elts}
    <3>1. Inner(a) = old \ {0} /\ Inner(a)' = (old \cup {Written(a, e).array}) \ {0}
      BY <2>3, <2>4, Zenon DEF Inner
    <3> HIDE DEF old
    <3> QED
      BY <3>1
  <2>6. 0 \notin Inner(a) /\ len + 1 # 0
    BY <1>1 DEF Inner
  <2> QED
    BY <2>2, <2>5, <2>6
<1>5. \A b \in DOMAIN heap \ {a} : Inner(b)' = Inner(b)
  BY WriteEffect DEF Inner
<1>6. IsContainer(e) => /\ heap[a].depth + 1 <= MaxDepth
                        /\ heap'[len + 1].depth = heap[a].depth + 1
                        /\ heap'[len + 1].elts = <<>>
  <2>1. IsContainer(e) => heap[a].depth < MaxDepth /\ heap'[len + 1] = NewArray(a, e)
    BY WriteEffect DEF Accepts
  <2>2. IsContainer(e) => heap[a].depth + 1 <= MaxDepth
    BY <1>1, <2>1, DepthAssumption
  <2> QED
    BY <2>1, <2>2 DEF NewArray
<1>7. \A b \in DOMAIN heap' : b \in DOMAIN heap \/ (IsContainer(e) /\ b = len + 1)
  BY <1>1, <1>2
<1>8. IsContainer(e) => len + 1 \in DOMAIN heap' /\ len + 1 > a
  BY <1>1, <1>2
<1>9. \A b \in DOMAIN heap' : heap'[b].depth <= MaxDepth
  <2> TAKE b \in DOMAIN heap'
  <2>1. CASE b \in DOMAIN heap
    BY <1>3, <2>1 DEF DepthCeiling
  <2>2. CASE IsContainer(e) /\ b = len + 1
    BY <1>6, <2>2
  <2> QED
    BY <1>7, <2>1, <2>2
<1>10. \A b \in DOMAIN heap' : b \notin DOMAIN heap => Inner(b)' = {}
  BY <1>6, <1>7 DEF Inner
<1>11. \A b \in DOMAIN heap' : \A c \in Inner(b)' :
         c \in DOMAIN heap' /\ c > b /\ heap'[c].depth = heap'[b].depth + 1
  <2> SUFFICES ASSUME NEW b \in DOMAIN heap', NEW c \in Inner(b)'
               PROVE  c \in DOMAIN heap' /\ c > b /\ heap'[c].depth = heap'[b].depth + 1
    OBVIOUS
  <2>1. b \in DOMAIN heap
    BY <1>10
  <2>2. CASE c \in Inner(b)
    BY <1>3, <2>1, <2>2 DEF DepthCeiling
  <2>3. CASE c \notin Inner(b)
    <3>1. b = a /\ IsContainer(e) /\ c = len + 1
      BY <1>4, <1>5, <2>1, <2>3
    <3> QED
      BY <1>3, <1>6, <1>8, <3>1
  <2> QED
    BY <2>2, <2>3
<1> QED
  BY <1>9, <1>11 DEF DepthCeiling

LEMMA InitCeiling == InjectionInit => DepthCeiling
  BY DepthAssumption DEF InjectionInit, DepthCeiling, Inner

LEMMA NextCeiling == InjectionTypeOK /\ DepthCeiling /\ [InjectionNext]_injectionVars => DepthCeiling'
<1> SUFFICES ASSUME InjectionTypeOK, DepthCeiling, [InjectionNext]_injectionVars PROVE DepthCeiling'
  OBVIOUS
<1>1. CASE UNCHANGED heap
  BY <1>1 DEF DepthCeiling, Inner
<1>2. CASE \E a \in DOMAIN heap, e \in Child : Accepts(a, e) /\ Write(a, e)
  BY <1>2, WriteKeepsCeiling
<1> QED
  BY <1>1, <1>2, HeapStep

(***************************************************************************)
(* No mixture of records and sets nests deeper than the shared ceiling:    *)
(* every reference goes exactly one level down and to a younger array, so  *)
(* the values are finite trees of at most MaxDepth levels.                 *)
(***************************************************************************)
THEOREM DepthNeverExceeded == InjectionSpec => []DepthCeiling
<1>1. InjectionInit => InjectionTypeOK /\ DepthCeiling
  BY InitType, InitCeiling
<1>2. InjectionTypeOK /\ DepthCeiling /\ [InjectionNext]_injectionVars => (InjectionTypeOK /\ DepthCeiling)'
  BY NextType, NextCeiling
<1> QED
  BY <1>1, <1>2, PTL DEF InjectionSpec

(***************************************************************************)
(* Nesting exists, because a reference goes to a younger array.            *)
(***************************************************************************)
LEMMA NestingUnfolds ==
  ASSUME InjectionTypeOK, DepthCeiling
  PROVE  \A a \in DOMAIN heap :
           Nesting[a] = IF Inner(a) = {} THEN 0 ELSE 1 + Max({Nesting[b] : b \in Inner(a)})
<1> DEFINE n == Len(heap)
           Step(a, g) == IF Inner(a) = {} THEN 0 ELSE 1 + Max({g[b] : b \in Inner(a)})
           Is(g) == g = [a \in DOMAIN heap |-> Step(a, g)]
           Ok(m) == \E g : g = [a \in (n - m) + 1 .. n |-> Step(a, g)]
           T == {m \in 0 .. n : Ok(m)}
<1>1. n \in Nat /\ DOMAIN heap = 1 .. n
  BY ArrayParts
<1>2. \A a \in 1 .. n : \A b \in Inner(a) : b \in 1 .. n /\ b > a
  BY <1>1 DEF DepthCeiling
<1> HIDE DEF n
<1>3. ASSUME NEW a \in 1 .. n, NEW f, NEW g, \A b \in Inner(a) : f[b] = g[b]
      PROVE  Step(a, f) = Step(a, g)
  <2>1. {f[b] : b \in Inner(a)} = {g[b] : b \in Inner(a)}
    BY <1>3
  <2> QED
    BY <2>1
<1> HIDE DEF Step
<1>4. 0 \in T
  <2> DEFINE g == [a \in {} |-> 0]
  <2>1. (n - 0) + 1 .. n = {}
    BY <1>1
  <2>2. g = [a \in (n - 0) + 1 .. n |-> Step(a, g)]
    BY <2>1
  <2>3. Ok(0)
    <3> HIDE DEF g
    <3> QED
      BY <2>2
  <2> HIDE DEF Ok
  <2> QED
    BY <1>1, <2>3
<1>5. ASSUME NEW m \in 0 .. n - 1, m \in T PROVE m + 1 \in T
  <2>1. PICK f : f = [a \in (n - m) + 1 .. n |-> Step(a, f)]
    BY <1>5
  <2>2. PICK c \in 1 .. n : c = n - m
    BY <1>1
  <2> DEFINE g == [a \in c .. n |-> IF a = c THEN Step(c, f) ELSE f[a]]
  <2>3. \A a \in c + 1 .. n : f[a] = Step(a, f) /\ g[a] = f[a]
    <3>1. f = [a \in c + 1 .. n |-> Step(a, f)]
      BY <2>1, <2>2
    <3>2. \A a \in c + 1 .. n : f[a] = Step(a, f)
      BY <3>1, Zenon
    <3>3. \A a \in c + 1 .. n : g[a] = f[a]
      BY <1>1
    <3> QED
      BY <3>2, <3>3
  <2>4. g[c] = Step(c, f)
    BY <1>1, <2>2
  <2>5. ASSUME NEW a \in c .. n PROVE g[a] = Step(a, g)
    <3> HIDE DEF g
    <3>1. a \in 1 .. n /\ (a = c \/ a \in c + 1 .. n)
      BY <1>1
    <3>2. \A b \in Inner(a) : f[b] = g[b]
      BY <1>1, <1>2, <2>3, <3>1
    <3>3. Step(a, f) = Step(a, g)
      BY <1>3, <3>1, <3>2
    <3> QED
      BY <2>3, <2>4, <3>1, <3>3
  <2>6. (n - (m + 1)) + 1 = c
    BY <1>1, <2>2
  <2>7. g = [a \in c .. n |-> g[a]]
    OBVIOUS
  <2>8. g = [a \in c .. n |-> Step(a, g)]
    <3> HIDE DEF g
    <3> QED
      BY <2>5, <2>7
  <2>9. Ok(m + 1)
    <3> HIDE DEF g
    <3> QED
      BY <2>6, <2>8
  <2>10. m + 1 \in 0 .. n
    BY <1>1
  <2> HIDE DEF Ok
  <2> QED
    BY <2>9, <2>10
<1>6. \E g : Is(g)
  <2>1. n \in T
    <3> HIDE DEF T
    <3>1. \A m \in 0 .. n : m \in T
      BY <1>1, <1>4, <1>5, UpToNumber
    <3> QED
      BY <1>1, <3>1
  <2>2. (n - n) + 1 .. n = DOMAIN heap
    BY <1>1
  <2> QED
    BY <2>1, <2>2
<1>7. Is(Nesting)
  <2>1. Nesting = CHOOSE g : Is(g)
    BY DEF Nesting, Step
  <2> HIDE DEF Is
  <2> QED
    BY <1>6, <2>1
<1>8. \A a \in DOMAIN heap : Nesting[a] = Step(a, Nesting)
  BY <1>7
<1> QED
  BY <1>8 DEF Step

LEMMA GreatestNumber ==
  ASSUME NEW n \in Nat, NEW S, S \subseteq 0 .. n, S # {}
  PROVE  Max(S) \in S
<1> DEFINE T == {n - x : x \in S}
<1>1. T \subseteq Nat /\ T # {}
  <2>1. \A x \in S : n - x \in Nat
    OBVIOUS
  <2> QED
    BY <2>1
<1>2. PICK t \in T : \A y \in T : t <= y
  <2> HIDE DEF T
  <2> QED
    BY <1>1, LeastNumber
<1>3. PICK x \in S : t = n - x
  BY <1>2
<1>4. \A y \in S : x >= y
  BY <1>2, <1>3
<1> QED
  BY <1>4 DEF Max

(***************************************************************************)
(* An array at some depth holds no more levels than are left below it.     *)
(***************************************************************************)
LEMMA RoomBelow ==
  ASSUME InjectionTypeOK, DepthCeiling
  PROVE  \A a \in DOMAIN heap : Nesting[a] \in 0 .. MaxDepth - heap[a].depth
<1> DEFINE n == Len(heap)
           Good(a) == Nesting[a] \in 0 .. MaxDepth - heap[a].depth
           Bad == {m \in 0 .. n - 1 : ~Good(n - m)}
<1>1. n \in Nat /\ DOMAIN heap = 1 .. n /\ MaxDepth \in Nat
      /\ \A a \in 1 .. n : heap[a].depth \in Nat
  BY ArrayParts, DepthAssumption
<1> HIDE DEF n, Good
<1>2. SUFFICES ASSUME Bad # {} PROVE FALSE
  <2> SUFFICES ASSUME NEW a \in DOMAIN heap PROVE Good(a)
    BY DEF Good
  <2>1. n - a \in 0 .. n - 1 /\ n - (n - a) = a
    BY <1>1
  <2> QED
    BY <2>1
<1>3. PICK m \in Bad : \A y \in Bad : m <= y
  <2>1. Bad \subseteq Nat
    BY <1>1
  <2> HIDE DEF Bad
  <2> QED
    BY <1>2, <2>1, LeastNumber
<1>4. PICK a \in 1 .. n : a = n - m
  BY <1>1
<1>5. ~Good(a)
  BY <1>4
<1>6. \A b \in Inner(a) : Good(b) /\ b \in 1 .. n /\ heap[b].depth = heap[a].depth + 1
                          /\ heap[b].depth <= MaxDepth
  <2> TAKE b \in Inner(a)
  <2>1. b \in 1 .. n /\ b > a /\ heap[b].depth = heap[a].depth + 1 /\ heap[b].depth <= MaxDepth
    BY <1>1 DEF DepthCeiling
  <2>2. n - b \in 0 .. n - 1 /\ ~(m <= n - b) /\ n - (n - b) = b
    BY <1>1, <1>4, <2>1
  <2>3. Good(b)
    BY <1>3, <2>2
  <2> QED
    BY <2>1, <2>3
<1>7. Nesting[a] = IF Inner(a) = {} THEN 0 ELSE 1 + Max({Nesting[b] : b \in Inner(a)})
  BY <1>1, NestingUnfolds
<1>8. heap[a].depth <= MaxDepth
  BY <1>1 DEF DepthCeiling
<1>9. CASE Inner(a) = {}
  BY <1>1, <1>5, <1>7, <1>8, <1>9 DEF Good
<1>10. CASE Inner(a) # {}
  <2> DEFINE S == {Nesting[b] : b \in Inner(a)}
  <2>1. PICK r \in Nat : r = MaxDepth - heap[a].depth /\ r >= 1
    BY <1>1, <1>6, <1>10
  <2>2. \A b \in Inner(a) : Nesting[b] \in 0 .. r - 1
    <3> TAKE b \in Inner(a)
    <3>1. Nesting[b] \in 0 .. MaxDepth - heap[b].depth /\ heap[b].depth = heap[a].depth + 1
      BY <1>1, <1>6 DEF Good
    <3>2. MaxDepth - heap[b].depth = r - 1
      BY <1>1, <1>6, <2>1, <3>1, DepthAssumption
    <3> QED
      BY <3>1, <3>2
  <2>3. r - 1 \in Nat /\ S \subseteq 0 .. r - 1 /\ S # {}
    BY <1>10, <2>1, <2>2
  <2>4. Max(S) \in 0 .. r - 1
    <3> HIDE DEF S
    <3>1. Max(S) \in S
      BY <2>3, GreatestNumber
    <3> QED
      BY <2>3, <3>1
  <2> HIDE DEF S
  <2>5. Nesting[a] = 1 + Max(S)
    BY <1>7, <1>10 DEF S
  <2>6. Nesting[a] \in 0 .. r
    BY <2>1, <2>4, <2>5
  <2> QED
    BY <1>5, <2>1, <2>6 DEF Good
<1> QED
  BY <1>9, <1>10

(***************************************************************************)
(* No value of the home is nested deeper than the ceiling, however records *)
(* and sets alternate in it.                                               *)
(***************************************************************************)
THEOREM NestingStaysBounded == InjectionSpec => []NestingBounded
<1>1. InjectionTypeOK /\ DepthCeiling => NestingBounded
  <2> SUFFICES ASSUME InjectionTypeOK, DepthCeiling PROVE NestingBounded
    OBVIOUS
  <2>1. 1 \in DOMAIN heap
    BY DEF InjectionTypeOK
  <2>2. heap[1].depth \in Nat
    BY <2>1, ArrayParts
  <2>3. Nesting[1] \in 0 .. MaxDepth - heap[1].depth
    BY <2>1, RoomBelow
  <2> QED
    BY <2>2, <2>3, DepthAssumption DEF NestingBounded
<1> QED
  BY <1>1, InjectionTypeCorrect, DepthNeverExceeded, PTL

LEMMA WriteKeepsNames ==
  ASSUME InjectionTypeOK, NamesUnique, NEW a \in DOMAIN heap, NEW e \in Child,
         Accepts(a, e), Write(a, e)
  PROVE  NamesUnique'
<1> DEFINE s == heap[a].elts
           w == Written(a, e)
<1>1. s \in Seq(Elem) /\ Len(heap) \in Nat /\ DOMAIN heap = 1 .. Len(heap)
  BY ArrayParts
<1>2. \A b \in DOMAIN heap \ {a} : heap'[b] = heap[b]
  BY WriteEffect
<1>3. heap'[a].kind = heap[a].kind /\ heap'[a].elts = Append(s, w)
  BY WriteEffect
<1>4. heap[a].kind = "record" => \A k \in DOMAIN s : s[k].name # w.name
  BY DEF Accepts, HasName, Written
<1>5. \A b \in DOMAIN heap' : b \in DOMAIN heap \/ heap'[b].elts = <<>>
  <2>1. DOMAIN heap' = 1 .. IF IsContainer(e) THEN Len(heap) + 1 ELSE Len(heap)
    BY WriteEffect
  <2>2. IsContainer(e) => heap'[Len(heap) + 1].elts = <<>>
    <3>1. IsContainer(e) => heap'[Len(heap) + 1] = NewArray(a, e)
      BY WriteEffect
    <3> QED
      BY <3>1 DEF NewArray
  <2>3. \A b \in DOMAIN heap' : b \in DOMAIN heap \/ (IsContainer(e) /\ b = Len(heap) + 1)
    BY <1>1, <2>1
  <2> QED
    BY <2>2, <2>3
<1> HIDE DEF s, w
<1>6. heap[a].kind = "record" =>
        \A k, l \in DOMAIN Append(s, w) : Append(s, w)[k].name = Append(s, w)[l].name => k = l
  <2>1. Len(s) \in Nat /\ DOMAIN s = 1 .. Len(s) /\ DOMAIN Append(s, w) = 1 .. Len(s) + 1
        /\ (\A k \in 1 .. Len(s) : Append(s, w)[k] = s[k]) /\ Append(s, w)[Len(s) + 1] = w
    BY <1>1
  <2>2. heap[a].kind = "record" => \A k, l \in DOMAIN s : s[k].name = s[l].name => k = l
    BY DEF NamesUnique, s
  <2> QED
    BY <1>4, <2>1, <2>2
<1> QED
  BY <1>2, <1>3, <1>5, <1>6 DEF NamesUnique

LEMMA InitNames == InjectionInit => NamesUnique
  BY DEF InjectionInit, NamesUnique

LEMMA NextNames == InjectionTypeOK /\ NamesUnique /\ [InjectionNext]_injectionVars => NamesUnique'
<1> SUFFICES ASSUME InjectionTypeOK, NamesUnique, [InjectionNext]_injectionVars PROVE NamesUnique'
  OBVIOUS
<1>1. CASE UNCHANGED heap
  BY <1>1 DEF NamesUnique
<1>2. CASE \E a \in DOMAIN heap, e \in Child : Accepts(a, e) /\ Write(a, e)
  BY <1>2, WriteKeepsNames
<1> QED
  BY <1>1, <1>2, HeapStep

(***************************************************************************)
(* No record, at any level, has a name twice.                              *)
(***************************************************************************)
THEOREM NamesStayUnique == InjectionSpec => []NamesUnique
<1>1. InjectionInit => InjectionTypeOK /\ NamesUnique
  BY InitType, InitNames
<1>2. InjectionTypeOK /\ NamesUnique /\ [InjectionNext]_injectionVars => (InjectionTypeOK /\ NamesUnique)'
  BY NextType, NextNames
<1> QED
  BY <1>1, <1>2, PTL DEF InjectionSpec

-----------------------------------------------------------------------------
(***************************************************************************)
(* The trees in the heap.  References go to younger arrays, so that there  *)
(* is a tree behind each.                                                  *)
(***************************************************************************)
Layered(h) ==
  /\ h \in Seq(Array)
  /\ \A a \in DOMAIN h : \A k \in DOMAIN h[a].elts :
       h[a].elts[k].array = 0 \/ (h[a].elts[k].array \in DOMAIN h /\ h[a].elts[k].array > a)

Value(h, e) ==
  [kind |-> IF e.array = 0 THEN "scalar" ELSE h[e.array].kind,
   node |-> e.node,
   elts |-> IF e.array = 0 THEN <<>> ELSE Trees(h)[e.array]]

LEMMA TreesUnfold ==
  ASSUME NEW h, Layered(h)
  PROVE  \A a \in DOMAIN h :
           Trees(h)[a] = [k \in DOMAIN h[a].elts |->
                            [name |-> h[a].elts[k].name, tree |-> Value(h, h[a].elts[k])]]
<1> DEFINE n == Len(h)
           Tree(e, g) == [kind |-> IF e.array = 0 THEN "scalar" ELSE h[e.array].kind,
                          node |-> e.node,
                          elts |-> IF e.array = 0 THEN <<>> ELSE g[e.array]]
           Step(a, g) == [k \in DOMAIN h[a].elts |->
                            [name |-> h[a].elts[k].name, tree |-> Tree(h[a].elts[k], g)]]
           Is(g) == g = [a \in DOMAIN h |-> Step(a, g)]
           Ok(m) == \E g : g = [a \in (n - m) + 1 .. n |-> Step(a, g)]
           T == {m \in 0 .. n : Ok(m)}
<1>1. n \in Nat /\ DOMAIN h = 1 .. n
  BY DEF Layered
<1>2. \A a \in 1 .. n : \A k \in DOMAIN h[a].elts :
        h[a].elts[k].array = 0 \/ (h[a].elts[k].array \in 1 .. n /\ h[a].elts[k].array > a)
  BY <1>1 DEF Layered
<1> HIDE DEF n
<1>3. ASSUME NEW a \in 1 .. n, NEW f, NEW g,
             \A k \in DOMAIN h[a].elts :
               h[a].elts[k].array = 0 \/ f[h[a].elts[k].array] = g[h[a].elts[k].array]
      PROVE  Step(a, f) = Step(a, g)
  <2>1. \A k \in DOMAIN h[a].elts : Tree(h[a].elts[k], f) = Tree(h[a].elts[k], g)
    BY <1>3
  <2> HIDE DEF Tree
  <2> QED
    BY <2>1
<1>4. Trees(h) = CHOOSE g : Is(g)
  BY DEF Trees
<1> HIDE DEF Step
<1>5. 0 \in T
  <2> DEFINE g == [a \in {} |-> 0]
  <2>1. (n - 0) + 1 .. n = {}
    BY <1>1
  <2>2. g = [a \in (n - 0) + 1 .. n |-> Step(a, g)]
    BY <2>1
  <2>3. Ok(0)
    <3> HIDE DEF g
    <3> QED
      BY <2>2
  <2> HIDE DEF Ok
  <2> QED
    BY <1>1, <2>3
<1>6. ASSUME NEW m \in 0 .. n - 1, m \in T PROVE m + 1 \in T
  <2>1. PICK f : f = [a \in (n - m) + 1 .. n |-> Step(a, f)]
    BY <1>6
  <2>2. PICK c \in 1 .. n : c = n - m
    BY <1>1
  <2> DEFINE g == [a \in c .. n |-> IF a = c THEN Step(c, f) ELSE f[a]]
  <2>3. \A a \in c + 1 .. n : f[a] = Step(a, f) /\ g[a] = f[a]
    <3>1. f = [a \in c + 1 .. n |-> Step(a, f)]
      BY <2>1, <2>2
    <3>2. \A a \in c + 1 .. n : f[a] = Step(a, f)
      BY <3>1, Zenon
    <3>3. \A a \in c + 1 .. n : g[a] = f[a]
      BY <1>1
    <3> QED
      BY <3>2, <3>3
  <2>4. g[c] = Step(c, f)
    BY <1>1, <2>2
  <2>5. ASSUME NEW a \in c .. n PROVE g[a] = Step(a, g)
    <3> HIDE DEF g
    <3>1. a \in 1 .. n /\ (a = c \/ a \in c + 1 .. n)
      BY <1>1
    <3>2. \A k \in DOMAIN h[a].elts :
            h[a].elts[k].array = 0 \/ f[h[a].elts[k].array] = g[h[a].elts[k].array]
      BY <1>1, <1>2, <2>3, <3>1
    <3>3. Step(a, f) = Step(a, g)
      BY <1>3, <3>1, <3>2
    <3> QED
      BY <2>3, <2>4, <3>1, <3>3
  <2>6. (n - (m + 1)) + 1 = c
    BY <1>1, <2>2
  <2>7. g = [a \in c .. n |-> g[a]]
    OBVIOUS
  <2>8. g = [a \in c .. n |-> Step(a, g)]
    <3> HIDE DEF g
    <3> QED
      BY <2>5, <2>7
  <2>9. Ok(m + 1)
    <3> HIDE DEF g
    <3> QED
      BY <2>6, <2>8
  <2>10. m + 1 \in 0 .. n
    BY <1>1
  <2> HIDE DEF Ok
  <2> QED
    BY <2>9, <2>10
<1>7. \E g : Is(g)
  <2>1. n \in T
    <3> HIDE DEF T
    <3>1. \A m \in 0 .. n : m \in T
      BY <1>1, <1>5, <1>6, UpToNumber
    <3> QED
      BY <1>1, <3>1
  <2>2. (n - n) + 1 .. n = DOMAIN h
    BY <1>1
  <2> QED
    BY <2>1, <2>2
<1>8. Is(Trees(h))
  <2> HIDE DEF Is
  <2> QED
    BY <1>4, <1>7
<1>9. ASSUME NEW a \in DOMAIN h PROVE Trees(h)[a] = Step(a, Trees(h))
  BY <1>8
<1> QED
  BY <1>9 DEF Step, Value

(***************************************************************************)
(* Two heaps have the same trees in arrays that they agree on and that     *)
(* refer to one another only.                                              *)
(***************************************************************************)
LEMMA TreesAgree ==
  ASSUME NEW h, NEW h2, Layered(h), Layered(h2),
         NEW C, C \subseteq DOMAIN h, C \subseteq DOMAIN h2,
         \A c \in C : h2[c].elts = h[c].elts,
         \A b \in C : h2[b].kind = h[b].kind,
         \A c \in C : \A k \in DOMAIN h[c].elts :
           h[c].elts[k].array = 0 \/ h[c].elts[k].array \in C
  PROVE  /\ \A c \in C : Trees(h2)[c] = Trees(h)[c]
         /\ \A e : e.array = 0 \/ e.array \in C => Value(h2, e) = Value(h, e)
<1> DEFINE n == Len(h)
           Bad == {m \in 0 .. n - 1 : n - m \in C /\ Trees(h2)[n - m] # Trees(h)[n - m]}
<1>1. n \in Nat /\ DOMAIN h = 1 .. n
  BY DEF Layered
<1>2. \A c \in C : Trees(h2)[c] = Trees(h)[c]
  <2> SUFFICES ASSUME Bad # {} PROVE FALSE
    <3> HIDE DEF n
    <3> SUFFICES ASSUME NEW c \in C PROVE Trees(h2)[c] = Trees(h)[c]
      OBVIOUS
    <3>1. n - c \in 0 .. n - 1 /\ n - (n - c) = c
      BY <1>1
    <3> QED
      BY <3>1
  <2> HIDE DEF n
  <2>1. PICK m \in Bad : \A y \in Bad : m <= y
    <3>1. Bad \subseteq Nat
      BY <1>1
    <3> HIDE DEF Bad
    <3> QED
      BY <3>1, LeastNumber
  <2>2. PICK a \in 1 .. n : a = n - m
    BY <1>1
  <2>3. a \in C /\ Trees(h2)[a] # Trees(h)[a]
    BY <2>1, <2>2
  <2>4. ASSUME NEW k \in DOMAIN h[a].elts
        PROVE  Value(h2, h[a].elts[k]) = Value(h, h[a].elts[k])
    <3> DEFINE b == h[a].elts[k].array
    <3>1. CASE b = 0
      BY <3>1 DEF Value
    <3>2. CASE b # 0
      <4>1. b \in C /\ b \in 1 .. n /\ b > a
        BY <1>1, <2>3, <3>2 DEF Layered
      <4> HIDE DEF b
      <4>2. n - b \in 0 .. n - 1 /\ ~(m <= n - b) /\ n - (n - b) = b
        BY <1>1, <2>2, <4>1
      <4>3. Trees(h2)[b] = Trees(h)[b] /\ h2[b].kind = h[b].kind
        BY <2>1, <4>1, <4>2
      <4> QED
        BY <4>3 DEF Value, b
    <3> QED
      BY <3>1, <3>2
  <2>5. /\ Trees(h)[a] = [k \in DOMAIN h[a].elts |->
                            [name |-> h[a].elts[k].name, tree |-> Value(h, h[a].elts[k])]]
        /\ Trees(h2)[a] = [k \in DOMAIN h2[a].elts |->
                            [name |-> h2[a].elts[k].name, tree |-> Value(h2, h2[a].elts[k])]]
    BY <2>3, TreesUnfold
  <2>6. h2[a].elts = h[a].elts
    BY <2>3
  <2> QED
    BY <2>3, <2>4, <2>5, <2>6
<1>3. ASSUME NEW e, e.array = 0 \/ e.array \in C PROVE Value(h2, e) = Value(h, e)
  BY <1>2, <1>3 DEF Value
<1> QED
  BY <1>2, <1>3

(***************************************************************************)
(* Outcome, level by level.                                                *)
(***************************************************************************)
Nameless(n, k) == input.kind[n] = "record" /\ input.kids[n][k].name = NoName

Fails(n, k, inner) == Nameless(n, k) \/ ~inner[input.kids[n][k].node].ok

Kept(n, inner) ==
  {k \in DOMAIN input.kids[n] : /\ \A l \in 1 .. k - 1 : ~Fails(n, l, inner)
                                /\ ~Nameless(n, k)
                                /\ inner[input.kids[n][k].node].tree # Map!NoTree}

Filled(n, inner) ==
  [ok   |-> \A k \in DOMAIN input.kids[n] : ~Fails(n, k, inner),
   tree |-> [kind |-> input.kind[n], node |-> n,
             elts |-> [k \in Kept(n, inner) |->
               [name |-> IF input.kind[n] = "record" THEN input.kids[n][k].name ELSE NoName,
                tree |-> inner[input.kids[n][k].node].tree]]]]

Level(room, inner) ==
  [n \in Node |->
     IF input.kind[n] = "malformed" \/ (input.kind[n] # "scalar" /\ room = 0)
     THEN [ok |-> FALSE, tree |-> Map!NoTree]
     ELSE IF input.kind[n] = "scalar"
     THEN [ok |-> TRUE, tree |-> [kind |-> "scalar", node |-> n, elts |-> <<>>]]
     ELSE Filled(n, inner)]

LEMMA OutcomeUnfolds ==
  ASSUME InjectionTypeOK
  PROVE  \A room \in 0 .. MaxDepth :
           Map!Outcome[room] = Level(room, Map!Outcome[room - 1])
<1> DEFINE Is(g) == g = [r \in 0 .. MaxDepth |-> Level(r, g[r - 1])]
           Ok(m) == \E g : g = [r \in 0 .. m |-> Level(r, g[r - 1])]
           T == {m \in 0 .. MaxDepth : Ok(m)}
<1>1. MaxDepth \in Nat
  BY DepthAssumption
<1>2. Map!Outcome = CHOOSE g : Is(g)
  <2>1. DOMAIN input.kind = Node
    BY DEF InjectionTypeOK, Input
  <2> QED
    BY <2>1, Zenon DEF Map!Outcome, Map!Values, Level, Filled, Kept, Fails, Nameless
<1>3. \A f, g : Level(0, f) = Level(0, g)
  BY DEF Level
<1>4. 0 \in T
  <2> DEFINE g == [r \in 0 .. 0 |-> Level(0, <<>>)]
  <2>1. \A r \in 0 .. 0 : g[r] = Level(r, g[r - 1])
    BY <1>3
  <2>2. g = [r \in 0 .. 0 |-> Level(r, g[r - 1])]
    <3>1. g = [r \in 0 .. 0 |-> g[r]]
      OBVIOUS
    <3> HIDE DEF g
    <3> QED
      BY <2>1, <3>1
  <2>3. Ok(0)
    <3> HIDE DEF g
    <3> QED
      BY <2>2
  <2> HIDE DEF Ok
  <2> QED
    BY <1>1, <2>3
<1>5. ASSUME NEW m \in 0 .. MaxDepth - 1, m \in T PROVE m + 1 \in T
  <2>1. PICK f : f = [r \in 0 .. m |-> Level(r, f[r - 1])]
    BY <1>5
  <2>2. \A r \in 0 .. m : f[r] = Level(r, f[r - 1])
    BY <2>1, Zenon
  <2> DEFINE g == [r \in 0 .. m + 1 |-> IF r = m + 1 THEN Level(m + 1, f[m]) ELSE f[r]]
  <2>3. \A r \in 0 .. m : g[r] = f[r]
    BY <1>1
  <2>4. g[m + 1] = Level(m + 1, f[m]) /\ g = [r \in 0 .. m + 1 |-> g[r]]
    BY <1>1
  <2> HIDE DEF g
  <2>5. ASSUME NEW r \in 0 .. m + 1 PROVE g[r] = Level(r, g[r - 1])
    <3>1. CASE r = m + 1
      <4>1. r - 1 = m /\ m \in 0 .. m
        BY <1>1, <3>1
      <4>2. g[r - 1] = f[m]
        BY <2>3, <4>1
      <4> QED
        BY <2>4, <3>1, <4>2
    <3>2. CASE r = 0
      <4>1. g[r] = Level(0, f[r - 1])
        BY <1>1, <2>2, <2>3, <3>2
      <4> QED
        BY <1>3, <3>2, <4>1
    <3>3. CASE r \in 1 .. m
      <4>1. g[r - 1] = f[r - 1] /\ g[r] = f[r] /\ r \in 0 .. m
        BY <1>1, <2>3, <3>3
      <4> QED
        BY <2>2, <4>1
    <3> QED
      BY <1>1, <3>1, <3>2, <3>3
  <2>6. g = [r \in 0 .. m + 1 |-> Level(r, g[r - 1])]
    BY <2>4, <2>5
  <2>7. Ok(m + 1)
    BY <2>6
  <2>8. m + 1 \in 0 .. MaxDepth
    BY <1>1
  <2> HIDE DEF Ok
  <2> QED
    BY <2>7, <2>8
<1>6. \E g : Is(g)
  <2>1. MaxDepth \in T
    <3> HIDE DEF T
    <3>1. \A m \in 0 .. MaxDepth : m \in T
      BY <1>1, <1>4, <1>5, UpToNumber
    <3> QED
      BY <1>1, <3>1
  <2> QED
    BY <2>1
<1>7. Is(Map!Outcome)
  <2> HIDE DEF Is
  <2> QED
    BY <1>2, <1>6
<1> QED
  BY <1>7, Zenon

(***************************************************************************)
(* What becomes of one value, by its kind.                                 *)
(***************************************************************************)
LEMMA OutcomeOf ==
  ASSUME InjectionTypeOK, NEW room \in 0 .. MaxDepth, NEW n \in Node
  PROVE  /\ input.kind[n] = "malformed" \/ (input.kind[n] # "scalar" /\ room = 0)
              => Map!Outcome[room][n] = [ok |-> FALSE, tree |-> Map!NoTree]
         /\ input.kind[n] = "scalar"
              => Map!Outcome[room][n] =
                   [ok |-> TRUE, tree |-> [kind |-> "scalar", node |-> n, elts |-> <<>>]]
         /\ input.kind[n] \in Container /\ room # 0
              => Map!Outcome[room][n] = Filled(n, Map!Outcome[room - 1])
         /\ Map!Outcome[room][n].tree = Map!NoTree => ~Map!Outcome[room][n].ok
<1>1. Map!Outcome[room] = Level(room, Map!Outcome[room - 1])
  BY OutcomeUnfolds
<1>2. input.kind[n] \in Kind
  BY EntryInput
<1>3. Map!NoTree.kind = "none"
  BY DEF Map!NoTree
<1>4. Filled(n, Map!Outcome[room - 1]).tree.kind = input.kind[n]
  BY DEF Filled
<1> HIDE DEF Filled, Map!NoTree
<1>5. Map!Outcome[room][n] =
        IF input.kind[n] = "malformed" \/ (input.kind[n] # "scalar" /\ room = 0)
        THEN [ok |-> FALSE, tree |-> Map!NoTree]
        ELSE IF input.kind[n] = "scalar"
        THEN [ok |-> TRUE, tree |-> [kind |-> "scalar", node |-> n, elts |-> <<>>]]
        ELSE Filled(n, Map!Outcome[room - 1])
  BY <1>1 DEF Level
<1>6. input.kind[n] \in Container \/ input.kind[n] \in {"malformed", "scalar"}
  BY <1>2 DEF Kind
<1>7. input.kind[n] \in Container => input.kind[n] \notin {"malformed", "scalar", "none"}
  BY DEF Container
<1>8. CASE input.kind[n] = "malformed" \/ (input.kind[n] # "scalar" /\ room = 0)
  <2>1. Map!Outcome[room][n] = [ok |-> FALSE, tree |-> Map!NoTree]
    BY <1>5, <1>8
  <2> QED
    BY <1>7, <1>8, <2>1
<1>9. CASE input.kind[n] = "scalar"
  <2>1. Map!Outcome[room][n] =
          [ok |-> TRUE, tree |-> [kind |-> "scalar", node |-> n, elts |-> <<>>]]
    BY <1>5, <1>9
  <2>2. Map!Outcome[room][n].tree.kind = "scalar"
    BY <2>1
  <2> QED
    BY <1>3, <1>7, <1>9, <2>1, <2>2
<1>10. CASE input.kind[n] \in Container /\ room # 0
  <2>1. Map!Outcome[room][n] = Filled(n, Map!Outcome[room - 1])
    BY <1>5, <1>7, <1>10
  <2>2. Map!Outcome[room][n].tree # Map!NoTree
    BY <1>3, <1>4, <1>7, <1>10, <2>1
  <2> QED
    BY <1>7, <1>10, <2>1, <2>2
<1> QED
  BY <1>6, <1>8, <1>9, <1>10

(***************************************************************************)
(* A container of which the first j children are there, the last of them   *)
(* perhaps in part, and which stops there or has no more.                  *)
(***************************************************************************)
StopsAfter(n, inner, j) ==
  LET child(k) == inner[input.kids[n][k].node] IN
  /\ \A k \in 1 .. j : ~Nameless(n, k) /\ child(k).tree # Map!NoTree
  /\ \A k \in 1 .. j - 1 : child(k).ok
  /\ j < Len(input.kids[n]) =>
       (j > 0 /\ ~child(j).ok) \/ Nameless(n, j + 1) \/ child(j + 1).tree = Map!NoTree

LEMMA FilledUpTo ==
  ASSUME InjectionTypeOK, NEW room \in 1 .. MaxDepth, NEW n \in Node, NEW inner,
         inner = Map!Outcome[room - 1],
         NEW j \in 0 .. Len(input.kids[n]), StopsAfter(n, inner, j)
  PROVE  /\ Kept(n, inner) = 1 .. j
         /\ Filled(n, inner).ok <=> /\ j = Len(input.kids[n])
                                    /\ j > 0 => inner[input.kids[n][j].node].ok
<1> DEFINE len == Len(input.kids[n])
<1>1. /\ \A k \in 1 .. j : ~Nameless(n, k) /\ inner[input.kids[n][k].node].tree # Map!NoTree
      /\ \A k \in 1 .. j - 1 : inner[input.kids[n][k].node].ok
      /\ j < len => \/ j > 0 /\ ~inner[input.kids[n][j].node].ok
                    \/ Nameless(n, j + 1)
                    \/ inner[input.kids[n][j + 1].node].tree = Map!NoTree
  BY DEF StopsAfter
<1>2. len \in Nat /\ DOMAIN input.kids[n] = 1 .. len
      /\ \A k \in 1 .. len : input.kids[n][k].node \in Node
  <2>1. input.kids[n] \in Seq(Child)
    BY EntryInput
  <2>2. \A k \in DOMAIN input.kids[n] : input.kids[n][k] \in Child
    BY <2>1
  <2> QED
    BY <2>1, <2>2 DEF Child
<1>3. \A k \in 1 .. len : inner[input.kids[n][k].node].tree = Map!NoTree
                            => ~inner[input.kids[n][k].node].ok
  <2>1. PICK r \in 0 .. MaxDepth : r = room - 1
    BY DepthAssumption
  <2>2. \A m \in Node : Map!Outcome[r][m].tree = Map!NoTree => ~Map!Outcome[r][m].ok
    BY OutcomeOf
  <2>3. inner = Map!Outcome[r]
    BY <2>1
  <2> QED
    BY <1>2, <2>2, <2>3
<1>4. \A k \in 1 .. j - 1 : ~Fails(n, k, inner)
  BY <1>1, <1>2 DEF Fails
<1>5. \A k \in 1 .. j : k \in Kept(n, inner)
  <2> TAKE k \in 1 .. j
  <2>1. k \in 1 .. len /\ \A l \in 1 .. k - 1 : l \in 1 .. j - 1
    BY <1>2
  <2> QED
    BY <1>1, <1>2, <1>4, <2>1 DEF Kept
<1>6. j < len => \E l \in 1 .. len : l <= j + 1 /\ Fails(n, l, inner)
                                     /\ (l = j + 1 => l \notin Kept(n, inner))
  <2> SUFFICES ASSUME j < len PROVE \E l \in 1 .. len : l <= j + 1 /\ Fails(n, l, inner)
                                     /\ (l = j + 1 => l \notin Kept(n, inner))
    OBVIOUS
  <2>1. j + 1 \in 1 .. len
    BY <1>2
  <2>2. CASE j > 0 /\ ~inner[input.kids[n][j].node].ok
    <3>1. j \in 1 .. len /\ j <= j + 1 /\ j # j + 1
      BY <1>2, <2>2
    <3>2. Fails(n, j, inner)
      BY <2>2 DEF Fails
    <3> QED
      BY <3>1, <3>2
  <2>3. CASE Nameless(n, j + 1)
    BY <2>1, <2>3 DEF Fails, Kept
  <2>4. CASE inner[input.kids[n][j + 1].node].tree = Map!NoTree
    <3>1. Fails(n, j + 1, inner)
      BY <1>3, <2>1, <2>4 DEF Fails
    <3>2. j + 1 \notin Kept(n, inner)
      BY <2>4 DEF Kept
    <3> QED
      BY <2>1, <3>1, <3>2
  <2> QED
    BY <1>1, <2>2, <2>3, <2>4
<1>7. \A k \in Kept(n, inner) : k \in 1 .. j
  <2> SUFFICES ASSUME NEW k \in Kept(n, inner), k \notin 1 .. j PROVE FALSE
    OBVIOUS
  <2>1. k \in 1 .. len /\ \A l \in 1 .. k - 1 : ~Fails(n, l, inner)
    BY <1>2 DEF Kept
  <2>2. j < len /\ k >= j + 1
    BY <1>2, <2>1
  <2>3. PICK l \in 1 .. len : l <= j + 1 /\ Fails(n, l, inner)
                              /\ (l = j + 1 => l \notin Kept(n, inner))
    BY <1>6, <2>2
  <2>4. l # k
    BY <2>2, <2>3
  <2>5. l \in 1 .. k - 1
    BY <1>2, <2>1, <2>2, <2>3, <2>4
  <2> QED
    BY <2>1, <2>3, <2>5
<1>8. Kept(n, inner) = 1 .. j
  BY <1>5, <1>7
<1>9. Filled(n, inner).ok <=> \A k \in 1 .. len : ~Fails(n, k, inner)
  BY <1>2 DEF Filled
<1>10. CASE j < len
  <2>1. ~Filled(n, inner).ok
    BY <1>6, <1>9, <1>10
  <2> QED
    BY <1>8, <1>10, <2>1
<1>11. CASE j = len
  <2>1. \A k \in 1 .. len : k \in 1 .. j - 1 \/ k = j
    BY <1>2, <1>11
  <2>2. j > 0 => (Fails(n, j, inner) <=> ~inner[input.kids[n][j].node].ok)
    <3>1. j > 0 => ~Nameless(n, j)
      BY <1>1, <1>2, SMTT(30)
    <3> QED
      BY <3>1 DEF Fails
  <2>3. j > 0 => j \in 1 .. len
    BY <1>2, <1>11
  <2>4. Filled(n, inner).ok <=> (j > 0 => ~Fails(n, j, inner))
    BY <1>2, <1>4, <1>9, <2>1, <2>3
  <2> QED
    BY <1>8, <1>11, <2>2, <2>4
<1>12. j < len \/ j = len
  BY <1>2
<1> QED
  BY <1>10, <1>11, <1>12

-----------------------------------------------------------------------------
(***************************************************************************)
(* The arrays still being written: the home's, and one for every container *)
(* whose children are being applied.  No other array refers to them.       *)
(***************************************************************************)
Unfinished == {1} \cup {stack[f].array : f \in DOMAIN stack}

ClosedInv == \A c \in DOMAIN heap \ Unfinished : Inner(c) \cap Unfinished = {}

\* Element e is done, and is what it should be where room more levels fit.
Settled(e, room) ==
  /\ e.array \notin Unfinished
  /\ Map!Outcome[room][e.node] = [ok |-> TRUE, tree |-> Value(heap, e)]

\* Element e is the container whose children frame f applies.
HeldBy(e, f) == e.array = stack[f].array /\ e.node = stack[f].node

(***************************************************************************)
(* What the home has: the attributes before the one in progress, and that  *)
(* one last.                                                               *)
(***************************************************************************)
HomeInv ==
  LET elts == heap[1].elts IN
  /\ heap[1].kind = "record" /\ heap[1].depth = 0
  /\ \A k \in DOMAIN elts : k < Len(elts) \/ stack = <<>> => elts[k].array \notin Unfinished
  /\ stack # <<>> =>
       /\ Len(elts) > 0
       /\ HeldBy(elts[Len(elts)], 1)
       /\ elts[Len(elts)].name = input.entries[entry].name
       /\ elts[Len(elts)].node = input.entries[entry].node

(***************************************************************************)
(* What the array of frame f has: the children before next, each settled   *)
(* except the last below the top, whose children the next frame applies.   *)
(***************************************************************************)
FrameInv(f) ==
  LET array == heap[stack[f].array]
      node  == stack[f].node
      kids  == input.kids[node]
  IN  /\ array.kind = input.kind[node] /\ array.depth = f
      /\ Len(array.elts) = stack[f].next - 1 /\ Len(array.elts) <= Len(kids)
      /\ f < Len(stack) => Len(array.elts) > 0
      /\ \A k \in DOMAIN array.elts :
           /\ array.elts[k].node = kids[k].node
           /\ array.elts[k].name = IF input.kind[node] = "record" THEN kids[k].name ELSE NoName
           /\ ~Nameless(node, k)
           /\ IF f < Len(stack) /\ k = Len(array.elts)
              THEN HeldBy(array.elts[k], f + 1)
              ELSE Settled(array.elts[k], MaxDepth - f)

Progress == HomeInv /\ ClosedInv /\ \A f \in DOMAIN stack : FrameInv(f)

KeysDistinct ==
  \A n \in Node : input.kind[n] = "record" =>
    \A k, l \in DOMAIN input.kids[n] :
      input.kids[n][k].name # NoName /\ input.kids[n][k].name = input.kids[n][l].name => k = l

InjectionInv == InjectionTypeOK /\ DepthCeiling /\ NamesUnique /\ KeysDistinct /\ Progress

LEMMA LayeredHeap == InjectionTypeOK /\ DepthCeiling => Layered(heap)
  BY DEF InjectionTypeOK, DepthCeiling, Layered, Inner

(***************************************************************************)
(* The parts of a frame.                                                   *)
(***************************************************************************)
LEMMA FrameParts ==
  ASSUME InjectionTypeOK, DepthCeiling, NEW f \in DOMAIN stack, FrameInv(f)
  PROVE  /\ Len(stack) \in Nat /\ DOMAIN stack = 1 .. Len(stack) /\ f \in 1 .. Len(stack)
         /\ stack[f].array \in DOMAIN heap /\ stack[f].node \in Node /\ stack[f].next \in Nat \ {0}
         /\ heap[stack[f].array].elts \in Seq(Elem)
         /\ DOMAIN heap[stack[f].array].elts = 1 .. stack[f].next - 1
         /\ Len(heap[stack[f].array].elts) = stack[f].next - 1
         /\ input.kids[stack[f].node] \in Seq(Child)
         /\ input.kind[stack[f].node] \in Container
         /\ f \in 1 .. MaxDepth
<1>1. stack \in Seq(Frame) /\ Len(stack) \in Nat /\ DOMAIN stack = 1 .. Len(stack)
  BY DEF InjectionTypeOK
<1>2. stack[f] \in Frame /\ stack[f].array \in DOMAIN heap /\ stack[f].next # 0
  BY <1>1 DEF InjectionTypeOK
<1>3. stack[f].node \in Node /\ stack[f].next \in Nat \ {0}
  BY <1>2 DEF Frame
<1>4. heap[stack[f].array].elts \in Seq(Elem) /\ heap[stack[f].array].kind \in Container
  BY <1>2, ArrayParts
<1>5. Len(heap[stack[f].array].elts) = stack[f].next - 1
      /\ heap[stack[f].array].depth = f /\ heap[stack[f].array].kind = input.kind[stack[f].node]
  BY DEF FrameInv
<1>6. DOMAIN heap[stack[f].array].elts = 1 .. stack[f].next - 1
  BY <1>4, <1>5
<1>7. f <= MaxDepth /\ f \in 1 .. MaxDepth
  BY <1>1, <1>2, <1>5, DepthAssumption DEF DepthCeiling
<1> QED
  BY <1>1, <1>2, <1>3, <1>4, <1>5, <1>6, <1>7, EntryInput

(***************************************************************************)
(* Frame f has what its first children amount to, the last perhaps in      *)
(* part, and stops there or has no more.                                   *)
(***************************************************************************)
StoppedAt(f) ==
  LET elts  == heap[stack[f].array].elts
      kids  == input.kids[stack[f].node]
      inner == Map!Outcome[MaxDepth - f]
  IN  /\ \A k \in 1 .. Len(elts) : inner[elts[k].node].tree = Value(heap, elts[k])
      /\ \A k \in 1 .. Len(elts) - 1 : inner[elts[k].node].ok
      /\ Len(elts) < Len(kids) =>
           \/ Len(elts) > 0 /\ ~inner[elts[Len(elts)].node].ok
           \/ Nameless(stack[f].node, Len(elts) + 1)
           \/ inner[kids[Len(elts) + 1].node].tree = Map!NoTree

\* What Outcome says of the container of frame f.
Foretold(f) == Map!Outcome[(MaxDepth - f) + 1][stack[f].node]

(***************************************************************************)
(* Such a frame makes the value that Outcome says.                         *)
(***************************************************************************)
LEMMA FrameFilled ==
  ASSUME InjectionTypeOK, DepthCeiling, NEW f \in DOMAIN stack, FrameInv(f), StoppedAt(f)
  PROVE  /\ Foretold(f).tree = [kind |-> input.kind[stack[f].node], node |-> stack[f].node,
                                elts |-> Trees(heap)[stack[f].array]]
         /\ Foretold(f).ok <=>
              LET elts == heap[stack[f].array].elts
              IN  /\ Len(elts) = Len(input.kids[stack[f].node])
                  /\ Len(elts) > 0 => Map!Outcome[MaxDepth - f][elts[Len(elts)].node].ok
<1>1. PICK a, n : a = stack[f].array /\ n = stack[f].node
  OBVIOUS
<1>2. PICK elts, kids : elts = heap[a].elts /\ kids = input.kids[n]
  OBVIOUS
<1>3. PICK j, inner : j = Len(elts) /\ inner = Map!Outcome[MaxDepth - f]
  OBVIOUS
<1>4. /\ a \in DOMAIN heap /\ n \in Node /\ elts \in Seq(Elem) /\ kids \in Seq(Child)
      /\ j \in Nat /\ DOMAIN elts = 1 .. j /\ input.kind[n] \in Container /\ f \in 1 .. MaxDepth
  <2>1. /\ stack[f].array \in DOMAIN heap /\ stack[f].node \in Node
        /\ heap[stack[f].array].elts \in Seq(Elem)
        /\ input.kids[stack[f].node] \in Seq(Child)
        /\ input.kind[stack[f].node] \in Container
        /\ f \in 1 .. MaxDepth
    BY FrameParts
  <2>2. a \in DOMAIN heap /\ n \in Node /\ elts \in Seq(Elem) /\ kids \in Seq(Child)
        /\ input.kind[n] \in Container
    BY <1>1, <1>2, <2>1
  <2>3. j \in Nat /\ DOMAIN elts = 1 .. j
    BY <1>3, <2>2
  <2> QED
    BY <2>1, <2>2, <2>3
<1>5. /\ j <= Len(kids)
      /\ \A k \in DOMAIN elts :
          /\ elts[k].node = kids[k].node
          /\ elts[k].name = IF input.kind[n] = "record" THEN kids[k].name ELSE NoName
          /\ ~Nameless(n, k)
  BY <1>1, <1>2, <1>3 DEF FrameInv
<1>6. /\ \A k \in 1 .. j : inner[elts[k].node].tree = Value(heap, elts[k])
      /\ \A k \in 1 .. j - 1 : inner[elts[k].node].ok
      /\ j < Len(kids) =>
           \/ j > 0 /\ ~inner[elts[j].node].ok
           \/ Nameless(n, j + 1)
           \/ inner[kids[j + 1].node].tree = Map!NoTree
  BY <1>1, <1>2, <1>3 DEF StoppedAt
<1>7. j \in 0 .. Len(kids) /\ DOMAIN kids = 1 .. Len(kids) /\ Len(kids) \in Nat
  BY <1>4, <1>5
<1>8. \A k \in 1 .. j :
        /\ elts[k].node = kids[k].node
        /\ elts[k].name = IF input.kind[n] = "record" THEN kids[k].name ELSE NoName
        /\ ~Nameless(n, k)
  BY <1>4, <1>5
<1>9. \A k \in 1 .. j : elts[k].array = 0 \/ elts[k].array \in DOMAIN heap
  BY <1>2, <1>4 DEF DepthCeiling, Inner
<1>10. \A k \in 1 .. j : Value(heap, elts[k]) # Map!NoTree
  <2> TAKE k \in 1 .. j
  <2>1. Value(heap, elts[k]).kind \in {"scalar", "record", "set"}
    <3>1. \A b \in DOMAIN heap : heap[b].kind \in {"record", "set"}
      BY ArrayParts DEF Container
    <3> QED
      BY <1>9, <3>1 DEF Value
  <2>2. Map!NoTree.kind = "none"
    BY DEF Map!NoTree
  <2> QED
    BY <2>1, <2>2
<1>11. PICK room : room = (MaxDepth - f) + 1
  OBVIOUS
<1>12. room - 1 = MaxDepth - f /\ room \in 0 .. MaxDepth /\ room # 0 /\ room \in 1 .. MaxDepth
  BY <1>4, <1>11, DepthAssumption
<1>13. inner = Map!Outcome[room - 1]
  BY <1>3, <1>12
<1>14. \A k \in 1 .. j : ~Nameless(n, k) /\ inner[kids[k].node].tree # Map!NoTree
  BY <1>6, <1>8, <1>10
<1>15. \A k \in 1 .. j - 1 : inner[kids[k].node].ok
  <2> TAKE k \in 1 .. j - 1
  <2>1. k \in 1 .. j
    BY <1>4
  <2>2. inner[elts[k].node].ok
    BY <1>6
  <2>3. elts[k].node = kids[k].node
    BY <1>8, <2>1
  <2> QED
    BY <2>2, <2>3
<1>16. j > 0 => elts[j].node = kids[j].node
  BY <1>4, <1>8
<1>17. j < Len(kids) =>
         \/ j > 0 /\ ~inner[kids[j].node].ok
         \/ Nameless(n, j + 1)
         \/ inner[kids[j + 1].node].tree = Map!NoTree
  <2>1. CASE j > 0 /\ ~inner[elts[j].node].ok
    <3>1. ~inner[kids[j].node].ok
      BY <1>16, <2>1
    <3> QED
      BY <2>1, <3>1
  <2>2. CASE ~(j > 0 /\ ~inner[elts[j].node].ok)
    BY <1>6, <2>2
  <2> QED
    BY <2>1, <2>2
<1>18. /\ Kept(n, inner) = 1 .. j
       /\ Filled(n, inner).ok <=> j = Len(kids) /\ (j > 0 => inner[kids[j].node].ok)
  <2>1. j \in 0 .. Len(input.kids[n])
    BY <1>2, <1>7
  <2>2. StopsAfter(n, inner, j)
    BY <1>2, <1>14, <1>15, <1>17 DEF StopsAfter
  <2>3. /\ Kept(n, inner) = 1 .. j
        /\ Filled(n, inner).ok <=> /\ j = Len(input.kids[n])
                                   /\ j > 0 => inner[input.kids[n][j].node].ok
    BY <1>4, <1>12, <1>13, <2>1, <2>2, FilledUpTo
  <2> QED
    BY <1>2, <2>3
<1>19. Map!Outcome[room][n] = Filled(n, inner)
  BY <1>4, <1>12, <1>13, OutcomeOf
<1>20. Trees(heap)[a] = [k \in 1 .. j |-> [name |-> elts[k].name, tree |-> Value(heap, elts[k])]]
  BY <1>2, <1>4, LayeredHeap, TreesUnfold
<1>21. Filled(n, inner).tree = [kind |-> input.kind[n], node |-> n, elts |-> Trees(heap)[a]]
  <2>1. [k \in 1 .. j |-> [name |-> IF input.kind[n] = "record" THEN kids[k].name ELSE NoName,
                           tree |-> inner[kids[k].node].tree]]
          = [k \in 1 .. j |-> [name |-> elts[k].name, tree |-> Value(heap, elts[k])]]
    <3>1. \A k \in 1 .. j : /\ elts[k].name = IF input.kind[n] = "record" THEN kids[k].name ELSE NoName
                            /\ inner[kids[k].node].tree = Value(heap, elts[k])
      BY <1>6, <1>8
    <3> QED
      BY <3>1
  <2> QED
    BY <1>2, <1>18, <1>20, <2>1 DEF Filled
<1> QED
  BY <1>1, <1>2, <1>3, <1>11, <1>16, <1>18, <1>19, <1>21 DEF Foretold

(***************************************************************************)
(* The elements of a frame, one by one.                                    *)
(***************************************************************************)
LEMMA FrameElems ==
  ASSUME InjectionTypeOK, DepthCeiling, NEW f \in DOMAIN stack, FrameInv(f),
         NEW k \in 1 .. Len(heap[stack[f].array].elts)
  PROVE  LET e    == heap[stack[f].array].elts[k]
             node == stack[f].node
             kid  == input.kids[node][k]
         IN  /\ k \in DOMAIN heap[stack[f].array].elts
             /\ e \in Elem /\ e.array # 0 => e.array \in DOMAIN heap /\ e.array > stack[f].array
             /\ k \in 1 .. Len(input.kids[node]) /\ kid \in Child
             /\ e.node = kid.node /\ ~Nameless(node, k)
             /\ e.name = IF input.kind[node] = "record" THEN kid.name ELSE NoName
             /\ f < Len(stack) /\ k = Len(heap[stack[f].array].elts)
                  => HeldBy(e, f + 1)
             /\ ~(f < Len(stack) /\ k = Len(heap[stack[f].array].elts))
                  => Settled(e, MaxDepth - f)
<1>1. PICK a, n : a = stack[f].array /\ n = stack[f].node
  OBVIOUS
<1>2. PICK elts, kids : elts = heap[a].elts /\ kids = input.kids[n]
  OBVIOUS
<1>3. /\ a \in DOMAIN heap /\ n \in Node /\ elts \in Seq(Elem) /\ kids \in Seq(Child)
  <2>1. /\ stack[f].array \in DOMAIN heap /\ stack[f].node \in Node
        /\ heap[stack[f].array].elts \in Seq(Elem)
        /\ input.kids[stack[f].node] \in Seq(Child)
    BY FrameParts
  <2> QED
    BY <1>1, <1>2, <2>1
<1>4. k \in 1 .. Len(elts) /\ DOMAIN elts = 1 .. Len(elts) /\ Len(elts) \in Nat
  BY <1>1, <1>2, <1>3
<1>5. /\ Len(elts) <= Len(kids)
      /\ elts[k].node = kids[k].node
      /\ elts[k].name = IF input.kind[n] = "record" THEN kids[k].name ELSE NoName
      /\ ~Nameless(n, k)
      /\ IF f < Len(stack) /\ k = Len(elts)
         THEN HeldBy(elts[k], f + 1) ELSE Settled(elts[k], MaxDepth - f)
  BY <1>1, <1>2, <1>4 DEF FrameInv
<1>6. elts[k] \in Elem
  BY <1>3, <1>4
<1>7. k \in 1 .. Len(kids) /\ kids[k] \in Child
  BY <1>3, <1>4, <1>5
<1>8. elts[k].array # 0 => elts[k].array \in DOMAIN heap /\ elts[k].array > a
  BY <1>2, <1>3, <1>4 DEF DepthCeiling, Inner
<1> QED
  BY <1>1, <1>2, <1>4, <1>5, <1>6, <1>7, <1>8

LEMMA SettledOutcome ==
  ASSUME NEW e, NEW room, Settled(e, room)
  PROVE  Map!Outcome[room][e.node].ok /\ Map!Outcome[room][e.node].tree = Value(heap, e)
BY DEF Settled

(***************************************************************************)
(* A container whose children are all done is what Outcome says.           *)
(***************************************************************************)
LEMMA TopDone ==
  ASSUME InjectionTypeOK, DepthCeiling, Progress, stack # <<>>,
         Top.next > Len(input.kids[Top.node])
  PROVE  /\ Foretold(Len(stack)).ok
         /\ Foretold(Len(stack)).tree = [kind |-> input.kind[Top.node], node |-> Top.node,
                                         elts |-> Trees(heap)[Top.array]]
<1>1. PICK f \in DOMAIN stack : f = Len(stack)
  BY DEF InjectionTypeOK
<1>2. FrameInv(f) /\ Top = stack[f]
  BY <1>1 DEF Progress, Top
<1>3. PICK elts, kids : elts = heap[stack[f].array].elts /\ kids = input.kids[stack[f].node]
  OBVIOUS
<1>4. /\ Len(elts) = stack[f].next - 1 /\ Len(elts) <= Len(kids) /\ Len(stack) \in Nat
      /\ stack[f].next \in Nat
  <2>1. Len(heap[stack[f].array].elts) <= Len(input.kids[stack[f].node])
    BY <1>2 DEF FrameInv
  <2> QED
    BY <1>2, <1>3, <2>1, FrameParts
<1>5. kids \in Seq(Child) /\ Len(kids) \in Nat
  BY <1>2, <1>3, FrameParts
<1>6. Len(elts) = Len(kids)
  BY <1>2, <1>3, <1>4, <1>5
<1>7. ASSUME NEW k \in 1 .. Len(elts)
      PROVE  /\ Map!Outcome[MaxDepth - f][elts[k].node].ok
             /\ Map!Outcome[MaxDepth - f][elts[k].node].tree = Value(heap, elts[k])
  <2>1. Settled(elts[k], MaxDepth - f)
    <3>1. ~(f < Len(stack))
      BY <1>1, <1>4
    <3> QED
      BY <1>2, <1>3, <3>1, FrameElems
  <2> QED
    BY <2>1, SettledOutcome
<1>8. StoppedAt(f)
  <2>1. \A k \in 1 .. Len(elts) - 1 : k \in 1 .. Len(elts)
    BY <1>4, <1>5, <1>6
  <2>2. ~(Len(elts) < Len(kids))
    BY <1>5, <1>6
  <2> QED
    BY <1>3, <1>7, <2>1, <2>2 DEF StoppedAt
<1>9. Len(elts) > 0 => Map!Outcome[MaxDepth - f][elts[Len(elts)].node].ok
  BY <1>5, <1>6, <1>7
<1>10. /\ Foretold(f).tree = [kind |-> input.kind[stack[f].node], node |-> stack[f].node,
                              elts |-> Trees(heap)[stack[f].array]]
       /\ Foretold(f).ok <=> /\ Len(elts) = Len(kids)
                             /\ Len(elts) > 0 => Map!Outcome[MaxDepth - f][elts[Len(elts)].node].ok
  BY <1>2, <1>3, <1>8, FrameFilled
<1> QED
  BY <1>1, <1>2, <1>6, <1>9, <1>10

(***************************************************************************)
(* A child that is refused has nothing to leave behind.                    *)
(***************************************************************************)
LEMMA RefusedChild ==
  ASSUME InjectionTypeOK, DepthCeiling, KeysDistinct, Progress, stack # <<>>,
         Top.next <= Len(input.kids[Top.node]),
         ~Accepts(Top.array, input.kids[Top.node][Top.next])
  PROVE  \/ Nameless(Top.node, Top.next)
         \/ Map!Outcome[MaxDepth - Len(stack)][input.kids[Top.node][Top.next].node].tree = Map!NoTree
<1>1. PICK f \in DOMAIN stack : f = Len(stack)
  BY DEF InjectionTypeOK
<1>2. FrameInv(f) /\ Top = stack[f]
  BY <1>1 DEF Progress, Top
<1>3. PICK a, n, x : a = stack[f].array /\ n = stack[f].node /\ x = stack[f].next
  OBVIOUS
<1>4. PICK elts, kids : elts = heap[a].elts /\ kids = input.kids[n]
  OBVIOUS
<1>5. PICK e : e = kids[x]
  OBVIOUS
<1>6. /\ a \in DOMAIN heap /\ n \in Node /\ x \in Nat \ {0} /\ kids \in Seq(Child)
      /\ f \in 1 .. MaxDepth /\ x \in 1 .. Len(kids) /\ DOMAIN elts = 1 .. x - 1
      /\ Len(elts) = x - 1
  <2>1. /\ stack[f].array \in DOMAIN heap /\ stack[f].node \in Node /\ stack[f].next \in Nat \ {0}
        /\ DOMAIN heap[stack[f].array].elts = 1 .. stack[f].next - 1
        /\ Len(heap[stack[f].array].elts) = stack[f].next - 1
        /\ input.kids[stack[f].node] \in Seq(Child)
        /\ f \in 1 .. MaxDepth
    BY <1>2, FrameParts
  <2>2. x <= Len(kids)
    BY <1>2, <1>3, <1>4
  <2> QED
    BY <1>3, <1>4, <2>1, <2>2
<1>7. e \in Child /\ e.node \in Node
  <2>1. e \in Child
    BY <1>5, <1>6
  <2> QED
    BY <2>1 DEF Child
<1>8. heap[a].kind = input.kind[n] /\ heap[a].depth = f
  BY <1>2, <1>3 DEF FrameInv
<1>9. ~Accepts(a, e)
  BY <1>2, <1>3, <1>4, <1>5
<1>10. \/ input.kind[e.node] = "malformed"
       \/ heap[a].kind = "record" /\ (e.name = NoName \/ HasName(a, e.name))
       \/ IsContainer(e) /\ ~(heap[a].depth < MaxDepth)
  BY <1>9 DEF Accepts
<1>11. PICK room : room = MaxDepth - f
  OBVIOUS
<1>12. room \in 0 .. MaxDepth
  BY <1>6, <1>11, DepthAssumption
<1>13. CASE input.kind[e.node] = "malformed"
  <2>1. Map!Outcome[room][e.node] = [ok |-> FALSE, tree |-> Map!NoTree]
    BY <1>7, <1>12, <1>13, OutcomeOf
  <2>2. Map!Outcome[room][e.node].tree = Map!NoTree
    BY <2>1
  <2> QED
    BY <1>1, <1>2, <1>3, <1>4, <1>5, <1>11, <2>2
<1>14. CASE heap[a].kind = "record" /\ (e.name = NoName \/ HasName(a, e.name))
  <2>1. CASE e.name = NoName
    BY <1>2, <1>3, <1>4, <1>5, <1>8, <1>14, <2>1 DEF Nameless
  <2>2. CASE e.name # NoName
    <3>1. PICK k \in DOMAIN elts : elts[k].name = e.name
      BY <1>4, <1>14, <2>2 DEF HasName
    <3>2. k \in 1 .. Len(elts) /\ k \in 1 .. Len(kids) /\ k # x
      BY <1>6, <3>1
    <3>3. elts[k].name = kids[k].name
      <4>1. heap[stack[f].array].elts[k].name = input.kids[stack[f].node][k].name
        BY <1>2, <1>3, <1>4, <1>8, <1>14, <3>2, FrameElems
      <4> QED
        BY <1>3, <1>4, <4>1
    <3>4. k \in DOMAIN input.kids[n] /\ x \in DOMAIN input.kids[n]
      BY <1>4, <1>6, <3>2
    <3>5. input.kids[n][k].name # NoName /\ input.kids[n][k].name = input.kids[n][x].name
      BY <1>4, <1>5, <2>2, <3>1, <3>3
    <3> QED
      BY <1>6, <1>8, <1>14, <3>2, <3>4, <3>5 DEF KeysDistinct
  <2> QED
    BY <2>1, <2>2
<1>15. CASE IsContainer(e) /\ ~(heap[a].depth < MaxDepth)
  <2>1. room = 0
    BY <1>6, <1>8, <1>11, <1>15, DepthAssumption
  <2>2. input.kind[e.node] # "scalar"
    BY <1>15 DEF IsContainer, Container
  <2>3. Map!Outcome[room][e.node] = [ok |-> FALSE, tree |-> Map!NoTree]
    BY <1>7, <1>12, <2>1, <2>2, OutcomeOf
  <2>4. Map!Outcome[room][e.node].tree = Map!NoTree
    BY <2>3
  <2> QED
    BY <1>1, <1>2, <1>3, <1>4, <1>5, <1>11, <2>4
<1> QED
  BY <1>10, <1>13, <1>14, <1>15

(***************************************************************************)
(* When a child is refused, every container around it is left as Outcome   *)
(* says: with the children so far, and not ok.                             *)
(***************************************************************************)
LEMMA AllFail ==
  ASSUME InjectionTypeOK, DepthCeiling, KeysDistinct, Progress, stack # <<>>,
         Top.next <= Len(input.kids[Top.node]),
         ~Accepts(Top.array, input.kids[Top.node][Top.next])
  PROVE  \A f \in DOMAIN stack :
           /\ ~Foretold(f).ok
           /\ Foretold(f).tree = [kind |-> input.kind[stack[f].node], node |-> stack[f].node,
                                  elts |-> Trees(heap)[stack[f].array]]
<1> DEFINE m == Len(stack)
           Good(f) == /\ ~Foretold(f).ok
                      /\ Foretold(f).tree = [kind |-> input.kind[stack[f].node],
                                             node |-> stack[f].node,
                                             elts |-> Trees(heap)[stack[f].array]]
           Bad == {i \in 0 .. m - 1 : ~Good(m - i)}
<1>1. m \in Nat \ {0} /\ DOMAIN stack = 1 .. m
  BY DEF InjectionTypeOK
<1>2. Top = stack[m]
  BY DEF Top
<1>3. \/ Nameless(stack[m].node, stack[m].next)
      \/ Map!Outcome[MaxDepth - m][input.kids[stack[m].node][stack[m].next].node].tree = Map!NoTree
  BY <1>2, RefusedChild
<1>4. stack[m].next <= Len(input.kids[stack[m].node])
  BY <1>2
<1> HIDE DEF m
<1>5. SUFFICES ASSUME Bad # {} PROVE FALSE
  <2> HIDE DEF Good
  <2> SUFFICES ASSUME NEW f \in 1 .. m PROVE Good(f)
    BY <1>1 DEF Good
  <2>1. m - f \in 0 .. m - 1 /\ m - (m - f) = f
    BY <1>1
  <2> QED
    BY <2>1
<1>6. PICK i \in Bad : \A y \in Bad : i <= y
  <2>1. Bad \subseteq Nat
    BY <1>1
  <2> HIDE DEF Bad
  <2> QED
    BY <1>5, <2>1, LeastNumber
<1>7. PICK f \in DOMAIN stack : f = m - i
  BY <1>1
<1>8. ~Good(f)
  BY <1>6, <1>7
<1>9. f < m => Good(f + 1)
  <2> HIDE DEF Good
  <2> SUFFICES ASSUME f < m PROVE Good(f + 1)
    OBVIOUS
  <2>1. PICK y : y = i - 1
    OBVIOUS
  <2>2. y \in 0 .. m - 1 /\ ~(i <= y) /\ m - y = f + 1
    BY <1>1, <1>6, <1>7, <2>1
  <2> QED
    BY <1>6, <2>2
<1>10. FrameInv(f)
  BY DEF Progress
<1>11. PICK a, n, x : a = stack[f].array /\ n = stack[f].node /\ x = stack[f].next
  OBVIOUS
<1>12. PICK elts, kids : elts = heap[a].elts /\ kids = input.kids[n]
  OBVIOUS
<1>13. /\ a \in DOMAIN heap /\ n \in Node /\ x \in Nat \ {0} /\ kids \in Seq(Child)
       /\ f \in 1 .. MaxDepth /\ DOMAIN elts = 1 .. x - 1 /\ Len(elts) = x - 1 /\ Len(elts) \in Nat
  <2>1. /\ stack[f].array \in DOMAIN heap /\ stack[f].node \in Node /\ stack[f].next \in Nat \ {0}
        /\ DOMAIN heap[stack[f].array].elts = 1 .. stack[f].next - 1
        /\ Len(heap[stack[f].array].elts) = stack[f].next - 1
        /\ input.kids[stack[f].node] \in Seq(Child)
        /\ f \in 1 .. MaxDepth
    BY <1>10, FrameParts
  <2> QED
    BY <1>11, <1>12, <2>1
<1>14. ASSUME NEW k \in 1 .. Len(elts), ~(f < m /\ k = Len(elts))
       PROVE  /\ Map!Outcome[MaxDepth - f][elts[k].node].ok
              /\ Map!Outcome[MaxDepth - f][elts[k].node].tree = Value(heap, elts[k])
  <2>1. Settled(elts[k], MaxDepth - f)
    BY <1>10, <1>11, <1>12, <1>14, FrameElems DEF m
  <2> QED
    BY <2>1, SettledOutcome
<1>15. CASE f = m
  <2>1. \A k \in 1 .. Len(elts) : ~(f < m /\ k = Len(elts))
    BY <1>1, <1>15
  <2>2. \A k \in 1 .. Len(elts) - 1 : k \in 1 .. Len(elts)
    BY <1>13
  <2>3. \/ Nameless(n, Len(elts) + 1)
        \/ Map!Outcome[MaxDepth - f][kids[Len(elts) + 1].node].tree = Map!NoTree
    <3>1. Len(elts) + 1 = x
      BY <1>13
    <3> QED
      BY <1>3, <1>11, <1>12, <1>15, <3>1
  <2>4. StoppedAt(f)
    BY <1>11, <1>12, <1>14, <2>1, <2>2, <2>3 DEF StoppedAt
  <2>5. Len(elts) # Len(kids)
    BY <1>4, <1>11, <1>12, <1>13, <1>15
  <2>6. Good(f)
    BY <1>10, <1>11, <1>12, <2>4, <2>5, FrameFilled
  <2> QED
    BY <1>8, <2>6
<1>16. CASE f < m
  <2>1. PICK j \in 1 .. Len(elts) : j = Len(elts)
    <3>1. Len(heap[stack[f].array].elts) > 0
      BY <1>10, <1>16 DEF FrameInv, m
    <3> QED
      BY <1>11, <1>12, <1>13, <3>1
  <2>2. HeldBy(elts[j], f + 1) /\ elts[j].array # 0
    <3>1. HeldBy(heap[stack[f].array].elts[j], f + 1)
      BY <1>10, <1>11, <1>12, <1>16, <2>1, FrameElems DEF m
    <3>2. stack[f + 1].array \in DOMAIN heap
      <4>1. f + 1 \in DOMAIN stack
        BY <1>1, <1>13, <1>16
      <4> QED
        BY <4>1 DEF InjectionTypeOK
    <3>3. 0 \notin DOMAIN heap
      BY ArrayParts
    <3> QED
      BY <1>11, <1>12, <3>1, <3>2, <3>3 DEF HeldBy
  <2>3. f + 1 \in DOMAIN stack
    BY <1>1, <1>13, <1>16
  <2>4. heap[stack[f + 1].array].kind = input.kind[stack[f + 1].node]
    BY <2>3 DEF Progress, FrameInv
  <2>5. (MaxDepth - (f + 1)) + 1 = MaxDepth - f
    BY <1>13, DepthAssumption
  <2>6. /\ ~Map!Outcome[MaxDepth - f][elts[j].node].ok
        /\ Map!Outcome[MaxDepth - f][elts[j].node].tree = Value(heap, elts[j])
    <3>1. Foretold(f + 1) = Map!Outcome[MaxDepth - f][elts[j].node]
      BY <2>2, <2>5 DEF Foretold, HeldBy
    <3>2. Value(heap, elts[j]) = [kind |-> input.kind[stack[f + 1].node],
                                  node |-> stack[f + 1].node,
                                  elts |-> Trees(heap)[stack[f + 1].array]]
      BY <2>2, <2>4 DEF Value, HeldBy
    <3> QED
      BY <1>9, <1>16, <3>1, <3>2
  <2>7. \A k \in 1 .. Len(elts) : Map!Outcome[MaxDepth - f][elts[k].node].tree = Value(heap, elts[k])
    BY <1>14, <2>1, <2>6
  <2>8. \A k \in 1 .. Len(elts) - 1 : Map!Outcome[MaxDepth - f][elts[k].node].ok
    <3> TAKE k \in 1 .. Len(elts) - 1
    <3>1. k \in 1 .. Len(elts) /\ k # Len(elts)
      BY <1>13
    <3> QED
      BY <1>14, <3>1
  <2>9. Len(elts) > 0 /\ ~Map!Outcome[MaxDepth - f][elts[Len(elts)].node].ok
    BY <2>1, <2>6
  <2>10. StoppedAt(f)
    BY <1>11, <1>12, <2>7, <2>8, <2>9 DEF StoppedAt
  <2>11. Good(f)
    BY <1>10, <1>11, <1>12, <2>9, <2>10, FrameFilled
  <2> QED
    BY <1>8, <2>11
<1>17. f = m \/ f < m
  BY <1>1
<1> QED
  BY <1>15, <1>16, <1>17

-----------------------------------------------------------------------------
(***************************************************************************)
(* Progress is kept.  The arrays being written differ in their depth.      *)
(***************************************************************************)
LEMMA UnfinishedParts ==
  ASSUME InjectionTypeOK, Progress
  PROVE  /\ Unfinished \subseteq DOMAIN heap /\ 0 \notin Unfinished
         /\ \A f \in DOMAIN stack : stack[f].array # 1
         /\ \A f, g \in DOMAIN stack : stack[f].array = stack[g].array => f = g
<1>1. 1 \in DOMAIN heap /\ 0 \notin DOMAIN heap
  <2>1. DOMAIN heap = 1 .. Len(heap)
    BY ArrayParts
  <2> QED
    BY <2>1 DEF InjectionTypeOK
<1>2. \A f \in DOMAIN stack : stack[f].array \in DOMAIN heap
  BY DEF InjectionTypeOK
<1>3. \A f \in DOMAIN stack : heap[stack[f].array].depth = f
  BY DEF Progress, FrameInv
<1>4. heap[1].depth = 0
  BY DEF Progress, HomeInv
<1>5. \A f \in DOMAIN stack : f # 0
  BY DEF InjectionTypeOK
<1> QED
  BY <1>1, <1>2, <1>3, <1>4, <1>5 DEF Unfinished

(***************************************************************************)
(* What is written leaves the trees of finished arrays alone.              *)
(***************************************************************************)
LEMMA WriteKeepsSettled ==
  ASSUME InjectionInv, InjectionTypeOK', DepthCeiling',
         NEW a \in Unfinished, NEW e \in Child, Accepts(a, e), Write(a, e), UNCHANGED input,
         Unfinished' = Unfinished \cup (IF IsContainer(e) THEN {Len(heap) + 1} ELSE {})
  PROVE  /\ \A x : x.array = 0 \/ x.array \in DOMAIN heap \ Unfinished
                     => x.array \notin Unfinished' /\ Value(heap', x) = Value(heap, x)
         /\ \A room : \A x \in Elem : (x.array # 0 => x.array \in DOMAIN heap)
                                    => (Settled(x, room) => Settled(x, room)')
         /\ ClosedInv'
<1> DEFINE Old == DOMAIN heap \ Unfinished
<1>1. a \in DOMAIN heap /\ Unfinished \subseteq DOMAIN heap /\ 0 \notin Unfinished
  BY UnfinishedParts DEF InjectionInv
<1>2. Len(heap) \in Nat /\ DOMAIN heap = 1 .. Len(heap)
  BY ArrayParts DEF InjectionInv
<1>3. /\ \A b \in DOMAIN heap : b \in DOMAIN heap'
      /\ \A b \in DOMAIN heap \ {a} : heap'[b] = heap[b]
      /\ DOMAIN heap' = 1 .. IF IsContainer(e) THEN Len(heap) + 1 ELSE Len(heap)
  BY <1>1, WriteEffect DEF InjectionInv
<1>4. Layered(heap)
  BY LayeredHeap DEF InjectionInv
<1>5. Layered(heap')
  BY DEF InjectionTypeOK, DepthCeiling, Layered, Inner
<1>6. \A c \in Old : c \in DOMAIN heap' /\ heap'[c] = heap[c]
  BY <1>3
<1>7. \A c \in Old : \A k \in DOMAIN heap[c].elts :
        heap[c].elts[k].array = 0 \/ heap[c].elts[k].array \in Old
  BY <1>4 DEF InjectionInv, Progress, ClosedInv, Inner, Layered
<1>8. \A x : x.array = 0 \/ x.array \in Old => Value(heap', x) = Value(heap, x)
  <2>1. PICK C, h, h2 : C = Old /\ h = heap /\ h2 = heap'
    OBVIOUS
  <2>2. /\ Layered(h) /\ Layered(h2) /\ C \subseteq DOMAIN h /\ C \subseteq DOMAIN h2
        /\ \A c \in C : h2[c].elts = h[c].elts
        /\ \A c \in C : h2[c].kind = h[c].kind
        /\ \A c \in C : \A k \in DOMAIN h[c].elts :
             h[c].elts[k].array = 0 \/ h[c].elts[k].array \in C
    BY <1>4, <1>5, <1>6, <1>7, <2>1
  <2>3. \A x : x.array = 0 \/ x.array \in C => Value(h2, x) = Value(h, x)
    BY <2>2, TreesAgree
  <2> QED
    BY <2>1, <2>3
<1>9. 0 \notin Unfinished' /\ \A b \in Old : b \notin Unfinished'
  BY <1>1, <1>2
<1>10. \A x : x.array = 0 \/ x.array \in Old
                => x.array \notin Unfinished' /\ Value(heap', x) = Value(heap, x)
  BY <1>8, <1>9
<1>11. ASSUME NEW x \in Elem, NEW room, x.array # 0 => x.array \in DOMAIN heap,
              Settled(x, room)
       PROVE  Settled(x, room)'
  <2>1. x.array = 0 \/ x.array \in Old
    BY <1>11 DEF Settled
  <2>2. x.array \notin Unfinished' /\ Value(heap', x) = Value(heap, x)
    BY <1>10, <2>1
  <2>3. Map!Outcome[room][x.node] = [ok |-> TRUE, tree |-> Value(heap, x)]
    BY <1>11 DEF Settled
  <2>4. Map!Outcome' = Map!Outcome
    BY DEF Map!Outcome, Map!Values
  <2> QED
    BY <2>2, <2>3, <2>4 DEF Settled
<1>12. ClosedInv'
  <2>1. DOMAIN heap' \ Unfinished' \subseteq Old
    BY <1>2, <1>3
  <2>2. \A c \in Old : Inner(c)' = Inner(c) /\ Inner(c) \cap Unfinished = {}
                       /\ Inner(c) \subseteq DOMAIN heap
    BY <1>6, <1>7 DEF InjectionInv, Progress, ClosedInv, Inner
  <2>3. Len(heap) + 1 \notin DOMAIN heap
    BY <1>2
  <2> QED
    BY <2>1, <2>2, <2>3 DEF ClosedInv
<1> QED
  BY <1>10, <1>11, <1>12

(***************************************************************************)
(* The stack after a child has been written.                               *)
(***************************************************************************)
LEMMA ChildStack ==
  ASSUME InjectionTypeOK, ApplyChild
  PROVE  LET e == input.kids[Top.node][Top.next]
             m == Len(stack)
         IN  /\ m \in DOMAIN stack /\ m \in Nat \ {0} /\ DOMAIN stack = 1 .. m /\ Top = stack[m]
             /\ DOMAIN stack' = 1 .. (IF IsContainer(e) THEN m + 1 ELSE m)
             /\ Len(stack') = IF IsContainer(e) THEN m + 1 ELSE m
             /\ \A f \in 1 .. m - 1 : stack'[f] = stack[f]
             /\ \A f \in 1 .. m : stack'[f].array = stack[f].array /\ stack'[f].node = stack[f].node
             /\ stack'[m].next = stack[m].next + 1
             /\ IsContainer(e) => stack'[m + 1] = Open(e)
<1> DEFINE m == Len(stack)
           on == [Top EXCEPT !.next = @ + 1]
<1>1. PICK e : e = input.kids[Top.node][Top.next]
  OBVIOUS
<1>2. /\ stack \in Seq(Frame) /\ m \in Nat \ {0} /\ DOMAIN stack = 1 .. m /\ Top = stack[m]
      /\ m \in DOMAIN stack
  BY DEF InjectionTypeOK, ApplyChild, Top
<1>3. on.array = stack[m].array /\ on.node = stack[m].node /\ on.next = stack[m].next + 1
      /\ on \in Frame
  BY <1>2, TopFrame DEF ApplyChild, Frame
<1>4. /\ Callers \in Seq(Frame) /\ Len(Callers) = m - 1
      /\ \A f \in 1 .. m - 1 : Callers[f] = stack[f]
  BY <1>2 DEF Callers
<1>5. stack' = IF IsContainer(e) THEN Append(Append(Callers, on), Open(e)) ELSE Append(Callers, on)
  BY <1>1 DEF ApplyChild
<1> HIDE DEF m, on
<1>6. PICK resumed : resumed = Append(Callers, on)
  OBVIOUS
<1>7. /\ resumed \in Seq(Frame) /\ Len(resumed) = m /\ DOMAIN resumed = 1 .. m
      /\ \A f \in 1 .. m - 1 : resumed[f] = stack[f]
      /\ resumed[m] = on
  BY <1>2, <1>3, <1>4, <1>6
<1>8. \A f \in 1 .. m : resumed[f].array = stack[f].array /\ resumed[f].node = stack[f].node
  <2> TAKE f \in 1 .. m
  <2>1. f = m \/ f \in 1 .. m - 1
    BY <1>2
  <2> QED
    BY <1>3, <1>7, <2>1
<1>9. CASE IsContainer(e)
  <2>1. PICK o : o = Open(e)
    OBVIOUS
  <2>2. stack' = Append(resumed, o)
    BY <1>5, <1>6, <1>9, <2>1
  <2>3. /\ DOMAIN stack' = 1 .. m + 1 /\ Len(stack') = m + 1
        /\ \A f \in 1 .. m : stack'[f] = resumed[f]
        /\ stack'[m + 1] = o
    BY <1>2, <1>7, <2>2
  <2>4. m \in 1 .. m /\ \A f \in 1 .. m - 1 : f \in 1 .. m
    BY <1>2
  <2> QED
    BY <1>1, <1>2, <1>3, <1>7, <1>8, <1>9, <2>1, <2>3, <2>4 DEF m
<1>10. CASE ~IsContainer(e)
  <2>1. stack' = resumed
    BY <1>5, <1>6, <1>10
  <2> QED
    BY <1>1, <1>2, <1>3, <1>7, <1>8, <1>10, <2>1 DEF m
<1> QED
  BY <1>9, <1>10

(***************************************************************************)
(* A frame below the top is as it was.                                     *)
(***************************************************************************)
LEMMA CallerKept ==
  ASSUME InjectionInv, InjectionTypeOK', DepthCeiling',
         NEW a \in Unfinished, NEW e \in Child, Accepts(a, e), Write(a, e), UNCHANGED input,
         Unfinished' = Unfinished \cup (IF IsContainer(e) THEN {Len(heap) + 1} ELSE {}),
         NEW f \in DOMAIN stack, f < Len(stack), stack[f].array # a,
         f < Len(stack'), stack'[f] = stack[f],
         stack'[f + 1].array = stack[f + 1].array, stack'[f + 1].node = stack[f + 1].node
  PROVE  FrameInv(f)'
<1>1. InjectionTypeOK /\ DepthCeiling /\ FrameInv(f)
  BY DEF InjectionInv, Progress
<1>2. PICK b, n : b = stack[f].array /\ n = stack[f].node
  OBVIOUS
<1>3. PICK elts : elts = heap[b].elts
  OBVIOUS
<1>4. b \in DOMAIN heap \ {a} /\ a \in DOMAIN heap
  BY <1>1, <1>2, UnfinishedParts DEF InjectionInv, InjectionTypeOK
<1>5. heap'[b] = heap[b]
  BY <1>1, <1>4, WriteEffect
<1>6. /\ heap[b].kind = input.kind[n] /\ heap[b].depth = f
      /\ Len(elts) = stack[f].next - 1 /\ Len(elts) <= Len(input.kids[n]) /\ Len(elts) > 0
      /\ \A k \in DOMAIN elts :
           /\ elts[k].node = input.kids[n][k].node
           /\ elts[k].name = IF input.kind[n] = "record" THEN input.kids[n][k].name ELSE NoName
           /\ ~Nameless(n, k)
           /\ IF k = Len(elts) THEN HeldBy(elts[k], f + 1) ELSE Settled(elts[k], MaxDepth - f)
  BY <1>1, <1>2, <1>3 DEF FrameInv
<1>7. \A x : HeldBy(x, f + 1) => HeldBy(x, f + 1)'
  BY DEF HeldBy
<1>8. \A k \in DOMAIN elts : Settled(elts[k], MaxDepth - f) => Settled(elts[k], MaxDepth - f)'
  <2>1. \A k \in DOMAIN elts : elts[k] \in Elem /\ (elts[k].array # 0 => elts[k].array \in DOMAIN heap)
    <3>1. elts \in Seq(Elem)
      BY <1>1, <1>3, <1>4, ArrayParts
    <3>2. \A k \in DOMAIN elts : elts[k].array # 0 => elts[k].array \in DOMAIN heap
      BY <1>1, <1>3, <1>4 DEF DepthCeiling, Inner
    <3> QED
      BY <3>1, <3>2
  <2>2. \A room : \A x \in Elem : (x.array # 0 => x.array \in DOMAIN heap)
                                => (Settled(x, room) => Settled(x, room)')
    BY WriteKeepsSettled
  <2> QED
    BY <2>1, <2>2
<1>9. \A k : ~Nameless(n, k) => ~Nameless(n, k)'
  BY DEF Nameless
<1> QED
  BY <1>2, <1>3, <1>5, <1>6, <1>7, <1>8, <1>9 DEF FrameInv

LEMMA ApplyChildKeeps ==
  ASSUME InjectionInv, InjectionTypeOK', DepthCeiling', ApplyChild
  PROVE  Progress'
<1>1. InjectionTypeOK /\ DepthCeiling /\ Progress /\ stack # <<>>
      /\ Top.next <= Len(input.kids[Top.node])
  BY DEF InjectionInv, ApplyChild
<1>2. PICK e, a, m : e = input.kids[Top.node][Top.next] /\ a = Top.array /\ m = Len(stack)
  OBVIOUS
<1>3. /\ m \in DOMAIN stack /\ m \in Nat \ {0} /\ DOMAIN stack = 1 .. m /\ Top = stack[m]
      /\ DOMAIN stack' = 1 .. (IF IsContainer(e) THEN m + 1 ELSE m)
      /\ Len(stack') = IF IsContainer(e) THEN m + 1 ELSE m
      /\ \A f \in 1 .. m - 1 : stack'[f] = stack[f]
      /\ \A f \in 1 .. m : stack'[f].array = stack[f].array /\ stack'[f].node = stack[f].node
      /\ stack'[m].next = stack[m].next + 1
      /\ IsContainer(e) => stack'[m + 1] = Open(e)
  BY <1>1, <1>2, ChildStack
<1>4. /\ e \in Child /\ a \in DOMAIN heap /\ a \in Unfinished
      /\ Accepts(a, e) /\ Write(a, e) /\ UNCHANGED <<input, entry, failed>>
  <2>1. e \in Child
    BY <1>1, <1>2, TopChild
  <2>2. a \in DOMAIN heap
    BY <1>1, <1>2, TopFrame
  <2>3. a \in Unfinished
    BY <1>2, <1>3 DEF Unfinished
  <2> QED
    BY <1>2, <2>1, <2>2, <2>3 DEF ApplyChild
<1>5. PICK len, w : len = Len(heap) /\ w = Written(a, e)
  OBVIOUS
<1>6. len \in Nat /\ DOMAIN heap = 1 .. len /\ len + 1 \notin DOMAIN heap
      /\ heap[a].elts \in Seq(Elem) /\ heap[a].depth \in Nat
  <2>1. len \in Nat /\ DOMAIN heap = 1 .. len /\ heap[a].elts \in Seq(Elem) /\ heap[a].depth \in Nat
    BY <1>1, <1>4, <1>5, ArrayParts
  <2> QED
    BY <2>1
<1>7. /\ heap' \in Seq(Array)
      /\ \A b \in DOMAIN heap \ {a} : heap'[b] = heap[b]
      /\ heap'[a].kind = heap[a].kind /\ heap'[a].depth = heap[a].depth
      /\ heap'[a].elts = Append(heap[a].elts, w)
      /\ IsContainer(e) => heap'[len + 1] = NewArray(a, e)
  BY <1>1, <1>4, <1>5, WriteEffect
<1>8. Unfinished' = Unfinished \cup (IF IsContainer(e) THEN {len + 1} ELSE {})
  <2>1. \A f \in 1 .. m : stack'[f].array = stack[f].array
    BY <1>3
  <2>2. IsContainer(e) => stack'[m + 1].array = len + 1
    BY <1>3, <1>5 DEF Open
  <2>3. CASE IsContainer(e)
    <3>1. DOMAIN stack' = DOMAIN stack \cup {m + 1}
      BY <1>3, <2>3
    <3> QED
      BY <1>3, <2>1, <2>2, <2>3, <3>1 DEF Unfinished
  <2>4. CASE ~IsContainer(e)
    BY <1>3, <2>1, <2>4 DEF Unfinished
  <2> QED
    BY <2>3, <2>4
<1>9. /\ \A room : \A x \in Elem : (x.array # 0 => x.array \in DOMAIN heap)
                                 => (Settled(x, room) => Settled(x, room)')
      /\ ClosedInv' /\ 0 \notin Unfinished'
  <2>1. /\ \A room : \A x \in Elem : (x.array # 0 => x.array \in DOMAIN heap)
                                 => (Settled(x, room) => Settled(x, room)')
        /\ ClosedInv'
    BY <1>4, <1>5, <1>8, WriteKeepsSettled
  <2>2. 0 \notin Unfinished
    BY <1>1, UnfinishedParts
  <2> QED
    BY <1>6, <1>8, <2>1, <2>2
<1>10. HomeInv'
  <2>1. heap'[1] = heap[1]
    <3>1. a # 1 /\ 1 \in DOMAIN heap
      BY <1>1, <1>2, <1>3, UnfinishedParts DEF Unfinished
    <3> QED
      BY <1>7, <3>1
  <2>2. PICK elts : elts = heap[1].elts
    OBVIOUS
  <2>3. /\ heap[1].kind = "record" /\ heap[1].depth = 0
        /\ \A k \in DOMAIN elts : k < Len(elts) => elts[k].array \notin Unfinished
        /\ Len(elts) > 0 /\ HeldBy(elts[Len(elts)], 1)
        /\ elts[Len(elts)].name = input.entries[entry].name
        /\ elts[Len(elts)].node = input.entries[entry].node
    BY <1>1, <2>2 DEF Progress, HomeInv
  <2>4. stack' # <<>>
    <3>1. Len(stack') \in Nat /\ Len(stack') > 0
      BY <1>3
    <3> QED
      BY <3>1
  <2>5. \A k \in DOMAIN elts : k < Len(elts) => elts[k].array \notin Unfinished'
    <3>1. \A k \in DOMAIN elts : elts[k].array # 0 => elts[k].array \in DOMAIN heap
      BY <1>1, <2>2, SMTT(30) DEF DepthCeiling, Inner, InjectionTypeOK
    <3>2. 0 # len + 1
      BY <1>6
    <3> QED
      BY <1>6, <1>8, <2>3, <3>1, <3>2
  <2>6. HeldBy(elts[Len(elts)], 1)'
    <3>1. 1 \in 1 .. m
      BY <1>3
    <3> QED
      BY <1>3, <2>3, <3>1 DEF HeldBy
  <2> QED
    BY <1>4, <2>1, <2>2, <2>3, <2>4, <2>5, <2>6 DEF HomeInv
<1>11. ASSUME NEW f \in 1 .. m - 1 PROVE FrameInv(f)'
  <2>1. f \in DOMAIN stack /\ f < Len(stack) /\ f < Len(stack') /\ f # m /\ f \in 1 .. m
        /\ f + 1 \in 1 .. m
    <3>1. f \in Nat /\ f < m /\ f # m /\ f \in 1 .. m /\ f + 1 \in 1 .. m
      BY <1>2, SMTT(30)
    <3>2. DOMAIN stack = 1 .. m /\ Len(stack) = m
      BY <1>2, <1>3
    <3>3. Len(stack') \in {m, m + 1}
      BY <1>3
    <3> QED
      BY <3>1, <3>2, <3>3
  <2>2. stack[f].array # a
    BY <1>1, <1>2, <1>3, <2>1, UnfinishedParts
  <2>3. Unfinished' = Unfinished \cup (IF IsContainer(e) THEN {Len(heap) + 1} ELSE {})
    BY <1>5, <1>8
  <2>4. UNCHANGED input
    BY <1>4
  <2>5. stack'[f] = stack[f] /\ stack'[f + 1].array = stack[f + 1].array
        /\ stack'[f + 1].node = stack[f + 1].node
    BY <1>3, <2>1
  <2> QED
    BY <1>4, <2>1, <2>2, <2>3, <2>4, <2>5, CallerKept
<1>12. PICK elts, n, kids : elts = heap[a].elts /\ n = Top.node /\ kids = input.kids[n]
  OBVIOUS
<1>13. /\ Len(elts) = stack[m].next - 1 /\ DOMAIN elts = 1 .. stack[m].next - 1
       /\ stack[m].next \in Nat \ {0} /\ n \in Node /\ kids \in Seq(Child) /\ m \in 1 .. MaxDepth
       /\ input.kind[n] \in Container
  <2>1. FrameInv(m)
    BY <1>1, <1>3 DEF Progress
  <2> QED
    BY <1>1, <1>2, <1>3, <1>12, <2>1, FrameParts
<1>14. /\ heap[a].kind = input.kind[n] /\ heap[a].depth = m
       /\ \A k \in DOMAIN elts :
            /\ elts[k].node = kids[k].node
            /\ elts[k].name = IF input.kind[n] = "record" THEN kids[k].name ELSE NoName
            /\ ~Nameless(n, k)
            /\ Settled(elts[k], MaxDepth - m)
  <2>1. FrameInv(m)
    BY <1>1, <1>3 DEF Progress
  <2>2. ~(m < Len(stack))
    <3>1. m = Len(stack) /\ m \in Nat
      BY <1>2, SMTT(30)
    <3> QED
      BY <3>1
  <2> QED
    BY <1>2, <1>3, <1>12, <2>1, <2>2 DEF FrameInv
<1>15. PICK x : x = stack[m].next
  OBVIOUS
<1>16. e = kids[x] /\ x \in Nat \ {0} /\ x <= Len(kids)
  BY <1>1, <1>2, <1>3, <1>12, <1>13, <1>15
<1>17. /\ heap'[a].elts = Append(elts, w) /\ Len(Append(elts, w)) = x
       /\ DOMAIN Append(elts, w) = 1 .. x
       /\ \A k \in DOMAIN elts : Append(elts, w)[k] = elts[k]
       /\ Append(elts, w)[x] = w
       /\ \A k \in 1 .. x : k = x \/ k \in DOMAIN elts
  <2>1. elts \in Seq(Elem) /\ Len(elts) = x - 1 /\ DOMAIN elts = 1 .. x - 1
    BY <1>6, <1>12, <1>13, <1>15
  <2>2. heap'[a].elts = Append(elts, w)
    BY <1>7, <1>12
  <2> QED
    BY <1>16, <2>1, <2>2
<1>18. /\ w.node = e.node /\ ~Nameless(n, x)
       /\ w.name = IF input.kind[n] = "record" THEN e.name ELSE NoName
       /\ w.array = IF IsContainer(e) THEN len + 1 ELSE 0
  <2>1. ~Nameless(n, x)
    BY <1>4, <1>12, <1>14, <1>16 DEF Accepts, Nameless
  <2> QED
    BY <1>5, <1>14, <2>1 DEF Written
<1>19. \A k \in DOMAIN elts : Settled(elts[k], MaxDepth - m)'
  <2>1. elts \in Seq(Elem)
    BY <1>6, <1>12
  <2>2. \A k \in DOMAIN elts : elts[k] \in Elem /\ (elts[k].array # 0 => elts[k].array \in DOMAIN heap)
    <3>1. \A k \in DOMAIN elts : elts[k].array # 0 => elts[k].array \in DOMAIN heap
      BY <1>1, <1>4, <1>12 DEF DepthCeiling, Inner
    <3> QED
      BY <2>1, <3>1
  <2> QED
    BY <1>9, <1>14, <2>2
<1>20. IF IsContainer(e) THEN HeldBy(w, m + 1)' ELSE Settled(w, MaxDepth - m)'
  <2>1. CASE IsContainer(e)
    BY <1>3, <1>5, <1>18, <2>1 DEF HeldBy, Open
  <2>2. CASE ~IsContainer(e)
    <3>1. e.node \in Node /\ input.kind[e.node] = "scalar"
      BY <1>1, <1>4, <2>2, EntryInput DEF Child, Accepts, IsContainer, Kind
    <3>2. PICK room : room = MaxDepth - m
      OBVIOUS
    <3>3. room \in 0 .. MaxDepth
      BY <1>13, <3>2, DepthAssumption
    <3>4. Map!Outcome[room][e.node] =
            [ok |-> TRUE, tree |-> [kind |-> "scalar", node |-> e.node, elts |-> <<>>]]
      BY <1>1, <3>1, <3>3, OutcomeOf
    <3>5. Value(heap', w) = [kind |-> "scalar", node |-> e.node, elts |-> <<>>]
      BY <1>18, <2>2 DEF Value
    <3>6. Map!Outcome' = Map!Outcome
      BY <1>4 DEF Map!Outcome, Map!Values
    <3>7. w.array \notin Unfinished'
      BY <1>9, <1>18, <2>2
    <3> QED
      BY <1>18, <2>2, <3>2, <3>4, <3>5, <3>6, <3>7 DEF Settled
  <2> QED
    BY <2>1, <2>2
<1>21. FrameInv(m)'
  <2>1. stack'[m].array = a /\ stack'[m].node = n /\ stack'[m].next = x + 1
    <3>1. m \in 1 .. m
      BY <1>3
    <3> QED
      BY <1>2, <1>3, <1>12, <1>15, <3>1
  <2>2. m < Len(stack') <=> IsContainer(e)
    BY <1>3
  <2>3. heap'[a].kind = input'.kind[n] /\ heap'[a].depth = m /\ input' = input
    BY <1>4, <1>7, <1>14
  <2>4. ASSUME NEW k \in 1 .. x
        PROVE  LET c == Append(elts, w)[k] IN
               /\ c.node = kids[k].node
               /\ c.name = IF input.kind[n] = "record" THEN kids[k].name ELSE NoName
               /\ ~Nameless(n, k)'
               /\ IF IsContainer(e) /\ k = x
                  THEN HeldBy(c, m + 1)' ELSE Settled(c, MaxDepth - m)'
    <3>1. Nameless(n, k)' = Nameless(n, k)
      BY <1>4 DEF Nameless
    <3>2. CASE k = x
      BY <1>16, <1>17, <1>18, <1>20, <3>1, <3>2
    <3>3. CASE k # x
      <4>1. k \in DOMAIN elts /\ Append(elts, w)[k] = elts[k]
        BY <1>17, <3>3
      <4> QED
        BY <1>14, <1>19, <3>1, <3>3, <4>1
    <3> QED
      BY <3>2, <3>3
  <2>5. x > 0 /\ (x + 1) - 1 = x
    BY <1>16
  <2>6. PICK s : s = Append(elts, w)
    OBVIOUS
  <2>7. /\ heap'[a].elts = s /\ Len(s) = x /\ DOMAIN s = 1 .. x
        /\ \A k \in 1 .. x :
             /\ s[k].node = kids[k].node
             /\ s[k].name = IF input.kind[n] = "record" THEN kids[k].name ELSE NoName
             /\ ~Nameless(n, k)'
             /\ IF IsContainer(e) /\ k = x
                THEN HeldBy(s[k], m + 1)' ELSE Settled(s[k], MaxDepth - m)'
    BY <1>17, <2>4, <2>6
  <2>8. PICK g : g = stack'[m]
    OBVIOUS
  <2>9. /\ heap'[g.array].kind = input'.kind[g.node] /\ heap'[g.array].depth = m
        /\ Len(heap'[g.array].elts) = g.next - 1
        /\ Len(heap'[g.array].elts) <= Len(input'.kids[g.node])
        /\ Len(heap'[g.array].elts) > 0
    BY <1>12, <1>16, <2>1, <2>3, <2>5, <2>7, <2>8
  <2>10. heap'[stack'[m].array].elts = s /\ stack'[m].node = n /\ input' = input
    BY <1>4, <2>1, <2>7
  <2>11. heap'[stack'[m].array].kind = input'.kind[stack'[m].node]
         /\ heap'[stack'[m].array].depth = m
    BY <2>8, <2>9
  <2>12. /\ Len(s) = stack'[m].next - 1 /\ Len(s) <= Len(input'.kids[n])
         /\ m < Len(stack') => Len(s) > 0
    BY <1>12, <1>16, <2>1, <2>3, <2>5, <2>7
  <2>13. \A k \in DOMAIN s :
           /\ s[k].node = input'.kids[n][k].node
           /\ s[k].name = IF input'.kind[n] = "record" THEN input'.kids[n][k].name ELSE NoName
           /\ ~Nameless(n, k)'
           /\ IF m < Len(stack') /\ k = Len(s)
              THEN HeldBy(s[k], m + 1)' ELSE Settled(s[k], MaxDepth - m)'
    BY <1>12, <2>2, <2>7, <2>10
  <2> QED
    BY <2>10, <2>11, <2>12, <2>13 DEF FrameInv
<1>22. IsContainer(e) => FrameInv(m + 1)'
  <2> SUFFICES ASSUME IsContainer(e) PROVE FrameInv(m + 1)'
    OBVIOUS
  <2>1. stack'[m + 1].array = len + 1 /\ stack'[m + 1].node = e.node /\ stack'[m + 1].next = 1
    BY <1>3, <1>5 DEF Open
  <2>2. /\ heap'[len + 1].kind = input'.kind[e.node] /\ heap'[len + 1].depth = m + 1
        /\ heap'[len + 1].elts = <<>>
    BY <1>4, <1>7, <1>14 DEF NewArray
  <2>3. Len(stack') = m + 1
    BY <1>3
  <2>4. input'.kids[e.node] \in Seq(Child)
    BY <1>1, <1>4, EntryInput DEF Child
  <2>5. ~(m + 1 < Len(stack')) /\ Len(input'.kids[e.node]) >= 0 /\ 1 - 1 = 0
    BY <1>3, <2>3, <2>4
  <2>6. Len(<<>>) = 0 /\ DOMAIN <<>> = {}
    OBVIOUS
  <2> QED
    BY <2>1, <2>2, <2>5, <2>6 DEF FrameInv
<1>23. \A f \in DOMAIN stack' : f \in 1 .. m - 1 \/ f = m \/ (IsContainer(e) /\ f = m + 1)
  BY <1>3
<1> QED
  BY <1>9, <1>10, <1>11, <1>21, <1>22, <1>23 DEF Progress

LEMMA ApplyEntryKeeps ==
  ASSUME InjectionInv, InjectionTypeOK', DepthCeiling', ApplyEntry
  PROVE  Progress'
<1>1. InjectionTypeOK /\ DepthCeiling /\ Progress /\ stack = <<>> /\ entry \in DOMAIN input.entries
  BY EntryInput DEF InjectionInv, ApplyEntry, InjectionTypeOK
<1>2. PICK e, len, w : e = input.entries[entry] /\ len = Len(heap) /\ w = Written(1, e)
  OBVIOUS
<1>3. e \in Child /\ 1 \in DOMAIN heap
  BY <1>1, <1>2, EntryInput DEF InjectionTypeOK
<1>4. /\ Accepts(1, e) /\ Write(1, e) /\ UNCHANGED input
      /\ IF IsContainer(e) THEN stack' = <<Open(e)>> /\ UNCHANGED entry ELSE UNCHANGED stack
  BY <1>2 DEF ApplyEntry
<1>5. /\ Unfinished = {1}
      /\ Unfinished' = Unfinished \cup (IF IsContainer(e) THEN {len + 1} ELSE {})
  <2>1. Unfinished = {1}
    BY <1>1 DEF Unfinished
  <2>2. CASE IsContainer(e)
    <3>1. DOMAIN stack' = {1} /\ stack'[1].array = len + 1
      BY <1>2, <1>4, <2>2 DEF Open
    <3> QED
      BY <2>1, <2>2, <3>1 DEF Unfinished
  <2>3. CASE ~IsContainer(e)
    BY <1>4, <2>1, <2>3 DEF Unfinished
  <2> QED
    BY <2>1, <2>2, <2>3
<1>6. /\ heap' \in Seq(Array)
      /\ heap'[1].kind = heap[1].kind /\ heap'[1].depth = heap[1].depth
      /\ heap'[1].elts = Append(heap[1].elts, w)
      /\ IsContainer(e) => heap'[len + 1] = NewArray(1, e)
  BY <1>1, <1>2, <1>3, <1>4, WriteEffect
<1>7. len \in Nat /\ DOMAIN heap = 1 .. len /\ heap[1].elts \in Seq(Elem) /\ len + 1 > len
  BY <1>1, <1>2, <1>3, ArrayParts
<1>8. ClosedInv'
  <2>1. 1 \in Unfinished
    BY <1>5
  <2>2. Unfinished' = Unfinished \cup (IF IsContainer(e) THEN {Len(heap) + 1} ELSE {})
    BY <1>2, <1>5
  <2> QED
    BY <1>3, <1>4, <2>1, <2>2, WriteKeepsSettled
<1>9. PICK elts, s : elts = heap[1].elts /\ s = Append(elts, w)
  OBVIOUS
<1>10. /\ Len(s) = Len(elts) + 1 /\ Len(elts) \in Nat /\ DOMAIN s = 1 .. Len(s)
       /\ \A k \in DOMAIN elts : s[k] = elts[k]
       /\ s[Len(s)] = w
       /\ \A k \in DOMAIN s : k = Len(s) \/ k \in DOMAIN elts
  <2>1. elts \in Seq(Elem)
    BY <1>7, <1>9
  <2>2. DOMAIN elts = 1 .. Len(elts) /\ Len(elts) \in Nat
    BY <2>1
  <2>3. /\ Len(s) = Len(elts) + 1 /\ DOMAIN s = 1 .. Len(elts) + 1
        /\ \A k \in 1 .. Len(elts) : s[k] = elts[k]
        /\ s[Len(elts) + 1] = w
    BY <1>9, <2>1
  <2> QED
    BY <2>2, <2>3
<1>11. /\ heap[1].kind = "record" /\ heap[1].depth = 0
       /\ \A k \in DOMAIN elts : elts[k].array # 1
       /\ \A k \in DOMAIN elts : elts[k].array # 0 => elts[k].array \in DOMAIN heap
  <2>1. heap[1].kind = "record" /\ heap[1].depth = 0
    BY <1>1 DEF Progress, HomeInv
  <2>2. \A k \in DOMAIN elts : elts[k].array # 0 => elts[k].array \in DOMAIN heap /\ elts[k].array > 1
    BY <1>3, <1>9, <1>1 DEF DepthCeiling, Inner
  <2> QED
    BY <2>1, <2>2
<1>12. /\ w.name = e.name /\ w.node = e.node
       /\ w.array = IF IsContainer(e) THEN len + 1 ELSE 0
  BY <1>2, <1>11 DEF Written
<1>13. HomeInv'
  <2>1. \A k \in DOMAIN elts : elts[k].array \notin Unfinished'
    BY <1>5, <1>7, <1>11
  <2>2. CASE IsContainer(e)
    <3>1. stack' = <<Open(e)>> /\ stack' # <<>> /\ entry' = entry /\ input' = input
      BY <1>4, <2>2
    <3>2. HeldBy(w, 1)'
      BY <1>2, <1>12, <2>2, <3>1 DEF HeldBy, Open
    <3>3. /\ Len(s) > 0 /\ w.name = input'.entries[entry'].name /\ w.node = input'.entries[entry'].node
      BY <1>2, <1>10, <1>12, <3>1
    <3>4. \A k \in DOMAIN s : k < Len(s) => s[k].array \notin Unfinished'
      BY <1>10, <2>1
    <3>5. heap'[1].elts = s /\ heap'[1].kind = "record" /\ heap'[1].depth = 0
      BY <1>6, <1>9, <1>11
    <3>6. HeldBy(s[Len(s)], 1)' /\ s[Len(s)] = w
      <4>1. s[Len(s)] = w
        BY <1>10
      <4> QED
        BY <3>2, <4>1 DEF HeldBy
    <3> QED
      BY <3>1, <3>3, <3>4, <3>5, <3>6 DEF HomeInv
  <2>3. CASE ~IsContainer(e)
    <3>1. stack' = <<>>
      BY <1>1, <1>4, <2>3
    <3>2. w.array \notin Unfinished'
      BY <1>5, <1>12, <2>3
    <3>3. \A k \in DOMAIN s : s[k].array \notin Unfinished'
      <4> TAKE k \in DOMAIN s
      <4>1. CASE k = Len(s)
        <5>1. s[k] = w
          BY <1>10, <4>1
        <5> QED
          BY <3>2, <5>1
      <4>2. CASE k \in DOMAIN elts
        <5>1. s[k] = elts[k]
          BY <1>10, <4>2
        <5> QED
          BY <2>1, <4>2, <5>1
      <4> QED
        BY <1>10, <4>1, <4>2
    <3>4. heap'[1].elts = s /\ heap'[1].kind = "record" /\ heap'[1].depth = 0
      BY <1>6, <1>9, <1>11
    <3> QED
      BY <3>1, <3>3, <3>4 DEF HomeInv
  <2> QED
    BY <2>2, <2>3
<1>14. \A f \in DOMAIN stack' : FrameInv(f)'
  <2>1. CASE IsContainer(e)
    <3>1. stack' = <<Open(e)>> /\ DOMAIN stack' = {1} /\ Len(stack') = 1
      BY <1>4, <2>1
    <3>2. stack'[1].array = len + 1 /\ stack'[1].node = e.node /\ stack'[1].next = 1
      BY <1>2, <3>1 DEF Open
    <3>3. /\ heap'[len + 1].kind = input'.kind[e.node] /\ heap'[len + 1].depth = 1
          /\ heap'[len + 1].elts = <<>>
      BY <1>4, <1>6, <1>11, <2>1 DEF NewArray
    <3>4. Len(input'.kids[e.node]) >= 0
      <4>1. input'.kids[e.node] \in Seq(Child)
        BY <1>1, <1>3, <1>4, EntryInput DEF Child
      <4> QED
        BY <4>1
    <3>5. Len(<<>>) = 0 /\ DOMAIN <<>> = {}
      OBVIOUS
    <3> QED
      BY <3>1, <3>2, <3>3, <3>4, <3>5 DEF FrameInv
  <2>2. CASE ~IsContainer(e)
    <3>1. DOMAIN stack' = {}
      BY <1>1, <1>4, <2>2
    <3> QED
      BY <3>1
  <2> QED
    BY <2>1, <2>2
<1> QED
  BY <1>8, <1>13, <1>14 DEF Progress

(***************************************************************************)
(* Where no frame is left, every array but the home's is finished.         *)
(***************************************************************************)
LEMMA EmptyStackKeeps ==
  ASSUME InjectionTypeOK, DepthCeiling, HomeInv, UNCHANGED heap, stack' = <<>>
  PROVE  Progress'
<1>1. DOMAIN stack' = {} /\ Unfinished' = {1}
  BY DEF Unfinished
<1>2. 1 \in DOMAIN heap /\ DOMAIN heap = 1 .. Len(heap) /\ Len(heap) \in Nat
  BY ArrayParts DEF InjectionTypeOK
<1>3. \A c \in DOMAIN heap : \A b \in Inner(c) : b # 1 /\ b > c
  BY <1>2 DEF DepthCeiling
<1>4. \A k \in DOMAIN heap[1].elts : heap[1].elts[k].array # 1
  <2>1. \A k \in DOMAIN heap[1].elts :
          heap[1].elts[k].array = 0 \/ heap[1].elts[k].array \in Inner(1)
    BY DEF Inner
  <2> QED
    BY <1>2, <1>3, <2>1
<1>5. HomeInv'
  BY <1>1, <1>4 DEF HomeInv
<1>6. ClosedInv'
  <2>1. \A c \in DOMAIN heap : Inner(c)' = Inner(c)
    BY DEF Inner
  <2> QED
    BY <1>1, <1>3, <2>1 DEF ClosedInv
<1> QED
  BY <1>1, <1>5, <1>6 DEF Progress

LEMMA ChildrenDoneKeeps ==
  ASSUME InjectionInv, ChildrenDone
  PROVE  Progress'
<1>1. InjectionTypeOK /\ DepthCeiling /\ Progress /\ stack # <<>>
      /\ Top.next > Len(input.kids[Top.node])
      /\ stack' = Callers /\ UNCHANGED <<input, heap>>
      /\ entry' = IF Callers = <<>> THEN entry + 1 ELSE entry
  BY DEF InjectionInv, ChildrenDone
<1>2. PICK m : m = Len(stack)
  OBVIOUS
<1>3. /\ m \in Nat \ {0} /\ DOMAIN stack = 1 .. m /\ Top = stack[m] /\ m \in DOMAIN stack
      /\ stack \in Seq(Frame)
  BY <1>1, <1>2 DEF InjectionTypeOK, Top
<1>4. /\ DOMAIN stack' = 1 .. m - 1 /\ Len(stack') = m - 1
      /\ \A f \in 1 .. m - 1 : stack'[f] = stack[f] /\ f \in DOMAIN stack
  BY <1>1, <1>2, <1>3 DEF Callers
<1>5. CASE m = 1
  <2>1. stack' = <<>>
    BY <1>1, <1>2, <1>3, <1>5 DEF Callers
  <2> QED
    BY <1>1, <2>1, EmptyStackKeeps DEF Progress
<1>6. CASE m # 1
  <2>1. stack' # <<>> /\ m - 1 \in DOMAIN stack' /\ 1 \in 1 .. m - 1 /\ entry' = entry
    <3>1. m - 1 \in 1 .. m - 1 /\ 1 \in 1 .. m - 1
      BY <1>3, <1>6
    <3>2. stack' # <<>>
      BY <1>4, <3>1
    <3> QED
      BY <1>1, <1>4, <3>1, <3>2
  <2>2. PICK a : a = stack[m].array
    OBVIOUS
  <2>3. Unfinished = Unfinished' \cup {a} /\ a \notin Unfinished' /\ a # 0 /\ a \in DOMAIN heap
    <3>1. DOMAIN stack = DOMAIN stack' \cup {m}
      BY <1>3, <1>4
    <3>2. Unfinished = Unfinished' \cup {a}
      BY <1>4, <2>2, <3>1 DEF Unfinished
    <3>3. a # 1 /\ \A f \in 1 .. m - 1 : stack'[f].array # a
      <4>1. /\ a # 1
            /\ \A f, g \in DOMAIN stack : stack[f].array = stack[g].array => f = g
        BY <1>1, <1>3, <2>2, UnfinishedParts
      <4>2. \A f \in 1 .. m - 1 : f # m
        BY <1>3
      <4> QED
        BY <1>3, <1>4, <2>2, <4>1, <4>2
    <3>4. a \notin Unfinished'
      BY <1>4, <3>3 DEF Unfinished
    <3>5. a # 0 /\ a \in DOMAIN heap
      <4>1. 0 \notin Unfinished /\ Unfinished \subseteq DOMAIN heap
        BY <1>1, UnfinishedParts
      <4> QED
        BY <3>2, <4>1
    <3> QED
      BY <3>2, <3>4, <3>5
  <2>4. HomeInv'
    <3>1. PICK elts : elts = heap[1].elts
      OBVIOUS
    <3>2. /\ heap[1].kind = "record" /\ heap[1].depth = 0
          /\ \A k \in DOMAIN elts : k < Len(elts) => elts[k].array \notin Unfinished
          /\ Len(elts) > 0 /\ HeldBy(elts[Len(elts)], 1)
          /\ elts[Len(elts)].name = input.entries[entry].name
          /\ elts[Len(elts)].node = input.entries[entry].node
      BY <1>1, <3>1 DEF Progress, HomeInv
    <3>3. HeldBy(elts[Len(elts)], 1)'
      BY <1>4, <2>1, <3>2 DEF HeldBy
    <3>4. \A k \in DOMAIN elts : k < Len(elts) => elts[k].array \notin Unfinished'
      BY <2>3, <3>2
    <3> QED
      BY <1>1, <2>1, <3>1, <3>2, <3>3, <3>4 DEF HomeInv
  <2>5. ClosedInv'
    <3>1. \A c \in DOMAIN heap : Inner(c)' = Inner(c)
      BY <1>1 DEF Inner
    <3>2. Inner(a) \cap Unfinished = {}
      <4>1. ASSUME NEW k \in DOMAIN heap[a].elts PROVE heap[a].elts[k].array \notin Unfinished
        <5>1. FrameInv(m) /\ ~(m < Len(stack))
          BY <1>1, <1>2, <1>3 DEF Progress
        <5>2. DOMAIN heap[a].elts = 1 .. Len(heap[a].elts)
          BY <1>1, <2>3, ArrayParts
        <5>3. Settled(heap[a].elts[k], MaxDepth - m)
          BY <1>1, <1>3, <2>2, <5>1, <5>2, FrameElems
        <5> QED
          BY <5>3 DEF Settled
      <4> QED
        BY <4>1 DEF Inner
    <3>3. \A c \in DOMAIN heap \ Unfinished' : c \in DOMAIN heap \ Unfinished \/ c = a
      BY <2>3
    <3>4. \A c \in DOMAIN heap \ Unfinished : Inner(c) \cap Unfinished = {}
      BY <1>1 DEF Progress, ClosedInv
    <3>5. \A c \in DOMAIN heap \ Unfinished' : Inner(c) \cap Unfinished = {}
      BY <3>2, <3>3, <3>4
    <3>6. \A c \in DOMAIN heap \ Unfinished' : Inner(c)' \cap Unfinished' = {}
      BY <2>3, <3>1, <3>5
    <3> QED
      BY <1>1, <3>6 DEF ClosedInv
  <2>6. ASSUME NEW x, NEW room, Settled(x, room) PROVE Settled(x, room)'
    <3>1. Map!Outcome' = Map!Outcome
      BY <1>1 DEF Map!Outcome, Map!Values
    <3>2. x.array \notin Unfinished' /\ Value(heap, x)' = Value(heap, x)
      BY <1>1, <2>3, <2>6 DEF Settled
    <3> QED
      BY <1>1, <2>6, <3>1, <3>2 DEF Settled
  <2>7. ASSUME NEW f \in 1 .. m - 1 PROVE FrameInv(f)'
    <3>1. FrameInv(f) /\ f \in DOMAIN stack /\ f < Len(stack) /\ stack'[f] = stack[f]
      BY <1>1, <1>2, <1>3, <1>4 DEF Progress
    <3>2. PICK n, elts : n = stack[f].node /\ elts = heap[stack[f].array].elts
      OBVIOUS
    <3>3. /\ heap[stack[f].array].kind = input.kind[n] /\ heap[stack[f].array].depth = f
          /\ Len(elts) = stack[f].next - 1 /\ Len(elts) <= Len(input.kids[n]) /\ Len(elts) > 0
          /\ \A k \in DOMAIN elts :
               /\ elts[k].node = input.kids[n][k].node
               /\ elts[k].name = IF input.kind[n] = "record" THEN input.kids[n][k].name ELSE NoName
               /\ ~Nameless(n, k)
               /\ IF k = Len(elts) THEN HeldBy(elts[k], f + 1) ELSE Settled(elts[k], MaxDepth - f)
      BY <3>1, <3>2 DEF FrameInv
    <3>4. \A k : ~Nameless(n, k) => ~Nameless(n, k)'
      BY <1>1 DEF Nameless
    <3>5. ASSUME NEW k \in DOMAIN elts
          PROVE  IF f < Len(stack') /\ k = Len(elts)
                 THEN HeldBy(elts[k], f + 1)' ELSE Settled(elts[k], MaxDepth - f)'
      <4>1. CASE k # Len(elts)
        BY <2>6, <3>3, <4>1
      <4>2. CASE k = Len(elts) /\ f < m - 1
        <5>1. stack'[f + 1] = stack[f + 1]
          BY <1>3, <1>4, <4>2
        <5> QED
          BY <1>4, <3>3, <4>2, <5>1 DEF HeldBy
      <4>3. CASE k = Len(elts) /\ f = m - 1
        <5>1. elts[k].array = a /\ elts[k].node = stack[m].node /\ f + 1 = m
          BY <1>3, <2>2, <3>3, <4>3 DEF HeldBy
        <5>2. FrameInv(m)
          BY <1>1, <1>3 DEF Progress
        <5>3. heap[a].kind = input.kind[stack[m].node] /\ m \in 1 .. MaxDepth
          BY <1>1, <1>3, <2>2, <5>2, FrameParts DEF FrameInv
        <5>4. (MaxDepth - m) + 1 = MaxDepth - f
          BY <4>3, <5>1, <5>3, DepthAssumption
        <5>5. /\ Foretold(m).ok
              /\ Foretold(m).tree = [kind |-> input.kind[stack[m].node], node |-> stack[m].node,
                                     elts |-> Trees(heap)[a]]
          BY <1>1, <1>2, <1>3, <2>2, TopDone
        <5>6. Value(heap, elts[k]) = [kind |-> input.kind[stack[m].node], node |-> stack[m].node,
                                      elts |-> Trees(heap)[a]]
          BY <2>3, <5>1, <5>3 DEF Value
        <5>7. Foretold(m) = Map!Outcome[MaxDepth - f][elts[k].node]
          BY <5>1, <5>4 DEF Foretold
        <5>8. Foretold(m) = [ok |-> TRUE, tree |-> Foretold(m).tree]
          <6>1. PICK room : room = MaxDepth - f
            OBVIOUS
          <6>2. room \in 0 .. MaxDepth /\ room # 0 /\ stack[m].node \in Node
            BY <1>1, <1>3, <4>3, <5>2, <5>3, <6>1, FrameParts, DepthAssumption
          <6>3. input.kind[stack[m].node] \in Container
            BY <1>1, <1>3, <5>2, FrameParts
          <6>4. Map!Outcome[room][stack[m].node] = Filled(stack[m].node, Map!Outcome[room - 1])
            BY <1>1, <6>2, <6>3, OutcomeOf
          <6>5. Foretold(m) = Filled(stack[m].node, Map!Outcome[room - 1])
            BY <5>1, <5>7, <6>1, <6>4
          <6> QED
            BY <5>5, <6>5 DEF Filled
        <5>9. Map!Outcome' = Map!Outcome
          BY <1>1 DEF Map!Outcome, Map!Values
        <5>10. Settled(elts[k], MaxDepth - f)'
          BY <1>1, <2>3, <5>1, <5>5, <5>6, <5>7, <5>8, <5>9 DEF Settled
        <5> QED
          BY <1>4, <4>3, <5>10
      <4> QED
        BY <1>3, <4>1, <4>2, <4>3
    <3> QED
      BY <1>1, <3>1, <3>2, <3>3, <3>4, <3>5 DEF FrameInv
  <2> QED
    BY <1>4, <2>4, <2>5, <2>7 DEF Progress
<1> QED
  BY <1>5, <1>6

LEMMA InitInjection == InjectionInit => InjectionInv
<1> SUFFICES ASSUME InjectionInit PROVE InjectionInv
  OBVIOUS
<1>1. InjectionTypeOK /\ DepthCeiling /\ NamesUnique
  BY InitType, InitCeiling, InitNames
<1>2. KeysDistinct
  BY KeysAssumption DEF InjectionInit, KeysDistinct
<1>3. DOMAIN heap = {1} /\ heap[1].elts = <<>> /\ heap[1].kind = "record" /\ heap[1].depth = 0
      /\ stack = <<>> /\ DOMAIN stack = {}
  BY DEF InjectionInit
<1>4. Progress
  BY <1>3 DEF Progress, HomeInv, ClosedInv, Unfinished
<1> QED
  BY <1>1, <1>2, <1>4 DEF InjectionInv

LEMMA NextInjection == InjectionInv /\ [InjectionNext]_injectionVars => InjectionInv'
<1> SUFFICES ASSUME InjectionInv, [InjectionNext]_injectionVars PROVE InjectionInv'
  OBVIOUS
<1>1. InjectionTypeOK' /\ DepthCeiling' /\ NamesUnique'
  BY NextType, NextCeiling, NextNames DEF InjectionInv
<1>2. KeysDistinct'
  BY DEF InjectionInv, KeysDistinct, InjectionNext, SkipEntry, ApplyEntry, RefuseEntry, ApplyChild,
         RefuseChild, ChildrenDone, injectionVars
<1>3. InjectionTypeOK /\ DepthCeiling /\ HomeInv /\ Progress
  BY DEF InjectionInv, Progress
<1>4. Progress'
  <2>1. CASE SkipEntry \/ RefuseEntry \/ RefuseChild
    BY <1>3, <2>1, EmptyStackKeeps DEF SkipEntry, RefuseEntry, RefuseChild
  <2>2. CASE ApplyEntry
    BY <1>1, <2>2, ApplyEntryKeeps
  <2>3. CASE ApplyChild
    BY <1>1, <2>3, ApplyChildKeeps
  <2>4. CASE ChildrenDone
    BY <2>4, ChildrenDoneKeeps
  <2>5. CASE UNCHANGED injectionVars
    <3>1. UNCHANGED <<input, entry, heap, stack>>
      BY <2>5 DEF injectionVars
    <3>2. Unfinished' = Unfinished /\ Map!Outcome' = Map!Outcome
          /\ \A c : Inner(c)' = Inner(c)
      BY <3>1 DEF Unfinished, Inner, Map!Outcome, Map!Values
    <3>3. /\ \A x, f : HeldBy(x, f) => HeldBy(x, f)'
          /\ \A n, k : ~Nameless(n, k) => ~Nameless(n, k)'
          /\ \A x, room : Settled(x, room) => Settled(x, room)'
      BY <3>1, <3>2 DEF HeldBy, Nameless, Settled, Value
    <3>4. HomeInv' /\ ClosedInv'
      BY <1>3, <3>1, <3>2, <3>3 DEF Progress, HomeInv, ClosedInv
    <3>5. ASSUME NEW f \in DOMAIN stack PROVE FrameInv(f)'
      <4>1. FrameInv(f)
        BY <1>3 DEF Progress
      <4> QED
        BY <3>1, <3>3, <4>1 DEF FrameInv
    <3> QED
      BY <3>1, <3>4, <3>5 DEF Progress
  <2> QED
    BY <2>1, <2>2, <2>3, <2>4, <2>5 DEF InjectionNext
<1> QED
  BY <1>1, <1>2, <1>4 DEF InjectionInv

-----------------------------------------------------------------------------
(***************************************************************************)
(* The attributes of the home, of which the first n are shown.             *)
(***************************************************************************)
Attribute(h, k) == [name |-> h[1].elts[k].name, tree |-> Value(h, h[1].elts[k])]

Shown(h, n) == [k \in 1 .. n |-> Attribute(h, k)]

LEMMA ShownTrees ==
  ASSUME NEW h, Layered(h), 1 \in DOMAIN h, NEW n \in Nat, n <= Len(h[1].elts)
  PROVE  [k \in 1 .. n |-> Trees(h)[1][k]] = Shown(h, n)
<1>1. h[1].elts \in Seq(Elem)
  <2>1. h[1] \in Array
    BY DEF Layered
  <2> QED
    BY <2>1 DEF Array
<1>2. \A k \in 1 .. n : k \in DOMAIN h[1].elts
  BY <1>1
<1>3. Trees(h)[1] = [k \in DOMAIN h[1].elts |->
                       [name |-> h[1].elts[k].name, tree |-> Value(h, h[1].elts[k])]]
  BY TreesUnfold
<1>4. \A k \in 1 .. n : Trees(h)[1][k] = Attribute(h, k)
  BY <1>2, <1>3 DEF Attribute
<1> QED
  BY <1>4 DEF Shown

LEMMA OneMoreShown ==
  ASSUME NEW h, NEW n \in Nat
  PROVE  Shown(h, n + 1) = Append(Shown(h, n), Attribute(h, n + 1))
<1> DEFINE S == {Attribute(h, k) : k \in 1 .. n + 1}
<1>1. PICK s, t, x : s = Shown(h, n) /\ t = Shown(h, n + 1) /\ x = Attribute(h, n + 1)
  OBVIOUS
<1>2. n + 1 \in Nat /\ n + 1 \in 1 .. n + 1 /\ \A k \in 1 .. n : k \in 1 .. n + 1
  OBVIOUS
<1>3. /\ s = [k \in 1 .. n |-> Attribute(h, k)] /\ t = [k \in 1 .. n + 1 |-> Attribute(h, k)]
      /\ \A k \in 1 .. n : s[k] = t[k]
      /\ t[n + 1] = x /\ x \in S /\ \A k \in 1 .. n + 1 : Attribute(h, k) \in S
  BY <1>1, <1>2 DEF Shown
<1> HIDE DEF S
<1>4. s \in Seq(S) /\ t \in Seq(S) /\ Len(s) = n /\ Len(t) = n + 1
  BY <1>2, <1>3
<1>5. /\ Append(s, x) \in Seq(S) /\ Len(Append(s, x)) = n + 1
      /\ \A k \in 1 .. n : Append(s, x)[k] = s[k]
      /\ Append(s, x)[n + 1] = x
  BY <1>3, <1>4, AppendProperties
<1>6. ASSUME NEW k \in 1 .. n + 1 PROVE t[k] = Append(s, x)[k]
  <2>1. k = n + 1 \/ k \in 1 .. n
    OBVIOUS
  <2> QED
    BY <1>3, <1>5, <2>1
<1>7. t = Append(s, x)
  BY <1>4, <1>5, <1>6, SeqEqual
<1> QED
  BY <1>1, <1>7

LEMMA HomeAttributes ==
  ASSUME InjectionTypeOK, DepthCeiling, HomeInv
  PROVE  Attributes = Shown(heap, IF stack = <<>> THEN Len(heap[1].elts)
                                  ELSE Len(heap[1].elts) - 1)
<1>1. PICK n : n = IF stack = <<>> THEN Len(heap[1].elts) ELSE Len(heap[1].elts) - 1
  OBVIOUS
<1>2. 1 \in DOMAIN heap /\ Len(heap[1].elts) \in Nat
  <2>1. 1 \in DOMAIN heap
    BY DEF InjectionTypeOK
  <2>2. heap[1].elts \in Seq(Elem)
    BY <2>1, ArrayParts
  <2> QED
    BY <2>1, <2>2
<1>3. stack # <<>> => Len(heap[1].elts) > 0
  BY DEF HomeInv
<1>4. n \in Nat /\ n <= Len(heap[1].elts)
  BY <1>1, <1>2, <1>3
<1>5. [k \in 1 .. n |-> Trees(heap)[1][k]] = Shown(heap, n)
  BY <1>2, <1>4, LayeredHeap, ShownTrees
<1> QED
  BY <1>1, <1>5 DEF Attributes

LEMMA HomeAttributesNext ==
  ASSUME InjectionTypeOK', DepthCeiling', HomeInv'
  PROVE  Attributes' = Shown(heap', IF stack' = <<>> THEN Len(heap'[1].elts)
                                    ELSE Len(heap'[1].elts) - 1)
<1>1. PICK n, h : h = heap' /\ n = IF stack' = <<>> THEN Len(heap'[1].elts) ELSE Len(heap'[1].elts) - 1
  OBVIOUS
<1>2. Layered(h)
  BY <1>1 DEF InjectionTypeOK, DepthCeiling, Layered, Inner
<1>3. 1 \in DOMAIN h
  BY <1>1 DEF InjectionTypeOK
<1>4. Len(h[1].elts) \in Nat
  <2>1. h[1] \in Array
    BY <1>2, <1>3 DEF Layered
  <2> QED
    BY <2>1 DEF Array
<1>5. stack' # <<>> => Len(h[1].elts) > 0
  BY <1>1 DEF HomeInv
<1>6. n \in Nat /\ n <= Len(h[1].elts)
  BY <1>1, <1>4, <1>5
<1>7. [k \in 1 .. n |-> Trees(h)[1][k]] = Shown(h, n)
  BY <1>2, <1>3, <1>6, ShownTrees
<1>8. Attributes' = [k \in 1 .. n |-> Trees(h)[1][k]]
  BY <1>1 DEF Attributes, Trees
<1> QED
  BY <1>1, <1>7, <1>8

LEMMA ShownKept ==
  ASSUME NEW h, NEW h2, NEW n,
         \A k \in 1 .. n : h2[1].elts[k] = h[1].elts[k] /\ Value(h2, h[1].elts[k]) = Value(h, h[1].elts[k])
  PROVE  Shown(h2, n) = Shown(h, n)
BY DEF Shown, Attribute

LEMMA FreeNames ==
  ASSUME NEW n, Attributes = Shown(heap, n), NEW name
  PROVE  Map!Free(name) <=> \A k \in 1 .. n : heap[1].elts[k].name # name
<1>1. DOMAIN Attributes = 1 .. n /\ \A k \in 1 .. n : Attributes[k].name = heap[1].elts[k].name
  BY DEF Shown, Attribute
<1> QED
  BY <1>1 DEF Map!Free

(***************************************************************************)
(* The home's elements: those that are done refer to finished arrays.      *)
(***************************************************************************)
LEMMA HomeParts ==
  ASSUME InjectionInv
  PROVE  /\ 1 \in DOMAIN heap /\ heap[1].elts \in Seq(Elem) /\ Len(heap[1].elts) \in Nat
         /\ DOMAIN heap[1].elts = 1 .. Len(heap[1].elts)
         /\ heap[1].kind = "record" /\ heap[1].depth = 0
         /\ \A k \in DOMAIN heap[1].elts : k < Len(heap[1].elts) \/ stack = <<>> =>
              \/ heap[1].elts[k].array = 0
              \/ heap[1].elts[k].array \in DOMAIN heap \ Unfinished
<1>1. InjectionTypeOK /\ DepthCeiling /\ HomeInv
  BY DEF InjectionInv, Progress
<1>2. 1 \in DOMAIN heap
  BY <1>1 DEF InjectionTypeOK
<1>3. heap[1].elts \in Seq(Elem)
  BY <1>1, <1>2, ArrayParts
<1>4. PICK elts : elts = heap[1].elts
  OBVIOUS
<1>5. \A k \in DOMAIN elts : elts[k].array # 0 => elts[k].array \in DOMAIN heap
  BY <1>1, <1>2, <1>4 DEF DepthCeiling, Inner
<1>6. /\ heap[1].kind = "record" /\ heap[1].depth = 0
      /\ \A k \in DOMAIN elts : k < Len(elts) \/ stack = <<>> => elts[k].array \notin Unfinished
  BY <1>1, <1>4 DEF HomeInv
<1>7. Len(elts) \in Nat /\ DOMAIN elts = 1 .. Len(elts)
  BY <1>3, <1>4
<1> QED
  BY <1>2, <1>3, <1>4, <1>5, <1>6, <1>7

LEMMA NowAndThen ==
  ASSUME InjectionInv, InjectionInv'
  PROVE  /\ Attributes = Shown(heap, IF stack = <<>> THEN Len(heap[1].elts)
                                     ELSE Len(heap[1].elts) - 1)
         /\ Attributes' = Shown(heap', IF stack' = <<>> THEN Len(heap'[1].elts)
                                       ELSE Len(heap'[1].elts) - 1)
<1>1. InjectionTypeOK /\ DepthCeiling /\ HomeInv
  BY DEF InjectionInv, Progress
<1>2. InjectionTypeOK' /\ DepthCeiling' /\ HomeInv'
  BY DEF InjectionInv, Progress
<1> QED
  BY <1>1, <1>2, HomeAttributes, HomeAttributesNext

(***************************************************************************)
(* The steps of the entry that is being applied, seen from the home.       *)
(***************************************************************************)
LEMMA SkipEntryApplies ==
  ASSUME InjectionInv, InjectionInv', SkipEntry
  PROVE  Map!Apply
<1>1. Attributes' = Attributes
  BY NowAndThen DEF SkipEntry
<1> QED
  BY <1>1 DEF SkipEntry, Map!Apply

LEMMA RefuseEntryApplies ==
  ASSUME InjectionInv, InjectionInv', RefuseEntry
  PROVE  Map!Apply
<1>1. Attributes' = Attributes /\ Attributes = Shown(heap, Len(heap[1].elts))
  BY NowAndThen DEF RefuseEntry
<1>2. PICK e, out : e = input.entries[entry] /\ out = Map!Outcome[MaxDepth][e.node]
  OBVIOUS
<1>3. /\ entry <= Len(input.entries) /\ entry' = entry + 1 /\ UNCHANGED input
      /\ e.name # NoName /\ ~Accepts(1, e) /\ failed' = Append(failed, e.name)
  BY <1>2 DEF RefuseEntry
<1>4. InjectionTypeOK
  BY DEF InjectionInv
<1>5. e \in Child
  BY <1>2, <1>3, <1>4, EntryInput DEF InjectionTypeOK
<1>6. ~(Map!Free(e.name) /\ out.tree # Map!NoTree) /\ ~(Map!Free(e.name) /\ out.ok)
  <2>1. CASE input.kind[e.node] = "malformed"
    <3>1. e.node \in Node /\ MaxDepth \in 0 .. MaxDepth
      BY <1>5, DepthAssumption DEF Child
    <3>2. out = [ok |-> FALSE, tree |-> Map!NoTree]
      BY <1>2, <1>4, <2>1, <3>1, OutcomeOf
    <3> QED
      BY <3>2
  <2>2. CASE HasName(1, e.name)
    <3>1. ~Map!Free(e.name)
      BY <1>1, <2>2, FreeNames, HomeParts DEF HasName
    <3> QED
      BY <3>1
  <2> QED
    BY <1>3, <2>1, <2>2, HomeParts, DepthAssumption DEF Accepts
<1> QED
  BY <1>1, <1>2, <1>3, <1>6 DEF Map!Apply

LEMMA ApplyEntryApplies ==
  ASSUME InjectionInv, InjectionInv', ApplyEntry
  PROVE  Map!Apply \/ UNCHANGED Map!mvars
<1>1. InjectionTypeOK /\ stack = <<>> /\ InjectionTypeOK' /\ DepthCeiling'
  BY DEF InjectionInv, ApplyEntry
<1>2. PICK e, len, w, n, out :
        /\ e = input.entries[entry] /\ len = Len(heap) /\ w = Written(1, e)
        /\ n = Len(heap[1].elts) /\ out = Map!Outcome[MaxDepth][e.node]
  OBVIOUS
<1>3. /\ entry <= Len(input.entries) /\ UNCHANGED <<input, failed>>
      /\ e.name # NoName /\ Accepts(1, e) /\ Write(1, e)
      /\ IF IsContainer(e) THEN stack' = <<Open(e)>> /\ UNCHANGED entry
         ELSE entry' = entry + 1 /\ UNCHANGED stack
  BY <1>2 DEF ApplyEntry
<1>4. e \in Child /\ 1 \in DOMAIN heap /\ n \in Nat /\ heap[1].elts \in Seq(Elem)
      /\ heap[1].kind = "record"
  BY <1>1, <1>2, <1>3, EntryInput, HomeParts DEF InjectionTypeOK
<1>5. heap'[1].elts = Append(heap[1].elts, w)
  BY <1>1, <1>2, <1>3, <1>4, WriteEffect
<1>6. PICK h, elts : h = heap' /\ elts = heap[1].elts
  OBVIOUS
<1>7. Len(h[1].elts) = n + 1 /\ h[1].elts[n + 1] = w /\ \A k \in 1 .. n : h[1].elts[k] = elts[k]
  <2>1. elts \in Seq(Elem) /\ n = Len(elts) /\ h[1].elts = Append(elts, w)
    BY <1>2, <1>4, <1>5, <1>6
  <2> QED
    BY <2>1
<1>8. Unfinished = {1} /\ Unfinished' = Unfinished \cup (IF IsContainer(e) THEN {Len(heap) + 1} ELSE {})
  <2>1. Unfinished = {1}
    BY <1>1 DEF Unfinished
  <2>2. CASE IsContainer(e)
    <3>1. DOMAIN stack' = {1} /\ stack'[1].array = Len(heap) + 1
      BY <1>3, <2>2 DEF Open
    <3> QED
      BY <2>1, <2>2, <3>1 DEF Unfinished
  <2>3. CASE ~IsContainer(e)
    BY <1>3, <2>1, <2>3 DEF Unfinished
  <2> QED
    BY <2>1, <2>2, <2>3
<1>9. \A k \in 1 .. n : Value(h, elts[k]) = Value(heap, elts[k])
  <2>1. \A x : x.array = 0 \/ x.array \in DOMAIN heap \ Unfinished => Value(heap', x) = Value(heap, x)
    BY <1>1, <1>3, <1>4, <1>8, WriteKeepsSettled
  <2>2. \A k \in 1 .. n : elts[k].array = 0 \/ elts[k].array \in DOMAIN heap \ Unfinished
    BY <1>1, <1>2, <1>6, HomeParts
  <2> QED
    BY <1>6, <2>1, <2>2
<1>10. Shown(h, n) = Shown(heap, n)
  BY <1>6, <1>7, <1>9, ShownKept
<1>11. Attributes = Shown(heap, n)
       /\ Attributes' = Shown(h, IF stack' = <<>> THEN Len(h[1].elts) ELSE Len(h[1].elts) - 1)
  BY <1>1, <1>2, <1>6, NowAndThen
<1>12. CASE IsContainer(e)
  <2>1. stack' # <<>> /\ Len(h[1].elts) - 1 = n
    <3>1. stack' # <<>>
      BY <1>3, <1>12
    <3>2. Len(h[1].elts) - 1 = n
      BY <1>4, <1>7
    <3> QED
      BY <3>1, <3>2
  <2>2. Attributes' = Attributes
    BY <1>10, <1>11, <2>1
  <2> QED
    BY <1>3, <1>12, <2>2 DEF Map!mvars
<1>13. CASE ~IsContainer(e)
  <2>1. e.node \in Node /\ MaxDepth \in 0 .. MaxDepth /\ input.kind[e.node] \in Kind
    BY <1>1, <1>4, EntryInput, DepthAssumption DEF Child
  <2>2. input.kind[e.node] = "scalar"
    BY <1>3, <1>13, <2>1 DEF Kind, IsContainer, Accepts
  <2>3. out = [ok |-> TRUE, tree |-> [kind |-> "scalar", node |-> e.node, elts |-> <<>>]]
    BY <1>1, <1>2, <2>1, <2>2, OutcomeOf
  <2>4. out.ok /\ out.tree # Map!NoTree
    <3>1. out.tree.kind = "scalar" /\ Map!NoTree.kind = "none"
      BY <2>3 DEF Map!NoTree
    <3> QED
      BY <2>3, <3>1
  <2>5. Map!Free(e.name)
    <3>1. ~HasName(1, e.name)
      BY <1>3, <1>4 DEF Accepts
    <3>2. \A k \in 1 .. n : heap[1].elts[k].name # e.name
      BY <1>2, <3>1, HomeParts DEF HasName
    <3> QED
      BY <1>11, <3>2, FreeNames
  <2>6. w.name = e.name /\ w.node = e.node /\ w.array = 0
    BY <1>2, <1>4, <1>13 DEF Written
  <2>7. Value(h, w) = out.tree
    BY <2>3, <2>6 DEF Value
  <2>8. Attribute(h, n + 1) = [name |-> e.name, tree |-> out.tree]
    BY <1>7, <2>6, <2>7 DEF Attribute
  <2>9. Shown(h, n + 1) = Append(Shown(h, n), Attribute(h, n + 1))
    BY <1>4, OneMoreShown
  <2>10. Attributes' = Append(Attributes, [name |-> e.name, tree |-> out.tree])
    BY <1>1, <1>3, <1>7, <1>10, <1>11, <1>13, <2>8, <2>9
  <2> QED
    BY <1>2, <1>3, <1>13, <2>4, <2>5, <2>10 DEF Map!Apply
<1> QED
  BY <1>12, <1>13

LEMMA ApplyChildHidden ==
  ASSUME InjectionInv, InjectionInv', ApplyChild
  PROVE  UNCHANGED Map!mvars
<1>1. /\ InjectionTypeOK /\ DepthCeiling /\ Progress /\ stack # <<>> /\ InjectionTypeOK' /\ DepthCeiling'
      /\ Top.next <= Len(input.kids[Top.node])
  BY DEF InjectionInv, ApplyChild
<1>2. PICK e, a, m : e = input.kids[Top.node][Top.next] /\ a = Top.array /\ m = Len(stack)
  OBVIOUS
<1>3. /\ m \in DOMAIN stack /\ m \in Nat \ {0} /\ DOMAIN stack = 1 .. m /\ Top = stack[m]
      /\ DOMAIN stack' = 1 .. (IF IsContainer(e) THEN m + 1 ELSE m)
      /\ Len(stack') = IF IsContainer(e) THEN m + 1 ELSE m
      /\ \A f \in 1 .. m : stack'[f].array = stack[f].array
      /\ IsContainer(e) => stack'[m + 1] = Open(e)
  BY <1>1, <1>2, ChildStack
<1>4. /\ e \in Child /\ a \in DOMAIN heap /\ a \in Unfinished
      /\ Accepts(a, e) /\ Write(a, e) /\ UNCHANGED <<input, entry, failed>>
  <2>1. e \in Child
    BY <1>1, <1>2, TopChild
  <2>2. a \in DOMAIN heap
    BY <1>1, <1>2, TopFrame
  <2>3. a \in Unfinished
    BY <1>2, <1>3 DEF Unfinished
  <2> QED
    BY <1>2, <2>1, <2>2, <2>3 DEF ApplyChild
<1>5. Unfinished' = Unfinished \cup (IF IsContainer(e) THEN {Len(heap) + 1} ELSE {})
  <2>1. IsContainer(e) => stack'[m + 1].array = Len(heap) + 1
    BY <1>3 DEF Open
  <2>2. CASE IsContainer(e)
    <3>1. DOMAIN stack' = DOMAIN stack \cup {m + 1}
      BY <1>3, <2>2
    <3> QED
      BY <1>3, <2>1, <2>2, <3>1 DEF Unfinished
  <2>3. CASE ~IsContainer(e)
    BY <1>3, <2>3 DEF Unfinished
  <2> QED
    BY <2>2, <2>3
<1>6. heap'[1] = heap[1]
  <2>1. a # 1 /\ 1 \in DOMAIN heap
    BY <1>1, <1>2, <1>3, UnfinishedParts DEF Unfinished
  <2>2. \A b \in DOMAIN heap \ {a} : heap'[b] = heap[b]
    BY <1>1, <1>4, WriteEffect
  <2> QED
    BY <2>1, <2>2
<1>7. PICK h, n : h = heap' /\ n = Len(heap[1].elts) - 1
  OBVIOUS
<1>8. n \in Int /\ \A k \in 1 .. n : k \in DOMAIN heap[1].elts /\ k < Len(heap[1].elts)
  <2>1. Len(heap[1].elts) \in Nat /\ DOMAIN heap[1].elts = 1 .. Len(heap[1].elts)
    BY HomeParts
  <2> QED
    BY <1>7, <2>1
<1>9. \A k \in 1 .. n : /\ h[1].elts[k] = heap[1].elts[k]
                        /\ Value(h, heap[1].elts[k]) = Value(heap, heap[1].elts[k])
  <2>1. \A x : x.array = 0 \/ x.array \in DOMAIN heap \ Unfinished => Value(heap', x) = Value(heap, x)
    BY <1>1, <1>4, <1>5, WriteKeepsSettled
  <2>2. \A k \in 1 .. n : \/ heap[1].elts[k].array = 0
                          \/ heap[1].elts[k].array \in DOMAIN heap \ Unfinished
    BY <1>8, HomeParts
  <2> QED
    BY <1>6, <1>7, <2>1, <2>2
<1>10. Shown(h, n) = Shown(heap, n)
  BY <1>9, ShownKept
<1>11. stack' # <<>>
  <2>1. Len(stack') \in Nat /\ Len(stack') > 0
    BY <1>3
  <2> QED
    BY <2>1
<1>12. Attributes' = Attributes
  <2>1. Attributes = Shown(heap, n) /\ Attributes' = Shown(h, Len(h[1].elts) - 1)
    BY <1>1, <1>7, <1>11, NowAndThen
  <2>2. Len(h[1].elts) - 1 = n
    BY <1>6, <1>7
  <2> QED
    BY <1>10, <2>1, <2>2
<1> QED
  BY <1>4, <1>12 DEF Map!mvars

(***************************************************************************)
(* The entry in progress becomes visible, with what the first frame made.  *)
(***************************************************************************)
LEMMA EntryAppears ==
  ASSUME InjectionInv, InjectionInv', stack # <<>>, stack' = <<>>, UNCHANGED <<heap, input>>,
         entry' = entry + 1,
         Foretold(1).tree = [kind |-> input.kind[stack[1].node], node |-> stack[1].node,
                             elts |-> Trees(heap)[stack[1].array]],
         failed' = IF Foretold(1).ok THEN failed ELSE Append(failed, input.entries[entry].name)
  PROVE  Map!Apply
<1>1. InjectionTypeOK /\ DepthCeiling /\ NamesUnique /\ HomeInv /\ Progress
  BY DEF InjectionInv, Progress
<1>2. PICK e, out, n, x :
        /\ e = input.entries[entry] /\ out = Map!Outcome[MaxDepth][e.node]
        /\ n = Len(heap[1].elts) - 1 /\ x = heap[1].elts[Len(heap[1].elts)]
  OBVIOUS
<1>3. /\ 1 \in DOMAIN heap /\ heap[1].kind = "record" /\ Len(heap[1].elts) \in Nat
      /\ DOMAIN heap[1].elts = 1 .. Len(heap[1].elts)
  BY HomeParts
<1>4. /\ Len(heap[1].elts) > 0 /\ x.array = stack[1].array /\ x.node = stack[1].node
      /\ x.name = e.name /\ x.node = e.node
  BY <1>1, <1>2 DEF HomeInv, HeldBy
<1>5. n \in Nat /\ Len(heap[1].elts) = n + 1 /\ x = heap[1].elts[n + 1]
  BY <1>2, <1>3, <1>4
<1>6. 1 \in DOMAIN stack
  BY <1>1 DEF InjectionTypeOK
<1>7. out = Foretold(1)
  <2>1. (MaxDepth - 1) + 1 = MaxDepth
    BY DepthAssumption
  <2> QED
    BY <1>2, <1>4, <2>1 DEF Foretold
<1>8. Value(heap, x) = out.tree /\ out.tree # Map!NoTree
  <2>1. FrameInv(1)
    BY <1>1, <1>6 DEF Progress
  <2>2. stack[1].array \in DOMAIN heap /\ input.kind[stack[1].node] \in Container
    BY <1>1, <1>6, <2>1, FrameParts
  <2>3. heap[stack[1].array].kind = input.kind[stack[1].node]
    BY <2>1 DEF FrameInv
  <2>4. stack[1].array # 0
    BY <1>1, <2>2, ArrayParts
  <2>5. Value(heap, x) = out.tree
    BY <1>4, <1>7, <2>3, <2>4 DEF Value
  <2>6. out.tree.kind \in Container
    BY <1>7, <2>2
  <2>7. Map!NoTree.kind = "none"
    BY DEF Map!NoTree
  <2> QED
    BY <2>5, <2>6, <2>7 DEF Container
<1>9. Attribute(heap, n + 1) = [name |-> e.name, tree |-> out.tree]
  BY <1>4, <1>5, <1>8 DEF Attribute
<1>10. Attributes = Shown(heap, n) /\ Attributes' = Shown(heap, n + 1)
  BY <1>2, <1>5, NowAndThen
<1>11. Attributes' = Append(Attributes, [name |-> e.name, tree |-> out.tree])
  BY <1>5, <1>9, <1>10, OneMoreShown
<1>12. Map!Free(e.name)
  <2>1. \A k \in 1 .. n : heap[1].elts[k].name # e.name
    <3>1. \A k, l \in DOMAIN heap[1].elts :
            heap[1].elts[k].name = heap[1].elts[l].name => k = l
      BY <1>1, <1>3 DEF NamesUnique
    <3>2. n + 1 \in DOMAIN heap[1].elts /\ heap[1].elts[n + 1].name = e.name
      BY <1>3, <1>4, <1>5
    <3>3. \A k \in 1 .. n : k \in DOMAIN heap[1].elts /\ k # n + 1
      BY <1>3, <1>5
    <3> QED
      BY <3>1, <3>2, <3>3
  <2> QED
    BY <1>10, <2>1, FreeNames
<1>13. entry <= Len(input.entries) /\ e.name # NoName
  BY <1>1, <1>2 DEF InjectionTypeOK
<1>14. failed' = IF Map!Free(e.name) /\ out.ok THEN failed ELSE Append(failed, e.name)
  BY <1>2, <1>7, <1>12
<1> QED
  BY <1>2, <1>8, <1>11, <1>12, <1>13, <1>14 DEF Map!Apply

LEMMA ChildrenDoneApplies ==
  ASSUME InjectionInv, InjectionInv', ChildrenDone
  PROVE  Map!Apply \/ UNCHANGED Map!mvars
<1>1. /\ InjectionTypeOK /\ DepthCeiling /\ Progress /\ stack # <<>>
      /\ Top.next > Len(input.kids[Top.node])
  BY DEF InjectionInv, ChildrenDone
<1>2. /\ stack' = Callers /\ UNCHANGED <<input, heap, failed>>
      /\ entry' = IF Callers = <<>> THEN entry + 1 ELSE entry
  BY DEF ChildrenDone
<1>3. CASE Callers # <<>>
  <2>1. Attributes' = Attributes
    BY <1>1, <1>2, <1>3, NowAndThen
  <2> QED
    BY <1>2, <1>3, <2>1 DEF Map!mvars
<1>4. CASE Callers = <<>>
  <2>1. Len(stack) = 1 /\ Top = stack[1]
    <3>1. stack \in Seq(Frame)
      BY <1>1 DEF InjectionTypeOK
    <3>2. Len(stack) \in Nat \ {0}
      BY <1>1, <3>1
    <3>3. DOMAIN Callers = 1 .. Len(stack) - 1
      BY <3>1, <3>2 DEF Callers
    <3>4. DOMAIN Callers = {}
      BY <1>4
    <3>5. PICK m : m = Len(stack)
      OBVIOUS
    <3>6. m \in Nat \ {0} /\ 1 .. m - 1 = {}
      BY <3>2, <3>3, <3>4, <3>5
    <3>7. m = 1
      <4>1. m > 1 => 1 \in 1 .. m - 1
        BY <3>6
      <4> QED
        BY <3>6, <4>1
    <3> QED
      BY <3>5, <3>7 DEF Top
  <2>2. Foretold(1).ok
        /\ Foretold(1).tree = [kind |-> input.kind[stack[1].node], node |-> stack[1].node,
                               elts |-> Trees(heap)[stack[1].array]]
    BY <1>1, <2>1, TopDone
  <2> QED
    BY <1>1, <1>2, <1>4, <2>2, EntryAppears
<1> QED
  BY <1>3, <1>4

LEMMA RefuseChildApplies ==
  ASSUME InjectionInv, InjectionInv', RefuseChild
  PROVE  Map!Apply
<1>1. /\ InjectionTypeOK /\ DepthCeiling /\ KeysDistinct /\ Progress /\ stack # <<>>
      /\ Top.next <= Len(input.kids[Top.node])
      /\ ~Accepts(Top.array, input.kids[Top.node][Top.next])
  BY DEF InjectionInv, RefuseChild
<1>2. 1 \in DOMAIN stack
  BY <1>1 DEF InjectionTypeOK
<1>3. ~Foretold(1).ok
      /\ Foretold(1).tree = [kind |-> input.kind[stack[1].node], node |-> stack[1].node,
                             elts |-> Trees(heap)[stack[1].array]]
  BY <1>1, <1>2, AllFail
<1>4. /\ stack' = <<>> /\ failed' = Append(failed, input.entries[entry].name)
      /\ entry' = entry + 1 /\ UNCHANGED <<input, heap>>
  BY DEF RefuseChild
<1> QED
  BY <1>1, <1>3, <1>4, EntryAppears

(***************************************************************************)
(* What the children of an AttributeValue do one array write at a time is, *)
(* seen from the request loop, one step for the whole value: the home      *)
(* gains what Outcome says and the entry is reported once if a part fails. *)
(***************************************************************************)
THEOREM InjectionImplementsMap == InjectionSpec => ImplementsMap
<1>1. InjectionInit => Map!Init
  <2> SUFFICES ASSUME InjectionInit PROVE Map!Init
    OBVIOUS
  <2>1. InjectionInv
    BY InitInjection
  <2>2. stack = <<>> /\ Len(heap[1].elts) = 0
    BY DEF InjectionInit
  <2>3. Attributes = Shown(heap, 0)
    BY <2>1, <2>2, HomeAttributes DEF InjectionInv, Progress
  <2>4. Shown(heap, 0) = <<>>
    BY DEF Shown
  <2> QED
    BY <2>3, <2>4 DEF InjectionInit, Map!Init
<1>2. InjectionInv /\ InjectionInv' /\ [InjectionNext]_injectionVars => [Map!Apply]_(Map!mvars)
  <2> SUFFICES ASSUME InjectionInv, InjectionInv', [InjectionNext]_injectionVars
               PROVE  Map!Apply \/ UNCHANGED Map!mvars
    OBVIOUS
  <2>1. CASE UNCHANGED injectionVars
    <3>1. UNCHANGED <<input, entry, heap, stack, failed>>
      BY <2>1 DEF injectionVars
    <3>2. Attributes' = Attributes
      BY <3>1, NowAndThen
    <3> QED
      BY <3>1, <3>2 DEF Map!mvars
  <2> QED
    BY <2>1, SkipEntryApplies, ApplyEntryApplies, RefuseEntryApplies, ApplyChildHidden,
       RefuseChildApplies, ChildrenDoneApplies DEF InjectionNext
<1> QED
  BY <1>1, <1>2, InitInjection, NextInjection, PTL DEF InjectionSpec, ImplementsMap, Map!Spec

=============================================================================
