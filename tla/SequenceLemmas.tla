--------------------------- MODULE SequenceLemmas ---------------------------
(***************************************************************************)
(* Induction without a predicate as a parameter, which no prover here can  *)
(* instantiate: every nonempty set of numbers has a least one, so a        *)
(* statement holds of every number when no number is the least that it     *)
(* fails for.  From it, that recursive functions over an interval exist,   *)
(* what FlattenSeq makes of a list, and what numbers a text of digits      *)
(* writes.                                                                 *)
(***************************************************************************)
EXTENDS Texts, SequenceTheorems, WellFoundedInduction, TLAPS

LEMMA LeastNumber ==
  ASSUME NEW T, T \subseteq Nat, T # {}
  PROVE  \E x \in T : \A y \in T : x <= y
<1> DEFINE R == OpToRel(<, Nat)
<1>1. IsWellFoundedOn(R, Nat)
  BY NatLessThanWellFounded
<1>2. \A p \in Nat : \A q \in Nat : p < q => <<p, q>> \in R
  BY DEF OpToRel
<1> HIDE DEF R
<1>3. PICK x \in T : \A y \in T : ~(<<y, x>> \in R)
  BY <1>1, WFMin
<1>4. ASSUME NEW y \in T PROVE x <= y
  <2>1. x \in Nat /\ y \in Nat
    OBVIOUS
  <2>2. ~(y < x)
    BY <2>1, <1>2, <1>3
  <2> QED
    BY <2>1, <2>2
<1> QED
  BY <1>4

(***************************************************************************)
(* Induction: a set that has 0 and the successor of every number below n   *)
(* that it has goes up to n.                                               *)
(***************************************************************************)
LEMMA UpToNumber ==
  ASSUME NEW n \in Nat, NEW T, 0 \in T, \A k \in 0 .. n - 1 : k \in T => k + 1 \in T
  PROVE  \A k \in 0 .. n : k \in T
<1> DEFINE Bad == {k \in 0 .. n : k \notin T}
<1>1. SUFFICES ASSUME Bad # {} PROVE FALSE
  OBVIOUS
<1>2. Bad \subseteq Nat
  OBVIOUS
<1>3. PICK m \in Bad : \A y \in Bad : m <= y
  <2> HIDE DEF Bad
  <2> QED
    BY <1>1, <1>2, LeastNumber
<1>4. m \in 0 .. n /\ m \notin T /\ m # 0
  OBVIOUS
<1>5. m - 1 \in 0 .. n /\ m - 1 \notin Bad
  BY <1>3, <1>4
<1> QED
  BY <1>4, <1>5

(***************************************************************************)
(* A function may be defined by what it is at 0 and by a step from k to    *)
(* k + 1.                                                                  *)
(***************************************************************************)
Steps(n, S) == [0 .. n - 1 -> [S -> S]]

Stepwise(f, n, S, first, step) ==
  /\ f \in [0 .. n -> S]
  /\ f[0] = first
  /\ \A k \in 0 .. n - 1 : f[k + 1] = step[k][f[k]]

LEMMA Recursion ==
  ASSUME NEW S, NEW f0 \in S, NEW n \in Nat, NEW step \in Steps(n, S)
  PROVE  \E f : Stepwise(f, n, S, f0, step)
<1> DEFINE Ok(m) == \E f \in [0 .. m -> S] :
                      f[0] = f0 /\ \A k \in 0 .. m - 1 : f[k + 1] = step[k][f[k]]
           T == {m \in 0 .. n : Ok(m)}
<1>0. step \in [0 .. n - 1 -> [S -> S]]
  BY DEF Steps
<1>1. 0 \in T
  <2>1. Ok(0)
    <3> DEFINE f == [k \in 0 .. 0 |-> f0]
    <3>1. f \in [0 .. 0 -> S] /\ f[0] = f0
      OBVIOUS
    <3>2. \A k \in 0 .. 0 - 1 : FALSE
      OBVIOUS
    <3> HIDE DEF f
    <3> QED
      BY <3>1, <3>2
  <2> HIDE DEF Ok
  <2> QED
    BY <2>1
<1>2. ASSUME NEW m \in 0 .. n - 1, m \in T PROVE m + 1 \in T
  <2>1. PICK f \in [0 .. m -> S] : f[0] = f0 /\ \A k \in 0 .. m - 1 : f[k + 1] = step[k][f[k]]
    BY <1>2
  <2> DEFINE g == [k \in 0 .. m + 1 |-> IF k = m + 1 THEN step[m][f[m]] ELSE f[k]]
  <2>2. step[m] \in [S -> S] /\ f[m] \in S
    BY <1>0, <2>1
  <2>3. g \in [0 .. m + 1 -> S]
    BY <2>1, <2>2
  <2>4. g[0] = f0
    BY <2>1
  <2>5. ASSUME NEW k \in 0 .. (m + 1) - 1 PROVE g[k + 1] = step[k][g[k]]
    <3>1. CASE k = m
      BY <3>1
    <3>2. CASE k # m
      BY <3>2, <2>1
    <3> QED
      BY <3>1, <3>2
  <2>6. Ok(m + 1)
    <3> HIDE DEF g
    <3> QED
      BY <2>3, <2>4, <2>5
  <2>7. m + 1 \in 0 .. n
    OBVIOUS
  <2> HIDE DEF Ok
  <2> QED
    BY <2>6, <2>7
<1>3. n \in T
  <2>1. \A k \in 0 .. n : k \in T
    <3> HIDE DEF T
    <3> QED
      BY <1>1, <1>2, UpToNumber
  <2>2. n \in 0 .. n
    OBVIOUS
  <2> HIDE DEF T
  <2> QED
    BY <2>1, <2>2
<1> HIDE DEF Ok
<1>4. Ok(n)
  BY <1>3
<1> QED
  BY <1>4 DEF Ok, Stepwise

LEMMA StepwiseIs ==
  ASSUME NEW S, NEW f0 \in S, NEW n \in Nat, NEW step \in Steps(n, S),
         NEW w, DOMAIN w = 0 .. n, w = [k \in 0 .. n |-> w[k]], w[0] = f0,
         \A k \in 0 .. n - 1 : w[k] \in S => w[k + 1] = step[k][w[k]]
  PROVE  Stepwise(w, n, S, f0, step)
<1>1. step \in [0 .. n - 1 -> [S -> S]]
  BY DEF Steps
<1> DEFINE T == {k \in 0 .. n : w[k] \in S}
<1>2. 0 \in T
  OBVIOUS
<1>3. ASSUME NEW k \in 0 .. n - 1, k \in T PROVE k + 1 \in T
  <2>1. w[k] \in S
    BY <1>3
  <2>2. w[k + 1] = step[k][w[k]]
    BY <2>1
  <2>3. step[k] \in [S -> S] /\ k + 1 \in 0 .. n
    BY <1>1
  <2> QED
    BY <2>1, <2>2, <2>3
<1>4. \A k \in 0 .. n : k \in T
  <2> HIDE DEF T
  <2> QED
    BY <1>2, <1>3, UpToNumber
<1>5. \A k \in 0 .. n : w[k] \in S
  BY <1>4
<1>6. \A k \in 0 .. n - 1 : k \in 0 .. n
  OBVIOUS
<1>7. w \in [0 .. n -> S]
  BY <1>5
<1> QED
  BY <1>5, <1>6, <1>7 DEF Stepwise
-----------------------------------------------------------------------------
(***************************************************************************)
(* FlattenSeq puts the sequences behind one another, the first first.      *)
(***************************************************************************)
LEMMA FlattenUpTo ==
  ASSUME NEW S, NEW seqs \in Seq(Seq(S))
  PROVE  \E g \in [0 .. Len(seqs) -> Seq(S)] :
           /\ g[0] = <<>>
           /\ \A k \in 0 .. Len(seqs) - 1 : g[k + 1] = g[k] \o seqs[k + 1]
           /\ FlattenSeq(seqs) = g[Len(seqs)]
<1> DEFINE n == Len(seqs)
           Flat(g) == g = [i \in 1 .. n |-> IF i = 1 THEN seqs[i] ELSE g[i-1] \o seqs[i]]
           step == [k \in 0 .. n - 1 |-> [v \in Seq(S) |-> v \o seqs[k + 1]]]
<1>1. n \in Nat /\ \A k \in 0 .. n - 1 : k + 1 \in 1 .. n /\ seqs[k + 1] \in Seq(S)
  OBVIOUS
<1> HIDE DEF n
<1>2. step \in [0 .. n - 1 -> [Seq(S) -> Seq(S)]]
  <2>1. \A k \in 0 .. n - 1 : \A v \in Seq(S) : v \o seqs[k + 1] \in Seq(S)
    BY <1>1, ConcatProperties
  <2> QED
    BY <2>1
<1> DEFINE SS == Seq(S)
           nil == <<>>
<1>3. nil \in SS
  OBVIOUS
<1>4. PICK f : Stepwise(f, n, SS, nil, step)
  <2>1. n \in Nat /\ step \in Steps(n, SS)
    BY <1>1, <1>2 DEF Steps
  <2> HIDE DEF step, SS, nil
  <2> QED
    BY <1>3, <2>1, Recursion
<1> HIDE DEF step
<1>4a. /\ f \in [0 .. n -> Seq(S)] /\ f[0] = <<>>
       /\ \A k \in 0 .. n - 1 : f[k + 1] = step[k][f[k]]
  BY <1>4 DEF Stepwise
<1>5. ASSUME NEW k \in 0 .. n - 1 PROVE f[k + 1] = f[k] \o seqs[k + 1] /\ f[k] \in Seq(S)
  <2>1. k \in 0 .. n
    BY <1>1
  <2>2. f[k] \in Seq(S)
    BY <1>4a, <2>1
  <2>3. step[k][f[k]] = f[k] \o seqs[k + 1]
    BY <2>2 DEF step
  <2>4. f[k + 1] = step[k][f[k]]
    BY <1>4a
  <2> QED
    BY <2>2, <2>3, <2>4
<1>6. CASE n = 0
  <2>1. seqs = <<>>
    BY <1>6 DEF n
  <2>2. FlattenSeq(seqs) = <<>>
    BY <2>1 DEF FlattenSeq
  <2> QED
    BY <1>1, <1>4a, <1>5, <1>6, <2>2 DEF n
<1>7. CASE n # 0
  <2> DEFINE h == [i \in 1 .. n |-> f[i]]
             G == CHOOSE g : Flat(g)
  <2>1. Flat(h)
    <3>1. ASSUME NEW i \in 1 .. n
          PROVE  f[i] = IF i = 1 THEN seqs[i] ELSE h[i-1] \o seqs[i]
      <4>1. i - 1 \in 0 .. n - 1 /\ (i - 1) + 1 = i
        BY <1>1
      <4>2. f[i] = f[i-1] \o seqs[i] /\ seqs[i] \in Seq(S)
        BY <1>1, <1>5, <4>1
      <4>3. CASE i = 1
        <5>1. f[i-1] = <<>>
          BY <1>4a, <4>3
        <5> QED
          BY <4>2, <4>3, <5>1, ConcatEmptySeq
      <4>4. CASE i # 1
        <5>1. i - 1 \in 1 .. n
          BY <1>1, <4>4
        <5> QED
          BY <4>2, <4>4, <5>1
      <4> QED
        BY <4>3, <4>4
    <3> QED
      BY <3>1
  <2>2. Flat(G)
    <3> HIDE DEF Flat, h
    <3> QED
      BY <2>1
  <2>3. FlattenSeq(seqs) = G[n]
    <3>1. seqs # <<>>
      BY <1>7 DEF n
    <3> QED
      BY <3>1 DEF FlattenSeq, n
  <2> HIDE DEF G
  <2>4. \A i \in 1 .. n : G[i] = IF i = 1 THEN seqs[i] ELSE G[i-1] \o seqs[i]
    BY <2>2
  <2> DEFINE T == {i \in 0 .. n : i = 0 \/ G[i] = f[i]}
  <2>5. 0 \in T
    BY <1>1
  <2>6. ASSUME NEW k \in 0 .. n - 1, k \in T PROVE k + 1 \in T
    <3>1. f[k + 1] = f[k] \o seqs[k + 1]
      BY <1>5
    <3>2. k + 1 \in 1 .. n /\ (k + 1) - 1 = k
      BY <1>1
    <3>3. G[k + 1] = IF k + 1 = 1 THEN seqs[k + 1] ELSE G[k] \o seqs[k + 1]
      BY <2>4, <3>2
    <3>4. CASE k = 0
      <4>1. f[k + 1] = <<>> \o seqs[k + 1]
        BY <1>4a, <3>1, <3>4
      <4>2. seqs[k + 1] \in Seq(S)
        BY <1>1
      <4>3. f[k + 1] = seqs[k + 1]
        BY <4>1, <4>2, ConcatEmptySeq
      <4>4. G[k + 1] = seqs[k + 1]
        BY <3>3, <3>4
      <4> QED
        BY <1>1, <3>2, <4>3, <4>4
    <3>5. CASE k # 0
      <4>1. G[k] = f[k]
        BY <2>6, <3>5
      <4>2. k + 1 # 1 /\ k + 1 \in 0 .. n
        BY <1>1, <3>5
      <4>3. G[k + 1] = G[k] \o seqs[k + 1]
        BY <3>3, <4>2
      <4>4. G[k + 1] = f[k + 1]
        BY <3>1, <4>1, <4>3
      <4> QED
        BY <4>2, <4>4
    <3> QED
      BY <3>4, <3>5
  <2>7. \A k \in 0 .. n : k \in T
    <3> HIDE DEF T
    <3> QED
      BY <1>1, <2>5, <2>6, UpToNumber
  <2>8. FlattenSeq(seqs) = f[n]
    BY <1>1, <1>7, <2>3, <2>7
  <2> QED
    BY <1>4a, <1>5, <2>8 DEF n
<1> QED
  BY <1>6, <1>7

LEMMA FlattenEmpty == FlattenSeq(<<>>) = <<>>
BY DEF FlattenSeq

LEMMA FlattenType ==
  ASSUME NEW S, NEW seqs \in Seq(Seq(S))
  PROVE  FlattenSeq(seqs) \in Seq(S)
<1> DEFINE n == Len(seqs)
<1>1. n \in 0 .. n
  OBVIOUS
<1>2. \E g \in [0 .. n -> Seq(S)] : FlattenSeq(seqs) = g[n]
  BY FlattenUpTo
<1> HIDE DEF n
<1> QED
  BY <1>1, <1>2

LEMMA FlattenAppend ==
  ASSUME NEW S, NEW seqs \in Seq(Seq(S)), NEW x \in Seq(S)
  PROVE  FlattenSeq(Append(seqs, x)) = FlattenSeq(seqs) \o x
<1> DEFINE n == Len(seqs)
           more == Append(seqs, x)
<1>1. n \in Nat
  OBVIOUS
<1>2. /\ more \in Seq(Seq(S)) /\ Len(more) = n + 1
      /\ \A k \in 0 .. n - 1 : more[k + 1] = seqs[k + 1]
      /\ more[n + 1] = x
  <2>1. /\ more \in Seq(Seq(S)) /\ Len(more) = n + 1
        /\ \A k \in 1 .. n : more[k] = seqs[k]
        /\ more[n + 1] = x
    BY AppendProperties
  <2> HIDE DEF more, n
  <2> QED
    BY <1>1, <2>1
<1>3. PICK g \in [0 .. n -> Seq(S)] :
        /\ g[0] = <<>>
        /\ \A k \in 0 .. n - 1 : g[k + 1] = g[k] \o seqs[k + 1]
        /\ FlattenSeq(seqs) = g[n]
  BY FlattenUpTo
<1> HIDE DEF more
<1>4. PICK h \in [0 .. n + 1 -> Seq(S)] :
        /\ h[0] = <<>>
        /\ \A k \in 0 .. (n + 1) - 1 : h[k + 1] = h[k] \o more[k + 1]
        /\ FlattenSeq(more) = h[n + 1]
  <2>1. \E h \in [0 .. Len(more) -> Seq(S)] :
          /\ h[0] = <<>>
          /\ \A k \in 0 .. Len(more) - 1 : h[k + 1] = h[k] \o more[k + 1]
          /\ FlattenSeq(more) = h[Len(more)]
    BY <1>2, FlattenUpTo
  <2> HIDE DEF n
  <2> QED
    BY <1>2, <2>1
<1> HIDE DEF n
<1> DEFINE T == {k \in 0 .. n : h[k] = g[k]}
<1>5. 0 \in T
  BY <1>1, <1>3, <1>4
<1>6. ASSUME NEW k \in 0 .. n - 1, k \in T PROVE k + 1 \in T
  <2>1. k \in 0 .. (n + 1) - 1 /\ k + 1 \in 0 .. n
    BY <1>1
  <2>2. h[k + 1] = h[k] \o more[k + 1] /\ g[k + 1] = g[k] \o seqs[k + 1]
    BY <1>3, <1>4, <2>1
  <2>3. more[k + 1] = seqs[k + 1]
    BY <1>2
  <2> QED
    BY <1>6, <2>1, <2>2, <2>3
<1>7. h[n] = g[n]
  <2>1. \A k \in 0 .. n : k \in T
    <3> HIDE DEF T
    <3> QED
      BY <1>1, <1>5, <1>6, UpToNumber
  <2>2. n \in 0 .. n
    BY <1>1
  <2> QED
    BY <2>1, <2>2
<1>8. h[n + 1] = h[n] \o more[n + 1]
  <2>1. n \in 0 .. (n + 1) - 1
    BY <1>1
  <2> QED
    BY <1>4, <2>1
<1> QED
  BY <1>2, <1>3, <1>4, <1>7, <1>8 DEF more

(***************************************************************************)
(* The same for a list given by a function: one more element, and nothing  *)
(* but empty sequences.                                                    *)
(***************************************************************************)
LEMMA FlattenStep ==
  ASSUME NEW S, NEW n \in Nat, NEW f, \A k \in 1 .. n + 1 : f[k] \in Seq(S)
  PROVE  /\ FlattenSeq([k \in 1 .. n |-> f[k]]) \in Seq(S)
         /\ FlattenSeq([k \in 1 .. n + 1 |-> f[k]])
              = FlattenSeq([k \in 1 .. n |-> f[k]]) \o f[n + 1]
<1> DEFINE some == [k \in 1 .. n |-> f[k]]
           more == [k \in 1 .. n + 1 |-> f[k]]
<1>1. some \in Seq(Seq(S)) /\ more \in Seq(Seq(S)) /\ f[n + 1] \in Seq(S)
  <2> DEFINE SS == Seq(S)
  <2>1. \A k \in 1 .. n + 1 : f[k] \in SS
    OBVIOUS
  <2>2. \A k \in 1 .. n : f[k] \in SS
    BY <2>1
  <2>3. n + 1 \in Nat /\ n + 1 \in 1 .. n + 1
    OBVIOUS
  <2> HIDE DEF SS
  <2> QED
    BY <2>1, <2>2, <2>3, IsASeq DEF SS
<1>2. more = Append(some, f[n + 1])
  <2> DEFINE SS == Seq(S)
             last == f[n + 1]
  <2>1. some \in Seq(SS) /\ more \in Seq(SS) /\ last \in SS
    BY <1>1
  <2>2. Len(some) = n /\ Len(more) = n + 1
    OBVIOUS
  <2>3. \A k \in 1 .. n : some[k] = f[k] /\ more[k] = f[k]
    OBVIOUS
  <2>4. more[n + 1] = last
    OBVIOUS
  <2> HIDE DEF SS, last, some, more
  <2>5. /\ Append(some, last) \in Seq(SS) /\ Len(Append(some, last)) = n + 1
        /\ \A k \in 1 .. n : Append(some, last)[k] = some[k]
        /\ Append(some, last)[n + 1] = last
    BY <2>1, <2>2, AppendProperties
  <2>6. ASSUME NEW k \in 1 .. n + 1 PROVE more[k] = Append(some, last)[k]
    <3>1. CASE k = n + 1
      BY <2>4, <2>5, <3>1
    <3>2. CASE k # n + 1
      <4>1. k \in 1 .. n
        BY <3>2
      <4> QED
        BY <2>3, <2>5, <4>1
    <3> QED
      BY <3>1, <3>2
  <2>7. more = Append(some, last)
    BY <2>1, <2>2, <2>5, <2>6, SeqEqual
  <2> QED
    BY <2>7 DEF last
<1> HIDE DEF some, more
<1>3. FlattenSeq(some) \in Seq(S)
  BY <1>1, FlattenType
<1>4. FlattenSeq(more) = FlattenSeq(some) \o f[n + 1]
  BY <1>1, <1>2, FlattenAppend
<1> QED
  BY <1>3, <1>4 DEF some, more

LEMMA FlattenNothing ==
  ASSUME NEW n \in Nat, NEW f, \A k \in 1 .. n : f[k] = <<>>
  PROVE  FlattenSeq([k \in 1 .. n |-> f[k]]) = <<>>
<1> DEFINE seqs == [k \in 1 .. n |-> f[k]]
           SS == Seq({})
<1>1. seqs \in Seq(SS) /\ Len(seqs) = n /\ \A k \in 1 .. n : seqs[k] = <<>>
  <2>1. <<>> \in SS
    OBVIOUS
  <2>2. \A k \in 1 .. n : f[k] \in SS
    BY <2>1
  <2> HIDE DEF SS
  <2>3. seqs \in Seq(SS)
    BY <2>2, IsASeq
  <2>4. Len(seqs) = n /\ \A k \in 1 .. n : seqs[k] = <<>>
    OBVIOUS
  <2> QED
    BY <2>3, <2>4
<1> HIDE DEF seqs
<1>2. PICK g \in [0 .. n -> SS] :
        /\ g[0] = <<>>
        /\ \A k \in 0 .. n - 1 : g[k + 1] = g[k] \o seqs[k + 1]
        /\ FlattenSeq(seqs) = g[n]
  <2>1. \E g \in [0 .. Len(seqs) -> SS] :
          /\ g[0] = <<>>
          /\ \A k \in 0 .. Len(seqs) - 1 : g[k + 1] = g[k] \o seqs[k + 1]
          /\ FlattenSeq(seqs) = g[Len(seqs)]
    BY <1>1, FlattenUpTo
  <2> QED
    BY <1>1, <2>1
<1> DEFINE T == {k \in 0 .. n : g[k] = <<>>}
<1>3. 0 \in T
  BY <1>2
<1>4. ASSUME NEW k \in 0 .. n - 1, k \in T PROVE k + 1 \in T
  <2>1. g[k + 1] = <<>> \o <<>>
    <3>1. k + 1 \in 1 .. n
      OBVIOUS
    <3> QED
      BY <1>1, <1>2, <1>4, <3>1
  <2>2. <<>> \o <<>> = <<>>
    BY ConcatEmptySeq
  <2> QED
    BY <2>1, <2>2
<1>5. \A k \in 0 .. n : k \in T
  <2> HIDE DEF T
  <2> QED
    BY <1>3, <1>4, UpToNumber
<1> QED
  BY <1>2, <1>5 DEF seqs
(***************************************************************************)
(* What is in a flattened list is what is in its parts.                    *)
(***************************************************************************)
LEMMA ContainsConcat ==
  ASSUME NEW S, NEW s \in Seq(S), NEW t \in Seq(S), NEW x
  PROVE  Contains(s \o t, x) <=> Contains(s, x) \/ Contains(t, x)
<1>1. PICK st, m, n : st = s \o t /\ m = Len(s) /\ n = Len(t)
  OBVIOUS
<1>2. /\ m \in Nat /\ n \in Nat /\ DOMAIN s = 1 .. m /\ DOMAIN t = 1 .. n
      /\ DOMAIN st = 1 .. m + n
      /\ \A k \in 1 .. m : st[k] = s[k]
      /\ \A k \in m + 1 .. m + n : st[k] = t[k - m]
  BY <1>1
<1>3. \A k \in 1 .. m : k \in 1 .. m + n
  BY <1>2
<1>4. \A k \in 1 .. n : k + m \in m + 1 .. m + n /\ k + m \in 1 .. m + n /\ (k + m) - m = k
  BY <1>2
<1>5. \A k \in 1 .. m + n : k \in 1 .. m \/ (k \in m + 1 .. m + n /\ k - m \in 1 .. n)
  BY <1>2
<1>6. \A k \in 1 .. n : st[k + m] = t[k]
  BY <1>2, <1>4
<1>7. Contains(st, x) => Contains(s, x) \/ Contains(t, x)
  BY <1>2, <1>5 DEF Contains
<1>8. Contains(s, x) => Contains(st, x)
  BY <1>2, <1>3 DEF Contains
<1>9. Contains(t, x) => Contains(st, x)
  BY <1>2, <1>4, <1>6 DEF Contains
<1> QED
  BY <1>1, <1>7, <1>8, <1>9

LEMMA FlattenContains ==
  ASSUME NEW S, NEW seqs \in Seq(Seq(S)), NEW x
  PROVE  Contains(FlattenSeq(seqs), x) <=> \E k \in DOMAIN seqs : Contains(seqs[k], x)
<1>1. PICK n : n = Len(seqs)
  OBVIOUS
<1>2. n \in Nat /\ DOMAIN seqs = 1 .. n /\ \A k \in 1 .. n : seqs[k] \in Seq(S)
  BY <1>1
<1>3. PICK g \in [0 .. n -> Seq(S)] :
        /\ g[0] = <<>>
        /\ \A k \in 0 .. n - 1 : g[k + 1] = g[k] \o seqs[k + 1]
        /\ FlattenSeq(seqs) = g[n]
  BY <1>1, FlattenUpTo
<1> DEFINE Same(k) == Contains(g[k], x) <=> \E l \in 1 .. k : Contains(seqs[l], x)
           T == {k \in 0 .. n : Same(k)}
<1>4. 0 \in T
  <2>1. ~Contains(g[0], x)
    BY <1>3 DEF Contains
  <2>2. 1 .. 0 = {}
    OBVIOUS
  <2> QED
    BY <1>2, <2>1, <2>2
<1>5. ASSUME NEW k \in 0 .. n - 1, k \in T PROVE k + 1 \in T
  <2>1. k + 1 \in 0 .. n /\ k + 1 \in 1 .. n /\ k \in 0 .. n
    BY <1>2
  <2>2. \A l : l \in 1 .. k + 1 <=> l \in 1 .. k \/ l = k + 1
    BY <1>2
  <2>3. Contains(g[k + 1], x) <=> Contains(g[k], x) \/ Contains(seqs[k + 1], x)
    <3>1. g[k] \in Seq(S) /\ seqs[k + 1] \in Seq(S) /\ g[k + 1] = g[k] \o seqs[k + 1]
      BY <1>2, <1>3, <2>1
    <3> QED
      BY <3>1, ContainsConcat
  <2>4. Same(k)
    BY <1>5
  <2>5. Same(k + 1)
    BY <2>2, <2>3, <2>4
  <2> QED
    BY <2>1, <2>5
<1>6. n \in T
  <2> HIDE DEF T
  <2>1. \A k \in 0 .. n : k \in T
    BY <1>2, <1>4, <1>5, UpToNumber
  <2> QED
    BY <1>2, <2>1
<1> QED
  BY <1>2, <1>3, <1>6

-----------------------------------------------------------------------------
(***************************************************************************)
(* A power is a table of powers.                                           *)
(***************************************************************************)
LEMMA PowTable ==
  ASSUME NEW base \in Nat, NEW n \in Nat
  PROVE  \E f \in [0 .. n -> Nat] :
           /\ f[0] = 1
           /\ \A k \in 0 .. n - 1 : f[k + 1] = f[k] * base
           /\ Pow(base, n) = f[n]
<1> DEFINE one == 1
           Is(w) == w = [k \in 0 .. n |-> IF k = 0 THEN 1 ELSE w[k - 1] * base]
           onward == [k \in 0 .. n - 1 |-> [x \in Nat |-> x * base]]
<1>1. PICK h : Stepwise(h, n, Nat, one, onward)
  <2>1. onward \in Steps(n, Nat)
    BY DEF Steps
  <2>2. one \in Nat
    OBVIOUS
  <2> HIDE DEF onward, one
  <2> QED
    BY <2>1, <2>2, Recursion
<1>2. /\ h \in [0 .. n -> Nat] /\ h[0] = 1
      /\ \A k \in 0 .. n - 1 : h[k + 1] = h[k] * base
  <2>1. /\ h \in [0 .. n -> Nat] /\ h[0] = 1
        /\ \A k \in 0 .. n - 1 : h[k + 1] = onward[k][h[k]]
    BY <1>1 DEF Stepwise
  <2>2. ASSUME NEW k \in 0 .. n - 1 PROVE h[k + 1] = h[k] * base
    <3>1. h[k] \in Nat
      BY <2>1
    <3>2. onward[k][h[k]] = h[k] * base
      BY <3>1
    <3> QED
      BY <2>1, <3>2
  <2> QED
    BY <2>1, <2>2
<1>3. Is(h)
  <2>1. ASSUME NEW i \in 0 .. n, i # 0 PROVE h[i] = h[i - 1] * base
    <3>1. i - 1 \in 0 .. n - 1 /\ (i - 1) + 1 = i
      BY <2>1
    <3> QED
      BY <1>2, <3>1
  <2> QED
    BY <1>2, <2>1
<1>4. PICK w : w = CHOOSE v : Is(v)
  OBVIOUS
<1>5. Is(w)
  <2> HIDE DEF Is
  <2> QED
    BY <1>3, <1>4
<1>6. Pow(base, n) = w[n]
  BY <1>4 DEF Pow
<1>7. \A i \in 0 .. n : w[i] = IF i = 0 THEN 1 ELSE w[i - 1] * base
  BY <1>5
<1> DEFINE T == {i \in 0 .. n : w[i] = h[i]}
<1>8. 0 \in T
  BY <1>2, <1>7
<1>9. ASSUME NEW k \in 0 .. n - 1, k \in T PROVE k + 1 \in T
  <2>1. k + 1 \in 0 .. n /\ k + 1 # 0 /\ (k + 1) - 1 = k
    OBVIOUS
  <2>2. w[k + 1] = w[k] * base
    BY <1>7, <2>1
  <2> QED
    BY <1>2, <1>9, <2>1, <2>2
<1>10. n \in T
  <2>1. \A i \in 0 .. n : i \in T
    <3> HIDE DEF T
    <3> QED
      BY <1>8, <1>9, UpToNumber
  <2> QED
    BY <2>1
<1> QED
  BY <1>2, <1>6, <1>10

LEMMA PowStep ==
  ASSUME NEW base \in Nat, NEW n \in Nat
  PROVE  /\ Pow(base, 0) = 1
         /\ Pow(base, n) \in Nat /\ Pow(base, n + 1) = Pow(base, n) * base
<1>1. Pow(base, 0) = 1
  <2>1. PICK f \in [0 .. 0 -> Nat] : f[0] = 1 /\ Pow(base, 0) = f[0]
    <3>1. 0 \in Nat
      OBVIOUS
    <3> QED
      BY <3>1, PowTable
  <2> QED
    BY <2>1
<1>2. PICK f \in [0 .. n -> Nat] :
        /\ f[0] = 1
        /\ \A k \in 0 .. n - 1 : f[k + 1] = f[k] * base
        /\ Pow(base, n) = f[n]
  BY PowTable
<1>3. PICK m \in Nat : m = n + 1
  OBVIOUS
<1>4. PICK g \in [0 .. m -> Nat] :
        /\ g[0] = 1
        /\ \A k \in 0 .. m - 1 : g[k + 1] = g[k] * base
        /\ Pow(base, m) = g[m]
  BY PowTable
<1> DEFINE T == {k \in 0 .. n : g[k] = f[k]}
<1>5. 0 \in T
  BY <1>2, <1>4
<1>6. ASSUME NEW k \in 0 .. n - 1, k \in T PROVE k + 1 \in T
  <2>1. k \in 0 .. m - 1 /\ k + 1 \in 0 .. n
    BY <1>3
  <2>2. g[k + 1] = g[k] * base /\ f[k + 1] = f[k] * base
    BY <1>2, <1>4, <2>1
  <2> QED
    BY <1>6, <2>1, <2>2
<1>7. n \in T
  <2>1. \A i \in 0 .. n : i \in T
    <3> HIDE DEF T
    <3> QED
      BY <1>5, <1>6, UpToNumber
  <2> QED
    BY <2>1
<1>8. g[m] = g[n] * base
  <2>1. n \in 0 .. m - 1
    BY <1>3
  <2> QED
    BY <1>3, <1>4, <2>1
<1>9. f[n] \in Nat
  BY <1>2
<1> QED
  BY <1>1, <1>2, <1>3, <1>4, <1>7, <1>8, <1>9

LEMMA PowOfTen ==
  ASSUME NEW n \in Nat
  PROVE  Pow(10, n) \in Nat \ {0} /\ Pow(10, n + 1) = Pow(10, n) * 10
<1>1. PICK f \in [0 .. n -> Nat] :
        /\ f[0] = 1
        /\ \A k \in 0 .. n - 1 : f[k + 1] = f[k] * 10
        /\ Pow(10, n) = f[n]
  <2>1. 10 \in Nat
    OBVIOUS
  <2> QED
    BY <2>1, PowTable
<1> DEFINE T == {k \in 0 .. n : f[k] > 0}
<1>2. 0 \in T
  BY <1>1
<1>3. ASSUME NEW k \in 0 .. n - 1, k \in T PROVE k + 1 \in T
  <2>1. f[k] \in Nat /\ f[k] > 0 /\ k + 1 \in 0 .. n /\ f[k + 1] = f[k] * 10
    BY <1>1, <1>3
  <2> QED
    BY <2>1
<1>4. n \in T
  <2>1. \A i \in 0 .. n : i \in T
    <3> HIDE DEF T
    <3> QED
      BY <1>2, <1>3, UpToNumber
  <2> QED
    BY <2>1
<1>5. Pow(10, n + 1) = Pow(10, n) * 10
  <2>1. 10 \in Nat
    OBVIOUS
  <2> QED
    BY <2>1, PowStep
<1>6. f[n] \in Nat
  BY <1>1
<1> QED
  BY <1>1, <1>4, <1>5, <1>6

LEMMA PowPositive ==
  ASSUME NEW base \in Nat \ {0}, NEW n \in Nat
  PROVE  Pow(base, n) \in Nat \ {0}
<1> DEFINE T == {k \in 0 .. n : Pow(base, k) # 0}
<1>1. 0 \in T
  BY PowStep
<1>2. ASSUME NEW k \in 0 .. n - 1, k \in T PROVE k + 1 \in T
  <2>1. PICK x \in Nat : x = Pow(base, k) /\ x # 0 /\ Pow(base, k + 1) = x * base
    BY <1>2, PowStep
  <2>2. x * base # 0
    BY <2>1, SMTT(30)
  <2> QED
    BY <2>1, <2>2
<1>3. \A k \in 0 .. n : k \in T
  <2> HIDE DEF T
  <2> QED
    BY <1>1, <1>2, UpToNumber
<1> QED
  BY <1>3, PowStep

LEMMA PowSum ==
  ASSUME NEW base \in Nat, NEW m \in Nat, NEW n \in Nat
  PROVE  Pow(base, m + n) = Pow(base, m) * Pow(base, n)
<1>1. PICK a \in Nat : a = Pow(base, m)
  BY PowStep
<1> DEFINE T == {k \in 0 .. n : Pow(base, m + k) = a * Pow(base, k)}
<1>2. 0 \in T
  <2>1. Pow(base, 0) = 1 /\ m + 0 = m
    BY PowStep
  <2> QED
    BY <1>1, <2>1
<1>3. ASSUME NEW k \in 0 .. n - 1, k \in T PROVE k + 1 \in T
  <2>1. PICK x \in Nat : x = Pow(base, k) /\ Pow(base, k + 1) = x * base
    <3>1. k \in Nat
      OBVIOUS
    <3> QED
      BY <3>1, PowStep
  <2>2. PICK y \in Nat : y = Pow(base, m + k) /\ Pow(base, (m + k) + 1) = y * base
    <3>1. m + k \in Nat
      OBVIOUS
    <3> QED
      BY <3>1, PowStep
  <2>3. y = a * x
    BY <1>3, <2>1, <2>2
  <2>4. y * base = a * (x * base)
    BY <2>3, SMTT(30)
  <2>5. (m + k) + 1 = m + (k + 1)
    OBVIOUS
  <2> QED
    BY <2>1, <2>2, <2>4, <2>5
<1>4. \A k \in 0 .. n : k \in T
  <2> HIDE DEF T
  <2> QED
    BY <1>2, <1>3, UpToNumber
<1> QED
  BY <1>1, <1>4

LEMMA PowOfPow ==
  ASSUME NEW base \in Nat, NEW m \in Nat, NEW n \in Nat
  PROVE  Pow(Pow(base, m), n) = Pow(base, m * n)
<1>1. PICK a \in Nat : a = Pow(base, m)
  BY PowStep
<1> DEFINE T == {k \in 0 .. n : Pow(a, k) = Pow(base, m * k)}
<1>2. 0 \in T
  <2>1. Pow(base, 0) = 1 /\ Pow(a, 0) = 1 /\ m * 0 = 0
    BY PowStep
  <2> QED
    BY <2>1
<1>3. ASSUME NEW k \in 0 .. n - 1, k \in T PROVE k + 1 \in T
  <2>1. Pow(a, k + 1) = Pow(a, k) * a /\ Pow(a, k) \in Nat
    BY PowStep
  <2>2. PICK j \in Nat : j = m * k
    BY SMTT(30)
  <2>3. m * (k + 1) = m + j
    BY <2>2, SMTT(30)
  <2>4. Pow(base, m + j) = a * Pow(base, j)
    BY <1>1, PowSum
  <2>5. PICK x \in Nat : x = Pow(a, k) /\ x = Pow(base, j)
    BY <1>3, <2>1, <2>2
  <2>6. x * a = a * x
    BY SMTT(30)
  <2> QED
    BY <2>1, <2>3, <2>4, <2>5, <2>6
<1>4. \A k \in 0 .. n : k \in T
  <2> HIDE DEF T
  <2> QED
    BY <1>2, <1>3, UpToNumber
<1> QED
  BY <1>1, <1>4

(***************************************************************************)
(* A larger exponent makes a larger power.                                 *)
(***************************************************************************)
LEMMA PowMonotone ==
  ASSUME NEW base \in Nat \ {0, 1}, NEW m \in Nat, NEW n \in Nat
  PROVE  m <= n <=> Pow(base, m) <= Pow(base, n)
<1>1. ASSUME NEW i \in Nat, NEW j \in Nat, i <= j PROVE Pow(base, i) <= Pow(base, j)
  <2>1. PICK d \in Nat : j = i + d
    <3>1. j - i \in Nat /\ j = i + (j - i)
      BY <1>1
    <3> QED
      BY <3>1
  <2>2. PICK x \in Nat \ {0}, y \in Nat \ {0} : x = Pow(base, i) /\ y = Pow(base, d)
    BY PowPositive
  <2>3. Pow(base, j) = x * y
    BY <2>1, <2>2, PowSum
  <2>4. x <= x * y
    BY SMTT(30)
  <2> QED
    BY <2>2, <2>3, <2>4
<1>2. ASSUME n < m PROVE Pow(base, n) < Pow(base, m)
  <2>1. PICK x \in Nat \ {0} : x = Pow(base, n) /\ Pow(base, n + 1) = x * base
    BY PowPositive, PowStep
  <2>2. x < x * base
    BY SMTT(30)
  <2>3. Pow(base, n + 1) <= Pow(base, m)
    <3>1. n + 1 \in Nat /\ n + 1 <= m
      BY <1>2
    <3> QED
      BY <1>1, <3>1
  <2>4. Pow(base, m) \in Nat /\ Pow(base, n + 1) \in Nat
    <3>1. base \in Nat /\ n + 1 \in Nat
      OBVIOUS
    <3> QED
      BY <3>1, PowStep
  <2> QED
    BY <2>1, <2>2, <2>3, <2>4
<1>3. Pow(base, n) \in Nat /\ Pow(base, m) \in Nat
  BY PowStep
<1> QED
  BY <1>1, <1>2, <1>3
-----------------------------------------------------------------------------
(***************************************************************************)
(* Division with a remainder, for divisors that are not numerals.          *)
(***************************************************************************)
LEMMA Euclid ==
  ASSUME NEW x \in Int, NEW b \in Nat \ {0}
  PROVE  x \div b \in Int /\ x % b \in 0 .. b - 1 /\ x = (x \div b) * b + (x % b)
BY SMTT(30)

LEMMA EuclidUnique ==
  ASSUME NEW q \in Int, NEW b \in Nat \ {0}, NEW r \in 0 .. b - 1
  PROVE  (q * b + r) \div b = q /\ (q * b + r) % b = r
<1>1. PICK x \in Int : x = q * b + r
  OBVIOUS
<1>2. PICK p \in Int, t \in 0 .. b - 1 : p = x \div b /\ t = x % b /\ x = p * b + t
  BY Euclid
<1>3. (q - p) * b = t - r
  BY <1>1, <1>2, SMTT(30)
<1>4. q - p = 0
  <2>1. CASE q - p >= 1
    <3>1. (q - p) * b >= b
      BY <2>1, SMTT(30)
    <3> QED
      BY <1>2, <1>3, <3>1
  <2>2. CASE q - p <= -1
    <3>1. (q - p) * b <= -b
      BY <2>2, SMTT(30)
    <3> QED
      BY <1>2, <1>3, <3>1
  <2> QED
    BY <1>2, <2>1, <2>2
<1>5. p = q /\ t = r
  BY <1>1, <1>2, <1>3, <1>4
<1> QED
  BY <1>1, <1>2, <1>5

LEMMA DivideTwice ==
  ASSUME NEW b \in Nat \ {0}, NEW c \in Nat \ {0}, NEW x \in Nat
  PROVE  (x \div b) \div c = x \div (b * c)
BY SMTT(30)

LEMMA NaturalQuotient ==
  ASSUME NEW x \in Nat, NEW b \in Nat \ {0}
  PROVE  x \div b \in Nat
<1>1. PICK q \in Int, r \in 0 .. b - 1 : q = x \div b /\ x = q * b + r
  BY Euclid
<1>2. CASE q <= -1
  <2>1. q * b <= -b
    BY <1>2, SMTT(30)
  <2> QED
    BY <1>1, <2>1
<1> QED
  BY <1>1, <1>2

LEMMA NaturalEuclid ==
  ASSUME NEW x \in Nat, NEW b \in Nat \ {0}
  PROVE  \E q \in Nat, r \in 0 .. b - 1 : q = x \div b /\ r = x % b /\ x = q * b + r
BY Euclid, NaturalQuotient

(***************************************************************************)
(* The number that digits write, digit by digit.                           *)
(***************************************************************************)
LEMMA HornerTable ==
  ASSUME NEW base \in Nat, NEW digits \in Seq(Nat)
  PROVE  \E f \in [0 .. Len(digits) -> Nat] :
           /\ f[0] = 0
           /\ \A k \in 0 .. Len(digits) - 1 : f[k + 1] = f[k] * base + digits[k + 1]
           /\ Horner(digits, base) = f[Len(digits)]
<1>1. PICK n \in Nat : n = Len(digits)
  OBVIOUS
<1>2. \A k \in 0 .. n - 1 : k + 1 \in 1 .. n /\ digits[k + 1] \in Nat
  BY <1>1
<1> DEFINE zero == 0
           Is(w) == w = [k \in 0 .. n |-> IF k = 0 THEN 0 ELSE w[k - 1] * base + digits[k]]
           onward == [k \in 0 .. n - 1 |-> [x \in Nat |-> x * base + digits[k + 1]]]
<1>3. PICK h : Stepwise(h, n, Nat, zero, onward)
  <2>1. onward \in Steps(n, Nat)
    BY <1>2 DEF Steps
  <2>2. zero \in Nat
    OBVIOUS
  <2> HIDE DEF onward, zero
  <2> QED
    BY <2>1, <2>2, Recursion
<1>4. /\ h \in [0 .. n -> Nat] /\ h[0] = 0
      /\ \A k \in 0 .. n - 1 : h[k + 1] = h[k] * base + digits[k + 1]
  <2>1. /\ h \in [0 .. n -> Nat] /\ h[0] = 0
        /\ \A k \in 0 .. n - 1 : h[k + 1] = onward[k][h[k]]
    BY <1>3 DEF Stepwise
  <2>2. ASSUME NEW k \in 0 .. n - 1 PROVE h[k + 1] = h[k] * base + digits[k + 1]
    <3>1. h[k] \in Nat
      BY <2>1
    <3>2. onward[k][h[k]] = h[k] * base + digits[k + 1]
      BY <3>1
    <3> QED
      BY <2>1, <3>2
  <2> QED
    BY <2>1, <2>2
<1>5. Is(h)
  <2>1. ASSUME NEW i \in 0 .. n, i # 0 PROVE h[i] = h[i - 1] * base + digits[i]
    <3>1. i - 1 \in 0 .. n - 1 /\ (i - 1) + 1 = i
      BY <2>1
    <3> QED
      BY <1>4, <3>1
  <2> QED
    BY <1>4, <2>1
<1>6. PICK w : w = CHOOSE v : Is(v)
  OBVIOUS
<1>7. Is(w)
  <2> HIDE DEF Is
  <2> QED
    BY <1>5, <1>6
<1>8. Horner(digits, base) = w[n]
  BY <1>1, <1>6 DEF Horner
<1>9. \A i \in 0 .. n : w[i] = IF i = 0 THEN 0 ELSE w[i - 1] * base + digits[i]
  BY <1>7
<1> DEFINE T == {i \in 0 .. n : w[i] = h[i]}
<1>10. 0 \in T
  BY <1>4, <1>9
<1>11. ASSUME NEW k \in 0 .. n - 1, k \in T PROVE k + 1 \in T
  <2>1. k + 1 \in 0 .. n /\ k + 1 # 0 /\ (k + 1) - 1 = k
    OBVIOUS
  <2>2. w[k + 1] = w[k] * base + digits[k + 1]
    BY <1>9, <2>1
  <2> QED
    BY <1>4, <1>11, <2>1, <2>2
<1>12. n \in T
  <2>1. \A i \in 0 .. n : i \in T
    <3> HIDE DEF T
    <3> QED
      BY <1>10, <1>11, UpToNumber
  <2> QED
    BY <2>1
<1> QED
  BY <1>1, <1>4, <1>8, <1>12

LEMMA HornerStep ==
  ASSUME NEW base \in Nat, NEW digits \in Seq(Nat), NEW d \in Nat
  PROVE  /\ Horner(<<>>, base) = 0
         /\ Horner(digits, base) \in Nat
         /\ Horner(Append(digits, d), base) = Horner(digits, base) * base + d
<1>1. Horner(<<>>, base) = 0
  <2>1. <<>> \in Seq(Nat) /\ Len(<<>>) = 0
    OBVIOUS
  <2>2. PICK f \in [0 .. Len(<<>>) -> Nat] : f[0] = 0 /\ Horner(<<>>, base) = f[Len(<<>>)]
    BY <2>1, HornerTable
  <2> QED
    BY <2>1, <2>2
<1>2. PICK n \in Nat : n = Len(digits)
  OBVIOUS
<1>3. PICK more \in Seq(Nat) : more = Append(digits, d)
  BY AppendProperties
<1>a. PICK m \in Nat : m = n + 1
  OBVIOUS
<1>4. /\ Len(more) = m /\ more[n + 1] = d
      /\ \A k \in 0 .. n - 1 : more[k + 1] = digits[k + 1]
  BY <1>2, <1>3, <1>a, AppendProperties
<1>5. PICK f \in [0 .. n -> Nat] :
        /\ f[0] = 0
        /\ \A k \in 0 .. n - 1 : f[k + 1] = f[k] * base + digits[k + 1]
        /\ Horner(digits, base) = f[n]
  BY <1>2, HornerTable
<1>6. PICK g \in [0 .. m -> Nat] :
        /\ g[0] = 0
        /\ \A k \in 0 .. m - 1 : g[k + 1] = g[k] * base + more[k + 1]
        /\ Horner(more, base) = g[m]
  BY <1>4, HornerTable
<1> DEFINE T == {k \in 0 .. n : g[k] = f[k]}
<1>7. 0 \in T
  BY <1>5, <1>6
<1>8. ASSUME NEW k \in 0 .. n - 1, k \in T PROVE k + 1 \in T
  <2>1. k \in 0 .. m - 1 /\ k + 1 \in 0 .. n
    BY <1>a
  <2>2. g[k + 1] = g[k] * base + more[k + 1] /\ f[k + 1] = f[k] * base + digits[k + 1]
    BY <1>5, <1>6, <2>1
  <2>3. more[k + 1] = digits[k + 1] /\ g[k] = f[k]
    BY <1>4, <1>8
  <2> QED
    BY <2>1, <2>2, <2>3
<1>9. g[n] = f[n]
  <2>1. \A k \in 0 .. n : k \in T
    <3> HIDE DEF T
    <3> QED
      BY <1>7, <1>8, UpToNumber
  <2> QED
    BY <2>1
<1>10. g[n + 1] = g[n] * base + more[n + 1]
  <2>1. n \in 0 .. m - 1
    BY <1>a
  <2> QED
    BY <1>6, <2>1
<1> QED
  BY <1>1, <1>3, <1>a, <1>4, <1>5, <1>6, <1>9, <1>10

(***************************************************************************)
(* Digits write a number that is smaller than the power of their length.   *)
(***************************************************************************)
LEMMA HornerBound ==
  ASSUME NEW base \in Nat \ {0}, NEW digits \in Seq(0 .. base - 1)
  PROVE  Horner(digits, base) \in Nat /\ Horner(digits, base) < Pow(base, Len(digits))
<1>1. PICK n \in Nat : n = Len(digits)
  OBVIOUS
<1>2. base \in Nat /\ digits \in Seq(Nat)
  <2>1. 0 .. base - 1 \subseteq Nat
    OBVIOUS
  <2> QED
    BY <2>1, SeqMonotonic
<1>3. PICK f \in [0 .. n -> Nat] :
        /\ f[0] = 0
        /\ \A k \in 0 .. n - 1 : f[k + 1] = f[k] * base + digits[k + 1]
        /\ Horner(digits, base) = f[n]
  BY <1>1, <1>2, HornerTable
<1> DEFINE T == {k \in 0 .. n : f[k] < Pow(base, k)}
<1>4. 0 \in T
  <2>1. Pow(base, 0) = 1
    BY <1>2, PowStep
  <2> QED
    BY <1>3, <2>1
<1>5. ASSUME NEW k \in 0 .. n - 1, k \in T PROVE k + 1 \in T
  <2>1. k \in Nat /\ k + 1 \in 0 .. n /\ k + 1 \in 1 .. n /\ k \in 0 .. n
    OBVIOUS
  <2>2. Pow(base, k) \in Nat /\ Pow(base, k + 1) = Pow(base, k) * base
    BY <1>2, <2>1, PowStep
  <2>3. PICK x \in Nat, y \in Nat, d \in 0 .. base - 1 : x = f[k] /\ y = Pow(base, k) /\ d = digits[k + 1]
    <3>1. f[k] \in Nat /\ digits[k + 1] \in 0 .. base - 1
      BY <1>1, <1>3, <2>1, ElementOfSeq
    <3> QED
      BY <2>2, <3>1
  <2>4. x + 1 <= y
    BY <1>5, <2>3
  <2>5. (x + 1) * base <= y * base
    BY <2>4, SMTT(30)
  <2>6. (x + 1) * base = x * base + base
    BY SMTT(30)
  <2>7. PICK z \in Int, w \in Int : z = x * base /\ w = y * base
    BY SMTT(30)
  <2>8. z + d < w
    <3>1. z + base <= w
      BY <2>5, <2>6, <2>7
    <3>2. d < base /\ d \in Int /\ base \in Int
      BY <2>3
    <3> QED
      BY <3>1, <3>2
  <2>9. f[k + 1] = z + d /\ Pow(base, k + 1) = w
    BY <1>3, <2>1, <2>2, <2>3, <2>7
  <2> QED
    BY <2>1, <2>8, <2>9
<1>6. \A k \in 0 .. n : k \in T
  <2> HIDE DEF T
  <2> QED
    BY <1>4, <1>5, UpToNumber
<1>7. f[n] < Pow(base, n) /\ f[n] \in Nat
  BY <1>3, <1>6
<1> QED
  BY <1>1, <1>3, <1>7

(***************************************************************************)
(* Positions in a number: cut behind its first digits it is the number of  *)
(* those, and no others of that length write it.                           *)
(***************************************************************************)
Positional(f, digits, base) ==
  /\ f \in [0 .. Len(digits) -> Nat]
  /\ f[0] = 0
  /\ \A k \in 0 .. Len(digits) - 1 : f[k + 1] = f[k] * base + digits[k + 1]

LEMMA PositionalQuotient ==
  ASSUME NEW base \in Nat \ {0}, NEW digits \in Seq(0 .. base - 1), NEW f,
         Positional(f, digits, base), NEW j \in 0 .. Len(digits)
  PROVE  f[Len(digits)] \div Pow(base, j) = f[Len(digits) - j]
<1>1. PICK n \in Nat : n = Len(digits)
  OBVIOUS
<1>2. /\ f \in [0 .. n -> Nat] /\ f[0] = 0
      /\ \A k \in 0 .. n - 1 : f[k + 1] = f[k] * base + digits[k + 1]
  BY <1>1 DEF Positional
<1>3. PICK x \in Nat : x = f[n]
  BY <1>2
<1> DEFINE T == {i \in 0 .. n : x \div Pow(base, i) = f[n - i]}
<1>4. 0 \in T
  <2>1. Pow(base, 0) = 1 /\ x \div 1 = x /\ n - 0 = n
    BY PowStep
  <2> QED
    BY <1>3, <2>1
<1>5. ASSUME NEW i \in 0 .. n - 1, i \in T PROVE i + 1 \in T
  <2>1. PICK k \in 0 .. n - 1 : k = n - (i + 1)
    OBVIOUS
  <2>2. k + 1 = n - i /\ k + 1 \in 1 .. n
    BY <2>1
  <2>3. f[k + 1] = f[k] * base + digits[k + 1] /\ f[k] \in Nat /\ digits[k + 1] \in 0 .. base - 1
    <3>1. k \in 0 .. n - 1 /\ k \in 0 .. n /\ k + 1 \in 1 .. Len(digits)
      BY <1>1, <2>2
    <3>2. f[k] \in Nat /\ f[k + 1] = f[k] * base + digits[k + 1]
      BY <1>2, <3>1
    <3>3. digits[k + 1] \in 0 .. base - 1
      BY <3>1, ElementOfSeq
    <3> QED
      BY <3>2, <3>3
  <2>4. PICK b \in Nat \ {0} : b = Pow(base, i) /\ Pow(base, i + 1) = b * base
    <3>1. i \in Nat /\ base \in Nat
      OBVIOUS
    <3> QED
      BY <3>1, PowPositive, PowStep
  <2>5. x \div b = f[k + 1]
    BY <1>5, <2>2, <2>4
  <2>6. (x \div b) \div base = x \div (b * base)
    BY DivideTwice
  <2>7. PICK q \in Int, r \in 0 .. base - 1 : q = f[k] /\ r = digits[k + 1] /\ f[k + 1] = q * base + r
    BY <2>3
  <2>8. f[k + 1] \div base = f[k]
    <3>1. (q * base + r) \div base = q
      BY EuclidUnique
    <3> QED
      BY <2>3, <2>7, <3>1
  <2>9. i + 1 \in 0 .. n
    OBVIOUS
  <2> QED
    BY <2>1, <2>4, <2>5, <2>6, <2>8, <2>9
<1>6. \A i \in 0 .. n : i \in T
  <2> HIDE DEF T
  <2> QED
    BY <1>4, <1>5, UpToNumber
<1> QED
  BY <1>1, <1>3, <1>6

AlikeUpTo(a, b, n) == \A k \in 1 .. n : a[k] = b[k]

LEMMA PositionalInjective ==
  ASSUME NEW base \in Nat \ {0}, NEW n \in Nat,
         NEW a \in Seq(0 .. base - 1), NEW b \in Seq(0 .. base - 1), n <= Len(a), n <= Len(b),
         NEW f, NEW g, Positional(f, a, base), Positional(g, b, base)
  PROVE  f[n] = g[n] <=> AlikeUpTo(a, b, n)
<1>1. /\ f \in [0 .. Len(a) -> Nat] /\ f[0] = 0
      /\ \A k \in 0 .. Len(a) - 1 : f[k + 1] = f[k] * base + a[k + 1]
      /\ g \in [0 .. Len(b) -> Nat] /\ g[0] = 0
      /\ \A k \in 0 .. Len(b) - 1 : g[k + 1] = g[k] * base + b[k + 1]
  BY DEF Positional
<1> DEFINE T == {m \in 0 .. n : f[m] = g[m] <=> AlikeUpTo(a, b, m)}
<1>2. 0 \in T
  BY <1>1 DEF AlikeUpTo
<1>3. ASSUME NEW m \in 0 .. n - 1, m \in T PROVE m + 1 \in T
  <2>1. /\ m \in 0 .. Len(a) - 1 /\ m \in 0 .. Len(b) - 1
        /\ m + 1 \in 1 .. Len(a) /\ m + 1 \in 1 .. Len(b) /\ m + 1 \in 0 .. n
    OBVIOUS
  <2>2. PICK p \in Int, q \in Int, d \in 0 .. base - 1, e \in 0 .. base - 1 :
          p = f[m] /\ q = g[m] /\ d = a[m + 1] /\ e = b[m + 1]
    <3>1. m \in 0 .. Len(a) /\ m \in 0 .. Len(b)
      OBVIOUS
    <3>2. f[m] \in Int /\ g[m] \in Int
      <4>1. f \in [0 .. Len(a) -> Nat] /\ g \in [0 .. Len(b) -> Nat]
        BY <1>1
      <4>2. f[m] \in Nat /\ g[m] \in Nat
        BY <3>1, <4>1
      <4> QED
        BY <4>2
    <3>3. a[m + 1] \in 0 .. base - 1 /\ b[m + 1] \in 0 .. base - 1
      BY <2>1, SMTT(30)
    <3> QED
      BY <3>2, <3>3
  <2>3. f[m + 1] = p * base + d /\ g[m + 1] = q * base + e
    BY <1>1, <2>1, <2>2
  <2>4. f[m + 1] = g[m + 1] <=> p = q /\ d = e
    <3>1. (p * base + d) \div base = p /\ (p * base + d) % base = d
      BY EuclidUnique
    <3>2. (q * base + e) \div base = q /\ (q * base + e) % base = e
      BY EuclidUnique
    <3> QED
      BY <2>3, <3>1, <3>2
  <2>5. AlikeUpTo(a, b, m + 1) <=> AlikeUpTo(a, b, m) /\ d = e
    <3>1. \A k \in 1 .. m + 1 : k \in 1 .. m \/ k = m + 1
      OBVIOUS
    <3>2. \A k \in 1 .. m : k \in 1 .. m + 1
      OBVIOUS
    <3>3. m + 1 \in 1 .. m + 1
      OBVIOUS
    <3> QED
      BY <2>2, <3>1, <3>2, <3>3 DEF AlikeUpTo
  <2>6. p = q <=> AlikeUpTo(a, b, m)
    BY <1>3, <2>2
  <2> QED
    BY <2>1, <2>4, <2>5, <2>6
<1>4. \A m \in 0 .. n : m \in T
  <2> HIDE DEF T
  <2> QED
    BY <1>2, <1>3, UpToNumber
<1> QED
  BY <1>4

(***************************************************************************)
(* A fraction written digit by digit is read as that fraction.             *)
(***************************************************************************)
LEMMA FractionRead ==
  ASSUME NEW n \in Nat, NEW x \in Nat, x < Pow(10, n),
         NEW digits \in Seq(Nat), Len(digits) = n,
         \A k \in 1 .. n : digits[k] = (x \div Pow(10, n - k)) % 10
  PROVE  Horner(digits, 10) = x
<1>1. PICK f \in [0 .. Len(digits) -> Nat] :
        /\ f[0] = 0
        /\ \A k \in 0 .. Len(digits) - 1 : f[k + 1] = f[k] * 10 + digits[k + 1]
        /\ Horner(digits, 10) = f[Len(digits)]
  <2>1. 10 \in Nat
    OBVIOUS
  <2> QED
    BY <2>1, HornerTable
<1> DEFINE T == {k \in 0 .. n : f[k] = x \div Pow(10, n - k)}
<1>2. 0 \in T
  <2>1. PICK b \in Nat \ {0} : b = Pow(10, n)
    BY PowOfTen
  <2>2. PICK q \in Int, r \in 0 .. b - 1 : q = 0 /\ r = x
    BY <2>1
  <2>3. (q * b + r) \div b = q
    BY EuclidUnique
  <2>4. q * b + r = x
    BY <2>2
  <2>5. x \div b = 0
    BY <2>2, <2>3, <2>4
  <2>6. n - 0 = n /\ 0 \in 0 .. n
    OBVIOUS
  <2> QED
    BY <1>1, <2>1, <2>5, <2>6
<1>3. ASSUME NEW k \in 0 .. n - 1, k \in T PROVE k + 1 \in T
  <2>1. PICK j \in Nat : j = n - (k + 1)
    OBVIOUS
  <2>2. j + 1 = n - k /\ k + 1 \in 1 .. n /\ k + 1 \in 0 .. n
    BY <2>1
  <2>3. PICK b \in Nat \ {0} : b = Pow(10, j)
    BY PowOfTen
  <2>4. Pow(10, n - k) = b * 10
    BY <2>2, <2>3, PowOfTen
  <2>5. PICK q \in Nat : q = x \div b
    BY NaturalQuotient
  <2>6. x \div (b * 10) = q \div 10
    <3>1. PICK c \in Nat \ {0} : c = 10
      OBVIOUS
    <3>2. (x \div b) \div c = x \div (b * c)
      BY DivideTwice
    <3> QED
      BY <2>5, <3>1, <3>2
  <2>7. f[k] = q \div 10
    BY <1>3, <2>4, <2>6
  <2>8. digits[k + 1] = q % 10
    BY <2>1, <2>2, <2>3, <2>5
  <2>9. f[k + 1] = f[k] * 10 + digits[k + 1]
    <3>1. k \in 0 .. Len(digits) - 1
      OBVIOUS
    <3> QED
      BY <1>1, <3>1
  <2>10. (q \div 10) * 10 + (q % 10) = q
    OBVIOUS
  <2>11. f[k + 1] = q
    BY <2>7, <2>8, <2>9, <2>10
  <2> QED
    BY <2>1, <2>2, <2>3, <2>5, <2>11
<1>4. n \in T
  <2>1. \A i \in 0 .. n : i \in T
    <3> HIDE DEF T
    <3> QED
      BY <1>2, <1>3, UpToNumber
  <2> QED
    BY <2>1
<1>5. Pow(10, n - n) = 1
  <2>1. 10 \in Nat /\ 0 \in Nat /\ n - n = 0
    OBVIOUS
  <2> QED
    BY <2>1, PowStep
<1>6. x \div 1 = x
  OBVIOUS
<1> QED
  BY <1>1, <1>4, <1>5, <1>6
=============================================================================
