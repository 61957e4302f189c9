-------------------------- MODULE ExpressionProofs --------------------------
(***************************************************************************)
(* What is proved about the evaluation of expressions, for contexts,       *)
(* values and expressions of any size.                                     *)
(***************************************************************************)
EXTENDS ExpressionLaws, SequenceLemmas

(***************************************************************************)
(* Levels of an expression and of a value, one by one.                     *)
(***************************************************************************)
Level(e, k) == Levels(e, k)[k]

LEMMA LevelsAre ==
  ASSUME NEW e, NEW n \in Nat \ {0}
  PROVE  /\ DOMAIN Levels(e, n) = 1 .. n
         /\ Levels(e, n)[1] = {e}
         /\ \A k \in 1 .. n - 1 : Levels(e, n)[k + 1] = Below(Levels(e, n)[k])
<1> DEFINE Row(s, k) == /\ DOMAIN s = 1 .. k /\ s[1] = {e}
                        /\ \A i \in 1 .. k - 1 : s[i + 1] = Below(s[i])
                        /\ \E S : s \in Seq(S) /\ Len(s) = k
           More(s, k) == Append(s, Below(s[k]))
           Rows(f, m) == /\ f = [k \in 1 .. m |-> f[k]]
                         /\ f[1] = <<{e}>>
                         /\ \A k \in 1 .. m - 1 : f[k + 1] = More(f[k], k)
           Is(g) == g = [k \in 1 .. n |-> IF k = 1 THEN <<{e}>>
                                          ELSE LET above == g[k - 1]
                                               IN  Append(above, Below(above[k - 1]))]
<1>1. \E f : Rows(f, n)
  <2> DEFINE T == {m \in 0 .. n : m = 0 \/ \E f : Rows(f, m)}
  <2>1. 0 \in T
    OBVIOUS
  <2>2. ASSUME NEW m \in 0 .. n - 1, m \in T PROVE m + 1 \in T
    <3>1. m + 1 \in 0 .. n
      OBVIOUS
    <3>2. CASE m = 0
      <4> DEFINE g == [k \in 1 .. 1 |-> <<{e}>>]
      <4>1. /\ g = [k \in 1 .. 1 |-> g[k]] /\ g[1] = <<{e}>>
            /\ \A k \in 1 .. 1 - 1 : FALSE
        OBVIOUS
      <4>2. Rows(g, 1)
        <5> HIDE DEF g, More
        <5> QED
          BY <4>1
      <4> HIDE DEF Rows, g
      <4> QED
        BY <3>1, <3>2, <4>2
    <3>3. CASE m # 0
      <4>1. PICK f : Rows(f, m)
        <5> HIDE DEF Rows
        <5> QED
          BY <2>2, <3>3
      <4> DEFINE g == [k \in 1 .. m + 1 |-> IF k = m + 1 THEN More(f[m], m) ELSE f[k]]
      <4> HIDE DEF More
      <4>2. g = [k \in 1 .. m + 1 |-> g[k]] /\ g[1] = <<{e}>>
        <5>1. 1 \in 1 .. m + 1 /\ 1 # m + 1
          BY <3>3
        <5>2. g[1] = f[1]
          BY <5>1
        <5> QED
          BY <4>1, <5>2
      <4>3. ASSUME NEW k \in 1 .. (m + 1) - 1 PROVE g[k + 1] = More(g[k], k)
        <5>1. CASE k = m
          BY <5>1, <3>3
        <5>2. CASE k # m
          <6>1. k \in 1 .. m - 1 /\ k + 1 \in 1 .. m + 1 /\ k \in 1 .. m + 1 /\ k + 1 # m + 1 /\ k # m + 1
            BY <5>2
          <6>2. f[k + 1] = More(f[k], k)
            BY <4>1, <6>1
          <6> QED
            BY <6>1, <6>2
        <5> QED
          BY <5>1, <5>2
      <4>4. Rows(g, m + 1)
        <5> HIDE DEF g
        <5> QED
          BY <4>2, <4>3
      <4> HIDE DEF Rows, g
      <4> QED
        BY <3>1, <4>4
    <3> QED
      BY <3>2, <3>3
  <2>3. \A m \in 0 .. n : m \in T
    <3> HIDE DEF T
    <3> QED
      BY <2>1, <2>2, UpToNumber
  <2>4. n \in T
    <3> HIDE DEF T
    <3> QED
      BY <2>3
  <2> HIDE DEF Rows
  <2> QED
    BY <2>4
<1>2. PICK f : Rows(f, n)
  <2> HIDE DEF Rows
  <2> QED
    BY <1>1
<1>3. Is(f)
  <2>1. ASSUME NEW k \in 1 .. n, k # 1
        PROVE  f[k] = Append(f[k - 1], Below(f[k - 1][k - 1]))
    <3>1. k - 1 \in 1 .. n - 1 /\ (k - 1) + 1 = k
      BY <2>1
    <3> QED
      BY <1>2, <3>1
  <2> QED
    BY <1>2, <2>1
<1>4. PICK g : g = CHOOSE h : Is(h)
  OBVIOUS
<1>5. Is(g)
  <2> HIDE DEF Is
  <2> QED
    BY <1>3, <1>4
<1>6. Levels(e, n) = g[n]
  BY <1>4 DEF Levels
<1>7. ASSUME NEW k \in 1 .. n - 1, Row(g[k], k) PROVE Row(g[k + 1], k + 1)
  <2>1. k + 1 \in 1 .. n /\ k + 1 # 1 /\ (k + 1) - 1 = k /\ k \in 1 .. k
    OBVIOUS
  <2>2. g[k + 1] = Append(g[k], Below(g[k][k]))
    BY <1>5, <2>1
  <2> DEFINE s == g[k]
             x == Below(g[k][k])
             t == g[k + 1]
  <2>3. PICK S : s \in Seq(S) /\ Len(s) = k
    BY <1>7
  <2> DEFINE U == S \cup {x}
  <2>4. s \in Seq(U) /\ x \in U /\ Len(s) = k
    BY <2>3
  <2>5. t = Append(s, x)
    BY <2>2
  <2>6. DOMAIN s = 1 .. k /\ s[1] = {e} /\ \A i \in 1 .. k - 1 : s[i + 1] = Below(s[i])
    BY <1>7
  <2>7. x = Below(s[k])
    OBVIOUS
  <2> HIDE DEF s, x, t, U
  <2>8. t \in Seq(U) /\ Len(t) = k + 1 /\ (\A i \in 1 .. k : t[i] = s[i]) /\ t[k + 1] = x
    BY <2>4, <2>5, AppendProperties
  <2>9. DOMAIN t = 1 .. k + 1 /\ t[1] = {e}
    BY <2>1, <2>6, <2>8
  <2>10. ASSUME NEW i \in 1 .. (k + 1) - 1 PROVE t[i + 1] = Below(t[i])
    <3>1. CASE i = k
      BY <3>1, <2>7, <2>8
    <3>2. CASE i # k
      <4>1. i \in 1 .. k - 1 /\ i \in 1 .. k /\ i + 1 \in 1 .. k
        BY <3>2
      <4> QED
        BY <4>1, <2>6, <2>8
    <3> QED
      BY <3>1, <3>2
  <2>11. Row(t, k + 1)
    BY <2>8, <2>9, <2>10
  <2> HIDE DEF Row
  <2> QED
    BY <2>11 DEF t
<1>8. Row(g[1], 1)
  <2>1. 1 \in 1 .. n
    OBVIOUS
  <2>2. g[1] = <<{e}>>
    BY <1>5, <2>1
  <2>3. <<{e}>> \in Seq({{e}}) /\ Len(<<{e}>>) = 1 /\ DOMAIN <<{e}>> = 1 .. 1 /\ <<{e}>>[1] = {e}
    OBVIOUS
  <2>4. \A i \in 1 .. 1 - 1 : FALSE
    OBVIOUS
  <2>5. Row(<<{e}>>, 1)
    BY <2>3, <2>4
  <2> HIDE DEF Row
  <2> QED
    BY <2>2, <2>5
<1>9. Row(g[n], n)
  <2> DEFINE T == {k \in 0 .. n : k = 0 \/ Row(g[k], k)}
  <2>1. 0 \in T
    OBVIOUS
  <2>2. ASSUME NEW k \in 0 .. n - 1, k \in T PROVE k + 1 \in T
    <3>1. k + 1 \in 0 .. n /\ (k = 0 \/ k \in 1 .. n - 1)
      OBVIOUS
    <3> HIDE DEF Row
    <3>2. CASE k = 0
      BY <3>1, <3>2, <1>8
    <3>3. CASE k # 0
      BY <2>2, <3>1, <3>3, <1>7
    <3> QED
      BY <3>2, <3>3
  <2>3. \A k \in 0 .. n : k \in T
    <3> HIDE DEF T
    <3> QED
      BY <2>1, <2>2, UpToNumber
  <2>4. n \in T
    <3> HIDE DEF T
    <3> QED
      BY <2>3
  <2> HIDE DEF Row
  <2> QED
    BY <2>4
<1> QED
  BY <1>6, <1>9

LEMMA LevelNext ==
  ASSUME NEW e, NEW k \in Nat \ {0}
  PROVE  /\ Level(e, 1) = {e}
         /\ Level(e, k + 1) = Below(Level(e, k))
         /\ \A n \in Nat : n >= k => Levels(e, n)[k] = Level(e, k)
<1>1. Level(e, 1) = {e}
  BY LevelsAre DEF Level
<1>2. ASSUME NEW n \in Nat \ {0}, NEW m \in Nat \ {0}, n <= m
      PROVE  \A i \in 1 .. n : Levels(e, n)[i] = Levels(e, m)[i]
  <2> DEFINE T == {i \in 0 .. n : i = 0 \/ Levels(e, n)[i] = Levels(e, m)[i]}
  <2>1. /\ Levels(e, n)[1] = {e} /\ Levels(e, m)[1] = {e}
        /\ \A i \in 1 .. n - 1 : Levels(e, n)[i + 1] = Below(Levels(e, n)[i])
        /\ \A i \in 1 .. m - 1 : Levels(e, m)[i + 1] = Below(Levels(e, m)[i])
    BY LevelsAre
  <2>2. 0 \in T
    OBVIOUS
  <2>3. ASSUME NEW i \in 0 .. n - 1, i \in T PROVE i + 1 \in T
    <3>1. CASE i = 0
      BY <2>1, <3>1
    <3>2. CASE i # 0
      <4>1. i \in 1 .. n - 1 /\ i \in 1 .. m - 1 /\ i + 1 \in 0 .. n
        BY <1>2, <3>2
      <4>2. Levels(e, n)[i] = Levels(e, m)[i]
        BY <2>3, <3>2
      <4> QED
        BY <2>1, <4>1, <4>2
    <3> QED
      BY <3>1, <3>2
  <2>4. \A i \in 0 .. n : i \in T
    <3> HIDE DEF T
    <3> QED
      BY <2>2, <2>3, UpToNumber
  <2> QED
    BY <2>4
<1>3. ASSUME NEW n \in Nat, n >= k PROVE Levels(e, n)[k] = Level(e, k)
  <2>1. n \in Nat \ {0} /\ k \in 1 .. k /\ k <= n
    BY <1>3
  <2> QED
    BY <2>1, <1>2 DEF Level
<1>4. Level(e, k + 1) = Below(Level(e, k))
  <2>1. k + 1 \in Nat \ {0} /\ k \in 1 .. (k + 1) - 1 /\ k + 1 >= k /\ k + 1 \in Nat
    OBVIOUS
  <2>2. Levels(e, k + 1)[k + 1] = Below(Levels(e, k + 1)[k])
    BY <2>1, LevelsAre
  <2> QED
    BY <2>1, <2>2, <1>3 DEF Level
<1> QED
  BY <1>1, <1>3, <1>4

LEMMA BelowEach ==
  ASSUME NEW N, NEW x
  PROVE  x \in Below(N) <=> \E e \in N : x \in Below({e})
BY DEF Below

LEMMA LevelOfChild ==
  ASSUME NEW e, NEW k \in Nat \ {0}, NEW x
  PROVE  x \in Level(e, k + 1) <=> \E c \in Below({e}) : x \in Level(c, k)
<1> DEFINE Split(i) == \A y : y \in Level(e, i + 1) <=> \E c \in Below({e}) : y \in Level(c, i)
           T == {i \in 0 .. k : i = 0 \/ Split(i)}
<1>1. 0 \in T
  OBVIOUS
<1>2. ASSUME NEW i \in 0 .. k - 1, i \in T PROVE i + 1 \in T
  <2>1. i + 1 \in 0 .. k /\ i + 1 \in Nat \ {0}
    OBVIOUS
  <2>2. CASE i = 0
    <3>1. Level(e, 2) = Below({e})
      <4>1. PICK one \in Nat \ {0} : one = 1 /\ one + 1 = 2
        OBVIOUS
      <4>2. Level(e, one) = {e} /\ Level(e, one + 1) = Below(Level(e, one))
        BY <4>1, LevelNext
      <4> QED
        BY <4>1, <4>2
    <3>2. \A c : Level(c, 1) = {c}
      <4>1. 1 \in Nat \ {0}
        OBVIOUS
      <4> QED
        BY <4>1, LevelNext
    <3>3. Split(1)
      BY <3>1, <3>2
    <3> HIDE DEF Split
    <3> QED
      BY <2>1, <2>2, <3>3
  <2>3. CASE i # 0
    <3>1. i \in Nat \ {0}
      BY <2>3
    <3>2. Level(e, (i + 1) + 1) = Below(Level(e, i + 1))
      BY <2>1, LevelNext
    <3>3. \A c : Level(c, i + 1) = Below(Level(c, i))
      BY <3>1, LevelNext
    <3>4. Split(i)
      <4> HIDE DEF Split
      <4> QED
        BY <1>2, <2>3
    <3>5. ASSUME NEW y
          PROVE y \in Level(e, (i + 1) + 1) <=> \E c \in Below({e}) : y \in Level(c, i + 1)
      <4> HIDE DEF Split, T
      <4>3. \A N : y \in Below(N) <=> \E z \in N : y \in Below({z})
        BY BelowEach
      <4>1. y \in Level(e, (i + 1) + 1) <=> \E z \in Level(e, i + 1) : y \in Below({z})
        BY <3>2, <4>3
      <4>2. \A c : y \in Level(c, i + 1) <=> \E z \in Level(c, i) : y \in Below({z})
        BY <3>3, <4>3
      <4> QED
        BY <4>1, <4>2, <3>4 DEF Split
    <3>6. Split(i + 1)
      BY <3>5
    <3> HIDE DEF Split
    <3> QED
      BY <2>1, <3>6
  <2> QED
    BY <2>2, <2>3
<1>3. \A i \in 0 .. k : i \in T
  <2> HIDE DEF T
  <2> QED
    BY <1>1, <1>2, UpToNumber
<1>4. Split(k)
  <2>1. k \in T
    <3> HIDE DEF T
    <3> QED
      BY <1>3
  <2> HIDE DEF Split
  <2> QED
    BY <2>1
<1> QED
  BY <1>4
(***************************************************************************)
(* The same of a value and what it contains.                               *)
(***************************************************************************)
Depth(v, k) == Depths(v, k)[k]

LEMMA DepthsAre ==
  ASSUME NEW v, NEW n \in Nat \ {0}
  PROVE  /\ DOMAIN Depths(v, n) = 1 .. n
         /\ Depths(v, n)[1] = {v}
         /\ \A k \in 1 .. n - 1 : Depths(v, n)[k + 1] = Inside(Depths(v, n)[k])
<1> DEFINE Row(s, k) == /\ DOMAIN s = 1 .. k /\ s[1] = {v}
                        /\ \A i \in 1 .. k - 1 : s[i + 1] = Inside(s[i])
                        /\ \E S : s \in Seq(S) /\ Len(s) = k
           More(s, k) == Append(s, Inside(s[k]))
           Rows(f, m) == /\ f = [k \in 1 .. m |-> f[k]]
                         /\ f[1] = <<{v}>>
                         /\ \A k \in 1 .. m - 1 : f[k + 1] = More(f[k], k)
           Is(g) == g = [k \in 1 .. n |-> IF k = 1 THEN <<{v}>>
                                          ELSE LET above == g[k - 1]
                                               IN  Append(above, Inside(above[k - 1]))]
<1>1. \E f : Rows(f, n)
  <2> DEFINE T == {m \in 0 .. n : m = 0 \/ \E f : Rows(f, m)}
  <2>1. 0 \in T
    OBVIOUS
  <2>2. ASSUME NEW m \in 0 .. n - 1, m \in T PROVE m + 1 \in T
    <3>1. m + 1 \in 0 .. n
      OBVIOUS
    <3>2. CASE m = 0
      <4> DEFINE g == [k \in 1 .. 1 |-> <<{v}>>]
      <4>1. /\ g = [k \in 1 .. 1 |-> g[k]] /\ g[1] = <<{v}>>
            /\ \A k \in 1 .. 1 - 1 : FALSE
        OBVIOUS
      <4>2. Rows(g, 1)
        <5> HIDE DEF g, More
        <5> QED
          BY <4>1
      <4> HIDE DEF Rows, g
      <4> QED
        BY <3>1, <3>2, <4>2
    <3>3. CASE m # 0
      <4>1. PICK f : Rows(f, m)
        <5> HIDE DEF Rows
        <5> QED
          BY <2>2, <3>3
      <4> DEFINE g == [k \in 1 .. m + 1 |-> IF k = m + 1 THEN More(f[m], m) ELSE f[k]]
      <4> HIDE DEF More
      <4>2. g = [k \in 1 .. m + 1 |-> g[k]] /\ g[1] = <<{v}>>
        <5>1. 1 \in 1 .. m + 1 /\ 1 # m + 1
          BY <3>3
        <5>2. g[1] = f[1]
          BY <5>1
        <5> QED
          BY <4>1, <5>2
      <4>3. ASSUME NEW k \in 1 .. (m + 1) - 1 PROVE g[k + 1] = More(g[k], k)
        <5>1. CASE k = m
          BY <5>1, <3>3
        <5>2. CASE k # m
          <6>1. k \in 1 .. m - 1 /\ k + 1 \in 1 .. m + 1 /\ k \in 1 .. m + 1 /\ k + 1 # m + 1 /\ k # m + 1
            BY <5>2
          <6>2. f[k + 1] = More(f[k], k)
            BY <4>1, <6>1
          <6> QED
            BY <6>1, <6>2
        <5> QED
          BY <5>1, <5>2
      <4>4. Rows(g, m + 1)
        <5> HIDE DEF g
        <5> QED
          BY <4>2, <4>3
      <4> HIDE DEF Rows, g
      <4> QED
        BY <3>1, <4>4
    <3> QED
      BY <3>2, <3>3
  <2>3. \A m \in 0 .. n : m \in T
    <3> HIDE DEF T
    <3> QED
      BY <2>1, <2>2, UpToNumber
  <2>4. n \in T
    <3> HIDE DEF T
    <3> QED
      BY <2>3
  <2> HIDE DEF Rows
  <2> QED
    BY <2>4
<1>2. PICK f : Rows(f, n)
  <2> HIDE DEF Rows
  <2> QED
    BY <1>1
<1>3. Is(f)
  <2>1. ASSUME NEW k \in 1 .. n, k # 1
        PROVE  f[k] = Append(f[k - 1], Inside(f[k - 1][k - 1]))
    <3>1. k - 1 \in 1 .. n - 1 /\ (k - 1) + 1 = k
      BY <2>1
    <3> QED
      BY <1>2, <3>1
  <2> QED
    BY <1>2, <2>1
<1>4. PICK g : g = CHOOSE h : Is(h)
  OBVIOUS
<1>5. Is(g)
  <2> HIDE DEF Is
  <2> QED
    BY <1>3, <1>4
<1>6. Depths(v, n) = g[n]
  BY <1>4 DEF Depths
<1>7. ASSUME NEW k \in 1 .. n - 1, Row(g[k], k) PROVE Row(g[k + 1], k + 1)
  <2>1. k + 1 \in 1 .. n /\ k + 1 # 1 /\ (k + 1) - 1 = k /\ k \in 1 .. k
    OBVIOUS
  <2>2. g[k + 1] = Append(g[k], Inside(g[k][k]))
    BY <1>5, <2>1
  <2> DEFINE s == g[k]
             x == Inside(g[k][k])
             t == g[k + 1]
  <2>3. PICK S : s \in Seq(S) /\ Len(s) = k
    BY <1>7
  <2> DEFINE U == S \cup {x}
  <2>4. s \in Seq(U) /\ x \in U /\ Len(s) = k
    BY <2>3
  <2>5. t = Append(s, x)
    BY <2>2
  <2>6. DOMAIN s = 1 .. k /\ s[1] = {v} /\ \A i \in 1 .. k - 1 : s[i + 1] = Inside(s[i])
    BY <1>7
  <2>7. x = Inside(s[k])
    OBVIOUS
  <2> HIDE DEF s, x, t, U
  <2>8. t \in Seq(U) /\ Len(t) = k + 1 /\ (\A i \in 1 .. k : t[i] = s[i]) /\ t[k + 1] = x
    BY <2>4, <2>5, AppendProperties
  <2>9. DOMAIN t = 1 .. k + 1 /\ t[1] = {v}
    BY <2>1, <2>6, <2>8
  <2>10. ASSUME NEW i \in 1 .. (k + 1) - 1 PROVE t[i + 1] = Inside(t[i])
    <3>1. CASE i = k
      BY <3>1, <2>7, <2>8
    <3>2. CASE i # k
      <4>1. i \in 1 .. k - 1 /\ i \in 1 .. k /\ i + 1 \in 1 .. k
        BY <3>2
      <4> QED
        BY <4>1, <2>6, <2>8
    <3> QED
      BY <3>1, <3>2
  <2>11. Row(t, k + 1)
    BY <2>8, <2>9, <2>10
  <2> HIDE DEF Row
  <2> QED
    BY <2>11 DEF t
<1>8. Row(g[1], 1)
  <2>1. 1 \in 1 .. n
    OBVIOUS
  <2>2. g[1] = <<{v}>>
    BY <1>5, <2>1
  <2>3. <<{v}>> \in Seq({{v}}) /\ Len(<<{v}>>) = 1 /\ DOMAIN <<{v}>> = 1 .. 1 /\ <<{v}>>[1] = {v}
    OBVIOUS
  <2>4. \A i \in 1 .. 1 - 1 : FALSE
    OBVIOUS
  <2>5. Row(<<{v}>>, 1)
    BY <2>3, <2>4
  <2> HIDE DEF Row
  <2> QED
    BY <2>2, <2>5
<1>9. Row(g[n], n)
  <2> DEFINE T == {k \in 0 .. n : k = 0 \/ Row(g[k], k)}
  <2>1. 0 \in T
    OBVIOUS
  <2>2. ASSUME NEW k \in 0 .. n - 1, k \in T PROVE k + 1 \in T
    <3>1. k + 1 \in 0 .. n /\ (k = 0 \/ k \in 1 .. n - 1)
      OBVIOUS
    <3> HIDE DEF Row
    <3>2. CASE k = 0
      BY <3>1, <3>2, <1>8
    <3>3. CASE k # 0
      BY <2>2, <3>1, <3>3, <1>7
    <3> QED
      BY <3>2, <3>3
  <2>3. \A k \in 0 .. n : k \in T
    <3> HIDE DEF T
    <3> QED
      BY <2>1, <2>2, UpToNumber
  <2>4. n \in T
    <3> HIDE DEF T
    <3> QED
      BY <2>3
  <2> HIDE DEF Row
  <2> QED
    BY <2>4
<1> QED
  BY <1>6, <1>9

LEMMA DepthNext ==
  ASSUME NEW v, NEW k \in Nat \ {0}
  PROVE  /\ Depth(v, 1) = {v}
         /\ Depth(v, k + 1) = Inside(Depth(v, k))
         /\ \A n \in Nat : n >= k => Depths(v, n)[k] = Depth(v, k)
<1>1. Depth(v, 1) = {v}
  BY DepthsAre DEF Depth
<1>2. ASSUME NEW n \in Nat \ {0}, NEW m \in Nat \ {0}, n <= m
      PROVE  \A i \in 1 .. n : Depths(v, n)[i] = Depths(v, m)[i]
  <2> DEFINE T == {i \in 0 .. n : i = 0 \/ Depths(v, n)[i] = Depths(v, m)[i]}
  <2>1. /\ Depths(v, n)[1] = {v} /\ Depths(v, m)[1] = {v}
        /\ \A i \in 1 .. n - 1 : Depths(v, n)[i + 1] = Inside(Depths(v, n)[i])
        /\ \A i \in 1 .. m - 1 : Depths(v, m)[i + 1] = Inside(Depths(v, m)[i])
    BY DepthsAre
  <2>2. 0 \in T
    OBVIOUS
  <2>3. ASSUME NEW i \in 0 .. n - 1, i \in T PROVE i + 1 \in T
    <3>1. CASE i = 0
      BY <2>1, <3>1
    <3>2. CASE i # 0
      <4>1. i \in 1 .. n - 1 /\ i \in 1 .. m - 1 /\ i + 1 \in 0 .. n
        BY <1>2, <3>2
      <4>2. Depths(v, n)[i] = Depths(v, m)[i]
        BY <2>3, <3>2
      <4> QED
        BY <2>1, <4>1, <4>2
    <3> QED
      BY <3>1, <3>2
  <2>4. \A i \in 0 .. n : i \in T
    <3> HIDE DEF T
    <3> QED
      BY <2>2, <2>3, UpToNumber
  <2> QED
    BY <2>4
<1>3. ASSUME NEW n \in Nat, n >= k PROVE Depths(v, n)[k] = Depth(v, k)
  <2>1. n \in Nat \ {0} /\ k \in 1 .. k /\ k <= n
    BY <1>3
  <2> QED
    BY <2>1, <1>2 DEF Depth
<1>4. Depth(v, k + 1) = Inside(Depth(v, k))
  <2>1. k + 1 \in Nat \ {0} /\ k \in 1 .. (k + 1) - 1 /\ k + 1 >= k /\ k + 1 \in Nat
    OBVIOUS
  <2>2. Depths(v, k + 1)[k + 1] = Inside(Depths(v, k + 1)[k])
    BY <2>1, DepthsAre
  <2> QED
    BY <2>1, <2>2, <1>3 DEF Depth
<1> QED
  BY <1>1, <1>3, <1>4

LEMMA InsideEach ==
  ASSUME NEW N, NEW x
  PROVE  x \in Inside(N) <=> \E v \in N : x \in Inside({v})
BY DEF Inside

LEMMA DepthOfInner ==
  ASSUME NEW v, NEW k \in Nat \ {0}, NEW x
  PROVE  x \in Depth(v, k + 1) <=> \E c \in Inside({v}) : x \in Depth(c, k)
<1> DEFINE Split(i) == \A y : y \in Depth(v, i + 1) <=> \E c \in Inside({v}) : y \in Depth(c, i)
           T == {i \in 0 .. k : i = 0 \/ Split(i)}
<1>1. 0 \in T
  OBVIOUS
<1>2. ASSUME NEW i \in 0 .. k - 1, i \in T PROVE i + 1 \in T
  <2>1. i + 1 \in 0 .. k /\ i + 1 \in Nat \ {0}
    OBVIOUS
  <2>2. CASE i = 0
    <3>1. Depth(v, 2) = Inside({v})
      <4>1. PICK one \in Nat \ {0} : one = 1 /\ one + 1 = 2
        OBVIOUS
      <4>2. Depth(v, one) = {v} /\ Depth(v, one + 1) = Inside(Depth(v, one))
        BY <4>1, DepthNext
      <4> QED
        BY <4>1, <4>2
    <3>2. \A c : Depth(c, 1) = {c}
      <4>1. 1 \in Nat \ {0}
        OBVIOUS
      <4> QED
        BY <4>1, DepthNext
    <3>3. Split(1)
      BY <3>1, <3>2
    <3> HIDE DEF Split
    <3> QED
      BY <2>1, <2>2, <3>3
  <2>3. CASE i # 0
    <3>1. i \in Nat \ {0}
      BY <2>3
    <3>2. Depth(v, (i + 1) + 1) = Inside(Depth(v, i + 1))
      BY <2>1, DepthNext
    <3>3. \A c : Depth(c, i + 1) = Inside(Depth(c, i))
      BY <3>1, DepthNext
    <3>4. Split(i)
      <4> HIDE DEF Split
      <4> QED
        BY <1>2, <2>3
    <3>5. ASSUME NEW y
          PROVE y \in Depth(v, (i + 1) + 1) <=> \E c \in Inside({v}) : y \in Depth(c, i + 1)
      <4> HIDE DEF Split, T
      <4>3. \A N : y \in Inside(N) <=> \E z \in N : y \in Inside({z})
        BY InsideEach
      <4>1. y \in Depth(v, (i + 1) + 1) <=> \E z \in Depth(v, i + 1) : y \in Inside({z})
        BY <3>2, <4>3
      <4>2. \A c : y \in Depth(c, i + 1) <=> \E z \in Depth(c, i) : y \in Inside({z})
        BY <3>3, <4>3
      <4> QED
        BY <4>1, <4>2, <3>4 DEF Split
    <3>6. Split(i + 1)
      BY <3>5
    <3> HIDE DEF Split
    <3> QED
      BY <2>1, <3>6
  <2> QED
    BY <2>2, <2>3
<1>3. \A i \in 0 .. k : i \in T
  <2> HIDE DEF T
  <2> QED
    BY <1>1, <1>2, UpToNumber
<1>4. Split(k)
  <2>1. k \in T
    <3> HIDE DEF T
    <3> QED
      BY <1>3
  <2> HIDE DEF Split
  <2> QED
    BY <2>1
<1> QED
  BY <1>4

-----------------------------------------------------------------------------
(***************************************************************************)
(* What an expression is made of, and what is read of the values of its    *)
(* operands: nothing else.                                                 *)
(***************************************************************************)
Leaf == {"lit", "ext", "entity", "var"}
OfObject == {"attr", "has", "like"}
Unary == {"not", "neg"}
Unpaired == Leaf \cup OfObject \cup Unary \cup {"set", "record", "call", "is", "if"}

LEMMA Parts ==
  ASSUME NEW e
  PROVE  /\ e.op \in OfObject \cup {"call", "is"} => e.object \in Below({e})
         /\ e.op = "set" => \A k \in DOMAIN e.elts : e.elts[k] \in Below({e})
         /\ e.op = "record" => \A k \in DOMAIN e.entries : e.entries[k].value \in Below({e})
         /\ e.op \in Unary => e.operand \in Below({e})
         /\ e.op = "call" /\ e.arg # NoNode => e.arg \in Below({e})
         /\ e.op = "is" /\ e.within # NoNode => e.within \in Below({e})
         /\ e.op = "if" => {e.cond, e.then, e.else} \subseteq Below({e})
         /\ e.op \notin Unpaired => {e.left, e.right} \subseteq Below({e})
<1> DEFINE C == Children(e)
<1>1. \A i \in DOMAIN C : C[i] \in Below({e})
  BY DEF Below
<1>2. CASE e.op \in OfObject
  <2>1. C = <<e.object>>
    BY <1>2 DEF Children, OfObject
  <2> HIDE DEF C
  <2>2. e.object \in Below({e})
    <3>1. 1 \in DOMAIN C /\ C[1] = e.object
      BY <2>1
    <3> QED
      BY <3>1, <1>1
  <2> QED
    BY <1>2, <2>2 DEF OfObject, Unary, Unpaired
<1>3. CASE e.op = "set"
  <2>1. C = e.elts
    BY <1>3 DEF Children
  <2> HIDE DEF C
  <2> QED
    BY <1>1, <1>3, <2>1 DEF OfObject, Unary, Unpaired
<1>4. CASE e.op = "record"
  <2>1. C = [k \in DOMAIN e.entries |-> e.entries[k].value]
    BY <1>4 DEF Children
  <2> HIDE DEF C
  <2> QED
    BY <1>1, <1>4, <2>1 DEF OfObject, Unary, Unpaired
<1>5. CASE e.op \in Unary
  <2>1. C = <<e.operand>>
    BY <1>5 DEF Children, Unary
  <2> HIDE DEF C
  <2>2. e.operand \in Below({e})
    <3>1. 1 \in DOMAIN C /\ C[1] = e.operand
      BY <2>1
    <3> QED
      BY <3>1, <1>1
  <2> QED
    BY <1>5, <2>2 DEF OfObject, Unary, Unpaired
<1>6. CASE e.op = "call"
  <2>1. C = IF e.arg = NoNode THEN <<e.object>> ELSE <<e.object, e.arg>>
    BY <1>6 DEF Children
  <2> HIDE DEF C
  <2>2. e.object \in Below({e})
    <3>1. 1 \in DOMAIN C /\ C[1] = e.object
      BY <2>1
    <3> QED
      BY <3>1, <1>1
  <2>3. e.arg # NoNode => e.arg \in Below({e})
    <3>1. e.arg # NoNode => 2 \in DOMAIN C /\ C[2] = e.arg
      BY <2>1
    <3> QED
      BY <3>1, <1>1
  <2> QED
    BY <1>6, <2>2, <2>3 DEF OfObject, Unary, Unpaired
<1>7. CASE e.op = "is"
  <2>1. C = IF e.within = NoNode THEN <<e.object>> ELSE <<e.object, e.within>>
    BY <1>7 DEF Children
  <2> HIDE DEF C
  <2>2. e.object \in Below({e})
    <3>1. 1 \in DOMAIN C /\ C[1] = e.object
      BY <2>1
    <3> QED
      BY <3>1, <1>1
  <2>3. e.within # NoNode => e.within \in Below({e})
    <3>1. e.within # NoNode => 2 \in DOMAIN C /\ C[2] = e.within
      BY <2>1
    <3> QED
      BY <3>1, <1>1
  <2> QED
    BY <1>7, <2>2, <2>3 DEF OfObject, Unary, Unpaired
<1>8. CASE e.op = "if"
  <2>1. C = <<e.cond, e.then, e.else>>
    BY <1>8 DEF Children
  <2> HIDE DEF C
  <2>2. {e.cond, e.then, e.else} \subseteq Below({e})
    <3>1. /\ 1 \in DOMAIN C /\ C[1] = e.cond
          /\ 2 \in DOMAIN C /\ C[2] = e.then
          /\ 3 \in DOMAIN C /\ C[3] = e.else
      BY <2>1
    <3> QED
      BY <3>1, <1>1
  <2> QED
    BY <1>8, <2>2 DEF OfObject, Unary, Unpaired
<1>9. CASE e.op \notin Unpaired
  <2>1. C = <<e.left, e.right>>
    BY <1>9 DEF Children, Unpaired, Leaf, OfObject, Unary
  <2> HIDE DEF C
  <2>2. {e.left, e.right} \subseteq Below({e})
    <3>1. /\ 1 \in DOMAIN C /\ C[1] = e.left
          /\ 2 \in DOMAIN C /\ C[2] = e.right
      BY <2>1
    <3> QED
      BY <3>1, <1>1
  <2> QED
    BY <1>9, <2>2 DEF OfObject, Unary, Unpaired
<1>10. CASE e.op \in Leaf
  BY <1>10 DEF Leaf, OfObject, Unary, Unpaired
<1> QED
  BY <1>2, <1>3, <1>4, <1>5, <1>6, <1>7, <1>8, <1>9, <1>10 DEF Unpaired

(***************************************************************************)
(* What fails below makes an expression fail, or is not looked at: it      *)
(* never changes a value into another one.                                 *)
(***************************************************************************)
OrFails(x, y) == x = ErrorValue \/ x = y

LEMMA Errors == /\ IsError(ErrorValue) /\ ErrorValue.t = "error"
                /\ ClearSlot(ErrorValue) = ErrorValue
BY DEF IsError, ErrorValue, ClearSlot

LEMMA AttrsOfFails ==
  ASSUME NEW o, NEW ctx, NEW v, NEW w, OrFails(v[o], w[o])
  PROVE  OrFails(AttrsOf(o, ctx, v), AttrsOf(o, ctx, w))
BY Errors DEF OrFails, AttrsOf

LEMMA SetFails ==
  ASSUME NEW e, NEW ctx, NEW v, NEW w, \A k \in DOMAIN e.elts : OrFails(v[e.elts[k]], w[e.elts[k]])
  PROVE  OrFails(SetLiteral(e, ctx, v), SetLiteral(e, ctx, w))
<1> DEFINE D == DOMAIN e.elts
           a == [k \in D |-> v[e.elts[k]]]
           b == [k \in D |-> w[e.elts[k]]]
           Made(x) == IF x = <<>> \/ \E k \in DOMAIN x : IsError(x[k]) THEN ErrorValue
                      ELSE SetValue([k \in DOMAIN x |-> ClearSlot(x[k])])
<1>1. SetLiteral(e, ctx, v) = Made(a) /\ SetLiteral(e, ctx, w) = Made(b)
  BY DEF SetLiteral
<1>2. CASE \E k \in D : v[e.elts[k]] = ErrorValue
  <2>1. \E k \in DOMAIN a : IsError(a[k])
    BY <1>2, Errors
  <2>2. Made(a) = ErrorValue
    <3> HIDE DEF a
    <3> QED
      BY <2>1
  <2> QED
    BY <1>1, <2>2 DEF OrFails
<1>3. CASE \A k \in D : v[e.elts[k]] # ErrorValue
  <2>1. a = b
    BY <1>3 DEF OrFails
  <2> HIDE DEF a, b
  <2>2. Made(a) = Made(b)
    BY <2>1
  <2> HIDE DEF Made
  <2> QED
    BY <1>1, <2>2 DEF OrFails
<1> QED
  BY <1>2, <1>3

LEMMA RecordFails ==
  ASSUME NEW e, NEW ctx, NEW v, NEW w,
         \A k \in DOMAIN e.entries : OrFails(v[e.entries[k].value], w[e.entries[k].value])
  PROVE  OrFails(RecordLiteral(e, ctx, v), RecordLiteral(e, ctx, w))
<1> DEFINE D == DOMAIN e.entries
           a == [k \in D |-> v[e.entries[k].value]]
           b == [k \in D |-> w[e.entries[k].value]]
           Made(x) == IF \E k \in DOMAIN x : IsError(x[k]) THEN ErrorValue
                      ELSE RecordValue([k \in DOMAIN x |->
                             [name |-> e.entries[k].key, value |-> ClearSlot(x[k])]])
<1>1. RecordLiteral(e, ctx, v) = Made(a) /\ RecordLiteral(e, ctx, w) = Made(b)
  BY DEF RecordLiteral
<1>2. CASE \E k \in D : v[e.entries[k].value] = ErrorValue
  <2>1. \E k \in DOMAIN a : IsError(a[k])
    BY <1>2, Errors
  <2>2. Made(a) = ErrorValue
    <3> HIDE DEF a
    <3> QED
      BY <2>1
  <2> QED
    BY <1>1, <2>2 DEF OrFails
<1>3. CASE \A k \in D : v[e.entries[k].value] # ErrorValue
  <2>1. a = b
    BY <1>3 DEF OrFails
  <2> HIDE DEF a, b
  <2>2. Made(a) = Made(b)
    BY <2>1
  <2> HIDE DEF Made
  <2> QED
    BY <1>1, <2>2 DEF OrFails
<1> QED
  BY <1>2, <1>3

LEMMA BodyFails ==
  ASSUME NEW e, NEW ctx, NEW v, NEW w, \A c \in Below({e}) : OrFails(v[c], w[c])
  PROVE  OrFails(Body(e, ctx, v), Body(e, ctx, w))
<1>1. CASE e.op \in Leaf
  BY <1>1 DEF Leaf, Body, OrFails
<1>2. CASE e.op \in OfObject
  <2>1. OrFails(v[e.object], w[e.object])
    BY <1>2, Parts
  <2>2. OrFails(AttrsOf(e.object, ctx, v), AttrsOf(e.object, ctx, w))
    BY <2>1, AttrsOfFails
  <2>3. CASE e.op = "attr"
    <3>1. Body(e, ctx, v) = AttrAccess(e, ctx, v) /\ Body(e, ctx, w) = AttrAccess(e, ctx, w)
      BY <2>3 DEF Body
    <3> QED
      BY <2>2, <3>1, Errors DEF AttrAccess, OrFails
  <2>4. CASE e.op = "has"
    <3>1. Body(e, ctx, v) = Has(e, ctx, v) /\ Body(e, ctx, w) = Has(e, ctx, w)
      BY <2>4 DEF Body
    <3> QED
      BY <2>2, <3>1, Errors DEF Has, OrFails
  <2>5. CASE e.op = "like"
    <3>1. /\ Body(e, ctx, v) = Like(v[e.object], e.pattern)
          /\ Body(e, ctx, w) = Like(w[e.object], e.pattern)
      BY <2>5 DEF Body
    <3> QED
      BY <2>1, <3>1, Errors DEF Like, OrFails
  <2> QED
    BY <1>2, <2>3, <2>4, <2>5 DEF OfObject
<1>3. CASE e.op = "set"
  <2>1. Body(e, ctx, v) = SetLiteral(e, ctx, v) /\ Body(e, ctx, w) = SetLiteral(e, ctx, w)
    BY <1>3 DEF Body
  <2>2. \A k \in DOMAIN e.elts : OrFails(v[e.elts[k]], w[e.elts[k]])
    BY <1>3, Parts
  <2> QED
    BY <2>1, <2>2, SetFails
<1>4. CASE e.op = "record"
  <2>1. Body(e, ctx, v) = RecordLiteral(e, ctx, v) /\ Body(e, ctx, w) = RecordLiteral(e, ctx, w)
    BY <1>4 DEF Body
  <2>2. \A k \in DOMAIN e.entries : OrFails(v[e.entries[k].value], w[e.entries[k].value])
    BY <1>4, Parts
  <2> QED
    BY <2>1, <2>2, RecordFails
<1>5. CASE e.op \in Unary
  <2>1. OrFails(v[e.operand], w[e.operand])
    BY <1>5, Parts
  <2>2. CASE e.op = "not"
    <3>1. Body(e, ctx, v) = Not(v[e.operand]) /\ Body(e, ctx, w) = Not(w[e.operand])
      BY <2>2 DEF Body
    <3> QED
      BY <2>1, <3>1, Errors DEF Not, OrFails
  <2>3. CASE e.op = "neg"
    <3>1. Body(e, ctx, v) = Negate(v[e.operand]) /\ Body(e, ctx, w) = Negate(w[e.operand])
      BY <2>3 DEF Body
    <3> QED
      BY <2>1, <3>1, Errors DEF Negate, OrFails
  <2> QED
    BY <1>5, <2>2, <2>3 DEF Unary
<1>6. CASE e.op = "call"
  <2>1. Body(e, ctx, v) = Call(e, ctx, v) /\ Body(e, ctx, w) = Call(e, ctx, w)
    BY <1>6 DEF Body
  <2>2. OrFails(v[e.object], w[e.object]) /\ (e.arg # NoNode => OrFails(v[e.arg], w[e.arg]))
    BY <1>6, Parts
  <2> QED
    BY <2>1, <2>2, Errors DEF Call, OrFails
<1>7. CASE e.op = "is"
  <2>1. Body(e, ctx, v) = IsCheck(e, ctx, v) /\ Body(e, ctx, w) = IsCheck(e, ctx, w)
    BY <1>7 DEF Body
  <2>2. OrFails(v[e.object], w[e.object]) /\ (e.within # NoNode => OrFails(v[e.within], w[e.within]))
    BY <1>7, Parts
  <2> QED
    BY <2>1, <2>2, Errors DEF IsCheck, OrFails
<1>8. CASE e.op = "if"
  <2>1. Body(e, ctx, v) = IfThenElse(e, ctx, v) /\ Body(e, ctx, w) = IfThenElse(e, ctx, w)
    BY <1>8 DEF Body
  <2>2. /\ OrFails(v[e.cond], w[e.cond]) /\ OrFails(v[e.then], w[e.then])
        /\ OrFails(v[e.else], w[e.else])
    BY <1>8, Parts
  <2>3. CASE v[e.cond] = ErrorValue
    BY <2>1, <2>3, Errors DEF IfThenElse, OrFails
  <2>4. CASE v[e.cond] = w[e.cond]
    BY <2>1, <2>2, <2>4, Errors DEF IfThenElse, OrFails
  <2> QED
    BY <2>2, <2>3, <2>4 DEF OrFails
<1>9. CASE e.op \notin Unpaired
  <2>1. OrFails(v[e.left], w[e.left]) /\ OrFails(v[e.right], w[e.right])
    BY <1>9, Parts
  <2>2. ASSUME NEW decisive \in BOOLEAN
        PROVE  OrFails(Connective(e, ctx, v, decisive), Connective(e, ctx, w, decisive))
    BY <2>1, Errors DEF Connective, OrFails
  <2>3. CASE e.op = "and"
    BY <2>2, <2>3 DEF Body
  <2>4. CASE e.op = "or"
    BY <2>2, <2>4 DEF Body
  <2>5. CASE e.op \notin {"and", "or"}
    <3>1. Body(e, ctx, v) = Binary(e, ctx, v) /\ Body(e, ctx, w) = Binary(e, ctx, w)
      BY <1>9, <2>5 DEF Body, Unpaired, Leaf, OfObject, Unary
    <3> QED
      BY <2>1, <3>1, Errors DEF Binary, OrFails
  <2> QED
    BY <2>3, <2>4, <2>5
<1> QED
  BY <1>1, <1>2, <1>3, <1>4, <1>5, <1>6, <1>7, <1>8, <1>9 DEF Unpaired

LEMMA BodyReads ==
  ASSUME NEW e, NEW ctx, NEW v, NEW w, \A c \in Below({e}) : v[c] = w[c]
  PROVE  Body(e, ctx, v) = Body(e, ctx, w)
<1>1. OrFails(Body(e, ctx, v), Body(e, ctx, w))
  BY BodyFails DEF OrFails
<1>2. OrFails(Body(e, ctx, w), Body(e, ctx, v))
  BY BodyFails DEF OrFails
<1> QED
  BY <1>1, <1>2 DEF OrFails
-----------------------------------------------------------------------------
(***************************************************************************)
(* The tables that an expression is evaluated with: what is in them does   *)
(* not depend on the expression that they were made for.                   *)
(***************************************************************************)
EvalTable(v, e, ctx, room) ==
  /\ DOMAIN v = 0 .. room
  /\ \A c \in Level(e, room + 1) : v[0][c] = ErrorValue
  /\ \A r \in 0 .. room - 1 : \A c \in Level(e, room - r) : v[r + 1][c] = Body(c, ctx, v[r])

EvalAt(e, ctx, room) == Eval(e, ctx, MaxEvalDepth - room)

LEMMA EvalTables ==
  ASSUME NEW e, NEW ctx, NEW room \in Nat \ {0}
  PROVE  \E v : EvalTable(v, e, ctx, room) /\ EvalAt(e, ctx, room) = v[room][e]
<1> DEFINE levels == Levels(e, room + 1)
           Row(r, below) == [c \in levels[room + 1 - r] |->
                               IF r = 0 THEN ErrorValue ELSE Body(c, ctx, below)]
           Rows(f, m) == /\ f = [r \in 0 .. m |-> f[r]]
                         /\ \A r \in 0 .. m : f[r] = Row(r, f[r - 1])
           Is(f) == f = [r \in 0 .. room |->
                           [c \in levels[room + 1 - r] |->
                              IF r = 0 THEN ErrorValue ELSE Body(c, ctx, f[r - 1])]]
<1> HIDE DEF levels
<1>1. \E f : Rows(f, room)
  <2> DEFINE T == {m \in 0 .. room : \E f : Rows(f, m)}
  <2>1. 0 \in T
    <3> DEFINE f == [r \in 0 .. 0 |-> Row(0, 0)]
    <3>1. Row(0, f[0 - 1]) = Row(0, 0)
      OBVIOUS
    <3>2. f = [r \in 0 .. 0 |-> f[r]] /\ f[0] = Row(0, 0) /\ \A r \in 0 .. 0 : r = 0
      OBVIOUS
    <3>3. Rows(f, 0)
      <4> HIDE DEF f, Row
      <4> QED
        BY <3>1, <3>2
    <3> HIDE DEF Rows, f
    <3> QED
      BY <3>3
  <2>2. ASSUME NEW m \in 0 .. room - 1, m \in T PROVE m + 1 \in T
    <3>1. PICK f : Rows(f, m)
      <4> HIDE DEF Rows
      <4> QED
        BY <2>2
    <3> DEFINE g == [r \in 0 .. m + 1 |-> IF r = m + 1 THEN Row(m + 1, f[m]) ELSE f[r]]
    <3> HIDE DEF Row
    <3>2. g = [r \in 0 .. m + 1 |-> g[r]]
      OBVIOUS
    <3>3. ASSUME NEW r \in 0 .. m + 1 PROVE g[r] = Row(r, g[r - 1])
      <4>1. CASE r = m + 1
        <5>1. r - 1 = m /\ m \in 0 .. m + 1 /\ m # m + 1
          BY <4>1
        <5> QED
          BY <4>1, <5>1
      <4>2. CASE r # m + 1
        <5>1. r \in 0 .. m
          BY <4>2
        <5>2. g[r] = Row(r, f[r - 1])
          BY <3>1, <4>2, <5>1
        <5>3. CASE r = 0
          <6>1. Row(0, f[0 - 1]) = Row(0, g[0 - 1])
            BY DEF Row
          <6> QED
            BY <5>2, <5>3, <6>1
        <5>4. CASE r # 0
          <6>1. r - 1 \in 0 .. m + 1 /\ r - 1 # m + 1
            BY <5>1, <5>4
          <6> QED
            BY <5>2, <6>1
        <5> QED
          BY <5>3, <5>4
      <4> QED
        BY <4>1, <4>2
    <3>4. Rows(g, m + 1)
      <4> HIDE DEF g
      <4> QED
        BY <3>2, <3>3
    <3>5. m + 1 \in 0 .. room
      OBVIOUS
    <3> HIDE DEF Rows, g
    <3> QED
      BY <3>4, <3>5
  <2>3. \A m \in 0 .. room : m \in T
    <3> HIDE DEF T
    <3> QED
      BY <2>1, <2>2, UpToNumber
  <2>4. room \in T
    <3> HIDE DEF T
    <3> QED
      BY <2>3
  <2> HIDE DEF Rows
  <2> QED
    BY <2>4
<1>2. \E f : Is(f)
  <2>1. PICK f : Rows(f, room)
    <3> HIDE DEF Rows
    <3> QED
      BY <1>1
  <2>2. Is(f)
    BY <2>1
  <2> HIDE DEF Is
  <2> QED
    BY <2>2
<1>3. PICK v : v = CHOOSE f : Is(f)
  OBVIOUS
<1>4. Is(v)
  <2> HIDE DEF Is
  <2> QED
    BY <1>2, <1>3
<1>5. EvalAt(e, ctx, room) = v[room][e]
  <2>1. MaxEvalDepth - (MaxEvalDepth - room) = room /\ ~(room <= 0)
    BY EvalDepthAssumption
  <2>2. EvalAt(e, ctx, room)
          = LET r0 == MaxEvalDepth - (MaxEvalDepth - room)
                levs == Levels(e, r0 + 1)
                f == CHOOSE h : h = [r \in 0 .. r0 |->
                           [c \in levs[r0 + 1 - r] |->
                              IF r = 0 THEN ErrorValue ELSE Body(c, ctx, h[r - 1])]]
            IN  IF r0 <= 0 THEN ErrorValue ELSE f[r0][e]
    BY DEF EvalAt, Eval
  <2> QED
    BY <2>1, <2>2, <1>3 DEF levels
<1>6. \A r \in 0 .. room : levels[room + 1 - r] = Level(e, room + 1 - r)
  <2>1. ASSUME NEW r \in 0 .. room
        PROVE  room + 1 - r \in Nat \ {0} /\ room + 1 \in Nat /\ room + 1 >= room + 1 - r
    OBVIOUS
  <2>2. ASSUME NEW k \in Nat \ {0}, NEW n \in Nat, n >= k PROVE Levels(e, n)[k] = Level(e, k)
    BY <2>2, LevelNext
  <2> QED
    BY <2>1, <2>2 DEF levels
<1>7. EvalTable(v, e, ctx, room)
  <2>1. v = [r \in 0 .. room |-> v[r]] /\ DOMAIN v = 0 .. room
    BY <1>4
  <2>2. ASSUME NEW r \in 0 .. room, NEW c \in Level(e, room + 1 - r)
        PROVE  v[r][c] = IF r = 0 THEN ErrorValue ELSE Body(c, ctx, v[r - 1])
    BY <1>4, <1>6
  <2>3. ASSUME NEW c \in Level(e, room + 1) PROVE v[0][c] = ErrorValue
    <3>1. 0 \in 0 .. room /\ room + 1 - 0 = room + 1
      OBVIOUS
    <3> QED
      BY <2>2, <3>1
  <2>4. ASSUME NEW r \in 0 .. room - 1, NEW c \in Level(e, room - r)
        PROVE  v[r + 1][c] = Body(c, ctx, v[r])
    <3>1. r + 1 \in 0 .. room /\ room + 1 - (r + 1) = room - r /\ r + 1 # 0 /\ (r + 1) - 1 = r
      OBVIOUS
    <3> QED
      BY <2>2, <3>1
  <2> QED
    BY <2>1, <2>3, <2>4 DEF EvalTable
<1> QED
  BY <1>5, <1>7

Settled(r, ctx) ==
  \A e, v : \A room \in Nat \ {0} :
    r <= room /\ EvalTable(v, e, ctx, room) =>
      \A c \in Level(e, room + 1 - r) : v[r][c] = EvalAt(c, ctx, r)

LEMMA EvalAtZero ==
  ASSUME NEW e, NEW ctx
  PROVE  EvalAt(e, ctx, 0) = ErrorValue
<1>1. MaxEvalDepth - (MaxEvalDepth - 0) <= 0
  BY EvalDepthAssumption
<1>2. EvalAt(e, ctx, 0)
        = LET r0 == MaxEvalDepth - (MaxEvalDepth - 0)
              levs == Levels(e, r0 + 1)
              f == CHOOSE h : h = [r \in 0 .. r0 |->
                         [c \in levs[r0 + 1 - r] |->
                            IF r = 0 THEN ErrorValue ELSE Body(c, ctx, h[r - 1])]]
          IN  IF r0 <= 0 THEN ErrorValue ELSE f[r0][e]
  BY DEF EvalAt, Eval
<1> QED
  BY <1>1, <1>2

LEMMA SettledNext ==
  ASSUME NEW r \in Nat, NEW ctx, Settled(r, ctx)
  PROVE  /\ Settled(r + 1, ctx)
         /\ \A e, w : (\A c \in Below({e}) : w[c] = EvalAt(c, ctx, r)) =>
              EvalAt(e, ctx, r + 1) = Body(e, ctx, w)
<1> DEFINE RowIs(e, v, room) ==
             \A c \in Level(e, room - r) : /\ v[r + 1][c] = Body(c, ctx, v[r])
                                           /\ \A d \in Below({c}) : v[r][d] = EvalAt(d, ctx, r)
<1>1. ASSUME NEW e, NEW v, NEW room \in Nat \ {0}, r + 1 <= room, EvalTable(v, e, ctx, room)
      PROVE  RowIs(e, v, room)
  <2> SUFFICES ASSUME NEW c \in Level(e, room - r)
               PROVE  /\ v[r + 1][c] = Body(c, ctx, v[r])
                      /\ \A d \in Below({c}) : v[r][d] = EvalAt(d, ctx, r)
    OBVIOUS
  <2>1. r \in 0 .. room - 1 /\ r <= room /\ room - r \in Nat \ {0}
    BY <1>1
  <2>2. v[r + 1][c] = Body(c, ctx, v[r])
    BY <2>1, <1>1 DEF EvalTable
  <2>3. ASSUME NEW d \in Below({c}) PROVE v[r][d] = EvalAt(d, ctx, r)
    <3>1. Level(e, (room - r) + 1) = Below(Level(e, room - r))
      BY <2>1, LevelNext
    <3>2. d \in Below(Level(e, room - r))
      BY <1>1, <2>3, BelowEach
    <3>3. (room - r) + 1 = room + 1 - r
      BY <2>1
    <3>4. d \in Level(e, room + 1 - r)
      BY <3>1, <3>2, <3>3
    <3> QED
      BY <1>1, <2>1, <3>4 DEF Settled
  <2> QED
    BY <2>2, <2>3
<1>2. ASSUME NEW e, NEW w, \A c \in Below({e}) : w[c] = EvalAt(c, ctx, r)
      PROVE  EvalAt(e, ctx, r + 1) = Body(e, ctx, w)
  <2>1. r + 1 \in Nat \ {0} /\ (r + 1) - r = 1 /\ r + 1 <= r + 1
    OBVIOUS
  <2>2. PICK u : EvalTable(u, e, ctx, r + 1) /\ EvalAt(e, ctx, r + 1) = u[r + 1][e]
    BY <2>1, EvalTables
  <2>3. e \in Level(e, (r + 1) - r)
    <3>1. Level(e, 1) = {e}
      BY <2>1, LevelNext
    <3> QED
      BY <2>1, <3>1
  <2>4. /\ u[r + 1][e] = Body(e, ctx, u[r])
        /\ \A d \in Below({e}) : u[r][d] = EvalAt(d, ctx, r)
    <3>1. PICK k \in Nat \ {0} : k = r + 1
      BY <2>1
    <3>2. r + 1 <= k /\ EvalTable(u, e, ctx, k) /\ e \in Level(e, k - r)
      BY <2>1, <2>2, <2>3, <3>1
    <3>3. RowIs(e, u, k)
      <4> HIDE DEF RowIs
      <4> QED
        BY <1>1, <3>1, <3>2
    <3> QED
      BY <3>2, <3>3
  <2>5. \A d \in Below({e}) : u[r][d] = w[d]
    BY <1>2, <2>4
  <2> DEFINE ur == u[r]
  <2>6. Body(e, ctx, ur) = Body(e, ctx, w)
    <3>1. \A d \in Below({e}) : ur[d] = w[d]
      BY <2>5
    <3> HIDE DEF ur
    <3> QED
      BY <3>1, BodyReads
  <2> QED
    BY <2>2, <2>4, <2>6
<1>3. ASSUME NEW e, NEW v, NEW room \in Nat \ {0}, r + 1 <= room, EvalTable(v, e, ctx, room),
             NEW c \in Level(e, room + 1 - (r + 1))
      PROVE  v[r + 1][c] = EvalAt(c, ctx, r + 1)
  <2>1. room + 1 - (r + 1) = room - r
    OBVIOUS
  <2>2. c \in Level(e, room - r)
    BY <1>3, <2>1
  <2>3. /\ v[r + 1][c] = Body(c, ctx, v[r])
        /\ \A d \in Below({c}) : v[r][d] = EvalAt(d, ctx, r)
    <3>1. RowIs(e, v, room)
      <4> HIDE DEF RowIs
      <4> QED
        BY <1>1, <1>3
    <3> QED
      BY <2>2, <3>1
  <2> DEFINE w == v[r]
  <2>4. \A d \in Below({c}) : w[d] = EvalAt(d, ctx, r)
    BY <2>3
  <2>5. EvalAt(c, ctx, r + 1) = Body(c, ctx, w)
    <3> HIDE DEF w
    <3> QED
      BY <2>4, <1>2
  <2> QED
    BY <2>3, <2>5
<1> QED
  BY <1>2, <1>3 DEF Settled

LEMMA AllSettled ==
  ASSUME NEW n \in Nat, NEW ctx
  PROVE  Settled(n, ctx)
<1> DEFINE T == {r \in 0 .. n : Settled(r, ctx)}
<1>1. 0 \in T
  <2>1. ASSUME NEW e, NEW v, NEW room \in Nat \ {0}, EvalTable(v, e, ctx, room),
               NEW c \in Level(e, room + 1 - 0)
        PROVE  v[0][c] = EvalAt(c, ctx, 0)
    <3>1. c \in Level(e, room + 1)
      <4>1. room + 1 - 0 = room + 1
        OBVIOUS
      <4> QED
        BY <2>1, <4>1
    <3> QED
      BY <2>1, <3>1, EvalAtZero DEF EvalTable
  <2>2. Settled(0, ctx)
    BY <2>1 DEF Settled
  <2> QED
    BY <2>2
<1>2. ASSUME NEW r \in 0 .. n - 1, r \in T PROVE r + 1 \in T
  BY <1>2, SettledNext
<1>3. \A r \in 0 .. n : r \in T
  <2> HIDE DEF T
  <2> QED
    BY <1>1, <1>2, UpToNumber
<1> QED
  BY <1>3

(***************************************************************************)
(* An expression is evaluated from the values of its operands, with one    *)
(* level less to go.                                                       *)
(***************************************************************************)
LEMMA EvalUnfolds ==
  ASSUME NEW e, NEW ctx, NEW r \in Nat, NEW w, \A c \in Below({e}) : w[c] = EvalAt(c, ctx, r)
  PROVE  EvalAt(e, ctx, r + 1) = Body(e, ctx, w)
<1>1. Settled(r, ctx)
  BY AllSettled
<1>2. \A d, u : (\A c \in Below({d}) : u[c] = EvalAt(c, ctx, r)) =>
        EvalAt(d, ctx, r + 1) = Body(d, ctx, u)
  BY <1>1, SettledNext
<1> QED
  BY <1>2

OperandValues(e, ctx, r) == [c \in Below({e}) |-> EvalAt(c, ctx, r)]

LEMMA EvalBody ==
  ASSUME NEW e, NEW ctx, NEW r \in Nat
  PROVE  EvalAt(e, ctx, r + 1) = Body(e, ctx, OperandValues(e, ctx, r))
<1> DEFINE w == OperandValues(e, ctx, r)
<1>1. \A c \in Below({e}) : w[c] = EvalAt(c, ctx, r)
  BY DEF OperandValues
<1> HIDE DEF w
<1>2. EvalAt(e, ctx, r + 1) = Body(e, ctx, w)
  BY <1>1, EvalUnfolds
<1> QED
  BY <1>2 DEF w
-----------------------------------------------------------------------------
(***************************************************************************)
(* The height of an expression, from the heights of its operands.          *)
(***************************************************************************)
LEMMA HigherIs ==
  ASSUME NEW e, NEW n \in Nat
  PROVE  /\ Higher(e, 0)
         /\ Higher(e, n + 1) <=> \E c \in Below({e}) : Higher(c, n)
<1>1. \A d : \A m \in Nat : Higher(d, m) <=> Level(d, m + 1) # {}
  BY DEF Higher, Level
<1>2. Level(e, 0 + 1) # {}
  <2>1. 1 \in Nat \ {0} /\ 0 + 1 = 1
    OBVIOUS
  <2>2. Level(e, 1) = {e}
    BY <2>1, LevelNext
  <2> QED
    BY <2>1, <2>2
<1>3. \A x : x \in Level(e, (n + 1) + 1) <=> \E c \in Below({e}) : x \in Level(c, n + 1)
  <2>1. n + 1 \in Nat \ {0}
    OBVIOUS
  <2> QED
    BY <2>1, LevelOfChild
<1>4. 0 \in Nat /\ n + 1 \in Nat
  OBVIOUS
<1> QED
  BY <1>1, <1>2, <1>3, <1>4

(***************************************************************************)
(* With less room an expression fails or has the same value.               *)
(***************************************************************************)
LessRoom(r, ctx) ==
  \A e : \A s \in Nat : r <= s => OrFails(EvalAt(e, ctx, r), EvalAt(e, ctx, s))

LEMMA MoreRoom ==
  ASSUME NEW n \in Nat, NEW ctx
  PROVE  LessRoom(n, ctx)
<1> DEFINE T == {r \in 0 .. n : LessRoom(r, ctx)}
<1>1. 0 \in T
  BY EvalAtZero DEF LessRoom, OrFails
<1>2. ASSUME NEW r \in 0 .. n - 1, r \in T PROVE r + 1 \in T
  <2>1. ASSUME NEW e, NEW s \in Nat, r + 1 <= s
        PROVE  OrFails(EvalAt(e, ctx, r + 1), EvalAt(e, ctx, s))
    <3>1. PICK q \in Nat : q = s - 1
      BY <2>1
    <3>2. s = q + 1 /\ r <= q /\ r \in Nat
      BY <2>1, <3>1
    <3>3. ASSUME NEW c \in Below({e}) PROVE OrFails(EvalAt(c, ctx, r), EvalAt(c, ctx, q))
      BY <1>2, <3>2 DEF LessRoom
    <3> DEFINE v == OperandValues(e, ctx, r)
               w == OperandValues(e, ctx, q)
    <3>4. \A c \in Below({e}) : OrFails(v[c], w[c])
      BY <3>3 DEF OperandValues
    <3>5. EvalAt(e, ctx, r + 1) = Body(e, ctx, v) /\ EvalAt(e, ctx, q + 1) = Body(e, ctx, w)
      BY <3>2, EvalBody
    <3> HIDE DEF v, w
    <3>6. OrFails(Body(e, ctx, v), Body(e, ctx, w))
      BY <3>4, BodyFails
    <3> QED
      BY <3>2, <3>5, <3>6
  <2>2. r + 1 \in 0 .. n
    OBVIOUS
  <2> QED
    BY <2>1, <2>2 DEF LessRoom
<1>3. \A r \in 0 .. n : r \in T
  <2> HIDE DEF T
  <2> QED
    BY <1>1, <1>2, UpToNumber
<1> QED
  BY <1>3

(***************************************************************************)
(* An expression has all the room it needs when it is not higher.          *)
(***************************************************************************)
RoomFor(r, ctx) ==
  \A e : \A s \in Nat : r <= s /\ ~Higher(e, r) => EvalAt(e, ctx, r) = EvalAt(e, ctx, s)

LEMMA EnoughRoom ==
  ASSUME NEW n \in Nat, NEW ctx
  PROVE  RoomFor(n, ctx)
<1> DEFINE T == {r \in 0 .. n : RoomFor(r, ctx)}
<1>1. 0 \in T
  <2>1. \A e : Higher(e, 0)
    <3>1. 0 \in Nat
      OBVIOUS
    <3> QED
      BY <3>1, HigherIs
  <2> QED
    BY <2>1 DEF RoomFor
<1>2. ASSUME NEW r \in 0 .. n - 1, r \in T PROVE r + 1 \in T
  <2>1. ASSUME NEW e, NEW s \in Nat, r + 1 <= s, ~Higher(e, r + 1)
        PROVE  EvalAt(e, ctx, r + 1) = EvalAt(e, ctx, s)
    <3>1. PICK q \in Nat : q = s - 1
      BY <2>1
    <3>2. s = q + 1 /\ r <= q /\ r \in Nat
      BY <2>1, <3>1
    <3>3. ASSUME NEW c \in Below({e}) PROVE EvalAt(c, ctx, r) = EvalAt(c, ctx, q)
      <4>1. ~Higher(c, r)
        BY <2>1, <3>2, HigherIs
      <4> QED
        BY <1>2, <3>2, <4>1 DEF RoomFor
    <3> DEFINE v == OperandValues(e, ctx, r)
               w == OperandValues(e, ctx, q)
    <3>4. \A c \in Below({e}) : v[c] = w[c]
      BY <3>3 DEF OperandValues
    <3>5. EvalAt(e, ctx, r + 1) = Body(e, ctx, v) /\ EvalAt(e, ctx, q + 1) = Body(e, ctx, w)
      BY <3>2, EvalBody
    <3> HIDE DEF v, w
    <3>6. Body(e, ctx, v) = Body(e, ctx, w)
      BY <3>4, BodyReads
    <3> QED
      BY <3>2, <3>5, <3>6
  <2>2. r + 1 \in 0 .. n
    OBVIOUS
  <2> QED
    BY <2>1, <2>2 DEF RoomFor
<1>3. \A r \in 0 .. n : r \in T
  <2> HIDE DEF T
  <2> QED
    BY <1>1, <1>2, UpToNumber
<1> QED
  BY <1>3

(***************************************************************************)
(* The limit of the depth of evaluation makes an expression fail that is   *)
(* higher than the limit is far, and changes no value otherwise, of any    *)
(* expression in any context.  (php_cedar_expr_eval)                       *)
(***************************************************************************)
LEMMA LimitLaw == LimitOnlyFails
<1> SUFFICES ASSUME NEW d \in 1 .. MaxEvalDepth
             PROVE  OnlyFails(d, Eval(expr, input.ctx, d), Value(expr))
  BY DEF LimitOnlyFails
<1>1. PICK r \in Nat : r = MaxEvalDepth - d
  BY EvalDepthAssumption
<1>2. /\ MaxEvalDepth \in Nat /\ r <= MaxEvalDepth
      /\ MaxEvalDepth - r = d /\ MaxEvalDepth - MaxEvalDepth = 0
  BY <1>1, EvalDepthAssumption
<1>3. /\ Eval(expr, input.ctx, d) = EvalAt(expr, input.ctx, r)
      /\ Value(expr) = EvalAt(expr, input.ctx, MaxEvalDepth)
  BY <1>2 DEF EvalAt, Value
<1>4. OrFails(EvalAt(expr, input.ctx, r), EvalAt(expr, input.ctx, MaxEvalDepth))
  BY <1>2, MoreRoom DEF LessRoom
<1>5. ~Higher(expr, r) => EvalAt(expr, input.ctx, r) = EvalAt(expr, input.ctx, MaxEvalDepth)
  BY <1>2, EnoughRoom DEF RoomFor
<1> QED
  BY <1>1, <1>3, <1>4, <1>5 DEF OnlyFails, OrFails
-----------------------------------------------------------------------------
(***************************************************************************)
(* What is sound and what is legible, from what is inside.                 *)
(***************************************************************************)
LEMMA LegibleIs ==
  ASSUME NEW e, NEW n \in Nat
  PROVE  /\ ~Legible(e, 0)
         /\ Legible(e, n + 1) <=> NodeWellFormed(e) /\ \A c \in Below({e}) : Legible(c, n)
<1> DEFINE Good(d, m) == /\ Level(d, m + 1) = {}
                         /\ \A k \in 1 .. m : \A x \in Level(d, k) : NodeWellFormed(x)
<1>1. ASSUME NEW d, NEW m \in Nat PROVE Legible(d, m) <=> Good(d, m)
  <2>1. ASSUME NEW k \in 1 .. m + 1 PROVE Levels(d, m + 1)[k] = Level(d, k)
    <3>1. k \in Nat \ {0} /\ m + 1 \in Nat /\ m + 1 >= k
      OBVIOUS
    <3> QED
      BY <3>1, LevelNext
  <2>2. m + 1 \in 1 .. m + 1 /\ \A k \in 1 .. m : k \in 1 .. m + 1
    OBVIOUS
  <2> QED
    BY <2>1, <2>2 DEF Legible
<1>2. 1 \in Nat \ {0} /\ 0 + 1 = 1 /\ 0 \in Nat /\ n + 1 \in Nat \ {0} /\ n + 1 \in Nat
  OBVIOUS
<1>3. Level(e, 1) = {e}
  BY <1>2, LevelNext
<1>4. ASSUME NEW k \in Nat \ {0}, NEW x
      PROVE  x \in Level(e, k + 1) <=> \E c \in Below({e}) : x \in Level(c, k)
  BY LevelOfChild
<1>5. ASSUME Good(e, n + 1)
      PROVE  NodeWellFormed(e) /\ \A c \in Below({e}) : Good(c, n)
  <2>1. NodeWellFormed(e)
    <3>1. 1 \in 1 .. n + 1
      OBVIOUS
    <3> QED
      BY <3>1, <1>3, <1>5
  <2>2. ASSUME NEW c \in Below({e}) PROVE Good(c, n)
    <3>1. Level(c, n + 1) = {}
      BY <1>2, <1>4, <1>5
    <3>2. ASSUME NEW k \in 1 .. n, NEW x \in Level(c, k) PROVE NodeWellFormed(x)
      <4>1. k + 1 \in 1 .. n + 1 /\ k \in Nat \ {0}
        OBVIOUS
      <4>2. x \in Level(e, k + 1)
        BY <4>1, <1>4
      <4> QED
        BY <4>1, <4>2, <1>5
    <3> QED
      BY <3>1, <3>2
  <2> QED
    BY <2>1, <2>2
<1>6. ASSUME NodeWellFormed(e), \A c \in Below({e}) : Good(c, n)
      PROVE  Good(e, n + 1)
  <2>1. Level(e, (n + 1) + 1) = {}
    BY <1>2, <1>4, <1>6
  <2>2. ASSUME NEW k \in 1 .. n + 1, NEW x \in Level(e, k) PROVE NodeWellFormed(x)
    <3>1. CASE k = 1
      BY <1>3, <1>6, <2>2, <3>1
    <3>2. CASE k # 1
      <4>1. PICK j \in 1 .. n : j = k - 1
        BY <3>2
      <4>2. k = j + 1 /\ j \in Nat \ {0}
        BY <4>1
      <4>3. PICK c \in Below({e}) : x \in Level(c, j)
        BY <1>4, <2>2, <4>2
      <4> QED
        BY <1>6, <4>3
    <3> QED
      BY <3>1, <3>2
  <2> QED
    BY <2>1, <2>2
<1> HIDE DEF Good
<1>7. ~Legible(e, 0)
  <2>1. ~Good(e, 0)
    BY <1>2, <1>3 DEF Good
  <2> QED
    BY <1>1, <1>2, <2>1
<1> QED
  BY <1>1, <1>2, <1>5, <1>6, <1>7

LEMMA SoundIs ==
  ASSUME NEW v, NEW n \in Nat
  PROVE  /\ ~Sound(v, 0)
         /\ Sound(v, n + 1) <=> WellFormed(v) /\ \A c \in Inside({v}) : Sound(c, n)
<1> DEFINE Good(d, m) == /\ Depth(d, m + 1) = {}
                         /\ \A k \in 1 .. m : \A x \in Depth(d, k) : WellFormed(x)
<1>1. ASSUME NEW d, NEW m \in Nat PROVE Sound(d, m) <=> Good(d, m)
  <2>1. ASSUME NEW k \in 1 .. m + 1 PROVE Depths(d, m + 1)[k] = Depth(d, k)
    <3>1. k \in Nat \ {0} /\ m + 1 \in Nat /\ m + 1 >= k
      OBVIOUS
    <3> QED
      BY <3>1, DepthNext
  <2>2. m + 1 \in 1 .. m + 1 /\ \A k \in 1 .. m : k \in 1 .. m + 1
    OBVIOUS
  <2> QED
    BY <2>1, <2>2 DEF Sound
<1>2. 1 \in Nat \ {0} /\ 0 + 1 = 1 /\ 0 \in Nat /\ n + 1 \in Nat \ {0} /\ n + 1 \in Nat
  OBVIOUS
<1>3. Depth(v, 1) = {v}
  BY <1>2, DepthNext
<1>4. ASSUME NEW k \in Nat \ {0}, NEW x
      PROVE  x \in Depth(v, k + 1) <=> \E c \in Inside({v}) : x \in Depth(c, k)
  BY DepthOfInner
<1>5. ASSUME Good(v, n + 1)
      PROVE  WellFormed(v) /\ \A c \in Inside({v}) : Good(c, n)
  <2>1. WellFormed(v)
    <3>1. 1 \in 1 .. n + 1
      OBVIOUS
    <3> QED
      BY <3>1, <1>3, <1>5
  <2>2. ASSUME NEW c \in Inside({v}) PROVE Good(c, n)
    <3>1. Depth(c, n + 1) = {}
      BY <1>2, <1>4, <1>5
    <3>2. ASSUME NEW k \in 1 .. n, NEW x \in Depth(c, k) PROVE WellFormed(x)
      <4>1. k + 1 \in 1 .. n + 1 /\ k \in Nat \ {0}
        OBVIOUS
      <4>2. x \in Depth(v, k + 1)
        BY <4>1, <1>4
      <4> QED
        BY <4>1, <4>2, <1>5
    <3> QED
      BY <3>1, <3>2
  <2> QED
    BY <2>1, <2>2
<1>6. ASSUME WellFormed(v), \A c \in Inside({v}) : Good(c, n)
      PROVE  Good(v, n + 1)
  <2>1. Depth(v, (n + 1) + 1) = {}
    BY <1>2, <1>4, <1>6
  <2>2. ASSUME NEW k \in 1 .. n + 1, NEW x \in Depth(v, k) PROVE WellFormed(x)
    <3>1. CASE k = 1
      BY <1>3, <1>6, <2>2, <3>1
    <3>2. CASE k # 1
      <4>1. PICK j \in 1 .. n : j = k - 1
        BY <3>2
      <4>2. k = j + 1 /\ j \in Nat \ {0}
        BY <4>1
      <4>3. PICK c \in Inside({v}) : x \in Depth(c, j)
        BY <1>4, <2>2, <4>2
      <4> QED
        BY <1>6, <4>3
    <3> QED
      BY <3>1, <3>2
  <2> QED
    BY <2>1, <2>2
<1> HIDE DEF Good
<1>7. ~Sound(v, 0)
  <2>1. ~Good(v, 0)
    BY <1>2, <1>3 DEF Good
  <2> QED
    BY <1>1, <1>2, <2>1
<1> QED
  BY <1>1, <1>2, <1>5, <1>6, <1>7

LEMMA LegibleNode ==
  ASSUME NEW e, NEW n \in Nat, Legible(e, n)
  PROVE  NodeWellFormed(e) /\ e # NoNode
<1>1. n # 0
  BY LegibleIs
<1>2. n - 1 \in Nat /\ n = (n - 1) + 1
  BY <1>1
<1>3. NodeWellFormed(e)
  BY <1>2, LegibleIs
<1>4. NoNode.op \notin BinaryOps \cup OtherOps
  BY DEF NoNode, BinaryOps, OtherOps
<1> QED
  BY <1>3, <1>4 DEF NodeWellFormed

(***************************************************************************)
(* A bound on the levels may be larger, and as small as the height.        *)
(***************************************************************************)
LegibleGrows(n) == \A x : \A m \in Nat : n <= m /\ Legible(x, n) => Legible(x, m)

LEMMA LegibleMore ==
  ASSUME NEW n \in Nat
  PROVE  LegibleGrows(n)
<1> DEFINE T == {k \in 0 .. n : LegibleGrows(k)}
<1>1. 0 \in T
  <2>1. 0 \in Nat
    OBVIOUS
  <2>2. \A x : ~Legible(x, 0)
    BY <2>1, LegibleIs
  <2> QED
    BY <2>2 DEF LegibleGrows
<1>2. ASSUME NEW k \in 0 .. n - 1, k \in T PROVE k + 1 \in T
  <2>1. k \in Nat /\ k + 1 \in 0 .. n
    OBVIOUS
  <2>2. ASSUME NEW x, NEW m \in Nat, k + 1 <= m, Legible(x, k + 1) PROVE Legible(x, m)
    <3>1. PICK j \in Nat : j = m - 1
      BY <2>2
    <3>2. m = j + 1 /\ k <= j
      BY <2>2, <3>1
    <3>3. \A c \in Below({x}) : Legible(c, j)
      <4>1. \A c \in Below({x}) : Legible(c, k)
        BY <2>1, <2>2, LegibleIs
      <4> QED
        BY <1>2, <3>2, <4>1 DEF LegibleGrows
    <3> QED
      BY <2>1, <2>2, <3>2, <3>3, LegibleIs
  <2> QED
    BY <2>1, <2>2 DEF LegibleGrows
<1>3. \A k \in 0 .. n : k \in T
  <2> HIDE DEF T
  <2> QED
    BY <1>1, <1>2, UpToNumber
<1> QED
  BY <1>3

SoundGrows(n) == \A x : \A m \in Nat : n <= m /\ Sound(x, n) => Sound(x, m)

LEMMA SoundMore ==
  ASSUME NEW n \in Nat
  PROVE  SoundGrows(n)
<1> DEFINE T == {k \in 0 .. n : SoundGrows(k)}
<1>1. 0 \in T
  <2>1. 0 \in Nat
    OBVIOUS
  <2>2. \A x : ~Sound(x, 0)
    BY <2>1, SoundIs
  <2> QED
    BY <2>2 DEF SoundGrows
<1>2. ASSUME NEW k \in 0 .. n - 1, k \in T PROVE k + 1 \in T
  <2>1. k \in Nat /\ k + 1 \in 0 .. n
    OBVIOUS
  <2>2. ASSUME NEW x, NEW m \in Nat, k + 1 <= m, Sound(x, k + 1) PROVE Sound(x, m)
    <3>1. PICK j \in Nat : j = m - 1
      BY <2>2
    <3>2. m = j + 1 /\ k <= j
      BY <2>2, <3>1
    <3>3. \A c \in Inside({x}) : Sound(c, j)
      <4>1. \A c \in Inside({x}) : Sound(c, k)
        BY <2>1, <2>2, SoundIs
      <4> QED
        BY <1>2, <3>2, <4>1 DEF SoundGrows
    <3> QED
      BY <2>1, <2>2, <3>2, <3>3, SoundIs
  <2> QED
    BY <2>1, <2>2 DEF SoundGrows
<1>3. \A k \in 0 .. n : k \in T
  <2> HIDE DEF T
  <2> QED
    BY <1>1, <1>2, UpToNumber
<1> QED
  BY <1>3

LegibleFits(n) ==
  \A e : \A m \in Nat : Legible(e, m) => (Legible(e, n) <=> ~Higher(e, n))

LEMMA LegibleHeight ==
  ASSUME NEW n \in Nat
  PROVE  LegibleFits(n)
<1> DEFINE T == {k \in 0 .. n : LegibleFits(k)}
<1>1. 0 \in T
  <2>1. 0 \in Nat
    OBVIOUS
  <2>2. \A e : ~Legible(e, 0) /\ Higher(e, 0)
    BY <2>1, LegibleIs, HigherIs
  <2> QED
    BY <2>2 DEF LegibleFits
<1>2. ASSUME NEW k \in 0 .. n - 1, k \in T PROVE k + 1 \in T
  <2>1. k \in Nat /\ k + 1 \in 0 .. n
    OBVIOUS
  <2>2. ASSUME NEW e, NEW m \in Nat, Legible(e, m)
        PROVE  Legible(e, k + 1) <=> ~Higher(e, k + 1)
    <3>1. m # 0
      BY <2>1, <2>2, LegibleIs
    <3>2. PICK j \in Nat : m = j + 1
      <4>1. m - 1 \in Nat /\ m = (m - 1) + 1
        BY <3>1
      <4> QED
        BY <4>1
    <3>3. NodeWellFormed(e) /\ \A c \in Below({e}) : Legible(c, j)
      BY <2>2, <3>2, LegibleIs
    <3>4. \A c \in Below({e}) : Legible(c, k) <=> ~Higher(c, k)
      BY <1>2, <3>3 DEF LegibleFits
    <3>5. Legible(e, k + 1) <=> NodeWellFormed(e) /\ \A c \in Below({e}) : Legible(c, k)
      BY <2>1, LegibleIs
    <3>6. Higher(e, k + 1) <=> \E c \in Below({e}) : Higher(c, k)
      BY <2>1, HigherIs
    <3> QED
      BY <3>3, <3>4, <3>5, <3>6
  <2> QED
    BY <2>1, <2>2 DEF LegibleFits
<1>3. \A k \in 0 .. n : k \in T
  <2> HIDE DEF T
  <2> QED
    BY <1>1, <1>2, UpToNumber
<1> QED
  BY <1>3
-----------------------------------------------------------------------------
(***************************************************************************)
(* What the operators and the methods make: an error, a bool, or a scalar  *)
(* of a type that they compute in.                                         *)
(***************************************************************************)
Plain(v) ==
  \/ v \in {BoolValue(TRUE), BoolValue(FALSE)}
  \/ v.t \in {"long", "decimal", "datetime", "duration"}
  \/ v.t = "ip" /\ v.v6 \in BOOLEAN

Outcome(v) == v = ErrorValue \/ Plain(v)

LEMMA PlainBool ==
  ASSUME NEW b \in BOOLEAN
  PROVE  Plain(BoolValue(b)) /\ Outcome(BoolValue(b))
<1>1. b = TRUE \/ b = FALSE
  OBVIOUS
<1> QED
  BY <1>1 DEF Plain, Outcome

LEMMA PlainNumber ==
  ASSUME NEW n
  PROVE  /\ Outcome(LongValue(n)) /\ Outcome(DecimalValue(n))
         /\ Outcome(DatetimeValue(n)) /\ Outcome(DurationValue(n))
BY DEF Outcome, Plain, LongValue, DecimalValue, DatetimeValue, DurationValue

LEMMA InsideIs ==
  ASSUME NEW v
  PROVE  Inside({v}) = {Inner(v)[i] : i \in DOMAIN Inner(v)}
BY DEF Inside

LEMMA FlatSound ==
  ASSUME NEW v, v.t \notin {"set", "record"},
         ~IsError(v),
         v.t = "bool" => v \in {BoolValue(TRUE), BoolValue(FALSE)},
         v.t = "ip" => v.v6 \in BOOLEAN,
         v.t = "entity" => v.slot \in Range(SlotOrder) \cup {NoSlot}
  PROVE  Sound(v, 1)
<1>1. Inner(v) = <<>>
  BY DEF Inner
<1>2. Len(<<>>) = 0 /\ DOMAIN <<>> = {}
  OBVIOUS
<1>3. Len(Inner(v)) <= MaxEqualsElts /\ DOMAIN Inner(v) = {}
  BY <1>1, <1>2, ExpressionAssumption
<1>4. WellFormed(v)
  BY <1>3 DEF WellFormed
<1>5. Inside({v}) = {}
  BY <1>3, InsideIs
<1>6. 0 \in Nat /\ 0 + 1 = 1
  OBVIOUS
<1>7. Sound(v, 0 + 1) <=> WellFormed(v) /\ \A x \in Inside({v}) : Sound(x, 0)
  BY <1>6, SoundIs
<1> QED
  BY <1>4, <1>5, <1>6, <1>7

LEMMA PlainSound ==
  ASSUME NEW v, Plain(v)
  PROVE  Sound(v, 1) /\ Clear(v) /\ (v.t = "bool" => v \in {BoolValue(TRUE), BoolValue(FALSE)})
<1>1. BoolValue(TRUE).t = "bool" /\ BoolValue(FALSE).t = "bool"
  BY DEF BoolValue
<1>2. /\ v.t \in {"bool", "long", "decimal", "datetime", "duration", "ip"}
      /\ v.t = "bool" => v \in {BoolValue(TRUE), BoolValue(FALSE)}
      /\ v.t = "ip" => v.v6 \in BOOLEAN
  BY <1>1 DEF Plain
<1>3. Sound(v, 1)
  BY <1>2, FlatSound DEF IsError
<1> QED
  BY <1>2, <1>3 DEF Clear

LEMMA TimeOutcome ==
  ASSUME NEW obj, NEW method, NEW arg
  PROVE  Outcome(TimeCall(obj, method, arg))
<1>1. \A n : Outcome(LongValue(n)) /\ Outcome(DatetimeValue(n)) /\ Outcome(DurationValue(n))
  BY PlainNumber
<1>2. Outcome(ErrorValue)
  BY DEF Outcome
<1>3. ASSUME NEW n PROVE Outcome(DatetimeCall(n, method)) /\ Outcome(DurationCall(n, method))
  <2>1. Outcome(DatetimeCall(n, method))
    BY <1>1, <1>2 DEF DatetimeCall
  <2>2. Outcome(DurationCall(n, method))
    BY <1>1, <1>2 DEF DurationCall
  <2> QED
    BY <2>1, <2>2
<1>4. Outcome(DatetimeArgCall(obj, method, arg))
  BY <1>1, <1>2 DEF DatetimeArgCall
<1> QED
  BY <1>2, <1>3, <1>4 DEF TimeCall

LEMMA OrderedIsBool ==
  ASSUME NEW op \in {"lt", "le", "gt", "ge"}, NEW a, NEW b
  PROVE  Ordered(op, a, b) \in BOOLEAN
<1>1. (a < b) \in BOOLEAN /\ (a <= b) \in BOOLEAN /\ (a > b) \in BOOLEAN /\ (a >= b) \in BOOLEAN
  OBVIOUS
<1>2. CASE op = "lt"
  <2>1. Ordered(op, a, b) = (a < b)
    BY <1>2 DEF Ordered
  <2> QED
    BY <1>1, <2>1
<1>3. CASE op = "le"
  <2>1. Ordered(op, a, b) = (a <= b)
    BY <1>3 DEF Ordered
  <2> QED
    BY <1>1, <2>1
<1>4. CASE op = "gt"
  <2>1. Ordered(op, a, b) = (a > b)
    BY <1>4 DEF Ordered
  <2> QED
    BY <1>1, <2>1
<1>5. CASE op = "ge"
  <2>1. Ordered(op, a, b) = (a >= b)
    BY <1>5 DEF Ordered
  <2> QED
    BY <1>1, <2>1
<1> QED
  BY <1>2, <1>3, <1>4, <1>5

LEMMA CallOutcome ==
  ASSUME NEW obj, NEW method, NEW arg, obj.t = "ip" => obj.v6 \in BOOLEAN
  PROVE  Outcome(MethodCall(obj, method, arg))
<1>1. ASSUME NEW b \in BOOLEAN PROVE Outcome(BoolValue(b))
  BY PlainBool
<1>2. Outcome(ErrorValue)
  BY DEF Outcome
<1>3. Outcome(CallWithout(obj, method))
  <2>1. Outcome(BoolValue(obj.elts = <<>>))
    BY <1>1
  <2>2. obj.t = "ip" => Outcome(IpCall(obj, method))
    <3>1. SUFFICES ASSUME obj.t = "ip" PROVE Outcome(IpCall(obj, method))
      OBVIOUS
    <3>2. (~obj.v6) \in BOOLEAN /\ obj.v6 \in BOOLEAN
      BY <3>1
    <3>3. \A range : CidrContains(obj, range) \in BOOLEAN
      BY DEF CidrContains
    <3>4. /\ Outcome(BoolValue(~obj.v6)) /\ Outcome(BoolValue(obj.v6))
          /\ \A range : Outcome(BoolValue(CidrContains(obj, range)))
      BY <1>1, <3>2, <3>3
    <3> QED
      BY <1>2, <3>4 DEF IpCall
  <2>3. Outcome(TimeCall(obj, method, NoArg))
    BY TimeOutcome
  <2> QED
    BY <1>2, <2>1, <2>2, <2>3 DEF CallWithout
<1>4. ASSUME NEW r, NEW negated \in BOOLEAN PROVE Outcome(Compared(r, negated))
  <2>1. ((r = "eq") # negated) \in BOOLEAN
    OBVIOUS
  <2> QED
    BY <1>1, <1>2, <2>1 DEF Compared
<1>5. Outcome(CallWith(obj, method, arg))
  <2>0. DOMAIN DecimalOrder = {"lessThan", "lessThanOrEqual", "greaterThan", "greaterThanOrEqual"}
    BY DEF DecimalOrder
  <2>1. CASE method \in {"containsAll", "containsAny"}
    <3>1. ASSUME NEW stopAt, NEW results PROVE Outcome(StopAt(stopAt, results))
      <4>1. Outcome(BoolValue(stopAt = "ne")) /\ Outcome(BoolValue(stopAt = "eq"))
        BY <1>1
      <4> QED
        BY <1>2, <4>1 DEF StopAt
    <3>2. Outcome(ContainsMany(obj, method, arg))
      BY <3>1 DEF ContainsMany, FindEach
    <3> QED
      BY <1>2, <2>0, <2>1, <3>2 DEF CallWith
  <2>2. CASE method = "contains"
    BY <1>2, <1>4, <2>0, <2>2 DEF CallWith
  <2>3. CASE method = "isInRange"
    <3>1. Outcome(BoolValue(CidrContains(obj, arg)))
      <4>1. CidrContains(obj, arg) \in BOOLEAN
        BY DEF CidrContains
      <4> QED
        BY <1>1, <4>1
    <3> QED
      BY <1>2, <2>0, <2>3, <3>1 DEF CallWith
  <2>4. CASE method \notin {"containsAll", "containsAny", "contains", "isInRange"}
    <3>1. CASE obj.t = "decimal" /\ arg.t = "decimal" /\ method \in DOMAIN DecimalOrder
      <4>1. DecimalOrder[method] \in {"lt", "le", "gt", "ge"}
        BY <3>1 DEF DecimalOrder
      <4> DEFINE op == DecimalOrder[method]
      <4>2. Ordered(op, obj.n, arg.n) \in BOOLEAN
        <5>1. op \in {"lt", "le", "gt", "ge"}
          BY <4>1
        <5> HIDE DEF op
        <5> QED
          BY <5>1, OrderedIsBool
      <4>3. Outcome(BoolValue(Ordered(op, obj.n, arg.n)))
        BY <1>1, <4>2
      <4> QED
        BY <2>4, <3>1, <4>3 DEF CallWith
    <3>2. CASE ~(obj.t = "decimal" /\ arg.t = "decimal" /\ method \in DOMAIN DecimalOrder)
      <4>1. CallWith(obj, method, arg) = TimeCall(obj, method, arg)
        BY <2>4, <3>2 DEF CallWith
      <4> QED
        BY <4>1, TimeOutcome
    <3> QED
      BY <3>1, <3>2
  <2> QED
    BY <2>1, <2>2, <2>3, <2>4
<1> QED
  BY <1>3, <1>5 DEF MethodCall

LEMMA InOutcome ==
  ASSUME NEW left, NEW right, NEW ctx
  PROVE  Outcome(In(left, right, ctx))
<1>1. ASSUME NEW b \in BOOLEAN PROVE Outcome(BoolValue(b))
  BY PlainBool
<1>2. Outcome(ErrorValue)
  BY DEF Outcome
<1>3. Outcome(BoolValue(InTarget(ctx, left, right.uid)))
  <2>1. InTarget(ctx, left, right.uid) \in BOOLEAN
    BY DEF InTarget
  <2> QED
    BY <1>1, <2>1
<1>4. Outcome(BoolValue(\E k \in DOMAIN right.elts : InTarget(ctx, left, right.elts[k].uid)))
  BY <1>1
<1> QED
  BY <1>2, <1>3, <1>4 DEF In

LEMMA StrictOutcome ==
  ASSUME NEW op \in BinaryOps \ {"and", "or"}, NEW left, NEW right, NEW ctx
  PROVE  Outcome(Strict(op, left, right, ctx))
<1>1. ASSUME NEW b \in BOOLEAN PROVE Outcome(BoolValue(b))
  BY PlainBool
<1>2. Outcome(ErrorValue)
  BY DEF Outcome
<1>3. CASE op \in {"eq", "ne"}
  <2>1. ((ValueEquals(left, right) = "eq") # (op = "ne")) \in BOOLEAN
    OBVIOUS
  <2>2. Outcome(EqualsValue(left, right, op = "ne"))
    BY <1>1, <1>2, <2>1 DEF EqualsValue, Compared
  <2> QED
    BY <1>3, <2>2 DEF Strict
<1>4. CASE op = "in"
  BY <1>4, InOutcome DEF Strict
<1>5. CASE op \in {"lt", "le", "gt", "ge"}
  <2>1. Ordered(op, left.n, right.n) \in BOOLEAN
    BY <1>5, OrderedIsBool
  <2>2. Outcome(BoolValue(Ordered(op, left.n, right.n)))
    BY <1>1, <2>1
  <2>3. Outcome(Compare(op, left, right))
    BY <1>2, <2>2 DEF Compare
  <2> QED
    BY <1>5, <2>3 DEF Strict
<1>6. CASE op \in {"add", "sub", "mul"}
  <2>1. Outcome(Arith(op, left, right))
    BY <1>2, PlainNumber DEF Arith
  <2> QED
    BY <1>6, <2>1 DEF Strict
<1> QED
  BY <1>3, <1>4, <1>5, <1>6 DEF BinaryOps

LEMMA ExtensionOutcome ==
  ASSUME NEW type \in {"ip", "decimal", "datetime", "duration"}, NEW text
  PROVE  Outcome(Extension(type, text))
<1>1. Outcome(ErrorValue)
  BY DEF Outcome
<1>2. ASSUME NEW v6 \in BOOLEAN, NEW addr, NEW prefix PROVE Outcome(IpValue(v6, addr, prefix))
  BY <1>2 DEF Outcome, Plain, IpValue
<1>3. \A n : Outcome(DecimalValue(n)) /\ Outcome(DatetimeValue(n)) /\ Outcome(DurationValue(n))
  BY PlainNumber
<1>4. Outcome(MakeIp(text))
  <2>1. Outcome(ParseIpv4(text))
    BY <1>1, <1>2 DEF ParseIpv4, PrefixBehind, Ipv4Of
  <2>2. Outcome(ParseIpv6(text))
    BY <1>1, <1>2 DEF ParseIpv6, SplitAt, Ipv6Of
  <2> QED
    BY <1>1, <2>1, <2>2 DEF MakeIp
<1>5. Outcome(MakeDecimal(text))
  <2>1. \A n : Outcome(ScaledValue(n))
    BY <1>1, <1>3 DEF ScaledValue
  <2> QED
    BY <1>1, <2>1 DEF MakeDecimal, DecimalFrom, DecimalAt
<1>6. Outcome(MakeDatetime(text))
  BY <1>1, <1>3 DEF MakeDatetime
<1>7. Outcome(MakeDuration(text))
  BY <1>1, <1>3 DEF MakeDuration, Signed
<1> QED
  BY <1>4, <1>5, <1>6, <1>7 DEF Extension
-----------------------------------------------------------------------------
(***************************************************************************)
(* Arrays, and the containers made of them.                                *)
(***************************************************************************)
LEMMA IntervalLength ==
  ASSUME NEW m \in Nat, NEW n \in Nat, 1 .. m = 1 .. n
  PROVE  m = n
<1>1. CASE m = 0
  <2>1. 1 \notin 1 .. n
    BY <1>1
  <2> QED
    BY <1>1, <2>1
<1>2. CASE m # 0
  <2>1. m \in 1 .. n
    BY <1>2
  <2>2. n \in 1 .. m
    BY <2>1
  <2> QED
    BY <2>1, <2>2
<1> QED
  BY <1>1, <1>2

LEMMA ArrayIs ==
  ASSUME NEW s, IsArray(s)
  PROVE  /\ Len(s) \in Nat /\ DOMAIN s = 1 .. Len(s)
         /\ s = [k \in DOMAIN s |-> s[k]]
         /\ s = <<>> <=> Len(s) = 0
<1> DEFINE S == Range(s)
<1>1. s \in Seq(S)
  BY DEF IsArray
<1> HIDE DEF S
<1> QED
  BY <1>1

LEMMA Mapped ==
  ASSUME NEW s, IsArray(s), NEW t, t = [k \in DOMAIN s |-> t[k]]
  PROVE  IsArray(t) /\ Len(t) = Len(s) /\ DOMAIN t = DOMAIN s
<1> DEFINE n == Len(s)
           S == Range(t)
<1>1. n \in Nat /\ DOMAIN s = 1 .. n
  BY ArrayIs
<1> HIDE DEF n
<1>2. DOMAIN t = 1 .. n /\ t = [k \in 1 .. n |-> t[k]]
  BY <1>1
<1>3. \A k \in 1 .. n : t[k] \in S
  BY <1>2 DEF Range
<1> HIDE DEF S
<1>4. t \in [1 .. n -> S]
  BY <1>2, <1>3
<1>5. t \in Seq(S)
  BY <1>1, <1>4, SeqDef
<1>6. Len(t) \in Nat /\ DOMAIN t = 1 .. Len(t)
  BY <1>5
<1>7. Len(t) = n
  BY <1>1, <1>2, <1>6, IntervalLength
<1> QED
  BY <1>1, <1>2, <1>5, <1>7 DEF IsArray, S, n

LEMMA FirstIs ==
  ASSUME NEW T, T \subseteq Nat, T # {}
  PROVE  First(T) \in T /\ \A k \in T : First(T) <= k
BY LeastNumber DEF First

LEMMA SetSound ==
  ASSUME NEW m \in Nat, NEW elts, IsArray(elts), Len(elts) <= MaxEqualsElts,
         \A k \in DOMAIN elts : Sound(elts[k], m) /\ Clear(elts[k])
  PROVE  Sound(SetValue(elts), m + 1)
<1> DEFINE v == SetValue(elts)
<1>1. v.t = "set" /\ v.elts = elts /\ Inner(v) = elts
  BY DEF SetValue, Inner
<1> HIDE DEF v
<1>2. WellFormed(v)
  BY <1>1 DEF WellFormed, IsError
<1>3. \A x \in Inside({v}) : Sound(x, m)
  BY <1>1, InsideIs
<1>4. Sound(v, m + 1)
  BY <1>2, <1>3, SoundIs
<1> QED
  BY <1>4 DEF v

LEMMA RecordInner ==
  ASSUME NEW attrs
  PROVE  /\ RecordValue(attrs).t = "record" /\ RecordValue(attrs).attrs = attrs
         /\ Inner(RecordValue(attrs)) = [k \in DOMAIN attrs |-> attrs[k].value]
BY DEF RecordValue, Inner

LEMMA RecordSound ==
  ASSUME NEW m \in Nat, NEW attrs, IsArray(attrs), Len(attrs) <= MaxEqualsElts,
         \A k \in DOMAIN attrs : Sound(attrs[k].value, m) /\ Clear(attrs[k].value)
  PROVE  Sound(RecordValue(attrs), m + 1)
<1> DEFINE v == RecordValue(attrs)
           inner == Inner(v)
<1>1. /\ v.t = "record" /\ v.attrs = attrs /\ inner = [k \in DOMAIN attrs |-> attrs[k].value]
      /\ v = RecordValue(attrs)
  BY RecordInner
<1> HIDE DEF v, inner
<1>2. inner = [k \in DOMAIN attrs |-> inner[k]]
  BY <1>1
<1>3. Len(inner) = Len(attrs) /\ DOMAIN inner = DOMAIN attrs
  BY <1>2, Mapped
<1>4. \A k \in DOMAIN inner : Sound(inner[k], m) /\ Clear(inner[k])
  BY <1>1
<1>5. WellFormed(v)
  BY <1>1, <1>3, <1>4 DEF WellFormed, IsError, inner
<1>6. \A x \in Inside({v}) : Sound(x, m)
  BY <1>4, InsideIs DEF inner
<1>7. Sound(v, m + 1)
  BY <1>5, <1>6, SoundIs
<1> QED
  BY <1>7 DEF v

LEMMA SoundParts ==
  ASSUME NEW v, NEW m \in Nat, Sound(v, m)
  PROVE  /\ WellFormed(v) /\ m # 0
         /\ \A i \in DOMAIN Inner(v) : Sound(Inner(v)[i], m - 1) /\ Clear(Inner(v)[i])
<1>1. m # 0
  BY SoundIs
<1>2. PICK k \in Nat : m = k + 1 /\ m - 1 = k
  <2>1. m - 1 \in Nat /\ m = (m - 1) + 1
    BY <1>1
  <2> QED
    BY <2>1
<1>3. WellFormed(v) /\ \A x \in Inside({v}) : Sound(x, k)
  BY <1>2, SoundIs
<1>4. \A i \in DOMAIN Inner(v) : Sound(Inner(v)[i], k)
  BY <1>3, InsideIs
<1> QED
  BY <1>1, <1>2, <1>3, <1>4 DEF WellFormed

(***************************************************************************)
(* An attribute is found iff there is one, and is sound.                   *)
(***************************************************************************)
LEMMA FindSound ==
  ASSUME NEW attrs, NEW m \in Nat, Sound(RecordValue(attrs), m + 1), NEW name
  PROVE  /\ HasAttr(attrs, name) => /\ Sound(FindAttr(attrs, name), m)
                                    /\ Clear(FindAttr(attrs, name))
                                    /\ ~IsError(FindAttr(attrs, name))
         /\ ~HasAttr(attrs, name) => FindAttr(attrs, name) = ErrorValue
<1> DEFINE v == RecordValue(attrs)
           named == {k \in DOMAIN attrs : attrs[k].name = name}
<1>1. v.t = "record" /\ v.attrs = attrs /\ Inner(v) = [k \in DOMAIN attrs |-> attrs[k].value]
  BY RecordInner
<1>2. m + 1 \in Nat /\ (m + 1) - 1 = m
  OBVIOUS
<1>3. WellFormed(v) /\ \A i \in DOMAIN Inner(v) : Sound(Inner(v)[i], m) /\ Clear(Inner(v)[i])
  BY <1>2, SoundParts
<1> HIDE DEF v
<1>4. IsArray(attrs)
  BY <1>1, <1>3 DEF WellFormed
<1>5. named \subseteq Nat
  BY <1>4, ArrayIs
<1>6. HasAttr(attrs, name) <=> named # {}
  BY DEF HasAttr
<1>7. FindAttr(attrs, name) = IF named = {} THEN ErrorValue ELSE attrs[First(named)].value
  BY DEF FindAttr
<1>8. ASSUME named # {}
      PROVE  /\ Sound(attrs[First(named)].value, m) /\ Clear(attrs[First(named)].value)
             /\ ~IsError(attrs[First(named)].value)
  <2>1. First(named) \in named
    <3> HIDE DEF named
    <3> QED
      BY <1>5, <1>8, FirstIs
  <2>2. PICK k \in DOMAIN attrs : k = First(named)
    BY <2>1
  <2>3. Sound(attrs[k].value, m) /\ Clear(attrs[k].value)
    BY <1>1, <1>3
  <2>4. WellFormed(attrs[k].value)
    BY <2>3, SoundParts
  <2> QED
    BY <2>2, <2>3, <2>4 DEF WellFormed
<1> HIDE DEF named
<1> QED
  BY <1>6, <1>7, <1>8
-----------------------------------------------------------------------------
(***************************************************************************)
(* What a legible expression is evaluated to: an error, or a value with at *)
(* most as many levels as the data and the expression have, which is a     *)
(* request entity only when the expression names it.                       *)
(***************************************************************************)
LEMMA Slots == Range(SlotOrder) = {"principal", "action", "resource"}
<1>1. DOMAIN SlotOrder = {1, 2, 3} /\ SlotOrder[1] = "principal"
      /\ SlotOrder[2] = "action" /\ SlotOrder[3] = "resource"
  BY DEF SlotOrder
<1> QED
  BY <1>1 DEF Range

LEMMA RequestSlotIs ==
  ASSUME NEW ctx, NEW uid
  PROVE  \/ /\ RequestSlot(ctx, uid) = NoSlot
            /\ \A s \in Range(SlotOrder) : ctx.uid[s] # uid
         \/ /\ RequestSlot(ctx, uid) \in Range(SlotOrder)
            /\ ctx.uid[RequestSlot(ctx, uid)] = uid
<1> DEFINE named == {k \in DOMAIN SlotOrder : ctx.uid[SlotOrder[k]] = uid}
<1>1. DOMAIN SlotOrder \subseteq Nat
  <2>1. DOMAIN SlotOrder = {1, 2, 3}
    BY DEF SlotOrder
  <2> QED
    BY <2>1
<1>2. RequestSlot(ctx, uid) = IF named = {} THEN NoSlot ELSE SlotOrder[First(named)]
  BY DEF RequestSlot
<1>3. CASE named = {}
  BY <1>2, <1>3 DEF Range
<1>4. CASE named # {}
  <2>1. First(named) \in named
    <3>1. named \subseteq Nat
      BY <1>1
    <3> HIDE DEF named
    <3> QED
      BY <1>4, <3>1, FirstIs
  <2> QED
    BY <1>2, <1>4, <2>1 DEF Range
<1> QED
  BY <1>3, <1>4

LEMMA LevelsOfData ==
  /\ DataLevels \in Nat \ {0} /\ DataLevels + MaxHeight = MaxEqualsDepth + 2
  /\ MaxHeight \in Nat /\ MaxEqualsDepth \in Nat /\ MaxEqualsElts \in Nat
BY ExpressionAssumption DEF DataLevels

Evaluated(v, n) == v = ErrorValue \/ Sound(v, DataLevels + n)

LEMMA SoundUpTo ==
  ASSUME NEW v, NEW m \in Nat, NEW n \in Nat, m <= n, Sound(v, m)
  PROVE  Sound(v, n)
<1>1. SoundGrows(m)
  BY SoundMore
<1> QED
  BY <1>1 DEF SoundGrows

LEMMA ClearedSound ==
  ASSUME NEW v, NEW m \in Nat, Sound(v, m)
  PROVE  Sound(ClearSlot(v), m) /\ Clear(ClearSlot(v)) /\ ~IsError(ClearSlot(v))
<1>1. m # 0 /\ WellFormed(v)
  BY SoundParts
<1>2. CASE v.t = "entity"
  <2> DEFINE c == ClearSlot(v)
  <2>1. c.t = "entity" /\ c.slot = NoSlot
    BY <1>2 DEF ClearSlot, EntityValue
  <2> HIDE DEF c
  <2>2. Sound(c, 1)
    BY <2>1, FlatSound DEF IsError
  <2>3. Sound(c, m)
    <3>1. 1 \in Nat /\ 1 <= m
      BY <1>1
    <3> QED
      BY <2>2, <3>1, SoundUpTo
  <2> QED
    BY <2>1, <2>3 DEF c, Clear, IsError
<1>3. CASE v.t # "entity"
  BY <1>1, <1>3 DEF ClearSlot, Clear, WellFormed
<1> QED
  BY <1>2, <1>3

LEMMA OutcomeEvaluated ==
  ASSUME NEW v, Outcome(v), NEW n \in Nat
  PROVE  Evaluated(v, n) /\ Clear(v)
<1>1. CASE v = ErrorValue
  BY <1>1, Errors DEF Evaluated, Clear
<1>2. CASE Plain(v)
  <2>1. Sound(v, 1) /\ Clear(v)
    BY <1>2, PlainSound
  <2>2. 1 \in Nat /\ DataLevels + n \in Nat /\ 1 <= DataLevels + n
    BY LevelsOfData
  <2>3. Sound(v, DataLevels + n)
    BY <2>1, <2>2, SoundUpTo
  <2> QED
    BY <2>1, <2>3 DEF Evaluated
<1> QED
  BY <1>1, <1>2 DEF Outcome

LEMMA AttrsSound ==
  ASSUME NEW ctx, ContextWellFormed(ctx), NEW o, NodeWellFormed(o),
         NEW n \in Nat, NEW w, Evaluated(w[o], n), NEW m \in Nat, m >= n, m >= 2
  PROVE  \/ AttrsOf(o, ctx, w) = ErrorValue
         \/ \E attrs : /\ AttrsOf(o, ctx, w) = RecordValue(attrs)
                       /\ Sound(RecordValue(attrs), DataLevels + m)
<1>1. /\ DataLevels + 1 \in Nat /\ DataLevels + 2 \in Nat /\ DataLevels + m \in Nat
      /\ DataLevels + n \in Nat /\ DataLevels + n <= DataLevels + m
      /\ DataLevels + 1 <= DataLevels + m /\ DataLevels + 2 <= DataLevels + m
  BY LevelsOfData
<1>2. ASSUME NEW home \in Range(SlotOrder) \cup {"context"}
      PROVE  Sound(RecordValue(ctx.attrs[home]), DataLevels + m)
  <2>1. CASE home = "context"
    <3>1. Sound(RecordValue(ctx.attrs["context"]), DataLevels + 1)
      BY DEF ContextWellFormed
    <3> QED
      BY <1>1, <2>1, <3>1, SoundUpTo
  <2>2. CASE home \in Range(SlotOrder)
    <3>1. Sound(RecordValue(ctx.attrs[home]), DataLevels + 2)
      BY <2>2 DEF ContextWellFormed
    <3> QED
      BY <1>1, <3>1, SoundUpTo
  <2> QED
    BY <2>1, <2>2
<1>3. CASE o.op = "var"
  <2>1. o.var \in Range(SlotOrder) \cup {"context"}
    BY <1>3 DEF NodeWellFormed
  <2>2. AttrsOf(o, ctx, w) = RecordValue(ctx.attrs[o.var])
    BY <1>3 DEF AttrsOf
  <2> QED
    BY <1>2, <2>1, <2>2
<1>4. CASE o.op # "var"
  <2> DEFINE v == w[o]
  <2>1. AttrsOf(o, ctx, w) = IF v.t = "entity" /\ v.slot # NoSlot THEN RecordValue(ctx.attrs[v.slot])
                             ELSE IF v.t = "record" THEN v ELSE ErrorValue
    BY <1>4 DEF AttrsOf
  <2>2. v = ErrorValue \/ Sound(v, DataLevels + n)
    BY DEF Evaluated
  <2> HIDE DEF v
  <2>3. CASE v = ErrorValue
    BY <2>1, <2>3, Errors
  <2>4. CASE Sound(v, DataLevels + n)
    <3>1. WellFormed(v) /\ Sound(v, DataLevels + m)
      BY <1>1, <2>4, SoundParts, SoundUpTo
    <3>2. CASE v.t = "entity" /\ v.slot # NoSlot
      <4>1. v.slot \in Range(SlotOrder)
        BY <3>1, <3>2 DEF WellFormed
      <4> QED
        BY <1>2, <2>1, <3>2, <4>1
    <3>3. CASE ~(v.t = "entity" /\ v.slot # NoSlot) /\ v.t = "record"
      <4>1. AttrsOf(o, ctx, w) = v
        BY <2>1, <3>3
      <4>2. v = RecordValue(v.attrs)
        BY <3>1, <3>3 DEF WellFormed
      <4> QED
        BY <3>1, <4>1, <4>2
    <3>4. CASE ~(v.t = "entity" /\ v.slot # NoSlot) /\ v.t # "record"
      BY <2>1, <3>4
    <3> QED
      BY <3>2, <3>3, <3>4
  <2> QED
    BY <2>2, <2>3, <2>4
<1> QED
  BY <1>3, <1>4

LEMMA SetTyped ==
  ASSUME NEW e, NEW ctx, NEW w, NEW m \in Nat, IsArray(e.elts), Len(e.elts) <= MaxEqualsElts,
         \A k \in DOMAIN e.elts : w[e.elts[k]] = ErrorValue \/ Sound(w[e.elts[k]], m)
  PROVE  \/ SetLiteral(e, ctx, w) = ErrorValue
         \/ Sound(SetLiteral(e, ctx, w), m + 1) /\ SetLiteral(e, ctx, w).t = "set"
<1> DEFINE D == DOMAIN e.elts
           x == [k \in D |-> w[e.elts[k]]]
           y == [k \in DOMAIN x |-> ClearSlot(x[k])]
<1>1. SetLiteral(e, ctx, w) = IF x = <<>> \/ \E k \in DOMAIN x : IsError(x[k]) THEN ErrorValue
                              ELSE SetValue(y)
  BY DEF SetLiteral
<1>2. DOMAIN x = D /\ DOMAIN y = D /\ y = [k \in D |-> y[k]]
  OBVIOUS
<1>3. IsArray(y) /\ Len(y) = Len(e.elts)
  <2> HIDE DEF x, y
  <2> QED
    BY <1>2, Mapped
<1>4. CASE \E k \in D : IsError(x[k])
  BY <1>1, <1>2, <1>4
<1>5. CASE \A k \in D : ~IsError(x[k])
  <2>1. ASSUME NEW k \in D PROVE Sound(y[k], m) /\ Clear(y[k])
    <3>1. Sound(x[k], m)
      BY <1>5, <2>1, Errors
    <3>2. y[k] = ClearSlot(x[k])
      OBVIOUS
    <3> HIDE DEF x, y
    <3> QED
      BY <3>1, <3>2, ClearedSound
  <2> HIDE DEF x, y
  <2>2. Sound(SetValue(y), m + 1)
    BY <1>2, <1>3, <2>1, SetSound
  <2>3. SetValue(y).t = "set"
    BY DEF SetValue
  <2> QED
    BY <1>1, <2>2, <2>3
<1> QED
  BY <1>4, <1>5

LEMMA RecordTyped ==
  ASSUME NEW e, NEW ctx, NEW w, NEW m \in Nat, IsArray(e.entries), Len(e.entries) <= MaxEqualsElts,
         \A k \in DOMAIN e.entries :
           w[e.entries[k].value] = ErrorValue \/ Sound(w[e.entries[k].value], m)
  PROVE  \/ RecordLiteral(e, ctx, w) = ErrorValue
         \/ Sound(RecordLiteral(e, ctx, w), m + 1) /\ RecordLiteral(e, ctx, w).t = "record"
<1> DEFINE D == DOMAIN e.entries
           x == [k \in D |-> w[e.entries[k].value]]
           y == [k \in DOMAIN x |-> [name |-> e.entries[k].key, value |-> ClearSlot(x[k])]]
<1>1. RecordLiteral(e, ctx, w) = IF \E k \in DOMAIN x : IsError(x[k]) THEN ErrorValue
                                 ELSE RecordValue(y)
  BY DEF RecordLiteral
<1>2. DOMAIN x = D /\ DOMAIN y = D /\ y = [k \in D |-> y[k]]
  OBVIOUS
<1>3. IsArray(y) /\ Len(y) = Len(e.entries)
  <2> HIDE DEF x, y
  <2> QED
    BY <1>2, Mapped
<1>4. CASE \E k \in D : IsError(x[k])
  BY <1>1, <1>2, <1>4
<1>5. CASE \A k \in D : ~IsError(x[k])
  <2>1. ASSUME NEW k \in D PROVE Sound(y[k].value, m) /\ Clear(y[k].value)
    <3>1. Sound(x[k], m)
      BY <1>5, <2>1, Errors
    <3>2. y[k].value = ClearSlot(x[k])
      OBVIOUS
    <3> HIDE DEF x, y
    <3> QED
      BY <3>1, <3>2, ClearedSound
  <2> HIDE DEF x, y
  <2>2. Sound(RecordValue(y), m + 1)
    BY <1>2, <1>3, <2>1, RecordSound
  <2>3. RecordValue(y).t = "record"
    BY DEF RecordValue
  <2> QED
    BY <1>1, <2>2, <2>3
<1> QED
  BY <1>4, <1>5

Typed(e, v, n) == Evaluated(v, n) /\ (e.op \notin {"var", "entity"} => Clear(v))

LEMMA BodyTyped ==
  ASSUME NEW e, NodeWellFormed(e), NEW ctx, ContextWellFormed(ctx), NEW n \in Nat, NEW w,
         \A c \in Below({e}) : n # 0 /\ NodeWellFormed(c) /\ Evaluated(w[c], n)
  PROVE  Typed(e, Body(e, ctx, w), n + 1)
<1>0. /\ n + 1 \in Nat /\ DataLevels + n \in Nat /\ DataLevels + 1 \in Nat
      /\ DataLevels + (n + 1) = (DataLevels + n) + 1 /\ DataLevels + (n + 1) \in Nat
      /\ DataLevels + 1 <= DataLevels + (n + 1) /\ 1 <= DataLevels + (n + 1) /\ 1 \in Nat
      /\ DataLevels + n <= DataLevels + (n + 1)
  BY LevelsOfData
<1>1. ASSUME NEW v, Outcome(v) PROVE Typed(e, v, n + 1)
  BY <1>0, <1>1, OutcomeEvaluated DEF Typed
<1>1e. Outcome(ErrorValue) /\ Typed(e, ErrorValue, n + 1)
  BY <1>1 DEF Outcome
<1>1b. ASSUME NEW b \in BOOLEAN PROVE Outcome(BoolValue(b))
  BY PlainBool
<1>2. CASE e.op = "lit"
  <2>1. Body(e, ctx, w) = e.value
    BY <1>2 DEF Body
  <2>2. Sound(e.value, DataLevels + 1) /\ Clear(e.value)
    BY <1>2 DEF NodeWellFormed
  <2>3. Sound(e.value, DataLevels + (n + 1))
    BY <1>0, <2>2, SoundUpTo
  <2> QED
    BY <2>1, <2>2, <2>3 DEF Typed, Evaluated
<1>3. CASE e.op = "ext"
  <2>1. Body(e, ctx, w) = Extension(e.type, e.text)
    BY <1>3 DEF Body
  <2>2. Outcome(Extension(e.type, e.text))
    BY <1>3, ExtensionOutcome DEF NodeWellFormed
  <2> QED
    BY <1>1, <2>1, <2>2
<1>4. ASSUME NEW uid, NEW slot \in Range(SlotOrder) \cup {NoSlot}
      PROVE  Evaluated(EntityValue(uid, slot), n + 1)
  <2> DEFINE v == EntityValue(uid, slot)
  <2>1. v.t = "entity" /\ v.slot = slot
    BY DEF EntityValue
  <2> HIDE DEF v
  <2>2. Sound(v, 1)
    BY <2>1, FlatSound DEF IsError
  <2>3. Sound(v, DataLevels + (n + 1))
    BY <1>0, <2>2, SoundUpTo
  <2> QED
    BY <2>3 DEF v, Evaluated
<1>5. CASE e.op = "entity"
  <2>1. Body(e, ctx, w) = EntityValue(e.uid, RequestSlot(ctx, e.uid))
    BY <1>5 DEF Body
  <2>2. RequestSlot(ctx, e.uid) \in Range(SlotOrder) \cup {NoSlot}
    BY RequestSlotIs
  <2> QED
    BY <1>4, <1>5, <2>1, <2>2 DEF Typed
<1>6. CASE e.op = "var"
  <2>1. Body(e, ctx, w) = Variable(ctx, e.var)
    BY <1>6 DEF Body
  <2>2. e.var \in Range(SlotOrder) \cup {"context"}
    BY <1>6 DEF NodeWellFormed
  <2>3. CASE e.var = "context"
    <3>1. Variable(ctx, e.var) = RecordValue(ctx.attrs.context)
      BY <2>3 DEF Variable
    <3>2. Sound(RecordValue(ctx.attrs.context), DataLevels + 1)
      BY DEF ContextWellFormed
    <3>3. Sound(RecordValue(ctx.attrs.context), DataLevels + (n + 1))
      BY <1>0, <3>2, SoundUpTo
    <3> QED
      BY <1>6, <2>1, <3>1, <3>3 DEF Typed, Evaluated
  <2>4. CASE e.var # "context"
    <3>1. Variable(ctx, e.var) = EntityValue(ctx.uid[e.var], e.var)
      BY <2>4 DEF Variable
    <3> QED
      BY <1>4, <1>6, <2>1, <2>2, <2>4, <3>1 DEF Typed
  <2> QED
    BY <2>3, <2>4
<1>7. CASE e.op \in {"attr", "has"}
  <2> DEFINE from == AttrsOf(e.object, ctx, w)
  <2>1. e.object \in Below({e})
    BY <1>7, Parts DEF OfObject
  <2>2. n + 1 >= n /\ n + 1 >= 2
    BY <2>1
  <2>3. \/ from = ErrorValue
        \/ \E attrs : from = RecordValue(attrs) /\ Sound(RecordValue(attrs), DataLevels + (n + 1))
    BY <1>0, <2>1, <2>2, AttrsSound
  <2> HIDE DEF from
  <2>4. CASE e.op = "attr"
    <3>1. Body(e, ctx, w) = IF IsError(from) THEN ErrorValue ELSE FindAttr(from.attrs, e.attr)
      BY <2>4 DEF Body, AttrAccess, from
    <3>2. CASE from = ErrorValue
      BY <1>1e, <3>1, <3>2, Errors
    <3>3. CASE from # ErrorValue
      <4>1. PICK attrs : from = RecordValue(attrs) /\ Sound(RecordValue(attrs), DataLevels + (n + 1))
        BY <2>3, <3>3
      <4>2. Sound(RecordValue(attrs), (DataLevels + n) + 1)
        BY <1>0, <4>1
      <4> DEFINE a == FindAttr(attrs, e.attr)
      <4>3. a = ErrorValue \/ (Sound(a, DataLevels + n) /\ Clear(a))
        BY <1>0, <4>2, FindSound
      <4>4. from.t = "record" /\ from.attrs = attrs
        BY <4>1, RecordInner
      <4>5. Body(e, ctx, w) = a
        BY <3>1, <4>4 DEF IsError
      <4> HIDE DEF a
      <4>6. CASE a = ErrorValue
        BY <1>1e, <4>5, <4>6
      <4>7. CASE Sound(a, DataLevels + n) /\ Clear(a)
        <5>1. Sound(a, DataLevels + (n + 1))
          BY <1>0, <4>7, SoundUpTo
        <5> QED
          BY <4>5, <4>7, <5>1 DEF Typed, Evaluated
      <4> QED
        BY <4>3, <4>6, <4>7
    <3> QED
      BY <3>2, <3>3
  <2>5. CASE e.op = "has"
    <3>1. Body(e, ctx, w) = IF IsError(from) THEN ErrorValue ELSE BoolValue(HasAttr(from.attrs, e.attr))
      BY <2>5 DEF Body, Has, from
    <3>2. HasAttr(from.attrs, e.attr) \in BOOLEAN
      BY DEF HasAttr
    <3>3. Outcome(Body(e, ctx, w))
      BY <1>1e, <1>1b, <3>1, <3>2
    <3> QED
      BY <1>1, <3>3
  <2> QED
    BY <1>7, <2>4, <2>5
<1>8. CASE e.op = "like"
  <2>1. Body(e, ctx, w) = Like(w[e.object], e.pattern)
    BY <1>8 DEF Body
  <2>2. Matches(w[e.object].s, e.pattern) \in BOOLEAN
    BY DEF Matches
  <2>3. Outcome(BoolValue(Matches(w[e.object].s, e.pattern)))
    BY <1>1b, <2>2
  <2>4. Outcome(Like(w[e.object], e.pattern))
    BY <1>1e, <2>3 DEF Like
  <2> QED
    BY <1>1, <2>1, <2>4
<1>9. CASE e.op = "set"
  <2>1. Body(e, ctx, w) = SetLiteral(e, ctx, w)
    BY <1>9 DEF Body
  <2>2. IsArray(e.elts) /\ Len(e.elts) <= MaxEqualsElts
    BY <1>9 DEF NodeWellFormed
  <2>3. \A k \in DOMAIN e.elts : w[e.elts[k]] = ErrorValue \/ Sound(w[e.elts[k]], DataLevels + n)
    BY <1>9, Parts DEF Evaluated
  <2>4. \/ SetLiteral(e, ctx, w) = ErrorValue
        \/ Sound(SetLiteral(e, ctx, w), (DataLevels + n) + 1) /\ SetLiteral(e, ctx, w).t = "set"
    BY <1>0, <2>2, <2>3, SetTyped
  <2> QED
    BY <1>0, <1>1e, <2>1, <2>4 DEF Typed, Evaluated, Clear
<1>10. CASE e.op = "record"
  <2>1. Body(e, ctx, w) = RecordLiteral(e, ctx, w)
    BY <1>10 DEF Body
  <2>2. IsArray(e.entries) /\ Len(e.entries) <= MaxEqualsElts
    BY <1>10 DEF NodeWellFormed
  <2>3. \A k \in DOMAIN e.entries :
          w[e.entries[k].value] = ErrorValue \/ Sound(w[e.entries[k].value], DataLevels + n)
    BY <1>10, Parts DEF Evaluated
  <2>4. \/ RecordLiteral(e, ctx, w) = ErrorValue
        \/ Sound(RecordLiteral(e, ctx, w), (DataLevels + n) + 1) /\ RecordLiteral(e, ctx, w).t = "record"
    BY <1>0, <2>2, <2>3, RecordTyped
  <2> QED
    BY <1>0, <1>1e, <2>1, <2>4 DEF Typed, Evaluated, Clear
<1>11. ASSUME NEW v, Evaluated(v, n)
       PROVE  /\ v.t = "bool" => v \in {BoolValue(TRUE), BoolValue(FALSE)} /\ Outcome(v)
              /\ v.t = "ip" => v.v6 \in BOOLEAN
  <2>1. CASE v = ErrorValue
    BY <2>1, Errors
  <2>2. CASE Sound(v, DataLevels + n)
    <3>1. WellFormed(v)
      BY <1>0, <2>2, SoundParts
    <3> QED
      BY <3>1 DEF WellFormed, Outcome, Plain
  <2> QED
    BY <1>11, <2>1, <2>2 DEF Evaluated
<1>12. CASE e.op \in Unary
  <2>1. Evaluated(w[e.operand], n)
    BY <1>12, Parts
  <2>2. CASE e.op = "not"
    <3>1. Body(e, ctx, w) = Not(w[e.operand])
      BY <2>2 DEF Body
    <3>2. (~w[e.operand].b) \in BOOLEAN
      OBVIOUS
    <3>3. Outcome(Not(w[e.operand]))
      BY <1>1e, <1>1b, <3>2 DEF Not
    <3> QED
      BY <1>1, <3>1, <3>3
  <2>3. CASE e.op = "neg"
    <3>1. Body(e, ctx, w) = Negate(w[e.operand])
      BY <2>3 DEF Body
    <3>2. Outcome(Negate(w[e.operand]))
      BY <1>1e, PlainNumber DEF Negate
    <3> QED
      BY <1>1, <3>1, <3>2
  <2> QED
    BY <1>12, <2>2, <2>3 DEF Unary
<1>13. CASE e.op = "call"
  <2>1. Body(e, ctx, w) = Call(e, ctx, w)
    BY <1>13 DEF Body
  <2>2. Evaluated(w[e.object], n)
    BY <1>13, Parts
  <2>3. \A arg : Outcome(MethodCall(w[e.object], e.method, arg))
    BY <1>11, <2>2, CallOutcome
  <2>4. Outcome(Call(e, ctx, w))
    BY <1>1e, <2>3 DEF Call
  <2> QED
    BY <1>1, <2>1, <2>4
<1>14. CASE e.op = "is"
  <2>1. Body(e, ctx, w) = IsCheck(e, ctx, w)
    BY <1>14 DEF Body
  <2>2. Outcome(BoolValue(TRUE)) /\ Outcome(BoolValue(FALSE))
    BY <1>1b
  <2>3. \A x, y : Outcome(In(x, y, ctx))
    BY InOutcome
  <2>4. Outcome(IsCheck(e, ctx, w))
    BY <1>1e, <2>2, <2>3 DEF IsCheck
  <2> QED
    BY <1>1, <2>1, <2>4
<1>15. CASE e.op = "if"
  <2>1. Body(e, ctx, w) = IfThenElse(e, ctx, w)
    BY <1>15 DEF Body
  <2>2. Evaluated(w[e.then], n) /\ Evaluated(w[e.else], n)
    BY <1>15, Parts
  <2>3. ASSUME NEW v, Evaluated(v, n) PROVE Typed(e, ClearSlot(v), n + 1)
    <3>1. CASE v = ErrorValue
      BY <1>1e, <3>1, Errors
    <3>2. CASE Sound(v, DataLevels + n)
      <4>1. Sound(v, DataLevels + (n + 1))
        BY <1>0, <3>2, SoundUpTo
      <4>2. Sound(ClearSlot(v), DataLevels + (n + 1)) /\ Clear(ClearSlot(v))
        BY <1>0, <4>1, ClearedSound
      <4> QED
        BY <4>2 DEF Typed, Evaluated
    <3> QED
      BY <2>3, <3>1, <3>2 DEF Evaluated
  <2> QED
    BY <1>1e, <2>1, <2>2, <2>3 DEF IfThenElse
<1>16. CASE e.op \notin Unpaired
  <2>1. e.op \in BinaryOps
    BY <1>16 DEF NodeWellFormed, OtherOps, Unpaired, Leaf, OfObject, Unary
  <2>2. Evaluated(w[e.left], n) /\ Evaluated(w[e.right], n)
    BY <1>16, Parts
  <2>3. ASSUME NEW decisive \in BOOLEAN PROVE Outcome(Connective(e, ctx, w, decisive))
    BY <1>1e, <1>11, <2>2 DEF Connective
  <2>4. CASE e.op = "and"
    BY <1>1, <2>3, <2>4 DEF Body
  <2>5. CASE e.op = "or"
    BY <1>1, <2>3, <2>5 DEF Body
  <2>6. CASE e.op \notin {"and", "or"}
    <3>1. Body(e, ctx, w) = Binary(e, ctx, w)
      BY <1>16, <2>6 DEF Body, Unpaired, Leaf, OfObject, Unary
    <3>2. Outcome(Strict(e.op, w[e.left], w[e.right], ctx))
      BY <2>1, <2>6, StrictOutcome
    <3>3. Outcome(Binary(e, ctx, w))
      BY <1>1e, <3>2 DEF Binary
    <3> QED
      BY <1>1, <3>1, <3>3
  <2> QED
    BY <2>4, <2>5, <2>6
<1> QED
  BY <1>2, <1>3, <1>5, <1>6, <1>7, <1>8, <1>9, <1>10, <1>12, <1>13, <1>14, <1>15, <1>16
  DEF Unpaired, Leaf, OfObject, Unary

AllTyped(n, ctx) ==
  \A e : Legible(e, n) => \A r \in Nat : Typed(e, EvalAt(e, ctx, r), n)

LEMMA EvalTyped ==
  ASSUME NEW ctx, ContextWellFormed(ctx), NEW n \in Nat
  PROVE  AllTyped(n, ctx)
<1> DEFINE T == {k \in 0 .. n : AllTyped(k, ctx)}
<1>1. 0 \in T
  <2>1. 0 \in Nat
    OBVIOUS
  <2>2. \A e : ~Legible(e, 0)
    BY <2>1, LegibleIs
  <2> QED
    BY <2>2 DEF AllTyped
<1>2. ASSUME NEW k \in 0 .. n - 1, k \in T PROVE k + 1 \in T
  <2>1. k \in Nat /\ k + 1 \in Nat /\ k + 1 \in 0 .. n
    OBVIOUS
  <2>2. ASSUME NEW e, Legible(e, k + 1), NEW r \in Nat
        PROVE  Typed(e, EvalAt(e, ctx, r), k + 1)
    <3>1. CASE r = 0
      <4>1. EvalAt(e, ctx, r) = ErrorValue
        BY <3>1, EvalAtZero
      <4>2. Clear(ErrorValue)
        BY Errors DEF Clear
      <4> QED
        BY <4>1, <4>2 DEF Typed, Evaluated
    <3>2. CASE r # 0
      <4>1. PICK q \in Nat : r = q + 1
        <5>1. r - 1 \in Nat /\ r = (r - 1) + 1
          BY <3>2
        <5> QED
          BY <5>1
      <4> DEFINE w == OperandValues(e, ctx, q)
      <4>2. EvalAt(e, ctx, r) = Body(e, ctx, w)
        BY <4>1, EvalBody
      <4>3. NodeWellFormed(e) /\ \A c \in Below({e}) : Legible(c, k)
        BY <2>1, <2>2, LegibleIs
      <4>4. ASSUME NEW c \in Below({e}) PROVE k # 0 /\ NodeWellFormed(c) /\ Evaluated(w[c], k)
        <5>1. Legible(c, k)
          BY <4>3
        <5>2. w[c] = EvalAt(c, ctx, q)
          BY DEF OperandValues
        <5>3. Evaluated(w[c], k)
          BY <1>2, <5>1, <5>2 DEF AllTyped, Typed
        <5>4. k # 0
          BY <5>1, LegibleIs
        <5>5. PICK j \in Nat : k = j + 1
          <6>1. k - 1 \in Nat /\ k = (k - 1) + 1
            BY <5>4
          <6> QED
            BY <6>1
        <5>6. NodeWellFormed(c)
          BY <5>1, <5>5, LegibleIs
        <5> QED
          BY <5>3, <5>4, <5>6
      <4> HIDE DEF w
      <4>5. Typed(e, Body(e, ctx, w), k + 1)
        BY <2>1, <4>3, <4>4, BodyTyped
      <4> QED
        BY <4>2, <4>5
    <3> QED
      BY <3>1, <3>2
  <2> QED
    BY <2>1, <2>2 DEF AllTyped
<1>3. \A k \in 0 .. n : k \in T
  <2> HIDE DEF T
  <2> QED
    BY <1>1, <1>2, UpToNumber
<1> QED
  BY <1>3
-----------------------------------------------------------------------------
(***************************************************************************)
(* The expressions that are built from others.                             *)
(***************************************************************************)
Built(e, parts) == NodeWellFormed(e) /\ Below({e}) \subseteq parts

LEMMA BelowIs ==
  ASSUME NEW e, NEW a, NEW b, NEW c
  PROVE  /\ Children(e) = <<>> => Below({e}) = {}
         /\ Children(e) = <<a>> => Below({e}) = {a}
         /\ Children(e) = <<a, b>> => Below({e}) = {a, b}
         /\ Children(e) = <<a, b, c>> => Below({e}) = {a, b, c}
<1>1. Below({e}) = {Children(e)[i] : i \in DOMAIN Children(e)}
  BY DEF Below
<1>2. ASSUME Children(e) = <<>> PROVE Below({e}) = {}
  <2>1. DOMAIN <<>> = {}
    OBVIOUS
  <2> QED
    BY <1>1, <1>2, <2>1
<1>3. ASSUME Children(e) = <<a>> PROVE Below({e}) = {a}
  <2>1. DOMAIN <<a>> = {1} /\ <<a>>[1] = a
    OBVIOUS
  <2> QED
    BY <1>1, <1>3, <2>1
<1>4. ASSUME Children(e) = <<a, b>> PROVE Below({e}) = {a, b}
  <2>1. DOMAIN <<a, b>> = {1, 2} /\ <<a, b>>[1] = a /\ <<a, b>>[2] = b
    OBVIOUS
  <2> QED
    BY <1>1, <1>4, <2>1
<1>5. ASSUME Children(e) = <<a, b, c>> PROVE Below({e}) = {a, b, c}
  <2>1. DOMAIN <<a, b, c>> = {1, 2, 3} /\ <<a, b, c>>[1] = a /\ <<a, b, c>>[2] = b /\ <<a, b, c>>[3] = c
    OBVIOUS
  <2> QED
    BY <1>1, <1>5, <2>1
<1> QED
  BY <1>2, <1>3, <1>4, <1>5

LEMMA ArrayOf ==
  ASSUME NEW a, NEW b
  PROVE  /\ IsArray(<<a>>) /\ Len(<<a>>) <= MaxEqualsElts
         /\ IsArray(<<a, b>>) /\ Len(<<a, b>>) <= MaxEqualsElts
<1>1. a \in Range(<<a>>) /\ a \in Range(<<a, b>>) /\ b \in Range(<<a, b>>)
  <2>1. /\ 1 \in DOMAIN <<a>> /\ <<a>>[1] = a /\ 1 \in DOMAIN <<a, b>> /\ <<a, b>>[1] = a
        /\ 2 \in DOMAIN <<a, b>> /\ <<a, b>>[2] = b
    OBVIOUS
  <2> QED
    BY <2>1 DEF Range
<1> DEFINE S == Range(<<a>>)
           U == Range(<<a, b>>)
<1>2. a \in S /\ a \in U /\ b \in U
  BY <1>1
<1>3. <<a>> \in Seq(S) /\ <<a, b>> \in Seq(U)
  <2> HIDE DEF S, U
  <2> QED
    BY <1>2
<1>4. Len(<<a>>) = 1 /\ Len(<<a, b>>) = 2
  OBVIOUS
<1> QED
  BY <1>3, <1>4, ExpressionAssumption DEF IsArray

LEMMA BuiltAttr ==
  ASSUME NEW x, NEW name
  PROVE  Built(AttrNode(x, name), {x}) /\ Built(HasNode(x, name), {x})
<1>1. Children(AttrNode(x, name)) = <<x>> /\ Children(HasNode(x, name)) = <<x>>
  BY DEF Children, AttrNode, HasNode
<1>2. NodeWellFormed(AttrNode(x, name)) /\ NodeWellFormed(HasNode(x, name))
  BY DEF NodeWellFormed, AttrNode, HasNode, OtherOps
<1> QED
  BY <1>1, <1>2, BelowIs DEF Built

LEMMA BuiltUnary ==
  ASSUME NEW x, NEW op \in Unary
  PROVE  Built(UnNode(op, x), {x})
<1>1. Children(UnNode(op, x)) = <<x>>
  BY DEF Children, UnNode, Unary
<1>2. NodeWellFormed(UnNode(op, x))
  BY DEF NodeWellFormed, UnNode, OtherOps, Unary
<1> QED
  BY <1>1, <1>2, BelowIs DEF Built

LEMMA BuiltBinary ==
  ASSUME NEW x, NEW y, NEW op \in BinaryOps
  PROVE  Built(BinNode(op, x, y), {x, y})
<1> DEFINE e == BinNode(op, x, y)
<1>1. e.op = op /\ e.left = x /\ e.right = y
  BY DEF BinNode
<1> HIDE DEF e
<1>2. Children(e) = <<x, y>>
  BY <1>1 DEF Children, BinaryOps
<1>3. NodeWellFormed(e)
  BY <1>1 DEF NodeWellFormed, BinaryOps
<1> QED
  BY <1>2, <1>3, BelowIs DEF Built, e

LEMMA BuiltIs ==
  ASSUME NEW x, NEW type, NEW y
  PROVE  Built(IsNode(x, type, NoNode), {x}) /\ Built(IsNode(x, type, y), {x, y})
<1>1. ASSUME NEW z PROVE Children(IsNode(x, type, z)) = IF z = NoNode THEN <<x>> ELSE <<x, z>>
  BY DEF Children, IsNode
<1>2. ASSUME NEW z PROVE NodeWellFormed(IsNode(x, type, z))
  BY DEF NodeWellFormed, IsNode, OtherOps
<1>3. Below({IsNode(x, type, NoNode)}) = {x}
  BY <1>1, BelowIs
<1>4. Below({IsNode(x, type, y)}) \subseteq {x, y}
  BY <1>1, BelowIs
<1> QED
  BY <1>2, <1>3, <1>4 DEF Built

LEMMA BuiltLike ==
  ASSUME NEW x, NEW pattern
  PROVE  Built(LikeNode(x, pattern), {x})
<1>1. Children(LikeNode(x, pattern)) = <<x>>
  BY DEF Children, LikeNode
<1>2. NodeWellFormed(LikeNode(x, pattern))
  BY DEF NodeWellFormed, LikeNode, OtherOps
<1> QED
  BY <1>1, <1>2, BelowIs DEF Built

LEMMA BuiltSet ==
  ASSUME NEW x, NEW y
  PROVE  Built(SetNode(<<x>>), {x}) /\ Built(SetNode(<<x, y>>), {x, y})
<1>1. ASSUME NEW elts, IsArray(elts), Len(elts) <= MaxEqualsElts
      PROVE  Children(SetNode(elts)) = elts /\ NodeWellFormed(SetNode(elts))
  <2> DEFINE e == SetNode(elts)
  <2>1. e.op = "set" /\ e.elts = elts
    BY DEF SetNode
  <2> HIDE DEF e
  <2>2. Children(e) = elts
    BY <2>1 DEF Children
  <2>3. NodeWellFormed(e)
    BY <1>1, <2>1 DEF NodeWellFormed, OtherOps
  <2> QED
    BY <2>2, <2>3 DEF e
<1>2. Children(SetNode(<<x>>)) = <<x>> /\ Children(SetNode(<<x, y>>)) = <<x, y>>
  BY <1>1, ArrayOf
<1>3. NodeWellFormed(SetNode(<<x>>)) /\ NodeWellFormed(SetNode(<<x, y>>))
  BY <1>1, ArrayOf
<1> QED
  BY <1>2, <1>3, BelowIs DEF Built

LEMMA BuiltRecord ==
  ASSUME NEW x, NEW name
  PROVE  Built(RecordNode(<<[key |-> name, value |-> x]>>), {x})
<1> DEFINE entry == [key |-> name, value |-> x]
           entries == <<entry>>
           e == RecordNode(entries)
<1>1. e.op = "record" /\ e.entries = entries
  BY DEF RecordNode
<1>2. DOMAIN entries = {1} /\ entries[1] = entry /\ entry.value = x
  OBVIOUS
<1> HIDE DEF entry
<1>3. IsArray(entries) /\ Len(entries) <= MaxEqualsElts
  BY ArrayOf
<1> HIDE DEF entries, e
<1>4. Children(e) = [k \in DOMAIN entries |-> entries[k].value]
  BY <1>1 DEF Children
<1>5. Below({e}) = {x}
  <2>1. Below({e}) = {Children(e)[i] : i \in DOMAIN Children(e)}
    BY DEF Below
  <2> QED
    BY <1>2, <1>4, <2>1
<1>6. NodeWellFormed(e)
  BY <1>1, <1>3 DEF NodeWellFormed, OtherOps
<1> QED
  BY <1>5, <1>6 DEF Built, e, entries, entry

LEMMA BuiltCall ==
  ASSUME NEW x, NEW method, NEW y
  PROVE  Built(CallNode(x, method, NoNode), {x}) /\ Built(CallNode(x, method, y), {x, y})
<1>1. ASSUME NEW z PROVE Children(CallNode(x, method, z)) = IF z = NoNode THEN <<x>> ELSE <<x, z>>
  BY DEF Children, CallNode
<1>2. ASSUME NEW z PROVE NodeWellFormed(CallNode(x, method, z))
  BY DEF NodeWellFormed, CallNode, OtherOps
<1>3. Below({CallNode(x, method, NoNode)}) = {x}
  BY <1>1, BelowIs
<1>4. Below({CallNode(x, method, y)}) \subseteq {x, y}
  BY <1>1, BelowIs
<1> QED
  BY <1>2, <1>3, <1>4 DEF Built

LEMMA BuiltIf ==
  ASSUME NEW x, NEW y, NEW z
  PROVE  Built(IfNode(x, y, z), {x, y, z})
<1>1. Children(IfNode(x, y, z)) = <<x, y, z>>
  BY DEF Children, IfNode
<1>2. NodeWellFormed(IfNode(x, y, z))
  BY DEF NodeWellFormed, IfNode, OtherOps
<1> QED
  BY <1>1, <1>2, BelowIs DEF Built

LEMMA GrownBuilt ==
  ASSUME NEW x, NEW o
  PROVE  \A e \in Alone(x) \cup Beside(x, o) : Built(e, {x, o})
<1>1. ASSUME NEW e, NEW P, P \subseteq {x, o}, Built(e, P) PROVE Built(e, {x, o})
  BY <1>1 DEF Built
<1>2. {x} \subseteq {x, o} /\ {x, o} \subseteq {x, o} /\ {o, x} \subseteq {x, o}
      /\ {x, o, o} \subseteq {x, o} /\ {o, x, o} \subseteq {x, o}
  OBVIOUS
<1>3. ASSUME NEW e \in Alone(x) PROVE Built(e, {x, o})
  <2>1. {"not", "neg"} \subseteq Unary
    BY DEF Unary
  <2>2. /\ Built(AttrNode(x, "n"), {x}) /\ Built(AttrNode(x, "m"), {x}) /\ Built(HasNode(x, "n"), {x})
        /\ Built(UnNode("not", x), {x}) /\ Built(UnNode("neg", x), {x})
        /\ Built(IsNode(x, "User", NoNode), {x}) /\ Built(LikeNode(x, <<"x", Wildcard>>), {x})
        /\ Built(SetNode(<<x>>), {x}) /\ Built(RecordNode(<<[key |-> "n", value |-> x]>>), {x})
        /\ Built(CallNode(x, "isEmpty", NoNode), {x})
    BY <2>1, BuiltAttr, BuiltUnary, BuiltIs, BuiltLike, BuiltSet, BuiltRecord, BuiltCall
  <2>3. Built(e, {x})
    BY <2>2 DEF Alone
  <2> QED
    BY <1>1, <1>2, <2>3
<1>4. ASSUME NEW e \in Beside(x, o) PROVE Built(e, {x, o})
  <2>1. {"and", "or", "eq", "in", "add"} \subseteq BinaryOps
    BY DEF BinaryOps
  <2>2. ASSUME NEW op \in {"and", "or", "eq", "in", "add"} PROVE Built(BinNode(op, x, o), {x, o})
    BY <2>1, BuiltBinary
  <2>3. ASSUME NEW op \in {"and", "in"} PROVE Built(BinNode(op, o, x), {x, o})
    <3>1. Built(BinNode(op, o, x), {o, x})
      BY <2>1, BuiltBinary
    <3> QED
      BY <1>1, <1>2, <3>1
  <2>4. Built(SetNode(<<x, o>>), {x, o}) /\ Built(IsNode(x, "User", o), {x, o})
        /\ Built(CallNode(x, "contains", o), {x, o})
    BY BuiltSet, BuiltIs, BuiltCall
  <2>5. Built(IfNode(x, o, o), {x, o})
    <3>1. Built(IfNode(x, o, o), {x, o, o})
      BY BuiltIf
    <3> QED
      BY <1>1, <1>2, <3>1
  <2>6. Built(IfNode(o, x, o), {x, o})
    <3>1. Built(IfNode(o, x, o), {o, x, o})
      BY BuiltIf
    <3> QED
      BY <1>1, <1>2, <3>1
  <2>7. Built(CallNode(o, "contains", x), {x, o})
    <3>1. Built(CallNode(o, "contains", x), {o, x})
      BY BuiltCall
    <3> QED
      BY <1>1, <1>2, <3>1
  <2> QED
    BY <2>2, <2>3, <2>4, <2>5, <2>6, <2>7 DEF Beside
<1> QED
  BY <1>3, <1>4

ExpressionInv ==
  kind = "expression" => /\ input = [expr |-> expr, ctx |-> input.ctx]
                         /\ input.ctx \in Contexts /\ Legible(expr, MaxHeight)

LEMMA ExpressionStart == EvaluationInit => ExpressionInv
<1>1. ValueInit => kind # "expression"
  BY DEF ValueInit, ExtensionInit
<1>2. ExpressionInit => ExpressionInv
  BY ExpressionAssumption DEF ExpressionInit, ExpressionInv, expr
<1>3. kind # "expression" => ExpressionInv
  BY DEF ExpressionInv
<1> QED
  BY <1>1, <1>2, <1>3 DEF EvaluationInit

LEMMA ExpressionStep == ExpressionInv /\ [EvaluationNext]_<<kind, input>> => ExpressionInv'
<1> SUFFICES ASSUME ExpressionInv, [EvaluationNext]_<<kind, input>> PROVE ExpressionInv'
  OBVIOUS
<1>1. CASE ValueNext
  <2>1. kind' # "expression"
    BY <1>1 DEF ValueNext, ExtensionNext, Widen, Move, Tick, NextDay, Nest
  <2> QED
    BY <2>1 DEF ExpressionInv
<1>2. CASE Grow
  <2>1. PICK e \in Alone(input.expr) \cup UNION {Beside(input.expr, o) : o \in Operands} :
          input' = [input EXCEPT !.expr = e]
    BY <1>2 DEF Grow
  <2>2. kind = "expression" /\ ~Higher(input.expr, MaxHeight - 1) /\ kind' = kind
    BY <1>2 DEF Grow
  <2>3. /\ input = [expr |-> input.expr, ctx |-> input.ctx]
        /\ input.ctx \in Contexts /\ Legible(input.expr, MaxHeight)
    BY <2>2 DEF ExpressionInv, expr
  <2>4. input' = [expr |-> e, ctx |-> input.ctx]
    BY <2>1, <2>3
  <2>5. PICK n \in Nat : n = MaxHeight - 1 /\ MaxHeight = n + 1
    <3>1. MaxHeight - 1 \in Nat /\ MaxHeight = (MaxHeight - 1) + 1
      BY ExpressionAssumption
    <3> QED
      BY <3>1
  <2>6. Legible(input.expr, n)
    <3>1. LegibleFits(n)
      BY LegibleHeight
    <3>2. MaxHeight \in Nat
      BY <2>5
    <3> QED
      BY <2>2, <2>3, <2>5, <3>1, <3>2 DEF LegibleFits
  <2>7. \A o \in Operands : Legible(o, n)
    BY <2>5, ExpressionAssumption
  <2>8. PICK parts : Built(e, parts) /\ \A c \in parts : Legible(c, n)
    <3>1. CASE e \in Alone(input.expr)
      <4>1. Built(e, {input.expr, input.expr})
        BY <3>1, GrownBuilt
      <4> QED
        BY <2>6, <4>1
    <3>2. CASE e \in UNION {Beside(input.expr, o) : o \in Operands}
      <4>1. PICK o \in Operands : e \in Beside(input.expr, o)
        BY <3>2
      <4>2. Built(e, {input.expr, o})
        BY <4>1, GrownBuilt
      <4> QED
        BY <2>6, <2>7, <4>2
    <3> QED
      BY <3>1, <3>2
  <2>9. Legible(e, n + 1)
    BY <2>8, LegibleIs DEF Built
  <2> QED
    BY <2>3, <2>4, <2>5, <2>9 DEF ExpressionInv, expr
<1>3. CASE UNCHANGED <<kind, input>>
  BY <1>3 DEF ExpressionInv, expr
<1> QED
  BY <1>1, <1>2, <1>3 DEF EvaluationNext

-----------------------------------------------------------------------------
LEMMA ValueAt ==
  ASSUME NEW e
  PROVE  Value(e) = EvalAt(e, input.ctx, MaxEvalDepth)
<1>1. MaxEvalDepth - MaxEvalDepth = 0
  BY EvalDepthAssumption
<1> QED
  BY <1>1 DEF Value, EvalAt

AllClear(k) ==
  \A v : \A m \in Nat : (v = ErrorValue \/ Sound(v, m)) /\ Clear(v) =>
    \A x \in Depth(v, k + 1) : Clear(x)

LEMMA ClearThrough ==
  ASSUME NEW n \in Nat
  PROVE  AllClear(n)
<1> DEFINE T == {k \in 0 .. n : AllClear(k)}
<1>1. 0 \in T
  <2>1. 1 \in Nat \ {0} /\ 0 + 1 = 1
    OBVIOUS
  <2>2. \A v : Depth(v, 0 + 1) = {v}
    BY <2>1, DepthNext
  <2> QED
    BY <2>2 DEF AllClear
<1>2. ASSUME NEW k \in 0 .. n - 1, k \in T PROVE k + 1 \in T
  <2>1. k + 1 \in 0 .. n /\ k + 1 \in Nat \ {0}
    OBVIOUS
  <2>2. ASSUME NEW v, NEW m \in Nat, v = ErrorValue \/ Sound(v, m), NEW x \in Depth(v, (k + 1) + 1)
        PROVE  Clear(x)
    <3>1. PICK c \in Inside({v}) : x \in Depth(c, k + 1)
      BY <2>1, <2>2, DepthOfInner
    <3>2. PICK i \in DOMAIN Inner(v) : c = Inner(v)[i]
      BY <3>1, InsideIs
    <3>3. CASE v = ErrorValue
      <4>1. Inner(v) = <<>>
        BY <3>3, Errors DEF Inner
      <4> QED
        BY <3>2, <4>1
    <3>4. CASE Sound(v, m)
      <4>1. m - 1 \in Nat /\ Sound(c, m - 1) /\ Clear(c)
        BY <3>2, <3>4, SoundParts
      <4> QED
        BY <1>2, <3>1, <4>1 DEF AllClear
    <3> QED
      BY <2>2, <3>3, <3>4
  <2> QED
    BY <2>1, <2>2 DEF AllClear
<1>3. \A k \in 0 .. n : k \in T
  <2> HIDE DEF T
  <2> QED
    BY <1>1, <1>2, UpToNumber
<1> QED
  BY <1>3

LEMMA AnonymousInside ==
  ASSUME NEW v, NEW m \in Nat, v = ErrorValue \/ Sound(v, m), Clear(v)
  PROVE  Anonymous(v)
<1>1. ASSUME NEW k \in 1 .. MaxEvalDepth, NEW x \in Depths(v, MaxEvalDepth)[k] PROVE Clear(x)
  <2>1. PICK j \in Nat : k = j + 1 /\ k \in Nat \ {0} /\ MaxEvalDepth >= k
    <3>1. k - 1 \in Nat /\ k = (k - 1) + 1 /\ k \in Nat \ {0} /\ MaxEvalDepth >= k
      BY EvalDepthAssumption
    <3> QED
      BY <3>1
  <2>2. x \in Depth(v, j + 1)
    BY <1>1, <2>1, DepthNext, EvalDepthAssumption
  <2>3. AllClear(j)
    BY ClearThrough
  <2> QED
    BY <2>2, <2>3 DEF AllClear
<1>2. MaxEvalDepth \in Nat \ {0}
  BY ExpressionAssumption, EvalDepthAssumption
<1>3. DOMAIN Depths(v, MaxEvalDepth) = 1 .. MaxEvalDepth
  BY <1>2, DepthsAre
<1> QED
  BY <1>1, <1>3 DEF Anonymous, Clear, Range

LEMMA SlotsLaw == ExpressionInv => SlotsDoNotTravel
<1> SUFFICES ASSUME ExpressionInv, kind = "expression", expr.op \notin {"var", "entity"}
             PROVE  Anonymous(Value(expr))
  BY DEF SlotsDoNotTravel
<1>1. input.ctx \in Contexts /\ Legible(expr, MaxHeight) /\ MaxHeight \in Nat
  BY ExpressionAssumption DEF ExpressionInv
<1>2. AllTyped(MaxHeight, input.ctx)
  BY <1>1, ExpressionAssumption, EvalTyped
<1>3. Typed(expr, Value(expr), MaxHeight)
  BY <1>1, <1>2, ValueAt, EvalDepthAssumption DEF AllTyped
<1>4. DataLevels + MaxHeight \in Nat
  BY LevelsOfData
<1> QED
  BY <1>3, <1>4, AnonymousInside DEF Typed, Evaluated

(***************************************************************************)
(* The depth limit of php_cedar_expr_eval turns a value into an error and  *)
(* never into another value, from whatever depth evaluation starts, and it *)
(* leaves alone what is not as high as the limit is far: for every         *)
(* expression, context and limit.                                          *)
(***************************************************************************)
THEOREM LimitNeverChangesValues == EvaluationSpec => []LimitOnlyFails
<1>1. LimitOnlyFails
  BY LimitLaw
<1> QED
  BY <1>1, PTL

(***************************************************************************)
(* The expression is always one that the parser makes, at most MaxHeight   *)
(* high, and the context one of the request. What the laws below rest on.  *)
(***************************************************************************)
LEMMA EvaluationInvariant == EvaluationSpec => []ExpressionInv
  BY ExpressionStart, ExpressionStep, PTL DEF EvaluationSpec

(***************************************************************************)
(* Whatever passed through a container, an attribute or an `if` is no      *)
(* request entity, at any depth inside of the value.                       *)
(* (php_cedar_clear_entity_slot)                                           *)
(***************************************************************************)
THEOREM SlotsStayAtNames == EvaluationSpec => []SlotsDoNotTravel
  BY EvaluationInvariant, SlotsLaw, PTL

-----------------------------------------------------------------------------
(***************************************************************************)
(* The value of an expression that is low enough to be evaluated whole, by *)
(* the values of its operands.                                             *)
(***************************************************************************)
LEMMA ValueBody ==
  ASSUME NEW e, Legible(e, MaxEvalDepth), NEW w, \A c \in Below({e}) : w[c] = Value(c)
  PROVE  Value(e) = Body(e, input.ctx, w)
<1>1. PICK n \in Nat : MaxEvalDepth = n + 1
  <2>1. MaxEvalDepth - 1 \in Nat /\ MaxEvalDepth = (MaxEvalDepth - 1) + 1
    BY ExpressionAssumption, EvalDepthAssumption
  <2> QED
    BY <2>1
<1>2. ASSUME NEW c \in Below({e}) PROVE w[c] = EvalAt(c, input.ctx, n)
  <2>1. Legible(c, n)
    BY <1>1, LegibleIs
  <2>2. ~Higher(c, n)
    BY <2>1, LegibleHeight DEF LegibleFits
  <2>3. EvalAt(c, input.ctx, n) = EvalAt(c, input.ctx, n + 1)
    <3>1. n + 1 \in Nat /\ n <= n + 1
      OBVIOUS
    <3>2. RoomFor(n, input.ctx)
      BY EnoughRoom
    <3> QED
      BY <2>2, <3>1, <3>2 DEF RoomFor
  <2>4. w[c] = EvalAt(c, input.ctx, MaxEvalDepth)
    BY ValueAt
  <2> QED
    BY <1>1, <2>3, <2>4
<1>3. EvalAt(e, input.ctx, n + 1) = Body(e, input.ctx, w)
  BY <1>2, EvalUnfolds
<1> QED
  BY <1>1, <1>3, ValueAt

ValuesOf(parts) == [c \in parts |-> Value(c)]

LEMMA ValueBuilt ==
  ASSUME NEW e, NEW parts, Built(e, parts), NEW n \in Nat, n < MaxEvalDepth,
         \A c \in parts : Legible(c, n)
  PROVE  Legible(e, n + 1) /\ Value(e) = Body(e, input.ctx, ValuesOf(parts))
<1>1. Legible(e, n + 1)
  BY LegibleIs DEF Built
<1>2. n + 1 <= MaxEvalDepth /\ n + 1 \in Nat
  BY EvalDepthAssumption
<1>3. Legible(e, MaxEvalDepth)
  BY <1>1, <1>2, EvalDepthAssumption, LegibleMore DEF LegibleGrows
<1>4. \A c \in Below({e}) : ValuesOf(parts)[c] = Value(c)
  BY DEF Built, ValuesOf
<1> QED
  BY <1>1, <1>3, <1>4, ValueBody

(***************************************************************************)
(* The operators that the laws are about, on values.                       *)
(***************************************************************************)
Yes == BoolValue(TRUE)
No == BoolValue(FALSE)

Conjoined(left, right) ==
  IF left.t # "bool" THEN ErrorValue
  ELSE IF left.b = FALSE THEN left
  ELSE IF right.t # "bool" THEN ErrorValue ELSE right

Disjoined(left, right) ==
  IF left.t # "bool" THEN ErrorValue
  ELSE IF left.b = TRUE THEN left
  ELSE IF right.t # "bool" THEN ErrorValue ELSE right

Equated(left, right) == EqualsValue(left, right, FALSE)

Chosen(cond, then, else) ==
  IF cond.t # "bool" THEN ErrorValue ELSE ClearSlot(IF cond.b THEN then ELSE else)

Both(left, right, value) == IF IsError(left) \/ IsError(right) THEN ErrorValue ELSE value

Low(e, n) == n \in Nat /\ n < MaxEvalDepth /\ Legible(e, n)

LEMMA ValueConnective ==
  ASSUME NEW n, NEW x, Low(x, n), NEW y, Low(y, n)
  PROVE  /\ Value(BinNode("and", x, y)) = Conjoined(Value(x), Value(y))
         /\ Value(BinNode("or", x, y)) = Disjoined(Value(x), Value(y))
         /\ Legible(BinNode("and", x, y), n + 1) /\ Legible(BinNode("or", x, y), n + 1)
<1> DEFINE w == ValuesOf({x, y})
<1>1. w[x] = Value(x) /\ w[y] = Value(y)
  BY DEF ValuesOf
<1>2. \A op \in {"and", "or"} : /\ Legible(BinNode(op, x, y), n + 1)
                                /\ Value(BinNode(op, x, y)) = Body(BinNode(op, x, y), input.ctx, w)
  BY BuiltBinary, ValueBuilt DEF Low, BinaryOps
<1> HIDE DEF w
<1>3. Body(BinNode("and", x, y), input.ctx, w) = Conjoined(Value(x), Value(y))
  BY <1>1 DEF Body, BinNode, Connective, Conjoined, Disjoined
<1>4. Body(BinNode("or", x, y), input.ctx, w) = Disjoined(Value(x), Value(y))
  BY <1>1 DEF Body, BinNode, Connective, Conjoined, Disjoined
<1> QED
  BY <1>2, <1>3, <1>4

LEMMA ValueStrict ==
  ASSUME NEW n, NEW x, Low(x, n), NEW y, Low(y, n)
  PROVE  /\ Value(BinNode("in", x, y))
              = Both(Value(x), Value(y), In(Value(x), Value(y), input.ctx))
         /\ Value(BinNode("eq", x, y))
              = Both(Value(x), Value(y), Equated(Value(x), Value(y)))
         /\ Legible(BinNode("in", x, y), n + 1) /\ Legible(BinNode("eq", x, y), n + 1)
<1> DEFINE w == ValuesOf({x, y})
<1>1. w[x] = Value(x) /\ w[y] = Value(y)
  BY DEF ValuesOf
<1>2. \A op \in {"in", "eq"} : /\ Legible(BinNode(op, x, y), n + 1)
                               /\ Value(BinNode(op, x, y)) = Body(BinNode(op, x, y), input.ctx, w)
  BY BuiltBinary, ValueBuilt DEF Low, BinaryOps
<1> HIDE DEF w
<1>3. Body(BinNode("in", x, y), input.ctx, w)
        = Both(Value(x), Value(y), In(Value(x), Value(y), input.ctx))
  BY <1>1 DEF Body, BinNode, Binary, Strict, Both
<1>4. Body(BinNode("eq", x, y), input.ctx, w)
        = Both(Value(x), Value(y), Equated(Value(x), Value(y)))
  BY <1>1 DEF Body, BinNode, Binary, Strict, Both, Equated
<1> QED
  BY <1>2, <1>3, <1>4

LEMMA ValueNot ==
  ASSUME NEW n, NEW x, Low(x, n)
  PROVE  Value(UnNode("not", x)) = Not(Value(x)) /\ Legible(UnNode("not", x), n + 1)
<1> DEFINE w == ValuesOf({x})
<1>1. w[x] = Value(x)
  BY DEF ValuesOf
<1>2. /\ Legible(UnNode("not", x), n + 1)
      /\ Value(UnNode("not", x)) = Body(UnNode("not", x), input.ctx, w)
  BY BuiltUnary, ValueBuilt DEF Low, Unary
<1> HIDE DEF w
<1>3. Body(UnNode("not", x), input.ctx, w) = Not(Value(x))
  BY <1>1 DEF Body, UnNode
<1> QED
  BY <1>2, <1>3

LEMMA ValueIf ==
  ASSUME NEW n, NEW x, Low(x, n), NEW y, Low(y, n), NEW z, Low(z, n)
  PROVE  /\ Value(IfNode(x, y, z)) = Chosen(Value(x), Value(y), Value(z))
         /\ Legible(IfNode(x, y, z), n + 1)
<1> DEFINE w == ValuesOf({x, y, z})
<1>1. w[x] = Value(x) /\ w[y] = Value(y) /\ w[z] = Value(z)
  BY DEF ValuesOf
<1>2. /\ Legible(IfNode(x, y, z), n + 1)
      /\ Value(IfNode(x, y, z)) = Body(IfNode(x, y, z), input.ctx, w)
  BY BuiltIf, ValueBuilt DEF Low
<1> HIDE DEF w
<1>3. Body(IfNode(x, y, z), input.ctx, w) = Chosen(Value(x), Value(y), Value(z))
  BY <1>1 DEF Body, IfNode, IfThenElse, Chosen
<1> QED
  BY <1>2, <1>3

LEMMA ValueIs ==
  ASSUME NEW n, NEW x, Low(x, n), NEW y, Low(y, n), y # NoNode, NEW type
  PROVE  LET v == Value(x)
             u == Value(y)
         IN  /\ Value(IsNode(x, type, NoNode))
                  = IF v.t # "entity" THEN ErrorValue
                    ELSE IF v.uid.type # type THEN No ELSE Yes
             /\ Value(IsNode(x, type, y))
                  = IF v.t # "entity" THEN ErrorValue
                    ELSE IF v.uid.type # type THEN No
                    ELSE IF IsError(u) THEN ErrorValue ELSE In(v, u, input.ctx)
             /\ Legible(IsNode(x, type, NoNode), n + 1) /\ Legible(IsNode(x, type, y), n + 1)
<1> DEFINE w == ValuesOf({x})
           u == ValuesOf({x, y})
<1>1. w[x] = Value(x) /\ u[x] = Value(x) /\ u[y] = Value(y)
  BY DEF ValuesOf
<1>2. /\ Legible(IsNode(x, type, NoNode), n + 1)
      /\ Value(IsNode(x, type, NoNode)) = Body(IsNode(x, type, NoNode), input.ctx, w)
  BY BuiltIs, ValueBuilt DEF Low
<1>3. /\ Legible(IsNode(x, type, y), n + 1)
      /\ Value(IsNode(x, type, y)) = Body(IsNode(x, type, y), input.ctx, u)
  BY BuiltIs, ValueBuilt DEF Low
<1> HIDE DEF w, u
<1>4. Body(IsNode(x, type, NoNode), input.ctx, w)
        = IF Value(x).t # "entity" THEN ErrorValue
          ELSE IF Value(x).uid.type # type THEN No ELSE Yes
  BY <1>1 DEF Body, IsNode, IsCheck, Yes, No
<1>5. Body(IsNode(x, type, y), input.ctx, u)
        = IF Value(x).t # "entity" THEN ErrorValue
          ELSE IF Value(x).uid.type # type THEN No
          ELSE IF IsError(Value(y)) THEN ErrorValue ELSE In(Value(x), Value(y), input.ctx)
  BY <1>1 DEF Body, IsNode, IsCheck, Yes, No
<1> QED
  BY <1>2, <1>3, <1>4, <1>5

LEMMA ValueSet ==
  ASSUME NEW n, NEW x, Low(x, n), NEW y, Low(y, n)
  PROVE  /\ Value(SetNode(<<x, y>>))
              = Both(Value(x), Value(y), SetValue(<<ClearSlot(Value(x)), ClearSlot(Value(y))>>))
         /\ Legible(SetNode(<<x, y>>), n + 1)
<1> DEFINE w == ValuesOf({x, y})
           e == SetNode(<<x, y>>)
           elts == [k \in DOMAIN e.elts |-> w[e.elts[k]]]
<1>1. w[x] = Value(x) /\ w[y] = Value(y)
  BY DEF ValuesOf
<1>2. Legible(e, n + 1) /\ Value(e) = Body(e, input.ctx, w)
  BY BuiltSet, ValueBuilt DEF Low
<1>3. e.op = "set" /\ e.elts = <<x, y>>
  BY DEF SetNode
<1> HIDE DEF w, e
<1>4. elts = <<Value(x), Value(y)>>
  BY <1>1, <1>3
<1>5. Body(e, input.ctx, w) = SetLiteral(e, input.ctx, w)
  BY <1>3 DEF Body
<1>6. SetLiteral(e, input.ctx, w)
        = IF elts = <<>> \/ \E k \in DOMAIN elts : IsError(elts[k]) THEN ErrorValue
          ELSE SetValue([k \in DOMAIN elts |-> ClearSlot(elts[k])])
  BY DEF SetLiteral
<1> HIDE DEF elts
<1>7. DOMAIN elts = {1, 2} /\ elts[1] = Value(x) /\ elts[2] = Value(y) /\ elts # <<>>
  BY <1>4
<1>8. [k \in DOMAIN elts |-> ClearSlot(elts[k])] = <<ClearSlot(Value(x)), ClearSlot(Value(y))>>
  BY <1>4
<1>9. (\E k \in DOMAIN elts : IsError(elts[k])) <=> IsError(Value(x)) \/ IsError(Value(y))
  BY <1>7
<1> QED
  BY <1>2, <1>5, <1>6, <1>7, <1>8, <1>9 DEF Both, e

-----------------------------------------------------------------------------
(***************************************************************************)
(* The only error is ErrorValue, and the only bools are the two.           *)
(***************************************************************************)
Tame(v) ==
  /\ IsError(v) => v = ErrorValue
  /\ v.t = "bool" => v \in {Yes, No}

LEMMA SoundTame ==
  ASSUME NEW v, NEW m \in Nat, v = ErrorValue \/ Sound(v, m)
  PROVE  Tame(v)
<1>1. CASE v = ErrorValue
  BY <1>1, Errors DEF Tame
<1>2. CASE Sound(v, m)
  BY <1>2, SoundParts DEF Tame, WellFormed, Yes, No
<1> QED
  BY <1>1, <1>2

LEMMA LowValue ==
  ASSUME ExpressionInv, kind = "expression", NEW e, NEW n \in Nat, Legible(e, n)
  PROVE  /\ Value(e) = ErrorValue \/ Sound(Value(e), DataLevels + n)
         /\ Tame(Value(e))
<1>1. ContextWellFormed(input.ctx)
  BY ExpressionAssumption DEF ExpressionInv
<1>2. Typed(e, Value(e), n)
  BY <1>1, EvalTyped, ValueAt, EvalDepthAssumption DEF AllTyped
<1>3. DataLevels + n \in Nat
  BY LevelsOfData
<1> QED
  BY <1>2, <1>3, SoundTame DEF Typed, Evaluated

LEMMA LowExpressions ==
  ASSUME ExpressionInv, kind = "expression"
  PROVE  /\ Low(expr, MaxHeight)
         /\ \A n \in Nat : n < MaxEvalDepth /\ MaxHeight <= n =>
              Low(expr, n) /\ \A o \in Operands : Low(o, n)
         /\ \A o \in Operands : Low(o, MaxHeight - 1) /\ Low(o, MaxHeight)
<1>1. /\ MaxHeight \in Nat /\ MaxHeight - 1 \in Nat
      /\ MaxHeight < MaxEvalDepth /\ MaxHeight - 1 < MaxEvalDepth
  BY ExpressionAssumption, EvalDepthAssumption
<1>2. Legible(expr, MaxHeight)
  BY DEF ExpressionInv
<1>3. \A o \in Operands : Legible(o, MaxHeight - 1)
  BY ExpressionAssumption
<1>4. ASSUME NEW n \in Nat, MaxHeight <= n
      PROVE  Legible(expr, n) /\ \A o \in Operands : Legible(o, n)
  <2>1. LegibleGrows(MaxHeight) /\ LegibleGrows(MaxHeight - 1)
    BY <1>1, LegibleMore
  <2>2. MaxHeight - 1 <= n
    BY <1>1, <1>4
  <2> QED
    BY <1>2, <1>3, <1>4, <2>1, <2>2 DEF LegibleGrows
<1>5. MaxHeight <= MaxHeight
  BY <1>1
<1> QED
  BY <1>1, <1>2, <1>3, <1>4, <1>5 DEF Low

(***************************************************************************)
(* The literals.                                                           *)
(***************************************************************************)
LEMMA ValueBools ==
  ASSUME NEW n \in Nat, n < MaxEvalDepth, n # 0
  PROVE  /\ Value(True) = Yes /\ Low(True, n)
         /\ Value(False) = No /\ Low(False, n)
<1>1. PICK k \in Nat : n = k + 1 /\ k < MaxEvalDepth
  <2>1. n - 1 \in Nat /\ n = (n - 1) + 1 /\ n - 1 < MaxEvalDepth
    BY EvalDepthAssumption
  <2> QED
    BY <2>1
<1>2. ASSUME NEW v \in {Yes, No}
      PROVE  Value(Lit(v)) = v /\ Low(Lit(v), n)
  <2>1. Sound(v, 1) /\ Clear(v)
    BY PlainBool, PlainSound DEF Yes, No
  <2>2. Sound(v, DataLevels + 1)
    <3>1. 1 \in Nat /\ DataLevels + 1 \in Nat /\ 1 <= DataLevels + 1
      BY LevelsOfData
    <3> QED
      BY <2>1, <3>1, SoundUpTo
  <2>3. Children(Lit(v)) = <<>>
    BY DEF Children, Lit
  <2>4. Below({Lit(v)}) = {}
    BY <2>3, BelowIs
  <2>5. NodeWellFormed(Lit(v))
    BY <2>1, <2>2 DEF NodeWellFormed, Lit, BinaryOps, OtherOps
  <2>6. Built(Lit(v), {})
    BY <2>4, <2>5 DEF Built
  <2>7. Legible(Lit(v), n) /\ Value(Lit(v)) = Body(Lit(v), input.ctx, ValuesOf({}))
    BY <1>1, <2>6, ValueBuilt
  <2>8. Body(Lit(v), input.ctx, ValuesOf({})) = v
    BY DEF Body, Lit
  <2> QED
    BY <2>7, <2>8 DEF Low
<1> QED
  BY <1>2 DEF True, False, Yes, No

LEMMA BoolParts ==
  /\ Yes.t = "bool" /\ Yes.b = TRUE
  /\ No.t = "bool" /\ No.b = FALSE
  /\ ClearSlot(Yes) = Yes /\ ClearSlot(No) = No
  /\ Yes # No
  /\ Not(Yes) = No /\ Not(No) = Yes
  /\ Not(ErrorValue) = ErrorValue
  /\ ~IsError(Yes) /\ ~IsError(No)
<1>1. ~TRUE = FALSE /\ ~FALSE = TRUE
  OBVIOUS
<1> QED
  BY <1>1 DEF Yes, No, BoolValue, ClearSlot, Not, ErrorValue, IsError

LEMMA BoolCases ==
  ASSUME NEW v, Tame(v)
  PROVE  v.t # "bool" \/ v = Yes \/ v = No
BY DEF Tame

(***************************************************************************)
(* && and || on values.                                                    *)
(***************************************************************************)
LEMMA Connectives ==
  ASSUME NEW l, Tame(l), NEW r, Tame(r)
  PROVE  /\ Conjoined(l, r)
              = Chosen(l, Chosen(r, Yes, No), No)
         /\ Disjoined(l, r)
              = Chosen(l, Yes, Chosen(r, Yes, No))
         /\ Not(Conjoined(l, r)) = Disjoined(Not(l), Not(r))
<1>1. ErrorValue.t # "bool" /\ ClearSlot(ErrorValue) = ErrorValue
  BY Errors
<1>2. CASE l.t # "bool"
  BY <1>1, <1>2, BoolParts DEF Conjoined, Disjoined, Chosen, Not
<1>3. CASE l = Yes
  <2>1. CASE r.t # "bool"
    BY <1>1, <1>3, <2>1, BoolParts DEF Conjoined, Disjoined, Chosen, Not
  <2>2. CASE r = Yes
    BY <1>1, <1>3, <2>2, BoolParts DEF Conjoined, Disjoined, Chosen
  <2>3. CASE r = No
    BY <1>1, <1>3, <2>3, BoolParts DEF Conjoined, Disjoined, Chosen
  <2> QED
    BY <2>1, <2>2, <2>3, BoolCases
<1>4. CASE l = No
  <2>1. CASE r.t # "bool"
    BY <1>1, <1>4, <2>1, BoolParts DEF Conjoined, Disjoined, Chosen
  <2>2. CASE r = Yes
    BY <1>1, <1>4, <2>2, BoolParts DEF Conjoined, Disjoined, Chosen
  <2>3. CASE r = No
    BY <1>1, <1>4, <2>3, BoolParts DEF Conjoined, Disjoined, Chosen
  <2> QED
    BY <2>1, <2>2, <2>3, BoolCases
<1> QED
  BY <1>2, <1>3, <1>4, BoolCases

LEMMA ConnectivesLaw == ExpressionInv => ConnectivesAreConditionals
<1> SUFFICES ASSUME ExpressionInv, kind = "expression", NEW o \in Operands
             PROVE  SameValues(
                      <<<<BinNode("and", expr, o), IfNode(expr, IfNode(o, True, False), False)>>,
                        <<BinNode("or", o, expr),  IfNode(o, True, IfNode(expr, True, False))>>,
                        <<UnNode("not", BinNode("and", o, expr)),
                          BinNode("or", UnNode("not", o), UnNode("not", expr))>>>>)
  BY DEF ConnectivesAreConditionals
<1>1. PICK n \in Nat : n = MaxHeight /\ n # 0 /\ n + 2 < MaxEvalDepth
  BY ExpressionAssumption, EvalDepthAssumption
<1>2. n + 1 \in Nat /\ n + 1 < MaxEvalDepth /\ n < MaxEvalDepth /\ n + 1 # 0 /\ n <= n + 1 /\ n <= n
  BY <1>1, EvalDepthAssumption
<1>3. Low(expr, n) /\ Low(o, n) /\ Low(expr, n + 1) /\ Low(o, n + 1)
  BY <1>1, <1>2, LowExpressions
<1>4. /\ Value(True) = Yes /\ Low(True, n) /\ Low(True, n + 1)
      /\ Value(False) = No /\ Low(False, n) /\ Low(False, n + 1)
  BY <1>1, <1>2, ValueBools
<1>5. Tame(Value(expr)) /\ Tame(Value(o))
  BY <1>3, LowValue DEF Low
<1>6. Value(BinNode("and", expr, o)) = Value(IfNode(expr, IfNode(o, True, False), False))
  <2>1. Value(IfNode(o, True, False)) = Chosen(Value(o), Yes, No)
        /\ Low(IfNode(o, True, False), n + 1)
    BY <1>2, <1>3, <1>4, ValueIf DEF Low
  <2>2. Value(IfNode(expr, IfNode(o, True, False), False))
          = Chosen(Value(expr), Value(IfNode(o, True, False)), No)
    BY <1>3, <1>4, <2>1, ValueIf
  <2>3. Value(BinNode("and", expr, o)) = Conjoined(Value(expr), Value(o))
    BY <1>3, ValueConnective
  <2> QED
    BY <1>5, <2>1, <2>2, <2>3, Connectives
<1>7. Value(BinNode("or", o, expr)) = Value(IfNode(o, True, IfNode(expr, True, False)))
  <2>1. Value(IfNode(expr, True, False)) = Chosen(Value(expr), Yes, No)
        /\ Low(IfNode(expr, True, False), n + 1)
    BY <1>2, <1>3, <1>4, ValueIf DEF Low
  <2>2. Value(IfNode(o, True, IfNode(expr, True, False)))
          = Chosen(Value(o), Yes, Value(IfNode(expr, True, False)))
    BY <1>3, <1>4, <2>1, ValueIf
  <2>3. Value(BinNode("or", o, expr)) = Disjoined(Value(o), Value(expr))
    BY <1>3, ValueConnective
  <2> QED
    BY <1>5, <2>1, <2>2, <2>3, Connectives
<1>8. Value(UnNode("not", BinNode("and", o, expr)))
        = Value(BinNode("or", UnNode("not", o), UnNode("not", expr)))
  <2>1. /\ Value(BinNode("and", o, expr)) = Conjoined(Value(o), Value(expr))
        /\ Low(BinNode("and", o, expr), n + 1)
    BY <1>2, <1>3, ValueConnective DEF Low
  <2>2. Value(UnNode("not", BinNode("and", o, expr))) = Not(Value(BinNode("and", o, expr)))
    BY <2>1, ValueNot
  <2>3. /\ Value(UnNode("not", o)) = Not(Value(o)) /\ Low(UnNode("not", o), n + 1)
        /\ Value(UnNode("not", expr)) = Not(Value(expr)) /\ Low(UnNode("not", expr), n + 1)
    BY <1>2, <1>3, ValueNot DEF Low
  <2>4. Value(BinNode("or", UnNode("not", o), UnNode("not", expr)))
          = Disjoined(Value(UnNode("not", o)), Value(UnNode("not", expr)))
    BY <2>3, ValueConnective
  <2> QED
    BY <1>5, <2>1, <2>2, <2>3, <2>4, Connectives
<1> QED
  BY <1>6, <1>7, <1>8 DEF SameValues

(***************************************************************************)
(* `is ... in` and `in` a set.                                             *)
(***************************************************************************)
LEMMA InIs ==
  ASSUME NEW left, NEW right, NEW ctx
  PROVE  /\ In(left, right, ctx) = ErrorValue \/ In(left, right, ctx).t = "bool"
         /\ left.t # "entity" => In(left, right, ctx) = ErrorValue
         /\ left.t = "entity" /\ right.t = "entity" =>
              In(left, right, ctx) = BoolValue(InTarget(ctx, left, right.uid))
<1>1. \A b : BoolValue(b).t = "bool"
  BY DEF BoolValue
<1> QED
  BY <1>1 DEF In

LEMMA IsInLaw == ExpressionInv => IsInSplits
<1> SUFFICES ASSUME ExpressionInv, kind = "expression", NEW o \in Operands
             PROVE  SameValues(<<<<IsNode(expr, "User", o),
                         BinNode("and", IsNode(expr, "User", NoNode), BinNode("in", expr, o))>>>>)
  BY DEF IsInSplits
<1>1. PICK n \in Nat : n = MaxHeight /\ n # 0 /\ n + 2 < MaxEvalDepth
  BY ExpressionAssumption, EvalDepthAssumption
<1>2. n + 1 \in Nat /\ n + 1 < MaxEvalDepth /\ n < MaxEvalDepth /\ n + 1 # 0 /\ n <= n + 1 /\ n <= n
  BY <1>1, EvalDepthAssumption
<1>3. Low(expr, n) /\ Low(o, n)
  BY <1>1, <1>2, LowExpressions
<1>3a. o # NoNode
  BY <1>3, LegibleNode DEF Low
<1>4. PICK v, u, is, in : /\ v = Value(expr) /\ u = Value(o)
                          /\ is = Value(IsNode(expr, "User", NoNode))
                          /\ in = Value(BinNode("in", expr, o))
  OBVIOUS
<1>5. /\ is = IF v.t # "entity" THEN ErrorValue
              ELSE IF v.uid.type # "User" THEN No ELSE Yes
      /\ Value(IsNode(expr, "User", o))
           = IF v.t # "entity" THEN ErrorValue
             ELSE IF v.uid.type # "User" THEN No
             ELSE IF IsError(u) THEN ErrorValue ELSE In(v, u, input.ctx)
      /\ Low(IsNode(expr, "User", NoNode), n + 1)
  <2>1. Low(expr, n) /\ Low(o, n) /\ o # NoNode
    BY <1>3, <1>3a
  <2> QED
    BY <1>2, <1>4, <2>1, ValueIs DEF Low
<1>6. in = Both(v, u, In(v, u, input.ctx)) /\ Low(BinNode("in", expr, o), n + 1)
  BY <1>2, <1>3, <1>4, ValueStrict DEF Low
<1>7. Value(BinNode("and", IsNode(expr, "User", NoNode), BinNode("in", expr, o)))
        = Conjoined(is, in)
  BY <1>4, <1>5, <1>6, ValueConnective
<1>8. Value(IsNode(expr, "User", o)) = Conjoined(is, in)
  <2>1. CASE v.t # "entity"
    <3>1. is = ErrorValue /\ Value(IsNode(expr, "User", o)) = ErrorValue
      BY <1>5, <2>1
    <3> QED
      BY <3>1, Errors DEF Conjoined, Disjoined
  <2>2. CASE v.t = "entity" /\ v.uid.type # "User"
    <3>1. is = No /\ Value(IsNode(expr, "User", o)) = No
      BY <1>5, <2>2
    <3> QED
      BY <3>1, BoolParts DEF Conjoined, Disjoined
  <2>3. CASE v.t = "entity" /\ v.uid.type = "User"
    <3>1. is = Yes /\ ~IsError(v)
      BY <1>5, <2>3 DEF IsError
    <3>2. Conjoined(is, in) = IF in.t # "bool" THEN ErrorValue ELSE in
      BY <3>1, BoolParts DEF Conjoined, Disjoined
    <3>3. CASE IsError(u)
      BY <1>5, <1>6, <2>3, <3>2, <3>3, Errors DEF Both
    <3>4. CASE ~IsError(u)
      <4>1. in = In(v, u, input.ctx) /\ Value(IsNode(expr, "User", o)) = In(v, u, input.ctx)
        BY <1>5, <1>6, <2>3, <3>1, <3>4 DEF Both
      <4> QED
        BY <3>2, <4>1, InIs, Errors
    <3> QED
      BY <3>3, <3>4
  <2> QED
    BY <2>1, <2>2, <2>3
<1> QED
  BY <1>7, <1>8 DEF SameValues

LEMMA InDistributesLaw == ExpressionInv => InDistributes
<1> SUFFICES ASSUME ExpressionInv, kind = "expression", ~Higher(expr, MaxHeight - 1),
                    NEW x \in Operands, NEW y \in Operands
             PROVE  Value(BinNode("in", expr, SetNode(<<x, y>>))) =
                      IF \A e \in {x, y} : Value(e).t = "entity"
                      THEN Value(BinNode("or", BinNode("in", expr, x), BinNode("in", expr, y)))
                      ELSE ErrorValue
  BY DEF InDistributes
<1>1. PICK n \in Nat : n = MaxHeight /\ n # 0 /\ n + 2 < MaxEvalDepth
  BY ExpressionAssumption, EvalDepthAssumption
<1>2. n + 1 \in Nat /\ n + 1 < MaxEvalDepth /\ n < MaxEvalDepth /\ n <= n + 1 /\ n <= n
  BY <1>1, EvalDepthAssumption
<1>3. /\ Low(expr, n) /\ Low(x, n) /\ Low(y, n)
      /\ Low(expr, n + 1) /\ Low(x, n + 1) /\ Low(y, n + 1)
  BY <1>1, <1>2, LowExpressions
<1>4. PICK v, p, q, set : /\ v = Value(expr) /\ p = Value(x) /\ q = Value(y)
                          /\ set = Value(SetNode(<<x, y>>))
  OBVIOUS
<1>5. Tame(v) /\ Tame(p) /\ Tame(q)
  BY <1>3, <1>4, LowValue DEF Low
<1>6. /\ set = Both(p, q, SetValue(<<ClearSlot(p), ClearSlot(q)>>))
      /\ Low(SetNode(<<x, y>>), n + 1)
  BY <1>2, <1>3, <1>4, ValueSet DEF Low
<1>7. Value(BinNode("in", expr, SetNode(<<x, y>>))) = Both(v, set, In(v, set, input.ctx))
  <2>1. Low(expr, n + 1) /\ Low(SetNode(<<x, y>>), n + 1)
    BY <1>3, <1>6
  <2>2. Value(BinNode("in", expr, SetNode(<<x, y>>)))
          = Both(Value(expr), Value(SetNode(<<x, y>>)),
                 In(Value(expr), Value(SetNode(<<x, y>>)), input.ctx))
    BY <2>1, ValueStrict
  <2> QED
    BY <1>4, <2>2
<1>8. PICK a, b : a = Both(v, p, In(v, p, input.ctx)) /\ b = Both(v, q, In(v, q, input.ctx))
  OBVIOUS
<1>9. Value(BinNode("or", BinNode("in", expr, x), BinNode("in", expr, y))) = Disjoined(a, b)
  <2>1. /\ Value(BinNode("in", expr, x)) = a /\ Low(BinNode("in", expr, x), n + 1)
        /\ Value(BinNode("in", expr, y)) = b /\ Low(BinNode("in", expr, y), n + 1)
    BY <1>2, <1>3, <1>4, <1>8, ValueStrict DEF Low
  <2> QED
    BY <2>1, ValueConnective
<1>10. Both(v, set, In(v, set, input.ctx))
         = IF p.t = "entity" /\ q.t = "entity" THEN Disjoined(a, b) ELSE ErrorValue
  <2>1. CASE v.t # "entity"
    <3>1. /\ In(v, set, input.ctx) = ErrorValue /\ In(v, p, input.ctx) = ErrorValue
          /\ In(v, q, input.ctx) = ErrorValue
      BY <2>1, InIs
    <3>2. Both(v, set, In(v, set, input.ctx)) = ErrorValue /\ a = ErrorValue /\ b = ErrorValue
      BY <1>8, <3>1 DEF Both
    <3> QED
      BY <3>2, Errors DEF Conjoined, Disjoined
  <2>2. CASE v.t = "entity" /\ (IsError(p) \/ IsError(q))
    <3>1. set = ErrorValue
      BY <1>6, <2>2 DEF Both
    <3>2. ~(p.t = "entity" /\ q.t = "entity")
      BY <2>2 DEF IsError
    <3> QED
      BY <3>1, <3>2, Errors DEF Both
  <2>3. CASE v.t = "entity" /\ ~IsError(p) /\ ~IsError(q)
    <3>1. PICK s : s = <<ClearSlot(p), ClearSlot(q)>> /\ set = SetValue(s)
      BY <1>6, <2>3 DEF Both
    <3>2. DOMAIN s = {1, 2} /\ s[1] = ClearSlot(p) /\ s[2] = ClearSlot(q)
      BY <3>1
    <3>3. set.t = "set" /\ set.elts = s /\ ~IsError(set) /\ ~IsError(v)
      BY <2>3, <3>1 DEF SetValue, IsError
    <3>4. \A z : /\ ClearSlot(z).t = "entity" <=> z.t = "entity"
                 /\ z.t = "entity" => ClearSlot(z).uid = z.uid
      BY DEF ClearSlot, EntityValue
    <3>5. Both(v, set, In(v, set, input.ctx))
            = IF \E k \in DOMAIN s : s[k].t # "entity" THEN ErrorValue
              ELSE BoolValue(\E k \in DOMAIN s : InTarget(input.ctx, v, s[k].uid))
      BY <2>3, <3>3 DEF Both, In
    <3>6. CASE ~(p.t = "entity" /\ q.t = "entity")
      <4>1. \E k \in DOMAIN s : s[k].t # "entity"
        BY <3>2, <3>4, <3>6
      <4> QED
        BY <3>5, <3>6, <4>1
    <3>7. CASE p.t = "entity" /\ q.t = "entity"
      <4>1. /\ ~\E k \in DOMAIN s : s[k].t # "entity"
            /\ s[1].uid = p.uid /\ s[2].uid = q.uid
        BY <3>2, <3>4, <3>7
      <4>2. PICK i, j : /\ i = InTarget(input.ctx, v, p.uid) /\ j = InTarget(input.ctx, v, q.uid)
                        /\ i \in BOOLEAN /\ j \in BOOLEAN
        <5>1. InTarget(input.ctx, v, p.uid) \in BOOLEAN /\ InTarget(input.ctx, v, q.uid) \in BOOLEAN
          BY DEF InTarget
        <5> QED
          BY <5>1
      <4>3. (\E k \in DOMAIN s : InTarget(input.ctx, v, s[k].uid)) = (i \/ j)
        BY <3>2, <4>1, <4>2
      <4>4. a = BoolValue(i) /\ b = BoolValue(j)
        BY <1>8, <2>3, <3>3, <3>7, <4>2, InIs DEF Both
      <4>5. Both(v, set, In(v, set, input.ctx)) = BoolValue(i \/ j)
        BY <3>5, <4>1, <4>3
      <4>6. Disjoined(BoolValue(i), BoolValue(j)) = BoolValue(i \/ j)
        <5>1. CASE i = TRUE
          <6>1. (i \/ j) = TRUE
            BY <5>1
          <6>2. BoolValue(i) = Yes /\ BoolValue(i \/ j) = Yes
            BY <5>1, <6>1 DEF Yes
          <6> QED
            BY <6>2, BoolParts DEF Disjoined
        <5>2. CASE i = FALSE
          <6>1. (i \/ j) = j
            BY <4>2, <5>2
          <6>2. BoolValue(i) = No /\ BoolValue(i \/ j) = BoolValue(j)
            BY <5>2, <6>1 DEF No
          <6>3. BoolValue(j).t = "bool"
            BY DEF BoolValue
          <6> QED
            BY <6>2, <6>3, BoolParts DEF Disjoined
        <5> QED
          BY <4>2, <5>1, <5>2
      <4> QED
        BY <3>7, <4>4, <4>5, <4>6
    <3> QED
      BY <3>6, <3>7
  <2> QED
    BY <2>1, <2>2, <2>3
<1>11. (\A e \in {x, y} : Value(e).t = "entity") <=> p.t = "entity" /\ q.t = "entity"
  BY <1>4
<1> QED
  BY <1>7, <1>9, <1>10, <1>11

-----------------------------------------------------------------------------
(***************************************************************************)
(* The tables that two values are compared with, from the depth limit up.  *)
(***************************************************************************)
EqualsRoom == MaxEqualsDepth + 1

EqualsTable(s, a, b) ==
  /\ \A x \in Depth(a, EqualsRoom + 1) : \A y \in Depth(b, EqualsRoom + 1) : s[0][x][y] = "error"
  /\ \A r \in 0 .. EqualsRoom - 1 :
       \A x \in Depth(a, EqualsRoom - r) : \A y \in Depth(b, EqualsRoom - r) :
         s[r + 1][x][y] = Alike(x, y, s[r])

LEMMA RoomOfEquals == EqualsRoom \in Nat \ {0} /\ MaxEqualsDepth + 1 = EqualsRoom
<1>1. MaxEqualsDepth \in Nat
  BY LevelsOfData
<1> QED
  BY <1>1 DEF EqualsRoom

LEMMA EqualsTables ==
  ASSUME NEW a, NEW b
  PROVE  \E s : EqualsTable(s, a, b) /\ ValueEquals(a, b) = s[EqualsRoom][a][b]
<1>0. PICK room \in Nat \ {0} : room = EqualsRoom
  BY RoomOfEquals
<1> DEFINE as == Depths(a, room + 1)
           bs == Depths(b, room + 1)
           Row(r, below) == [x \in as[room + 1 - r] |-> [y \in bs[room + 1 - r] |->
                               IF r = 0 THEN "error" ELSE Alike(x, y, below)]]
           Rows(f, m) == /\ f = [r \in 0 .. m |-> f[r]]
                         /\ \A r \in 0 .. m : f[r] = Row(r, f[r - 1])
           Is(f) == f = [r \in 0 .. room |->
                           [x \in as[room + 1 - r] |-> [y \in bs[room + 1 - r] |->
                              IF r = 0 THEN "error" ELSE Alike(x, y, f[r - 1])]]]
<1> HIDE DEF as, bs
<1>1. \E f : Rows(f, room)
  <2> DEFINE T == {m \in 0 .. room : \E f : Rows(f, m)}
  <2>1. 0 \in T
    <3> DEFINE f == [r \in 0 .. 0 |-> Row(0, 0)]
    <3>1. Row(0, f[0 - 1]) = Row(0, 0)
      OBVIOUS
    <3>2. f = [r \in 0 .. 0 |-> f[r]] /\ f[0] = Row(0, 0) /\ \A r \in 0 .. 0 : r = 0
      OBVIOUS
    <3>3. Rows(f, 0)
      <4> HIDE DEF f, Row
      <4> QED
        BY <3>1, <3>2
    <3> HIDE DEF Rows, f
    <3> QED
      BY <3>3
  <2>2. ASSUME NEW m \in 0 .. room - 1, m \in T PROVE m + 1 \in T
    <3>1. PICK f : Rows(f, m)
      <4> HIDE DEF Rows
      <4> QED
        BY <2>2
    <3> DEFINE g == [r \in 0 .. m + 1 |-> IF r = m + 1 THEN Row(m + 1, f[m]) ELSE f[r]]
    <3> HIDE DEF Row
    <3>2. g = [r \in 0 .. m + 1 |-> g[r]]
      OBVIOUS
    <3>3. ASSUME NEW r \in 0 .. m + 1 PROVE g[r] = Row(r, g[r - 1])
      <4>1. CASE r = m + 1
        <5>1. r - 1 = m /\ m \in 0 .. m + 1 /\ m # m + 1
          BY <4>1
        <5> QED
          BY <4>1, <5>1
      <4>2. CASE r # m + 1
        <5>1. r \in 0 .. m
          BY <4>2
        <5>2. g[r] = Row(r, f[r - 1])
          BY <3>1, <4>2, <5>1
        <5>3. CASE r = 0
          <6>1. Row(0, f[0 - 1]) = Row(0, g[0 - 1])
            BY DEF Row
          <6> QED
            BY <5>2, <5>3, <6>1
        <5>4. CASE r # 0
          <6>1. r - 1 \in 0 .. m + 1 /\ r - 1 # m + 1
            BY <5>1, <5>4
          <6> QED
            BY <5>2, <6>1
        <5> QED
          BY <5>3, <5>4
      <4> QED
        BY <4>1, <4>2
    <3>4. Rows(g, m + 1)
      <4> HIDE DEF g
      <4> QED
        BY <3>2, <3>3
    <3>5. m + 1 \in 0 .. room
      OBVIOUS
    <3> HIDE DEF Rows, g
    <3> QED
      BY <3>4, <3>5
  <2>3. \A m \in 0 .. room : m \in T
    <3> HIDE DEF T
    <3> QED
      BY <2>1, <2>2, UpToNumber
  <2>4. room \in T
    <3> HIDE DEF T
    <3> QED
      BY <2>3
  <2> HIDE DEF Rows
  <2> QED
    BY <2>4
<1>2. \E f : Is(f)
  <2>1. PICK f : Rows(f, room)
    <3> HIDE DEF Rows
    <3> QED
      BY <1>1
  <2>2. Is(f)
    BY <2>1
  <2> HIDE DEF Is
  <2> QED
    BY <2>2
<1>3. PICK v : v = CHOOSE f : Is(f)
  OBVIOUS
<1>4. Is(v)
  <2> HIDE DEF Is
  <2> QED
    BY <1>2, <1>3
<1>5. ValueEquals(a, b) = v[room][a][b]
  <2>1. ValueEquals(a, b)
          = LET r0 == MaxEqualsDepth + 1
                ds == Depths(a, r0 + 1)
                es == Depths(b, r0 + 1)
                f == CHOOSE h : h = [r \in 0 .. r0 |->
                           [x \in ds[r0 + 1 - r] |-> [y \in es[r0 + 1 - r] |->
                              IF r = 0 THEN "error" ELSE Alike(x, y, h[r - 1])]]]
            IN  f[r0][a][b]
    BY DEF ValueEquals
  <2> QED
    BY <1>0, <2>1, <1>3 DEF as, bs, EqualsRoom
<1>6. \A r \in 0 .. room : /\ as[room + 1 - r] = Depth(a, room + 1 - r)
                           /\ bs[room + 1 - r] = Depth(b, room + 1 - r)
  <2>1. ASSUME NEW r \in 0 .. room
        PROVE  room + 1 - r \in Nat \ {0} /\ room + 1 \in Nat /\ room + 1 >= room + 1 - r
    OBVIOUS
  <2>2. ASSUME NEW z, NEW k \in Nat \ {0}, NEW n \in Nat, n >= k PROVE Depths(z, n)[k] = Depth(z, k)
    BY <2>2, DepthNext
  <2> QED
    BY <2>1, <2>2 DEF as, bs
<1>7. ASSUME NEW r \in 0 .. room, NEW x \in Depth(a, room + 1 - r), NEW y \in Depth(b, room + 1 - r)
      PROVE  v[r][x][y] = IF r = 0 THEN "error" ELSE Alike(x, y, v[r - 1])
  <2>1. v[r] = [p \in as[room + 1 - r] |-> [q \in bs[room + 1 - r] |->
                  IF r = 0 THEN "error" ELSE Alike(p, q, v[r - 1])]]
    BY <1>4
  <2>2. x \in as[room + 1 - r] /\ y \in bs[room + 1 - r]
    BY <1>6, <1>7
  <2>3. v[r][x] = [q \in bs[room + 1 - r] |-> IF r = 0 THEN "error" ELSE Alike(x, q, v[r - 1])]
    BY <2>1, <2>2
  <2> QED
    BY <2>2, <2>3
<1>8. EqualsTable(v, a, b)
  <2>1. ASSUME NEW x \in Depth(a, room + 1), NEW y \in Depth(b, room + 1)
        PROVE  v[0][x][y] = "error"
    <3>1. 0 \in 0 .. room /\ room + 1 - 0 = room + 1
      OBVIOUS
    <3> QED
      BY <1>7, <3>1
  <2>2. ASSUME NEW r \in 0 .. room - 1, NEW x \in Depth(a, room - r), NEW y \in Depth(b, room - r)
        PROVE  v[r + 1][x][y] = Alike(x, y, v[r])
    <3>1. r + 1 \in 0 .. room /\ room + 1 - (r + 1) = room - r /\ r + 1 # 0 /\ (r + 1) - 1 = r
      OBVIOUS
    <3> QED
      BY <1>7, <3>1
  <2> QED
    BY <1>0, <2>1, <2>2 DEF EqualsTable
<1> QED
  BY <1>0, <1>5, <1>8

(***************************************************************************)
(* What the search finds, one element after the other.                     *)
(***************************************************************************)
SearchTable(t, results, n) ==
  /\ t[0] = [free |-> 1 .. n, r |-> "eq"]
  /\ \A k \in 1 .. n : t[k] = Take(t[k - 1], results[k])

LEMMA SearchTables ==
  ASSUME NEW results, NEW n \in Nat
  PROVE  \E t : SearchTable(t, results, n) /\ Search(results, n) = t[n].r
<1> DEFINE Row(k, before) == IF k = 0 THEN [free |-> 1 .. n, r |-> "eq"]
                             ELSE Take(before, results[k])
           Rows(f, m) == /\ f = [k \in 0 .. m |-> f[k]]
                         /\ \A k \in 0 .. m : f[k] = Row(k, f[k - 1])
           Is(f) == f = [k \in 0 .. n |-> IF k = 0 THEN [free |-> 1 .. n, r |-> "eq"]
                                          ELSE Take(f[k - 1], results[k])]
<1>1. \E f : Rows(f, n)
  <2> DEFINE T == {m \in 0 .. n : \E f : Rows(f, m)}
  <2>1. 0 \in T
    <3> DEFINE f == [k \in 0 .. 0 |-> Row(0, 0)]
    <3>1. Row(0, f[0 - 1]) = Row(0, 0)
      OBVIOUS
    <3>2. f = [k \in 0 .. 0 |-> f[k]] /\ f[0] = Row(0, 0) /\ \A k \in 0 .. 0 : k = 0
      OBVIOUS
    <3>3. Rows(f, 0)
      <4> HIDE DEF f, Row
      <4> QED
        BY <3>1, <3>2
    <3> HIDE DEF Rows, f
    <3> QED
      BY <3>3
  <2>2. ASSUME NEW m \in 0 .. n - 1, m \in T PROVE m + 1 \in T
    <3>1. PICK f : Rows(f, m)
      <4> HIDE DEF Rows
      <4> QED
        BY <2>2
    <3> DEFINE g == [k \in 0 .. m + 1 |-> IF k = m + 1 THEN Row(m + 1, f[m]) ELSE f[k]]
    <3> HIDE DEF Row
    <3>2. g = [k \in 0 .. m + 1 |-> g[k]]
      OBVIOUS
    <3>3. ASSUME NEW k \in 0 .. m + 1 PROVE g[k] = Row(k, g[k - 1])
      <4>1. CASE k = m + 1
        <5>1. k - 1 = m /\ m \in 0 .. m + 1 /\ m # m + 1
          BY <4>1
        <5> QED
          BY <4>1, <5>1
      <4>2. CASE k # m + 1
        <5>1. k \in 0 .. m
          BY <4>2
        <5>2. g[k] = Row(k, f[k - 1])
          BY <3>1, <4>2, <5>1
        <5>3. CASE k = 0
          <6>1. Row(0, f[0 - 1]) = Row(0, g[0 - 1])
            BY DEF Row
          <6> QED
            BY <5>2, <5>3, <6>1
        <5>4. CASE k # 0
          <6>1. k - 1 \in 0 .. m + 1 /\ k - 1 # m + 1
            BY <5>1, <5>4
          <6> QED
            BY <5>2, <6>1
        <5> QED
          BY <5>3, <5>4
      <4> QED
        BY <4>1, <4>2
    <3>4. Rows(g, m + 1)
      <4> HIDE DEF g
      <4> QED
        BY <3>2, <3>3
    <3>5. m + 1 \in 0 .. n
      OBVIOUS
    <3> HIDE DEF Rows, g
    <3> QED
      BY <3>4, <3>5
  <2>3. \A m \in 0 .. n : m \in T
    <3> HIDE DEF T
    <3> QED
      BY <2>1, <2>2, UpToNumber
  <2>4. n \in T
    <3> HIDE DEF T
    <3> QED
      BY <2>3
  <2> HIDE DEF Rows
  <2> QED
    BY <2>4
<1>2. \E f : Is(f)
  <2>1. PICK f : Rows(f, n)
    <3> HIDE DEF Rows
    <3> QED
      BY <1>1
  <2>2. Is(f)
    BY <2>1
  <2> HIDE DEF Is
  <2> QED
    BY <2>2
<1>3. PICK t : t = CHOOSE f : Is(f)
  OBVIOUS
<1>4. Is(t)
  <2> HIDE DEF Is
  <2> QED
    BY <1>2, <1>3
<1>5. Search(results, n) = t[n].r
  BY <1>3 DEF Search
<1>6. SearchTable(t, results, n)
  <2>1. ASSUME NEW k \in 0 .. n
        PROVE  t[k] = IF k = 0 THEN [free |-> 1 .. n, r |-> "eq"] ELSE Take(t[k - 1], results[k])
    BY <1>4
  <2>2. 0 \in 0 .. n /\ \A k \in 1 .. n : k \in 0 .. n /\ k # 0
    OBVIOUS
  <2> QED
    BY <2>1, <2>2 DEF SearchTable
<1> QED
  BY <1>5, <1>6

-----------------------------------------------------------------------------
(***************************************************************************)
(* Values within the limits are equal or not: no error comes of comparing  *)
(* them.                                                                   *)
(***************************************************************************)
Decides(r) == r \in {"eq", "ne"}

LEMMA SearchDecides ==
  ASSUME NEW results, NEW n \in Nat,
         \A k \in 1 .. n : \A l \in 1 .. n : results[k][l] = "skip" \/ Decides(results[k][l])
  PROVE  Decides(Search(results, n))
<1>1. PICK t : SearchTable(t, results, n) /\ Search(results, n) = t[n].r
  BY SearchTables
<1> DEFINE Fine(k) == t[k] \in [free : SUBSET (1 .. n), r : {"eq", "ne"}]
           T == {k \in 0 .. n : Fine(k)}
<1>2. 0 \in T
  <2>1. t[0] = [free |-> 1 .. n, r |-> "eq"]
    BY <1>1 DEF SearchTable
  <2> QED
    BY <2>1
<1>3. ASSUME NEW k \in 0 .. n - 1, k \in T PROVE k + 1 \in T
  <2>1. k + 1 \in 1 .. n /\ k + 1 \in 0 .. n /\ (k + 1) - 1 = k
    OBVIOUS
  <2>2. t[k + 1] = Take(t[k], results[k + 1])
    BY <1>1, <2>1 DEF SearchTable
  <2> DEFINE hits == {l \in t[k].free : results[k + 1][l] # "skip"}
  <2>3. t[k + 1] = IF t[k].r # "eq" THEN t[k]
                   ELSE IF hits = {} THEN [t[k] EXCEPT !.r = "ne"]
                   ELSE [free |-> t[k].free \ {First(hits)}, r |-> results[k + 1][First(hits)]]
    BY <2>2 DEF Take
  <2>4. Fine(k) /\ hits \subseteq 1 .. n
    BY <1>3
  <2>5. CASE t[k].r # "eq"
    BY <2>1, <2>3, <2>4, <2>5
  <2>6. CASE t[k].r = "eq" /\ hits = {}
    BY <2>1, <2>3, <2>4, <2>6
  <2>7. CASE t[k].r = "eq" /\ hits # {}
    <3>1. First(hits) \in hits
      <4>1. hits \subseteq Nat
        BY <2>4
      <4> HIDE DEF hits
      <4> QED
        BY <2>7, <4>1, FirstIs
    <3>2. Decides(results[k + 1][First(hits)])
      BY <2>1, <2>4, <3>1
    <3>3. t[k + 1] = [free |-> t[k].free \ {First(hits)}, r |-> results[k + 1][First(hits)]]
      BY <2>3, <2>7
    <3>4. t[k].free \ {First(hits)} \in SUBSET (1 .. n)
      BY <2>4
    <3> HIDE DEF hits
    <3> QED
      BY <2>1, <3>2, <3>3, <3>4 DEF Decides
  <2> QED
    BY <2>5, <2>6, <2>7
<1>4. \A k \in 0 .. n : k \in T
  <2> HIDE DEF T
  <2> QED
    BY <1>2, <1>3, UpToNumber
<1>5. n \in 0 .. n /\ n \in T
  BY <1>4
<1> QED
  BY <1>1, <1>5 DEF Decides

LEMMA AlikeDecides ==
  ASSUME NEW x, WellFormed(x), NEW y, WellFormed(y), NEW same,
         \A i \in DOMAIN Inner(x) : \A j \in DOMAIN Inner(y) :
           Decides(same[Inner(x)[i]][Inner(y)[j]])
  PROVE  Decides(Alike(x, y, same))
<1>1. ~IsError(x) /\ ~IsError(y) /\ ~(Len(Inner(x)) > MaxEqualsElts)
  <2>1. MaxEqualsElts \in Nat
    BY LevelsOfData
  <2>2. Len(Inner(x)) \in Nat
    <3>1. CASE x.t = "set"
      BY <3>1, ArrayIs DEF WellFormed, Inner
    <3>2. CASE x.t = "record"
      <4>1. IsArray(x.attrs)
        BY <3>2 DEF WellFormed
      <4>2. Inner(x) = [k \in DOMAIN x.attrs |-> x.attrs[k].value]
        BY <3>2 DEF Inner
      <4>3. IsArray(Inner(x))
        BY <4>1, <4>2, Mapped
      <4> QED
        BY <4>3, ArrayIs
    <3>3. CASE x.t \notin {"set", "record"}
      BY <3>3 DEF Inner
    <3> QED
      BY <3>1, <3>2, <3>3
  <2> QED
    BY <2>1, <2>2 DEF WellFormed
<1>2. CASE x.t # y.t \/ Len(Inner(x)) # Len(Inner(y))
  BY <1>1, <1>2 DEF Alike, Decides
<1>3. CASE x.t = y.t /\ Len(Inner(x)) = Len(Inner(y)) /\ x.t = "set"
  <2>1. Inner(x) = x.elts /\ Inner(y) = y.elts /\ IsArray(x.elts) /\ IsArray(y.elts)
    BY <1>3 DEF Inner, WellFormed
  <2>2. PICK n \in Nat : n = Len(x.elts) /\ DOMAIN x.elts = 1 .. n /\ DOMAIN y.elts = 1 .. n
    BY <1>3, <2>1, ArrayIs
  <2> DEFINE results == [k \in DOMAIN x.elts |-> [l \in DOMAIN y.elts |->
                           LET found == same[x.elts[k]][y.elts[l]]
                           IN IF found = "ne" THEN "skip" ELSE found]]
  <2>3. ASSUME NEW k \in 1 .. n, NEW l \in 1 .. n
        PROVE  results[k][l] = "skip" \/ Decides(results[k][l])
    <3>1. Decides(same[x.elts[k]][y.elts[l]])
      BY <2>1, <2>2
    <3>2. results[k][l] = IF same[x.elts[k]][y.elts[l]] = "ne" THEN "skip"
                          ELSE same[x.elts[k]][y.elts[l]]
      BY <2>2
    <3> QED
      BY <3>1, <3>2
  <2>4. Alike(x, y, same) = Search(results, n)
    BY <1>1, <1>3, <2>2 DEF Alike, EltsEqual
  <2> HIDE DEF results
  <2> QED
    BY <2>3, <2>4, SearchDecides
<1>4. CASE x.t = y.t /\ Len(Inner(x)) = Len(Inner(y)) /\ x.t = "record"
  <2>1. /\ IsArray(x.attrs) /\ IsArray(y.attrs)
        /\ Inner(x) = [k \in DOMAIN x.attrs |-> x.attrs[k].value]
        /\ Inner(y) = [k \in DOMAIN y.attrs |-> y.attrs[k].value]
    BY <1>4 DEF Inner, WellFormed
  <2>2. Len(Inner(x)) = Len(x.attrs) /\ Len(Inner(y)) = Len(y.attrs)
    BY <2>1, Mapped
  <2>3. PICK n \in Nat : n = Len(x.attrs) /\ DOMAIN x.attrs = 1 .. n /\ DOMAIN y.attrs = 1 .. n
    BY <1>4, <2>1, <2>2, ArrayIs
  <2> DEFINE results == [k \in DOMAIN x.attrs |-> [l \in DOMAIN y.attrs |->
                           IF x.attrs[k].name # y.attrs[l].name THEN "skip"
                           ELSE same[x.attrs[k].value][y.attrs[l].value]]]
  <2>4. ASSUME NEW k \in 1 .. n, NEW l \in 1 .. n
        PROVE  results[k][l] = "skip" \/ Decides(results[k][l])
    <3>1. Inner(x)[k] = x.attrs[k].value /\ Inner(y)[l] = y.attrs[l].value
          /\ k \in DOMAIN Inner(x) /\ l \in DOMAIN Inner(y)
      BY <2>1, <2>3
    <3>2. Decides(same[x.attrs[k].value][y.attrs[l].value])
      BY <3>1
    <3>3. results[k][l] = IF x.attrs[k].name # y.attrs[l].name THEN "skip"
                          ELSE same[x.attrs[k].value][y.attrs[l].value]
      BY <2>3
    <3> QED
      BY <3>2, <3>3
  <2>5. Alike(x, y, same) = Search(results, n)
    BY <1>1, <1>4, <2>3 DEF Alike, AttrsEqual
  <2> HIDE DEF results
  <2> QED
    BY <2>4, <2>5, SearchDecides
<1>5. CASE x.t = y.t /\ Len(Inner(x)) = Len(Inner(y)) /\ x.t \notin {"set", "record"}
  BY <1>1, <1>5 DEF Alike, Decides
<1> QED
  BY <1>2, <1>3, <1>4, <1>5

DecidesAt(s, a, b, r) ==
  \A x \in Depth(a, EqualsRoom + 1 - r) : \A y \in Depth(b, EqualsRoom + 1 - r) :
    Sound(x, r) /\ Sound(y, r) => Decides(s[r][x][y])

LEMMA EqualsDecides ==
  ASSUME NEW a, NEW b, Sound(a, EqualsRoom), Sound(b, EqualsRoom)
  PROVE  Decides(ValueEquals(a, b))
<1>0. EqualsRoom \in Nat \ {0}
  BY RoomOfEquals
<1>1. PICK s : EqualsTable(s, a, b) /\ ValueEquals(a, b) = s[EqualsRoom][a][b]
  BY EqualsTables
<1> DEFINE T == {r \in 0 .. EqualsRoom : DecidesAt(s, a, b, r)}
<1>2. 0 \in T
  <2>1. 0 \in Nat /\ 0 \in 0 .. EqualsRoom
    BY <1>0
  <2>2. \A v : ~Sound(v, 0)
    BY <2>1, SoundIs
  <2> QED
    BY <2>1, <2>2 DEF DecidesAt
<1>3. ASSUME NEW r \in 0 .. EqualsRoom - 1, r \in T PROVE r + 1 \in T
  <2>1. /\ r \in Nat /\ r + 1 \in Nat /\ r + 1 \in 0 .. EqualsRoom /\ (r + 1) - 1 = r
        /\ EqualsRoom + 1 - (r + 1) = EqualsRoom - r /\ EqualsRoom - r \in Nat \ {0}
        /\ EqualsRoom + 1 - r = (EqualsRoom - r) + 1
    BY <1>0
  <2>2. ASSUME NEW x \in Depth(a, EqualsRoom - r), NEW y \in Depth(b, EqualsRoom - r),
               Sound(x, r + 1), Sound(y, r + 1)
        PROVE  Decides(s[r + 1][x][y])
    <3>1. s[r + 1][x][y] = Alike(x, y, s[r])
      BY <1>1, <1>3 DEF EqualsTable
    <3>2. /\ WellFormed(x) /\ WellFormed(y)
          /\ \A i \in DOMAIN Inner(x) : Sound(Inner(x)[i], r)
          /\ \A i \in DOMAIN Inner(y) : Sound(Inner(y)[i], r)
      BY <2>1, <2>2, SoundParts
    <3>3. ASSUME NEW i \in DOMAIN Inner(x), NEW j \in DOMAIN Inner(y)
          PROVE  Decides(s[r][Inner(x)[i]][Inner(y)[j]])
      <4>1. Inner(x)[i] \in Inside({x}) /\ Inner(y)[j] \in Inside({y})
        BY InsideIs
      <4>2. Inner(x)[i] \in Inside(Depth(a, EqualsRoom - r))
            /\ Inner(y)[j] \in Inside(Depth(b, EqualsRoom - r))
        BY <2>2, <4>1, InsideEach
      <4>3. Inner(x)[i] \in Depth(a, EqualsRoom + 1 - r) /\ Inner(y)[j] \in Depth(b, EqualsRoom + 1 - r)
        BY <2>1, <4>2, DepthNext
      <4> QED
        BY <1>3, <3>2, <4>3 DEF DecidesAt
    <3> QED
      BY <3>1, <3>2, <3>3, AlikeDecides
  <2> QED
    BY <2>1, <2>2 DEF DecidesAt
<1>4. EqualsRoom \in T
  <2> HIDE DEF T
  <2> QED
    BY <1>0, <1>2, <1>3, UpToNumber
<1>5. EqualsRoom + 1 - EqualsRoom = 1 /\ 1 \in Nat \ {0}
  BY <1>0
<1>6. a \in Depth(a, 1) /\ b \in Depth(b, 1)
  BY <1>5, DepthNext
<1> QED
  BY <1>1, <1>4, <1>5, <1>6 DEF DecidesAt

-----------------------------------------------------------------------------
(***************************************************************************)
(* `has`, and the reading that it guards.                                  *)
(***************************************************************************)
LEMMA ValueAttr ==
  ASSUME NEW n, NEW x, Low(x, n), NEW name
  PROVE  /\ Legible(AttrNode(x, name), n + 1) /\ Legible(HasNode(x, name), n + 1)
         /\ LET from == AttrsOf(x, input.ctx, ValuesOf({x}))
            IN  /\ Value(AttrNode(x, name))
                     = IF IsError(from) THEN ErrorValue ELSE FindAttr(from.attrs, name)
                /\ Value(HasNode(x, name))
                     = IF IsError(from) THEN ErrorValue ELSE BoolValue(HasAttr(from.attrs, name))
<1> DEFINE w == ValuesOf({x})
<1>1. /\ Legible(AttrNode(x, name), n + 1)
      /\ Value(AttrNode(x, name)) = Body(AttrNode(x, name), input.ctx, w)
  BY BuiltAttr, ValueBuilt DEF Low
<1>2. /\ Legible(HasNode(x, name), n + 1)
      /\ Value(HasNode(x, name)) = Body(HasNode(x, name), input.ctx, w)
  BY BuiltAttr, ValueBuilt DEF Low
<1> HIDE DEF w
<1>3. Body(AttrNode(x, name), input.ctx, w)
        = IF IsError(AttrsOf(x, input.ctx, w)) THEN ErrorValue
          ELSE FindAttr(AttrsOf(x, input.ctx, w).attrs, name)
  BY DEF Body, AttrNode, AttrAccess
<1>4. Body(HasNode(x, name), input.ctx, w)
        = IF IsError(AttrsOf(x, input.ctx, w)) THEN ErrorValue
          ELSE BoolValue(HasAttr(AttrsOf(x, input.ctx, w).attrs, name))
  BY DEF Body, HasNode, Has
<1> QED
  BY <1>1, <1>2, <1>3, <1>4 DEF w

LEMMA SelfEquated ==
  ASSUME NEW v, Sound(v, EqualsRoom)
  PROVE  Equated(v, v) \in {Yes, No}
<1>1. PICK r \in {"eq", "ne"} : r = ValueEquals(v, v)
  BY EqualsDecides DEF Decides
<1>2. Equated(v, v) = BoolValue((r = "eq") # FALSE)
  BY <1>1 DEF Equated, EqualsValue, Compared
<1>3. ((r = "eq") # FALSE) \in BOOLEAN
  OBVIOUS
<1> QED
  BY <1>2, <1>3 DEF Yes, No

LEMMA HasGuardsLaw == ExpressionInv => HasGuardsAccess
<1> SUFFICES ASSUME ExpressionInv, kind = "expression", NEW name \in AttrNames
             PROVE  Guards(Value(HasNode(expr, name)), Value(AttrNode(expr, name)),
                           Value(BinNode("and", HasNode(expr, name),
                                   BinNode("eq", AttrNode(expr, name), AttrNode(expr, name)))))
  BY DEF HasGuardsAccess
<1>1. PICK n \in Nat : n = MaxHeight /\ n >= 2 /\ n + 2 < MaxEvalDepth
  BY ExpressionAssumption, EvalDepthAssumption
<1>2. /\ n + 1 \in Nat /\ n + 1 < MaxEvalDepth /\ n < MaxEvalDepth /\ n <= n /\ n <= n + 1
      /\ n + 2 \in Nat /\ n + 2 = (n + 1) + 1
  BY <1>1, EvalDepthAssumption
<1>3. Low(expr, n)
  BY <1>1, LowExpressions
<1>4. PICK from, has, read, eq :
        /\ from = AttrsOf(expr, input.ctx, ValuesOf({expr}))
        /\ has = Value(HasNode(expr, name)) /\ read = Value(AttrNode(expr, name))
        /\ eq = Value(BinNode("eq", AttrNode(expr, name), AttrNode(expr, name)))
  OBVIOUS
<1>5. /\ read = IF IsError(from) THEN ErrorValue ELSE FindAttr(from.attrs, name)
      /\ has = IF IsError(from) THEN ErrorValue ELSE BoolValue(HasAttr(from.attrs, name))
      /\ Legible(AttrNode(expr, name), n + 1) /\ Legible(HasNode(expr, name), n + 1)
  BY <1>3, <1>4, ValueAttr
<1>6. /\ eq = Both(read, read, Equated(read, read))
      /\ Legible(BinNode("eq", AttrNode(expr, name), AttrNode(expr, name)), n + 2)
  <2>1. Low(AttrNode(expr, name), n + 1)
    BY <1>2, <1>5 DEF Low
  <2> QED
    BY <1>2, <1>4, <2>1, ValueStrict
<1>7. Value(BinNode("and", HasNode(expr, name),
              BinNode("eq", AttrNode(expr, name), AttrNode(expr, name)))) = Conjoined(has, eq)
  <2>1. Low(BinNode("eq", AttrNode(expr, name), AttrNode(expr, name)), n + 2)
    BY <1>1, <1>2, <1>6 DEF Low
  <2>2. Low(HasNode(expr, name), n + 2)
    <3>1. LegibleGrows(n + 1) /\ n + 1 <= n + 2
      BY <1>2, LegibleMore
    <3> QED
      BY <1>1, <1>2, <1>5, <3>1 DEF LegibleGrows, Low
  <2> QED
    BY <1>4, <2>1, <2>2, ValueConnective
<1>8. Guards(has, read, Conjoined(has, eq))
  <2>1. \/ from = ErrorValue
        \/ \E attrs : from = RecordValue(attrs) /\ Sound(RecordValue(attrs), DataLevels + n)
    <3>1. ContextWellFormed(input.ctx)
      BY ExpressionAssumption DEF ExpressionInv
    <3>2. NodeWellFormed(expr)
      <4>1. PICK k \in Nat : n = k + 1
        <5>1. n - 1 \in Nat /\ n = (n - 1) + 1
          BY <1>1
        <5> QED
          BY <5>1
      <4>2. Legible(expr, k + 1)
        BY <1>3, <4>1 DEF Low
      <4> QED
        BY <4>2, LegibleIs
    <3>3. Evaluated(ValuesOf({expr})[expr], n)
      <4>1. ValuesOf({expr})[expr] = Value(expr)
        BY DEF ValuesOf
      <4> QED
        BY <1>3, <4>1, LowValue DEF Evaluated, Low
    <3> QED
      BY <1>1, <1>2, <1>4, <3>1, <3>2, <3>3, AttrsSound
  <2>2. CASE from = ErrorValue
    <3>1. has = ErrorValue /\ read = ErrorValue
      BY <1>5, <2>2, Errors
    <3>2. Conjoined(has, eq) = ErrorValue /\ ErrorValue # Yes
      BY <3>1, Errors, BoolParts DEF Conjoined
    <3> QED
      BY <3>1, <3>2, Errors DEF Guards, Yes
  <2>3. CASE from # ErrorValue
    <3>1. PICK attrs : from = RecordValue(attrs) /\ Sound(RecordValue(attrs), DataLevels + n)
      BY <2>1, <2>3
    <3>2. Sound(RecordValue(attrs), EqualsRoom + 1) /\ EqualsRoom \in Nat
      <4>1. DataLevels + n = EqualsRoom + 1
        BY <1>1, LevelsOfData, RoomOfEquals
      <4> QED
        BY <3>1, <4>1, RoomOfEquals
    <3>3. ~IsError(from) /\ from.attrs = attrs
      BY <3>1, RecordInner DEF IsError
    <3>4. CASE HasAttr(attrs, name)
      <4>1. read = FindAttr(attrs, name) /\ has = BoolValue(HasAttr(attrs, name))
        BY <1>5, <3>3
      <4>2. has = Yes
        <5>1. HasAttr(attrs, name) = TRUE
          BY <3>4 DEF HasAttr
        <5> QED
          BY <4>1, <5>1 DEF Yes
      <4>3. Sound(read, EqualsRoom) /\ ~IsError(read)
        BY <3>2, <3>4, <4>1, FindSound
      <4>4. eq \in {Yes, No}
        <5>1. eq = Equated(read, read)
          BY <1>6, <4>3 DEF Both
        <5> QED
          BY <4>3, <5>1, SelfEquated
      <4>5. Conjoined(has, eq) = eq
        BY <4>2, <4>4, BoolParts DEF Conjoined
      <4>6. ~IsError(eq) /\ ~IsError(has)
        BY <4>2, <4>4, BoolParts
      <4> QED
        BY <4>2, <4>3, <4>5, <4>6 DEF Guards, Yes
    <3>5. CASE ~HasAttr(attrs, name)
      <4>1. read = FindAttr(attrs, name) /\ has = BoolValue(HasAttr(attrs, name))
        BY <1>5, <3>3
      <4>2. has = No
        <5>1. HasAttr(attrs, name) = FALSE
          BY <3>5 DEF HasAttr
        <5> QED
          BY <4>1, <5>1 DEF No
      <4>3. read = ErrorValue
        BY <3>2, <3>5, <4>1, FindSound
      <4>4. Conjoined(has, eq) = has
        BY <4>2, BoolParts DEF Conjoined
      <4>5. has # Yes /\ IsError(read) /\ ~IsError(has)
        BY <4>2, <4>3, BoolParts, Errors
      <4> QED
        BY <4>4, <4>5 DEF Guards, Yes
    <3> QED
      BY <3>4, <3>5
  <2> QED
    BY <2>2, <2>3
<1> QED
  BY <1>4, <1>7, <1>8

(***************************************************************************)
(* `has` guards exactly the access behind it; && and || are the            *)
(* conditionals they abbreviate, `e is T in x` is `e is T && e in x`, and  *)
(* `e in [x, y]` is the || of its members where these are entities, errors *)
(* and their order included. (php_cedar_expr_eval_body,                    *)
(* php_cedar_eval_has, php_cedar_eval_is_check, php_cedar_eval_in)         *)
(***************************************************************************)
THEOREM OperatorsMeanWhatTheyAbbreviate == EvaluationSpec => []OperatorsAbbreviate
<1>1. ExpressionInv => OperatorsAbbreviate
  BY HasGuardsLaw, ConnectivesLaw, IsInLaw, InDistributesLaw DEF OperatorsAbbreviate
<1> QED
  BY <1>1, EvaluationInvariant, PTL

-----------------------------------------------------------------------------
(***************************************************************************)
(* The same value, or the same entity in two slots of the request.         *)
(***************************************************************************)
Slot == Range(SlotOrder)

SameEntity(ctx, v, w) ==
  \E s, t \in Slot : /\ v = EntityValue(ctx.uid[s], s) /\ w = EntityValue(ctx.uid[t], t)
                     /\ ctx.uid[s] = ctx.uid[t]

Alias(ctx, v, w) == v = w \/ SameEntity(ctx, v, w)

LEMMA AliasIs ==
  ASSUME NEW ctx, ContextWellFormed(ctx), NEW v, NEW w, Alias(ctx, v, w)
  PROVE  /\ v.t = w.t /\ ClearSlot(v) = ClearSlot(w)
         /\ v.t # "entity" => v = w
         /\ v.t = "entity" => /\ v.uid = w.uid
                              /\ v.slot = NoSlot <=> w.slot = NoSlot
                              /\ v.slot # NoSlot => ctx.attrs[v.slot] = ctx.attrs[w.slot]
                              /\ Parents(ctx, v.slot) = Parents(ctx, w.slot)
<1>1. CASE v = w
  BY <1>1
<1>2. CASE SameEntity(ctx, v, w)
  <2>1. PICK s \in Slot, t \in Slot : /\ v = EntityValue(ctx.uid[s], s) /\ w = EntityValue(ctx.uid[t], t)
                                      /\ ctx.uid[s] = ctx.uid[t]
    BY <1>2 DEF SameEntity
  <2>2. ctx.attrs[s] = ctx.attrs[t] /\ ctx.parents[s] = ctx.parents[t]
    BY <2>1 DEF ContextWellFormed, Slot
  <2>3. s # NoSlot /\ t # NoSlot
    BY Slots DEF Slot, NoSlot
  <2>4. /\ v.t = "entity" /\ w.t = "entity" /\ v.uid = ctx.uid[s] /\ w.uid = ctx.uid[t]
        /\ v.slot = s /\ w.slot = t
    BY <2>1 DEF EntityValue
  <2>5. ClearSlot(v) = EntityValue(v.uid, NoSlot) /\ ClearSlot(w) = EntityValue(w.uid, NoSlot)
    BY <2>4 DEF ClearSlot
  <2> QED
    BY <2>1, <2>2, <2>3, <2>4, <2>5 DEF Parents
<1> QED
  BY <1>1, <1>2 DEF Alias

(***************************************************************************)
(* Equality looks at no more of an entity than its uid.                    *)
(***************************************************************************)
LEMMA EqualsTop ==
  ASSUME NEW a, NEW b
  PROVE  \E same : ValueEquals(a, b) = Alike(a, b, same)
<1>1. PICK s : EqualsTable(s, a, b) /\ ValueEquals(a, b) = s[EqualsRoom][a][b]
  BY EqualsTables
<1>2. PICK r \in Nat : EqualsRoom = r + 1
  <2>1. EqualsRoom - 1 \in Nat /\ EqualsRoom = (EqualsRoom - 1) + 1
    BY RoomOfEquals
  <2> QED
    BY <2>1
<1>3. r \in 0 .. EqualsRoom - 1 /\ EqualsRoom - r = 1 /\ 1 \in Nat \ {0}
  BY <1>2
<1>4. a \in Depth(a, EqualsRoom - r) /\ b \in Depth(b, EqualsRoom - r)
  BY <1>3, DepthNext
<1>5. s[r + 1][a][b] = Alike(a, b, s[r])
  BY <1>1, <1>3, <1>4 DEF EqualsTable
<1> QED
  BY <1>1, <1>2, <1>5

LEMMA EntityEquals ==
  ASSUME NEW a, NEW b, a.t = "entity" \/ b.t = "entity"
  PROVE  ValueEquals(a, b) = IF IsError(a) \/ IsError(b) THEN "error"
                             ELSE IF a.t # b.t THEN "ne"
                             ELSE IF a.uid = b.uid THEN "eq" ELSE "ne"
<1>1. PICK same : ValueEquals(a, b) = Alike(a, b, same)
  BY EqualsTop
<1>2. CASE IsError(a) \/ IsError(b)
  BY <1>1, <1>2 DEF Alike
<1>3. CASE ~(IsError(a) \/ IsError(b)) /\ a.t # b.t
  BY <1>1, <1>3 DEF Alike
<1>4. CASE ~(IsError(a) \/ IsError(b)) /\ a.t = b.t
  <2>1. a.t = "entity" /\ b.t = "entity"
    BY <1>4
  <2>2. Inner(a) = <<>> /\ Inner(b) = <<>>
    BY <2>1 DEF Inner
  <2>3. Len(Inner(a)) = 0 /\ Len(Inner(b)) = 0 /\ ~(Len(Inner(a)) > MaxEqualsElts)
    BY <2>2, LevelsOfData
  <2>4. Alike(a, b, same) = IF ScalarEquals(a, b) THEN "eq" ELSE "ne"
    BY <1>4, <2>1, <2>3 DEF Alike
  <2>5. ScalarEquals(a, b) <=> a.uid = b.uid
    BY <2>1 DEF ScalarEquals
  <2> QED
    BY <1>1, <1>4, <2>4, <2>5
<1> QED
  BY <1>2, <1>3, <1>4

LEMMA EqualsAlias ==
  ASSUME NEW ctx, ContextWellFormed(ctx), NEW a, NEW b, NEW c, NEW d, Alias(ctx, a, c), Alias(ctx, b, d)
  PROVE  ValueEquals(a, b) = ValueEquals(c, d)
<1>1. /\ a.t = c.t /\ (a.t # "entity" => a = c) /\ (a.t = "entity" => a.uid = c.uid)
      /\ b.t = d.t /\ (b.t # "entity" => b = d) /\ (b.t = "entity" => b.uid = d.uid)
  BY AliasIs
<1>2. CASE a.t = "entity" \/ b.t = "entity"
  <2>1. c.t = "entity" \/ d.t = "entity"
    BY <1>1, <1>2
  <2>2. ValueEquals(a, b) = IF IsError(a) \/ IsError(b) THEN "error"
                            ELSE IF a.t # b.t THEN "ne" ELSE IF a.uid = b.uid THEN "eq" ELSE "ne"
    BY <1>2, EntityEquals
  <2>3. ValueEquals(c, d) = IF IsError(c) \/ IsError(d) THEN "error"
                            ELSE IF c.t # d.t THEN "ne" ELSE IF c.uid = d.uid THEN "eq" ELSE "ne"
    BY <2>1, EntityEquals
  <2>4. (IsError(a) <=> IsError(c)) /\ (IsError(b) <=> IsError(d))
    BY <1>1 DEF IsError
  <2>5. ~IsError(a) /\ ~IsError(b) /\ a.t = b.t => a.uid = c.uid /\ b.uid = d.uid
    BY <1>1, <1>2
  <2> QED
    BY <1>1, <2>2, <2>3, <2>4, <2>5
<1>3. CASE ~(a.t = "entity" \/ b.t = "entity")
  <2>1. a = c /\ b = d
    BY <1>1, <1>3
  <2> QED
    BY <2>1
<1> QED
  BY <1>2, <1>3

LEMMA InAlias ==
  ASSUME NEW ctx, ContextWellFormed(ctx), NEW a, NEW b, NEW c, NEW d, Alias(ctx, a, c), Alias(ctx, b, d)
  PROVE  In(a, b, ctx) = In(c, d, ctx)
<1>1. /\ a.t = c.t /\ (a.t = "entity" => a.uid = c.uid /\ Parents(ctx, a.slot) = Parents(ctx, c.slot))
      /\ b.t = d.t /\ (b.t # "entity" => b = d) /\ (b.t = "entity" => b.uid = d.uid)
  BY AliasIs
<1>2. a.t = "entity" => \A uid : InTarget(ctx, a, uid) = InTarget(ctx, c, uid)
  BY <1>1 DEF InTarget
<1>3. CASE a.t # "entity"
  BY <1>1, <1>3 DEF In
<1>4. CASE a.t = "entity" /\ b.t = "entity"
  BY <1>1, <1>2, <1>4 DEF In
<1>5. CASE a.t = "entity" /\ b.t # "entity"
  <2>1. b = d /\ c.t = "entity"
    BY <1>1, <1>5
  <2> QED
    BY <1>2, <1>5, <2>1 DEF In
<1> QED
  BY <1>3, <1>4, <1>5

(***************************************************************************)
(* No method takes an entity but contains.                                 *)
(***************************************************************************)
LEMMA CallAlias ==
  ASSUME NEW ctx, ContextWellFormed(ctx), NEW a, NEW b, NEW c, NEW d, NEW method,
         Alias(ctx, a, c), Alias(ctx, b, d)
  PROVE  MethodCall(a, method, b) = MethodCall(c, method, d)
<1>1. /\ a.t = c.t /\ (a.t # "entity" => a = c)
      /\ b.t = d.t /\ (b.t # "entity" => b = d)
  BY AliasIs
<1>2. NoArg.t = "none"
  BY DEF NoArg
<1>3. b = NoArg <=> d = NoArg
  BY <1>1, <1>2
<1>4. CASE a.t = "entity"
  <2>1. \A v, u : v.t = "entity" => TimeCall(v, method, u) = ErrorValue
    BY DEF TimeCall
  <2>2. ASSUME NEW v, v.t = "entity" PROVE CallWithout(v, method) = ErrorValue
    BY <2>1, <2>2 DEF CallWithout
  <2>3. ASSUME NEW v, NEW u, v.t = "entity" PROVE CallWith(v, method, u) = ErrorValue
    BY <2>1, <2>3 DEF CallWith
  <2>4. ASSUME NEW v, NEW u, v.t = "entity" PROVE MethodCall(v, method, u) = ErrorValue
    BY <2>2, <2>3, <2>4 DEF MethodCall
  <2> QED
    BY <1>1, <1>4, <2>4
<1>5. CASE a.t # "entity" /\ b.t # "entity"
  <2>1. a = c /\ b = d
    BY <1>1, <1>5
  <2> QED
    BY <2>1
<1>6. CASE a.t # "entity" /\ b.t = "entity"
  <2>1. a = c /\ d.t = "entity" /\ b # NoArg /\ d # NoArg
    BY <1>1, <1>2, <1>6
  <2>2. MethodCall(a, method, b) = CallWith(a, method, b) /\ MethodCall(c, method, d) = CallWith(a, method, d)
    BY <2>1 DEF MethodCall
  <2>3. \A x : ValueEquals(x, b) = ValueEquals(x, d)
    BY EqualsAlias DEF Alias
  <2>4. [k \in DOMAIN a.elts |-> ValueEquals(a.elts[k], b)]
          = [k \in DOMAIN a.elts |-> ValueEquals(a.elts[k], d)]
    BY <2>3
  <2>5. TimeCall(a, method, b) = TimeCall(a, method, d)
    BY <1>6, <2>1 DEF TimeCall, DatetimeArgCall
  <2> DEFINE result == IF method \in {"containsAll", "containsAny"} THEN ErrorValue
                       ELSE IF method = "contains"
                       THEN IF a.t # "set" THEN ErrorValue
                            ELSE Compared(Find([k \in DOMAIN a.elts |-> ValueEquals(a.elts[k], b)]), FALSE)
                       ELSE IF method = "isInRange" THEN ErrorValue ELSE TimeCall(a, method, b)
  <2>6. ASSUME NEW u, u.t = "entity", TimeCall(a, method, u) = TimeCall(a, method, b),
               [k \in DOMAIN a.elts |-> ValueEquals(a.elts[k], u)]
                 = [k \in DOMAIN a.elts |-> ValueEquals(a.elts[k], b)]
        PROVE  CallWith(a, method, u) = result
    <3>1. u.t # "set" /\ u.t # "ip" /\ u.t # "decimal"
      BY <2>6
    <3>2. CASE method \in {"containsAll", "containsAny"}
      BY <3>1, <3>2 DEF CallWith
    <3>3. CASE method = "contains"
      BY <2>6, <3>1, <3>3 DEF CallWith
    <3>4. CASE method = "isInRange"
      BY <3>1, <3>4 DEF CallWith
    <3>5. CASE method \notin {"containsAll", "containsAny", "contains", "isInRange"}
      BY <2>6, <3>1, <3>5 DEF CallWith
    <3> QED
      BY <3>2, <3>3, <3>4, <3>5
  <2> HIDE DEF result
  <2>7. CallWith(a, method, b) = result /\ CallWith(a, method, d) = result
    BY <1>6, <2>1, <2>4, <2>5, <2>6
  <2> QED
    BY <2>2, <2>7
<1> QED
  BY <1>4, <1>5, <1>6

(***************************************************************************)
(* Nor does any operator but equality and `in`.                            *)
(***************************************************************************)
LEMMA StrictAlias ==
  ASSUME NEW ctx, ContextWellFormed(ctx), NEW a, NEW b, NEW c, NEW d, NEW op \in BinaryOps \ {"and", "or"},
         Alias(ctx, a, c), Alias(ctx, b, d)
  PROVE  Strict(op, a, b, ctx) = Strict(op, c, d, ctx)
<1>1. /\ a.t = c.t /\ (a.t # "entity" => a = c)
      /\ b.t = d.t /\ (b.t # "entity" => b = d)
  BY AliasIs
<1>2. CASE op \in {"eq", "ne"}
  <2>1. ValueEquals(a, b) = ValueEquals(c, d)
    BY EqualsAlias
  <2>2. EqualsValue(a, b, op = "ne") = EqualsValue(c, d, op = "ne")
    BY <2>1 DEF EqualsValue
  <2> QED
    BY <1>2, <2>2 DEF Strict
<1>3. CASE op = "in"
  BY <1>3, InAlias DEF Strict
<1>4. CASE op \in {"lt", "le", "gt", "ge"}
  <2>1. Compare(op, a, b) = Compare(op, c, d)
    <3>1. CASE a.t = "entity" \/ b.t = "entity"
      BY <1>1, <3>1 DEF Compare
    <3>2. CASE a.t # "entity" /\ b.t # "entity"
      <4>1. a = c /\ b = d
        BY <1>1, <3>2
      <4> QED
        BY <4>1
    <3> QED
      BY <3>1, <3>2
  <2> QED
    BY <1>4, <2>1 DEF Strict
<1>5. CASE op \in {"add", "sub", "mul"}
  <2>1. Arith(op, a, b) = Arith(op, c, d)
    <3>1. CASE a.t = "entity" \/ b.t = "entity"
      <4>1. a.t # "long" \/ b.t # "long"
        BY <3>1
      <4>2. c.t # "long" \/ d.t # "long"
        BY <1>1, <3>1
      <4>3. Arith(op, a, b) = ErrorValue /\ Arith(op, c, d) = ErrorValue
        BY <4>1, <4>2 DEF Arith
      <4> QED
        BY <4>3
    <3>2. CASE a.t # "entity" /\ b.t # "entity"
      <4>1. a = c /\ b = d
        BY <1>1, <3>2
      <4> QED
        BY <4>1
    <3> QED
      BY <3>1, <3>2
  <2> QED
    BY <1>5, <2>1 DEF Strict
<1> QED
  BY <1>2, <1>3, <1>4, <1>5 DEF BinaryOps

-----------------------------------------------------------------------------
(***************************************************************************)
(* An operand and its other spelling, by their values in two tables.       *)
(***************************************************************************)
Match(c, f, v, w) ==
  /\ Alias(input.ctx, v, w) /\ c # NoNode /\ f # NoNode
  /\ c.op = "var" => w = Variable(input.ctx, c.var) /\ c.var \in Slot \cup {"context"}
  /\ IF c.op = "var" /\ c.var = "context" THEN f = c ELSE f.op # "var"

LEMMA AttrsAlias ==
  ASSUME ContextWellFormed(input.ctx), NEW o, NEW f, NEW u, NEW w, Match(o, f, u[f], w[o])
  PROVE  AttrsOf(f, input.ctx, u) = AttrsOf(o, input.ctx, w)
<1>1. CASE o.op = "var" /\ o.var = "context"
  <2>1. f = o
    BY <1>1 DEF Match
  <2> QED
    BY <1>1, <2>1 DEF AttrsOf
<1> DEFINE v == u[f]
<1>2. CASE o.op = "var" /\ o.var # "context"
  <2>1. /\ f.op # "var" /\ Alias(input.ctx, v, w[o])
        /\ w[o] = Variable(input.ctx, o.var) /\ o.var \in Slot
    BY <1>2 DEF Match
  <2>2. w[o] = EntityValue(input.ctx.uid[o.var], o.var)
    BY <1>2, <2>1 DEF Variable
  <2>3. w[o].t = "entity" /\ w[o].slot = o.var /\ o.var # NoSlot
    BY <2>1, <2>2, Slots DEF EntityValue, Slot, NoSlot
  <2>4. v.t = "entity" /\ v.slot # NoSlot /\ input.ctx.attrs[v.slot] = input.ctx.attrs[o.var]
    BY <2>1, <2>3, AliasIs
  <2>5. AttrsOf(f, input.ctx, u) = RecordValue(input.ctx.attrs[v.slot])
    BY <2>1, <2>4 DEF AttrsOf
  <2>6. AttrsOf(o, input.ctx, w) = RecordValue(input.ctx.attrs[o.var])
    BY <1>2 DEF AttrsOf
  <2> QED
    BY <2>4, <2>5, <2>6
<1>3. CASE o.op # "var"
  <2>1. f.op # "var" /\ Alias(input.ctx, v, w[o])
    BY <1>3 DEF Match
  <2> DEFINE of(z) == IF z.t = "entity" /\ z.slot # NoSlot THEN RecordValue(input.ctx.attrs[z.slot])
                      ELSE IF z.t = "record" THEN z ELSE ErrorValue
  <2>2. AttrsOf(f, input.ctx, u) = of(v) /\ AttrsOf(o, input.ctx, w) = of(w[o])
    BY <1>3, <2>1 DEF AttrsOf
  <2>3. of(v) = of(w[o])
    <3>1. CASE v.t = "entity"
      BY <2>1, <3>1, AliasIs
    <3>2. CASE v.t # "entity"
      <4>1. v = w[o]
        BY <2>1, <3>2, AliasIs
      <4> QED
        BY <4>1
    <3> QED
      BY <3>1, <3>2
  <2> QED
    BY <2>2, <2>3
<1> QED
  BY <1>1, <1>2, <1>3

LEMMA SetAlias ==
  ASSUME ContextWellFormed(input.ctx), NEW e, NEW f, NEW u, NEW w, DOMAIN f.elts = DOMAIN e.elts,
         \A k \in DOMAIN e.elts : Alias(input.ctx, u[f.elts[k]], w[e.elts[k]])
  PROVE  SetLiteral(f, input.ctx, u) = SetLiteral(e, input.ctx, w)
<1> DEFINE v == [k \in DOMAIN f.elts |-> u[f.elts[k]]]
           x == [k \in DOMAIN e.elts |-> w[e.elts[k]]]
           literal(y) == IF y = <<>> \/ \E k \in DOMAIN y : IsError(y[k]) THEN ErrorValue
                         ELSE SetValue([k \in DOMAIN y |-> ClearSlot(y[k])])
<1>1. SetLiteral(f, input.ctx, u) = literal(v) /\ SetLiteral(e, input.ctx, w) = literal(x)
  BY DEF SetLiteral
<1>2. \A k \in DOMAIN e.elts : Alias(input.ctx, v[k], x[k])
  OBVIOUS
<1>3. DOMAIN v = DOMAIN x /\ DOMAIN x = DOMAIN e.elts
  OBVIOUS
<1>4. \A k \in DOMAIN x : (IsError(v[k]) <=> IsError(x[k])) /\ ClearSlot(v[k]) = ClearSlot(x[k])
  <2> HIDE DEF v, x
  <2> QED
    BY <1>2, <1>3, AliasIs DEF IsError
<1>5. [k \in DOMAIN v |-> ClearSlot(v[k])] = [k \in DOMAIN x |-> ClearSlot(x[k])]
  <2> HIDE DEF v, x
  <2> QED
    BY <1>3, <1>4
<1>6. v = <<>> <=> x = <<>>
  <2>1. \A y, D : y = [k \in D |-> y[k]] => (y = <<>> <=> D = {})
    OBVIOUS
  <2>2. v = [k \in DOMAIN f.elts |-> v[k]] /\ x = [k \in DOMAIN e.elts |-> x[k]]
    OBVIOUS
  <2> HIDE DEF v, x
  <2>3. (v = <<>> <=> DOMAIN f.elts = {}) /\ (x = <<>> <=> DOMAIN e.elts = {})
    BY <2>1, <2>2
  <2> QED
    BY <2>3
<1>7. literal(v) = literal(x)
  <2> HIDE DEF v, x
  <2> QED
    BY <1>3, <1>4, <1>5, <1>6
<1> HIDE DEF literal, v, x
<1> QED
  BY <1>1, <1>7

LEMMA RecordAlias ==
  ASSUME ContextWellFormed(input.ctx), NEW e, NEW f, NEW u, NEW w, DOMAIN f.entries = DOMAIN e.entries,
         \A k \in DOMAIN e.entries :
           /\ f.entries[k].key = e.entries[k].key
           /\ Alias(input.ctx, u[f.entries[k].value], w[e.entries[k].value])
  PROVE  RecordLiteral(f, input.ctx, u) = RecordLiteral(e, input.ctx, w)
<1> DEFINE v == [k \in DOMAIN f.entries |-> u[f.entries[k].value]]
           x == [k \in DOMAIN e.entries |-> w[e.entries[k].value]]
           literal(g, y) == IF \E k \in DOMAIN y : IsError(y[k]) THEN ErrorValue
                            ELSE RecordValue([k \in DOMAIN y |->
                                    [name |-> g.entries[k].key, value |-> ClearSlot(y[k])]])
<1>1. RecordLiteral(f, input.ctx, u) = literal(f, v) /\ RecordLiteral(e, input.ctx, w) = literal(e, x)
  BY DEF RecordLiteral
<1>2. \A k \in DOMAIN e.entries : Alias(input.ctx, v[k], x[k])
  OBVIOUS
<1>3. DOMAIN v = DOMAIN x /\ DOMAIN x = DOMAIN e.entries
  OBVIOUS
<1>4. \A k \in DOMAIN x : (IsError(v[k]) <=> IsError(x[k])) /\ ClearSlot(v[k]) = ClearSlot(x[k])
  <2> HIDE DEF v, x
  <2> QED
    BY <1>2, <1>3, AliasIs DEF IsError
<1>5. [k \in DOMAIN v |-> [name |-> f.entries[k].key, value |-> ClearSlot(v[k])]]
        = [k \in DOMAIN x |-> [name |-> e.entries[k].key, value |-> ClearSlot(x[k])]]
  <2> HIDE DEF v, x
  <2> QED
    BY <1>3, <1>4
<1>6. literal(f, v) = literal(e, x)
  <2> HIDE DEF v, x
  <2> QED
    BY <1>3, <1>4, <1>5
<1> HIDE DEF literal, v, x
<1> QED
  BY <1>1, <1>6

LEMMA BodyAlias ==
  ASSUME ContextWellFormed(input.ctx), NEW e, NodeWellFormed(e), NEW part, NEW u, NEW w,
         \A c \in Below({e}) : Match(c, part[c], u[part[c]], w[c])
  PROVE  Alias(input.ctx, Body(Respelled(e, part), input.ctx, u), Body(e, input.ctx, w))
<1> DEFINE f == Respelled(e, part)
           ctx == input.ctx
           Goal == Alias(ctx, Body(f, ctx, u), Body(e, ctx, w))
<1>1. Body(f, ctx, u) = Body(e, ctx, w) => Goal
  BY DEF Alias
<1>2. CASE e.op \in {"lit", "ext", "entity"}
  <2>1. f = e
    BY <1>2 DEF Respelled
  <2>2. Body(e, ctx, u) = Body(e, ctx, w)
    BY <1>2 DEF Body
  <2> QED
    BY <1>1, <2>1, <2>2
<1>3. CASE e.op = "var"
  <2>1. e.var \in Slot \cup {"context"} /\ Body(e, ctx, w) = Variable(ctx, e.var)
    BY <1>3 DEF NodeWellFormed, Slot, Body
  <2>2. CASE e.var = "context"
    <3>1. f = e
      BY <1>3, <2>2 DEF Respelled
    <3>2. Body(e, ctx, u) = Body(e, ctx, w)
      BY <1>3 DEF Body
    <3> QED
      BY <1>1, <3>1, <3>2
  <2>3. CASE e.var # "context"
    <3>1. e.var \in Slot /\ Body(e, ctx, w) = EntityValue(ctx.uid[e.var], e.var)
      BY <2>1, <2>3 DEF Variable
    <3>2. f = EntityNode(ctx.uid[e.var])
      BY <1>3, <2>3 DEF Respelled
    <3>3. Body(f, ctx, u) = EntityValue(ctx.uid[e.var], RequestSlot(ctx, ctx.uid[e.var]))
      BY <3>2 DEF Body, EntityNode
    <3>4. /\ RequestSlot(ctx, ctx.uid[e.var]) \in Slot
          /\ ctx.uid[RequestSlot(ctx, ctx.uid[e.var])] = ctx.uid[e.var]
      BY <3>1, RequestSlotIs DEF Slot
    <3>5. SameEntity(ctx, Body(f, ctx, u), Body(e, ctx, w))
      BY <3>1, <3>3, <3>4 DEF SameEntity
    <3> QED
      BY <3>5 DEF Alias
  <2> QED
    BY <2>2, <2>3
<1>4. CASE e.op \in {"attr", "has"}
  <2>1. e.object \in Below({e})
    BY <1>4, Parts DEF OfObject
  <2>2. f.object = part[e.object] /\ f.attr = e.attr /\ f.op = e.op
    BY <1>4 DEF Respelled, AttrNode, HasNode
  <2>3. AttrsOf(f.object, ctx, u) = AttrsOf(e.object, ctx, w)
    <3>1. PICK o, g : o = e.object /\ g = f.object
      OBVIOUS
    <3>2. Match(o, g, u[g], w[o])
      BY <2>1, <2>2, <3>1
    <3>3. AttrsOf(g, input.ctx, u) = AttrsOf(o, input.ctx, w)
      BY <3>2, AttrsAlias
    <3> QED
      BY <3>1, <3>3
  <2>4. Body(f, ctx, u) = Body(e, ctx, w)
    <3> HIDE DEF f, ctx
    <3> QED
      BY <1>4, <2>2, <2>3 DEF Body, AttrAccess, Has
  <2> QED
    BY <1>1, <2>4
<1>5. CASE e.op = "like"
  <2>1. e.object \in Below({e})
    BY <1>5, Parts DEF OfObject
  <2>2. f.object = part[e.object] /\ f.pattern = e.pattern /\ f.op = "like"
    BY <1>5 DEF Respelled, LikeNode
  <2>3. Alias(ctx, u[f.object], w[e.object])
    BY <2>1, <2>2 DEF Match
  <2>4. Body(f, ctx, u) = Body(e, ctx, w)
    <3>1. u[f.object].t = w[e.object].t /\ (u[f.object].t # "entity" => u[f.object] = w[e.object])
      BY <2>3, AliasIs
    <3> HIDE DEF f, ctx
    <3>2. Like(u[f.object], e.pattern) = Like(w[e.object], e.pattern)
      BY <3>1 DEF Like
    <3> QED
      BY <1>5, <2>2, <3>2 DEF Body
  <2> QED
    BY <1>1, <2>4
<1>6. CASE e.op = "set"
  <2>1. \A k \in DOMAIN e.elts : e.elts[k] \in Below({e})
    BY <1>6, Parts
  <2>2. f.op = "set" /\ f.elts = [k \in DOMAIN e.elts |-> part[e.elts[k]]]
    BY <1>6 DEF Respelled, SetNode
  <2>3. DOMAIN f.elts = DOMAIN e.elts /\ \A k \in DOMAIN e.elts : f.elts[k] = part[e.elts[k]]
    BY <2>2
  <2>4. \A k \in DOMAIN e.elts : Alias(ctx, u[f.elts[k]], w[e.elts[k]])
    <3> HIDE DEF f
    <3> QED
      BY <2>1, <2>3 DEF Match
  <2>5. SetLiteral(f, ctx, u) = SetLiteral(e, ctx, w)
    <3> HIDE DEF f
    <3> QED
      BY <2>3, <2>4, SetAlias
  <2>6. Body(f, ctx, u) = Body(e, ctx, w)
    <3> HIDE DEF f, ctx
    <3> QED
      BY <1>6, <2>2, <2>5 DEF Body
  <2> QED
    BY <1>1, <2>6
<1>7. CASE e.op = "record"
  <2>1. \A k \in DOMAIN e.entries : e.entries[k].value \in Below({e})
    BY <1>7, Parts
  <2>2. /\ f.op = "record"
        /\ f.entries = [k \in DOMAIN e.entries |->
                          [key |-> e.entries[k].key, value |-> part[e.entries[k].value]]]
    BY <1>7 DEF Respelled, RecordNode
  <2>3. /\ DOMAIN f.entries = DOMAIN e.entries
        /\ \A k \in DOMAIN e.entries : /\ f.entries[k].value = part[e.entries[k].value]
                                       /\ f.entries[k].key = e.entries[k].key
    BY <2>2
  <2>4. \A k \in DOMAIN e.entries : Alias(ctx, u[f.entries[k].value], w[e.entries[k].value])
    <3> HIDE DEF f
    <3> QED
      BY <2>1, <2>3 DEF Match
  <2>5. RecordLiteral(f, ctx, u) = RecordLiteral(e, ctx, w)
    <3> HIDE DEF f
    <3> QED
      BY <2>3, <2>4, RecordAlias
  <2>6. Body(f, ctx, u) = Body(e, ctx, w)
    <3> HIDE DEF f, ctx
    <3> QED
      BY <1>7, <2>2, <2>5 DEF Body
  <2> QED
    BY <1>1, <2>6
<1>8. CASE e.op \in {"not", "neg"}
  <2>1. e.operand \in Below({e})
    BY <1>8, Parts DEF Unary
  <2>2. f.operand = part[e.operand] /\ f.op = e.op
    BY <1>8 DEF Respelled, UnNode
  <2>3. Alias(ctx, u[f.operand], w[e.operand])
    BY <2>1, <2>2 DEF Match
  <2>4. Body(f, ctx, u) = Body(e, ctx, w)
    <3>1. /\ u[f.operand].t = w[e.operand].t
          /\ u[f.operand].t # "entity" => u[f.operand] = w[e.operand]
      BY <2>3, AliasIs
    <3> HIDE DEF f, ctx
    <3>2. Not(u[f.operand]) = Not(w[e.operand]) /\ Negate(u[f.operand]) = Negate(w[e.operand])
      BY <3>1 DEF Not, Negate
    <3> QED
      BY <1>8, <2>2, <3>2 DEF Body
  <2> QED
    BY <1>1, <2>4
<1>9. CASE e.op = "call"
  <2>1. /\ e.object \in Below({e}) /\ (e.arg # NoNode => e.arg \in Below({e}))
    BY <1>9, Parts
  <2>2. /\ f.object = part[e.object] /\ f.method = e.method /\ f.op = "call"
        /\ f.arg = IF e.arg = NoNode THEN NoNode ELSE part[e.arg]
    BY <1>9 DEF Respelled, CallNode
  <2>3. /\ Alias(ctx, u[f.object], w[e.object])
        /\ (f.arg = NoNode <=> e.arg = NoNode)
        /\ e.arg # NoNode => Alias(ctx, u[f.arg], w[e.arg])
    BY <2>1, <2>2 DEF Match
  <2>4. PICK a, c, b, d : /\ a = u[f.object] /\ c = w[e.object]
                          /\ b = IF f.arg = NoNode THEN NoArg ELSE u[f.arg]
                          /\ d = IF e.arg = NoNode THEN NoArg ELSE w[e.arg]
    OBVIOUS
  <2>5. Alias(ctx, a, c) /\ Alias(ctx, b, d)
    BY <2>3, <2>4 DEF Alias
  <2>6. MethodCall(a, e.method, b) = MethodCall(c, e.method, d)
    BY <2>5, CallAlias
  <2>7. a.t = c.t /\ b.t = d.t
    BY <2>5, AliasIs
  <2>8. Body(f, ctx, u) = Body(e, ctx, w)
    <3> HIDE DEF f, ctx
    <3>1. /\ Call(f, ctx, u) = IF IsError(a) \/ IsError(b) THEN ErrorValue ELSE MethodCall(a, e.method, b)
          /\ Call(e, ctx, w) = IF IsError(c) \/ IsError(d) THEN ErrorValue ELSE MethodCall(c, e.method, d)
      BY <2>2, <2>4 DEF Call
    <3>2. Call(f, ctx, u) = Call(e, ctx, w)
      BY <2>6, <2>7, <3>1 DEF IsError
    <3> QED
      BY <1>9, <2>2, <3>2 DEF Body
  <2> QED
    BY <1>1, <2>8
<1>10. CASE e.op = "is"
  <2>1. /\ e.object \in Below({e}) /\ (e.within # NoNode => e.within \in Below({e}))
    BY <1>10, Parts
  <2>2. /\ f.object = part[e.object] /\ f.type = e.type /\ f.op = "is"
        /\ f.within = IF e.within = NoNode THEN NoNode ELSE part[e.within]
    BY <1>10 DEF Respelled, IsNode
  <2>3. /\ Alias(ctx, u[f.object], w[e.object])
        /\ (f.within = NoNode <=> e.within = NoNode)
        /\ e.within # NoNode => Alias(ctx, u[f.within], w[e.within])
    BY <2>1, <2>2 DEF Match
  <2>4. PICK a, c, b, d : a = u[f.object] /\ c = w[e.object] /\ b = u[f.within] /\ d = w[e.within]
    OBVIOUS
  <2>5. a.t = c.t /\ (a.t = "entity" => a.uid = c.uid)
    BY <2>3, <2>4, AliasIs
  <2>6. e.within # NoNode => b.t = d.t /\ In(a, b, ctx) = In(c, d, ctx)
    BY <2>3, <2>4, AliasIs, InAlias
  <2>7. Body(f, ctx, u) = Body(e, ctx, w)
    <3> HIDE DEF f, ctx
    <3>1. /\ IsCheck(f, ctx, u)
               = IF a.t # "entity" THEN ErrorValue
                 ELSE IF a.uid.type # e.type THEN No
                 ELSE IF e.within = NoNode THEN Yes
                 ELSE IF IsError(b) THEN ErrorValue ELSE In(a, b, ctx)
          /\ IsCheck(e, ctx, w)
               = IF c.t # "entity" THEN ErrorValue
                 ELSE IF c.uid.type # e.type THEN No
                 ELSE IF e.within = NoNode THEN Yes
                 ELSE IF IsError(d) THEN ErrorValue ELSE In(c, d, ctx)
      BY <2>2, <2>3, <2>4 DEF IsCheck, Yes, No
    <3>2. IsCheck(f, ctx, u) = IsCheck(e, ctx, w)
      BY <2>5, <2>6, <3>1 DEF IsError
    <3> QED
      BY <1>10, <2>2, <3>2 DEF Body
  <2> QED
    BY <1>1, <2>7
<1>11. CASE e.op = "if"
  <2>1. {e.cond, e.then, e.else} \subseteq Below({e})
    BY <1>11, Parts
  <2>2. /\ f.cond = part[e.cond] /\ f.then = part[e.then] /\ f.else = part[e.else] /\ f.op = "if"
    BY <1>11 DEF Respelled, IfNode
  <2>3. /\ Alias(ctx, u[f.cond], w[e.cond]) /\ Alias(ctx, u[f.then], w[e.then])
        /\ Alias(ctx, u[f.else], w[e.else])
    BY <2>1, <2>2 DEF Match
  <2>4. /\ u[f.cond].t = w[e.cond].t /\ (u[f.cond].t # "entity" => u[f.cond] = w[e.cond])
        /\ ClearSlot(u[f.then]) = ClearSlot(w[e.then])
        /\ ClearSlot(u[f.else]) = ClearSlot(w[e.else])
    BY <2>3, AliasIs
  <2>5. Body(f, ctx, u) = Body(e, ctx, w)
    <3> HIDE DEF f, ctx
    <3>1. /\ IfThenElse(f, ctx, u) = Chosen(u[f.cond], u[f.then], u[f.else])
          /\ IfThenElse(e, ctx, w) = Chosen(w[e.cond], w[e.then], w[e.else])
      BY DEF IfThenElse, Chosen
    <3>2. Chosen(u[f.cond], u[f.then], u[f.else]) = Chosen(w[e.cond], w[e.then], w[e.else])
      <4>1. CASE u[f.cond].t # "bool"
        BY <2>4, <4>1 DEF Chosen
      <4>2. CASE u[f.cond].t = "bool" /\ u[f.cond].b
        BY <2>4, <4>2 DEF Chosen
      <4>3. CASE u[f.cond].t = "bool" /\ ~u[f.cond].b
        BY <2>4, <4>3 DEF Chosen
      <4> QED
        BY <4>1, <4>2, <4>3
    <3> QED
      BY <1>11, <2>2, <3>1, <3>2 DEF Body
  <2> QED
    BY <1>1, <2>5
<1>12. CASE e.op \in BinaryOps
  <2>1. {e.left, e.right} \subseteq Below({e})
    BY <1>12, Parts DEF Unpaired, Leaf, OfObject, Unary, BinaryOps
  <2>2. f.left = part[e.left] /\ f.right = part[e.right] /\ f.op = e.op
    BY <1>12 DEF Respelled, BinNode, BinaryOps
  <2>3. PICK a, c, b, d : a = u[f.left] /\ c = w[e.left] /\ b = u[f.right] /\ d = w[e.right]
    OBVIOUS
  <2>4. Alias(ctx, a, c) /\ Alias(ctx, b, d)
    BY <2>1, <2>2, <2>3 DEF Match
  <2>5. a.t = c.t /\ (a.t # "entity" => a = c) /\ b.t = d.t /\ (b.t # "entity" => b = d)
    BY <2>4, AliasIs
  <2>6. CASE e.op = "and"
    <3>1. Body(f, ctx, u) = Body(e, ctx, w)
      <4> HIDE DEF f, ctx
      <4>1. Body(f, ctx, u) = Conjoined(a, b) /\ Body(e, ctx, w) = Conjoined(c, d)
        BY <2>2, <2>3, <2>6 DEF Body, Connective, Conjoined
      <4>2. Conjoined(a, b) = Conjoined(c, d)
        BY <2>5 DEF Conjoined
      <4> QED
        BY <4>1, <4>2
    <3> QED
      BY <1>1, <3>1
  <2>7. CASE e.op = "or"
    <3>1. Body(f, ctx, u) = Body(e, ctx, w)
      <4> HIDE DEF f, ctx
      <4>1. Body(f, ctx, u) = Disjoined(a, b) /\ Body(e, ctx, w) = Disjoined(c, d)
        BY <2>2, <2>3, <2>7 DEF Body, Connective, Disjoined
      <4>2. Disjoined(a, b) = Disjoined(c, d)
        BY <2>5 DEF Disjoined
      <4> QED
        BY <4>1, <4>2
    <3> QED
      BY <1>1, <3>1
  <2>8. CASE e.op \in BinaryOps \ {"and", "or"}
    <3>1. Strict(e.op, a, b, ctx) = Strict(e.op, c, d, ctx)
      BY <2>4, <2>8, StrictAlias
    <3>2. Body(f, ctx, u) = Body(e, ctx, w)
      <4> HIDE DEF f, ctx
      <4>1. Body(f, ctx, u) = Binary(f, ctx, u) /\ Body(e, ctx, w) = Binary(e, ctx, w)
        BY <2>2, <2>8 DEF Body, BinaryOps
      <4>2. /\ Binary(f, ctx, u) = Both(a, b, Strict(e.op, a, b, ctx))
            /\ Binary(e, ctx, w) = Both(c, d, Strict(e.op, c, d, ctx))
        BY <2>2, <2>3 DEF Binary, Both
      <4>3. (IsError(a) <=> IsError(c)) /\ (IsError(b) <=> IsError(d))
        BY <2>5 DEF IsError
      <4> QED
        BY <3>1, <4>1, <4>2, <4>3 DEF Both
    <3> QED
      BY <1>1, <3>2
  <2> QED
    BY <1>12, <2>6, <2>7, <2>8
<1>13. e.op \in BinaryOps \cup OtherOps
  BY DEF NodeWellFormed
<1> HIDE DEF f, ctx
<1> QED
  BY <1>2, <1>3, <1>4, <1>5, <1>6, <1>7, <1>8, <1>9, <1>10, <1>11, <1>12, <1>13 DEF OtherOps, f, ctx

-----------------------------------------------------------------------------
(***************************************************************************)
(* The other spelling of an expression has its shape.                      *)
(***************************************************************************)
LEMMA RespelledBuilt ==
  ASSUME NEW e, NodeWellFormed(e), NEW part
  PROVE  /\ Built(Respelled(e, part), {part[c] : c \in Below({e})})
         /\ IF e.op = "var" /\ e.var = "context" THEN Respelled(e, part) = e
            ELSE Respelled(e, part).op # "var"
<1> DEFINE f == Respelled(e, part)
           parts == {part[c] : c \in Below({e})}
<1>0. ASSUME NEW c \in Below({e}) PROVE part[c] \in parts
  OBVIOUS
<1>a. ASSUME NEW g, NEW some, Built(g, some), some \subseteq parts PROVE Built(g, parts)
  BY <1>a DEF Built
<1>b. \A x, y, name : AttrNode(x, name).op # "var" /\ HasNode(x, name).op # "var"
                      /\ LikeNode(x, name).op # "var" /\ IsNode(x, name, y).op # "var"
                      /\ CallNode(x, name, y).op # "var" /\ SetNode(x).op # "var"
                      /\ RecordNode(x).op # "var" /\ EntityNode(x).op # "var"
  BY DEF AttrNode, HasNode, LikeNode, IsNode, CallNode, SetNode, RecordNode, EntityNode
<1>c. \A x, y, z : IfNode(x, y, z).op # "var"
  BY DEF IfNode
<1>1. CASE e.op \in {"lit", "ext", "entity"} \/ (e.op = "var" /\ e.var = "context")
  <2>1. f = e
    BY <1>1 DEF Respelled
  <2>2. Children(e) = <<>>
    BY <1>1 DEF Children
  <2>3. Below({e}) = {}
    BY <2>2, BelowIs
  <2>4. Built(e, parts)
    BY <2>3 DEF Built
  <2> QED
    BY <1>1, <2>1, <2>4
<1>2. CASE e.op = "var" /\ e.var # "context"
  <2>1. PICK uid : f = EntityNode(uid)
    BY <1>2 DEF Respelled
  <2>2. Children(EntityNode(uid)) = <<>> /\ NodeWellFormed(EntityNode(uid))
    BY DEF Children, EntityNode, NodeWellFormed, BinaryOps, OtherOps
  <2>3. Built(f, parts)
    BY <2>1, <2>2, BelowIs DEF Built
  <2> QED
    BY <1>2, <1>b, <2>1, <2>3
<1>3. CASE e.op \in OfObject
  <2>1. PICK x : x = part[e.object] /\ {x} \subseteq parts
    BY <1>0, <1>3, Parts
  <2>2. f \in {AttrNode(x, e.attr), HasNode(x, e.attr), LikeNode(x, e.pattern)}
    BY <1>3, <2>1 DEF Respelled, OfObject
  <2>3. Built(f, {x})
    <3> HIDE DEF f
    <3> QED
      BY <2>2, BuiltAttr, BuiltLike
  <2>4. e.op # "var" /\ f.op # "var"
    <3> HIDE DEF f
    <3> QED
      BY <1>3, <1>b, <2>2 DEF OfObject
  <2> QED
    BY <1>a, <2>1, <2>3, <2>4
<1>4. CASE e.op = "set"
  <2>1. PICK elts : elts = [k \in DOMAIN e.elts |-> part[e.elts[k]]] /\ f = SetNode(elts)
    BY <1>4 DEF Respelled
  <2>2. IsArray(e.elts) /\ Len(e.elts) <= MaxEqualsElts
    BY <1>4 DEF NodeWellFormed
  <2>3. IsArray(elts) /\ Len(elts) = Len(e.elts) /\ DOMAIN elts = DOMAIN e.elts
    <3>1. elts = [k \in DOMAIN e.elts |-> elts[k]]
      BY <2>1
    <3> QED
      BY <2>2, <3>1, Mapped
  <2>4. NodeWellFormed(SetNode(elts))
    BY <2>2, <2>3 DEF NodeWellFormed, SetNode, BinaryOps, OtherOps
  <2>5. Children(SetNode(elts)) = elts
    BY DEF Children, SetNode
  <2>6. Below({SetNode(elts)}) = {elts[k] : k \in DOMAIN elts}
    BY <2>5 DEF Below
  <2>7. \A k \in DOMAIN elts : elts[k] \in parts
    BY <1>0, <1>4, <2>1, Parts
  <2>8. Built(f, parts)
    <3> HIDE DEF f, parts
    <3> QED
      BY <2>1, <2>4, <2>6, <2>7 DEF Built
  <2> QED
    BY <1>4, <1>b, <2>1, <2>8
<1>5. CASE e.op = "record"
  <2>1. PICK entries : /\ entries = [k \in DOMAIN e.entries |->
                             [key |-> e.entries[k].key, value |-> part[e.entries[k].value]]]
                       /\ f = RecordNode(entries)
    BY <1>5 DEF Respelled
  <2>2. IsArray(e.entries) /\ Len(e.entries) <= MaxEqualsElts
    BY <1>5 DEF NodeWellFormed
  <2>3. IsArray(entries) /\ Len(entries) = Len(e.entries) /\ DOMAIN entries = DOMAIN e.entries
    <3>1. entries = [k \in DOMAIN e.entries |-> entries[k]]
      BY <2>1
    <3> QED
      BY <2>2, <3>1, Mapped
  <2>4. NodeWellFormed(RecordNode(entries))
    BY <2>2, <2>3 DEF NodeWellFormed, RecordNode, BinaryOps, OtherOps
  <2>5. Children(RecordNode(entries)) = [k \in DOMAIN entries |-> entries[k].value]
    BY DEF Children, RecordNode
  <2>6. Below({RecordNode(entries)}) = {entries[k].value : k \in DOMAIN entries}
    BY <2>5 DEF Below
  <2>7. \A k \in DOMAIN entries : entries[k].value \in parts
    BY <1>0, <1>5, <2>1, Parts
  <2>8. Built(f, parts)
    <3> HIDE DEF f, parts
    <3> QED
      BY <2>1, <2>4, <2>6, <2>7 DEF Built
  <2> QED
    BY <1>5, <1>b, <2>1, <2>8
<1>6. CASE e.op \in Unary
  <2>1. PICK x : x = part[e.operand] /\ {x} \subseteq parts
    BY <1>0, <1>6, Parts
  <2>2. f = UnNode(e.op, x)
    BY <1>6, <2>1 DEF Respelled, Unary
  <2>3. Built(f, {x})
    BY <1>6, <2>2, BuiltUnary
  <2>4. e.op # "var" /\ f.op # "var"
    BY <1>6, <2>2 DEF Unary, UnNode
  <2> QED
    BY <1>a, <2>1, <2>3, <2>4
<1>7. CASE e.op = "call"
  <2>1. PICK x : x = part[e.object] /\ x \in parts
    BY <1>0, <1>7, Parts
  <2>2. CASE e.arg = NoNode
    <3>1. f = CallNode(x, e.method, NoNode)
      BY <1>7, <2>1, <2>2 DEF Respelled
    <3>2. Built(f, {x})
      BY <3>1, BuiltCall
    <3> QED
      BY <1>7, <1>a, <1>b, <2>1, <3>1, <3>2
  <2>3. CASE e.arg # NoNode
    <3>1. PICK y : y = part[e.arg] /\ y \in parts
      BY <1>0, <1>7, <2>3, Parts
    <3>2. f = CallNode(x, e.method, y)
      BY <1>7, <2>1, <2>3, <3>1 DEF Respelled
    <3>3. Built(f, {x, y})
      BY <3>2, BuiltCall
    <3>4. {x, y} \subseteq parts
      BY <2>1, <3>1
    <3> QED
      BY <1>7, <1>a, <1>b, <3>2, <3>3, <3>4
  <2> QED
    BY <2>2, <2>3
<1>8. CASE e.op = "is"
  <2>1. PICK x : x = part[e.object] /\ x \in parts
    BY <1>0, <1>8, Parts
  <2>2. CASE e.within = NoNode
    <3>1. f = IsNode(x, e.type, NoNode)
      BY <1>8, <2>1, <2>2 DEF Respelled
    <3>2. Built(f, {x})
      BY <3>1, BuiltIs
    <3> QED
      BY <1>8, <1>a, <1>b, <2>1, <3>1, <3>2
  <2>3. CASE e.within # NoNode
    <3>1. PICK y : y = part[e.within] /\ y \in parts
      BY <1>0, <1>8, <2>3, Parts
    <3>2. f = IsNode(x, e.type, y)
      BY <1>8, <2>1, <2>3, <3>1 DEF Respelled
    <3>3. Built(f, {x, y})
      BY <3>2, BuiltIs
    <3>4. {x, y} \subseteq parts
      BY <2>1, <3>1
    <3> QED
      BY <1>8, <1>a, <1>b, <3>2, <3>3, <3>4
  <2> QED
    BY <2>2, <2>3
<1>9. CASE e.op = "if"
  <2>0. part[e.cond] \in parts /\ part[e.then] \in parts /\ part[e.else] \in parts
    <3>1. {e.cond, e.then, e.else} \subseteq Below({e})
      BY <1>9, Parts
    <3> HIDE DEF parts
    <3> QED
      BY <1>0, <3>1
  <2>1. PICK x, y, z : /\ x = part[e.cond] /\ y = part[e.then] /\ z = part[e.else]
                       /\ {x, y, z} \subseteq parts
    <3> HIDE DEF parts
    <3> QED
      BY <2>0
  <2>2. f = IfNode(x, y, z)
    BY <1>9, <2>1 DEF Respelled
  <2>3. Built(f, {x, y, z})
    BY <2>2, BuiltIf
  <2> QED
    BY <1>9, <1>a, <1>c, <2>1, <2>2, <2>3
<1>10. CASE e.op \in BinaryOps
  <2>0. part[e.left] \in parts /\ part[e.right] \in parts
    <3>1. e.op \notin Unpaired
      BY <1>10 DEF Unpaired, Leaf, OfObject, Unary, BinaryOps
    <3>2. {e.left, e.right} \subseteq Below({e})
      BY <3>1, Parts
    <3> HIDE DEF parts
    <3> QED
      BY <1>0, <3>2
  <2>1. PICK x, y : x = part[e.left] /\ y = part[e.right] /\ {x, y} \subseteq parts
    <3> HIDE DEF parts
    <3> QED
      BY <2>0
  <2>2. f = BinNode(e.op, x, y)
    BY <1>10, <2>1 DEF Respelled, BinaryOps
  <2>3. Built(f, {x, y})
    BY <1>10, <2>2, BuiltBinary
  <2>4. e.op # "var" /\ f.op # "var"
    BY <1>10, <2>2 DEF BinaryOps, BinNode
  <2> QED
    BY <1>a, <2>1, <2>3, <2>4
<1>11. e.op \in BinaryOps \cup OtherOps
  BY DEF NodeWellFormed
<1> HIDE DEF f, parts
<1> QED
  BY <1>1, <1>2, <1>3, <1>4, <1>5, <1>6, <1>7, <1>8, <1>9, <1>10, <1>11
  DEF OtherOps, OfObject, Unary, f, parts

(***************************************************************************)
(* The tables that an expression is spelled with.                          *)
(***************************************************************************)
SpelledTable(s, e) ==
  /\ \A c \in Level(e, MaxHeight + 1) : s[0][c] = c
  /\ \A r \in 0 .. MaxHeight - 1 : \A c \in Level(e, MaxHeight - r) : s[r + 1][c] = Respelled(c, s[r])

LEMMA SpelledTables ==
  ASSUME NEW e
  PROVE  \E s : SpelledTable(s, e) /\ Spelled(e) = s[MaxHeight][e]
<1>0. PICK room \in Nat \ {0} : room = MaxHeight
  BY ExpressionAssumption
<1> DEFINE levels == Levels(e, room + 1)
           Row(r, below) == [c \in levels[room + 1 - r] |->
                               IF r = 0 THEN c ELSE Respelled(c, below)]
           Rows(f, m) == /\ f = [r \in 0 .. m |-> f[r]]
                         /\ \A r \in 0 .. m : f[r] = Row(r, f[r - 1])
           Is(f) == f = [r \in 0 .. room |->
                           [c \in levels[room + 1 - r] |->
                              IF r = 0 THEN c ELSE Respelled(c, f[r - 1])]]
<1> HIDE DEF levels
<1>1. \E f : Rows(f, room)
  <2> DEFINE T == {m \in 0 .. room : \E f : Rows(f, m)}
  <2>1. 0 \in T
    <3> DEFINE f == [r \in 0 .. 0 |-> Row(0, 0)]
    <3>1. Row(0, f[0 - 1]) = Row(0, 0)
      OBVIOUS
    <3>2. f = [r \in 0 .. 0 |-> f[r]] /\ f[0] = Row(0, 0) /\ \A r \in 0 .. 0 : r = 0
      OBVIOUS
    <3>3. Rows(f, 0)
      <4> HIDE DEF f, Row
      <4> QED
        BY <3>1, <3>2
    <3> HIDE DEF Rows, f
    <3> QED
      BY <3>3
  <2>2. ASSUME NEW m \in 0 .. room - 1, m \in T PROVE m + 1 \in T
    <3>1. PICK f : Rows(f, m)
      <4> HIDE DEF Rows
      <4> QED
        BY <2>2
    <3> DEFINE g == [r \in 0 .. m + 1 |-> IF r = m + 1 THEN Row(m + 1, f[m]) ELSE f[r]]
    <3> HIDE DEF Row
    <3>2. g = [r \in 0 .. m + 1 |-> g[r]]
      OBVIOUS
    <3>3. ASSUME NEW r \in 0 .. m + 1 PROVE g[r] = Row(r, g[r - 1])
      <4>1. CASE r = m + 1
        <5>1. r - 1 = m /\ m \in 0 .. m + 1 /\ m # m + 1
          BY <4>1
        <5> QED
          BY <4>1, <5>1
      <4>2. CASE r # m + 1
        <5>1. r \in 0 .. m
          BY <4>2
        <5>2. g[r] = Row(r, f[r - 1])
          BY <3>1, <4>2, <5>1
        <5>3. CASE r = 0
          <6>1. Row(0, f[0 - 1]) = Row(0, g[0 - 1])
            BY DEF Row
          <6> QED
            BY <5>2, <5>3, <6>1
        <5>4. CASE r # 0
          <6>1. r - 1 \in 0 .. m + 1 /\ r - 1 # m + 1
            BY <5>1, <5>4
          <6> QED
            BY <5>2, <6>1
        <5> QED
          BY <5>3, <5>4
      <4> QED
        BY <4>1, <4>2
    <3>4. Rows(g, m + 1)
      <4> HIDE DEF g
      <4> QED
        BY <3>2, <3>3
    <3>5. m + 1 \in 0 .. room
      OBVIOUS
    <3> HIDE DEF Rows, g
    <3> QED
      BY <3>4, <3>5
  <2>3. \A m \in 0 .. room : m \in T
    <3> HIDE DEF T
    <3> QED
      BY <2>1, <2>2, UpToNumber
  <2>4. room \in T
    <3> HIDE DEF T
    <3> QED
      BY <2>3
  <2> HIDE DEF Rows
  <2> QED
    BY <2>4
<1>2. \E f : Is(f)
  <2>1. PICK f : Rows(f, room)
    <3> HIDE DEF Rows
    <3> QED
      BY <1>1
  <2>2. Is(f)
    BY <2>1
  <2> HIDE DEF Is
  <2> QED
    BY <2>2
<1>3. PICK v : v = CHOOSE f : Is(f)
  OBVIOUS
<1>4. Is(v)
  <2> HIDE DEF Is
  <2> QED
    BY <1>2, <1>3
<1>5. Spelled(e) = v[room][e]
  BY <1>0, <1>3 DEF Spelled, levels
<1>6. \A r \in 0 .. room : levels[room + 1 - r] = Level(e, room + 1 - r)
  <2>1. ASSUME NEW r \in 0 .. room
        PROVE  room + 1 - r \in Nat \ {0} /\ room + 1 \in Nat /\ room + 1 >= room + 1 - r
    OBVIOUS
  <2>2. ASSUME NEW k \in Nat \ {0}, NEW n \in Nat, n >= k PROVE Levels(e, n)[k] = Level(e, k)
    BY <2>2, LevelNext
  <2> QED
    BY <2>1, <2>2 DEF levels
<1>7. SpelledTable(v, e)
  <2>1. ASSUME NEW r \in 0 .. room, NEW c \in Level(e, room + 1 - r)
        PROVE  v[r][c] = IF r = 0 THEN c ELSE Respelled(c, v[r - 1])
    <3>1. c \in levels[room + 1 - r]
      BY <1>6, <2>1
    <3>2. v[r] = [d \in levels[room + 1 - r] |-> IF r = 0 THEN d ELSE Respelled(d, v[r - 1])]
      BY <1>4
    <3> QED
      BY <3>1, <3>2
  <2>2. ASSUME NEW c \in Level(e, room + 1) PROVE v[0][c] = c
    <3>1. 0 \in 0 .. room /\ room + 1 - 0 = room + 1
      OBVIOUS
    <3> QED
      BY <2>1, <3>1
  <2>3. ASSUME NEW r \in 0 .. room - 1, NEW c \in Level(e, room - r)
        PROVE  v[r + 1][c] = Respelled(c, v[r])
    <3>1. r + 1 \in 0 .. room /\ room + 1 - (r + 1) = room - r /\ r + 1 # 0 /\ (r + 1) - 1 = r
      OBVIOUS
    <3> QED
      BY <2>1, <3>1
  <2> QED
    BY <1>0, <2>2, <2>3 DEF SpelledTable
<1> QED
  BY <1>0, <1>5, <1>7

(***************************************************************************)
(* Level by level, the other spelling has the values of the expression, or *)
(* the same entities in other slots.                                       *)
(***************************************************************************)
Twins(s, e, r) ==
  \A c \in Level(e, MaxHeight + 1 - r) :
    Legible(c, r) => Legible(s[r][c], r) /\ Match(c, s[r][c], Value(s[r][c]), Value(c))

LEMMA TwinsNext ==
  ASSUME ContextWellFormed(input.ctx), NEW s, NEW e, SpelledTable(s, e),
         NEW r \in 0 .. MaxHeight - 1, Twins(s, e, r)
  PROVE  Twins(s, e, r + 1)
<1>1. /\ r \in Nat /\ r + 1 \in Nat /\ r < MaxEvalDepth /\ MaxHeight + 1 - (r + 1) = MaxHeight - r
      /\ MaxHeight + 1 - r = (MaxHeight - r) + 1 /\ MaxHeight - r \in Nat \ {0}
  BY ExpressionAssumption, EvalDepthAssumption
<1>2. ASSUME NEW c \in Level(e, MaxHeight - r), Legible(c, r + 1)
      PROVE  Legible(s[r + 1][c], r + 1) /\ Match(c, s[r + 1][c], Value(s[r + 1][c]), Value(c))
  <2> DEFINE part == s[r]
             f == Respelled(c, part)
             parts == {part[x] : x \in Below({c})}
             u == ValuesOf(parts)
             w == ValuesOf(Below({c}))
  <2>1. s[r + 1][c] = f
    BY <1>2 DEF SpelledTable
  <2>2. NodeWellFormed(c) /\ c # NoNode /\ \A x \in Below({c}) : Legible(x, r)
    BY <1>1, <1>2, LegibleIs, LegibleNode
  <2>3. ASSUME NEW x \in Below({c})
        PROVE  Legible(part[x], r) /\ Match(x, part[x], Value(part[x]), Value(x))
    <3>1. x \in Below(Level(e, MaxHeight - r))
      BY <1>2, BelowEach
    <3>2. x \in Level(e, MaxHeight + 1 - r)
      BY <1>1, <3>1, LevelNext
    <3> QED
      BY <2>2, <3>2 DEF Twins
  <2>4. /\ Built(f, parts)
        /\ IF c.op = "var" /\ c.var = "context" THEN f = c ELSE f.op # "var"
    BY <2>2, RespelledBuilt
  <2>5. Legible(f, r + 1) /\ Value(f) = Body(f, input.ctx, u)
    <3>1. \A y \in parts : Legible(y, r)
      BY <2>3
    <3> HIDE DEF f, parts
    <3> QED
      BY <1>1, <2>4, <3>1, ValueBuilt
  <2>6. Value(c) = Body(c, input.ctx, w)
    <3>1. Built(c, Below({c}))
      BY <2>2 DEF Built
    <3> QED
      BY <1>1, <2>2, <3>1, ValueBuilt
  <2>7. ASSUME NEW x \in Below({c}) PROVE Match(x, part[x], u[part[x]], w[x])
    <3>1. u[part[x]] = Value(part[x]) /\ w[x] = Value(x)
      BY DEF ValuesOf
    <3> HIDE DEF part, u, w
    <3> QED
      BY <2>3, <3>1
  <2>8. Alias(input.ctx, Body(f, input.ctx, u), Body(c, input.ctx, w))
    <3> HIDE DEF part, u, w
    <3> QED
      BY <2>2, <2>7, BodyAlias
  <2>9. f # NoNode
    <3> HIDE DEF f
    <3> QED
      BY <1>1, <2>5, LegibleNode
  <2>10. c.op = "var" => Value(c) = Variable(input.ctx, c.var) /\ c.var \in Slot \cup {"context"}
    <3>1. c.op = "var" => Body(c, input.ctx, w) = Variable(input.ctx, c.var)
      BY DEF Body
    <3>2. c.op = "var" => c.var \in Slot \cup {"context"}
      BY <2>2 DEF NodeWellFormed, Slot
    <3> QED
      BY <2>6, <3>1, <3>2
  <2> HIDE DEF f, u, w
  <2>11. Match(c, f, Value(f), Value(c))
    BY <2>2, <2>4, <2>5, <2>6, <2>8, <2>9, <2>10 DEF Match
  <2> QED
    BY <2>1, <2>5, <2>11
<1> QED
  BY <1>1, <1>2 DEF Twins

LEMMA LiteralLaw == ExpressionInv => LiteralIsKeyword
<1> SUFFICES ASSUME ExpressionInv, kind = "expression"
             PROVE  ClearSlot(Value(Spelled(expr))) = ClearSlot(Value(expr))
  BY DEF LiteralIsKeyword
<1>1. ContextWellFormed(input.ctx) /\ Legible(expr, MaxHeight) /\ MaxHeight \in Nat
  BY ExpressionAssumption DEF ExpressionInv
<1>2. PICK e : e = expr
  OBVIOUS
<1>3. PICK s : SpelledTable(s, e) /\ Spelled(e) = s[MaxHeight][e]
  BY SpelledTables
<1> DEFINE T == {r \in 0 .. MaxHeight : Twins(s, e, r)}
<1>4. 0 \in T
  <2>1. 0 \in Nat /\ 0 \in 0 .. MaxHeight
    BY <1>1
  <2>2. \A c : ~Legible(c, 0)
    BY <2>1, LegibleIs
  <2> QED
    BY <2>1, <2>2 DEF Twins
<1>5. ASSUME NEW r \in 0 .. MaxHeight - 1, r \in T PROVE r + 1 \in T
  <2>1. Twins(s, e, r + 1)
    BY <1>1, <1>3, <1>5, TwinsNext
  <2>2. r + 1 \in 0 .. MaxHeight
    BY <1>1
  <2> QED
    BY <2>1, <2>2
<1>6. \A r \in 0 .. MaxHeight : r \in T
  <2> HIDE DEF T
  <2> QED
    BY <1>1, <1>4, <1>5, UpToNumber
<1>7. Twins(s, e, MaxHeight)
  <2>1. MaxHeight \in 0 .. MaxHeight
    BY <1>1
  <2> QED
    BY <1>6, <2>1
<1>8. e \in Level(e, MaxHeight + 1 - MaxHeight)
  <2>1. MaxHeight + 1 - MaxHeight = 1 /\ 1 \in Nat \ {0}
    BY <1>1
  <2> QED
    BY <2>1, LevelNext
<1>9. Alias(input.ctx, Value(s[MaxHeight][e]), Value(e))
  BY <1>1, <1>2, <1>7, <1>8 DEF Twins, Match
<1> QED
  BY <1>1, <1>2, <1>3, <1>9, AliasIs

(***************************************************************************)
(* A literal that names a request entity means what the keyword means, in  *)
(* every expression it is part of, and what passed through a container, an *)
(* attribute or an `if` is no request entity.                              *)
(* (php_cedar_entity_request_slot, php_cedar_clear_entity_slot)            *)
(***************************************************************************)
THEOREM SlotsAreTheNames == EvaluationSpec => []SlotsFollowNames
<1>1. ExpressionInv => SlotsFollowNames
  BY LiteralLaw, SlotsLaw DEF SlotsFollowNames
<1> QED
  BY <1>1, EvaluationInvariant, PTL
=============================================================================
