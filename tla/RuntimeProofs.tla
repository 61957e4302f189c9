--------------------------- MODULE RuntimeProofs ----------------------------
(***************************************************************************)
(* Theorems about the runtime: the array of a pool, for every width of a   *)
(* machine; the pool, for every number of blocks; the ids of stores, for   *)
(* every number of threads and every width of a word; the matching loop of *)
(* `like`, for every alphabet, subject and pattern; and policy stores, for *)
(* any stores, texts, ids and nesting of loads: a store is well-typed, and *)
(* every load that has returned is in it, once and with its own text.      *)
(***************************************************************************)
EXTENDS Pool, StoreIds, LikeMatch, PolicyStore, SequenceLemmas, FiniteSetTheorems

(***************************************************************************)
(* The product that the checks of create and push let through fits a       *)
(* size_t: palloc is asked for as many places as the array counts on.      *)
(***************************************************************************)
LEMMA ProductFits ==
  ASSUME NEW n \in Nat, NEW sz \in Nat \ {0}, n <= SizeMax \div sz
  PROVE  Places(n, sz) = n
<1>1. SizeMax \in Nat
  BY SizeAssumption
<1>2. (SizeMax \div sz) \in Nat /\ (SizeMax \div sz) * sz <= SizeMax
  BY <1>1, SMTT(30)
<1>3. n * sz \in Nat /\ n * sz <= (SizeMax \div sz) * sz
  BY <1>2, SMTT(30)
<1>4. n * sz <= SizeMax
  BY <1>1, <1>2, <1>3
<1>5. Wrapped(n * sz) = n * sz
  BY <1>1, <1>3, <1>4 DEF Wrapped
<1>6. (n * sz) \div sz = n
  BY SMTT(30)
<1> QED
  BY <1>5, <1>6 DEF Places

LEMMA DoubledNumber == nalloc \in Nat => Doubled \in Nat
BY SizeAssumption DEF Doubled, Wrapped

(***************************************************************************)
(* An array always has the places it counts on.                            *)
(***************************************************************************)
THEOREM PlacesExistAlways == ArraySpec => []PlacesExist
<1>1. ArrayInit => PlacesExist
  BY DEF ArrayInit, PlacesExist, NoPlace
<1>2. PlacesExist /\ [ArrayNext]_arrayVars => PlacesExist'
  <2> SUFFICES ASSUME PlacesExist, [ArrayNext]_arrayVars PROVE PlacesExist'
    OBVIOUS
  <2> USE DEF PlacesExist
  <2>1. CASE UNCHANGED arrayVars
    BY <2>1 DEF arrayVars
  <2>2. ASSUME NEW n \in 1 .. SizeMax, NEW sz \in Sizes, Create(n, sz) PROVE PlacesExist'
    <3>1. sz \in Nat \ {0} /\ n \in Nat
      BY SizeAssumption
    <3>2. Places(n, sz) = n
      BY <2>2, <3>1, ProductFits DEF Create
    <3> DEFINE fresh == [k \in 1 .. n |-> Junk]
    <3>3. fresh \in Seq(Element \cup {Junk}) /\ Len(fresh) = n
      BY <3>1
    <3>4. blocks' = Append(blocks, fresh)
      BY <2>2, <3>2 DEF Create
    <3> HIDE DEF fresh
    <3>5. /\ blocks' \in Seq(Seq(Element \cup {Junk})) /\ Len(blocks') = Len(blocks) + 1
          /\ blocks'[Len(blocks) + 1] = fresh
      BY <3>3, <3>4
    <3>6. elts' = Len(blocks) + 1 /\ nelts' = 0 /\ nalloc' = n /\ size' = sz /\ place' = NoPlace
      BY <2>2 DEF Create
    <3>7. n > 0 /\ n <= SizeMax \div sz /\ elts' \in DOMAIN blocks'
      BY <2>2, <3>1, <3>5, <3>6 DEF Create
    <3> QED
      BY <3>1, <3>3, <3>5, <3>6, <3>7
  <2>3. CASE PushInPlace
    BY <2>3 DEF PushInPlace, NoPlace
  <2>4. CASE Grow
    <3>1. size \in Nat \ {0} /\ Doubled \in Nat
      BY <2>4, SizeAssumption, DoubledNumber DEF Grow
    <3>2. Places(Doubled, size) = Doubled
      BY <2>4, <3>1, ProductFits DEF Grow
    <3> DEFINE moved == Moved(Doubled)
    <3>3. moved \in Seq(Element \cup {Junk}) /\ Len(moved) = Doubled
      <4>1. \A k \in 1 .. nelts : blocks[elts][k] \in Element \cup {Junk}
        BY <2>4 DEF Grow
      <4> QED
        BY <3>1, <4>1 DEF Moved
    <3>4. blocks' = Append(blocks, moved)
      BY <2>4, <3>2 DEF Grow
    <3> HIDE DEF moved
    <3>5. /\ blocks' \in Seq(Seq(Element \cup {Junk})) /\ Len(blocks') = Len(blocks) + 1
          /\ blocks'[Len(blocks) + 1] = moved
      BY <3>3, <3>4
    <3> QED
      BY <2>4, <3>1, <3>3, <3>5 DEF Grow, NoPlace
  <2>5. ASSUME NEW v \in Element, Fill(v) PROVE PlacesExist'
    <3>1. place = [block |-> elts, index |-> nelts] /\ elts \in DOMAIN blocks
      BY <2>5 DEF Fill
    <3>2. place.block = elts /\ place.index = nelts
      BY <3>1
    <3> DEFINE filled == [blocks[elts] EXCEPT ![nelts] = v]
    <3>3. blocks' = [blocks EXCEPT ![elts] = filled]
      BY <2>5, <3>2 DEF Fill
    <3>4. blocks[elts] \in Seq(Element \cup {Junk}) /\ nelts \in 1 .. Len(blocks[elts])
      BY <2>5, <3>1 DEF Fill
    <3>5. filled \in Seq(Element \cup {Junk}) /\ Len(filled) = Len(blocks[elts])
      BY <3>4, ExceptSeq
    <3> HIDE DEF filled
    <3>6. /\ blocks' \in Seq(Seq(Element \cup {Junk})) /\ Len(blocks') = Len(blocks)
          /\ Len(blocks'[elts]) = Len(blocks[elts])
      BY <3>1, <3>3, <3>5
    <3> QED
      BY <2>5, <3>1, <3>6 DEF Fill, NoPlace
  <2> QED
    BY <2>1, <2>2, <2>3, <2>4, <2>5 DEF ArrayNext
<1> QED
  BY <1>1, <1>2, PTL DEF ArraySpec

(***************************************************************************)
(* An array is an append-only list to its users, however often it moves.   *)
(***************************************************************************)
THEOREM ArrayImplementsLog == ArraySpec => ArrayIsLog
<1>1. ArrayInit => List!Init
  <2> SUFFICES ASSUME ArrayInit PROVE Contents = <<>>
    BY DEF List!Init
  <2> QED
    BY DEF ArrayInit, Contents
<1>2. PlacesExist /\ PlacesExist' /\ [ArrayNext]_arrayVars => [List!Extend]_Contents
  <2> SUFFICES ASSUME PlacesExist, PlacesExist', [ArrayNext]_arrayVars
               PROVE  List!Extend \/ Contents' = Contents
    OBVIOUS
  <2>1. CASE UNCHANGED arrayVars
    BY <2>1 DEF arrayVars, Contents
  <2>2. ASSUME NEW n \in 1 .. SizeMax, NEW sz \in Sizes, Create(n, sz) PROVE Contents' = Contents
    <3>1. nelts = 0 /\ place = NoPlace
      BY <2>2 DEF Create, PlacesExist, NoPlace
    <3>2. nelts' = 0 /\ place' = NoPlace
      BY <2>2, <3>1 DEF Create
    <3> QED
      BY <3>1, <3>2 DEF Contents
  <2>3. CASE PushInPlace
    BY <2>3 DEF PushInPlace, Contents, PlacesExist, NoPlace
  <2>4. CASE Grow
    <3>1. size \in Nat \ {0} /\ Doubled \in Nat /\ Doubled > nelts /\ nelts \in Nat
      BY <2>4, SizeAssumption, DoubledNumber DEF Grow, PlacesExist
    <3>2. Places(Doubled, size) = Doubled
      BY <2>4, <3>1, ProductFits DEF Grow
    <3>3. /\ blocks' = Append(blocks, Moved(Doubled)) /\ elts' = Len(blocks) + 1
          /\ nelts' = nelts + 1 /\ place = NoPlace
          /\ place' = [block |-> Len(blocks) + 1, index |-> nelts + 1]
      BY <2>4, <3>2 DEF Grow
    <3>4. blocks'[elts'] = Moved(Doubled)
      BY <3>3 DEF PlacesExist
    <3>5. \A k \in 1 .. nelts : blocks'[elts'][k] = blocks[elts][k]
      BY <3>1, <3>4 DEF Moved
    <3>6. place' # NoPlace
      BY <3>3 DEF PlacesExist, NoPlace
    <3> QED
      BY <3>1, <3>3, <3>5, <3>6 DEF Contents
  <2>5. ASSUME NEW v \in Element, Fill(v) PROVE Contents' = Append(Contents, v)
    <3>1. place = [block |-> elts, index |-> nelts] /\ elts \in DOMAIN blocks /\ nelts \in Nat \ {0}
      BY <2>5 DEF Fill, PlacesExist
    <3>2. place.block = elts /\ place.index = nelts /\ place # NoPlace
      BY <2>5, <3>1 DEF Fill
    <3>3. /\ blocks'[elts] = [blocks[elts] EXCEPT ![nelts] = v]
          /\ elts' = elts /\ nelts' = nelts /\ place' = NoPlace
      BY <2>5, <3>1, <3>2 DEF Fill, PlacesExist
    <3>4. nelts \in DOMAIN blocks[elts] /\ blocks[elts] \in Seq(Element \cup {Junk})
      BY <2>5, <3>1, <3>2 DEF Fill, PlacesExist
    <3>5. \A k \in 1 .. nelts : blocks'[elts'][k] = IF k = nelts THEN v ELSE blocks[elts][k]
      BY <3>3, <3>4
    <3>6. Contents = [k \in 1 .. nelts - 1 |-> blocks[elts][k]] /\ Contents' = [k \in 1 .. nelts |-> blocks'[elts'][k]]
      BY <3>2, <3>3 DEF Contents
    <3>7. \A k \in 1 .. nelts - 1 : blocks[elts][k] \in Element \cup {Junk}
      BY <2>5, <3>1, <3>2, <3>4 DEF PlacesExist
    <3>8. Contents \in Seq(Element \cup {Junk}) /\ Len(Contents) = nelts - 1
      BY <3>1, <3>6, <3>7
    <3> QED
      BY <3>1, <3>5, <3>6, <3>8
  <2> QED
    BY <2>1, <2>2, <2>3, <2>4, <2>5 DEF ArrayNext, List!Extend
<1> QED
  BY <1>1, <1>2, PlacesExistAlways, PTL DEF ArraySpec, ArrayIsLog, List!Spec
-----------------------------------------------------------------------------
(***************************************************************************)
(* The list of chunks as it was built, the oldest first: where it starts,  *)
(* how it is linked, and that its blocks are all different.                *)
(***************************************************************************)
FirstChunk == IF call = "destroy" THEN chunk ELSE chunks

Linked(n, f, b) ==
  /\ b = IF n = 0 THEN NULL ELSE f[n]
  /\ \A i \in 1 .. n : next[f[i]] = IF i = 1 THEN NULL ELSE f[i - 1]
  /\ \A i, j \in 1 .. n : f[i] = f[j] => i = j

Disjoint(n, f) ==
  /\ \A i \in 1 .. n : data[f[i]] \in Block
  /\ \A i, j \in 1 .. n : data[f[i]] = data[f[j]] => i = j
  /\ \A i, j \in 1 .. n : data[f[i]] # f[j]
  /\ \A i \in 1 .. n : pool # f[i] /\ pool # data[f[i]]
  /\ call = "palloc" => /\ chunk \in Block /\ chunk # pool
                        /\ \A i \in 1 .. n : chunk # f[i] /\ chunk # data[f[i]]

Lists(n, f) ==
  /\ Linked(n, f, FirstChunk)
  /\ Disjoint(n, f)
  /\ live = ({pool} \ {NULL}) \cup {f[i] : i \in 1 .. n} \cup {data[f[i]] : i \in 1 .. n}
              \cup IF call = "palloc" THEN {chunk} ELSE {}
  /\ handed \subseteq {data[f[i]] : i \in 1 .. n}
  /\ call = "destroy" => handed = {}
  /\ pool = NULL => n = 0 /\ call = "idle"

PoolTypes ==
  /\ live \subseteq Block /\ pool \in Address
  /\ next \in [Block -> Address] /\ data \in [Block -> Address]
  /\ call \in {"idle", "palloc", "destroy"}

PoolInv == PoolTypes /\ \E n \in Nat : \E f \in [1 .. n -> Block] : Lists(n, f)

LEMMA ListFits ==
  ASSUME NEW n \in Nat, NEW f \in [1 .. n -> Block],
         \A i, j \in 1 .. n : f[i] = f[j] => i = j
  PROVE  Cardinality(Block) \in Nat /\ n <= Cardinality(Block)
<1>1. f \in Injection(1 .. n, Block)
  BY DEF Injection, IsInjective
<1>2. IsFiniteSet(Block)
  BY BlockAssumption
<1>3. Cardinality(1 .. n) <= Cardinality(Block)
  BY <1>1, <1>2, FS_Injection
<1>4. Cardinality(1 .. n) = n
  <2>1. Cardinality(1 .. n) = IF 1 > n THEN 0 ELSE n - 1 + 1
    BY FS_Interval
  <2> QED
    BY <2>1
<1> QED
  BY <1>2, <1>3, <1>4, FS_CardinalityType

LEMMA ChainOfList ==
  ASSUME NEW n \in Nat, NEW f \in [1 .. n -> Block], NEW b, Linked(n, f, b),
         next \in [Block -> Address]
  PROVE  Chain(b) = {f[i] : i \in 1 .. n}
<1> DEFINE N == Cardinality(Block)
           Follow(g) == g = [k \in 0 .. N |->
                               IF k = 0 THEN b
                               ELSE IF g[k - 1] = NULL THEN NULL ELSE next[g[k - 1]]]
           at == CHOOSE g : Follow(g)
           onward == [k \in 0 .. N - 1 |-> [a \in Address |-> IF a = NULL THEN NULL ELSE next[a]]]
<1>1. N \in Nat /\ n <= N
  BY ListFits DEF Linked
<1>2. Chain(b) = {at[k] : k \in 0 .. N} \ {NULL}
  BY DEF Chain
<1> HIDE DEF N
<1>3. b \in Address /\ NULL \in Address
  BY DEF Linked, Address
<1>4. PICK h : Stepwise(h, N, Address, b, onward)
  <2>1. onward \in Steps(N, Address)
    BY <1>3 DEF Steps, Address
  <2> HIDE DEF onward
  <2> QED
    BY <1>1, <1>3, <2>1, Recursion
<1>5. /\ h \in [0 .. N -> Address] /\ h[0] = b
      /\ \A k \in 0 .. N - 1 : h[k + 1] = IF h[k] = NULL THEN NULL ELSE next[h[k]]
  <2>1. /\ h \in [0 .. N -> Address] /\ h[0] = b
        /\ \A k \in 0 .. N - 1 : h[k + 1] = onward[k][h[k]]
    BY <1>4 DEF Stepwise
  <2>2. ASSUME NEW k \in 0 .. N - 1
        PROVE  h[k + 1] = IF h[k] = NULL THEN NULL ELSE next[h[k]]
    <3>1. h[k] \in Address
      BY <1>1, <2>1
    <3>2. onward[k][h[k]] = IF h[k] = NULL THEN NULL ELSE next[h[k]]
      BY <3>1
    <3> QED
      BY <2>1, <3>2
  <2> QED
    BY <2>1, <2>2
<1>6. Follow(h)
  <2>1. ASSUME NEW k \in 0 .. N, k # 0
        PROVE  h[k] = IF h[k - 1] = NULL THEN NULL ELSE next[h[k - 1]]
    <3>1. k - 1 \in 0 .. N - 1 /\ (k - 1) + 1 = k
      BY <1>1, <2>1
    <3> QED
      BY <1>5, <3>1
  <2> QED
    BY <1>5, <2>1
<1>7. Follow(at)
  <2> HIDE DEF Follow
  <2> QED
    BY <1>6
<1> HIDE DEF at
<1>8. at[0] = b /\ \A k \in 0 .. N - 1 : at[k + 1] = IF at[k] = NULL THEN NULL ELSE next[at[k]]
  <2>1. at[0] = b
    BY <1>1, <1>7
  <2>2. ASSUME NEW k \in 0 .. N - 1 PROVE at[k + 1] = IF at[k] = NULL THEN NULL ELSE next[at[k]]
    <3>1. k + 1 \in 0 .. N /\ k + 1 # 0 /\ (k + 1) - 1 = k
      BY <1>1
    <3> QED
      BY <1>7, <3>1
  <2> QED
    BY <2>1, <2>2
<1> DEFINE T == {k \in 0 .. N : at[k] = IF k < n THEN f[n - k] ELSE NULL}
<1>9. 0 \in T
  BY <1>1, <1>8 DEF Linked
<1>10. ASSUME NEW k \in 0 .. N - 1, k \in T PROVE k + 1 \in T
  <2>1. at[k + 1] = IF at[k] = NULL THEN NULL ELSE next[at[k]]
    BY <1>8
  <2>2. k + 1 \in 0 .. N
    BY <1>1
  <2>3. CASE k < n
    <3>1. n - k \in 1 .. n /\ at[k] = f[n - k] /\ f[n - k] # NULL
      BY <1>10, <2>3, BlockAssumption
    <3>2. at[k + 1] = IF n - k = 1 THEN NULL ELSE f[(n - k) - 1]
      BY <2>1, <3>1 DEF Linked
    <3>3. (n - k) - 1 = n - (k + 1) /\ (n - k = 1 <=> ~(k + 1 < n))
      BY <1>1, <2>3
    <3> QED
      BY <2>2, <3>2, <3>3
  <2>4. CASE ~(k < n)
    <3>1. at[k] = NULL /\ ~(k + 1 < n)
      BY <1>1, <1>10, <2>4
    <3> QED
      BY <2>1, <2>2, <3>1
  <2> QED
    BY <2>3, <2>4
<1>11. \A k \in 0 .. N : at[k] = IF k < n THEN f[n - k] ELSE NULL
  <2>1. \A k \in 0 .. N : k \in T
    <3> HIDE DEF T
    <3> QED
      BY <1>1, <1>9, <1>10, UpToNumber
  <2> QED
    BY <2>1
<1>12. ASSUME NEW k \in 0 .. N, at[k] # NULL PROVE at[k] \in {f[i] : i \in 1 .. n}
  <2>1. k < n /\ n - k \in 1 .. n /\ at[k] = f[n - k]
    BY <1>1, <1>11, <1>12
  <2> QED
    BY <2>1
<1>13. ASSUME NEW i \in 1 .. n PROVE f[i] \in {at[k] : k \in 0 .. N} \ {NULL}
  <2>1. n - i \in 0 .. N /\ n - i < n /\ n - (n - i) = i
    BY <1>1
  <2>2. at[n - i] = f[i]
    BY <1>11, <2>1
  <2> QED
    BY <2>1, <2>2, BlockAssumption
<1> QED
  BY <1>2, <1>12, <1>13

LEMMA PoolStart == PoolInit => PoolInv
<1> SUFFICES ASSUME PoolInit PROVE PoolInv
  OBVIOUS
<1>1. PoolTypes
  BY DEF PoolInit, PoolTypes, Address
<1> DEFINE f == [i \in 1 .. 0 |-> NULL]
<1>2. 0 \in Nat /\ f \in [1 .. 0 -> Block] /\ 1 .. 0 = {}
  OBVIOUS
<1> HIDE DEF f
<1>3. Lists(0, f)
  BY <1>2 DEF PoolInit, Lists, Linked, Disjoint, FirstChunk
<1> QED
  BY <1>1, <1>2, <1>3 DEF PoolInv

LEMMA PoolStep == PoolInv /\ [PoolNext]_poolVars => PoolInv'
<1> SUFFICES ASSUME PoolInv, [PoolNext]_poolVars PROVE PoolInv'
  OBVIOUS
<1>1. PICK n \in Nat : \E f \in [1 .. n -> Block] : Lists(n, f)
  BY DEF PoolInv
<1>2. PICK f \in [1 .. n -> Block] : Lists(n, f)
  BY <1>1
<1>3. PoolTypes
  BY DEF PoolInv
<1>4. NULL \notin Block
  BY BlockAssumption
<1>5. SUFFICES PoolTypes' /\ \E m \in Nat : \E g \in [1 .. m -> Block] : Lists(m, g)'
  BY DEF PoolInv
<1>6. CASE UNCHANGED poolVars
  <2>1. PoolTypes'
    BY <1>3, <1>6 DEF PoolTypes, poolVars
  <2>2. Lists(n, f)'
    BY <1>2, <1>6 DEF Lists, Linked, Disjoint, FirstChunk, poolVars
  <2> QED
    BY <2>1, <2>2
<1>7. ASSUME NEW b \in Block, CreatePool(b)
      PROVE  PoolTypes' /\ n = 0 /\ Lists(0, f)'
  <2>1. n = 0
    BY <1>2, <1>7 DEF Lists, CreatePool
  <2>2. PoolTypes'
    BY <1>3, <1>7 DEF PoolTypes, CreatePool, Address
  <2>3. Lists(0, f)'
    BY <1>2, <1>4, <1>7, <2>1 DEF CreatePool, Lists, Linked, Disjoint, FirstChunk
  <2> QED
    BY <2>1, <2>2, <2>3
<1>8. ASSUME NEW b \in Block, TakeChunk(b)
      PROVE  PoolTypes' /\ Lists(n, f)'
  <2>1. b \notin live
    BY <1>8 DEF TakeChunk, Free
  <2>2. PoolTypes'
    BY <1>3, <1>8 DEF PoolTypes, TakeChunk
  <2>3. pool \in live
    BY <1>2, <1>8 DEF TakeChunk, Lists
  <2>4. Disjoint(n, f)'
    BY <1>2, <1>8, <2>1, <2>3 DEF TakeChunk, Lists, Disjoint
  <2>5. Lists(n, f)'
    BY <1>2, <1>8, <2>4 DEF TakeChunk, Lists, Linked, FirstChunk
  <2> QED
    BY <2>2, <2>5
<1>9. ASSUME NEW b \in Block, TakePiece(b)
      PROVE  PoolTypes' /\ \E g \in [1 .. n + 1 -> Block] : Lists(n + 1, g)'
  <2>1. b \notin live /\ call = "palloc"
    BY <1>9 DEF TakePiece, Free
  <2>2. /\ chunk \in Block /\ chunk # pool /\ pool # NULL
        /\ \A i \in 1 .. n : chunk # f[i] /\ chunk # data[f[i]]
    BY <1>2, <2>1 DEF Lists, Disjoint
  <2>3. /\ b # pool /\ b # chunk
        /\ \A i \in 1 .. n : b # f[i] /\ b # data[f[i]]
    BY <1>2, <2>1, <2>2 DEF Lists
  <2>4. PICK m \in Nat : m = n + 1
    OBVIOUS
  <2>5. PICK g : g = [i \in 1 .. m |-> IF i = m THEN chunk ELSE f[i]]
    OBVIOUS
  <2>6. /\ 1 .. m = (1 .. n) \cup {m} /\ m \notin 1 .. n
        /\ g \in [1 .. m -> Block]
        /\ g[m] = chunk /\ \A i \in 1 .. n : g[i] = f[i]
    BY <2>4, <2>5, <2>2
  <2>7. /\ call' = "idle" /\ chunks' = chunk /\ pool' = pool
        /\ live' = live \cup {b} /\ handed' = handed \cup {b}
        /\ data'[chunk] = b /\ next'[chunk] = chunks
        /\ \A c \in Block : c # chunk => data'[c] = data[c] /\ next'[c] = next[c]
    BY <1>3, <1>9, <2>2 DEF TakePiece, PoolTypes
  <2>8. PoolTypes'
    <3>1. chunks \in Address
      BY <1>2, <2>1 DEF Lists, Linked, FirstChunk, Address
    <3> QED
      BY <1>3, <1>9, <3>1, <2>2 DEF PoolTypes, TakePiece, Address
  <2>9. \A i \in 1 .. n : /\ f[i] \in Block /\ g[i] = f[i]
                          /\ data'[g[i]] = data[f[i]] /\ next'[g[i]] = next[f[i]]
    BY <2>2, <2>6, <2>7
  <2>10. data'[g[m]] = b /\ next'[g[m]] = chunks
    BY <2>6, <2>7
  <2>11. Linked(m, g, FirstChunk)'
    <3>1. FirstChunk' = g[m] /\ m # 0
      BY <2>4, <2>6, <2>7 DEF FirstChunk
    <3>2. chunks = IF n = 0 THEN NULL ELSE f[n]
      BY <1>2, <2>1 DEF Lists, Linked, FirstChunk
    <3>3. next'[g[m]] = IF m = 1 THEN NULL ELSE g[m - 1]
      <4>1. CASE n = 0
        BY <2>4, <2>10, <3>2, <4>1
      <4>2. CASE n # 0
        <5>1. m - 1 = n /\ n \in 1 .. n /\ m # 1
          BY <2>4, <4>2
        <5> QED
          BY <2>6, <2>10, <3>2, <4>2, <5>1
      <4> QED
        BY <4>1, <4>2
    <3>4. ASSUME NEW i \in 1 .. n PROVE next'[g[i]] = IF i = 1 THEN NULL ELSE g[i - 1]
      <4>1. next'[g[i]] = IF i = 1 THEN NULL ELSE f[i - 1]
        BY <1>2, <2>9 DEF Lists, Linked
      <4>2. i # 1 => i - 1 \in 1 .. n
        OBVIOUS
      <4> QED
        BY <2>6, <4>1, <4>2
    <3>5. \A i, j \in 1 .. m : g[i] = g[j] => i = j
      BY <1>2, <2>2, <2>6 DEF Lists, Linked
    <3>6. \A i \in 1 .. m : next'[g[i]] = IF i = 1 THEN NULL ELSE g[i - 1]
      BY <2>6, <3>3, <3>4
    <3> QED
      BY <3>1, <3>5, <3>6 DEF Linked
  <2>12. Disjoint(m, g)'
    <3>1. Disjoint(n, f)
      BY <1>2 DEF Lists
    <3>2. \A i \in 1 .. m : data'[g[i]] \in Block
      BY <2>6, <2>9, <2>10, <3>1 DEF Disjoint
    <3>3. \A i, j \in 1 .. m : data'[g[i]] = data'[g[j]] => i = j
      <4>1. \A i, j \in 1 .. n : data'[g[i]] = data'[g[j]] => i = j
        BY <2>9, <3>1 DEF Disjoint
      <4>2. \A i \in 1 .. n : data'[g[i]] # data'[g[m]]
        BY <2>3, <2>9, <2>10
      <4> QED
        BY <2>6, <4>1, <4>2
    <3>4. ASSUME NEW i \in 1 .. m, NEW j \in 1 .. m PROVE data'[g[i]] # g[j]
      <4>1. CASE i = m
        BY <2>3, <2>6, <2>10, <4>1
      <4>2. CASE i # m
        <5>1. i \in 1 .. n /\ data'[g[i]] = data[f[i]]
          BY <2>6, <2>9, <4>2
        <5>2. data[f[i]] # chunk /\ \A k \in 1 .. n : data[f[i]] # f[k]
          BY <2>2, <3>1, <5>1 DEF Disjoint
        <5> QED
          BY <2>6, <5>1, <5>2
      <4> QED
        BY <4>1, <4>2
    <3>5. \A i \in 1 .. m : pool' # g[i] /\ pool' # data'[g[i]]
      BY <2>2, <2>3, <2>6, <2>7, <2>9, <2>10, <3>1 DEF Disjoint
    <3> QED
      BY <2>7, <3>2, <3>3, <3>4, <3>5 DEF Disjoint
  <2>13. {g[i] : i \in 1 .. m} = {f[i] : i \in 1 .. n} \cup {chunk}
    BY <2>6, SMTT(30)
  <2>14. {data'[g[i]] : i \in 1 .. m} = {data[f[i]] : i \in 1 .. n} \cup {b}
    BY <2>6, <2>9, <2>10
  <2>15. Lists(m, g)'
    <3>1. live = ({pool} \ {NULL}) \cup {f[i] : i \in 1 .. n} \cup {data[f[i]] : i \in 1 .. n} \cup {chunk}
      BY <1>2, <2>1 DEF Lists
    <3>2. live' = ({pool'} \ {NULL}) \cup {g[i] : i \in 1 .. m} \cup {data'[g[i]] : i \in 1 .. m}
      BY <2>7, <2>13, <2>14, <3>1
    <3>3. handed' \subseteq {data'[g[i]] : i \in 1 .. m}
      BY <1>2, <2>7, <2>14 DEF Lists
    <3> QED
      BY <2>2, <2>7, <2>11, <2>12, <3>2, <3>3 DEF Lists
  <2> QED
    BY <2>4, <2>6, <2>8, <2>15
<1>10. ASSUME NoPiece PROVE PoolTypes' /\ Lists(n, f)'
  <2>1. PoolTypes'
    BY <1>3, <1>10 DEF PoolTypes, NoPiece
  <2>2. /\ chunk \in Block /\ chunk # pool /\ pool # NULL
        /\ \A i \in 1 .. n : chunk # f[i] /\ chunk # data[f[i]]
    BY <1>2, <1>10 DEF Lists, Disjoint, NoPiece
  <2>3. live' = ({pool} \ {NULL}) \cup {f[i] : i \in 1 .. n} \cup {data[f[i]] : i \in 1 .. n}
    BY <1>2, <1>10, <2>2 DEF Lists, NoPiece
  <2>4. Disjoint(n, f)'
    BY <1>2, <1>10 DEF NoPiece, Lists, Disjoint
  <2>5. Lists(n, f)'
    BY <1>2, <1>10, <2>2, <2>3, <2>4 DEF NoPiece, Lists, Linked, FirstChunk
  <2> QED
    BY <2>1, <2>5
<1>11. ASSUME Destroy PROVE PoolTypes' /\ Lists(n, f)'
  <2>1. PoolTypes'
    BY <1>3, <1>11 DEF PoolTypes, Destroy
  <2>2. Disjoint(n, f)'
    BY <1>2, <1>11 DEF Destroy, Lists, Disjoint
  <2>3. Lists(n, f)'
    BY <1>2, <1>11, <2>2 DEF Destroy, Lists, Linked, FirstChunk
  <2> QED
    BY <2>1, <2>3
<1>12. ASSUME FreePool PROVE PoolTypes' /\ n = 0 /\ Lists(0, f)'
  <2>1. n = 0
    BY <1>2, <1>4, <1>12 DEF FreePool, Lists, Linked, FirstChunk
  <2>2. PoolTypes'
    BY <1>3, <1>12 DEF PoolTypes, FreePool, Address
  <2>3. live' = {}
    BY <1>2, <1>12, <2>1 DEF FreePool, Lists
  <2>4. handed' = {}
    BY <1>2, <1>12, <2>1 DEF FreePool, Lists
  <2>5. pool' = NULL /\ chunks' = NULL /\ call' = "idle" /\ next' = next /\ data' = data
    BY <1>12 DEF FreePool
  <2>6. 1 .. 0 = {}
    OBVIOUS
  <2>7. Lists(0, f)'
    BY <2>3, <2>4, <2>5, <2>6 DEF Lists, Linked, Disjoint, FirstChunk
  <2> QED
    BY <2>1, <2>2, <2>7
<1>13. ASSUME FreeChunk
       PROVE  PoolTypes' /\ \E m \in Nat : \E g \in [1 .. m -> Block] : Lists(m, g)'
  <2>1. n # 0 /\ chunk = f[n] /\ call = "destroy"
    BY <1>2, <1>13 DEF FreeChunk, Lists, Linked, FirstChunk
  <2>2. PICK m \in Nat : m = n - 1
    BY <2>1
  <2>3. PICK g : g = [i \in 1 .. m |-> f[i]]
    OBVIOUS
  <2>4. /\ n \in 1 .. n /\ 1 .. n = (1 .. m) \cup {n} /\ n \notin 1 .. m
        /\ g \in [1 .. m -> Block] /\ \A i \in 1 .. m : g[i] = f[i]
    BY <2>1, <2>2, <2>3
  <2>5. Linked(n, f, FirstChunk) /\ Disjoint(n, f) /\ pool # NULL
    BY <1>2, <2>1 DEF Lists
  <2>6. /\ chunk \in Block /\ data[chunk] \in Block
        /\ call' = call /\ pool' = pool /\ handed' = handed
        /\ live' = live \ {data[chunk], chunk}
        /\ chunk' = next[chunk]
        /\ \A c \in Block : c # chunk => data'[c] = data[c] /\ next'[c] = next[c]
    BY <1>3, <1>13, <2>1, <2>4, <2>5 DEF FreeChunk, PoolTypes, Disjoint
  <2>7. PoolTypes'
    BY <1>3, <1>13 DEF PoolTypes, FreeChunk, Address
  <2>8. \A i \in 1 .. m : /\ f[i] \in Block /\ f[i] # chunk /\ i \in 1 .. n
    BY <2>1, <2>4, <2>5 DEF Linked
  <2>9. \A i \in 1 .. m : g[i] = f[i] /\ data'[g[i]] = data[f[i]] /\ next'[g[i]] = next[f[i]]
    BY <2>4, <2>6, <2>8
  <2>10. Linked(m, g, FirstChunk)'
    <3>1. FirstChunk' = next[f[n]]
      BY <2>1, <2>6 DEF FirstChunk
    <3>2. next[f[n]] = IF n = 1 THEN NULL ELSE f[n - 1]
      BY <2>4, <2>5 DEF Linked
    <3>3. (n # 1 <=> m # 0) /\ n - 1 = m /\ (m # 0 => m \in 1 .. m)
      BY <2>1, <2>2
    <3>4. FirstChunk' = IF m = 0 THEN NULL ELSE g[m]
      BY <2>4, <3>1, <3>2, <3>3
    <3>5. ASSUME NEW i \in 1 .. m PROVE next'[g[i]] = IF i = 1 THEN NULL ELSE g[i - 1]
      <4>1. next'[g[i]] = IF i = 1 THEN NULL ELSE f[i - 1]
        BY <2>5, <2>8, <2>9 DEF Linked
      <4>2. i # 1 => i - 1 \in 1 .. m
        OBVIOUS
      <4> QED
        BY <2>4, <4>1, <4>2
    <3>6. \A i, j \in 1 .. m : g[i] = g[j] => i = j
      BY <2>4, <2>5 DEF Linked
    <3> QED
      BY <3>4, <3>5, <3>6 DEF Linked
  <2>11. Disjoint(m, g)'
    <3>1. \A i \in 1 .. m : /\ data'[g[i]] \in Block
                            /\ pool' # g[i] /\ pool' # data'[g[i]]
      BY <2>5, <2>6, <2>8, <2>9 DEF Disjoint
    <3>2. \A i, j \in 1 .. m : /\ data'[g[i]] = data'[g[j]] => i = j
                               /\ data'[g[i]] # g[j]
      BY <2>5, <2>8, <2>9 DEF Disjoint
    <3> QED
      BY <2>1, <2>6, <3>1, <3>2 DEF Disjoint
  <2>12. {g[i] : i \in 1 .. m} = {f[i] : i \in 1 .. n} \ {chunk}
    BY <2>1, <2>4, <2>8
  <2>13. \A i \in 1 .. m : data[f[i]] # data[chunk] /\ data[f[i]] # chunk
    BY <2>1, <2>4, <2>5, <2>8 DEF Disjoint
  <2>14. {data'[g[i]] : i \in 1 .. m} = {data[f[i]] : i \in 1 .. n} \ {data[chunk]}
    BY <2>1, <2>4, <2>9, <2>13
  <2>15. Lists(m, g)'
    <3>1. live = {pool} \cup {f[i] : i \in 1 .. n} \cup {data[f[i]] : i \in 1 .. n}
      BY <1>2, <2>1, <2>5 DEF Lists
    <3>2. pool # chunk /\ pool # data[chunk] /\ data[chunk] # chunk
      BY <2>1, <2>4, <2>5 DEF Disjoint
    <3>3. \A i \in 1 .. n : f[i] # data[chunk] /\ data[f[i]] # chunk
      BY <2>1, <2>4, <2>5 DEF Disjoint
    <3>4. live' = {pool} \cup ({f[i] : i \in 1 .. n} \ {chunk})
                    \cup ({data[f[i]] : i \in 1 .. n} \ {data[chunk]})
      BY <2>6, <3>1, <3>2, <3>3
    <3>5. live' = ({pool'} \ {NULL}) \cup {g[i] : i \in 1 .. m} \cup {data'[g[i]] : i \in 1 .. m}
      BY <2>5, <2>6, <2>12, <2>14, <3>4
    <3>6. handed' = {}
      BY <1>2, <2>1, <2>6 DEF Lists
    <3> QED
      BY <2>1, <2>5, <2>6, <2>10, <2>11, <3>5, <3>6 DEF Lists
  <2> QED
    BY <2>4, <2>7, <2>15
<1>14. 1 .. 0 = {} /\ 0 \in Nat /\ n + 1 \in Nat
  OBVIOUS
<1> QED
  BY <1>6, <1>7, <1>8, <1>9, <1>10, <1>11, <1>12, <1>13, <1>14 DEF PoolNext

(***************************************************************************)
(* What the list says of the blocks in use.                                *)
(***************************************************************************)
LEMMA ListCounts ==
  ASSUME NEW n \in Nat, NEW f \in [1 .. n -> Block], Lists(n, f), PoolTypes
  PROVE  NoBlockAstray
<1> DEFINE C == {f[i] : i \in 1 .. n}
           D == {data[f[i]] : i \in 1 .. n}
           P == {pool} \ {NULL}
           Q == IF call = "palloc" THEN {chunk} ELSE {}
<1>1. Chunks = C
  <2>1. Chain(FirstChunk) = C
    BY ChainOfList DEF Lists, PoolTypes
  <2> QED
    BY <2>1 DEF Chunks, FirstChunk
<1>2. {data[b] : b \in Chunks} = D
  BY <1>1
<1>3. live = P \cup C \cup D \cup Q
  BY DEF Lists
<1>4. IsFiniteSet(C) /\ Cardinality(C) = n
  <2> DEFINE h == [i \in 1 .. n |-> f[i]]
  <2>1. h \in Bijection(1 .. n, C)
    BY DEF Lists, Linked, Bijection, Injection, Surjection, IsInjective
  <2>2. ExistsBijection(1 .. n, C)
    BY <2>1 DEF ExistsBijection
  <2> HIDE DEF C
  <2> QED
    BY <2>2, FS_CountingElements, FS_NatBijection
<1>5. IsFiniteSet(D) /\ Cardinality(D) = n
  <2> DEFINE h == [i \in 1 .. n |-> data[f[i]]]
  <2>1. h \in Bijection(1 .. n, D)
    BY DEF Lists, Disjoint, Bijection, Injection, Surjection, IsInjective
  <2>2. ExistsBijection(1 .. n, D)
    BY <2>1 DEF ExistsBijection
  <2> HIDE DEF D
  <2> QED
    BY <2>2, FS_CountingElements, FS_NatBijection
<1>6. C \cap D = {}
  BY DEF Lists, Disjoint
<1>7. /\ pool \notin C \cup D
      /\ call = "palloc" => chunk \notin P \cup C \cup D
  BY DEF Lists, Disjoint
<1>8. HandedStay
  BY <1>2, <1>3 DEF Lists, HandedStay
<1>9. live = Owned
  BY <1>1, <1>2, <1>3 DEF Owned
<1> HIDE DEF C, D
<1>10. /\ IsFiniteSet(C \cup D) /\ Cardinality(C \cup D) = n + n
  <2>1. Cardinality({}) = 0
    BY FS_EmptySet
  <2> QED
    BY <1>4, <1>5, <1>6, <2>1, FS_Union
<1>11. /\ IsFiniteSet(C \cup D \cup P)
       /\ Cardinality(C \cup D \cup P) = n + n + IF pool = NULL THEN 0 ELSE 1
  <2>1. CASE pool = NULL
    <3>1. C \cup D \cup P = C \cup D
      BY <2>1
    <3> HIDE DEF P
    <3>2. Cardinality(C \cup D) = n + n + 0
      BY <1>10
    <3> QED
      BY <1>10, <2>1, <3>1, <3>2
  <2>2. CASE pool # NULL
    <3>1. P = {pool}
      BY <2>2
    <3> QED
      BY <1>7, <1>10, <2>2, <3>1, FS_AddElement
  <2> QED
    BY <2>1, <2>2
<1>12. Cardinality(C \cup D \cup P \cup Q)
         = n + n + (IF pool = NULL THEN 0 ELSE 1) + IF call = "palloc" THEN 1 ELSE 0
  <2>1. CASE call # "palloc"
    <3>1. C \cup D \cup P \cup Q = C \cup D \cup P
      BY <2>1
    <3> QED
      BY <1>11, <2>1, <3>1
  <2>2. CASE call = "palloc"
    <3>1. Q = {chunk} /\ chunk \notin C \cup D \cup P
      BY <1>7, <2>2
    <3> QED
      BY <1>11, <2>2, <3>1, FS_AddElement
  <2> QED
    BY <2>1, <2>2
<1>13. live = C \cup D \cup P \cup Q
  BY <1>3
<1>14. LiveIsOwned
  BY <1>1, <1>4, <1>9, <1>12, <1>13 DEF LiveIsOwned
<1> QED
  BY <1>8, <1>14 DEF NoBlockAstray

(***************************************************************************)
(* Whatever malloc refuses, and wherever: what the pool has is what malloc *)
(* gave and free has not had, and the pieces of the callers are in it, for *)
(* every number of blocks.  The list of chunks is a list in the invariant. *)
(***************************************************************************)
THEOREM BlocksNeverAstray == PoolSpec => []NoBlockAstray
<1>1. PoolInv => NoBlockAstray
  BY ListCounts DEF PoolInv
<1> QED
  BY PoolStart, PoolStep, <1>1, PTL DEF PoolSpec
-----------------------------------------------------------------------------
LEMMA Widths ==
  /\ Base \in Nat \ {0, 1} /\ WordBytes \in Nat \ {0} /\ MaxIds \in Nat \ {0}
  /\ ByteValues \in Nat \ {0, 1} /\ ByteValues = Base * Base
<1>1. Base \in Nat \ {0, 1} /\ WordBytes \in Nat \ {0} /\ MaxIds \in Nat \ {0}
  BY IdAssumption
<1> HIDE DEF Base
<1>2. ByteValues \in Nat \ {0, 1}
  BY <1>1 DEF ByteValues
<1> QED
  BY <1>1, <1>2 DEF ByteValues

(***************************************************************************)
(* Worth is the powers of ByteValues.                                      *)
(***************************************************************************)
LEMMA WorthSteps ==
  /\ Worth \in [0 .. WordBytes -> Nat \ {0}] /\ Worth[0] = 1
  /\ \A i \in 1 .. WordBytes : Worth[i] = ByteValues * Worth[i - 1]
  /\ Word \in Nat \ {0}
<1> DEFINE N == WordBytes
           P == Nat \ {0}
           one == 1
           Is(w) == w = [i \in 0 .. N |-> IF i = 0 THEN 1 ELSE ByteValues * w[i - 1]]
           onward == [k \in 0 .. N - 1 |-> [x \in P |-> ByteValues * x]]
<1>1. N \in Nat \ {0} /\ ByteValues \in Nat \ {0, 1} /\ one \in P
  BY Widths
<1> HIDE DEF N, ByteValues
<1>2. PICK h : Stepwise(h, N, P, one, onward)
  <2>1. onward \in Steps(N, P)
    <3>1. \A x \in P : ByteValues * x \in P
      BY <1>1
    <3> QED
      BY <3>1 DEF Steps
  <2> HIDE DEF onward, P, one
  <2> QED
    BY <1>1, <2>1, Recursion
<1>3. /\ h \in [0 .. N -> P] /\ h[0] = 1
      /\ \A k \in 0 .. N - 1 : h[k + 1] = ByteValues * h[k]
  <2>1. /\ h \in [0 .. N -> P] /\ h[0] = 1
        /\ \A k \in 0 .. N - 1 : h[k + 1] = onward[k][h[k]]
    BY <1>2 DEF Stepwise
  <2>2. ASSUME NEW k \in 0 .. N - 1 PROVE h[k + 1] = ByteValues * h[k]
    <3>1. h[k] \in P
      BY <1>1, <2>1
    <3>2. onward[k][h[k]] = ByteValues * h[k]
      BY <3>1
    <3> QED
      BY <2>1, <3>2
  <2> QED
    BY <2>1, <2>2
<1>4. Is(h)
  <2>1. ASSUME NEW i \in 0 .. N, i # 0 PROVE h[i] = ByteValues * h[i - 1]
    <3>1. i - 1 \in 0 .. N - 1 /\ (i - 1) + 1 = i
      BY <1>1, <2>1
    <3> QED
      BY <1>3, <3>1
  <2> QED
    BY <1>3, <2>1
<1>5. Is(Worth)
  <2>1. Worth = CHOOSE w : Is(w)
    BY DEF Worth, N
  <2> HIDE DEF Is
  <2> QED
    BY <1>4, <2>1
<1>6. \A i \in 0 .. N : Worth[i] = IF i = 0 THEN 1 ELSE ByteValues * Worth[i - 1]
  BY <1>5
<1> DEFINE T == {i \in 0 .. N : Worth[i] \in P}
<1>7. 0 \in T
  BY <1>1, <1>6
<1>8. ASSUME NEW k \in 0 .. N - 1, k \in T PROVE k + 1 \in T
  <2>1. k + 1 \in 0 .. N /\ k + 1 # 0 /\ (k + 1) - 1 = k
    BY <1>1
  <2>2. Worth[k + 1] = ByteValues * Worth[k]
    BY <1>6, <2>1
  <2> QED
    BY <1>1, <1>8, <2>1, <2>2
<1>9. \A i \in 0 .. N : Worth[i] \in P
  <2>1. \A i \in 0 .. N : i \in T
    <3> HIDE DEF T
    <3> QED
      BY <1>1, <1>7, <1>8, UpToNumber
  <2> QED
    BY <2>1
<1>10. Worth \in [0 .. N -> P]
  BY <1>5, <1>9
<1>11. Worth[0] = 1 /\ \A i \in 1 .. N : Worth[i] = ByteValues * Worth[i - 1]
  BY <1>1, <1>6
<1>12. Word \in P
  BY <1>1, <1>9 DEF Word, N
<1> QED
  BY <1>10, <1>11, <1>12 DEF N

LEMMA BytesType ==
  ASSUME NEW word \in Nat
  PROVE  Bytes(word) \in Seq(Nat) /\ Len(Bytes(word)) = WordBytes
<1>1. \A i \in 1 .. WordBytes : (word \div Worth[i - 1]) % ByteValues \in Nat
  <2>1. ASSUME NEW i \in 1 .. WordBytes PROVE Worth[i - 1] \in Nat \ {0}
    <3>1. i - 1 \in 0 .. WordBytes
      BY Widths
    <3> QED
      BY <3>1, WorthSteps
  <2> QED
    BY <2>1, Widths
<1> DEFINE byte(i) == (word \div Worth[i - 1]) % ByteValues
<1>2. Bytes(word) = [i \in 1 .. WordBytes |-> byte(i)]
  BY DEF Bytes
<1> HIDE DEF byte
<1>3. \A i \in 1 .. WordBytes : byte(i) \in Nat
  BY <1>1 DEF byte
<1> QED
  BY <1>2, <1>3, Widths

(***************************************************************************)
(* A word is what its bytes say: from the top down, what the bytes above a *)
(* place are worth is the same in two words that have the same bytes.      *)
(***************************************************************************)
LEMMA BytesTellWords ==
  ASSUME NEW a \in 0 .. Word - 1, NEW b \in 0 .. Word - 1,
         \A i \in 1 .. WordBytes : Bytes(a)[i] = Bytes(b)[i]
  PROVE  a = b
<1> DEFINE N == WordBytes
           T == {k \in 0 .. N : a \div Worth[N - k] = b \div Worth[N - k]}
<1>1. /\ N \in Nat \ {0} /\ ByteValues \in Nat \ {0, 1}
      /\ Worth \in [0 .. N -> Nat \ {0}] /\ Worth[0] = 1
      /\ \A i \in 1 .. N : Worth[i] = ByteValues * Worth[i - 1]
      /\ Worth[N] \in Nat \ {0}
      /\ a \in 0 .. Worth[N] - 1 /\ b \in 0 .. Worth[N] - 1
  BY Widths, WorthSteps DEF Word
<1>2. \A i \in 1 .. N : (a \div Worth[i - 1]) % ByteValues = (b \div Worth[i - 1]) % ByteValues
  BY DEF Bytes
<1> HIDE DEF N, ByteValues
<1>3. 0 \in T
  <2>1. N - 0 = N /\ 0 \in 0 .. N
    BY <1>1
  <2>2. PICK w \in Nat \ {0} : w = Worth[N]
    BY <1>1
  <2>3. a \in 0 .. w - 1 /\ b \in 0 .. w - 1
    BY <1>1, <2>2
  <2>4. a \div w = 0 /\ b \div w = 0
    BY <2>3
  <2> QED
    BY <2>1, <2>2, <2>4
<1>4. ASSUME NEW k \in 0 .. N - 1, k \in T PROVE k + 1 \in T
  <2>1. PICK i \in 1 .. N : i = N - k /\ i - 1 = N - (k + 1) /\ i - 1 \in 0 .. N
    BY <1>1
  <2>2. PICK w \in Nat \ {0} : w = Worth[i - 1]
    BY <1>1, <2>1
  <2>3. Worth[i] = w * ByteValues
    BY <1>1, <2>2
  <2>4. a \in Nat /\ b \in Nat
    BY <1>1
  <2>5. \A x \in Nat : (x \div w) \div ByteValues = x \div (w * ByteValues)
    BY <1>1, DivideTwice
  <2>6. (a \div w) \div ByteValues = (b \div w) \div ByteValues
    BY <1>4, <2>1, <2>3, <2>4, <2>5
  <2>7. (a \div w) % ByteValues = (b \div w) % ByteValues
    BY <1>2, <2>2
  <2>8. a \div w \in Nat /\ b \div w \in Nat
    BY <2>4
  <2>9. \A x \in Nat : x = ByteValues * (x \div ByteValues) + (x % ByteValues)
    BY <1>1, SMTT(30)
  <2>10. a \div w = b \div w
    BY <2>6, <2>7, <2>8, <2>9
  <2> QED
    BY <1>1, <2>1, <2>2, <2>10
<1>5. N \in T
  <2>1. \A k \in 0 .. N : k \in T
    <3> HIDE DEF T
    <3> QED
      BY <1>1, <1>3, <1>4, UpToNumber
  <2>2. N \in 0 .. N
    BY <1>1
  <2> HIDE DEF T
  <2> QED
    BY <2>1, <2>2
<1>6. a \div 1 = b \div 1
  BY <1>1, <1>5
<1> QED
  BY <1>1, <1>6

LEMMA HexLength ==
  ASSUME NEW raw \in Seq(Nat)
  PROVE  Hex(raw) \in Seq(Nat) /\ Len(Hex(raw)) = 2 * Len(raw)
<1> DEFINE digit(k) == IF k % 2 = 1 THEN raw[(k + 1) \div 2] \div Base ELSE raw[k \div 2] % Base
<1>1. Base \in Nat \ {0, 1} /\ Len(raw) \in Nat
  BY Widths
<1> HIDE DEF Base
<1>2. \A x \in Nat : x \div Base \in Nat /\ x % Base \in Nat
  BY <1>1
<1>3. ASSUME NEW k \in 1 .. 2 * Len(raw) PROVE digit(k) \in Nat
  <2>1. CASE k % 2 = 1
    <3>1. (k + 1) \div 2 \in 1 .. Len(raw)
      BY <1>1, <2>1
    <3>2. raw[(k + 1) \div 2] \in Nat
      BY <3>1
    <3> QED
      BY <1>2, <2>1, <3>2
  <2>2. CASE k % 2 # 1
    <3>1. k \div 2 \in 1 .. Len(raw)
      BY <1>1, <2>2
    <3>2. raw[k \div 2] \in Nat
      BY <3>1
    <3> QED
      BY <1>2, <2>2, <3>2
  <2> QED
    BY <2>1, <2>2
<1>4. Hex(raw) = [k \in 1 .. 2 * Len(raw) |-> digit(k)]
  BY DEF Hex
<1>5. 2 * Len(raw) \in Nat
  BY <1>1
<1> HIDE DEF digit
<1> QED
  BY <1>3, <1>4, <1>5

LEMMA HexTellsBytes ==
  ASSUME NEW a \in Seq(Nat), NEW b \in Seq(Nat), Hex(a) = Hex(b), Len(a) = Len(b),
         NEW i \in 1 .. Len(a)
  PROVE  a[i] = b[i]
<1>1. Base \in Nat \ {0, 1} /\ a[i] \in Nat /\ b[i] \in Nat
  BY Widths
<1> HIDE DEF Base
<1>2. PICK k : k = 2 * i
  OBVIOUS
<1>3. /\ k \in 1 .. 2 * Len(a) /\ k - 1 \in 1 .. 2 * Len(a)
      /\ k % 2 # 1 /\ (k - 1) % 2 = 1 /\ k \div 2 = i /\ ((k - 1) + 1) \div 2 = i
  BY <1>2
<1>4. \A raw \in {a, b} : Hex(raw)[k] = raw[i] % Base /\ Hex(raw)[k - 1] = raw[i] \div Base
  BY <1>3 DEF Hex
<1>5. a[i] % Base = b[i] % Base /\ a[i] \div Base = b[i] \div Base
  BY <1>4
<1>6. \A x \in Nat : x = Base * (x \div Base) + (x % Base)
  BY <1>1
<1> QED
  BY <1>1, <1>5, <1>6

Id(t, c) == Hex(Bytes(t) \o Bytes(c))

LEMMA IdsTellCounts ==
  ASSUME NEW t \in Nat, NEW c \in 0 .. Word - 1
  PROVE  /\ Id(t, c) \in Seq(Nat) /\ Len(Id(t, c)) = 4 * WordBytes
         /\ \A u \in Nat, d \in 0 .. Word - 1 : Id(t, c) = Id(u, d) => c = d
<1>1. WordBytes \in Nat /\ Word \in Nat
  BY Widths, WorthSteps
<1>2. \A u \in Nat, d \in 0 .. Word - 1 :
        /\ Bytes(u) \o Bytes(d) \in Seq(Nat) /\ Len(Bytes(u) \o Bytes(d)) = 2 * WordBytes
        /\ \A i \in 1 .. WordBytes : (Bytes(u) \o Bytes(d))[WordBytes + i] = Bytes(d)[i]
  <2>1. ASSUME NEW u \in Nat, NEW d \in 0 .. Word - 1
        PROVE  /\ Bytes(u) \o Bytes(d) \in Seq(Nat) /\ Len(Bytes(u) \o Bytes(d)) = 2 * WordBytes
               /\ \A i \in 1 .. WordBytes : (Bytes(u) \o Bytes(d))[WordBytes + i] = Bytes(d)[i]
    <3>1. d \in Nat
      BY <1>1
    <3>2. /\ Bytes(u) \in Seq(Nat) /\ Len(Bytes(u)) = WordBytes
          /\ Bytes(d) \in Seq(Nat) /\ Len(Bytes(d)) = WordBytes
      BY <3>1, BytesType
    <3>3. PICK x \in Seq(Nat) : x = Bytes(u)
      BY <3>2
    <3>4. PICK y \in Seq(Nat) : y = Bytes(d)
      BY <3>2
    <3>5. x \o y \in Seq(Nat) /\ Len(x \o y) = Len(x) + Len(y)
      BY ConcatProperties
    <3>6. \A i \in 1 .. Len(y) : (x \o y)[Len(x) + i] = y[i]
      OBVIOUS
    <3>7. /\ Bytes(u) \o Bytes(d) = x \o y /\ Bytes(d) = y
          /\ Len(x) = WordBytes /\ Len(y) = WordBytes /\ Len(x \o y) = 2 * WordBytes
      BY <1>1, <3>2, <3>3, <3>4, <3>5
    <3>8. \A i \in 1 .. WordBytes : (x \o y)[WordBytes + i] = y[i]
      BY <3>6, <3>7
    <3>9. PICK z : z = x \o y
      OBVIOUS
    <3> QED
      BY <3>5, <3>7, <3>8, <3>9
  <2> QED
    BY <2>1
<1>3. Id(t, c) \in Seq(Nat) /\ Len(Id(t, c)) = 4 * WordBytes
  <2> DEFINE raw == Bytes(t) \o Bytes(c)
  <2>1. raw \in Seq(Nat) /\ Len(raw) = 2 * WordBytes
    BY <1>2
  <2> HIDE DEF raw
  <2>2. Hex(raw) \in Seq(Nat) /\ Len(Hex(raw)) = 2 * (2 * WordBytes)
    BY <2>1, HexLength
  <2> QED
    BY <1>1, <2>2 DEF Id, raw
<1>4. ASSUME NEW u \in Nat, NEW d \in 0 .. Word - 1, Id(t, c) = Id(u, d) PROVE c = d
  <2>1. PICK x : x = Bytes(t) \o Bytes(c)
    OBVIOUS
  <2>2. PICK y : y = Bytes(u) \o Bytes(d)
    OBVIOUS
  <2>3. /\ x \in Seq(Nat) /\ Len(x) = 2 * WordBytes
        /\ y \in Seq(Nat) /\ Len(y) = 2 * WordBytes
        /\ Hex(x) = Hex(y)
        /\ \A i \in 1 .. WordBytes : x[WordBytes + i] = Bytes(c)[i] /\ y[WordBytes + i] = Bytes(d)[i]
    BY <1>2, <1>4, <2>1, <2>2 DEF Id
  <2>4. ASSUME NEW i \in 1 .. WordBytes PROVE Bytes(c)[i] = Bytes(d)[i]
    <3>1. PICK k \in 1 .. Len(x) : k = WordBytes + i
      BY <1>1, <2>3
    <3>2. x[k] = y[k]
      BY <2>3, HexTellsBytes
    <3> QED
      BY <2>3, <3>1, <3>2
  <2> QED
    BY <2>4, BytesTellWords
<1> QED
  BY <1>3, <1>4

Formatting == {th \in Thread : step[th] = "format"}

IdTypes ==
  /\ step \in [Thread -> {"idle", "count", "format"}]
  /\ time \in [Thread -> 0 .. Word - 1] /\ count \in [Thread -> 0 .. Word - 1]
  /\ ids \in Seq(Seq(Nat))

(***************************************************************************)
(* The counts that were drawn are those from 1 to made, the last of which  *)
(* may have wrapped; a thread or an id has one, and no two have the same.  *)
(***************************************************************************)
Drawn(made, c) == c \in 1 .. made \/ (c = 0 /\ made = Word)

Counted(made, drawn) ==
  /\ seq = made % Word
  /\ \A i \in 1 .. Len(ids) : \E t \in Nat : ids[i] = Id(t, drawn[i])
  /\ \A i \in 1 .. Len(ids) : Drawn(made, drawn[i])
  /\ \A th \in Formatting : Drawn(made, count[th])
  /\ \A i, j \in 1 .. Len(ids) : drawn[i] = drawn[j] => i = j
  /\ \A i \in 1 .. Len(ids), th \in Formatting : drawn[i] # count[th]
  /\ \A th, other \in Formatting : count[th] = count[other] => th = other

IdsInv ==
  /\ IdTypes
  /\ IsFiniteSet(Running) /\ Len(ids) + Cardinality(Running) <= MaxIds
  /\ \E drawn \in [1 .. Len(ids) -> 0 .. Word - 1] :
       Counted(Len(ids) + Cardinality(Formatting), drawn)

LEMMA Threads ==
  ASSUME IsFiniteSet(Running)
  PROVE  /\ IsFiniteSet(Formatting)
         /\ Cardinality(Formatting) \in Nat /\ Cardinality(Running) \in Nat
         /\ Cardinality(Formatting) <= Cardinality(Running)
         /\ \A th \in Running : th \notin Formatting =>
              Cardinality(Formatting) + 1 <= Cardinality(Running)
<1>1. Formatting \subseteq Running
  BY DEF Formatting, Running
<1>2. /\ IsFiniteSet(Formatting) /\ Cardinality(Formatting) <= Cardinality(Running)
  BY <1>1, FS_Subset
<1>3. Cardinality(Formatting) \in Nat /\ Cardinality(Running) \in Nat
  BY <1>2, FS_CardinalityType
<1>4. ASSUME NEW th \in Running, th \notin Formatting
      PROVE  Cardinality(Formatting) + 1 <= Cardinality(Running)
  <2>1. Cardinality(Running) = Cardinality(Formatting) => FALSE
    BY <1>1, <1>4, FS_Subset
  <2> QED
    BY <1>2, <1>3, <2>1
<1> QED
  BY <1>2, <1>3, <1>4

LEMMA IdsStart == IdsInit => IdsInv
<1> SUFFICES ASSUME IdsInit PROVE IdsInv
  OBVIOUS
<1>1. Word \in Nat \ {0} /\ MaxIds \in Nat \ {0}
  BY Widths, WorthSteps
<1> HIDE DEF Word
<1>2. IdTypes
  BY <1>1 DEF IdsInit, IdTypes
<1>3. Running = {} /\ Formatting = {} /\ Len(ids) = 0
  BY DEF IdsInit, Running, Formatting
<1>4. IsFiniteSet({}) /\ Cardinality({}) = 0
  BY FS_EmptySet
<1>5. PICK drawn : drawn = [i \in 1 .. 0 |-> 0]
  OBVIOUS
<1>6. drawn \in [1 .. Len(ids) -> 0 .. Word - 1]
  BY <1>3, <1>5
<1>7. 0 % Word = 0 /\ seq = 0
  BY <1>1 DEF IdsInit
<1>8. Counted(Len(ids) + Cardinality(Formatting), drawn)
  BY <1>3, <1>4, <1>7 DEF Counted
<1>9. IsFiniteSet(Running) /\ Len(ids) + Cardinality(Running) <= MaxIds
  BY <1>1, <1>3, <1>4
<1> QED
  BY <1>2, <1>6, <1>8, <1>9 DEF IdsInv

LEMMA IdsStep == IdsInv /\ [IdsNext]_idVars => IdsInv'
<1> SUFFICES ASSUME IdsInv, [IdsNext]_idVars PROVE IdsInv'
  OBVIOUS
<1>1. /\ Word \in Nat \ {0} /\ MaxIds \in Nat \ {0} /\ MaxIds <= Word
      /\ Clock \subseteq 0 .. (Word - 1)
  BY Widths, WorthSteps, IdAssumption
<1> HIDE DEF Word
<1>2. /\ IdTypes /\ IsFiniteSet(Running)
      /\ Len(ids) + Cardinality(Running) <= MaxIds /\ Len(ids) \in Nat
  BY DEF IdsInv, IdTypes
<1>3. PICK made : made = Len(ids) + Cardinality(Formatting)
  OBVIOUS
<1>4. PICK drawn \in [1 .. Len(ids) -> 0 .. Word - 1] : Counted(made, drawn)
  BY <1>3 DEF IdsInv
<1>5. made \in Nat /\ made <= MaxIds
  <2>1. /\ Cardinality(Formatting) \in Nat /\ Cardinality(Running) \in Nat
        /\ Cardinality(Formatting) <= Cardinality(Running)
    BY <1>2, Threads
  <2> QED
    BY <1>1, <1>2, <1>3, <2>1
<1>6. CASE UNCHANGED idVars
  <2>1. Formatting' = Formatting /\ Running' = Running
    BY <1>6 DEF idVars, Formatting, Running
  <2>2. IdTypes' /\ ids' = ids
    BY <1>2, <1>6 DEF idVars, IdTypes
  <2>3. Counted(made, drawn)'
    BY <1>4, <1>6, <2>1 DEF idVars, Counted
  <2> QED
    BY <1>2, <1>3, <2>1, <2>2, <2>3 DEF IdsInv
<1>7. ASSUME NEW th \in Thread, ReadClock(th) PROVE IdsInv'
  <2>1. step[th] = "idle" /\ step' = [step EXCEPT ![th] = "count"]
    BY <1>7 DEF ReadClock
  <2>2. IdTypes'
    BY <1>1, <1>2, <1>7 DEF ReadClock, IdTypes
  <2>3. Formatting' = Formatting
    BY <1>2, <2>1 DEF Formatting, IdTypes
  <2>4. Running' = Running \cup {th} /\ th \notin Running
    BY <1>2, <2>1 DEF Running, IdTypes
  <2>5. IsFiniteSet(Running') /\ Cardinality(Running') = Cardinality(Running) + 1
    BY <1>2, <2>4, FS_AddElement
  <2>6. Len(ids) + Cardinality(Running') <= MaxIds
    <3>1. Len(ids) + Cardinality(Running) < MaxIds
      BY <1>7 DEF ReadClock
    <3> QED
      BY <1>1, <1>2, <2>5, <3>1, Threads
  <2>7. ids' = ids /\ seq' = seq /\ count' = count
    BY <1>7 DEF ReadClock
  <2>8. Counted(made, drawn)'
    BY <1>4, <2>3, <2>7 DEF Counted
  <2> QED
    BY <1>3, <2>2, <2>3, <2>5, <2>6, <2>7, <2>8 DEF IdsInv
<1>8. ASSUME NEW th \in Thread, FetchAddSeq(th) PROVE IdsInv'
  <2>1. step[th] = "count" /\ step' = [step EXCEPT ![th] = "format"]
    BY <1>8 DEF FetchAddSeq
  <2>2. Running' = Running /\ th \in Running
    BY <1>2, <2>1 DEF Running, IdTypes
  <2>3. Formatting' = Formatting \cup {th} /\ th \notin Formatting
    BY <1>2, <2>1 DEF Formatting, IdTypes
  <2>4. made < MaxIds
    BY <1>1, <1>2, <1>3, <2>2, <2>3, Threads
  <2>5. Cardinality(Formatting') = Cardinality(Formatting) + 1
    BY <1>2, <2>3, Threads, FS_AddElement
  <2>6. PICK more \in Nat : more = made + 1
    BY <1>5
  <2>7. more = Len(ids) + Cardinality(Formatting') /\ more <= Word /\ more # 0
    BY <1>1, <1>2, <1>3, <1>5, <2>4, <2>5, <2>6, Threads
  <2>8. seq = made /\ made < Word
    BY <1>1, <1>4, <1>5, <2>4 DEF Counted
  <2>9. PICK new : new = more % Word
    OBVIOUS
  <2>10. /\ new \in 0 .. Word - 1
         /\ Drawn(more, new) /\ ~Drawn(made, new)
    <3>1. CASE more < Word
      <4>1. new = more
        BY <1>1, <2>9, <3>1
      <4> QED
        BY <1>1, <1>5, <2>6, <2>7, <3>1, <4>1 DEF Drawn
    <3>2. CASE more = Word
      <4>1. new = 0
        BY <1>1, <2>9, <3>2
      <4> QED
        BY <1>1, <1>5, <2>8, <3>2, <4>1 DEF Drawn
    <3> QED
      BY <2>7, <3>1, <3>2, <1>1
  <2>11. \A c : Drawn(made, c) => Drawn(more, c) /\ c # new
    BY <1>5, <2>6, <2>8, <2>10 DEF Drawn
  <2>12. seq' = new /\ count' = [count EXCEPT ![th] = new] /\ ids' = ids /\ time' = time
    BY <1>8, <2>6, <2>8, <2>9 DEF FetchAddSeq
  <2>13. IdTypes'
    BY <1>2, <2>1, <2>10, <2>12 DEF IdTypes
  <2>14. count'[th] = new /\ \A other \in Formatting : count'[other] = count[other]
    BY <1>2, <2>3, <2>12 DEF IdTypes, Formatting
  <2>15. Counted(more, drawn)'
    <3>1. seq' = more % Word
      BY <2>9, <2>12
    <3>2. \A x \in Formatting' : Drawn(more, count'[x])
      BY <1>4, <2>3, <2>10, <2>11, <2>14 DEF Counted
    <3>3. \A i \in 1 .. Len(ids'), x \in Formatting' : drawn[i] # count'[x]
      BY <1>4, <2>3, <2>11, <2>12, <2>14 DEF Counted
    <3>4. \A x, y \in Formatting' : count'[x] = count'[y] => x = y
      BY <1>4, <2>3, <2>11, <2>14 DEF Counted
    <3>5. /\ \A i \in 1 .. Len(ids') : \E t \in Nat : ids'[i] = Id(t, drawn[i])
          /\ \A i \in 1 .. Len(ids') : Drawn(more, drawn[i])
          /\ \A i, j \in 1 .. Len(ids') : drawn[i] = drawn[j] => i = j
      BY <1>4, <2>11, <2>12 DEF Counted
    <3> QED
      BY <3>1, <3>2, <3>3, <3>4, <3>5 DEF Counted
  <2> QED
    BY <1>2, <2>2, <2>7, <2>12, <2>13, <2>15 DEF IdsInv
<1>9. ASSUME NEW th \in Thread, Format(th) PROVE IdsInv'
  <2>1. step[th] = "format" /\ step' = [step EXCEPT ![th] = "idle"]
    BY <1>9 DEF Format
  <2>2. Running' = Running \ {th} /\ th \in Running
    BY <1>2, <2>1 DEF Running, IdTypes
  <2>3. Formatting' = Formatting \ {th} /\ th \in Formatting
    BY <1>2, <2>1 DEF Formatting, IdTypes
  <2>4. /\ IsFiniteSet(Running') /\ Cardinality(Running') = Cardinality(Running) - 1
        /\ Cardinality(Formatting') = Cardinality(Formatting) - 1
    BY <1>2, <2>2, <2>3, Threads, FS_RemoveElement
  <2>5. PICK n \in Nat : n = Len(ids)
    BY <1>2
  <2>6. PICK drawnId : drawnId = Id(time[th], count[th])
    OBVIOUS
  <2>7. time[th] \in 0 .. Word - 1 /\ time[th] \in Nat /\ count[th] \in 0 .. Word - 1
    BY <1>1, <1>2 DEF IdTypes
  <2>8. drawnId \in Seq(Nat)
    BY <2>6, <2>7, IdsTellCounts
  <2>9. /\ ids' = Append(ids, drawnId) /\ seq' = seq /\ time' = time /\ count' = count
    BY <1>9, <2>6 DEF Format, Id
  <2>10. /\ ids' \in Seq(Seq(Nat)) /\ Len(ids') = n + 1
         /\ \A i \in 1 .. n : ids'[i] = ids[i]
         /\ ids'[n + 1] = drawnId
    <3> DEFINE S == Seq(Nat)
    <3>1. ids \in Seq(S) /\ drawnId \in S
      BY <1>2, <2>8 DEF IdTypes
    <3> HIDE DEF S
    <3>2. /\ Append(ids, drawnId) \in Seq(S) /\ Len(Append(ids, drawnId)) = Len(ids) + 1
          /\ \A i \in 1 .. Len(ids) : Append(ids, drawnId)[i] = ids[i]
          /\ Append(ids, drawnId)[Len(ids) + 1] = drawnId
      BY <3>1, AppendProperties
    <3> QED
      BY <2>5, <2>9, <3>2 DEF S
  <2>11. IdTypes'
    BY <1>2, <2>1, <2>9, <2>10 DEF IdTypes
  <2>12. PICK top \in Nat : top = n + 1
    OBVIOUS
  <2>13. PICK all : all = [i \in 1 .. top |-> IF i = top THEN count[th] ELSE drawn[i]]
    OBVIOUS
  <2>14. /\ 1 .. top = (1 .. n) \cup {top} /\ top \notin 1 .. n /\ Len(ids') = top
         /\ all \in [1 .. top -> 0 .. Word - 1]
         /\ all[top] = count[th] /\ \A i \in 1 .. n : all[i] = drawn[i]
    BY <2>5, <2>7, <2>10, <2>12, <2>13
  <2>15. Len(ids') + Cardinality(Formatting') = made
    <3>1. Cardinality(Formatting) \in Nat
      BY <1>2, Threads
    <3>2. made = n + Cardinality(Formatting) /\ Len(ids') = n + 1
      BY <1>3, <2>5, <2>10
    <3> QED
      BY <2>4, <3>1, <3>2
  <2>16. Len(ids') + Cardinality(Running') <= MaxIds
    BY <1>1, <1>2, <2>4, <2>5, <2>12, <2>14, Threads
  <2>17. Counted(made, all)'
    <3>1. \A i \in 1 .. top : \E t \in Nat : ids'[i] = Id(t, all[i])
      <4>1. \A i \in 1 .. n : \E t \in Nat : ids'[i] = Id(t, all[i])
        BY <1>4, <2>5, <2>10, <2>14 DEF Counted
      <4>2. ids'[top] = Id(time[th], all[top])
        BY <2>6, <2>10, <2>12, <2>14
      <4> QED
        BY <2>7, <2>14, <4>1, <4>2
    <3>2. \A i \in 1 .. top : Drawn(made, all[i])
      BY <1>4, <2>3, <2>5, <2>14 DEF Counted
    <3>3. /\ \A i, j \in 1 .. n : drawn[i] = drawn[j] => i = j
          /\ \A i \in 1 .. n : \A x \in Formatting : drawn[i] # count[x]
          /\ \A x \in Formatting : x # th => count[th] # count[x]
      BY <1>4, <2>3, <2>5 DEF Counted
    <3>4. \A i, j \in 1 .. top : all[i] = all[j] => i = j
      <4>1. \A i \in 1 .. n : all[i] = drawn[i] /\ all[i] # all[top]
        BY <2>3, <2>14, <3>3
      <4>2. ASSUME NEW i \in 1 .. top, NEW j \in 1 .. top, all[i] = all[j] PROVE i = j
        <5>1. CASE i \in 1 .. n /\ j \in 1 .. n
          BY <3>3, <4>1, <4>2, <5>1
        <5>2. CASE i = top \/ j = top
          BY <2>14, <4>1, <4>2, <5>2
        <5> QED
          BY <2>14, <5>1, <5>2
      <4> QED
        BY <4>2
    <3>5. \A i \in 1 .. top : \A x \in Formatting' : all[i] # count'[x]
      BY <2>3, <2>9, <2>14, <3>3, SMTT(30)
    <3>6. \A x, y \in Formatting' : count'[x] = count'[y] => x = y
      BY <1>4, <2>3, <2>9 DEF Counted
    <3>7. \A x \in Formatting' : Drawn(made, count'[x])
      BY <1>4, <2>3, <2>9 DEF Counted
    <3>8. seq' = made % Word
      BY <1>4, <2>9 DEF Counted
    <3> QED
      BY <2>14, <3>1, <3>2, <3>4, <3>5, <3>6, <3>7, <3>8 DEF Counted
  <2> QED
    BY <2>4, <2>11, <2>14, <2>15, <2>16, <2>17 DEF IdsInv
<1> QED
  BY <1>6, <1>7, <1>8, <1>9 DEF IdsNext

(***************************************************************************)
(* No two ids are the same, whatever the clock says and however the        *)
(* threads interleave, for every number of threads and every width of a    *)
(* word: ids are told apart by their counts, which no two have in common,  *)
(* and a count can be read back from the digits.                           *)
(***************************************************************************)
THEOREM IdsStayDistinct == IdsSpec => []IdsDistinct
<1>1. IdsInv => IdsDistinct
  <2> SUFFICES ASSUME IdsInv, NEW i \in DOMAIN ids, NEW j \in DOMAIN ids
               PROVE  Len(ids[i]) = 4 * WordBytes /\ (ids[i] = ids[j] => i = j)
    BY DEF IdsDistinct
  <2>1. PICK drawn \in [1 .. Len(ids) -> 0 .. Word - 1] :
          Counted(Len(ids) + Cardinality(Formatting), drawn)
    BY DEF IdsInv
  <2>2. i \in 1 .. Len(ids) /\ j \in 1 .. Len(ids)
    BY DEF IdsInv, IdTypes
  <2>3. PICK t \in Nat : ids[i] = Id(t, drawn[i])
    BY <2>1, <2>2 DEF Counted
  <2>4. PICK u \in Nat : ids[j] = Id(u, drawn[j])
    BY <2>1, <2>2 DEF Counted
  <2>5. drawn[i] \in 0 .. Word - 1 /\ drawn[j] \in 0 .. Word - 1
    BY <2>1, <2>2
  <2>6. /\ Len(Id(t, drawn[i])) = 4 * WordBytes
        /\ Id(t, drawn[i]) = Id(u, drawn[j]) => drawn[i] = drawn[j]
    BY <2>5, IdsTellCounts
  <2>7. drawn[i] = drawn[j] => i = j
    BY <2>1, <2>2 DEF Counted
  <2> QED
    BY <2>3, <2>4, <2>6, <2>7
<1> QED
  BY IdsStart, IdsStep, <1>1, PTL DEF IdsSpec
-----------------------------------------------------------------------------
(***************************************************************************)
(* The loop of php_cedar_like_match, for every alphabet, subject and       *)
(* pattern: where it reads, and that it decides matching.                  *)
(***************************************************************************)
Texts == subject \in Seq(Char) /\ pattern \in Seq(Char)

LikeInv == Texts /\ PointersInBounds

LEMMA TextIsSequence ==
  ASSUME NEW n, NEW text \in TextUpTo(n)
  PROVE  text \in Seq(Char)
<1>1. PICK k \in 0 .. n : text \in [1 .. k -> Char]
  BY DEF TextUpTo
<1>2. k \in Nat
  BY <1>1
<1> QED
  BY <1>1, <1>2

LEMMA LikeInitInvariant == LikeInit => LikeInv
<1> SUFFICES ASSUME LikeInit PROVE LikeInv
  OBVIOUS
<1>1. Texts
  BY TextIsSequence DEF LikeInit, Texts
<1>2. Len(subject) \in Nat /\ Len(pattern) \in Nat
  BY <1>1 DEF Texts
<1> QED
  BY <1>1, <1>2 DEF LikeInit, LikeInv, PointersInBounds, SubjectEnd, PatternEnd

LEMMA LikeStepInvariant == LikeInv /\ [LikeNext]_likeVars => LikeInv'
<1> SUFFICES ASSUME LikeInv, [LikeNext]_likeVars PROVE LikeInv'
  OBVIOUS
<1> USE DEF LikeInv, PointersInBounds, SubjectEnd, PatternEnd, Looping
<1>1. /\ Len(subject) \in Nat /\ Len(pattern) \in Nat
      /\ s \in Nat /\ p \in Nat
      /\ starP \in Nat /\ starS \in Nat
  BY DEF Texts
<1>2. subject' = subject /\ pattern' = pattern
  BY DEF LikeNext, likeVars, TakeWildcard, TakeChar, Backtrack, Mismatch, Trailing, Return
<1>3. Texts'
  BY <1>2 DEF Texts
<1>4. CASE TakeWildcard
  BY <1>1, <1>2, <1>3, <1>4 DEF TakeWildcard, AtWildcard
<1>5. CASE TakeChar
  BY <1>1, <1>2, <1>3, <1>5 DEF TakeChar, AtEqual
<1>6. CASE Backtrack
  <2>1. s' = starS + 1 /\ starS' = starS + 1 /\ p' = starP /\ starP' = starP
    BY <1>6 DEF Backtrack
  <2>2. starS \in 1 .. s /\ s <= Len(subject)
    BY <1>1, <1>6 DEF Backtrack
  <2> QED
    BY <1>1, <1>2, <1>3, <1>6, <2>1, <2>2 DEF Backtrack
<1>7. CASE Mismatch
  BY <1>1, <1>2, <1>3, <1>7 DEF Mismatch
<1>8. CASE Trailing
  BY <1>1, <1>2, <1>3, <1>8 DEF Trailing, AtWildcard
<1>9. CASE Return
  BY <1>1, <1>2, <1>3, <1>9 DEF Return
<1>10. CASE UNCHANGED likeVars
  BY <1>3, <1>10 DEF likeVars
<1> QED
  BY <1>4, <1>5, <1>6, <1>7, <1>8, <1>9, <1>10 DEF LikeNext

(***************************************************************************)
(* No read of the matching loop is outside of its string, and no resume    *)
(* point is ahead of where the loop is, whatever the strings are.          *)
(***************************************************************************)
THEOREM PointersStayInBounds == LikeSpec => []PointersInBounds
<1>1. LikeInv => PointersInBounds
  BY DEF LikeInv
<1> QED
  BY LikeInitInvariant, LikeStepInvariant, <1>1, PTL DEF LikeSpec

(***************************************************************************)
(* Table(a, b, from): from has, for each place of the pattern b, the       *)
(* places of the subject a that match from there, as Matches tabulates.    *)
(***************************************************************************)
Table(a, b, from) ==
  /\ from \in [1 .. Len(b) + 1 -> SUBSET (1 .. Len(a) + 1)]
  /\ from[Len(b) + 1] = {Len(a) + 1}
  /\ \A y \in 1 .. Len(b) : from[y] =
       IF b[y] = Wildcard THEN {x \in 1 .. Len(a) + 1 : \E r \in from[y + 1] : x <= r}
       ELSE {x \in 1 .. Len(a) : a[x] = b[y] /\ x + 1 \in from[y + 1]}

LEMMA MatchesTabulates ==
  ASSUME NEW C, NEW a \in Seq(C), NEW b \in Seq(C)
  PROVE  \E from : Table(a, b, from) /\ (Matches(a, b) <=> 1 \in from[1])
<1> DEFINE L == Len(a) + 1
           M == Len(b) + 1
           Starts == SUBSET (1 .. L)
           Before(x, after) == IF b[x] = Wildcard
                               THEN {y \in 1 .. L : \E r \in after : y <= r}
                               ELSE {y \in 1 .. Len(a) : a[y] = b[x] /\ y + 1 \in after}
           Is(g) == g = [x \in 1 .. M |->
                           IF x > Len(b) THEN {L}
                           ELSE IF b[x] = Wildcard
                           THEN {y \in 1 .. L : \E r \in g[x + 1] : y <= r}
                           ELSE {y \in 1 .. Len(a) : a[y] = b[x] /\ y + 1 \in g[x + 1]}]
           from == CHOOSE g : Is(g)
           first == {L}
           before == [k \in 0 .. Len(b) - 1 |-> [after \in Starts |-> Before(Len(b) - k, after)]]
<1>1. Len(a) \in Nat /\ Len(b) \in Nat /\ L \in Nat /\ M \in Nat /\ L = Len(a) + 1 /\ M = Len(b) + 1
  OBVIOUS
<1>2. Matches(a, b) <=> 1 \in from[1]
  BY DEF Matches
<1>3. \A x, after : Before(x, after) \in Starts
  BY <1>1
<1> HIDE DEF L, M
<1>4. PICK h : Stepwise(h, Len(b), Starts, first, before)
  <2>1. before \in Steps(Len(b), Starts)
    <3> HIDE DEF Before, Starts
    <3> QED
      BY <1>3 DEF Steps
  <2>2. first \in Starts
    BY <1>1
  <2> HIDE DEF before, first, Starts
  <2> QED
    BY <1>1, <2>1, <2>2, Recursion
<1>5. /\ h \in [0 .. Len(b) -> Starts] /\ h[0] = first
      /\ \A k \in 0 .. Len(b) - 1 : h[k + 1] = Before(Len(b) - k, h[k])
  <2> HIDE DEF Before, Starts, first
  <2>1. /\ h \in [0 .. Len(b) -> Starts] /\ h[0] = first
        /\ \A k \in 0 .. Len(b) - 1 : h[k + 1] = before[k][h[k]]
    BY <1>4 DEF Stepwise
  <2>2. ASSUME NEW k \in 0 .. Len(b) - 1 PROVE h[k + 1] = Before(Len(b) - k, h[k])
    <3>1. h[k] \in Starts
      BY <1>1, <2>1
    <3>2. before[k][h[k]] = Before(Len(b) - k, h[k])
      BY <3>1
    <3> QED
      BY <2>1, <3>2
  <2> QED
    BY <2>1, <2>2
<1> DEFINE g == [x \in 1 .. M |-> h[M - x]]
<1>6. Is(g)
  <2>1. ASSUME NEW x \in 1 .. M
        PROVE  g[x] = IF x > Len(b) THEN {L} ELSE Before(x, g[x + 1])
    <3>1. CASE x = M
      BY <1>1, <1>5, <3>1
    <3>2. CASE x # M
      <4>1. PICK k : k = M - (x + 1)
        OBVIOUS
      <4>2. k \in 0 .. Len(b) - 1 /\ k + 1 = M - x /\ Len(b) - k = x /\ x + 1 \in 1 .. M
        BY <1>1, <3>2, <4>1
      <4>3. g[x] = h[k + 1] /\ g[x + 1] = h[k] /\ ~(x > Len(b))
        BY <1>1, <4>1, <4>2, <3>2
      <4> HIDE DEF Before, g
      <4>4. h[k + 1] = Before(Len(b) - k, h[k])
        BY <1>5, <4>2
      <4> QED
        BY <4>2, <4>3, <4>4
    <3> QED
      BY <3>1, <3>2
  <2> QED
    BY <2>1
<1>7. Is(from)
  <2> HIDE DEF Is
  <2> QED
    BY <1>6
<1> HIDE DEF from
<1>8. \A x \in 1 .. M : from[x] = IF x > Len(b) THEN {L} ELSE Before(x, from[x + 1])
  BY <1>7
<1>9. from \in [1 .. M -> Starts]
  <2>1. {L} \in Starts
    BY <1>1
  <2>2. \A x \in 1 .. M : from[x] \in Starts
    <3> HIDE DEF Before, Starts
    <3> QED
      BY <1>3, <1>8, <2>1
  <2>3. from = [x \in 1 .. M |-> from[x]]
    BY <1>7
  <2> HIDE DEF Starts
  <2> QED
    BY <2>2, <2>3
<1>10. from[M] = {L} /\ \A x \in 1 .. Len(b) : from[x] = Before(x, from[x + 1])
  <2> HIDE DEF Before
  <2> QED
    BY <1>1, <1>8
<1>11. Table(a, b, from)
  BY <1>9, <1>10 DEF Table, L, M
<1> QED
  BY <1>2, <1>11

(***************************************************************************)
(* The ends of two texts match iff the table of the two says so.           *)
(***************************************************************************)
LEMMA MatchesOfEnds ==
  ASSUME NEW C, NEW a \in Seq(C), NEW b \in Seq(C), NEW from, Table(a, b, from),
         NEW x \in 1 .. Len(a) + 1, NEW y \in 1 .. Len(b) + 1
  PROVE  Matches(SubSeq(a, x, Len(a)), SubSeq(b, y, Len(b))) <=> x \in from[y]
<1>1. PICK c : c = SubSeq(a, x, Len(a))
  OBVIOUS
<1>2. PICK d : d = SubSeq(b, y, Len(b))
  OBVIOUS
<1>3. PICK m \in Nat : m = Len(a)
  OBVIOUS
<1>4. PICK n \in Nat : n = Len(b)
  OBVIOUS
<1>5. /\ c \in Seq(C) /\ Len(c) = (m - x) + 1 /\ \A i \in 1 .. Len(c) : c[i] = a[(x + i) - 1]
  <2>1. \A i \in x .. m : a[i] \in C
    BY <1>3
  <2>2. /\ c \in Seq(C) /\ Len(c) = IF x <= m THEN (m - x) + 1 ELSE 0
        /\ \A i \in 1 .. (m - x) + 1 : c[i] = a[(x + i) - 1]
    BY <1>1, <1>3, <2>1, SubSeqProperties
  <2> QED
    BY <1>3, <2>2
<1>6. /\ d \in Seq(C) /\ Len(d) = (n - y) + 1 /\ \A i \in 1 .. Len(d) : d[i] = b[(y + i) - 1]
  <2>1. \A i \in y .. n : b[i] \in C
    BY <1>4
  <2>2. /\ d \in Seq(C) /\ Len(d) = IF y <= n THEN (n - y) + 1 ELSE 0
        /\ \A i \in 1 .. (n - y) + 1 : d[i] = b[(y + i) - 1]
    BY <1>4, <1>2, <2>1, SubSeqProperties
  <2> QED
    BY <1>4, <2>2
<1>7. PICK of : Table(c, d, of) /\ (Matches(c, d) <=> 1 \in of[1])
  BY <1>5, <1>6, MatchesTabulates
<1>8. PICK end \in Nat : end = (n - y) + 1
  BY <1>4
<1>9. PICK cl \in Nat : cl = (m - x) + 1
  BY <1>3
<1> DEFINE Same(k) == \A i \in 1 .. cl + 1 :
                        i \in of[(end + 1) - k] <=> (x + i) - 1 \in from[(n + 1) - k]
           T == {k \in 0 .. end : Same(k)}
<1>10. /\ of \in [1 .. end + 1 -> SUBSET (1 .. cl + 1)]
       /\ of[end + 1] = {cl + 1}
       /\ from \in [1 .. n + 1 -> SUBSET (1 .. m + 1)]
       /\ from[n + 1] = {m + 1}
  BY <1>3, <1>4, <1>5, <1>6, <1>7, <1>8, <1>9 DEF Table
<1>11. 0 \in T
  <2>1. (end + 1) - 0 = end + 1 /\ (n + 1) - 0 = n + 1 /\ 0 \in 0 .. end
    BY <1>8
  <2>2. \A i \in 1 .. cl + 1 : i = cl + 1 <=> (x + i) - 1 = m + 1
    BY <1>3, <1>9
  <2>3. Same(0)
    BY <1>10, <2>1, <2>2
  <2> HIDE DEF Same
  <2> QED
    BY <2>1, <2>3
<1>12. ASSUME NEW k \in 0 .. end - 1, k \in T PROVE k + 1 \in T
  <2>1. PICK u : u = end - k
    OBVIOUS
  <2>2. PICK v : v = n - k
    OBVIOUS
  <2>3. /\ u \in 1 .. end /\ v \in 1 .. n /\ v = (y + u) - 1
        /\ (end + 1) - k = u + 1 /\ (n + 1) - k = v + 1
        /\ (end + 1) - (k + 1) = u /\ (n + 1) - (k + 1) = v
    BY <1>4, <1>8, <2>1, <2>2
  <2>4. d[u] = b[v]
    BY <1>6, <1>8, <2>3
  <2>5. of[u] = IF d[u] = Wildcard THEN {j \in 1 .. cl + 1 : \E r \in of[u + 1] : j <= r}
                ELSE {j \in 1 .. cl : c[j] = d[u] /\ j + 1 \in of[u + 1]}
    <3>1. Len(c) = cl /\ Len(d) = end
      BY <1>5, <1>6, <1>8, <1>9
    <3> QED
      BY <1>7, <2>3, <3>1 DEF Table
  <2>6. from[v] = IF b[v] = Wildcard THEN {j \in 1 .. m + 1 : \E r \in from[v + 1] : j <= r}
                  ELSE {j \in 1 .. m : a[j] = b[v] /\ j + 1 \in from[v + 1]}
    BY <1>3, <1>4, <2>3 DEF Table
  <2>7. of[u + 1] \subseteq 1 .. cl + 1 /\ from[v + 1] \subseteq 1 .. m + 1
    <3>1. u + 1 \in 1 .. end + 1 /\ v + 1 \in 1 .. n + 1
      BY <1>4, <1>8, <2>3
    <3> QED
      BY <1>10, <3>1
  <2>8. \A i \in 1 .. cl + 1 : i \in of[u + 1] <=> (x + i) - 1 \in from[v + 1]
    BY <1>12, <2>3
  <2>9. ASSUME NEW i \in 1 .. cl + 1 PROVE i \in of[u] <=> (x + i) - 1 \in from[v]
    <3>1. PICK j \in 1 .. m + 1 : j = (x + i) - 1
      BY <1>3, <1>9
    <3>2. CASE b[v] = Wildcard
      <4>1. ASSUME NEW r \in of[u + 1], i <= r PROVE \E q \in from[v + 1] : j <= q
        <5>1. r \in 1 .. cl + 1
          BY <2>7
        <5>2. (x + r) - 1 \in from[v + 1] /\ j <= (x + r) - 1
          BY <1>3, <1>9, <2>8, <3>1, <4>1, <5>1
        <5> QED
          BY <5>2
      <4>2. ASSUME NEW q \in from[v + 1], j <= q PROVE \E r \in of[u + 1] : i <= r
        <5>1. PICK r : r = (q - x) + 1
          OBVIOUS
        <5>2. q \in 1 .. m + 1
          BY <2>7, <4>2
        <5>3. r \in 1 .. cl + 1 /\ i <= r /\ q = (x + r) - 1
          BY <1>3, <1>9, <3>1, <4>2, <5>1, <5>2
        <5> QED
          BY <2>8, <5>3
      <4>3. i \in of[u] <=> \E r \in of[u + 1] : i <= r
        BY <2>4, <2>5, <3>2
      <4>4. j \in from[v] <=> \E q \in from[v + 1] : j <= q
        BY <2>6, <3>2
      <4> QED
        BY <3>1, <4>1, <4>2, <4>3, <4>4
    <3>3. CASE b[v] # Wildcard
      <4>1. i \in of[u] <=> i \in 1 .. cl /\ c[i] = d[u] /\ i + 1 \in of[u + 1]
        BY <2>4, <2>5, <3>3
      <4>2. j \in from[v] <=> j \in 1 .. m /\ a[j] = b[v] /\ j + 1 \in from[v + 1]
        BY <2>6, <3>3
      <4>3. i \in 1 .. cl <=> j \in 1 .. m
        BY <1>3, <1>9, <3>1
      <4>4. CASE i \in 1 .. cl
        <5>1. c[i] = a[j]
          BY <1>5, <1>9, <3>1, <4>4
        <5>2. PICK e \in 1 .. cl + 1 : e = i + 1 /\ (x + e) - 1 = j + 1
          BY <1>3, <1>9, <3>1, <4>4
        <5>3. i + 1 \in of[u + 1] <=> j + 1 \in from[v + 1]
          BY <2>8, <5>2
        <5> QED
          BY <2>4, <3>1, <4>1, <4>2, <4>3, <5>1, <5>3
      <4>5. CASE i \notin 1 .. cl
        BY <3>1, <4>1, <4>2, <4>3, <4>5
      <4> QED
        BY <4>4, <4>5
    <3> QED
      BY <3>2, <3>3
  <2>10. k + 1 \in 0 .. end
    BY <1>8
  <2> QED
    BY <2>3, <2>9, <2>10
<1>13. end \in T
  <2>1. \A k \in 0 .. end : k \in T
    <3> HIDE DEF T
    <3> QED
      BY <1>8, <1>11, <1>12, UpToNumber
  <2>2. end \in 0 .. end
    BY <1>8
  <2> HIDE DEF T
  <2> QED
    BY <2>1, <2>2
<1>14. 1 \in of[1] <=> x \in from[y]
  <2>1. /\ (end + 1) - end = 1 /\ (n + 1) - end = y
        /\ 1 \in 1 .. cl + 1 /\ (x + 1) - 1 = x
    BY <1>3, <1>4, <1>8, <1>9
  <2>2. Same(end)
    BY <1>13
  <2> QED
    BY <2>1, <2>2
<1> QED
  BY <1>1, <1>2, <1>7, <1>14

(***************************************************************************)
(* While the last wildcard is remembered, the pattern behind it that was   *)
(* gone through is as long as the subject that was, and has no wildcard.   *)
(***************************************************************************)
Segment ==
  starP # 0 => /\ starP + (s - starS) <= p
               /\ s <= Len(subject) => starP + (s - starS) = p
               /\ \A k \in starP .. (starP + (s - starS)) - 1 : pattern[k] # Wildcard

Left(from) == s \in from[p] \/ (starP # 0 /\ \E r \in from[starP] : starS < r)

\* In terms of the table: what is left matches iff the whole does.
Exact(from) ==
  /\ Table(subject, pattern, from)
  /\ result = "running" => (1 \in from[1] <=> Left(from))
  /\ result # "running" => (result = "yes" <=> 1 \in from[1])

MatchInv == LikeInv /\ Segment /\ \E from : Exact(from)

(***************************************************************************)
(* A stretch of the pattern without wildcards takes one character each.    *)
(***************************************************************************)
LEMMA Slide ==
  ASSUME NEW a, NEW b, Len(a) \in Nat, Len(b) \in Nat, NEW from, Table(a, b, from),
         NEW u \in 1 .. Len(b) + 1, NEW n \in Nat, u + n <= Len(b) + 1,
         \A k \in u .. (u + n) - 1 : b[k] # Wildcard,
         NEW r \in from[u]
  PROVE  r + n \in from[u + n] /\ r + n \in 1 .. Len(a) + 1
<1> DEFINE T == {k \in 0 .. n : r + k \in from[u + k]}
<1>1. from \in [1 .. Len(b) + 1 -> SUBSET (1 .. Len(a) + 1)]
  BY DEF Table
<1>2. r \in Nat
  BY <1>1
<1>3. 0 \in T
  <2>1. r + 0 = r /\ u + 0 = u /\ 0 \in 0 .. n
    BY <1>2
  <2> QED
    BY <2>1
<1>4. ASSUME NEW k \in 0 .. n - 1, k \in T PROVE k + 1 \in T
  <2>1. PICK v \in 1 .. Len(b) : v = u + k
    OBVIOUS
  <2>2. b[v] # Wildcard
    BY <2>1
  <2>3. from[v] = {y \in 1 .. Len(a) : a[y] = b[v] /\ y + 1 \in from[v + 1]}
    BY <2>2 DEF Table
  <2>4. (r + k) + 1 \in from[v + 1]
    BY <1>4, <2>1, <2>3
  <2>5. (r + k) + 1 = r + (k + 1) /\ v + 1 = u + (k + 1) /\ k + 1 \in 0 .. n
    BY <1>2, <2>1
  <2> QED
    BY <2>4, <2>5
<1>5. n \in T
  <2>1. \A k \in 0 .. n : k \in T
    <3> HIDE DEF T
    <3> QED
      BY <1>3, <1>4, UpToNumber
  <2>2. n \in 0 .. n
    OBVIOUS
  <2> HIDE DEF T
  <2> QED
    BY <2>1, <2>2
<1>6. u + n \in 1 .. Len(b) + 1
  OBVIOUS
<1> QED
  BY <1>1, <1>5, <1>6

(***************************************************************************)
(* A match that lets the last wildcard take more characters goes through   *)
(* the end of the stretch, further on in the subject.                      *)
(***************************************************************************)
LEMMA Resumed ==
  ASSUME LikeInv, Segment, NEW from, Table(subject, pattern, from),
         starP # 0, NEW r \in from[starP], starS < r
  PROVE  \E q \in from[starP + (s - starS)] : s < q /\ q \in 1 .. SubjectEnd
<1>1. /\ Len(subject) \in Nat /\ Len(pattern) \in Nat
      /\ starP \in 2 .. p /\ starS \in 1 .. s /\ p \in 1 .. Len(pattern) + 1
      /\ s \in 1 .. Len(subject) + 1
  BY DEF LikeInv, Texts, PointersInBounds, SubjectEnd, PatternEnd
<1>2. PICK n \in Nat : n = s - starS
  BY <1>1
<1>3. starP \in 1 .. Len(pattern) + 1 /\ starP + n <= Len(pattern) + 1
  BY <1>1, <1>2 DEF Segment
<1>4. \A k \in starP .. (starP + n) - 1 : pattern[k] # Wildcard
  BY <1>2 DEF Segment
<1>5. r + n \in from[starP + n] /\ r + n \in 1 .. Len(subject) + 1
  BY <1>1, <1>3, <1>4, Slide
<1>6. r \in Nat
  BY <1>1, <1>3 DEF Table
<1>7. s < r + n
  BY <1>1, <1>2, <1>6
<1> QED
  BY <1>2, <1>5, <1>7 DEF SubjectEnd

LEMMA MatchStart == LikeInit => MatchInv
<1> SUFFICES ASSUME LikeInit PROVE MatchInv
  OBVIOUS
<1>1. LikeInv
  BY LikeInitInvariant
<1>2. PICK from : Table(subject, pattern, from)
  <2>1. subject \in Seq(Char) /\ pattern \in Seq(Char)
    BY <1>1 DEF LikeInv, Texts
  <2> QED
    BY <2>1, MatchesTabulates
<1>3. s = 1 /\ p = 1 /\ starP = 0 /\ result = "running"
  BY DEF LikeInit
<1>4. Exact(from)
  BY <1>2, <1>3 DEF Exact, Left
<1> QED
  BY <1>1, <1>3, <1>4 DEF MatchInv, Segment

LEMMA MatchStep == MatchInv /\ [LikeNext]_likeVars => MatchInv'
<1> SUFFICES ASSUME MatchInv, [LikeNext]_likeVars PROVE MatchInv'
  OBVIOUS
<1>1. PICK from : Exact(from)
  BY DEF MatchInv
<1>2. LikeInv /\ Segment /\ LikeInv'
  BY LikeStepInvariant DEF MatchInv
<1>3. subject' = subject /\ pattern' = pattern
  BY DEF LikeNext, likeVars, TakeWildcard, TakeChar, Backtrack, Mismatch, Trailing, Return
<1>4. /\ Len(subject) \in Nat /\ Len(pattern) \in Nat
      /\ s \in 1 .. Len(subject) + 1 /\ p \in 1 .. Len(pattern) + 1
      /\ starP \in Nat /\ starS \in Nat
      /\ starP # 0 => starP \in 2 .. p /\ starS \in 1 .. s
  <2>1. Len(subject) \in Nat /\ Len(pattern) \in Nat
    BY <1>2 DEF LikeInv, Texts
  <2>2. PointersInBounds
    BY <1>2 DEF LikeInv
  <2> QED
    BY <2>1, <2>2 DEF PointersInBounds, SubjectEnd, PatternEnd
<1>5. /\ Table(subject, pattern, from)
      /\ from \in [1 .. Len(pattern) + 1 -> SUBSET (1 .. Len(subject) + 1)]
      /\ from[Len(pattern) + 1] = {Len(subject) + 1}
      /\ result = "running" => (1 \in from[1] <=> Left(from))
      /\ result # "running" => (result = "yes" <=> 1 \in from[1])
  BY <1>1 DEF Exact, Table
<1>6. Table(subject, pattern, from)'
  BY <1>3, <1>5 DEF Table
<1>7. SUFFICES /\ Segment'
               /\ result' = "running" => (1 \in from[1] <=> Left(from)')
               /\ result' # "running" => (result' = "yes" <=> 1 \in from[1])
  BY <1>2, <1>6 DEF MatchInv, Exact
<1>8. ASSUME pattern[p] = Wildcard, p # Len(pattern) + 1
      PROVE  from[p] = {x \in 1 .. Len(subject) + 1 : \E r \in from[p + 1] : x <= r}
  <2>1. p \in 1 .. Len(pattern)
    BY <1>4, <1>8
  <2> QED
    BY <1>5, <1>8, <2>1 DEF Table
<1>9. ASSUME pattern[p] # Wildcard, p # Len(pattern) + 1
      PROVE  from[p] = {x \in 1 .. Len(subject) : subject[x] = pattern[p] /\ x + 1 \in from[p + 1]}
  <2>1. p \in 1 .. Len(pattern)
    BY <1>4, <1>9
  <2> QED
    BY <1>5, <1>9, <2>1 DEF Table
<1>10. CASE UNCHANGED likeVars
  BY <1>2, <1>5, <1>10 DEF likeVars, Segment, Left
<1>11. CASE TakeWildcard
  <2>1. /\ result = "running" /\ s <= Len(subject) /\ p <= Len(pattern) /\ pattern[p] = Wildcard
        /\ p' = p + 1 /\ starP' = p + 1 /\ starS' = s /\ s' = s /\ result' = result
    BY <1>4, <1>11 DEF TakeWildcard, Looping, AtWildcard, SubjectEnd, PatternEnd
  <2>2. Segment'
    BY <1>4, <2>1 DEF Segment
  <2>3. s \in from[p] <=> \E r \in from[p + 1] : s <= r
    BY <1>4, <1>8, <2>1
  <2>4. ASSUME starP # 0, NEW r \in from[starP], starS < r PROVE s \in from[p]
    <3>1. starP + (s - starS) = p
      BY <1>2, <2>1, <2>4 DEF Segment
    <3>2. PICK q \in from[p] : s < q /\ q \in 1 .. SubjectEnd
      BY <1>2, <1>5, <2>4, <3>1, Resumed
    <3>3. PICK t \in from[p + 1] : q <= t
      BY <1>4, <1>8, <2>1, <3>2
    <3>4. t \in Nat
      BY <1>4, <1>5, <2>1
    <3>5. s <= t
      BY <1>4, <3>2, <3>3, <3>4 DEF SubjectEnd
    <3> QED
      BY <2>3, <3>5
  <2>5. Left(from) <=> s \in from[p]
    BY <2>4 DEF Left
  <2>6. Left(from)' <=> \E r \in from[p + 1] : s <= r
    <3>1. Left(from)' <=> s \in from[p + 1] \/ \E r \in from[p + 1] : s < r
      BY <1>4, <2>1 DEF Left
    <3>2. \A r \in from[p + 1] : r \in Nat
      BY <1>4, <1>5, <2>1
    <3> QED
      BY <1>4, <3>1, <3>2
  <2> QED
    BY <1>5, <2>1, <2>2, <2>3, <2>5, <2>6
<1>12. CASE TakeChar
  <2>1. /\ result = "running" /\ s <= Len(subject) /\ p <= Len(pattern)
        /\ pattern[p] # Wildcard /\ pattern[p] = subject[s]
        /\ p' = p + 1 /\ s' = s + 1 /\ starP' = starP /\ starS' = starS /\ result' = result
    BY <1>4, <1>12 DEF TakeChar, Looping, AtEqual, SubjectEnd, PatternEnd
  <2>2. Segment'
    <3> SUFFICES ASSUME starP # 0
                 PROVE  /\ starP + ((s + 1) - starS) = p + 1
                        /\ \A k \in starP .. (starP + ((s + 1) - starS)) - 1 : pattern[k] # Wildcard
      BY <1>3, <1>4, <2>1 DEF Segment
    <3>1. starP + (s - starS) = p /\ \A k \in starP .. p - 1 : pattern[k] # Wildcard
      BY <1>2, <2>1 DEF Segment
    <3>2. starP + ((s + 1) - starS) = p + 1
      BY <1>4, <3>1
    <3>3. \A k \in starP .. p : k = p \/ k \in starP .. p - 1
      BY <1>4
    <3>4. (starP + ((s + 1) - starS)) - 1 = p
      BY <1>4, <3>2
    <3> QED
      BY <2>1, <3>1, <3>2, <3>3, <3>4
  <2>3. s \in from[p] <=> s + 1 \in from[p + 1]
    BY <1>4, <1>9, <2>1
  <2>4. Left(from)' <=> Left(from)
    BY <2>1, <2>3 DEF Left
  <2> QED
    BY <1>5, <2>1, <2>2, <2>4
<1>13. ASSUME Looping, ~AtWildcard, ~AtEqual PROVE s \notin from[p]
  <2>1. s <= Len(subject)
    BY <1>4, <1>13 DEF Looping, SubjectEnd
  <2>2. CASE p = Len(pattern) + 1
    BY <1>4, <1>5, <2>1, <2>2
  <2>3. CASE p # Len(pattern) + 1
    <3>1. pattern[p] # Wildcard /\ pattern[p] # subject[s]
      BY <1>4, <1>13, <2>3 DEF AtWildcard, AtEqual, PatternEnd
    <3> QED
      BY <1>9, <2>3, <3>1
  <2> QED
    BY <2>2, <2>3
<1>14. CASE Backtrack
  <2>1. /\ result = "running" /\ s <= Len(subject) /\ starP # 0 /\ s \notin from[p]
        /\ p' = starP /\ s' = starS + 1 /\ starP' = starP /\ starS' = starS + 1 /\ result' = result
    BY <1>4, <1>13, <1>14 DEF Backtrack, Looping, SubjectEnd
  <2>2. Segment'
    BY <1>3, <1>4, <2>1 DEF Segment
  <2>3. Left(from) <=> \E r \in from[starP] : starS < r
    BY <2>1 DEF Left
  <2>4. Left(from)' <=> starS + 1 \in from[starP] \/ \E r \in from[starP] : starS + 1 < r
    BY <2>1 DEF Left
  <2>5. \A r \in from[starP] : r \in Nat
    BY <1>4, <1>5, <2>1
  <2>6. Left(from)' <=> Left(from)
    BY <1>4, <2>3, <2>4, <2>5
  <2> QED
    BY <1>5, <2>1, <2>2, <2>6
<1>15. CASE Mismatch
  <2>1. /\ result = "running" /\ starP = 0 /\ s \notin from[p]
        /\ p' = p /\ s' = s /\ starP' = starP /\ starS' = starS /\ result' = "no"
    BY <1>13, <1>15 DEF Mismatch, Looping
  <2>2. Segment'
    BY <2>1 DEF Segment
  <2>3. ~Left(from)
    BY <2>1 DEF Left
  <2> QED
    BY <1>5, <2>1, <2>2, <2>3
<1>16. CASE Trailing
  <2>1. /\ result = "running" /\ s = Len(subject) + 1 /\ p <= Len(pattern) /\ pattern[p] = Wildcard
        /\ p' = p + 1 /\ s' = s /\ starP' = starP /\ starS' = starS /\ result' = result
    BY <1>4, <1>16 DEF Trailing, AtWildcard, SubjectEnd, PatternEnd
  <2>2. Segment'
    BY <1>2, <1>3, <1>4, <2>1 DEF Segment
  <2>3. \A r \in from[p + 1] : r \in 1 .. Len(subject) + 1
    BY <1>4, <1>5, <2>1
  <2>4. s \in from[p] <=> s \in from[p + 1]
    BY <1>4, <1>8, <2>1, <2>3
  <2>5. Left(from)' <=> Left(from)
    BY <2>1, <2>4 DEF Left
  <2> QED
    BY <1>5, <2>1, <2>2, <2>5
<1>17. CASE Return
  <2>1. /\ result = "running" /\ s = Len(subject) + 1
        /\ p' = p /\ s' = s /\ starP' = starP /\ starS' = starS
        /\ result' = IF p = Len(pattern) + 1 THEN "yes" ELSE "no"
        /\ p # Len(pattern) + 1 => pattern[p] # Wildcard
    BY <1>4, <1>17 DEF Return, AtWildcard, SubjectEnd, PatternEnd
  <2>2. Segment'
    BY <1>2, <1>3, <2>1 DEF Segment
  <2>3. ASSUME starP # 0, NEW r \in from[starP], starS < r PROVE FALSE
    <3>1. PICK q \in from[starP + (s - starS)] : s < q /\ q \in 1 .. SubjectEnd
      BY <1>2, <1>5, <2>3, Resumed
    <3> QED
      BY <1>4, <2>1, <3>1 DEF SubjectEnd
  <2>4. Left(from) <=> s \in from[p]
    BY <2>3 DEF Left
  <2>5. s \in from[p] <=> p = Len(pattern) + 1
    BY <1>4, <1>5, <1>9, <2>1
  <2> QED
    BY <1>5, <2>1, <2>2, <2>4, <2>5
<1> QED
  BY <1>10, <1>11, <1>12, <1>14, <1>15, <1>16, <1>17 DEF LikeNext

(***************************************************************************)
(* The matching loop answers what a match is, and what is left at a step,  *)
(* here or from a later resume of the last wildcard, decides it: the       *)
(* greedy choice to forget all wildcards but the last loses nothing, for   *)
(* every subject and pattern.                                              *)
(***************************************************************************)
THEOREM MatchingStaysExact == LikeSpec => []MatchingIsExact
<1>1. MatchInv => MatchingIsExact
  <2> SUFFICES ASSUME MatchInv PROVE MatchingIsExact
    OBVIOUS
  <2>1. PICK from : Exact(from)
    BY DEF MatchInv
  <2>2. /\ subject \in Seq(Char) /\ pattern \in Seq(Char)
        /\ s \in 1 .. Len(subject) + 1 /\ p \in 1 .. Len(pattern) + 1
        /\ starP \in Nat /\ starS \in Nat
        /\ starP # 0 => starP \in 2 .. p /\ starS \in 1 .. s
    BY DEF MatchInv, LikeInv, Texts, PointersInBounds, SubjectEnd, PatternEnd
  <2>3. /\ Table(subject, pattern, from) /\ from \in [1 .. Len(pattern) + 1 -> SUBSET (1 .. Len(subject) + 1)]
    BY <2>1 DEF Exact, Table
  <2>4. Len(subject) \in Nat /\ Len(pattern) \in Nat
    BY <2>2
  <2>5. \A x \in 1 .. Len(subject) + 1, y \in 1 .. Len(pattern) + 1 :
          Matches(SubSeq(subject, x, Len(subject)), SubSeq(pattern, y, Len(pattern))) <=> x \in from[y]
    BY <2>2, <2>3, MatchesOfEnds
  <2>6. Matches(subject, pattern) <=> 1 \in from[1]
    <3>1. \A a \in Seq(Char) : SubSeq(a, 1, Len(a)) = a
      OBVIOUS
    <3>2. 1 \in 1 .. Len(subject) + 1 /\ 1 \in 1 .. Len(pattern) + 1
      BY <2>4
    <3> QED
      BY <2>2, <2>5, <3>1, <3>2
  <2>7. \A a, b : Matches(a, b) \in BOOLEAN
    BY DEF Matches
  <2>8. AnswersMatches
    <3>1. result # "running" => (result = "yes" <=> Matches(subject, pattern))
      BY <2>1, <2>6 DEF Exact
    <3> QED
      BY <2>7, <3>1 DEF AnswersMatches
  <2>9. NoMatchLost
    <3> DEFINE Here == Matches(SubSeq(subject, s, Len(subject)), SubSeq(pattern, p, Len(pattern)))
               From(r) == Matches(SubSeq(subject, r, Len(subject)), SubSeq(pattern, starP, Len(pattern)))
               Later == starP # 0 /\ \E r \in (starS + 1) .. SubjectEnd : From(r)
    <3>1. Here <=> s \in from[p]
      BY <2>2, <2>5
    <3>2. ASSUME starP # 0
          PROVE  /\ \A r \in (starS + 1) .. SubjectEnd : (From(r) <=> r \in from[starP]) /\ starS < r
                 /\ \A r \in from[starP] : starS < r => r \in (starS + 1) .. SubjectEnd
      <4>1. /\ starP \in 1 .. Len(pattern) + 1
            /\ \A r \in (starS + 1) .. SubjectEnd : r \in 1 .. Len(subject) + 1 /\ starS < r
        BY <2>2, <2>4, <3>2 DEF SubjectEnd
      <4>2. \A r \in from[starP] : r \in 1 .. Len(subject) + 1
        BY <2>3, <4>1
      <4>3. \A r \in (starS + 1) .. SubjectEnd : From(r) <=> r \in from[starP]
        BY <2>5, <4>1
      <4>4. \A r \in from[starP] : starS < r => r \in (starS + 1) .. SubjectEnd
        BY <2>2, <2>4, <4>2 DEF SubjectEnd
      <4> QED
        BY <4>1, <4>3, <4>4
    <3> HIDE DEF From
    <3>3. Later <=> starP # 0 /\ \E r \in from[starP] : starS < r
      BY <3>2
    <3> HIDE DEF Here, Later
    <3>4. result = "running" => (Matches(subject, pattern) <=> Here \/ Later)
      BY <2>1, <2>6, <3>1, <3>3 DEF Exact, Left
    <3> QED
      BY <2>7, <3>4 DEF NoMatchLost, Here, Later, From
  <2> QED
    BY <2>8, <2>9 DEF MatchingIsExact
<1> QED
  BY MatchStart, MatchStep, <1>1, PTL DEF LikeSpec
-----------------------------------------------------------------------------
(***************************************************************************)
(* Ids are distinct in every store, also in one whose loads were never     *)
(* acknowledged: what AckedIsLoaded lacks to be inductive.                 *)
(***************************************************************************)
DistinctIds(list) ==
  \A k, l \in DOMAIN list : list[k].policyId = list[l].policyId => k = l

AllDistinct == \A st \in StoreObject : DistinctIds(sets[st])

AckKept(a, list) ==
  \E k \in DOMAIN list : list[k].policyId = a.policyId /\ list[k].text = a.text

AllKept == \A a \in acked : AckKept(a, sets[a.store])

IInv == TypeOK /\ AllDistinct /\ AllKept

-----------------------------------------------------------------------------
(***************************************************************************)
(* What appending a set with a free id does to a store.                    *)
(***************************************************************************)
LEMMA AppendEntry ==
  ASSUME NEW list \in Seq(PolicySet), NEW e \in PolicySet,
         \A k \in DOMAIN list : list[k].policyId # e.policyId, DistinctIds(list)
  PROVE  /\ Append(list, e) \in Seq(PolicySet)
         /\ DistinctIds(Append(list, e))
         /\ \A a : AckKept(a, list) => AckKept(a, Append(list, e))
         /\ \A a : a.policyId = e.policyId /\ a.text = e.text => AckKept(a, Append(list, e))
<1> DEFINE new == Append(list, e)
<1>1. /\ new \in Seq(PolicySet) /\ Len(list) \in Nat /\ DOMAIN list = 1 .. Len(list)
      /\ DOMAIN new = 1 .. Len(list) + 1
      /\ (\A k \in 1 .. Len(list) : new[k] = list[k]) /\ new[Len(list) + 1] = e
  OBVIOUS
<1> HIDE DEF new
<1>2. DistinctIds(new)
  BY <1>1 DEF DistinctIds
<1>3. \A a : AckKept(a, list) => AckKept(a, new)
  BY <1>1 DEF AckKept
<1>4. \A a : a.policyId = e.policyId /\ a.text = e.text => AckKept(a, new)
  BY <1>1 DEF AckKept
<1> QED
  BY <1>1, <1>2, <1>3, <1>4 DEF new

(***************************************************************************)
(* Registering keeps what is in every store and adds a load that succeeds. *)
(***************************************************************************)
LEMMA RegisterKeeps ==
  ASSUME IInv, NEW st \in StoreObject, NEW pid \in PolicyId, NEW text \in Text, NEW b \in HeapBlock,
         Register(st, pid, text, b)
  PROVE  /\ sets' \in [StoreObject -> Seq(PolicySet)]
         /\ \A t \in StoreObject : DistinctIds(sets'[t])
         /\ \A a, t : t \in StoreObject /\ AckKept(a, sets[t]) => AckKept(a, sets'[t])
         /\ Registers(st, pid, text) =>
              /\ text \in WellFormed
              /\ \A a : a.policyId = pid /\ a.text = text => AckKept(a, sets'[st])
<1>1. sets \in [StoreObject -> Seq(PolicySet)] /\ sets[st] \in Seq(PolicySet)
  BY DEF IInv, TypeOK
<1>2. CASE Registers(st, pid, text)
  <2> DEFINE e == NewSet(pid, text, b)
  <2>1. text \in WellFormed /\ e \in PolicySet /\ e.policyId = pid /\ e.text = text
    BY <1>2 DEF Registers, NewSet, PolicySet
  <2>2. \A k \in DOMAIN sets[st] : sets[st][k].policyId # e.policyId
    BY <1>2, <2>1 DEF Registers, Loaded
  <2>3. DistinctIds(sets[st])
    BY DEF IInv, AllDistinct
  <2>4. sets' = [sets EXCEPT ![st] = Append(sets[st], e)]
    BY <1>2 DEF Register
  <2> HIDE DEF e
  <2>5. /\ Append(sets[st], e) \in Seq(PolicySet)
        /\ DistinctIds(Append(sets[st], e))
        /\ \A a : AckKept(a, sets[st]) => AckKept(a, Append(sets[st], e))
        /\ \A a : a.policyId = pid /\ a.text = text => AckKept(a, Append(sets[st], e))
    BY <1>1, <2>1, <2>2, <2>3, AppendEntry
  <2>6. /\ sets'[st] = Append(sets[st], e)
        /\ \A t \in StoreObject \ {st} : sets'[t] = sets[t]
        /\ sets' \in [StoreObject -> Seq(PolicySet)]
    BY <1>1, <2>4, <2>5
  <2> QED
    BY <2>1, <2>5, <2>6 DEF IInv, AllDistinct
<1>3. CASE ~Registers(st, pid, text)
  <2>1. sets' = sets
    BY <1>1, <1>3 DEF Register
  <2> QED
    BY <1>1, <1>3, <2>1 DEF IInv, AllDistinct
<1> QED
  BY <1>2, <1>3

(***************************************************************************)
(* A load that ends "ok" has been registered; the history records no       *)
(* other.                                                                  *)
(***************************************************************************)
LEMMA AckKeeps ==
  ASSUME IInv, NEW st \in StoreObject, NEW pid \in PolicyId, NEW text \in Text, NEW b \in HeapBlock,
         Register(st, pid, text, b),
         acked' = acked \/ (Registers(st, pid, text) /\ acked' = Acked(st, pid, text))
  PROVE  acked' \subseteq Ack /\ AllKept' /\ AllDistinct'
<1> DEFINE new == [store |-> st, policyId |-> pid, text |-> text]
<1>1. /\ \A t \in StoreObject : DistinctIds(sets'[t])
      /\ \A a, t : t \in StoreObject /\ AckKept(a, sets[t]) => AckKept(a, sets'[t])
      /\ Registers(st, pid, text) =>
              /\ text \in WellFormed
              /\ \A a : a.policyId = pid /\ a.text = text => AckKept(a, sets'[st])
  BY RegisterKeeps
<1>2. acked \subseteq Ack /\ \A a \in acked : a.store \in StoreObject /\ AckKept(a, sets[a.store])
  BY DEF IInv, TypeOK, AllKept, Ack
<1>3. \A a \in acked' : a \in acked \/ (a = new /\ Registers(st, pid, text))
  BY DEF Acked
<1>4. Registers(st, pid, text) => new \in Ack /\ AckKept(new, sets'[st]) /\ new.store = st
  BY <1>1 DEF Ack
<1> HIDE DEF new
<1>5. \A a \in acked' : a \in Ack /\ AckKept(a, sets'[a.store])
  BY <1>1, <1>2, <1>3, <1>4
<1> QED
  BY <1>1, <1>5 DEF AllKept, AllDistinct

LEMMA CallsPop ==
  ASSUME TypeOK, calls # <<>>
  PROVE  /\ Front(calls) \in Seq(Call) /\ Len(Front(calls)) <= MaxCalls
         /\ Reading.store \in StoreObject /\ Reading.policyId \in PolicyId
<1>1. calls \in Seq(Call) /\ Len(calls) \in Nat /\ Len(calls) <= MaxCalls /\ Len(calls) # 0
  BY DEF TypeOK
<1>2. Reading \in Call
  BY <1>1 DEF Reading
<1>3. Front(calls) = [k \in 1 .. Len(calls) - 1 |-> calls[k]]
  BY <1>1 DEF Front
<1>4. Front(calls) \in Seq(Call) /\ Len(Front(calls)) = Len(calls) - 1
  <2> DEFINE n == Len(calls) - 1
  <2>1. n \in Nat /\ \A k \in 1 .. n : calls[k] \in Call
    BY <1>1
  <2> QED
    BY <1>3, <2>1, LenProperties, SeqDef
<1> QED
  BY <1>1, <1>2, <1>4, MaxCallsAssumption DEF Call

LEMMA InitInv == Init => IInv
  <1> SUFFICES ASSUME Init PROVE IInv
    OBVIOUS
  <1>1. calls = <<>> /\ calls \in Seq(Call) /\ Len(calls) <= MaxCalls
    BY MaxCallsAssumption DEF Init
  <1>2. sets \in [StoreObject -> Seq(PolicySet)] /\ AllDistinct
    BY DEF Init, AllDistinct, DistinctIds
  <1> QED
    BY <1>1, <1>2 DEF Init, IInv, TypeOK, AllKept, Ending

LEMMA NextInv == IInv /\ [Next]_vars => IInv'
  <1> SUFFICES ASSUME IInv, [Next]_vars PROVE IInv'
    OBVIOUS
  <1>0. TypeOK
    BY DEF IInv
  <1>a. ASSUME UNCHANGED <<sets, acked>> PROVE AllDistinct' /\ AllKept'
    BY <1>a DEF IInv, AllDistinct, AllKept
  <1>1. ASSUME NEW b \in HeapBlock, NEW text \in Text, NewString(b, text) PROVE IInv'
    BY <1>0, <1>1, <1>a DEF NewString, IInv, TypeOK, Ending
  <1>2. ASSUME NEW b \in HeapBlock, DropString(b) PROVE IInv'
    BY <1>0, <1>2, <1>a DEF DropString, IInv, TypeOK, Ending
  <1>3. ASSUME NEW st \in StoreObject, NEW i \in StoreId, Construct(st, i) PROVE IInv'
    BY <1>0, <1>3, <1>a DEF Construct, IInv, TypeOK, Ending
  <1>4. ASSUME NEW st \in StoreObject, NEW pid \in PolicyId, NEW b \in HeapBlock, LoadString(st, pid, b)
        PROVE  IInv'
    <2>1. /\ Register(st, pid, bytes[b], b) /\ bytes[b] \in Text
          /\ acked' = acked \/ (Registers(st, pid, bytes[b]) /\ acked' = Acked(st, pid, bytes[b]))
          /\ last' \in Ending /\ UNCHANGED <<id, bytes, owned, calls>>
      BY <1>0, <1>4 DEF LoadString, TypeOK, Ending
    <2>2. acked' \subseteq Ack /\ AllKept' /\ AllDistinct' /\ sets' \in [StoreObject -> Seq(PolicySet)]
      BY <2>1, AckKeeps, RegisterKeeps
    <2> QED
      BY <1>0, <2>1, <2>2 DEF IInv, TypeOK
  <1>5. ASSUME NEW st \in StoreObject, NEW pid \in PolicyId, OpenFile(st, pid) PROVE IInv'
    <2> DEFINE opened == [store |-> st, policyId |-> pid]
    <2>1. calls' = Append(calls, opened) /\ Len(calls) < MaxCalls /\ calls \in Seq(Call)
      BY <1>0, <1>5 DEF OpenFile, TypeOK
    <2>2. opened \in Call
      BY DEF Call
    <2> HIDE DEF opened
    <2>3. calls' \in Seq(Call) /\ Len(calls') <= MaxCalls
      BY <2>1, <2>2, MaxCallsAssumption
    <2> QED
      BY <1>0, <1>5, <1>a, <2>3 DEF OpenFile, IInv, TypeOK, Ending
  <1>6. ASSUME NEW st \in StoreObject, NEW pid \in PolicyId, OpenFails(st, pid) PROVE IInv'
    BY <1>0, <1>6, <1>a DEF OpenFails, IInv, TypeOK, Ending
  <1>7. CASE ReadFails
    BY <1>0, <1>7, <1>a, CallsPop DEF ReadFails, IInv, TypeOK, Ending
  <1>8. ASSUME NEW text \in Text, NEW b \in HeapBlock, NEW raised \in BOOLEAN,
               ReadDone(text, b, raised)
        PROVE  IInv'
    <2> DEFINE st == Reading.store
               pid == Reading.policyId
    <2>1. /\ st \in StoreObject /\ pid \in PolicyId
          /\ Front(calls) \in Seq(Call) /\ Len(Front(calls)) <= MaxCalls
      BY <1>0, <1>8, CallsPop DEF ReadDone
    <2>2. /\ Register(st, pid, text, b) /\ calls' = Front(calls)
          /\ bytes' = [bytes EXCEPT ![b] = text] /\ UNCHANGED <<id, owned>>
          /\ acked' = acked \/ (Registers(st, pid, text) /\ acked' = Acked(st, pid, text))
          /\ last' \in Ending
      BY <1>8 DEF ReadDone, Ending
    <2> HIDE DEF st, pid
    <2>3. acked' \subseteq Ack /\ AllKept' /\ AllDistinct' /\ sets' \in [StoreObject -> Seq(PolicySet)]
      BY <2>1, <2>2, AckKeeps, RegisterKeeps
    <2> QED
      BY <1>0, <2>1, <2>2, <2>3 DEF IInv, TypeOK
  <1>9. CASE UNCHANGED vars
    BY <1>0, <1>9, <1>a DEF vars, IInv, TypeOK
  <1> QED
    BY <1>1, <1>2, <1>3, <1>4, <1>5, <1>6, <1>7, <1>8, <1>9 DEF Next

(***************************************************************************)
(* The stores hold only texts that parse, and the call stack stays within  *)
(* its bound.                                                              *)
(***************************************************************************)
THEOREM StoreTypeCorrect == Spec => []TypeOK
<1>1. IInv => TypeOK
  BY DEF IInv
<1> QED
  BY <1>1, InitInv, NextInv, PTL DEF Spec

(***************************************************************************)
(* Every acknowledged load is in its store, once and with its own text,    *)
(* however loads nest.                                                     *)
(***************************************************************************)
THEOREM AckedLoadsStay == Spec => []AckedIsLoaded
<1>1. IInv => AckedIsLoaded
  BY DEF IInv, TypeOK, Ack, AllDistinct, DistinctIds, AllKept, AckKept, AckedIsLoaded
<1> QED
  BY <1>1, InitInv, NextInv, PTL DEF Spec

(***************************************************************************)
(* No call takes a policy set out of a store, replaces it or moves it.     *)
(***************************************************************************)
THEOREM StoresOnlyGrow == Spec => LoadsOnlyAppend
<1>1. IInv /\ [Next]_vars => [StoresGrow]_vars
  <2> SUFFICES ASSUME IInv, Next, NEW t \in StoreObject PROVE IsPrefix(sets[t], sets'[t])
    BY DEF StoresGrow
  <2>1. sets \in [StoreObject -> Seq(PolicySet)] /\ sets[t] \in Seq(PolicySet)
    BY DEF IInv, TypeOK
  <2>2. ASSUME sets' = sets PROVE IsPrefix(sets[t], sets'[t])
    BY <2>1, <2>2 DEF IsPrefix
  <2>3. ASSUME NEW st \in StoreObject, NEW pid \in PolicyId, NEW text \in Text, NEW b \in HeapBlock,
               Register(st, pid, text, b)
        PROVE  IsPrefix(sets[t], sets'[t])
    <3>1. CASE t = st /\ Registers(st, pid, text)
      <4> DEFINE e == NewSet(pid, text, b)
      <4>1. sets'[t] = Append(sets[t], e)
        BY <2>1, <2>3, <3>1 DEF Register
      <4> HIDE DEF e
      <4> QED
        BY <2>1, <4>1 DEF IsPrefix
    <3>2. CASE ~(t = st /\ Registers(st, pid, text))
      <4>1. sets'[t] = sets[t]
        BY <2>1, <2>3, <3>2 DEF Register
      <4> QED
        BY <2>1, <4>1 DEF IsPrefix
    <3> QED
      BY <3>1, <3>2
  <2>4. ASSUME NEW st \in StoreObject, NEW pid \in PolicyId, NEW b \in HeapBlock, LoadString(st, pid, b)
        PROVE  IsPrefix(sets[t], sets'[t])
    BY <2>3, <2>4 DEF LoadString, IInv, TypeOK
  <2>5. ASSUME NEW text \in Text, NEW b \in HeapBlock, NEW raised \in BOOLEAN,
               ReadDone(text, b, raised)
        PROVE  IsPrefix(sets[t], sets'[t])
    BY <2>3, <2>5, CallsPop DEF ReadDone, IInv
  <2> QED
    BY <2>2, <2>4, <2>5
      DEF Next, NewString, DropString, Construct, OpenFile, OpenFails, ReadFails
<1> QED
  BY <1>1, InitInv, NextInv, PTL DEF Spec, LoadsOnlyAppend

(***************************************************************************)
(* A load that ends in PolicyParseException leaves all stores as they      *)
(* were, whatever other loads it ran in or had run in it.                  *)
(***************************************************************************)
THEOREM RefusalsChangeNothing == Spec => RefusalChangesNothing
<1>1. IInv /\ [Next]_vars =>
        [last' = "PolicyParseException" => UNCHANGED <<id, sets>>]_vars
  <2> SUFFICES ASSUME IInv, Next, last' = "PolicyParseException" PROVE UNCHANGED <<id, sets>>
    OBVIOUS
  <2>1. sets \in [StoreObject -> Seq(PolicySet)]
    BY DEF IInv, TypeOK
  <2>2. ASSUME NEW st, NEW pid, NEW text, NEW b, Register(st, pid, text, b), ~Registers(st, pid, text)
        PROVE  sets' = sets
    BY <2>1, <2>2 DEF Register
  <2>3. ASSUME NEW st \in StoreObject, NEW pid \in PolicyId, NEW b \in HeapBlock, LoadString(st, pid, b)
        PROVE  UNCHANGED <<id, sets>>
    BY <2>2, <2>3 DEF LoadString
  <2>4. ASSUME NEW text \in Text, NEW b \in HeapBlock, NEW raised \in BOOLEAN, ReadDone(text, b, raised)
        PROVE  UNCHANGED <<id, sets>>
    <3>1. Register(Reading.store, Reading.policyId, text, b)
          /\ ~Registers(Reading.store, Reading.policyId, text) /\ id' = id
      BY <2>4 DEF ReadDone
    <3> QED
      BY <2>2, <3>1
  <2> QED
    BY <2>3, <2>4 DEF Next, NewString, DropString, Construct, OpenFile, OpenFails, ReadFails
<1> QED
  BY <1>1, InitInv, NextInv, PTL DEF Spec, RefusalChangesNothing
=============================================================================
