-------------------------------- MODULE Pool --------------------------------
(***************************************************************************)
(* The memory of a request, in two specifications.                         *)
(*                                                                         *)
(* php_cedar_pool_t: memory that is taken piece by piece and given back at *)
(* once.  Every piece is a block of its own behind a chunk, another block, *)
(* and the chunks are a list.  malloc may fail at each of its calls.       *)
(*                                                                         *)
(* php_cedar_array_t: an array in a pool that doubles when it is full.     *)
(* The elements move to a new block, and the old one stays in the pool;    *)
(* a push hands out the place of the new element, and the caller fills it. *)
(* A block is here the sequence of its places.  Sizes are those of a       *)
(* machine whose size_t and php_cedar_uint_t end at SizeMax.               *)
(***************************************************************************)
EXTENDS Integers, Sequences, FiniteSets

CONSTANTS Block,  \* the addresses that malloc may return
          NULL

ASSUME BlockAssumption == IsFiniteSet(Block) /\ NULL \notin Block

VARIABLES live,        \* the blocks that malloc has returned and free has not had
          pool,        \* the block of the pool
          chunks,      \* the first chunk of the pool
          next, data,  \* the fields of a chunk
          call, chunk, \* the call under way, and its chunk
          handed       \* the pieces that callers have

poolVars == <<live, pool, chunks, next, data, call, chunk, handed>>

Address == Block \cup {NULL}

PoolInit ==
  /\ live = {} /\ handed = {}
  /\ pool = NULL /\ chunks = NULL
  /\ next = [b \in Block |-> NULL] /\ data = [b \in Block |-> NULL]
  /\ call = "idle" /\ chunk = NULL

\* A block that malloc may return.
Free == Block \ live

CreatePool(b) ==
  /\ call = "idle" /\ pool = NULL
  /\ b \in Free
  /\ live' = live \cup {b}
  /\ pool' = b /\ chunks' = NULL
  /\ UNCHANGED <<next, data, call, chunk, handed>>

(***************************************************************************)
(* php_cedar_palloc: the chunk and then the piece.  Where the pool is NULL *)
(* or the size is zero, or malloc has no chunk, nothing happens.           *)
(***************************************************************************)
TakeChunk(b) ==
  /\ call = "idle" /\ pool # NULL
  /\ b \in Free
  /\ live' = live \cup {b}
  /\ chunk' = b /\ call' = "palloc"
  /\ UNCHANGED <<pool, chunks, next, data, handed>>

\* Variant: the chunk starts a list of its own.
TakePieceAlone(b) ==
  /\ call = "palloc"
  /\ b \in Free
  /\ live' = live \cup {b}
  /\ data' = [data EXCEPT ![chunk] = b]
  /\ chunks' = chunk
  /\ handed' = handed \cup {b}
  /\ call' = "idle" /\ chunk' = NULL
  /\ UNCHANGED <<pool, next>>

TakePiece(b) ==
  /\ call = "palloc"
  /\ b \in Free
  /\ live' = live \cup {b}
  /\ data' = [data EXCEPT ![chunk] = b]
  /\ next' = [next EXCEPT ![chunk] = chunks]
  /\ chunks' = chunk
  /\ handed' = handed \cup {b}
  /\ call' = "idle" /\ chunk' = NULL
  /\ UNCHANGED pool

\* Variant: the chunk is forgotten.
NoPieceLeaking ==
  /\ call = "palloc"
  /\ call' = "idle" /\ chunk' = NULL
  /\ UNCHANGED <<live, pool, chunks, next, data, handed>>

\* malloc had a chunk and has no piece.
NoPiece ==
  /\ call = "palloc"
  /\ live' = live \ {chunk}
  /\ call' = "idle" /\ chunk' = NULL
  /\ UNCHANGED <<pool, chunks, next, data, handed>>

(***************************************************************************)
(* php_cedar_pool_destroy.  The callers have no use for their pieces from  *)
(* here on.                                                                *)
(***************************************************************************)
Destroy ==
  /\ call = "idle" /\ pool # NULL
  /\ call' = "destroy" /\ chunk' = chunks
  /\ handed' = {}
  /\ UNCHANGED <<live, pool, chunks, next, data>>

(***************************************************************************)
(* The next chunk is read before the chunk is freed, its piece before      *)
(* that.  What a freed chunk held is forgotten.                            *)
(***************************************************************************)
FreeChunk ==
  /\ call = "destroy" /\ chunk # NULL
  /\ live' = live \ {data[chunk], chunk}
  /\ chunk' = next[chunk]
  /\ next' = [next EXCEPT ![chunk] = NULL]
  /\ data' = [data EXCEPT ![chunk] = NULL]
  /\ UNCHANGED <<pool, chunks, call, handed>>

FreePool ==
  /\ call = "destroy" /\ chunk = NULL
  /\ live' = live \ {pool}
  /\ pool' = NULL /\ chunks' = NULL
  /\ call' = "idle"
  /\ UNCHANGED <<next, data, chunk, handed>>

PoolNext ==
  \/ \E b \in Block : CreatePool(b) \/ TakeChunk(b) \/ TakePiece(b)
  \/ NoPiece
  \/ Destroy
  \/ FreeChunk
  \/ FreePool

PoolSpec == PoolInit /\ [][PoolNext]_poolVars
-----------------------------------------------------------------------------
\* The chunks of the list that starts at b.
Chain(b) ==
  LET at[n \in 0 .. Cardinality(Block)] ==
        IF n = 0 THEN b ELSE IF at[n - 1] = NULL THEN NULL ELSE next[at[n - 1]]
  IN  {at[n] : n \in 0 .. Cardinality(Block)} \ {NULL}

\* The chunks that the pool still has.
Chunks == IF call = "destroy" THEN Chain(chunk) ELSE Chain(chunks)

Owned ==
  ({pool} \ {NULL}) \cup Chunks \cup {data[b] : b \in Chunks}
    \cup IF call = "palloc" THEN {chunk} ELSE {}

(***************************************************************************)
(* What malloc gave and free has not had is what the pool has: nothing     *)
(* leaks where malloc fails half way, and nothing is freed that is still   *)
(* in the list or was freed before.  A chunk and a piece never share a     *)
(* block, so the number of live blocks follows from the list.              *)
(* (php_cedar_palloc, php_cedar_pool_destroy)                              *)
(***************************************************************************)
LiveIsOwned ==
  /\ live = Owned
  /\ Cardinality(live) = 2 * Cardinality(Chunks)
                           + (IF pool = NULL THEN 0 ELSE 1) + (IF call = "palloc" THEN 1 ELSE 0)

(***************************************************************************)
(* A piece that a caller has stays a piece of the pool until the pool is   *)
(* destroyed, whatever is allocated or fails after it.                     *)
(***************************************************************************)
HandedStay == handed \subseteq {data[b] : b \in Chunks} \cap live

(***************************************************************************)
(* No block goes astray, whatever malloc refuses: none leaks, none is      *)
(* freed twice or under its user.                                          *)
(***************************************************************************)
NoBlockAstray == LiveIsOwned /\ HandedStay
-----------------------------------------------------------------------------
CONSTANTS Element,  \* what the caller stores
          Junk,     \* what is in a place before
          Sizes,    \* the bytes that an element may have
          SizeMax   \* SIZE_MAX

ASSUME SizeAssumption == Sizes \subseteq Nat \ {0} /\ SizeMax \in Nat \ {0}
ASSUME JunkAssumption == Junk \notin Element

VARIABLES blocks,               \* the blocks that the pool has given out, oldest first
          elts,                 \* the block of the array, 0 while there is no array
          nelts, nalloc, size,  \* the other fields of the array
          place                 \* the place that the caller is to fill

arrayVars == <<blocks, elts, nelts, nalloc, size, place>>

NoPlace == [block |-> 0, index |-> 0]

ArrayInit ==
  /\ blocks = <<>>
  /\ elts = 0 /\ nelts = 0 /\ nalloc = 0 /\ size = 0
  /\ place = NoPlace

\* What a size_t makes of a product or a sum.
Wrapped(n) == n % (SizeMax + 1)

\* php_cedar_palloc(n * sz) as an array of elements of sz bytes.
Places(n, sz) == Wrapped(n * sz) \div sz

(***************************************************************************)
(* php_cedar_array_create.  Where malloc fails or the size is out of       *)
(* range nothing is created, here as in a push.                            *)
(***************************************************************************)
Create(n, sz) ==
  /\ elts = 0
  /\ n # 0 /\ sz # 0 /\ n <= SizeMax \div sz
  /\ blocks' = Append(blocks, [k \in 1 .. Places(n, sz) |-> Junk])
  /\ elts' = Len(blocks) + 1
  /\ nelts' = 0 /\ nalloc' = n /\ size' = sz
  /\ UNCHANGED place

(***************************************************************************)
(* php_cedar_array_push where there is room.                               *)
(***************************************************************************)
PushInPlace ==
  /\ elts # 0 /\ place = NoPlace
  /\ nelts # nalloc
  /\ nelts' = nelts + 1
  /\ place' = [block |-> elts, index |-> nelts + 1]
  /\ UNCHANGED <<blocks, elts, nalloc, size>>

Doubled == Wrapped(nalloc * 2)

\* Variant: the number of elements is taken for their bytes.
MovedBytes(n) == [k \in 1 .. n |-> IF k * size <= nelts THEN blocks[elts][k] ELSE Junk]

\* The elements at the start of a new block of n places.
Moved(n) == [k \in 1 .. n |-> IF k <= nelts THEN blocks[elts][k] ELSE Junk]

\* Variant: whether the size in bytes wraps is not looked at.
GrowUnchecked ==
  /\ elts # 0 /\ place = NoPlace
  /\ nelts = nalloc
  /\ Doubled > nalloc
  /\ blocks' = Append(blocks, Moved(Places(Doubled, size)))
  /\ elts' = Len(blocks) + 1
  /\ nalloc' = Doubled
  /\ nelts' = nelts + 1
  /\ place' = [block |-> Len(blocks) + 1, index |-> nelts + 1]
  /\ UNCHANGED size

(***************************************************************************)
(* ... and where the array is full: twice the places, unless the number or *)
(* the size in bytes wraps.                                                *)
(***************************************************************************)
Grow ==
  /\ elts # 0 /\ place = NoPlace
  /\ nelts = nalloc
  /\ Doubled > nalloc /\ Doubled <= SizeMax \div size
  /\ blocks' = Append(blocks, Moved(Places(Doubled, size)))
  /\ elts' = Len(blocks) + 1
  /\ nalloc' = Doubled
  /\ nelts' = nelts + 1
  /\ place' = [block |-> Len(blocks) + 1, index |-> nelts + 1]
  /\ UNCHANGED size

(***************************************************************************)
(* The caller stores an element through the pointer that a push returned.  *)
(***************************************************************************)
Fill(v) ==
  /\ place # NoPlace
  /\ blocks' = [blocks EXCEPT ![place.block][place.index] = v]
  /\ place' = NoPlace
  /\ UNCHANGED <<elts, nelts, nalloc, size>>

ArrayNext ==
  \/ \E n \in 1 .. SizeMax, sz \in Sizes : Create(n, sz)
  \/ PushInPlace
  \/ Grow
  \/ \E v \in Element : Fill(v)

ArraySpec == ArrayInit /\ [][ArrayNext]_arrayVars
-----------------------------------------------------------------------------
\* The elements of the array, without the one that is to be filled.
Contents ==
  [k \in 1 .. IF place = NoPlace THEN nelts ELSE nelts - 1 |-> blocks[elts][k]]

(***************************************************************************)
(* The array has the places it counts on, and the one that is handed out   *)
(* is the last of them: no store is outside of its block or in a block     *)
(* that the array has left.  (php_cedar_array_create, _push)               *)
(***************************************************************************)
PlacesExist ==
  /\ blocks \in Seq(Seq(Element \cup {Junk}))
  /\ nelts \in Nat /\ nalloc \in Nat /\ size \in Nat
  /\ nelts <= nalloc
  /\ elts = Len(blocks)
  /\ elts = 0 => nalloc = 0
  /\ elts # 0 => /\ elts \in DOMAIN blocks
                 /\ size \in Sizes
                 /\ nalloc > 0 /\ nalloc <= SizeMax \div size
                 /\ Len(blocks[elts]) = nalloc
  /\ place # NoPlace => elts # 0 /\ nelts > 0 /\ place = [block |-> elts, index |-> nelts]

(***************************************************************************)
(* The array is an append-only list, through all its moves: what was       *)
(* stored is there, in order, and is what the caller stored.               *)
(***************************************************************************)
List == INSTANCE AppendLog WITH log <- Contents
ArrayIsLog == List!Spec
=============================================================================
