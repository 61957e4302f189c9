------------------------------ MODULE StoreIds ------------------------------
(***************************************************************************)
(* cedar_generate_policy_store_id where the CSPRNG fails: a store's id is  *)
(* made of the time and of a counter that the threads of a ZTS build       *)
(* share.  The ids tell stores apart, whatever the clock says.             *)
(***************************************************************************)
EXTENDS Integers, Sequences, FiniteSets

CONSTANTS Thread,
          Digits,     \* the values of a hexadecimal digit, 0 .. 15
          WordBytes,  \* the bytes of a uint64_t, 8
          Clock,      \* what time(NULL) may return; it may also go back
          MaxIds      \* bound: the ids that are made

Base == Cardinality(Digits)
ByteValues == Base * Base

\* What a byte is worth at each place of a word, and what a word ends at.
Worth[i \in 0 .. WordBytes] == IF i = 0 THEN 1 ELSE ByteValues * Worth[i - 1]
Word == Worth[WordBytes]

ASSUME IdAssumption == /\ Base \in Nat \ {0, 1} /\ Digits = 0 .. (Base - 1)
                       /\ {WordBytes, MaxIds} \subseteq Nat \ {0}
                       /\ Clock \subseteq 0 .. (Word - 1)
                       /\ MaxIds <= Word

VARIABLES seq,   \* the counter
          step,
          time, count,  \* the locals of each thread
          ids    \* the ids that were returned

idVars == <<seq, step, time, count, ids>>

IdsInit ==
  /\ seq = 0
  /\ step = [th \in Thread |-> "idle"]
  /\ time = [th \in Thread |-> 0] /\ count = [th \in Thread |-> 0]
  /\ ids = <<>>

Running == {th \in Thread : step[th] # "idle"}

ReadClock(th) ==
  /\ step[th] = "idle"
  /\ Len(ids) + Cardinality(Running) < MaxIds
  /\ time' \in {[time EXCEPT ![th] = now] : now \in Clock}
  /\ step' = [step EXCEPT ![th] = "count"]
  /\ UNCHANGED <<seq, count, ids>>

\* Variant: a plain increment, of which the race with another may lose one.
IncrementSeq(th) ==
  /\ step[th] = "count"
  /\ count' = [count EXCEPT ![th] = (seq + 1) % Word]
  /\ seq' \in {seq, (seq + 1) % Word}
  /\ step' = [step EXCEPT ![th] = "format"]
  /\ UNCHANGED <<time, ids>>

\* atomic_fetch_add, and one more.
FetchAddSeq(th) ==
  /\ step[th] = "count"
  /\ count' = [count EXCEPT ![th] = (seq + 1) % Word]
  /\ seq' = (seq + 1) % Word
  /\ step' = [step EXCEPT ![th] = "format"]
  /\ UNCHANGED <<time, ids>>

\* The bytes of a word as memcpy finds them on a little-endian host.
Bytes(word) == [i \in 1 .. WordBytes |-> (word \div Worth[i - 1]) % ByteValues]

\* Two digits for a byte, the higher first.
Hex(raw) ==
  [k \in 1 .. 2 * Len(raw) |->
     IF k % 2 = 1 THEN raw[(k + 1) \div 2] \div Base ELSE raw[k \div 2] % Base]

Format(th) ==
  /\ step[th] = "format"
  /\ ids' = Append(ids, Hex(Bytes(time[th]) \o Bytes(count[th])))
  /\ step' = [step EXCEPT ![th] = "idle"]
  /\ UNCHANGED <<seq, time, count>>

IdsNext == \E th \in Thread : ReadClock(th) \/ FetchAddSeq(th) \/ Format(th)

IdsSpec == IdsInit /\ [][IdsNext]_idVars
-----------------------------------------------------------------------------
(***************************************************************************)
(* No two stores have one id, however the threads that make them           *)
(* interleave, at one second or after the clock was set back: a request    *)
(* for one store cannot be taken for a request for another, as long as the *)
(* counter has not wrapped.  (cedar_generate_policy_store_id)              *)
(***************************************************************************)
IdsDistinct ==
  \A i, j \in DOMAIN ids :
    /\ Len(ids[i]) = 4 * WordBytes
    /\ ids[i] = ids[j] => i = j
=============================================================================
