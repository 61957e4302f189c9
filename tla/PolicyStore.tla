---------------------------- MODULE PolicyStore ----------------------------
(***************************************************************************)
(* The life of a Cedar\PolicyStore: construction, loadString and loadFile, *)
(* and the memory that the parsed policies go on reading.                  *)
(*                                                                         *)
(* Everything runs on one thread, but php_stream_copy_to_mem may call back *)
(* into PHP (a user stream wrapper), and that PHP code may use the store   *)
(* that is being loaded.  So calls nest: `calls` holds the loadFile calls  *)
(* that are reading, and any other call may run in the meantime.           *)
(*                                                                         *)
(* The lexer does not copy: a name, or a string without escapes, is a      *)
(* slice of the source text (php_cedar_lexer.c), and the parser keeps the  *)
(* slices.  A policy set therefore remembers the block its text was in,    *)
(* and means what that block holds when the set is evaluated.              *)
(***************************************************************************)
EXTENDS Integers, Sequences, SequencesExt

CONSTANTS
  StoreObject, \* PolicyStore objects
  StoreId,     \* policy store ids
  NoId,        \* the object has not been created
  PolicyId,    \* policy ids
  Text,        \* Cedar source texts, and what a failing read may deliver
  WellFormed,  \* the texts that php_cedar_parse accepts
  HeapBlock,   \* blocks of the Zend heap large enough for a text
  MaxCalls     \* bound on the nesting of loadFile calls

ASSUME TextAssumption == WellFormed \subseteq Text
ASSUME NoIdAssumption == NoId \notin StoreId
ASSUME MaxCallsAssumption == MaxCalls \in Nat

VARIABLES
  id,      \* intern->id
  sets,    \* intern->policies, in the order of the hash table
  bytes,   \* what each block holds
  owned,   \* the blocks that are strings of the PHP program
  calls,   \* the loadFile calls in progress, the innermost last
  last,    \* how the last call ended
  acked    \* history: the loads that have returned $this

vars == <<id, sets, bytes, owned, calls, last, acked>>

PolicySet == [policyId : PolicyId, text : WellFormed, source : HeapBlock]
Call == [store : StoreObject, policyId : PolicyId]
Ack == [store : StoreObject, policyId : PolicyId, text : WellFormed]
Ending == {"none", "ok", "PolicyParseException", "stream exception"}

Init ==
  /\ id = [s \in StoreObject |-> NoId]
  /\ sets = [s \in StoreObject |-> <<>>]
  /\ bytes \in [HeapBlock -> Text]
  /\ owned = {}
  /\ calls = <<>>
  /\ last = "none"
  /\ acked = {}

Exists(s) == id[s] # NoId

Loaded(s, p) == \E k \in DOMAIN sets[s] : sets[s][k].policyId = p

-----------------------------------------------------------------------------
(***************************************************************************)
(* The PHP program around the extension: it creates strings and drops      *)
(* them.  A dropped string's block can be handed out again.                *)
(***************************************************************************)
NewString(b, text) ==
  /\ b \notin owned
  /\ owned' = owned \cup {b}
  /\ bytes' = [bytes EXCEPT ![b] = text]
  /\ last' = "none"
  /\ UNCHANGED <<id, sets, calls, acked>>

DropString(b) ==
  /\ b \in owned
  /\ owned' = owned \ {b}
  /\ last' = "none"
  /\ UNCHANGED <<id, sets, bytes, calls, acked>>

(***************************************************************************)
(* PolicyStore::__construct, with the id given or with a generated one.    *)
(* Calling it again changes the id and keeps the policies.                 *)
(***************************************************************************)
Construct(s, i) ==
  /\ id' = [id EXCEPT ![s] = i]
  /\ last' = "none"
  /\ UNCHANGED <<sets, bytes, owned, calls, acked>>

-----------------------------------------------------------------------------
NewSet(p, text, b) == [policyId |-> p, text |-> text, source |-> b]

(***************************************************************************)
(* cedar_policy_store_register_text: a taken id and a text that does not   *)
(* parse are refused, and only then is anything added.                     *)
(***************************************************************************)
Registers(s, p, text) == ~Loaded(s, p) /\ text \in WellFormed

\* Variants: the entry is added before the text is parsed, or replaces one of its id.
RegisterUnparsed(s, p, text, b) ==
  sets' = [sets EXCEPT ![s] = IF Loaded(s, p) THEN @ ELSE Append(@, NewSet(p, text, b))]

RegisterReplacing(s, p, text, b) ==
  sets' = [sets EXCEPT ![s] =
    IF Loaded(s, p)
    THEN [k \in DOMAIN @ |-> IF @[k].policyId = p THEN NewSet(p, text, b) ELSE @[k]]
    ELSE IF text \in WellFormed THEN Append(@, NewSet(p, text, b)) ELSE @]

Register(s, p, text, b) ==
  sets' = [sets EXCEPT ![s] =
    IF Registers(s, p, text) THEN Append(@, NewSet(p, text, b)) ELSE @]

Acked(s, p, text) == acked \cup {[store |-> s, policyId |-> p, text |-> text]}

LoadString(s, p, b) ==
  /\ Exists(s)
  /\ b \in owned
  /\ Register(s, p, bytes[b], b)
  /\ last' = IF Registers(s, p, bytes[b]) THEN "ok" ELSE "PolicyParseException"
  /\ acked' = IF last' = "ok" THEN Acked(s, p, bytes[b]) ELSE acked
  /\ UNCHANGED <<id, bytes, owned, calls>>

-----------------------------------------------------------------------------
(***************************************************************************)
(* loadFile: php_stream_open_wrapper, which may fail, and then the read.   *)
(***************************************************************************)
OpenFile(s, p) ==
  /\ Exists(s)
  /\ Len(calls) < MaxCalls
  /\ calls' = Append(calls, [store |-> s, policyId |-> p])
  /\ last' = "none"
  /\ UNCHANGED <<id, sets, bytes, owned, acked>>

OpenFails(s, p) ==
  /\ Exists(s)
  /\ last' = "PolicyParseException"
  /\ UNCHANGED <<id, sets, bytes, owned, calls, acked>>

Reading == calls[Len(calls)]

(***************************************************************************)
(* php_stream_copy_to_mem returns NULL.                                    *)
(***************************************************************************)
ReadFails ==
  /\ calls # <<>>
  /\ calls' = Front(calls)
  /\ last' = "PolicyParseException"
  /\ UNCHANGED <<id, sets, bytes, owned, acked>>

\* Variant: the id is not looked up again after the read.
ReadDoneUnchecked(text, b, raised) ==
  /\ calls # <<>>
  /\ b \notin owned
  /\ calls' = Front(calls)
  /\ bytes' = [bytes EXCEPT ![b] = text]
  /\ LET s == Reading.store
         p == Reading.policyId
     IN  /\ Register(s, p, text, b)
         /\ last' = IF text \notin WellFormed THEN "PolicyParseException"
                    ELSE IF raised THEN "stream exception" ELSE "ok"
         /\ acked' = IF last' = "ok" THEN Acked(s, p, text) ELSE acked
  /\ UNCHANGED <<id, owned>>

(***************************************************************************)
(* The read returns a new string, which is registered and then released.   *)
(* An exception raised by the stream does not keep the text from being     *)
(* registered: EG(exception) is looked at only when the call returns.      *)
(***************************************************************************)
ReadDone(text, b, raised) ==
  /\ calls # <<>>
  /\ b \notin owned
  /\ calls' = Front(calls)
  /\ bytes' = [bytes EXCEPT ![b] = text]
  /\ LET s == Reading.store
         p == Reading.policyId
     IN  /\ Register(s, p, text, b)
         /\ last' = IF ~Registers(s, p, text) THEN "PolicyParseException"
                    ELSE IF raised THEN "stream exception" ELSE "ok"
         /\ acked' = IF last' = "ok" THEN Acked(s, p, text) ELSE acked
  /\ UNCHANGED <<id, owned>>

Next ==
  \/ \E b \in HeapBlock, text \in Text : NewString(b, text)
  \/ \E b \in HeapBlock : DropString(b)
  \/ \E s \in StoreObject, i \in StoreId : Construct(s, i)
  \/ \E s \in StoreObject, p \in PolicyId, b \in HeapBlock : LoadString(s, p, b)
  \/ \E s \in StoreObject, p \in PolicyId : OpenFile(s, p) \/ OpenFails(s, p)
  \/ ReadFails
  \/ \E text \in Text, b \in HeapBlock, raised \in BOOLEAN : ReadDone(text, b, raised)

Spec == Init /\ [][Next]_vars
-----------------------------------------------------------------------------
(***************************************************************************)
(* The type invariant; only texts that parse are ever in a store.          *)
(***************************************************************************)
TypeOK ==
  /\ id \in [StoreObject -> StoreId \cup {NoId}]
  /\ sets \in [StoreObject -> Seq(PolicySet)]
  /\ bytes \in [HeapBlock -> Text]
  /\ owned \subseteq HeapBlock
  /\ calls \in Seq(Call) /\ Len(calls) <= MaxCalls
  /\ last \in Ending
  /\ acked \subseteq Ack

(***************************************************************************)
(* A load that has returned $this is in the store, once and with its own   *)
(* text, whatever loads of the same id ran inside it or around it: the id  *)
(* is looked up after the read, in one step with the addition.             *)
(***************************************************************************)
AckedIsLoaded ==
  \A a \in acked :
    /\ \E k \in DOMAIN sets[a.store] : /\ sets[a.store][k].policyId = a.policyId
                                       /\ sets[a.store][k].text = a.text
    /\ \A k, l \in DOMAIN sets[a.store] :
         sets[a.store][k].policyId = sets[a.store][l].policyId => k = l

(***************************************************************************)
(* Policies are only ever added at the end.  No call removes, replaces or  *)
(* reorders what an AuthorizationClient bound to the store evaluates, a    *)
(* second __construct included.                                            *)
(***************************************************************************)
StoresGrow == \A s \in StoreObject : IsPrefix(sets[s], sets'[s])
LoadsOnlyAppend == [][StoresGrow]_vars

(***************************************************************************)
(* A load refused with PolicyParseException (README.md:189, tests/004)     *)
(* leaves every store as it was, so that it can be repeated.               *)
(***************************************************************************)
RefusalChangesNothing ==
  [][last' = "PolicyParseException" => UNCHANGED <<id, sets>>]_vars

(***************************************************************************)
(* README.md:189-190: loadFile and loadString register the text they are   *)
(* given under the policy id.  So what a policy set reads its names from   *)
(* holds that text for as long as the set is in the store.                 *)
(***************************************************************************)
NamesAsLoaded ==
  \A s \in StoreObject : \A k \in DOMAIN sets[s] : bytes[sets[s][k].source] = sets[s][k].text
=============================================================================
