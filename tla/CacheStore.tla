------------------------------ MODULE CacheStore ------------------------------
(***************************************************************************)
(* The blockfile HTTP cache on disk and the browser that changes it, as    *)
(* far as readers_cache.cpp depends on them: an index of hash buckets,     *)
(* each the head of a chain of entry blocks, and data streams in blocks    *)
(* of their own.  A freed block keeps its content until it is used again.  *)
(***************************************************************************)
EXTENDS Naturals, FiniteSets

CONSTANTS
  Keys,       \* cache keys
  Blocks,     \* 256-byte slots for entries
  Streams,    \* slots for the data of an entry: headers and body
  Files,      \* the data_N files
  FileOf,     \* the file a slot lies in
  External,   \* the f_XXXXXX files, which hold one stream and go with it
  NBuckets,   \* length of the index table
  BucketOf,   \* the bucket a key hashes to
  Null,       \* the zero address
  MaxChanges  \* bound on the changes the browser makes

Slots == Blocks \cup Streams
Buckets == 1 .. NBuckets

ASSUME CacheAssumption ==
  /\ NBuckets \in Nat \ {0}
  /\ FileOf \in [Slots -> Files]
  /\ External \subseteq Files
  /\ BucketOf \in [Keys -> Buckets]
  /\ Null \notin Keys \cup Slots
  /\ MaxChanges \in Nat

VARIABLES
  heads,    \* the index table
  block,    \* the entry blocks as they are on disk
  stream,   \* whose data a stream slot holds
  used,     \* the allocated entry blocks
  changes   \* the number of changes so far

cacheVars == <<heads, block, stream, used, changes>>

Address == Blocks \cup {Null}
EntryBlock == [key: Keys \cup {Null}, state: {"normal", "doomed"},
               next: Address, data: Streams \cup {Null}]

CacheTypeOK ==
  /\ heads \in [Buckets -> Address]
  /\ block \in [Blocks -> EntryBlock]
  /\ stream \in [Streams -> Keys \cup {Null}]
  /\ used \subseteq Blocks
  /\ changes \in 0 .. MaxChanges

(* A slot that was never used reads as zeros: a normal entry with no key.  *)
ZeroBlock == [key |-> Null, state |-> "normal", next |-> Null, data |-> Null]

CacheInit ==
  /\ heads = [i \in Buckets |-> Null]
  /\ block = [b \in Blocks |-> ZeroBlock]
  /\ stream = [d \in Streams |-> Null]
  /\ used = {}
  /\ changes = 0

Cached == {block[b].key : b \in used}

-----------------------------------------------------------------------------
(* The streams no entry owns; an entry may get its data some time after it *)
(* was made, and Null stands for data it does not have yet.                *)
FreeStreams == Streams \ {block[u].data : u \in used}

Touched == changes < MaxChanges /\ changes' = changes + 1

(* A new entry goes to the end of its chain.                               *)
CreateEntry(k) ==
  /\ Touched
  /\ k \notin Cached
  /\ \E b \in Blocks \ used, d \in FreeStreams \cup {Null} :
       LET entry == [key |-> k, state |-> "normal", next |-> Null, data |-> d]
           chain == {u \in used : BucketOf[block[u].key] = BucketOf[k]}
           tail  == {u \in chain : block[u].next = Null}
       IN  /\ block' = [u \in Blocks |->
                          IF u = b THEN entry
                          ELSE IF u \in tail THEN [block[u] EXCEPT !.next = b]
                          ELSE block[u]]
           /\ heads' = IF chain = {} THEN [heads EXCEPT ![BucketOf[k]] = b]
                       ELSE heads
           /\ stream' = IF d = Null THEN stream ELSE [stream EXCEPT ![d] = k]
           /\ used' = used \cup {b}

(* The headers and the body of a new entry are written.                    *)
FillEntry(k) ==
  /\ Touched
  /\ \E b \in used, d \in FreeStreams :
       /\ block[b].key = k /\ block[b].data = Null
       /\ block' = [block EXCEPT ![b].data = d]
       /\ stream' = [stream EXCEPT ![d] = k]
  /\ UNCHANGED <<heads, used>>

(* An entry is unlinked and its blocks are freed; the state field of the   *)
(* freed block may or may not say so.                                      *)
DeleteEntry(k) ==
  /\ Touched
  /\ \E b \in used, state \in {"normal", "doomed"} :
       /\ block[b].key = k
       /\ block' = [u \in Blocks |->
                      IF u = b THEN [block[b] EXCEPT !.state = state]
                      ELSE IF u \in used /\ block[u].next = b
                        THEN [block[u] EXCEPT !.next = block[b].next]
                      ELSE block[u]]
       /\ heads' = [i \in Buckets |-> IF heads[i] = b THEN block[b].next
                                      ELSE heads[i]]
       /\ stream' = [d \in Streams |->
                       IF d = block[b].data /\ FileOf[d] \in External THEN Null
                       ELSE stream[d]]
       /\ used' = used \ {b}

BrowserStep == \E k \in Keys : CreateEntry(k) \/ FillEntry(k) \/ DeleteEntry(k)
=============================================================================
