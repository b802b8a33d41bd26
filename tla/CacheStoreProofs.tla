--------------------------- MODULE CacheStoreProofs ---------------------------
(***************************************************************************)
(* What the browser keeps true of its cache, for any number of keys,       *)
(* blocks and changes: lemmas the proofs about CacheWalk and CacheSearch   *)
(* rest on.  Chains follow the order in which entries were made, an        *)
(* address in use leads to an entry in use, a key has one entry, and the   *)
(* data of an entry is its own.                                            *)
(***************************************************************************)
EXTENDS CacheStore, FiniteSetTheorems, TLAPS

(* A chain follows the order in which its entries were made.               *)
ChainInv ==
  \E r \in [Blocks -> Nat] :
    \A b \in used :
      /\ r[b] <= changes
      /\ block[b].next \in used \cup {Null}
      /\ block[b].next # Null => r[b] < r[block[b].next]

HeadInv == \A i \in Buckets : heads[i] \in used \cup {Null}

StoreInv == CacheTypeOK /\ ChainInv /\ HeadInv /\ Cached \subseteq Keys

(* A key has one entry, a stream one owner, which it has the data of.      *)
OwnerInv ==
  /\ IsFiniteSet(used)
  /\ \A u, v \in used : block[u].key = block[v].key => u = v
  /\ \A u, v \in used : block[u].data # Null /\ block[u].data = block[v].data => u = v
  /\ \A u \in used : block[u].data # Null => stream[block[u].data] = block[u].key

(* The entries of a bucket are linked in the order r they were made in,    *)
(* from its head, and none is left out.                                    *)
Bucket(blocks, b) == BucketOf[blocks[b].key]

Ordered(r) ==
  /\ \A b \in used : /\ r[b] <= changes
                     /\ block[b].next # Null => /\ block[b].next \in used
                                               /\ Bucket(block, block[b].next) = Bucket(block, b)
                                               /\ r[b] < r[block[b].next]
                     /\ heads[Bucket(block, b)] # Null /\ r[heads[Bucket(block, b)]] <= r[b]
  /\ \A b, c \in used : /\ r[b] = r[c] => b = c
                        /\ Bucket(block, b) = Bucket(block, c) /\ r[b] < r[c] =>
                             block[b].next # Null /\ r[block[b].next] <= r[c]
  /\ \A i \in Buckets : heads[i] # Null => heads[i] \in used /\ Bucket(block, heads[i]) = i

OrderInv ==
  /\ \A b \in used : block[b].state = "normal"
  /\ \E r \in [Blocks -> Nat] : Ordered(r)

-----------------------------------------------------------------------------
(* The links.                                                              *)

LEMMA NullIsNoSlot == Null \notin Blocks /\ Null \notin Streams /\ Null \notin Keys
BY CacheAssumption DEF Slots

LEMMA OneIsABucket == 1 \in Buckets /\ NBuckets \in Nat
BY CacheAssumption DEF Buckets

LEMMA CreateEntryKeeps ==
  ASSUME StoreInv, NEW k \in Keys, CreateEntry(k)
  PROVE  StoreInv'
<1> USE NullIsNoSlot
<1>1. PICK b \in Blocks \ used, d \in FreeStreams \cup {Null} :
        LET entry == [key |-> k, state |-> "normal", next |-> Null, data |-> d]
            chain == {u \in used : BucketOf[block[u].key] = BucketOf[k]}
            tail  == {u \in chain : block[u].next = Null}
        IN  /\ block' = [u \in Blocks |->
                           IF u = b THEN entry
                           ELSE IF u \in tail THEN [block[u] EXCEPT !.next = b]
                           ELSE block[u]]
            /\ heads' = IF chain = {} THEN [heads EXCEPT ![BucketOf[k]] = b]
                        ELSE heads
            /\ stream' = IF d = Null THEN stream ELSE [stream EXCEPT ![d] = k]
            /\ used' = used \cup {b}
  BY DEF CreateEntry
<1>2. changes < MaxChanges /\ changes' = changes + 1
  BY DEF CreateEntry, Touched
<1>3. BucketOf[k] \in Buckets /\ d \in Streams \cup {Null}
  BY CacheAssumption DEF FreeStreams
<1>4. CacheTypeOK'
  <2>1. block' \in [Blocks -> EntryBlock]
    BY <1>1, <1>3 DEF StoreInv, CacheTypeOK, EntryBlock, Address
  <2>2. heads' \in [Buckets -> Address]
    BY <1>1, <1>3 DEF StoreInv, CacheTypeOK, Address
  <2>3. stream' \in [Streams -> Keys \cup {Null}]
    BY <1>1, <1>3 DEF StoreInv, CacheTypeOK
  <2>4. used' \subseteq Blocks /\ changes' \in 0 .. MaxChanges
    BY <1>1, <1>2, CacheAssumption DEF StoreInv, CacheTypeOK
  <2> QED BY <2>1, <2>2, <2>3, <2>4 DEF CacheTypeOK
<1>5. ChainInv'
  <2>1. PICK r \in [Blocks -> Nat] :
          \A u \in used :
            /\ r[u] <= changes
            /\ block[u].next \in used \cup {Null}
            /\ block[u].next # Null => r[u] < r[block[u].next]
    BY DEF StoreInv, ChainInv
  <2> DEFINE q == [r EXCEPT ![b] = changes']
  <2>2. changes \in Nat /\ used \subseteq Blocks /\ block \in [Blocks -> EntryBlock]
    BY CacheAssumption DEF StoreInv, CacheTypeOK
  <2>3. q \in [Blocks -> Nat]
    BY <2>2, <1>2
  <2>4. ASSUME NEW u \in used'
        PROVE  /\ q[u] <= changes'
               /\ block'[u].next \in used' \cup {Null}
               /\ block'[u].next # Null => q[u] < q[block'[u].next]
    <3>1. CASE u = b
      BY <3>1, <1>1, <1>2, <2>2
    <3>2. CASE u # b /\ block'[u].next = b
      <4>1. u \in used /\ q[u] = r[u] /\ q[b] = changes + 1 /\ r[u] \in Nat
        BY <3>2, <1>1, <1>2, <2>2
      <4> QED BY <4>1, <3>2, <1>1, <1>2, <2>1, <2>2
    <3>3. CASE u # b /\ block'[u].next # b
      <4>1. u \in used /\ block'[u].next = block[u].next
        BY <3>3, <1>1, <2>2 DEF EntryBlock
      <4>2. q[u] = r[u] /\ r[u] \in Nat
        BY <4>1, <3>3, <2>2
      <4>3. block[u].next # Null => q[block[u].next] = r[block[u].next]
        BY <4>1, <3>3, <2>1, <2>2
      <4> QED BY <4>1, <4>2, <4>3, <1>1, <1>2, <2>1, <2>2
    <3> QED BY <3>1, <3>2, <3>3
  <2> HIDE DEF q
  <2> QED BY <2>3, <2>4 DEF ChainInv
<1>6. HeadInv'
  BY <1>1, <1>3 DEF StoreInv, HeadInv, CacheTypeOK
<1>7. Cached' \subseteq Keys
  <2>1. ASSUME NEW u \in used' PROVE block'[u].key \in Keys
    <3>1. CASE u = b
      BY <3>1, <1>1 DEF StoreInv, CacheTypeOK
    <3>2. CASE u # b
      <4>1. u \in used /\ u \in Blocks
        BY <3>2, <1>1 DEF StoreInv, CacheTypeOK
      <4>2. block'[u].key = block[u].key
        BY <4>1, <3>2, <1>1 DEF StoreInv, CacheTypeOK, EntryBlock
      <4> QED BY <4>1, <4>2 DEF StoreInv, Cached
    <3> QED BY <3>1, <3>2
  <2> QED BY <2>1 DEF Cached
<1> QED BY <1>4, <1>5, <1>6, <1>7 DEF StoreInv

LEMMA FillEntryKeeps ==
  ASSUME StoreInv, NEW k \in Keys, FillEntry(k)
  PROVE  StoreInv'
<1> USE NullIsNoSlot
<1>1. PICK b \in used, d \in FreeStreams :
        /\ block[b].key = k /\ block[b].data = Null
        /\ block' = [block EXCEPT ![b].data = d]
        /\ stream' = [stream EXCEPT ![d] = k]
  BY DEF FillEntry
<1>2. /\ changes' = changes + 1 /\ changes < MaxChanges
      /\ heads' = heads /\ used' = used /\ d \in Streams
  BY DEF FillEntry, Touched, FreeStreams
<1>3. CacheTypeOK'
  BY <1>1, <1>2, CacheAssumption DEF StoreInv, CacheTypeOK, EntryBlock
<1>4. \A u \in Blocks : block'[u].next = block[u].next
  BY <1>1 DEF StoreInv, CacheTypeOK, EntryBlock
<1>5. ChainInv'
  <2>1. PICK r \in [Blocks -> Nat] :
          \A u \in used :
            /\ r[u] <= changes
            /\ block[u].next \in used \cup {Null}
            /\ block[u].next # Null => r[u] < r[block[u].next]
    BY DEF StoreInv, ChainInv
  <2>2. changes \in Nat /\ used \subseteq Blocks
    BY CacheAssumption DEF StoreInv, CacheTypeOK
  <2>3. \A u \in used : r[u] <= changes'
    BY <2>1, <2>2, <1>2
  <2> QED BY <2>1, <2>2, <2>3, <1>2, <1>4 DEF ChainInv
<1>6. HeadInv'
  BY <1>2 DEF StoreInv, HeadInv
<1>7. \A u \in used : block'[u].key = block[u].key
  BY <1>1 DEF StoreInv, CacheTypeOK, EntryBlock
<1>8. Cached' \subseteq Keys
  BY <1>2, <1>7 DEF StoreInv, Cached
<1> QED BY <1>3, <1>5, <1>6, <1>8 DEF StoreInv

LEMMA DeleteEntryKeeps ==
  ASSUME StoreInv, NEW k \in Keys, DeleteEntry(k)
  PROVE  StoreInv'
<1> USE NullIsNoSlot
<1>1. PICK b \in used, state \in {"normal", "doomed"} :
        /\ block' = [u \in Blocks |->
                       IF u = b THEN [block[b] EXCEPT !.state = state]
                       ELSE IF u \in used /\ block[u].next = b
                         THEN [block[u] EXCEPT !.next = block[b].next]
                       ELSE block[u]]
        /\ heads' = [i \in Buckets |-> IF heads[i] = b THEN block[b].next
                                       ELSE heads[i]]
        /\ stream' = [d \in Streams |->
                        IF d = block[b].data /\ FileOf[d] \in External THEN Null
                        ELSE stream[d]]
        /\ used' = used \ {b}
  BY DEF DeleteEntry
<1>2. changes' = changes + 1 /\ changes < MaxChanges
  BY DEF DeleteEntry, Touched
<1>3. CacheTypeOK'
  <2>1. block' \in [Blocks -> EntryBlock]
    BY <1>1 DEF StoreInv, CacheTypeOK, EntryBlock, Address
  <2>2. block[b].next \in Address
    BY <1>1 DEF StoreInv, CacheTypeOK, EntryBlock
  <2>3. heads' \in [Buckets -> Address] /\ stream' \in [Streams -> Keys \cup {Null}]
    BY <1>1, <2>2 DEF StoreInv, CacheTypeOK
  <2>4. used' \subseteq Blocks /\ changes' \in 0 .. MaxChanges
    BY <1>1, <1>2, CacheAssumption DEF StoreInv, CacheTypeOK
  <2> QED BY <2>1, <2>3, <2>4 DEF CacheTypeOK
<1>4. PICK r \in [Blocks -> Nat] :
        \A u \in used :
          /\ r[u] <= changes
          /\ block[u].next \in used \cup {Null}
          /\ block[u].next # Null => r[u] < r[block[u].next]
  BY DEF StoreInv, ChainInv
<1>5. changes \in Nat /\ used \subseteq Blocks
  BY CacheAssumption DEF StoreInv, CacheTypeOK
<1>6. ChainInv'
  <2>1. ASSUME NEW u \in used'
        PROVE  /\ r[u] <= changes'
               /\ block'[u].next \in used' \cup {Null}
               /\ block'[u].next # Null => r[u] < r[block'[u].next]
    <3>1. u \in used /\ u # b /\ u \in Blocks /\ b \in Blocks
      BY <1>1, <1>5
    <3>2. r[u] \in Nat /\ r[b] \in Nat
      BY <3>1
    <3>3. CASE block[u].next = b
      <4>1. block'[u].next = block[b].next
        BY <3>1, <3>3, <1>1 DEF StoreInv, CacheTypeOK, EntryBlock
      <4>2. block[b].next # b
        BY <1>4, <3>1, <3>2
      <4>3. block[b].next # Null => r[block[b].next] \in Nat
        BY <1>4, <1>5, <3>1
      <4> QED BY <4>1, <4>2, <4>3, <3>1, <3>2, <3>3, <1>1, <1>2, <1>4, <1>5
    <3>4. CASE block[u].next # b
      <4>1. block'[u].next = block[u].next
        BY <3>1, <3>4, <1>1
      <4> QED BY <4>1, <3>1, <3>2, <3>4, <1>1, <1>2, <1>4, <1>5
    <3> QED BY <3>3, <3>4
  <2> QED BY <2>1 DEF ChainInv
<1>7. HeadInv'
  <2>1. block[b].next # b
    BY <1>4, <1>5
  <2> QED BY <2>1, <1>1, <1>4 DEF StoreInv, HeadInv
<1>8. \A u \in used' : u \in used /\ block'[u].key = block[u].key
  BY <1>1 DEF StoreInv, CacheTypeOK, EntryBlock
<1>9. Cached' \subseteq Keys
  BY <1>8 DEF StoreInv, Cached
<1> QED BY <1>3, <1>6, <1>7, <1>9 DEF StoreInv

-----------------------------------------------------------------------------
(* The owners.                                                             *)
LEMMA CreateEntryOwns ==
  ASSUME StoreInv, OwnerInv, NEW k \in Keys, CreateEntry(k)
  PROVE  OwnerInv'
<1> USE NullIsNoSlot
<1>1. PICK b \in Blocks \ used, d \in FreeStreams \cup {Null} :
        LET entry == [key |-> k, state |-> "normal", next |-> Null, data |-> d]
            chain == {u \in used : BucketOf[block[u].key] = BucketOf[k]}
            tail  == {u \in chain : block[u].next = Null}
        IN  /\ block' = [u \in Blocks |->
                           IF u = b THEN entry
                           ELSE IF u \in tail THEN [block[u] EXCEPT !.next = b]
                           ELSE block[u]]
            /\ heads' = IF chain = {} THEN [heads EXCEPT ![BucketOf[k]] = b]
                        ELSE heads
            /\ stream' = IF d = Null THEN stream ELSE [stream EXCEPT ![d] = k]
            /\ used' = used \cup {b}
  BY DEF CreateEntry
<1>2. used \subseteq Blocks /\ block \in [Blocks -> EntryBlock] /\ stream \in [Streams -> Keys \cup {Null}]
  BY DEF StoreInv, CacheTypeOK
<1>3. block'[b].key = k /\ block'[b].data = d
  BY <1>1
<1>4. \A u \in used : u # b /\ block'[u].key = block[u].key /\ block'[u].data = block[u].data
  BY <1>1, <1>2 DEF EntryBlock
<1>5. \A u \in used : block[u].key # k
  BY DEF CreateEntry, Cached
<1>6. \A u \in used : d # Null => block[u].data # d
  BY <1>1 DEF FreeStreams
<1>7. \A s \in Streams : stream'[s] = IF s = d THEN k ELSE stream[s]
  BY <1>1, <1>2
<1>8. d # Null => d \in Streams
  BY <1>1 DEF FreeStreams
<1>9. \A u \in used : block[u].data # Null => block[u].data \in Streams
  BY <1>2 DEF EntryBlock
<1>10. used' = used \cup {b}
  BY <1>1
<1>11. IsFiniteSet(used')
  BY <1>10, FS_AddElement DEF OwnerInv
<1>12. \A u, v \in used' : block'[u].key = block'[v].key => u = v
  BY <1>3, <1>4, <1>5, <1>10 DEF OwnerInv
<1>13. \A u, v \in used' : block'[u].data # Null /\ block'[u].data = block'[v].data => u = v
  BY <1>3, <1>4, <1>6, <1>10 DEF OwnerInv
<1>14. \A u \in used' : block'[u].data # Null => stream'[block'[u].data] = block'[u].key
  BY <1>3, <1>4, <1>6, <1>7, <1>8, <1>9, <1>10 DEF OwnerInv
<1> QED
  BY <1>11, <1>12, <1>13, <1>14 DEF OwnerInv

LEMMA FillEntryOwns ==
  ASSUME StoreInv, OwnerInv, NEW k \in Keys, FillEntry(k)
  PROVE  OwnerInv'
<1> USE NullIsNoSlot
<1>1. PICK b \in used, d \in FreeStreams :
        /\ block[b].key = k /\ block[b].data = Null
        /\ block' = [block EXCEPT ![b].data = d]
        /\ stream' = [stream EXCEPT ![d] = k]
  BY DEF FillEntry
<1>2. used \subseteq Blocks /\ block \in [Blocks -> EntryBlock] /\ stream \in [Streams -> Keys \cup {Null}]
  BY DEF StoreInv, CacheTypeOK
<1>3. used' = used /\ d \in Streams /\ \A u \in used : block[u].data # d
  BY DEF FillEntry, FreeStreams
<1>4. \A u \in used : /\ block'[u].key = block[u].key
                      /\ block'[u].data = IF u = b THEN d ELSE block[u].data
  BY <1>1, <1>2 DEF EntryBlock
<1>5. \A s \in Streams : stream'[s] = IF s = d THEN k ELSE stream[s]
  BY <1>1, <1>2
<1>6. \A u \in used : block[u].data # Null => block[u].data \in Streams
  BY <1>2 DEF EntryBlock
<1> QED
  BY <1>1, <1>3, <1>4, <1>5, <1>6 DEF OwnerInv

LEMMA DeleteEntryOwns ==
  ASSUME StoreInv, OwnerInv, NEW k \in Keys, DeleteEntry(k)
  PROVE  OwnerInv'
<1> USE NullIsNoSlot
<1>1. PICK b \in used, state \in {"normal", "doomed"} :
        /\ block' = [u \in Blocks |->
                       IF u = b THEN [block[b] EXCEPT !.state = state]
                       ELSE IF u \in used /\ block[u].next = b
                         THEN [block[u] EXCEPT !.next = block[b].next]
                       ELSE block[u]]
        /\ stream' = [d \in Streams |->
                        IF d = block[b].data /\ FileOf[d] \in External THEN Null
                        ELSE stream[d]]
        /\ used' = used \ {b}
  BY DEF DeleteEntry
<1>2. used \subseteq Blocks /\ block \in [Blocks -> EntryBlock]
  BY DEF StoreInv, CacheTypeOK
<1>3. \A u \in used' : /\ u \in used /\ u # b
                       /\ block'[u].key = block[u].key /\ block'[u].data = block[u].data
  BY <1>1, <1>2 DEF EntryBlock
<1>4. \A u \in used' : block[u].data # Null =>
        block[u].data \in Streams /\ block[u].data # block[b].data
  BY <1>1, <1>2, <1>3 DEF EntryBlock, OwnerInv
<1>5. IsFiniteSet(used')
  BY <1>1, FS_Subset DEF OwnerInv
<1>6. \A u \in used' : block[u].data # Null => stream'[block[u].data] = stream[block[u].data]
  BY <1>1, <1>4
<1> QED
  BY <1>3, <1>5, <1>6 DEF OwnerInv

-----------------------------------------------------------------------------
(* The order.                                                              *)
LEMMA CreateEntryOrders ==
  ASSUME StoreInv, OrderInv, NEW k \in Keys, CreateEntry(k)
  PROVE  OrderInv'
<1> USE NullIsNoSlot
<1> DEFINE chain == {u \in used : Bucket(block, u) = BucketOf[k]}
           tail  == {u \in chain : block[u].next = Null}
<1>1. PICK b \in Blocks \ used, d \in FreeStreams \cup {Null} :
        /\ block' = [u \in Blocks |->
                       IF u = b THEN [key |-> k, state |-> "normal", next |-> Null, data |-> d]
                       ELSE IF u \in tail THEN [block[u] EXCEPT !.next = b]
                       ELSE block[u]]
        /\ heads' = IF chain = {} THEN [heads EXCEPT ![BucketOf[k]] = b] ELSE heads
        /\ used' = used \cup {b}
  BY DEF CreateEntry, Bucket
<1>2. changes' = changes + 1 /\ changes \in Nat
  BY CacheAssumption DEF CreateEntry, Touched, StoreInv, CacheTypeOK
<1>3. /\ used \subseteq Blocks /\ block \in [Blocks -> EntryBlock] /\ heads \in [Buckets -> Address]
      /\ BucketOf[k] \in Buckets /\ \A u \in used : Bucket(block, u) \in Buckets
  BY CacheAssumption DEF StoreInv, CacheTypeOK, Cached, Bucket
<1>4. PICK r \in [Blocks -> Nat] : Ordered(r)
  BY DEF OrderInv
<1>5. PICK q \in [Blocks -> Nat] :
        /\ q[b] = changes + 1
        /\ \A u \in used : u # b /\ q[u] = r[u] /\ r[u] \in Nat /\ r[u] <= changes
  <2> DEFINE f == [r EXCEPT ![b] = changes + 1]
  <2>1. f \in [Blocks -> Nat] /\ f[b] = changes + 1
    BY <1>2
  <2>2. \A u \in used : u # b /\ f[u] = r[u] /\ r[u] \in Nat /\ r[u] <= changes
    BY <1>3, <1>4 DEF Ordered
  <2> QED
    BY <2>1, <2>2
<1>6. /\ block'[b].key = k /\ block'[b].state = "normal" /\ block'[b].next = Null
      /\ \A u \in used : /\ block'[u].key = block[u].key /\ block'[u].state = block[u].state
                         /\ block'[u].next = IF u \in tail THEN b ELSE block[u].next
  BY <1>1, <1>3 DEF EntryBlock
<1>7. Bucket(block', b) = BucketOf[k] /\ \A u \in used : Bucket(block', u) = Bucket(block, u)
  BY <1>6 DEF Bucket
<1>8. \A i \in Buckets : heads'[i] = IF chain = {} /\ i = BucketOf[k] THEN b ELSE heads[i]
  BY <1>1, <1>3
<1>9. \A u \in used : block[u].next # Null =>
        /\ block[u].next \in used /\ Bucket(block, block[u].next) = Bucket(block, u) /\ r[u] < r[block[u].next]
  BY <1>4 DEF Ordered
<1>10. \A u \in used : u \in tail <=> Bucket(block, u) = BucketOf[k] /\ block[u].next = Null
  OBVIOUS
<1>11. \A u \in used : /\ heads[Bucket(block, u)] # Null /\ heads[Bucket(block, u)] \in used
                       /\ r[heads[Bucket(block, u)]] <= r[u]
  BY <1>3, <1>4 DEF Ordered
<1>12. chain = {} => \A u \in used : Bucket(block, u) # BucketOf[k]
  OBVIOUS
<1>13. chain # {} => heads[BucketOf[k]] # Null /\ heads[BucketOf[k]] \in used
  BY <1>11
<1> HIDE DEF chain, tail
<1>14. \A u \in used' : /\ q[u] <= changes'
                        /\ block'[u].next # Null => /\ block'[u].next \in used'
                                                   /\ Bucket(block', block'[u].next) = Bucket(block', u)
                                                   /\ q[u] < q[block'[u].next]
                        /\ heads'[Bucket(block', u)] # Null /\ q[heads'[Bucket(block', u)]] <= q[u]
  <2> SUFFICES ASSUME NEW u \in used'
               PROVE  /\ q[u] <= changes'
                      /\ block'[u].next # Null => /\ block'[u].next \in used'
                                                 /\ Bucket(block', block'[u].next) = Bucket(block', u)
                                                 /\ q[u] < q[block'[u].next]
                      /\ heads'[Bucket(block', u)] # Null /\ q[heads'[Bucket(block', u)]] <= q[u]
    OBVIOUS
  <2>1. CASE u = b
    <3>1. heads'[BucketOf[k]] = IF chain = {} THEN b ELSE heads[BucketOf[k]]
      BY <1>3, <1>8
    <3> QED
      BY <2>1, <3>1, <1>2, <1>5, <1>6, <1>7, <1>13
  <2>2. CASE u \in used
    <3>1. q[u] <= changes' /\ q[u] < q[b]
      BY <2>2, <1>2, <1>5
    <3>2. block'[u].next # Null => /\ block'[u].next \in used'
                                  /\ Bucket(block', block'[u].next) = Bucket(block', u)
                                  /\ q[u] < q[block'[u].next]
      <4>1. CASE u \in tail
        BY <4>1, <2>2, <3>1, <1>1, <1>6, <1>7, <1>10
      <4>2. CASE u \notin tail
        BY <4>2, <2>2, <1>1, <1>5, <1>6, <1>7, <1>9
      <4> QED
        BY <4>1, <4>2
    <3>3. heads'[Bucket(block, u)] = heads[Bucket(block, u)]
      BY <2>2, <1>3, <1>8, <1>12
    <3>4. heads'[Bucket(block', u)] # Null /\ q[heads'[Bucket(block', u)]] <= q[u]
      BY <2>2, <3>3, <1>5, <1>7, <1>11
    <3> QED
      BY <3>1, <3>2, <3>4
  <2> QED
    BY <2>1, <2>2, <1>1
<1>15. \A u, v \in used' : /\ q[u] = q[v] => u = v
                           /\ Bucket(block', u) = Bucket(block', v) /\ q[u] < q[v] =>
                                block'[u].next # Null /\ q[block'[u].next] <= q[v]
  <2> SUFFICES ASSUME NEW u \in used', NEW v \in used'
               PROVE  /\ q[u] = q[v] => u = v
                      /\ Bucket(block', u) = Bucket(block', v) /\ q[u] < q[v] =>
                           block'[u].next # Null /\ q[block'[u].next] <= q[v]
    OBVIOUS
  <2>1. CASE u = b
    BY <2>1, <1>1, <1>2, <1>5
  <2>2. CASE u \in used /\ v = b
    <3>1. u # b /\ q[u] # q[b]
      BY <2>2, <1>2, <1>5
    <3>2. ASSUME Bucket(block, u) = BucketOf[k]
          PROVE  block'[u].next # Null /\ q[block'[u].next] <= q[b]
      <4>1. CASE block[u].next = Null
        <5>1. block'[u].next = b
          BY <2>2, <3>2, <4>1, <1>6, <1>10
        <5> QED
          BY <5>1, <1>2, <1>5
      <4>2. CASE block[u].next # Null
        <5>1. block'[u].next = block[u].next /\ block[u].next \in used
          BY <2>2, <4>2, <1>6, <1>9, <1>10
        <5> QED
          BY <4>2, <5>1, <1>2, <1>5
      <4> QED
        BY <4>1, <4>2
    <3> QED
      BY <2>2, <3>1, <3>2, <1>7
  <2>3. CASE u \in used /\ v \in used
    <3>1. /\ r[u] = r[v] => u = v
          /\ Bucket(block, u) = Bucket(block, v) /\ r[u] < r[v] => block[u].next # Null /\ r[block[u].next] <= r[v]
      BY <2>3, <1>4 DEF Ordered
    <3>2. block[u].next # Null => block'[u].next = block[u].next /\ block[u].next \in used
      BY <2>3, <1>6, <1>9, <1>10
    <3> QED
      BY <2>3, <3>1, <3>2, <1>5, <1>7
  <2> QED
    BY <2>1, <2>2, <2>3, <1>1
<1>16. \A i \in Buckets : heads'[i] # Null => heads'[i] \in used' /\ Bucket(block', heads'[i]) = i
  <2>1. \A i \in Buckets : heads[i] # Null => heads[i] \in used /\ Bucket(block, heads[i]) = i
    BY <1>4 DEF Ordered
  <2> QED
    BY <2>1, <1>1, <1>7, <1>8
<1>17. Ordered(q)'
  BY <1>14, <1>15, <1>16 DEF Ordered
<1>18. \A u \in used' : block'[u].state = "normal"
  BY <1>1, <1>6 DEF OrderInv
<1> QED
  BY <1>5, <1>17, <1>18 DEF OrderInv

LEMMA FillEntryOrders ==
  ASSUME StoreInv, OrderInv, NEW k \in Keys, FillEntry(k)
  PROVE  OrderInv'
<1>1. PICK b \in used, d \in FreeStreams : block' = [block EXCEPT ![b].data = d]
  BY DEF FillEntry
<1>2. /\ UNCHANGED <<heads, used>> /\ changes' = changes + 1 /\ changes \in Nat
      /\ used \subseteq Blocks /\ block \in [Blocks -> EntryBlock] /\ heads \in [Buckets -> Address]
  BY CacheAssumption DEF FillEntry, Touched, StoreInv, CacheTypeOK
<1>3. \A u \in Blocks : /\ block'[u].next = block[u].next /\ block'[u].key = block[u].key
                        /\ block'[u].state = block[u].state
  BY <1>1, <1>2 DEF EntryBlock
<1>4. \A u \in Blocks : Bucket(block', u) = Bucket(block, u)
  BY <1>3 DEF Bucket
<1>5. PICK r \in [Blocks -> Nat] : Ordered(r)
  BY DEF OrderInv
<1>6. \A u \in used : r[u] <= changes'
  BY <1>2, <1>5 DEF Ordered
<1>7. \A u \in used : u \in Blocks /\ (block[u].next # Null => block[u].next \in Blocks)
  BY <1>2, <1>5 DEF Ordered
<1>8. \A i \in Buckets : heads[i] # Null => heads[i] \in Blocks
  BY <1>2 DEF Address
<1>9. Ordered(r)'
  BY <1>2, <1>3, <1>4, <1>5, <1>6, <1>7, <1>8 DEF Ordered
<1> QED
  BY <1>2, <1>3, <1>9 DEF OrderInv

LEMMA DeleteEntryOrders ==
  ASSUME StoreInv, OrderInv, NEW k \in Keys, DeleteEntry(k)
  PROVE  OrderInv'
<1> USE NullIsNoSlot
<1>1. PICK b \in used, state \in {"normal", "doomed"} :
        /\ block' = [u \in Blocks |->
                       IF u = b THEN [block[b] EXCEPT !.state = state]
                       ELSE IF u \in used /\ block[u].next = b
                         THEN [block[u] EXCEPT !.next = block[b].next]
                       ELSE block[u]]
        /\ heads' = [i \in Buckets |-> IF heads[i] = b THEN block[b].next ELSE heads[i]]
        /\ used' = used \ {b}
  BY DEF DeleteEntry
<1>2. /\ changes' = changes + 1 /\ changes \in Nat
      /\ used \subseteq Blocks /\ block \in [Blocks -> EntryBlock]
  BY CacheAssumption DEF DeleteEntry, Touched, StoreInv, CacheTypeOK
<1>3. PICK r \in [Blocks -> Nat] : Ordered(r)
  BY DEF OrderInv
<1>4. \A u \in used' : /\ u \in used /\ u # b
                       /\ block'[u].key = block[u].key /\ block'[u].state = block[u].state
                       /\ block'[u].next = IF block[u].next = b THEN block[b].next ELSE block[u].next
  BY <1>1, <1>2 DEF EntryBlock
<1>5. \A u \in used' : Bucket(block', u) = Bucket(block, u)
  BY <1>4 DEF Bucket
<1>6. \A i \in Buckets : heads'[i] = IF heads[i] = b THEN block[b].next ELSE heads[i]
  BY <1>1
<1>7. \A u \in used : /\ r[u] \in Nat /\ r[u] <= changes /\ Bucket(block, u) \in Buckets
                      /\ block[u].next # Null => /\ block[u].next \in used
                                                /\ Bucket(block, block[u].next) = Bucket(block, u)
                                                /\ r[u] < r[block[u].next]
                      /\ heads[Bucket(block, u)] # Null /\ r[heads[Bucket(block, u)]] <= r[u]
                      /\ heads[Bucket(block, u)] \in used
  <2>1. \A u \in used : Bucket(block, u) \in Buckets
    BY CacheAssumption DEF StoreInv, Cached, Bucket
  <2> QED
    BY <2>1, <1>2, <1>3 DEF Ordered
<1>8. \A u, v \in used : /\ r[u] = r[v] => u = v
                         /\ Bucket(block, u) = Bucket(block, v) /\ r[u] < r[v] =>
                              block[u].next # Null /\ r[block[u].next] <= r[v]
  BY <1>3 DEF Ordered
<1>9. block[b].next # b
  BY <1>2, <1>7
<1>10. ASSUME NEW u \in used'
       PROVE  /\ r[u] <= changes'
              /\ block'[u].next # Null => /\ block'[u].next \in used'
                                         /\ Bucket(block', block'[u].next) = Bucket(block', u)
                                         /\ r[u] < r[block'[u].next]
              /\ heads'[Bucket(block', u)] # Null /\ r[heads'[Bucket(block', u)]] <= r[u]
  <2>1. u \in used /\ u # b /\ Bucket(block', u) = Bucket(block, u) /\ r[u] <= changes'
    BY <1>2, <1>4, <1>5, <1>7
  <2>2. block'[u].next # Null => /\ block'[u].next \in used'
                                /\ Bucket(block, block'[u].next) = Bucket(block, u)
                                /\ r[u] < r[block'[u].next]
    <3>1. CASE block[u].next = b
      <4>1. r[u] < r[b] /\ Bucket(block, b) = Bucket(block, u) /\ r[u] \in Nat /\ r[b] \in Nat
        BY <2>1, <3>1, <1>2, <1>7
      <4>2. block[b].next # Null => /\ block[b].next \in used /\ Bucket(block, block[b].next) = Bucket(block, b)
                                   /\ r[b] < r[block[b].next] /\ r[block[b].next] \in Nat
        BY <1>7
      <4> QED
        BY <3>1, <4>1, <4>2, <1>1, <1>4, <1>9
    <3>2. CASE block[u].next # b
      BY <2>1, <3>2, <1>1, <1>4, <1>7
    <3> QED
      BY <3>1, <3>2
  <2>3. heads'[Bucket(block, u)] # Null /\ r[heads'[Bucket(block, u)]] <= r[u]
    <3>1. CASE heads[Bucket(block, u)] = b
      <4>1. Bucket(block, b) = Bucket(block, u)
        BY <2>1, <3>1, <1>3, <1>7 DEF Ordered
      <4>2. r[b] < r[u]
        BY <2>1, <3>1, <1>7, <1>8
      <4> QED
        BY <2>1, <3>1, <4>1, <4>2, <1>6, <1>7, <1>8
    <3>2. CASE heads[Bucket(block, u)] # b
      BY <2>1, <3>2, <1>6, <1>7
    <3> QED
      BY <3>1, <3>2
  <2> QED
    BY <2>1, <2>2, <2>3, <1>5
<1>11. ASSUME NEW u \in used', NEW v \in used', Bucket(block', u) = Bucket(block', v), r[u] < r[v]
       PROVE  block'[u].next # Null /\ r[block'[u].next] <= r[v]
  <2>1. u \in used /\ v \in used /\ v # b /\ Bucket(block, u) = Bucket(block, v)
    BY <1>4, <1>5, <1>11
  <2>2. block[u].next # Null /\ r[block[u].next] <= r[v]
    BY <2>1, <1>8, <1>11
  <2>3. CASE block[u].next = b
    <3>1. r[b] < r[v] /\ Bucket(block, b) = Bucket(block, v)
      BY <2>1, <2>2, <2>3, <1>7, <1>8
    <3>2. block[b].next # Null /\ r[block[b].next] <= r[v]
      BY <2>1, <3>1, <1>8
    <3> QED
      BY <2>3, <3>2, <1>4
  <2>4. CASE block[u].next # b
    BY <2>2, <2>4, <1>4
  <2> QED
    BY <2>3, <2>4
<1>12. \A i \in Buckets : heads'[i] # Null => heads'[i] \in used' /\ Bucket(block', heads'[i]) = i
  <2>1. \A i \in Buckets : heads[i] # Null => heads[i] \in used /\ Bucket(block, heads[i]) = i
    BY <1>3 DEF Ordered
  <2>2. \A i \in Buckets : heads'[i] # Null =>
          heads'[i] \in used' /\ Bucket(block, heads'[i]) = i
    BY <2>1, <1>1, <1>2, <1>6, <1>7, <1>9
  <2> QED
    BY <2>2, <1>5
<1>13. \A u, v \in used' : r[u] = r[v] => u = v
  BY <1>4, <1>8
<1>14. Ordered(r)'
  BY <1>10, <1>11, <1>12, <1>13 DEF Ordered
<1>15. \A u \in used' : block'[u].state = "normal"
  BY <1>4 DEF OrderInv
<1> QED
  BY <1>14, <1>15 DEF OrderInv

LEMMA BrowserKeepsOrder ==
  ASSUME StoreInv, OrderInv, BrowserStep
  PROVE  OrderInv'
BY CreateEntryOrders, FillEntryOrders, DeleteEntryOrders DEF BrowserStep

LEMMA OrderInit == CacheInit => OrderInv
<1> SUFFICES ASSUME CacheInit PROVE OrderInv
  OBVIOUS
<1>1. [b \in Blocks |-> 0] \in [Blocks -> Nat] /\ \A r \in [Blocks -> Nat] : Ordered(r)
  BY DEF CacheInit, Ordered
<1> QED
  BY <1>1 DEF CacheInit, OrderInv

LEMMA BrowserKeepsStore ==
  ASSUME StoreInv, OwnerInv, BrowserStep
  PROVE  StoreInv' /\ OwnerInv'
BY CreateEntryKeeps, FillEntryKeeps, DeleteEntryKeeps, CreateEntryOwns, FillEntryOwns,
   DeleteEntryOwns DEF BrowserStep

LEMMA StoreInit == CacheInit => StoreInv /\ OwnerInv
<1> SUFFICES ASSUME CacheInit PROVE StoreInv /\ OwnerInv
  OBVIOUS
<1>1. CacheTypeOK
  BY CacheAssumption DEF CacheInit, CacheTypeOK, EntryBlock, ZeroBlock, Address
<1>2. \E r \in [Blocks -> Nat] : TRUE
  <2>1. [b \in Blocks |-> 0] \in [Blocks -> Nat]
    OBVIOUS
  <2> QED
    BY <2>1
<1>3. ChainInv /\ HeadInv /\ Cached \subseteq Keys
  BY <1>2 DEF CacheInit, ChainInv, HeadInv, Cached
<1>4. OwnerInv
  BY FS_EmptySet DEF CacheInit, OwnerInv
<1> QED
  BY <1>1, <1>3, <1>4 DEF StoreInv
==============================================================================
