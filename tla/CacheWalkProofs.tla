--------------------------- MODULE CacheWalkProofs ---------------------------
(***************************************************************************)
(* Proofs about CacheWalk for every instance: the types; for caches whose  *)
(* readable entry blocks all lie in one data file, that the walk brings    *)
(* back nothing that was deleted before it read the index; and that a      *)
(* cache nobody changes is read exactly.                                   *)
(*                                                                         *)
(* The argument.  Chains follow the order in which entries were made       *)
(* (ChainInv of CacheStoreProofs), so an unlinked block is never linked to *)
(* again and at the moment the index is read every link of a live entry    *)
(* leads to a live entry.  From then on there is a set T of blocks, those  *)
(* live at some moment since, that the walk cannot leave (ReachInv): on    *)
(* disk until the file with the entries is loaded, in the copy of it       *)
(* afterwards.                                                             *)
(*   For the quiet walk: the used blocks of a bucket are one chain in the  *)
(* order of their making (OrderInv of CacheStoreProofs), so the place the  *)
(* walk stands on parts them into those behind it (Past), each reported    *)
(* once if it is complete (Counted), and those ahead.                      *)
(***************************************************************************)
EXTENDS CacheWalk, CacheStoreProofs

PlaceInv ==
  /\ at = "index" => bucket = 1 /\ loaded = {} /\ hits = {}
  /\ at = "walk" /\ addr # Null => bucket <= NBuckets
  /\ at = "headers" => /\ addr # Null /\ bucket <= NBuckets
                       /\ FileOf[addr] \in loaded \ Unreadable
                       /\ blockSnap[addr].key \in Http
                       /\ blockSnap[addr].data # Null

(* The links of the blocks in T stay in T, on disk and in the copy.        *)
OnDisk(T) == /\ used \subseteq T
             /\ \A b \in T : /\ block[b].key \in seen
                             /\ block[b].next \in T \cup {Null}
InCopy(T, F) ==
  \A b \in T : FileOf[b] = F => /\ blockSnap[b].key \in seen
                                /\ blockSnap[b].next \in T \cup {Null}
Within(T) == /\ addr \in T \cup {Null}
             /\ \A i \in Buckets : table[i] \in T \cup {Null}

ReachInv(F) ==
  at \in {"walk", "headers"} =>
    \E T \in SUBSET Blocks :
      Within(T) /\ IF F \in loaded THEN InCopy(T, F) ELSE OnDisk(T)

-----------------------------------------------------------------------------
(* What the browser does keeps a set of blocks closed under links, or       *)
(* widens it by the block of a new entry.                                  *)
LEMMA BrowserKeepsOnDisk ==
  ASSUME StoreInv, NEW T \in SUBSET Blocks, OnDisk(T), NEW k \in Keys,
         CreateEntry(k) \/ FillEntry(k) \/ DeleteEntry(k),
         seen' = seen \cup Cached'
  PROVE  \E U \in SUBSET Blocks : T \subseteq U /\ OnDisk(U)'
<1> USE NullIsNoSlot
<1>1. CASE CreateEntry(k)
  <2>1. PICK b \in Blocks \ used, d \in FreeStreams \cup {Null} :
          LET entry == [key |-> k, state |-> "normal", next |-> Null, data |-> d]
              chain == {u \in used : BucketOf[block[u].key] = BucketOf[k]}
              tail  == {u \in chain : block[u].next = Null}
          IN  /\ block' = [u \in Blocks |->
                             IF u = b THEN entry
                             ELSE IF u \in tail THEN [block[u] EXCEPT !.next = b]
                             ELSE block[u]]
              /\ used' = used \cup {b}
    BY <1>1 DEF CreateEntry
  <2> DEFINE U == T \cup {b}
  <2>2. block'[b].key = k /\ block'[b].next = Null
    BY <2>1
  <2>3. k \in seen'
    BY <2>1, <2>2 DEF Cached
  <2>4. ASSUME NEW u \in U, u # b
        PROVE  /\ block'[u].key = block[u].key
               /\ block'[u].next \in {b, block[u].next}
    BY <2>1, <2>4 DEF StoreInv, CacheTypeOK, EntryBlock
  <2>5. OnDisk(U)'
    BY <2>1, <2>2, <2>3, <2>4 DEF OnDisk
  <2> QED BY <2>5
<1>2. CASE FillEntry(k)
  <2>1. PICK b \in used, d \in FreeStreams : block' = [block EXCEPT ![b].data = d]
    BY <1>2 DEF FillEntry
  <2>2. \A u \in Blocks : /\ block'[u].next = block[u].next
                          /\ block'[u].key = block[u].key
    BY <2>1 DEF StoreInv, CacheTypeOK, EntryBlock
  <2>3. OnDisk(T)'
    BY <2>2, <1>2 DEF OnDisk, FillEntry
  <2> QED BY <2>3
<1>3. CASE DeleteEntry(k)
  <2>1. PICK b \in used, state \in {"normal", "doomed"} :
          /\ block' = [u \in Blocks |->
                         IF u = b THEN [block[b] EXCEPT !.state = state]
                         ELSE IF u \in used /\ block[u].next = b
                           THEN [block[u] EXCEPT !.next = block[b].next]
                         ELSE block[u]]
          /\ used' = used \ {b}
    BY <1>3 DEF DeleteEntry
  <2>2. ASSUME NEW u \in Blocks
        PROVE  /\ block'[u].key = block[u].key
               /\ block'[u].next \in {block[u].next, block[b].next}
    BY <2>1 DEF StoreInv, CacheTypeOK, EntryBlock
  <2>3. b \in T /\ block[b].next \in T \cup {Null}
    BY <2>1 DEF OnDisk
  <2>4. OnDisk(T)'
    BY <2>1, <2>2, <2>3 DEF OnDisk
  <2> QED BY <2>4
<1> QED BY <1>1, <1>2, <1>3

-----------------------------------------------------------------------------
(* The types.                                                              *)

TypeInv == TypeOK /\ StoreInv /\ PlaceInv

LEMMA AdvanceKeeps ==
  ASSUME TypeInv, bucket <= NBuckets, NEW n \in Address, Advance(n)
  PROVE  /\ addr' \in Address
         /\ bucket' \in 1 .. NBuckets + 1
         /\ addr' # Null => bucket' <= NBuckets
BY OneIsABucket DEF TypeInv, TypeOK, Advance, Address, Buckets

LEMMA LoadKeeps ==
  ASSUME TypeInv, NEW f \in Files, Load(f)
  PROVE  /\ loaded' \subseteq Files /\ f \in loaded'
         /\ blockSnap' \in [Blocks -> EntryBlock]
         /\ streamSnap' \in [Streams -> Owner]
BY DEF TypeInv, TypeOK, CacheTypeOK, Load, Owner

LEMMA AddrHasFile ==
  ASSUME TypeInv, addr # Null
  PROVE  addr \in Blocks /\ FileOf[addr] \in Files
BY CacheAssumption DEF TypeInv, TypeOK, Address, Slots

LEMMA TypeInvInit == Init => TypeInv
<1> SUFFICES ASSUME Init PROVE TypeInv
  OBVIOUS
<1> USE NullIsNoSlot, OneIsABucket, CacheAssumption
<1>1. CacheTypeOK
  BY DEF Init, CacheInit, CacheTypeOK, ZeroBlock, EntryBlock, Address
<1>2. TypeOK
  <2>1. table \in [Buckets -> Address] /\ addr \in Address
    BY DEF Init, Address
  <2>2. blockSnap \in [Blocks -> EntryBlock] /\ streamSnap \in [Streams -> Owner]
    BY DEF Init, ZeroBlock, EntryBlock, Address, Owner
  <2>3. bucket \in 1 .. NBuckets + 1
    BY DEF Init
  <2>4. /\ at \in {"index", "walk", "headers", "done", "absent"}
        /\ loaded \subseteq Files
        /\ hits \subseteq [key: Http, data: Keys, slot: Streams]
        /\ times \in [Keys -> 0 .. 2]
        /\ said \subseteq {"badIndex", "parsed", "abandoned"}
        /\ seen \subseteq Keys
    BY DEF Init
  <2>5. skipped \in BOOLEAN /\ malformed \in BOOLEAN /\ still \in BOOLEAN
    BY DEF Init
  <2> QED BY <1>1, <2>1, <2>2, <2>3, <2>4, <2>5 DEF TypeOK
<1>3. used = {} /\ Cached = {} /\ HeadInv
  BY DEF Init, CacheInit, Cached, HeadInv
<1>4. ChainInv
  <2>1. [b \in Blocks |-> 0] \in [Blocks -> Nat]
    OBVIOUS
  <2> QED BY <2>1, <1>3 DEF ChainInv
<1>5. PlaceInv
  BY DEF Init, PlaceInv
<1> QED BY <1>1, <1>2, <1>3, <1>4, <1>5 DEF TypeInv, StoreInv

LEMMA StoreUnchanged ==
  ASSUME StoreInv, UNCHANGED cacheVars
  PROVE  StoreInv'
BY DEF StoreInv, cacheVars, CacheTypeOK, ChainInv, HeadInv, Cached

LEMMA TypeInvNext == TypeInv /\ [Next]_vars => TypeInv'
<1> SUFFICES ASSUME TypeInv, [Next]_vars PROVE TypeInv'
  OBVIOUS
<1> USE NullIsNoSlot, OneIsABucket
<1>1. CASE Browser
  <2>1. PICK k \in Keys : CreateEntry(k) \/ FillEntry(k) \/ DeleteEntry(k)
    BY <1>1 DEF Browser, BrowserStep
  <2>2. StoreInv'
    BY <2>1, CreateEntryKeeps, FillEntryKeeps, DeleteEntryKeeps DEF TypeInv
  <2> QED BY <1>1, <2>2
          DEF TypeInv, TypeOK, StoreInv, PlaceInv, Browser, walkVars
<1>2. CASE NoCache
  <2>1. StoreInv'
    BY <1>2, StoreUnchanged DEF NoCache, WalkFrame, TypeInv
  <2> QED BY <1>2, <2>1
          DEF TypeInv, TypeOK, StoreInv, PlaceInv, NoCache, WalkFrame
<1>3. CASE ReadIndex
  <2>1. StoreInv'
    BY <1>3, StoreUnchanged DEF ReadIndex, WalkFrame, TypeInv
  <2> QED BY <1>3, <2>1
          DEF TypeInv, TypeOK, StoreInv, PlaceInv, ReadIndex, WalkFrame,
              CacheTypeOK, Buckets
<1>4. CASE VisitMissing
  <2>1. StoreInv'
    BY <1>4, StoreUnchanged DEF VisitMissing, WalkFrame, TypeInv
  <2>2. bucket <= NBuckets /\ FileOf[addr] \in Files
    BY <1>4, AddrHasFile DEF VisitMissing, TypeInv, PlaceInv
  <2>3. /\ loaded' \subseteq Files
        /\ blockSnap' \in [Blocks -> EntryBlock]
        /\ streamSnap' \in [Streams -> Owner]
    BY <1>4, <2>2, LoadKeeps DEF VisitMissing
  <2>4. Null \in Address
    BY DEF Address
  <2>5. /\ addr' \in Address
        /\ bucket' \in 1 .. NBuckets + 1
        /\ addr' # Null => bucket' <= NBuckets
    BY <1>4, <2>2, <2>4, AdvanceKeeps DEF VisitMissing, Abandon
  <2> QED BY <1>4, <2>1, <2>3, <2>5
          DEF TypeInv, TypeOK, StoreInv, PlaceInv, VisitMissing, WalkFrame,
              Abandon
<1>5. CASE VisitOther
  <2>1. StoreInv'
    BY <1>5, StoreUnchanged DEF VisitOther, WalkFrame, TypeInv
  <2>2. bucket <= NBuckets /\ FileOf[addr] \in Files /\ addr \in Blocks
    BY <1>5, AddrHasFile DEF VisitOther, TypeInv, PlaceInv
  <2>3. /\ loaded' \subseteq Files
        /\ blockSnap' \in [Blocks -> EntryBlock]
        /\ streamSnap' \in [Streams -> Owner]
    BY <1>5, <2>2, LoadKeeps DEF VisitOther
  <2>4. blockSnap'[addr].next \in Address
    BY <2>2, <2>3 DEF EntryBlock
  <2>5. /\ addr' \in Address
        /\ bucket' \in 1 .. NBuckets + 1
        /\ addr' # Null => bucket' <= NBuckets
    BY <1>5, <2>2, <2>4, AdvanceKeeps DEF VisitOther
  <2> QED BY <1>5, <2>1, <2>3, <2>5
          DEF TypeInv, TypeOK, StoreInv, PlaceInv, VisitOther, WalkFrame
<1>6. CASE VisitHttp
  <2>1. StoreInv'
    BY <1>6, StoreUnchanged DEF VisitHttp, WalkFrame, TypeInv
  <2>2. bucket <= NBuckets /\ FileOf[addr] \in Files /\ addr \in Blocks
    BY <1>6, AddrHasFile DEF VisitHttp, TypeInv, PlaceInv
  <2>3. /\ loaded' \subseteq Files /\ FileOf[addr] \in loaded'
        /\ blockSnap' \in [Blocks -> EntryBlock]
        /\ streamSnap' \in [Streams -> Owner]
    BY <1>6, <2>2, LoadKeeps DEF VisitHttp
  <2>4. CASE blockSnap'[addr].data = Null
    <3>1. blockSnap'[addr].next \in Address
      BY <2>2, <2>3 DEF EntryBlock
    <3>2. /\ addr' \in Address
          /\ bucket' \in 1 .. NBuckets + 1
          /\ addr' # Null => bucket' <= NBuckets
      BY <1>6, <2>2, <2>4, <3>1, AdvanceKeeps DEF VisitHttp
    <3>3. at' = "walk"
      BY <1>6, <2>4 DEF VisitHttp
    <3> QED BY <1>6, <2>1, <2>3, <3>2, <3>3
            DEF TypeInv, TypeOK, StoreInv, PlaceInv, VisitHttp, WalkFrame
  <2>5. CASE blockSnap'[addr].data # Null
    <3>1. /\ at' = "headers" /\ UNCHANGED <<addr, bucket>>
          /\ blockSnap'[addr].key \in Http
      BY <1>6, <2>5 DEF VisitHttp, HttpEntry
    <3> QED BY <1>6, <2>1, <2>2, <2>3, <2>5, <3>1
            DEF TypeInv, TypeOK, StoreInv, PlaceInv, VisitHttp, WalkFrame
  <2> QED BY <2>4, <2>5
<1>7. CASE PushEntry
  <2>1. StoreInv'
    BY <1>7, StoreUnchanged DEF PushEntry, WalkFrame, TypeInv
  <2> DEFINE e == blockSnap[addr]
  <2>2. /\ bucket <= NBuckets /\ addr \in Blocks
        /\ e.key \in Http /\ e.next \in Address /\ e.data \in Streams
    BY <1>7, AddrHasFile DEF PushEntry, TypeInv, TypeOK, PlaceInv, EntryBlock
  <2>3. FileOf[e.data] \in Files /\ e.key \in Keys
    BY <2>2, CacheAssumption, WalkAssumption DEF Slots
  <2>4. /\ loaded' \subseteq Files
        /\ blockSnap' \in [Blocks -> EntryBlock]
        /\ streamSnap' \in [Streams -> Owner]
    BY <1>7, <2>3, LoadKeeps DEF PushEntry
  <2>5. /\ addr' \in Address
        /\ bucket' \in 1 .. NBuckets + 1
        /\ addr' # Null => bucket' <= NBuckets
    BY <1>7, <2>2, AdvanceKeeps DEF PushEntry
  <2>6. /\ hits' \subseteq [key: Http, data: Keys, slot: Streams]
        /\ times' \in [Keys -> 0 .. 2]
    <3>1. streamSnap'[e.data] \in Keys \cup {Null}
      BY <2>2, <2>4 DEF Owner
    <3> DEFINE h == [key |-> e.key, data |-> streamSnap'[e.data], slot |-> e.data]
    <3>2. streamSnap'[e.data] # Null => h \in [key: Http, data: Keys, slot: Streams]
      BY <3>1, <2>2
    <3>3. /\ hits \subseteq [key: Http, data: Keys, slot: Streams]
          /\ times \in [Keys -> 0 .. 2]
      BY DEF TypeInv, TypeOK
    <3> QED BY <1>7, <2>3, <3>2, <3>3 DEF PushEntry, Parsed
  <2> QED BY <1>7, <2>1, <2>4, <2>5, <2>6
          DEF TypeInv, TypeOK, StoreInv, PlaceInv, PushEntry, WalkFrame
<1>8. CASE NextBucket
  <2>1. StoreInv'
    BY <1>8, StoreUnchanged DEF NextBucket, WalkFrame, TypeInv
  <2>2. Null \in Address
    BY DEF Address
  <2>3. /\ addr' \in Address
        /\ bucket' \in 1 .. NBuckets + 1
        /\ addr' # Null => bucket' <= NBuckets
    BY <1>8, <2>2, AdvanceKeeps DEF NextBucket
  <2> QED BY <1>8, <2>1, <2>3
          DEF TypeInv, TypeOK, StoreInv, PlaceInv, NextBucket, WalkFrame
<1>9. CASE ReportWalk
  <2>1. StoreInv'
    BY <1>9, StoreUnchanged DEF ReportWalk, WalkFrame, TypeInv
  <2> QED BY <1>9, <2>1
          DEF TypeInv, TypeOK, StoreInv, PlaceInv, ReportWalk, WalkFrame
<1>10. CASE UNCHANGED vars
  <2>1. StoreInv'
    BY <1>10, StoreUnchanged DEF vars, TypeInv
  <2> QED BY <1>10, <2>1
          DEF TypeInv, TypeOK, StoreInv, PlaceInv, vars, walkVars, cacheVars
<1> QED BY <1>1, <1>2, <1>3, <1>4, <1>5, <1>6, <1>7, <1>8, <1>9, <1>10
        DEF Next, Reader

THEOREM CacheWalkInvariant == Spec => []TypeInv
<1> QED BY TypeInvInit, TypeInvNext, PTL DEF Spec

(* Every variable of the walk keeps its type, whatever the browser does to *)
(* the files it reads.                                                     *)
THEOREM CacheWalkTypeOK == Spec => []TypeOK
<1>1. TypeInv => TypeOK
  BY DEF TypeInv
<1> QED BY <1>1, CacheWalkInvariant, PTL

-----------------------------------------------------------------------------
(* What is reported was cached.                                            *)

OneEntryFile(F) ==
  /\ F \in Files \ External
  /\ \A b \in Blocks : FileOf[b] = F \/ FileOf[b] \in Unreadable

LEMMA LoadStaysWithin ==
  ASSUME NEW F, OneEntryFile(F), TypeInv, NEW T \in SUBSET Blocks,
         IF F \in loaded THEN InCopy(T, F) ELSE OnDisk(T),
         NEW f \in Files, Load(f), UNCHANGED <<cacheVars, seen>>
  PROVE  IF F \in loaded' THEN InCopy(T, F)' ELSE OnDisk(T)'
<1>1. CASE f = F /\ F \notin loaded
  <2>1. F \in loaded' /\ \A b \in T : FileOf[b] = F => blockSnap'[b] = block[b]
    BY <1>1 DEF Load, OneEntryFile
  <2>2. InCopy(T, F)'
    BY <1>1, <2>1 DEF InCopy, OnDisk
  <2> QED BY <2>1, <2>2
<1>2. CASE f = F /\ F \in loaded
  BY <1>2 DEF Load, OneEntryFile, InCopy
<1>3. CASE f # F
  <2>1. F \in loaded' <=> F \in loaded
    BY <1>3 DEF Load
  <2>2. ASSUME NEW b \in T, FileOf[b] = F PROVE blockSnap'[b] = blockSnap[b]
    <3>1. FileOf[b] # f
      BY <1>3, <2>2
    <3> QED BY <3>1 DEF Load, TypeInv, TypeOK
  <2>3. OnDisk(T) => OnDisk(T)'
    BY DEF OnDisk, cacheVars
  <2>4. InCopy(T, F) => InCopy(T, F)'
    BY <2>2 DEF InCopy
  <2> QED BY <2>1, <2>3, <2>4
<1> QED BY <1>1, <1>2, <1>3

LEMMA AdvanceStaysWithin ==
  ASSUME TypeInv, NEW T \in SUBSET Blocks, Within(T), NEW n \in T \cup {Null},
         Advance(n), UNCHANGED table
  PROVE  Within(T)'
<1>1. bucket < NBuckets => table[bucket + 1] \in T \cup {Null}
  BY OneIsABucket DEF Within, Buckets, TypeInv, TypeOK
<1>2. addr' \in T \cup {Null}
  BY <1>1 DEF Advance
<1> QED BY <1>2 DEF Within

ReportInv(F) == TypeInv /\ ReachInv(F) /\ ReportedWasCached

LEMMA ReachNext ==
  ASSUME NEW F, OneEntryFile(F), ReportInv(F), TypeInv', [Next]_vars
  PROVE  ReachInv(F)' /\ ReportedWasCached'
<1> USE NullIsNoSlot
<1>1. CASE Browser
  <2>1. PICK k \in Keys : CreateEntry(k) \/ FillEntry(k) \/ DeleteEntry(k)
    BY <1>1 DEF Browser, BrowserStep
  <2>2. UNCHANGED walkVars
    BY <1>1 DEF Browser
  <2>3. CASE at = "index"
    <3>1. hits = {}
      BY <2>3 DEF ReportInv, TypeInv, PlaceInv
    <3> QED BY <2>2, <2>3, <3>1 DEF walkVars, ReachInv, ReportedWasCached
  <2>4. CASE at # "index"
    <3>1. seen' = seen \cup Cached'
      BY <1>1, <2>4 DEF Browser
    <3>2. ReportedWasCached'
      BY <2>2, <3>1 DEF ReportInv, ReportedWasCached, walkVars
    <3>3. ASSUME at \in {"walk", "headers"} PROVE ReachInv(F)'
      <4>1. PICK T \in SUBSET Blocks :
              Within(T) /\ IF F \in loaded THEN InCopy(T, F) ELSE OnDisk(T)
        BY <3>3 DEF ReportInv, ReachInv
      <4>2. CASE F \in loaded
        <5>1. InCopy(T, F)' /\ Within(T)'
          BY <4>1, <4>2, <2>2, <3>1 DEF InCopy, Within, walkVars
        <5> QED BY <5>1, <4>2, <2>2 DEF ReachInv, walkVars
      <4>3. CASE F \notin loaded
        <5>1. PICK U \in SUBSET Blocks : T \subseteq U /\ OnDisk(U)'
          BY <4>1, <4>3, <2>1, <3>1, BrowserKeepsOnDisk DEF ReportInv, TypeInv
        <5>2. Within(U)'
          BY <4>1, <5>1, <2>2 DEF Within, walkVars
        <5> QED BY <5>1, <5>2, <4>3, <2>2 DEF ReachInv, walkVars
      <4> QED BY <4>2, <4>3
    <3>4. CASE at \notin {"walk", "headers"}
      BY <2>2, <3>2, <3>4 DEF ReachInv, walkVars
    <3> QED BY <3>2, <3>3, <3>4
  <2> QED BY <2>3, <2>4
<1>2. CASE NoCache
  BY <1>2 DEF NoCache, ReachInv, ReportInv, ReportedWasCached, TypeInv, PlaceInv
<1>3. CASE ReadIndex
  <2>1. loaded = {} /\ hits = {}
    BY <1>3 DEF ReadIndex, ReportInv, TypeInv, PlaceInv
  <2>2. UNCHANGED <<heads, block, used>> /\ used \in SUBSET Blocks
    BY <1>3 DEF ReadIndex, WalkFrame, cacheVars, ReportInv, TypeInv, TypeOK,
                CacheTypeOK
  <2>4. \A b \in used : block[b].next \in used \cup {Null}
    BY DEF ReportInv, TypeInv, StoreInv, ChainInv
  <2>5. seen' = Cached
    BY <1>3 DEF ReadIndex
  <2>6. \A b \in used : block'[b].key \in seen' /\ block'[b].next \in used \cup {Null}
    BY <2>2, <2>4, <2>5 DEF Cached
  <2> DEFINE T == used
  <2>7. /\ addr' \in T \cup {Null}
        /\ \A i \in Buckets : table'[i] \in T \cup {Null}
    BY <1>3, OneIsABucket DEF ReadIndex, ReportInv, TypeInv, StoreInv, HeadInv
  <2>8. F \notin loaded'
    BY <1>3, <2>1 DEF ReadIndex
  <2>9. hits' = {}
    BY <1>3, <2>1 DEF ReadIndex
  <2>10. ReachInv(F)'
    BY <2>2, <2>6, <2>7, <2>8 DEF ReachInv, Within, OnDisk
  <2> QED BY <2>9, <2>10 DEF ReportedWasCached
<1>4. ASSUME at = "walk", addr # Null, Load(FileOf[addr]),
             UNCHANGED <<table, seen, cacheVars, hits>>,
             NEW n \in {Null, blockSnap'[addr].next},
             n = Null \/ FileOf[addr] \notin Unreadable,
             Advance(n) \/ UNCHANGED <<addr, bucket>>
      PROVE  ReachInv(F)' /\ ReportedWasCached'
  <2>1. PICK T \in SUBSET Blocks :
          Within(T) /\ IF F \in loaded THEN InCopy(T, F) ELSE OnDisk(T)
    BY <1>4 DEF ReportInv, ReachInv
  <2>2. addr \in T /\ FileOf[addr] \in Files
    BY <1>4, <2>1, AddrHasFile DEF Within, ReportInv
  <2>3. IF F \in loaded' THEN InCopy(T, F)' ELSE OnDisk(T)'
    BY <1>4, <2>1, <2>2, LoadStaysWithin DEF ReportInv
  <2>4. n # Null => FileOf[addr] = F /\ F \in loaded'
    BY <1>4, <2>2 DEF OneEntryFile, Load
  <2>5. n \in T \cup {Null}
    BY <1>4, <2>2, <2>3, <2>4 DEF InCopy
  <2>7. Within(T)'
    <3>1. CASE Advance(n)
      BY <1>4, <2>1, <2>5, <3>1, AdvanceStaysWithin DEF ReportInv
    <3>2. CASE UNCHANGED <<addr, bucket>>
      BY <1>4, <2>1, <3>2 DEF Within
    <3> QED BY <1>4, <3>1, <3>2
  <2>8. ReportedWasCached'
    BY <1>4 DEF ReportInv, ReportedWasCached
  <2> QED BY <2>3, <2>7, <2>8 DEF ReachInv
<1>5. CASE VisitMissing
  BY <1>5, <1>4 DEF VisitMissing, Abandon, WalkFrame
<1>6. CASE VisitOther
  BY <1>6, <1>4 DEF VisitOther, WalkFrame
<1>7. CASE VisitHttp
  BY <1>7, <1>4 DEF VisitHttp, WalkFrame
<1>8. CASE PushEntry
  <2> DEFINE e == blockSnap[addr]
  <2>1. /\ addr # Null /\ e.key \in Http /\ e.data \in Streams /\ addr \in Blocks
        /\ FileOf[addr] \in loaded \ Unreadable
    BY <1>8, AddrHasFile
       DEF PushEntry, ReportInv, TypeInv, TypeOK, PlaceInv, EntryBlock
  <2>2. PICK T \in SUBSET Blocks :
          Within(T) /\ IF F \in loaded THEN InCopy(T, F) ELSE OnDisk(T)
    BY <1>8 DEF PushEntry, ReportInv, ReachInv
  <2>3. addr \in T /\ FileOf[addr] = F /\ F \in loaded
    BY <2>1, <2>2 DEF Within, OneEntryFile
  <2>4. e.key \in seen /\ e.next \in T \cup {Null}
    BY <2>2, <2>3 DEF InCopy
  <2>5. FileOf[e.data] \in Files
    BY <2>1, CacheAssumption DEF Slots
  <2>6. /\ Load(FileOf[e.data]) /\ Advance(e.next)
        /\ UNCHANGED <<table, seen, cacheVars>>
    BY <1>8 DEF PushEntry, WalkFrame
  <2>7. F \in loaded'
    BY <2>3, <2>6 DEF Load
  <2>8. InCopy(T, F)'
    BY <2>2, <2>5, <2>6, <2>7, LoadStaysWithin DEF ReportInv
  <2>9. Within(T)'
    BY <2>2, <2>4, <2>6, AdvanceStaysWithin DEF ReportInv
  <2>10. \A h \in hits' : h \in hits \/ h.key = e.key
    BY <1>8 DEF PushEntry
  <2>11. ReportedWasCached'
    BY <2>4, <2>6, <2>10 DEF ReportInv, ReportedWasCached
  <2> QED BY <2>7, <2>8, <2>9, <2>11 DEF ReachInv
<1>9. CASE NextBucket
  <2>1. PICK T \in SUBSET Blocks :
          Within(T) /\ IF F \in loaded THEN InCopy(T, F) ELSE OnDisk(T)
    BY <1>9 DEF NextBucket, ReportInv, ReachInv
  <2>2. Within(T)'
    BY <1>9, <2>1, AdvanceStaysWithin DEF NextBucket, ReportInv
  <2>3. IF F \in loaded' THEN InCopy(T, F)' ELSE OnDisk(T)'
    BY <1>9, <2>1 DEF NextBucket, WalkFrame, cacheVars, InCopy, OnDisk
  <2>4. ReportedWasCached'
    BY <1>9 DEF NextBucket, ReportInv, ReportedWasCached
  <2> QED BY <2>2, <2>3, <2>4 DEF ReachInv
<1>10. CASE ReportWalk
  BY <1>10 DEF ReportWalk, ReachInv, ReportInv, ReportedWasCached
<1>11. CASE UNCHANGED vars
  BY <1>11 DEF vars, walkVars, cacheVars, ReachInv, ReportInv, ReportedWasCached,
               Within, InCopy, OnDisk
<1> QED BY <1>1, <1>2, <1>3, <1>5, <1>6, <1>7, <1>8, <1>9, <1>10, <1>11
        DEF Next, Reader

(* For every cache all of whose entry blocks that can be read lie in one   *)
(* block file, however the browser changes it during ReadCacheDir: a URL   *)
(* that is reported was cached at some moment since the index was read.    *)
THEOREM CacheReportedWasCached ==
  ASSUME NEW F, OneEntryFile(F)
  PROVE  Spec => []ReportedWasCached
<1>1. Init => ReportInv(F)
  BY TypeInvInit DEF Init, ReportInv, ReachInv, ReportedWasCached
<1>2. ReportInv(F) /\ [Next]_vars => ReportInv(F)'
  BY TypeInvNext, ReachNext DEF ReportInv
<1>3. ReportInv(F) => ReportedWasCached
  BY DEF ReportInv
<1> QED BY <1>1, <1>2, <1>3, PTL DEF Spec

-----------------------------------------------------------------------------
(* A cache nobody changes.                                                 *)

(* The entries that lie before the address to visit: in an earlier bucket, *)
(* or in this one and made earlier.                                        *)
Past(r, b) ==
  \/ Bucket(block, b) < bucket
  \/ Bucket(block, b) = bucket /\ (addr = Null \/ r[b] < r[addr])

(* They have been pushed, once, or there is a reason that was given.       *)
Counted(r) ==
  \A b \in used :
    /\ times[block[b].key] <= IF Past(r, b) /\ block[b].key \in Complete THEN 1 ELSE 0
    /\ Past(r, b) /\ block[b].key \in Complete /\ times[block[b].key] = 0 =>
         malformed \/ FileOf[block[b].data] \in Unreadable

(* What the walk has read is what is on disk.                              *)
Current ==
  /\ table = heads
  /\ \A b \in Blocks : FileOf[b] \in loaded => blockSnap[b] = block[b]
  /\ \A d \in Streams : FileOf[d] \in loaded => streamSnap[d] = stream[d]

QuietInv ==
  /\ at = "index" => still /\ times = [k \in Keys |-> 0] /\ ~malformed
  /\ at \in {"index", "walk", "headers"} => said = {}
  /\ at \in {"walk", "headers"} \/ WalkDone =>
       /\ at = "done" => addr = Null /\ bucket = NBuckets + 1 /\ ("abandoned" \in said <=> malformed)
       /\ still =>
            /\ Current
            /\ addr # Null => addr \in used /\ Bucket(block, addr) = bucket
            /\ \A h \in hits : h.data = h.key
            /\ malformed => \E b \in used : FileOf[b] \in Unreadable
            /\ \A k \in Keys \ Cached : times[k] = 0
            /\ \E r \in [Blocks -> Nat] : Ordered(r) /\ Counted(r)

WalkInv == TypeInv /\ OwnerInv /\ OrderInv /\ QuietInv

(* A turn moves past the entry it was at, and, when it follows the link,   *)
(* past no other.                                                          *)
LEMMA AdvancePasses ==
  ASSUME TypeInv, NEW r \in [Blocks -> Nat], Ordered(r), Current,
         addr \in used, Bucket(block, addr) = bucket, UNCHANGED block,
         NEW n \in {Null, block[addr].next}, Advance(n)
  PROVE  /\ addr' # Null => addr' \in used /\ Bucket(block', addr') = bucket'
         /\ \A b \in used : Past(r, b) \/ b = addr => Past(r, b)'
         /\ n = block[addr].next => \A b \in used : Past(r, b)' => Past(r, b) \/ b = addr
<1> USE NullIsNoSlot
<1>1. /\ used \subseteq Blocks /\ bucket \in Nat /\ bucket <= NBuckets /\ NBuckets \in Nat
      /\ \A b \in used : Bucket(block, b) \in Nat /\ Bucket(block, b) <= NBuckets
                         /\ Bucket(block, b) \in Buckets
  <2>1. \A b \in used : Bucket(block, b) \in Buckets
    BY CacheAssumption DEF TypeInv, StoreInv, Cached, Bucket
  <2> QED
    BY <2>1, OneIsABucket DEF TypeInv, TypeOK, CacheTypeOK, Buckets
<1>2. /\ \A b \in used : /\ r[b] \in Nat
                         /\ block[b].next # Null => /\ block[b].next \in used
                                                   /\ Bucket(block, block[b].next) = Bucket(block, b)
                                                   /\ r[b] < r[block[b].next]
                         /\ heads[Bucket(block, b)] # Null /\ r[heads[Bucket(block, b)]] <= r[b]
      /\ \A b, c \in used : /\ r[b] = r[c] => b = c
                            /\ Bucket(block, b) = Bucket(block, c) /\ r[b] < r[c] =>
                                 block[b].next # Null /\ r[block[b].next] <= r[c]
      /\ \A i \in Buckets : heads[i] # Null => heads[i] \in used /\ Bucket(block, heads[i]) = i
  BY <1>1 DEF Ordered
<1>3. \A b : Past(r, b)' <=> \/ Bucket(block, b) < bucket'
                             \/ Bucket(block, b) = bucket' /\ (addr' = Null \/ r[b] < r[addr'])
  BY DEF Past
<1>4. CASE n # Null
  <2>1. addr' = n /\ bucket' = bucket /\ n = block[addr].next
    BY <1>4 DEF Advance
  <2>2. n \in used /\ Bucket(block, n) = bucket /\ r[addr] < r[n]
    BY <1>2, <1>4, <2>1
  <2>3. addr' # Null => addr' \in used /\ Bucket(block', addr') = bucket'
    BY <2>1, <2>2
  <2>4. ASSUME NEW b \in used
        PROVE  Past(r, b)' <=> Past(r, b) \/ b = addr
    <3>1. CASE Bucket(block, b) = bucket
      <4>1. r[b] < r[n] <=> r[b] < r[addr] \/ b = addr
        BY <1>2, <2>1, <2>2, <3>1
      <4>2. Past(r, b)' <=> r[b] < r[n]
        BY <1>1, <1>3, <1>4, <2>1, <3>1
      <4>3. Past(r, b) <=> r[b] < r[addr]
        BY <1>1, <3>1 DEF Past
      <4> QED
        BY <4>1, <4>2, <4>3
    <3>2. CASE Bucket(block, b) # bucket
      BY <1>3, <2>1, <3>2 DEF Past
    <3> QED
      BY <3>1, <3>2
  <2> QED
    BY <2>3, <2>4
<1>5. CASE n = Null
  <2>1. bucket' = bucket + 1 /\ addr' = IF bucket < NBuckets THEN heads[bucket + 1] ELSE Null
    BY <1>5 DEF Advance, Current
  <2>2. bucket < NBuckets => bucket + 1 \in Buckets
    BY <1>1 DEF Buckets
  <2>3. addr' # Null => addr' \in used /\ Bucket(block', addr') = bucket'
    BY <1>2, <2>1, <2>2
  <2>4. ASSUME NEW b \in used, Bucket(block, b) = bucket'
        PROVE  ~Past(r, b)'
    <3>1. bucket < NBuckets /\ addr' = heads[Bucket(block, b)]
      BY <1>1, <2>1, <2>4
    <3>2. addr' # Null /\ r[addr'] <= r[b] /\ addr' \in used
      BY <1>1, <1>2, <2>3, <3>1
    <3> QED
      BY <1>1, <1>2, <1>3, <2>1, <2>4, <3>2
  <2>5. \A b \in used : Past(r, b)' <=> Bucket(block, b) <= bucket
    BY <1>1, <1>3, <2>1, <2>4
  <2>6. \A b \in used : Past(r, b) \/ b = addr => Bucket(block, b) <= bucket
    BY <1>1 DEF Past
  <2>7. n = block[addr].next =>
          \A b \in used : Bucket(block, b) <= bucket => Past(r, b) \/ b = addr
    BY <1>1, <1>2, <1>5 DEF Past
  <2> QED
    BY <2>3, <2>5, <2>6, <2>7
<1> QED
  BY <1>4, <1>5

LEMMA LoadsCurrent ==
  ASSUME TypeInv, Current, NEW f \in Files, Load(f), UNCHANGED <<table, cacheVars>>
  PROVE  Current' /\ f \in loaded'
BY DEF TypeInv, TypeOK, Current, Load, cacheVars

LEMMA CacheStays ==
  ASSUME TypeInv, OwnerInv, OrderInv, UNCHANGED cacheVars
  PROVE  OwnerInv' /\ OrderInv' /\ Cached' = Cached /\ Complete' = Complete
         /\ \A r : Ordered(r)' <=> Ordered(r)
<1>1. UNCHANGED <<heads, block, stream, used, changes>>
  BY DEF cacheVars
<1>2. OwnerInv'
  BY <1>1 DEF OwnerInv
<1>3. \A r : Ordered(r)' <=> Ordered(r)
  BY <1>1 DEF Ordered
<1>4. OrderInv'
  BY <1>1, <1>3 DEF OrderInv
<1> QED
  BY <1>1, <1>2, <1>3, <1>4 DEF Cached, Complete

(* An entry in use: it is linked, it has a key that no other entry has.    *)
LEMMA InUse ==
  ASSUME WalkInv, NEW a \in used
  PROVE  /\ a \in Blocks /\ block[a].state = "normal" /\ block[a].key \in Keys
         /\ block[a] # ZeroBlock
         /\ \A b \in used : block[b].key = block[a].key => b = a
         /\ block[a].key \in Complete <=> block[a].key \in Http /\ block[a].data # Null
         /\ block[a].data # Null => block[a].data \in Streams /\ stream[block[a].data] = block[a].key
<1>1. a \in Blocks /\ block[a] \in EntryBlock /\ block[a].key \in Keys
  BY DEF WalkInv, TypeInv, StoreInv, CacheTypeOK, Cached
<1>2. \A b \in used : block[b].key = block[a].key => b = a
  BY DEF WalkInv, OwnerInv
<1>3. block[a].key \in Complete <=> block[a].key \in Http /\ block[a].data # Null
  BY <1>2 DEF Complete
<1> QED
  BY <1>1, <1>2, <1>3, NullIsNoSlot DEF WalkInv, OwnerInv, OrderInv, ZeroBlock, EntryBlock

(* A turn of the loop that pushes nothing.                                 *)
LEMMA TurnKeeps ==
  ASSUME WalkInv, at \in {"walk", "headers"}, still, addr # Null,
         Current', UNCHANGED <<cacheVars, table, hits, times>>,
         NEW n \in {Null, block[addr].next}, Advance(n),
         malformed => malformed',
         malformed' => malformed \/ FileOf[addr] \in Unreadable,
         \/ malformed'
         \/ n = block[addr].next /\ (block[addr].key \in Complete =>
                                       FileOf[block[addr].data] \in Unreadable)
  PROVE  /\ addr' # Null => addr' \in used' /\ Bucket(block', addr') = bucket'
         /\ malformed' => \E b \in used' : FileOf[b] \in Unreadable
         /\ \A k \in Keys \ Cached' : times'[k] = 0
         /\ \E r \in [Blocks -> Nat] : Ordered(r)' /\ Counted(r)'
<1>1. PICK r \in [Blocks -> Nat] : Ordered(r) /\ Counted(r)
  BY DEF WalkInv, QuietInv
<1>2. /\ Current /\ addr \in used /\ Bucket(block, addr) = bucket
      /\ malformed => \E b \in used : FileOf[b] \in Unreadable
      /\ \A k \in Keys \ Cached : times[k] = 0
  BY DEF WalkInv, QuietInv
<1>3. UNCHANGED <<block, used>> /\ Cached' = Cached /\ Complete' = Complete /\ Ordered(r)'
  BY <1>1, CacheStays DEF WalkInv, cacheVars
<1>4. /\ addr' # Null => addr' \in used /\ Bucket(block', addr') = bucket'
      /\ \A b \in used : Past(r, b) \/ b = addr => Past(r, b)'
      /\ n = block[addr].next => \A b \in used : Past(r, b)' => Past(r, b) \/ b = addr
  BY <1>1, <1>2, <1>3, AdvancePasses DEF WalkInv
<1>5. ASSUME NEW b \in used
      PROVE  /\ times[block[b].key] <= IF Past(r, b)' /\ block[b].key \in Complete THEN 1 ELSE 0
             /\ Past(r, b)' /\ block[b].key \in Complete /\ times[block[b].key] = 0 =>
                  malformed' \/ FileOf[block[b].data] \in Unreadable
  <2>1. /\ times[block[b].key] <= IF Past(r, b) /\ block[b].key \in Complete THEN 1 ELSE 0
        /\ Past(r, b) /\ block[b].key \in Complete /\ times[block[b].key] = 0 =>
             malformed \/ FileOf[block[b].data] \in Unreadable
    BY <1>1 DEF Counted
  <2>2. times[block[b].key] \in 0 .. 2
    BY InUse DEF WalkInv, TypeInv, TypeOK
  <2>3. times[block[b].key] <= IF Past(r, b)' /\ block[b].key \in Complete THEN 1 ELSE 0
    BY <1>4, <2>1, <2>2
  <2>4. ASSUME Past(r, b)', block[b].key \in Complete, times[block[b].key] = 0, ~malformed'
        PROVE  FileOf[block[b].data] \in Unreadable
    <3>1. Past(r, b) \/ b = addr
      BY <1>4, <2>4
    <3> QED
      BY <2>1, <2>4, <3>1
  <2> QED
    BY <2>3, <2>4
<1>6. Counted(r)'
  BY <1>3, <1>5 DEF Counted
<1> QED
  BY <1>1, <1>2, <1>3, <1>4, <1>6

LEMMA QuietNext ==
  ASSUME WalkInv, TypeInv', [Next]_vars
  PROVE  WalkInv'
<1> USE NullIsNoSlot
<1>1. CASE Browser
  <2>1. OwnerInv' /\ OrderInv'
    BY <1>1, BrowserKeepsStore, BrowserKeepsOrder DEF Browser, WalkInv, TypeInv
  <2>2. still' = (at = "index") /\ UNCHANGED walkVars
    BY <1>1 DEF Browser
  <2>3. QuietInv'
    BY <2>2 DEF WalkInv, QuietInv, WalkDone, walkVars
  <2> QED
    BY <2>1, <2>3 DEF WalkInv
<1>2. ASSUME UNCHANGED cacheVars, QuietInv'
      PROVE  WalkInv'
  BY <1>2, CacheStays DEF WalkInv
<1>3. CASE NoCache
  <2>1. UNCHANGED <<cacheVars, still>> /\ at = "index" /\ (at' = "absent" \/ (at' = "done" /\ said' = {"badIndex"}))
    BY <1>3 DEF NoCache, WalkFrame
  <2>2. QuietInv'
    BY <2>1 DEF QuietInv, WalkDone
  <2> QED
    BY <1>2, <2>1, <2>2
<1>4. CASE ReadIndex
  <2>1. /\ at = "index" /\ at' = "walk" /\ table' = heads /\ addr' = heads[1]
        /\ UNCHANGED <<bucket, loaded, hits, times, malformed, said, cacheVars, still>>
    BY <1>4 DEF ReadIndex, WalkFrame
  <2>2. /\ bucket = 1 /\ loaded = {} /\ hits = {} /\ ~malformed /\ said = {}
        /\ \A k \in Keys : times[k] = 0
    BY <2>1 DEF WalkInv, TypeInv, PlaceInv, QuietInv
  <2>3. UNCHANGED <<heads, block, used>>
    BY <2>1 DEF cacheVars
  <2>4. Current'
    BY <2>1, <2>2, <2>3 DEF Current
  <2>5. PICK r \in [Blocks -> Nat] : Ordered(r)
    BY DEF WalkInv, OrderInv
  <2>6. Ordered(r)'
    BY <2>1, <2>5, CacheStays DEF WalkInv
  <2>7. addr' # Null => addr' \in used' /\ Bucket(block', addr') = bucket'
    BY <2>1, <2>2, <2>3, <2>5, OneIsABucket DEF Ordered
  <2>8. ASSUME NEW b \in used' PROVE ~Past(r, b)' /\ block'[b].key \in Keys
    <3>1. b \in used /\ block[b].key \in Keys /\ Bucket(block, b) \in Buckets
      BY <2>3, <2>8, CacheAssumption DEF WalkInv, TypeInv, StoreInv, Cached, Bucket
    <3>2. Bucket(block, b) = 1 => addr' # Null /\ r[addr'] <= r[b] /\ r[addr'] \in Nat /\ r[b] \in Nat
      <4>1. b \in Blocks /\ heads[Bucket(block, b)] # Null /\ r[heads[Bucket(block, b)]] <= r[b]
        BY <2>5, <3>1 DEF Ordered, WalkInv, TypeInv, StoreInv, CacheTypeOK
      <4>2. heads[Bucket(block, b)] \in Blocks
        BY <3>1, <4>1 DEF WalkInv, TypeInv, StoreInv, CacheTypeOK, Address
      <4> QED
        BY <2>1, <4>1, <4>2
    <3> QED
      BY <2>1, <2>2, <2>3, <3>1, <3>2 DEF Past, Buckets
  <2>9. Counted(r)'
    BY <2>1, <2>2, <2>8 DEF Counted
  <2>10. QuietInv'
    BY <2>1, <2>2, <2>4, <2>6, <2>7, <2>9 DEF QuietInv, WalkDone
  <2> QED
    BY <1>2, <2>1, <2>10
<1>5. ASSUME at = "walk", at' = "walk", addr # Null, UNCHANGED <<cacheVars, still, table, hits, times, said>>,
             still => /\ Current'
                      /\ addr' # Null => addr' \in used' /\ Bucket(block', addr') = bucket'
                      /\ malformed' => \E b \in used' : FileOf[b] \in Unreadable
                      /\ \A k \in Keys \ Cached' : times'[k] = 0
                      /\ \E r \in [Blocks -> Nat] : Ordered(r)' /\ Counted(r)'
      PROVE  WalkInv'
  <2>1. QuietInv'
    BY <1>5 DEF WalkInv, QuietInv, WalkDone
  <2> QED
    BY <1>2, <1>5, <2>1
<1>6. ASSUME at = "walk", addr # Null, still PROVE Current /\ addr \in used /\ FileOf[addr] \in Files
  BY <1>6, AddrHasFile DEF WalkInv, QuietInv
<1>7. CASE VisitMissing
  <2>1. /\ at = "walk" /\ at' = at /\ addr # Null /\ Load(FileOf[addr]) /\ malformed' = TRUE /\ Advance(Null)
        /\ FileOf[addr] \in Unreadable \/ blockSnap'[addr] = ZeroBlock
        /\ UNCHANGED <<cacheVars, still, table, hits, times, said>>
    BY <1>7 DEF VisitMissing, Abandon, WalkFrame
  <2>2. ASSUME still PROVE Current' /\ FileOf[addr] \in Unreadable
    <3>1. Current' /\ FileOf[addr] \in loaded'
      BY <1>6, <2>1, <2>2, LoadsCurrent DEF WalkInv
    <3>2. blockSnap'[addr] = block[addr] /\ block[addr] # ZeroBlock
      BY <1>6, <2>1, <2>2, <3>1, InUse DEF Current, cacheVars
    <3> QED
      BY <2>1, <3>1, <3>2
  <2> QED
    BY <1>5, <2>1, <2>2, TurnKeeps
<1>8. CASE VisitOther
  <2>1. /\ at = "walk" /\ at' = at /\ addr # Null /\ Load(FileOf[addr])
        /\ Unlinked(blockSnap'[addr]) \/ NotHttp(blockSnap'[addr])
        /\ Advance(blockSnap'[addr].next)
        /\ UNCHANGED <<cacheVars, still, table, hits, times, said, malformed>>
    BY <1>8 DEF VisitOther, WalkFrame
  <2>2. ASSUME still PROVE Current' /\ blockSnap'[addr] = block[addr] /\ block[addr].key \notin Complete
    <3>1. Current' /\ FileOf[addr] \in loaded'
      BY <1>6, <2>1, <2>2, LoadsCurrent DEF WalkInv
    <3>2. blockSnap'[addr] = block[addr]
      BY <1>6, <2>1, <2>2, <3>1, InUse DEF Current, cacheVars
    <3> QED
      BY <1>6, <2>1, <2>2, <3>1, <3>2, InUse DEF Unlinked, NotHttp
  <2> QED
    BY <1>5, <2>1, <2>2, TurnKeeps
<1>9. CASE VisitHttp
  <2>1. /\ at = "walk" /\ addr # Null /\ Load(FileOf[addr])
        /\ IF blockSnap'[addr].data = Null THEN Advance(blockSnap'[addr].next) /\ UNCHANGED at
           ELSE at' = "headers" /\ UNCHANGED <<addr, bucket>>
        /\ UNCHANGED <<cacheVars, still, table, hits, times, said, malformed>>
    BY <1>9 DEF VisitHttp, WalkFrame
  <2>2. ASSUME still PROVE Current' /\ blockSnap'[addr] = block[addr]
    <3>1. Current' /\ FileOf[addr] \in loaded'
      BY <1>6, <2>1, <2>2, LoadsCurrent DEF WalkInv
    <3> QED
      BY <1>6, <2>1, <2>2, <3>1, InUse DEF Current, cacheVars
  <2>3. CASE blockSnap'[addr].data = Null
    <3>1. still => block[addr].key \notin Complete
      BY <1>6, <2>1, <2>2, <2>3, InUse
    <3> QED
      BY <1>5, <2>1, <2>2, <2>3, <3>1, TurnKeeps
  <2>4. CASE blockSnap'[addr].data # Null
    <3>1. at' = "headers" /\ UNCHANGED <<addr, bucket>> /\ UNCHANGED <<block, used>>
      BY <2>1, <2>4 DEF cacheVars
    <3>2. \A r : Ordered(r) /\ Counted(r) => Ordered(r)' /\ Counted(r)'
      BY <2>1, <3>1, CacheStays DEF WalkInv, Counted, Past
    <3>3. QuietInv'
      BY <2>1, <2>2, <3>1, <3>2, CacheStays DEF WalkInv, QuietInv, WalkDone
    <3> QED
      BY <1>2, <2>1, <3>3
  <2> QED
    BY <2>3, <2>4
<1>10. CASE PushEntry
  <2> DEFINE e == blockSnap[addr]
             owner == streamSnap'[e.data]
             dropped == FileOf[e.data] \in Unreadable \/ ~Parsed(owner)
  <2>1. /\ at = "headers" /\ at' = "walk" /\ Load(FileOf[e.data]) /\ Advance(e.next)
        /\ UNCHANGED <<cacheVars, still, table, said, malformed>>
        /\ IF dropped THEN UNCHANGED <<hits, times>>
           ELSE /\ hits' = hits \cup {[key |-> e.key, data |-> owner, slot |-> e.data]}
                /\ times' = [times EXCEPT ![e.key] = IF @ < 2 THEN @ + 1 ELSE 2]
    BY <1>10 DEF PushEntry, WalkFrame
  <2>2. /\ addr # Null /\ addr \in Blocks /\ FileOf[addr] \in loaded /\ e.key \in Http
        /\ e.data \in Streams /\ FileOf[e.data] \in Files
    <3>1. addr # Null /\ addr \in Blocks /\ FileOf[addr] \in loaded /\ e.key \in Http /\ e.data # Null
      BY <2>1, AddrHasFile DEF WalkInv, TypeInv, PlaceInv
    <3>2. e \in EntryBlock
      BY <3>1 DEF WalkInv, TypeInv, TypeOK
    <3>3. e.data \in Streams
      BY <3>1, <3>2 DEF EntryBlock
    <3> QED
      BY <3>1, <3>3, CacheAssumption DEF Slots
  <2>3. ASSUME still
        PROVE  /\ Current' /\ e = block[addr] /\ addr \in used /\ owner = e.key /\ e.key \in Complete
               /\ dropped => FileOf[e.data] \in Unreadable
    <3>1. Current /\ addr \in used
      BY <2>1, <2>2, <2>3 DEF WalkInv, QuietInv
    <3>2. e = block[addr]
      BY <2>2, <3>1 DEF Current
    <3>3. Current' /\ FileOf[e.data] \in loaded'
      BY <2>1, <2>2, <3>1, LoadsCurrent DEF WalkInv
    <3>4. owner = stream[e.data] /\ stream[e.data] = e.key
      BY <2>1, <2>2, <3>1, <3>2, <3>3, InUse DEF Current, cacheVars
    <3>5. e.key \in Complete /\ owner # Null
      BY <2>2, <3>1, <3>2, <3>4, InUse
    <3> QED
      BY <3>1, <3>2, <3>3, <3>4, <3>5 DEF Parsed
  <2> HIDE DEF e, owner, dropped
  <2>4. CASE dropped
    <3>1. UNCHANGED <<hits, times>>
      BY <2>1, <2>4
    <3>2. ASSUME still
          PROVE  /\ addr' # Null => addr' \in used' /\ Bucket(block', addr') = bucket'
                 /\ malformed' => \E b \in used' : FileOf[b] \in Unreadable
                 /\ \A k \in Keys \ Cached' : times'[k] = 0
                 /\ \E r \in [Blocks -> Nat] : Ordered(r)' /\ Counted(r)'
      <4>1. /\ Current' /\ UNCHANGED <<cacheVars, table, hits, times>> /\ Advance(block[addr].next)
            /\ malformed' = malformed /\ FileOf[block[addr].data] \in Unreadable
        BY <2>1, <2>3, <2>4, <3>1, <3>2
      <4> QED
        BY <2>1, <2>2, <3>2, <4>1, TurnKeeps
    <3>3. QuietInv'
      BY <2>1, <2>3, <3>1, <3>2 DEF WalkInv, QuietInv, WalkDone
    <3> QED
      BY <1>2, <2>1, <3>3
  <2>5. CASE ~dropped
    <3>1. /\ hits' = hits \cup {[key |-> e.key, data |-> owner, slot |-> e.data]}
          /\ times' = [times EXCEPT ![e.key] = IF @ < 2 THEN @ + 1 ELSE 2]
      BY <2>1, <2>5
    <3>2. ASSUME still
          PROVE  /\ addr' # Null => addr' \in used' /\ Bucket(block', addr') = bucket'
                 /\ \A h \in hits' : h.data = h.key
                 /\ malformed' => \E b \in used' : FileOf[b] \in Unreadable
                 /\ \A k \in Keys \ Cached' : times'[k] = 0
                 /\ \E r \in [Blocks -> Nat] : Ordered(r)' /\ Counted(r)'
      <4>1. PICK r \in [Blocks -> Nat] : Ordered(r) /\ Counted(r)
        BY <2>1, <3>2 DEF WalkInv, QuietInv
      <4>2. /\ Current /\ Bucket(block, addr) = bucket
            /\ \A h \in hits : h.data = h.key
            /\ malformed => \E b \in used : FileOf[b] \in Unreadable
            /\ \A k \in Keys \ Cached : times[k] = 0
        BY <2>1, <2>2, <3>2 DEF WalkInv, QuietInv
      <4>3. UNCHANGED <<block, used>> /\ Cached' = Cached /\ Complete' = Complete /\ Ordered(r)'
        BY <2>1, <4>1, CacheStays DEF WalkInv, cacheVars
      <4>4. e = block[addr] /\ addr \in used /\ owner = e.key /\ e.key \in Complete
        BY <2>3, <3>2
      <4>5. /\ addr' # Null => addr' \in used /\ Bucket(block', addr') = bucket'
            /\ \A b \in used : Past(r, b)' <=> Past(r, b) \/ b = addr
        BY <2>1, <4>1, <4>2, <4>3, <4>4, AdvancePasses DEF WalkInv
      <4>6. ~Past(r, addr)
        <5>1. r[addr] \in Nat /\ bucket \in Nat
          BY <2>2, OneIsABucket DEF WalkInv, TypeInv, TypeOK
        <5> QED
          BY <2>2, <4>2, <5>1 DEF Past
      <4>7. e.key \in Keys /\ times \in [Keys -> 0 .. 2]
        BY <4>4, InUse DEF WalkInv, TypeInv, TypeOK
      <4>8. times[e.key] = 0 /\ times'[e.key] = 1 /\ \A k \in Keys : k # e.key => times'[k] = times[k]
        <5>1. times[e.key] <= 0
          BY <4>1, <4>4, <4>6 DEF Counted
        <5> QED
          BY <3>1, <4>7, <5>1
      <4>9. ASSUME NEW b \in used
            PROVE  /\ times'[block[b].key] <= IF Past(r, b)' /\ block[b].key \in Complete THEN 1 ELSE 0
                   /\ Past(r, b)' /\ block[b].key \in Complete /\ times'[block[b].key] = 0 =>
                        malformed \/ FileOf[block[b].data] \in Unreadable
        <5>1. CASE b = addr
          BY <4>4, <4>5, <4>8, <5>1
        <5>2. CASE b # addr
          <6>1. block[b].key \in Keys /\ block[b].key # e.key
            BY <4>4, <5>2, InUse
          <6>2. times'[block[b].key] = times[block[b].key]
            BY <4>8, <6>1
          <6>3. Past(r, b)' <=> Past(r, b)
            BY <4>5, <5>2
          <6> QED
            BY <4>1, <6>2, <6>3 DEF Counted
        <5> QED
          BY <5>1, <5>2
      <4>10. Counted(r)'
        BY <2>1, <4>3, <4>9 DEF Counted
      <4>11. e.key \in Cached
        BY <4>4 DEF Cached
      <4>12. \A h \in hits' : h.data = h.key
        BY <3>1, <4>2, <4>4
      <4> QED
        BY <2>1, <4>1, <4>2, <4>3, <4>5, <4>8, <4>10, <4>11, <4>12
    <3>3. QuietInv'
      BY <2>1, <2>3, <3>2 DEF WalkInv, QuietInv, WalkDone
    <3> QED
      BY <1>2, <2>1, <3>3
  <2> QED
    BY <2>4, <2>5
<1>11. CASE NextBucket
  <2>1. /\ at = "walk" /\ addr = Null /\ bucket <= NBuckets /\ Advance(Null)
        /\ UNCHANGED <<at, table, loaded, blockSnap, streamSnap, hits, times, malformed, said,
                       cacheVars, still>>
    BY <1>11 DEF NextBucket, WalkFrame
  <2>2. ASSUME still
        PROVE  /\ addr' # Null => addr' \in used' /\ Bucket(block', addr') = bucket'
               /\ \E r \in [Blocks -> Nat] : Ordered(r)' /\ Counted(r)'
    <3>1. PICK r \in [Blocks -> Nat] : Ordered(r) /\ Counted(r)
      BY <2>1, <2>2 DEF WalkInv, QuietInv
    <3>2. table = heads /\ UNCHANGED <<heads, block, used>> /\ Complete' = Complete /\ Ordered(r)'
      BY <2>1, <2>2, <3>1, CacheStays DEF WalkInv, QuietInv, Current, cacheVars
    <3>3. bucket' = bucket + 1 /\ addr' = IF bucket < NBuckets THEN heads[bucket + 1] ELSE Null
      BY <2>1, <3>2 DEF Advance
    <3>4. bucket \in Nat /\ NBuckets \in Nat /\ (bucket < NBuckets => bucket + 1 \in Buckets)
      BY OneIsABucket DEF WalkInv, TypeInv, TypeOK, Buckets
    <3>5. addr' # Null => addr' \in used' /\ Bucket(block', addr') = bucket'
      BY <3>1, <3>2, <3>3, <3>4 DEF Ordered
    <3>6. ASSUME NEW b \in used PROVE Past(r, b)' <=> Past(r, b)
      <4>1. /\ b \in Blocks /\ Bucket(block, b) \in Buckets
            /\ heads[Bucket(block, b)] # Null /\ r[heads[Bucket(block, b)]] <= r[b]
        BY <3>1, CacheAssumption DEF Ordered, WalkInv, TypeInv, StoreInv, CacheTypeOK, Cached, Bucket
      <4>2. heads[Bucket(block, b)] \in Blocks
        BY <4>1 DEF WalkInv, TypeInv, StoreInv, CacheTypeOK, Address
      <4>3. Bucket(block, b) \in Nat /\ Bucket(block, b) <= NBuckets
        BY <3>4, <4>1 DEF Buckets
      <4>4. r[heads[Bucket(block, b)]] \in Nat /\ r[b] \in Nat
        BY <4>1, <4>2
      <4>5. Past(r, b)' <=> \/ Bucket(block, b) < bucket + 1
                            \/ Bucket(block, b) = bucket + 1 /\ (addr' = Null \/ r[b] < r[addr'])
        BY <3>2, <3>3 DEF Past
      <4>6. ~(Bucket(block, b) = bucket + 1 /\ (addr' = Null \/ r[b] < r[addr']))
        BY <3>3, <3>4, <4>1, <4>3, <4>4
      <4>7. Past(r, b) <=> Bucket(block, b) < bucket \/ Bucket(block, b) = bucket
        BY <2>1 DEF Past
      <4> QED
        BY <3>4, <4>3, <4>5, <4>6, <4>7
    <3>7. Counted(r)'
      BY <2>1, <3>1, <3>2, <3>6 DEF Counted
    <3> QED
      BY <3>2, <3>5, <3>7
  <2>3. Current => Current'
    BY <2>1 DEF Current, cacheVars
  <2>4. Cached' = Cached /\ used' = used
    BY <2>1, CacheStays DEF WalkInv, cacheVars
  <2>5. QuietInv'
    BY <2>1, <2>2, <2>3, <2>4 DEF WalkInv, QuietInv, WalkDone
  <2> QED
    BY <1>2, <2>1, <2>5
<1>12. CASE ReportWalk
  <2>1. /\ at = "walk" /\ at' = "done" /\ addr = Null /\ bucket = NBuckets + 1
        /\ said' = said \cup (IF hits # {} \/ skipped \/ malformed THEN {"parsed"} ELSE {})
                        \cup (IF malformed THEN {"abandoned"} ELSE {})
        /\ UNCHANGED <<table, bucket, addr, loaded, blockSnap, streamSnap, hits, times, malformed,
                       cacheVars, still>>
    BY <1>12 DEF ReportWalk, WalkFrame
  <2>2. said = {}
    BY <2>1 DEF WalkInv, QuietInv
  <2>3. "badIndex" \notin said' /\ ("abandoned" \in said' <=> malformed)
    BY <2>1, <2>2
  <2>4. \A r : Ordered(r) /\ Counted(r) => Ordered(r)' /\ Counted(r)'
    BY <2>1, CacheStays DEF WalkInv, Counted, Past, cacheVars
  <2>5. Current => Current'
    BY <2>1 DEF Current, cacheVars
  <2>6. Cached' = Cached /\ used' = used
    BY <2>1, CacheStays DEF WalkInv, cacheVars
  <2>7. QuietInv'
    BY <2>1, <2>3, <2>4, <2>5, <2>6 DEF WalkInv, QuietInv, WalkDone
  <2> QED
    BY <1>2, <2>1, <2>7
<1>13. CASE UNCHANGED vars
  <2>1. UNCHANGED cacheVars /\ UNCHANGED walkVars /\ still' = still
    BY <1>13 DEF vars
  <2>2. \A r : Ordered(r) /\ Counted(r) => Ordered(r)' /\ Counted(r)'
    BY <2>1, CacheStays DEF WalkInv, Counted, Past, walkVars, cacheVars
  <2>3. Current => Current'
    BY <2>1 DEF Current, walkVars, cacheVars
  <2>4. Cached' = Cached /\ used' = used /\ block' = block
    BY <2>1, CacheStays DEF WalkInv, cacheVars
  <2>5. QuietInv'
    BY <2>1, <2>2, <2>3, <2>4 DEF WalkInv, QuietInv, WalkDone, walkVars
  <2> QED
    BY <1>2, <2>1, <2>5
<1> QED
  BY <1>1, <1>3, <1>4, <1>7, <1>8, <1>9, <1>10, <1>11, <1>12, <1>13 DEF Next, Reader

(* ReadCacheDir on a cache that nobody has changed since the index was     *)
(* read, with any number of buckets, entries and data files, of which any  *)
(* may be unreadable.                                                      *)
THEOREM QuietWalksAreExact == Spec => []QuietWalkIsExact
<1>1. Init => WalkInv
  <2> SUFFICES ASSUME Init PROVE WalkInv
    OBVIOUS
  <2>1. TypeInv /\ OwnerInv /\ OrderInv
    BY TypeInvInit, StoreInit, OrderInit DEF Init
  <2> QED
    BY <2>1 DEF Init, WalkInv, QuietInv, WalkDone
<1>2. WalkInv /\ [Next]_vars => WalkInv'
  BY TypeInvNext, QuietNext DEF WalkInv
<1>3. WalkInv => QuietWalkIsExact
  <2> SUFFICES ASSUME WalkInv, WalkDone, still
               PROVE  /\ \A k \in Keys : times[k] <= IF k \in Complete THEN 1 ELSE 0
                      /\ \A h \in hits : h.data = h.key
                      /\ \A b \in used : block[b].key \in Complete /\ times[block[b].key] = 0 =>
                           "abandoned" \in said \/ FileOf[block[b].data] \in Unreadable
                      /\ "abandoned" \in said => \E b \in used : FileOf[b] \in Unreadable
    BY DEF QuietWalkIsExact
  <2>1. /\ addr = Null /\ bucket = NBuckets + 1 /\ ("abandoned" \in said <=> malformed)
        /\ \A h \in hits : h.data = h.key
        /\ malformed => \E b \in used : FileOf[b] \in Unreadable
        /\ \A k \in Keys \ Cached : times[k] = 0
    BY DEF WalkInv, QuietInv, WalkDone
  <2>2. PICK r \in [Blocks -> Nat] : Ordered(r) /\ Counted(r)
    BY DEF WalkInv, QuietInv, WalkDone
  <2>3. \A b \in used : Past(r, b) /\ block[b].key \in Keys
    <3>1. \A b \in used : Bucket(block, b) \in Buckets /\ block[b].key \in Keys
      BY CacheAssumption DEF WalkInv, TypeInv, StoreInv, Cached, Bucket
    <3> QED
      BY <2>1, <3>1, OneIsABucket DEF Past, Buckets
  <2>4. ASSUME NEW k \in Keys PROVE times[k] <= IF k \in Complete THEN 1 ELSE 0
    <3>1. CASE k \in Cached
      <4>1. PICK b \in used : block[b].key = k
        BY <3>1 DEF Cached
      <4> QED
        BY <2>2, <2>3, <4>1 DEF Counted
    <3>2. CASE k \notin Cached
      BY <2>1, <3>2
    <3> QED
      BY <3>1, <3>2
  <2> QED
    BY <2>1, <2>2, <2>3, <2>4 DEF Counted
<1> QED
  BY <1>1, <1>2, <1>3, PTL DEF Spec
=============================================================================
