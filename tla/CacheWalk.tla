------------------------------ MODULE CacheWalk ------------------------------
(***************************************************************************)
(* ReadCacheDir (readers_cache.cpp): the walk over the hash buckets of the *)
(* blockfile cache.  The index is read first; every data file is read as a *)
(* whole when the walk first needs it and never again, so the files of one *)
(* walk are snapshots of different moments of a cache that the browser may *)
(* be changing.                                                            *)
(***************************************************************************)
EXTENDS CacheStore

CONSTANTS
  Http,        \* the keys whose URL is http:// or https://
  Unreadable   \* the data files that cannot be loaded or have a bad magic

ASSUME WalkAssumption == Http \subseteq Keys /\ Unreadable \subseteq Files

VARIABLES
  at,          \* "index", "walk", "headers", "done"; "absent" without cache
  table,       \* the index as it was read
  bucket,      \* the bucket being walked
  addr,        \* the block to visit next
  loaded,      \* the data files read so far
  blockSnap,   \* their entry blocks
  streamSnap,  \* their streams
  hits,        \* the entries pushed: key, whose headers it got, from where
  times,       \* how often a key was pushed, up to twice
  skipped,     \* a non-HTTP entry was counted
  malformed,   \* a bucket was abandoned
  said,        \* the diagnostics
  seen,        \* history: the keys cached at some moment of the walk
  still        \* history: the browser did nothing since the index was read

walkVars == <<at, table, bucket, addr, loaded, blockSnap, streamSnap, hits,
              times, skipped, malformed, said>>
vars == <<cacheVars, walkVars, seen, still>>

Owner == Keys \cup {Null}

TypeOK ==
  /\ CacheTypeOK
  /\ at \in {"index", "walk", "headers", "done", "absent"}
  /\ table \in [Buckets -> Address]
  /\ bucket \in 1 .. NBuckets + 1
  /\ addr \in Address
  /\ loaded \subseteq Files
  /\ blockSnap \in [Blocks -> EntryBlock]
  /\ streamSnap \in [Streams -> Owner]
  /\ hits \subseteq [key: Http, data: Keys, slot: Streams]
  /\ times \in [Keys -> 0 .. 2]
  /\ skipped \in BOOLEAN
  /\ malformed \in BOOLEAN
  /\ said \subseteq {"badIndex", "parsed", "abandoned"}
  /\ seen \subseteq Keys
  /\ still \in BOOLEAN

Init ==
  /\ CacheInit
  /\ at = "index"
  /\ table = [i \in Buckets |-> Null]
  /\ bucket = 1
  /\ addr = Null
  /\ loaded = {}
  /\ blockSnap = [b \in Blocks |-> ZeroBlock]
  /\ streamSnap = [d \in Streams |-> Null]
  /\ hits = {}
  /\ times = [k \in Keys |-> 0]
  /\ skipped = FALSE
  /\ malformed = FALSE
  /\ said = {}
  /\ seen = {}
  /\ still = TRUE

-----------------------------------------------------------------------------
(* The browser at work.                                                    *)
Browser ==
  /\ BrowserStep
  /\ seen' = IF at = "index" THEN {} ELSE seen \cup Cached'
  /\ still' = (at = "index")
  /\ UNCHANGED walkVars

-----------------------------------------------------------------------------
(* The reader.                                                             *)

WalkFrame == UNCHANGED <<cacheVars, still>>

(* No cache directory; or an index that is missing, of another magic or    *)
(* truncated.                                                              *)
NoCache ==
  /\ at = "index"
  /\ \/ at' = "absent" /\ UNCHANGED said
     \/ at' = "done" /\ said' = {"badIndex"}
  /\ UNCHANGED <<table, bucket, addr, loaded, blockSnap, streamSnap, hits,
                 times, skipped, malformed, seen>>
  /\ WalkFrame

(* Mutation of ReadIndex: the data files are read before the index.        *)
ReadIndexLast ==
  /\ at = "index"
  /\ IF loaded = {}
     THEN /\ loaded' = Files
          /\ blockSnap' = block
          /\ streamSnap' = stream
          /\ UNCHANGED <<at, table, addr, seen>>
     ELSE /\ at' = "walk"
          /\ table' = heads
          /\ addr' = heads[1]
          /\ seen' = Cached
          /\ UNCHANGED <<loaded, blockSnap, streamSnap>>
  /\ UNCHANGED <<bucket, hits, times, skipped, malformed, said>>
  /\ WalkFrame

ReadIndex ==
  /\ at = "index"
  /\ at' = "walk"
  /\ table' = heads
  /\ addr' = heads[1]
  /\ seen' = Cached
  /\ UNCHANGED <<bucket, loaded, blockSnap, streamSnap, hits, times, skipped,
                 malformed, said>>
  /\ WalkFrame

(* The next address in this chain; at its end, the head of the next one.   *)
Advance(next) ==
  IF next # Null THEN addr' = next /\ UNCHANGED bucket
  ELSE /\ bucket' = bucket + 1
       /\ addr' = IF bucket < NBuckets THEN table[bucket + 1] ELSE Null

(* Mutation of Abandon: an abandoned bucket is not counted.                *)
AbandonSilently == UNCHANGED malformed /\ Advance(Null)

Abandon == malformed' = TRUE /\ Advance(Null)

(* Mutation of Load: a file is read again whenever it is needed.           *)
LoadAgain(f) ==
  /\ loaded' = loaded \cup {f}
  /\ blockSnap' = [b \in Blocks |->
                     IF FileOf[b] = f THEN block[b] ELSE blockSnap[b]]
  /\ streamSnap' = [d \in Streams |->
                      IF FileOf[d] = f THEN stream[d] ELSE streamSnap[d]]

(* getBlockFile: a block file is read when it is first asked for.          *)
(* readStream reads an external file each time.                            *)
Load(f) ==
  IF f \in loaded \ External THEN UNCHANGED <<loaded, blockSnap, streamSnap>>
  ELSE /\ loaded' = loaded \cup {f}
       /\ blockSnap' = [b \in Blocks |->
                          IF FileOf[b] = f THEN block[b] ELSE blockSnap[b]]
       /\ streamSnap' = [d \in Streams |->
                           IF FileOf[d] = f THEN stream[d] ELSE streamSnap[d]]

Unlinked(e) == e.state # "normal"
NotHttp(e) == e.state = "normal" /\ e.key \notin Http
HttpEntry(e) == e.state = "normal" /\ e.key \in Http

(* Mutation of Parsed: what the stream holds is not looked at.             *)
ParsedAlways(owner) == TRUE

(* ParseStream0: a slot that no entry's data was ever written to holds no  *)
(* headers.                                                                *)
Parsed(owner) == owner # Null

(* One turn of the while loop: the block is not to be had, ...             *)
VisitMissing ==
  /\ at = "walk" /\ addr # Null
  /\ Load(FileOf[addr])
  /\ FileOf[addr] \in Unreadable \/ blockSnap'[addr] = ZeroBlock
  /\ Abandon
  /\ UNCHANGED <<at, table, hits, times, skipped, said, seen>>
  /\ WalkFrame

(* Mutation of VisitOther: the turn ends without going on.                 *)
VisitOtherStays ==
  /\ at = "walk" /\ addr # Null
  /\ Load(FileOf[addr])
  /\ FileOf[addr] \notin Unreadable
  /\ Unlinked(blockSnap'[addr]) \/ NotHttp(blockSnap'[addr])
  /\ UNCHANGED <<bucket, addr, at, table, hits, times, skipped, malformed, said,
                 seen>>
  /\ WalkFrame

(* ... or holds an entry that is doomed or not HTTP, ...                   *)
VisitOther ==
  /\ at = "walk" /\ addr # Null
  /\ Load(FileOf[addr])
  /\ FileOf[addr] \notin Unreadable
  /\ LET e == blockSnap'[addr]
     IN  /\ Unlinked(e) \/ NotHttp(e)
         /\ skipped' = (skipped \/ ~Unlinked(e))
         /\ Advance(e.next)
  /\ UNCHANGED <<at, table, hits, times, malformed, said, seen>>
  /\ WalkFrame

(* ... or an HTTP entry.                                                   *)
VisitHttp ==
  /\ at = "walk" /\ addr # Null
  /\ Load(FileOf[addr])
  /\ FileOf[addr] \notin Unreadable
  /\ LET e == blockSnap'[addr]
     IN  /\ HttpEntry(e)
         /\ IF e.data = Null THEN Advance(e.next) /\ UNCHANGED at
            ELSE at' = "headers" /\ UNCHANGED <<addr, bucket>>
  /\ UNCHANGED <<table, hits, times, skipped, malformed, said, seen>>
  /\ WalkFrame

(* readStream and ParseStream0: the headers come from another slot than    *)
(* the entry, perhaps of a file read at another moment.  An entry whose    *)
(* stream cannot be read, or holds no headers, is dropped and counted      *)
(* nowhere.  Headers and body are one slot here, and the copy of a small   *)
(* text body that the capture keeps is left out.                           *)
PushEntry ==
  /\ at = "headers"
  /\ LET e == blockSnap[addr]
         f == FileOf[e.data]
         owner == streamSnap'[e.data]
         h == [key |-> e.key, data |-> owner, slot |-> e.data]
     IN  /\ Load(f)
         /\ IF f \in Unreadable \/ ~Parsed(owner) THEN UNCHANGED <<hits, times>>
            ELSE /\ hits' = hits \cup {h}
                 /\ times' = [times EXCEPT ![e.key] = IF @ < 2 THEN @ + 1 ELSE 2]
         /\ Advance(e.next)
  /\ at' = "walk"
  /\ UNCHANGED <<table, skipped, malformed, said, seen>>
  /\ WalkFrame

(* An empty bucket.                                                        *)
NextBucket ==
  /\ at = "walk" /\ addr = Null
  /\ bucket <= NBuckets
  /\ Advance(Null)
  /\ UNCHANGED <<at, table, loaded, blockSnap, streamSnap, hits, times, skipped,
                 malformed, said, seen>>
  /\ WalkFrame

(* The table is done: the counts are reported.                             *)
ReportWalk ==
  /\ at = "walk"
  /\ addr = Null
  /\ bucket = NBuckets + 1
  /\ at' = "done"
  /\ said' = said
       \cup (IF hits # {} \/ skipped \/ malformed THEN {"parsed"} ELSE {})
       \cup (IF malformed THEN {"abandoned"} ELSE {})
  /\ UNCHANGED <<table, bucket, addr, loaded, blockSnap, streamSnap, hits, times,
                 skipped, malformed, seen>>
  /\ WalkFrame

Reader ==
  \/ NoCache \/ ReadIndex
  \/ VisitMissing \/ VisitOther \/ VisitHttp \/ PushEntry
  \/ NextBucket \/ ReportWalk

Next == Reader \/ Browser

(* ReadCacheDir runs in one thread and waits for nobody.                   *)
Spec == Init /\ [][Next]_vars /\ WF_vars(Reader)

-----------------------------------------------------------------------------
(* The properties.                                                         *)

(* What an index and files that agree would give: the HTTP entries that    *)
(* have their headers.                                                     *)
Complete == {k \in Http : \E b \in used : block[b].key = k /\ block[b].data # Null}

WalkDone == at = "done" /\ "badIndex" \notin said

(* ReadCacheDir on a cache nobody changes: every HTTP entry is pushed      *)
(* once, with its own headers, and nothing else is.  An entry is only      *)
(* missing if the file with its headers cannot be loaded, which nothing    *)
(* tells, or a block before it or its own cannot: then a bucket is said to *)
(* be abandoned.                                                           *)
QuietWalkIsExact ==
  WalkDone /\ still =>
    /\ \A k \in Keys : times[k] <= IF k \in Complete THEN 1 ELSE 0
    /\ \A h \in hits : h.data = h.key
    /\ \A b \in used : block[b].key \in Complete /\ times[block[b].key] = 0 =>
         "abandoned" \in said \/ FileOf[block[b].data] \in Unreadable
    /\ "abandoned" \in said => \E b \in used : FileOf[b] \in Unreadable

(* The browser may change the cache during ReadCacheDir: every URL that is *)
(* reported was cached at some moment between the reading of the index and *)
(* the end.  Stale links and freed blocks never bring back an entry that   *)
(* was deleted before.                                                     *)
ReportedWasCached == \A h \in hits : h.key \in seen

(* The while loop of ReadCacheDir follows links as long as there are any:  *)
(* the walk ends all the same.                                             *)
WalkEnds == <>(at \in {"done", "absent"})
=============================================================================
