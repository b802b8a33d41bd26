-------------------------- MODULE CacheSearchProofs --------------------------
(***************************************************************************)
(* Proofs about CacheSearch for every instance: the types, that the        *)
(* counters add up whatever the browser does, and what the hits are, of a  *)
(* search without a needle always, of one with a needle when nobody has    *)
(* written to the cache since the capture.                                 *)
(*                                                                         *)
(* The argument.  The entries of a capture have a key each, since those of *)
(* the cache have (OwnerInv of CacheStoreProofs), so that a set of hits    *)
(* counts the entries.  Of the entries the search has come to, the         *)
(* counters are the sizes of the parts of the cascade (CountInv); and as   *)
(* long as the cache is quiet, what is read of a stream is the data of its *)
(* entry (QuietInv).                                                       *)
(***************************************************************************)
EXTENDS CacheSearch, CacheStoreProofs

Counters == {"preFiltered", "bodiesRead", "needleMiss"}

Types ==
  /\ at \in {"capture", "search", "done"}
  /\ filter \in CacheFilter
  /\ entries \subseteq Entry
  /\ todo \subseteq entries
  /\ loaded \subseteq Files
  /\ copy \in [Streams -> Owner]
  /\ hits \subseteq [key: Http, body: Owner]
  /\ counts \in [Counters -> Nat]
  /\ quiet \in BOOLEAN

(* Finitely many entries, with a key each.                                 *)
EntriesInv ==
  /\ IsFiniteSet(entries)
  /\ \A d, e \in entries : d.key = e.key => d = e

(* What the search has come to, and what the filters made of it.           *)
Behind == entries \ todo
Rejected == {e \in Behind : PreFiltered(e.key)}
Passed == {e \in Behind : ~PreFiltered(e.key)}
Hit(e) == [key |-> e.key, body |-> e.key]

CountInv ==
  /\ at = "capture" => entries = {} /\ hits = {} /\ loaded = {} /\ counts = [c \in Counters |-> 0]
  /\ at # "search" => todo = {}
  /\ IsFiniteSet(hits)
  /\ counts["preFiltered"] = Cardinality(Rejected)
  /\ Cardinality(hits) + counts["needleMiss"] <= Cardinality(Passed)
  /\ counts["bodiesRead"] <= Cardinality(Passed)
  /\ filter.needle => Cardinality(hits) + counts["needleMiss"] <= counts["bodiesRead"]
  /\ ~filter.needle => /\ loaded = {} /\ counts["needleMiss"] = 0
                       /\ hits = {Hit(e) : e \in Passed}
                       /\ Cardinality(hits) = Cardinality(Passed)

(* Those of which the property says what becomes of them: behind, with the *)
(* needle and without.                                                     *)
Sure == {e \in Searchable : Settled(e.key)}
Holding == {e \in Sure \cap Behind : Matches(e.key)}
Missing == {e \in Sure \cap Behind : ~Matches(e.key)}

QuietInv ==
  at # "capture" /\ quiet /\ filter.needle =>
    /\ \A e \in entries : stream[e.slot] = e.key
    /\ \A d \in Streams : FileOf[d] \in loaded => copy[d] = stream[d]
    /\ hits = {Hit(e) : e \in Holding}
    /\ Cardinality(hits) = Cardinality(Holding)
    /\ counts["needleMiss"] = Cardinality(Missing)

SearchInv == StoreInv /\ OwnerInv /\ Types /\ EntriesInv /\ CountInv /\ QuietInv

-----------------------------------------------------------------------------
LEMMA SearchInit == Init => SearchInv
<1> SUFFICES ASSUME Init PROVE SearchInv
  OBVIOUS
<1>1. StoreInv /\ OwnerInv
  BY StoreInit DEF Init
<1>2. IsFiniteSet({}) /\ Cardinality({}) = 0
  BY FS_EmptySet
<1>3. Types
  <2>1. filter \in CacheFilter
    BY DEF Init, CacheFilter
  <2>2. counts \in [Counters -> Nat] /\ copy \in [Streams -> Owner]
    BY DEF Init, Counters, Owner
  <2> QED
    BY <2>1, <2>2 DEF Init, Types
<1>4. EntriesInv
  BY <1>2 DEF Init, EntriesInv
<1>5. Rejected = {} /\ Passed = {}
  BY DEF Init, Rejected, Passed, Behind
<1>6. CountInv
  <2>1. \A c \in Counters : counts[c] = 0
    BY DEF Init, Counters
  <2>2. /\ counts["preFiltered"] = 0 /\ counts["bodiesRead"] = 0 /\ counts["needleMiss"] = 0
        /\ counts = [c \in Counters |-> 0]
    BY <2>1 DEF Init, Counters
  <2>3. hits = {} /\ {Hit(e) : e \in Passed} = {} /\ filter.needle = FALSE
    BY <1>5 DEF Init
  <2> QED
    BY <1>2, <1>5, <2>2, <2>3 DEF Init, CountInv
<1>7. QuietInv
  BY DEF Init, QuietInv
<1> QED
  BY <1>1, <1>3, <1>4, <1>6, <1>7 DEF SearchInv

-----------------------------------------------------------------------------
(* The capture.                                                            *)
LEMMA CaptureStep ==
  ASSUME SearchInv, Capture
  PROVE  SearchInv'
<1> USE NullIsNoSlot
<1> DEFINE us == {u \in used : block[u].key \in Http /\ block[u].data # Null}
           entry(b) == [key |-> block[b].key, slot |-> block[b].data]
<1>1. /\ at = "capture" /\ at' = "search" /\ filter' \in Filters
      /\ entries' = {entry(b) : b \in us} /\ todo' = entries'
      /\ UNCHANGED <<cacheVars, loaded, copy, hits, counts, quiet>>
  BY DEF Capture
<1>2. StoreInv' /\ OwnerInv'
  BY <1>1 DEF SearchInv, StoreInv, OwnerInv, CacheTypeOK, ChainInv, HeadInv, Cached, cacheVars
<1>3. used \subseteq Blocks /\ block \in [Blocks -> EntryBlock]
  BY DEF SearchInv, StoreInv, CacheTypeOK
<1>4. \A b \in us : /\ b \in used /\ block[b].key \in Http /\ block[b].data \in Streams
                    /\ stream[block[b].data] = block[b].key
  BY <1>3 DEF SearchInv, OwnerInv, EntryBlock
<1>5. entries' \subseteq Entry
  BY <1>1, <1>4 DEF Entry
<1>6. Types'
  BY <1>1, <1>5, SearchAssumption DEF SearchInv, Types
<1>7. \A d, e \in entries' : d.key = e.key => d = e
  <2> SUFFICES ASSUME NEW d \in entries', NEW e \in entries', d.key = e.key
               PROVE  d = e
    OBVIOUS
  <2>1. PICK u \in us, v \in us : d = entry(u) /\ e = entry(v)
    BY <1>1
  <2>2. u = v
    BY <1>4, <2>1 DEF SearchInv, OwnerInv
  <2> QED
    BY <2>1, <2>2
<1>8. IsFiniteSet(entries')
  <2>1. IsFiniteSet(us)
    BY FS_Subset DEF SearchInv, OwnerInv
  <2> DEFINE f == [b \in us |-> entry(b)]
  <2>2. f \in Surjection(us, entries')
    BY <1>1 DEF Surjection
  <2> HIDE DEF us, f
  <2> QED
    BY <2>1, <2>2, FS_Surjection
<1>9. /\ hits = {} /\ loaded = {} /\ counts = [c \in Counters |-> 0]
  BY <1>1 DEF SearchInv, CountInv
<1>10. Behind' = {} /\ Rejected' = {} /\ Passed' = {} /\ Holding' = {} /\ Missing' = {}
  BY <1>1 DEF Behind, Rejected, Passed, Holding, Missing
<1>11. /\ counts'["preFiltered"] = 0 /\ counts'["bodiesRead"] = 0 /\ counts'["needleMiss"] = 0
       /\ hits' = {} /\ loaded' = {}
  BY <1>1, <1>9 DEF Counters
<1>12. IsFiniteSet({}) /\ Cardinality({}) = 0
  BY FS_EmptySet
<1>13. CountInv'
  <2>1. {Hit(e) : e \in Passed}' = {}
    BY <1>10
  <2> QED
    BY <1>1, <1>10, <1>11, <1>12, <2>1 DEF CountInv
<1>14. QuietInv'
  <2>1. {Hit(e) : e \in Holding}' = {}
    BY <1>10
  <2>2. \A e \in entries' : stream'[e.slot] = e.key
    BY <1>1, <1>4 DEF cacheVars
  <2> QED
    BY <1>10, <1>11, <1>12, <2>1, <2>2 DEF QuietInv
<1> QED
  BY <1>2, <1>6, <1>7, <1>8, <1>13, <1>14 DEF SearchInv, EntriesInv

-----------------------------------------------------------------------------
(* What a turn has in common: the entry is behind now, in its part.        *)
LEMMA TurnsAt ==
  ASSUME SearchInv, NEW e \in todo, Take(e), RestUnchanged
  PROVE  /\ e \in entries /\ e \in Entry /\ todo' \subseteq entries' /\ at = "search"
         /\ Behind' = Behind \cup {e} /\ e \notin Behind
         /\ \A k : PreFiltered(k)' <=> PreFiltered(k)
         /\ Rejected' = IF PreFiltered(e.key) THEN Rejected \cup {e} ELSE Rejected
         /\ Passed' = IF PreFiltered(e.key) THEN Passed ELSE Passed \cup {e}
         /\ e \notin Rejected /\ e \notin Passed
         /\ IsFiniteSet(Rejected) /\ IsFiniteSet(Passed)
         /\ Sure' = Sure /\ \A k : Matches(k)' <=> Matches(k)
<1>1. e \in entries /\ e \in Entry /\ todo' = todo \ {e} /\ todo \subseteq entries
      /\ entries' = entries /\ filter' = filter /\ at = "search"
  BY DEF SearchInv, Types, Take, RestUnchanged
<1>2. Behind' = Behind \cup {e} /\ e \notin Behind
  BY <1>1 DEF Behind
<1>3. \A k : PreFiltered(k)' <=> PreFiltered(k)
  BY <1>1 DEF PreFiltered, HeaderPasses
<1>4. Rejected' = IF PreFiltered(e.key) THEN Rejected \cup {e} ELSE Rejected
  BY <1>2, <1>3 DEF Rejected
<1>5. Passed' = IF PreFiltered(e.key) THEN Passed ELSE Passed \cup {e}
  BY <1>2, <1>3 DEF Passed
<1>6. IsFiniteSet(Rejected) /\ IsFiniteSet(Passed)
  <2>1. Rejected \in SUBSET entries /\ Passed \in SUBSET entries /\ IsFiniteSet(entries)
    BY DEF Rejected, Passed, Behind, SearchInv, EntriesInv
  <2> QED
    BY <2>1, FS_Subset
<1>7. e \notin Rejected /\ e \notin Passed
  BY <1>2 DEF Rejected, Passed
<1>8. Sure' = Sure /\ \A k : Matches(k)' <=> Matches(k)
  BY <1>1 DEF Sure, Searchable, Settled, EmptyHeader, NoRoom, Wants, Matches
<1> QED
  BY <1>1, <1>2, <1>3, <1>4, <1>5, <1>6, <1>7, <1>8

LEMMA StoreStays ==
  ASSUME StoreInv, OwnerInv, UNCHANGED cacheVars
  PROVE  StoreInv' /\ OwnerInv'
BY DEF StoreInv, OwnerInv, CacheTypeOK, ChainInv, HeadInv, Cached, cacheVars

(* The filters of the code and those of profile.h, where they agree.       *)
LEMMA Asked ==
  ASSUME SearchInv, NEW e \in entries
  PROVE  Wants(e.key) /\ ~EmptyHeader(e.key) <=> ~PreFiltered(e.key)
<1>1. e.key \in Keys /\ HeaderOf[e.key] \in {"absent", "empty", "match", "other"}
  BY SearchAssumption DEF SearchInv, Types, Entry
<1>2. filter.header \in {"none", "present", "value"}
  BY DEF SearchInv, Types, CacheFilter
<1> QED
  BY <1>1, <1>2 DEF Wants, EmptyHeader, PreFiltered, HeaderPasses

(* The text of k comes out of k's own body.                                *)
Decodes(k) ==
  \/ Encoding[k] = "identity"
  \/ Encoding[k] = "gzip" /\ k \notin Damaged
  \/ Encoding[k] = "br" /\ k \notin Damaged /\ ~NoRoom(k)

(* The searchable entries that hold the needle, and those that miss it.    *)
LEMMA TurnsSearchable ==
  ASSUME SearchInv, NEW e \in todo, Take(e), RestUnchanged
  PROVE  /\ e \in Sure <=> /\ ~PreFiltered(e.key) /\ e.key \notin Bodiless
                           /\ FileOf[e.slot] \notin Unreadable /\ Decodes(e.key)
         /\ Holding' = IF e \in Sure /\ Matches(e.key) THEN Holding \cup {e} ELSE Holding
         /\ Missing' = IF e \in Sure /\ ~Matches(e.key) THEN Missing \cup {e} ELSE Missing
         /\ e \notin Holding /\ e \notin Missing
         /\ IsFiniteSet(Holding) /\ IsFiniteSet(Missing)
<1>1. /\ e \in entries /\ Behind' = Behind \cup {e} /\ e \notin Behind /\ Sure' = Sure
      /\ \A k : Matches(k)' <=> Matches(k)
  BY TurnsAt
<1>2. e \in Sure <=> /\ ~PreFiltered(e.key) /\ e.key \notin Bodiless
                    /\ FileOf[e.slot] \notin Unreadable /\ Decodes(e.key)
  BY <1>1, Asked DEF Sure, Searchable, Settled, Decodes
<1>3. Sure' \cap Behind' = IF e \in Sure THEN (Sure \cap Behind) \cup {e}
                          ELSE Sure \cap Behind
  BY <1>1
<1>4. Holding' = IF e \in Sure /\ Matches(e.key) THEN Holding \cup {e} ELSE Holding
  BY <1>1, <1>3 DEF Holding
<1>5. Missing' = IF e \in Sure /\ ~Matches(e.key) THEN Missing \cup {e} ELSE Missing
  BY <1>1, <1>3 DEF Missing
<1>6. IsFiniteSet(Holding) /\ IsFiniteSet(Missing)
  <2>1. Holding \in SUBSET entries /\ Missing \in SUBSET entries /\ IsFiniteSet(entries)
    BY DEF Holding, Missing, Behind, SearchInv, EntriesInv
  <2> QED
    BY <2>1, FS_Subset
<1>7. e \notin Holding /\ e \notin Missing
  BY <1>1 DEF Holding, Missing
<1> QED
  BY <1>2, <1>4, <1>5, <1>6, <1>7

(* A hit is new, and there are as many as there are entries.               *)
LEMMA NewHit ==
  ASSUME EntriesInv, NEW S, S \subseteq entries, NEW e \in entries, e \notin S, IsFiniteSet(S),
         NEW hs, IsFiniteSet(hs), hs = {Hit(d) : d \in S}, Cardinality(hs) = Cardinality(S)
  PROVE  /\ IsFiniteSet(hs \cup {Hit(e)})
         /\ hs \cup {Hit(e)} = {Hit(d) : d \in S \cup {e}}
         /\ Cardinality(hs \cup {Hit(e)}) = Cardinality(S \cup {e})
<1>1. Hit(e) \notin hs
  <2> SUFFICES ASSUME NEW d \in S, Hit(d) = Hit(e) PROVE FALSE
    OBVIOUS
  <2>1. d.key = e.key
    BY DEF Hit
  <2> QED
    BY <2>1 DEF EntriesInv
<1>2. hs \cup {Hit(e)} = {Hit(d) : d \in S \cup {e}}
  OBVIOUS
<1>3. Cardinality(hs \cup {Hit(e)}) = Cardinality(hs) + 1 /\ IsFiniteSet(hs \cup {Hit(e)})
  BY <1>1, FS_AddElement
<1>4. Cardinality(S \cup {e}) = Cardinality(S) + 1
  BY FS_AddElement
<1> QED
  BY <1>2, <1>3, <1>4

(* getBF, LoadFile: what is loaded is what is on disk at that moment.      *)
LEMMA Loads ==
  ASSUME SearchInv, NEW e \in Entry, LoadBodies(FileOf[e.slot])
  PROVE  /\ loaded' \subseteq Files /\ copy' \in [Streams -> Owner]
         /\ FileOf[e.slot] \in loaded' /\ e.slot \in Streams
         /\ (\A d \in Streams : FileOf[d] \in loaded => copy[d] = stream[d])
             => \A d \in Streams : FileOf[d] \in loaded' => copy'[d] = stream[d]
<1>1. e.slot \in Streams /\ FileOf[e.slot] \in Files
  BY CacheAssumption DEF Entry, Slots
<1>2. stream \in [Streams -> Owner] /\ copy \in [Streams -> Owner] /\ loaded \subseteq Files
  BY DEF SearchInv, StoreInv, CacheTypeOK, Types, Owner
<1> QED
  BY <1>1, <1>2 DEF LoadBodies

(* The entries and the cache are left alone by a turn.                     *)
LEMMA TurnKeeps ==
  ASSUME SearchInv, NEW e \in todo, Take(e), RestUnchanged,
         loaded' \subseteq Files, copy' \in [Streams -> Owner],
         hits' \subseteq [key: Http, body: Owner], counts' \in [Counters -> Nat],
         CountInv', QuietInv'
  PROVE  SearchInv'
<1>1. UNCHANGED <<cacheVars, at, filter, entries, quiet>> /\ todo' \subseteq entries
  BY TurnsAt DEF RestUnchanged
<1>2. StoreInv' /\ OwnerInv'
  BY <1>1, StoreStays DEF SearchInv
<1>3. Types'
  BY <1>1 DEF SearchInv, Types
<1>4. EntriesInv'
  BY <1>1 DEF SearchInv, EntriesInv
<1> QED
  BY <1>2, <1>3, <1>4 DEF SearchInv

(* The numbers of CountInv.                                                *)
LEMMA Numbers ==
  ASSUME SearchInv
  PROVE  /\ Cardinality(hits) \in Nat /\ Cardinality(Passed) \in Nat /\ Cardinality(Rejected) \in Nat
         /\ counts["preFiltered"] \in Nat /\ counts["bodiesRead"] \in Nat /\ counts["needleMiss"] \in Nat
         /\ IsFiniteSet(hits) /\ IsFiniteSet(Passed) /\ IsFiniteSet(Rejected)
<1>1. IsFiniteSet(Rejected) /\ IsFiniteSet(Passed)
  <2>1. Rejected \in SUBSET entries /\ Passed \in SUBSET entries /\ IsFiniteSet(entries)
    BY DEF Rejected, Passed, Behind, SearchInv, EntriesInv
  <2> QED
    BY <2>1, FS_Subset
<1>2. IsFiniteSet(hits)
  BY DEF SearchInv, CountInv
<1>3. counts["preFiltered"] \in Nat /\ counts["bodiesRead"] \in Nat /\ counts["needleMiss"] \in Nat
  BY DEF SearchInv, Types, Counters
<1> QED
  BY <1>1, <1>2, <1>3, FS_CardinalityType

LEMMA PreFilterStep ==
  ASSUME SearchInv, NEW e \in todo, PreFilter(e)
  PROVE  SearchInv'
<1>1. /\ Take(e) /\ RestUnchanged /\ PreFiltered(e.key) /\ UNCHANGED <<loaded, copy, hits>>
      /\ counts' = [counts EXCEPT !["preFiltered"] = @ + 1]
  BY DEF PreFilter, Count
<1>2. /\ Rejected' = Rejected \cup {e} /\ Passed' = Passed /\ e \notin Rejected
      /\ at = "search" /\ IsFiniteSet(Rejected)
  BY <1>1, TurnsAt
<1>3. Cardinality(Rejected') = Cardinality(Rejected) + 1
  BY <1>2, FS_AddElement
<1>4. /\ counts' \in [Counters -> Nat] /\ counts'["preFiltered"] = counts["preFiltered"] + 1
      /\ counts'["bodiesRead"] = counts["bodiesRead"] /\ counts'["needleMiss"] = counts["needleMiss"]
  BY <1>1 DEF SearchInv, Types, Counters
<1>5. at' = at /\ filter' = filter /\ hits' = hits /\ loaded' = loaded
      /\ UNCHANGED <<cacheVars, entries, quiet, copy>>
  BY <1>1 DEF RestUnchanged
<1>6. CountInv'
  BY <1>2, <1>3, <1>4, <1>5 DEF SearchInv, CountInv
<1>7. Holding' = Holding /\ Missing' = Missing
  BY <1>1, TurnsSearchable
<1>8. QuietInv'
  BY <1>4, <1>5, <1>7 DEF SearchInv, QuietInv, cacheVars
<1> QED
  BY <1>1, <1>4, <1>5, <1>6, <1>8, TurnKeeps DEF SearchInv, Types

LEMMA MetadataMatchStep ==
  ASSUME SearchInv, NEW e \in todo, MetadataMatch(e)
  PROVE  SearchInv'
<1>1. /\ Take(e) /\ RestUnchanged /\ ~PreFiltered(e.key) /\ ~filter.needle
      /\ UNCHANGED <<loaded, copy, counts>> /\ hits' = hits \cup {Hit(e)}
  BY DEF MetadataMatch, Hit
<1>2. /\ Rejected' = Rejected /\ Passed' = Passed \cup {e} /\ e \notin Passed /\ e \in entries
      /\ at = "search" /\ IsFiniteSet(Passed) /\ e \in Entry
  BY <1>1, TurnsAt
<1>3. UNCHANGED <<at, filter, entries, quiet>>
  BY <1>1 DEF RestUnchanged
<1>4. Passed \subseteq entries
  BY DEF Passed, Behind
<1>5. /\ IsFiniteSet(hits') /\ hits' = {Hit(d) : d \in Passed'}
      /\ Cardinality(hits') = Cardinality(Passed')
  <2>1. hits = {Hit(d) : d \in Passed} /\ Cardinality(hits) = Cardinality(Passed) /\ IsFiniteSet(hits)
    BY <1>1 DEF SearchInv, CountInv
  <2> QED
    BY SMTT(30), <1>1, <1>2, <1>4, <2>1, NewHit DEF SearchInv
<1>6. Cardinality(Passed') = Cardinality(Passed) + 1
  BY <1>2, FS_AddElement
<1>7. CountInv'
  <2>1. {Hit(d) : d \in Passed}' = {Hit(d) : d \in Passed'}
    BY DEF Hit
  <2>2. counts["needleMiss"] = 0 /\ counts["bodiesRead"] <= Cardinality(Passed)
    BY <1>1 DEF SearchInv, CountInv
  <2> QED
    BY <1>1, <1>2, <1>3, <1>5, <1>6, <2>1, <2>2, Numbers DEF SearchInv, CountInv
<1>8. QuietInv'
  BY <1>1, <1>3 DEF QuietInv
<1>9. hits' \subseteq [key: Http, body: Owner]
  <2>1. Hit(e) \in [key: Http, body: Owner]
    BY <1>2, SearchAssumption DEF Hit, Entry, Owner
  <2> QED
    BY <1>1, <2>1 DEF SearchInv, Types
<1> QED
  BY <1>1, <1>7, <1>8, <1>9, TurnKeeps DEF SearchInv, Types

(* An entry that is counted nowhere, and cannot be searched.               *)
LEMMA SkippedKeeps ==
  ASSUME SearchInv, NEW e \in todo, Take(e), RestUnchanged,
         ~PreFiltered(e.key), filter.needle,
         UNCHANGED <<hits, counts>>,
         loaded' \subseteq Files, copy' \in [Streams -> Owner],
         quiet => e \notin Sure,
         quiet => \A d \in Streams : FileOf[d] \in loaded' => copy'[d] = stream[d]
  PROVE  SearchInv'
<1>1. UNCHANGED <<cacheVars, at, filter, entries, quiet, hits, counts>>
  BY DEF RestUnchanged
<1>2. /\ Rejected' = Rejected /\ Passed' = Passed \cup {e} /\ e \notin Passed
      /\ at = "search" /\ IsFiniteSet(Passed)
  BY TurnsAt
<1>3. Cardinality(Passed') = Cardinality(Passed) + 1
  BY <1>2, FS_AddElement
<1>4. CountInv'
  BY <1>1, <1>2, <1>3, Numbers DEF SearchInv, CountInv
<1>5. quiet => Holding' = Holding /\ Missing' = Missing
  BY TurnsSearchable
<1>6. QuietInv'
  <2>1. stream' = stream
    BY <1>1 DEF cacheVars
  <2> QED
    BY <1>1, <1>2, <1>5, <2>1 DEF SearchInv, QuietInv
<1> QED
  BY <1>1, <1>4, <1>6, TurnKeeps DEF SearchInv, Types

LEMMA SkipBodilessStep ==
  ASSUME SearchInv, NEW e \in todo, SkipBodiless(e)
  PROVE  SearchInv'
<1>1. /\ Take(e) /\ RestUnchanged /\ ~PreFiltered(e.key) /\ filter.needle /\ e.key \in Bodiless
      /\ UNCHANGED <<loaded, copy, hits, counts>>
  BY DEF SkipBodiless, Wanted
<1>2. at = "search" /\ e \notin Sure
  BY <1>1, TurnsAt, TurnsSearchable
<1>3. loaded' \subseteq Files /\ copy' \in [Streams -> Owner]
  BY <1>1 DEF SearchInv, Types
<1>4. quiet => \A d \in Streams : FileOf[d] \in loaded' => copy'[d] = stream[d]
  BY <1>1, <1>2 DEF SearchInv, QuietInv
<1> QED
  BY <1>1, <1>2, <1>3, <1>4, SkippedKeeps

(* What is read of a stream when nobody has written to the cache.          *)
LEMMA ReadsOwn ==
  ASSUME SearchInv, NEW e \in todo, Take(e), RestUnchanged, filter.needle,
         LoadBodies(FileOf[e.slot])
  PROVE  /\ loaded' \subseteq Files /\ copy' \in [Streams -> Owner] /\ copy'[e.slot] \in Owner
         /\ quiet => /\ copy'[e.slot] = e.key
                     /\ \A d \in Streams : FileOf[d] \in loaded' => copy'[d] = stream[d]
<1>1. e \in entries /\ e \in Entry /\ at = "search"
  BY TurnsAt
<1>2. /\ loaded' \subseteq Files /\ copy' \in [Streams -> Owner]
      /\ FileOf[e.slot] \in loaded' /\ e.slot \in Streams
      /\ (\A d \in Streams : FileOf[d] \in loaded => copy[d] = stream[d])
           => \A d \in Streams : FileOf[d] \in loaded' => copy'[d] = stream[d]
  BY <1>1, Loads
<1>3. quiet => /\ stream[e.slot] = e.key
               /\ \A d \in Streams : FileOf[d] \in loaded => copy[d] = stream[d]
  BY <1>1 DEF SearchInv, QuietInv
<1> QED
  BY <1>2, <1>3

LEMMA SkipUnreadableStep ==
  ASSUME SearchInv, NEW e \in todo, SkipUnreadable(e)
  PROVE  SearchInv'
<1>1. /\ Take(e) /\ RestUnchanged /\ ~PreFiltered(e.key) /\ filter.needle
      /\ LoadBodies(FileOf[e.slot]) /\ UNCHANGED <<hits, counts>>
      /\ FileOf[e.slot] \in Unreadable \/ copy'[e.slot] = Null
  BY DEF SkipUnreadable, Wanted
<1>2. e \in Entry
  BY <1>1, TurnsAt
<1>3. e.key # Null
  BY <1>2, NullIsNoSlot, SearchAssumption DEF Entry
<1>4. quiet => e \notin Sure
  BY <1>1, <1>3, ReadsOwn, TurnsSearchable
<1> QED
  BY <1>1, <1>4, ReadsOwn, SkippedKeeps

LEMMA SearchBodyStep ==
  ASSUME SearchInv, NEW e \in todo, SearchBody(e)
  PROVE  SearchInv'
<1> DEFINE owner == copy'[e.slot]
           hit == [key |-> e.key, body |-> owner]
<1>0. /\ Take(e) /\ RestUnchanged /\ ~PreFiltered(e.key) /\ filter.needle
      /\ e.key \notin Bodiless /\ FileOf[e.slot] \notin Unreadable
      /\ LoadBodies(FileOf[e.slot])
      /\ \E text \in Decompress(owner, e.key) \ {"hangs"} :
           \E found \in Finds(owner, e.key, text) :
             /\ counts' = Tally(text, found)
             /\ hits' = IF found THEN hits \cup {hit} ELSE hits
  BY DEF SearchBody, Wanted
<1>p. PICK text \in Decompress(owner, e.key) \ {"hangs"} :
        \E found \in Finds(owner, e.key, text) :
          /\ counts' = Tally(text, found)
          /\ hits' = IF found THEN hits \cup {hit} ELSE hits
  BY <1>0
<1>q. PICK found \in Finds(owner, e.key, text) :
        /\ counts' = Tally(text, found)
        /\ hits' = IF found THEN hits \cup {hit} ELSE hits
  BY <1>p
<1>1. /\ Take(e) /\ RestUnchanged /\ ~PreFiltered(e.key) /\ filter.needle
      /\ e.key \notin Bodiless /\ FileOf[e.slot] \notin Unreadable
      /\ LoadBodies(FileOf[e.slot])
      /\ counts' = Tally(text, found)
      /\ hits' = IF found THEN hits \cup {hit} ELSE hits
  BY <1>0, <1>q
<1>2. UNCHANGED <<cacheVars, at, filter, entries, quiet>>
  BY <1>1 DEF RestUnchanged
<1>3. /\ Rejected' = Rejected /\ Passed' = Passed \cup {e} /\ e \notin Passed
      /\ at = "search" /\ IsFiniteSet(Passed) /\ e \in entries /\ e \in Entry
  BY <1>1, TurnsAt
<1>4. /\ loaded' \subseteq Files /\ copy' \in [Streams -> Owner] /\ owner \in Owner
      /\ quiet => /\ owner = e.key
                  /\ \A d \in Streams : FileOf[d] \in loaded' => copy'[d] = stream[d]
  BY <1>1, ReadsOwn
<1>5. e.key \in Keys /\ e.key \in Http /\ e.key # Null
  BY <1>3, NullIsNoSlot, SearchAssumption DEF Entry
<1>6. owner = e.key => /\ text = IF Decodes(e.key) THEN "body" ELSE "none"
                       /\ found <=> text = "body" /\ Matches(e.key)
  <2> SUFFICES ASSUME owner = e.key
               PROVE  /\ text = IF Decodes(e.key) THEN "body" ELSE "none"
                      /\ found <=> text = "body" /\ Matches(e.key)
    OBVIOUS
  <2>1. InFormat(owner, e.key) /\ ~Cut(owner, e.key)
    BY <1>5, SearchAssumption DEF InFormat, Cut
  <2>2. Encoding[e.key] \in {"identity", "gzip", "br", "zstd"}
    BY <1>5, SearchAssumption
  <2>3. text = IF Decodes(e.key) THEN "body" ELSE "none"
    BY <1>p, <2>1, <2>2 DEF Decompress, GzipResults, BrotliFails, Decodes
  <2>4. Finds(owner, e.key, text) =
          IF text = "body" /\ Matches(e.key) THEN {TRUE} ELSE {FALSE}
    BY <2>1 DEF Finds
  <2> QED
    BY <1>q, <2>3, <2>4
<1>7. found \in BOOLEAN /\ (found => text # "none")
  BY <1>q DEF Finds
<1> HIDE DEF owner
<1>8. /\ counts' \in [Counters -> Nat]
      /\ counts'["preFiltered"] = counts["preFiltered"]
      /\ counts'["bodiesRead"] = counts["bodiesRead"] + 1
      /\ counts'["needleMiss"] = IF text # "none" /\ ~found THEN counts["needleMiss"] + 1
                                ELSE counts["needleMiss"]
  BY <1>1 DEF Tally, SearchInv, Types, Counters
<1>9. Cardinality(Passed') = Cardinality(Passed) + 1
  BY <1>3, FS_AddElement
<1>10. /\ IsFiniteSet(hits') /\ Cardinality(hits') \in Nat
       /\ found => Cardinality(hits') <= Cardinality(hits) + 1
       /\ ~found => Cardinality(hits') = Cardinality(hits)
  <2>1. IsFiniteSet(hits)
    BY Numbers
  <2> HIDE DEF hit
  <2>2. /\ IsFiniteSet(hits \cup {hit})
        /\ \/ Cardinality(hits \cup {hit}) = Cardinality(hits)
           \/ Cardinality(hits \cup {hit}) = Cardinality(hits) + 1
    BY <2>1, FS_AddElement
  <2>3. Cardinality(hits) \in Nat /\ Cardinality(hits \cup {hit}) \in Nat
    BY <2>1, <2>2, FS_CardinalityType
  <2> QED
    BY <1>1, <2>1, <2>2, <2>3
<1>11. CountInv'
  BY <1>1, <1>2, <1>3, <1>7, <1>8, <1>9, <1>10, Numbers DEF SearchInv, CountInv
<1>12. ASSUME quiet
       PROVE  /\ hits' = {Hit(d) : d \in Holding'}
              /\ Cardinality(hits') = Cardinality(Holding')
              /\ counts'["needleMiss"] = Cardinality(Missing')
  <2>1. /\ hits = {Hit(d) : d \in Holding} /\ Cardinality(hits) = Cardinality(Holding)
        /\ counts["needleMiss"] = Cardinality(Missing)
    BY <1>1, <1>3, <1>12 DEF SearchInv, QuietInv
  <2>2. owner = e.key
    BY <1>4, <1>12
  <2>3. e \in Sure <=> Decodes(e.key)
    BY <1>1, TurnsSearchable
  <2>4. /\ found <=> e \in Sure /\ Matches(e.key)
        /\ text # "none" <=> e \in Sure
    <3>1. /\ text = IF Decodes(e.key) THEN "body" ELSE "none"
          /\ found <=> text = "body" /\ Matches(e.key)
      BY <1>6, <2>2
    <3>2. (text = "body" <=> Decodes(e.key)) /\ (text # "none" <=> Decodes(e.key))
      BY <3>1
    <3> QED
      BY <2>3, <3>1, <3>2, Zenon
  <2>5. /\ Holding' = IF found THEN Holding \cup {e} ELSE Holding
        /\ Missing' = IF text # "none" /\ ~found THEN Missing \cup {e} ELSE Missing
        /\ e \notin Holding /\ e \notin Missing
        /\ IsFiniteSet(Holding) /\ IsFiniteSet(Missing)
    BY <1>1, <2>4, TurnsSearchable
  <2>6. Holding \subseteq entries
    BY DEF Holding, Behind
  <2>7. hit = Hit(e)
    BY <2>2 DEF Hit
  <2>8. CASE found
    <3>1. /\ hits \cup {Hit(e)} = {Hit(d) : d \in Holding \cup {e}}
          /\ Cardinality(hits \cup {Hit(e)}) = Cardinality(Holding \cup {e})
      BY <1>3, <2>1, <2>5, <2>6, NewHit, Numbers DEF SearchInv
    <3>2. hits' = hits \cup {Hit(e)} /\ Holding' = Holding \cup {e} /\ Missing' = Missing
      BY <1>1, <2>5, <2>7, <2>8
    <3> QED
      BY <1>8, <2>1, <2>8, <3>1, <3>2
  <2>9. CASE ~found
    <3>1. hits' = hits /\ Holding' = Holding
      BY <1>1, <2>5, <2>9
    <3>2. Cardinality(Missing \cup {e}) = Cardinality(Missing) + 1
      BY <2>5, FS_AddElement
    <3>3. counts'["needleMiss"] = Cardinality(Missing')
      BY <1>8, <2>1, <2>5, <2>9, <3>2
    <3> QED
      BY <2>1, <3>1, <3>3
  <2> QED
    BY <2>8, <2>9
<1>13. QuietInv'
  <2>1. stream' = stream
    BY <1>2 DEF cacheVars
  <2>2. quiet => \A d \in entries : stream[d.slot] = d.key
    BY <1>1, <1>3 DEF SearchInv, QuietInv
  <2> QED
    BY <1>2, <1>4, <1>12, <2>1, <2>2 DEF QuietInv, Hit, owner
<1>14. hits' \subseteq [key: Http, body: Owner]
  BY <1>1, <1>4, <1>5 DEF SearchInv, Types
<1> QED
  BY <1>1, <1>4, <1>8, <1>11, <1>13, <1>14, TurnKeeps

-----------------------------------------------------------------------------
LEMMA FinishStep ==
  ASSUME SearchInv, Finish
  PROVE  SearchInv'
<1>1. /\ at = "search" /\ at' = "done" /\ todo = {}
      /\ UNCHANGED <<cacheVars, filter, entries, todo, loaded, copy, hits, counts, quiet>>
  BY DEF Finish
<1>2. StoreInv' /\ OwnerInv'
  BY <1>1, StoreStays DEF SearchInv
<1>3. Types' /\ EntriesInv'
  BY <1>1 DEF SearchInv, Types, EntriesInv
<1>4. /\ Behind' = Behind /\ Rejected' = Rejected /\ Passed' = Passed
      /\ Holding' = Holding /\ Missing' = Missing
  BY <1>1 DEF Behind, Rejected, Passed, Holding, Missing, Sure, Searchable, Settled, Wants,
              EmptyHeader, NoRoom, Matches, PreFiltered, HeaderPasses
<1>5. CountInv'
  BY <1>1, <1>4 DEF SearchInv, CountInv, Hit
<1>6. QuietInv'
  BY <1>1, <1>4 DEF SearchInv, QuietInv, Hit, cacheVars
<1> QED
  BY <1>2, <1>3, <1>5, <1>6 DEF SearchInv

(* The browser: what the search has counted stays.                         *)
LEMMA BrowserKeeps ==
  ASSUME SearchInv, Browser
  PROVE  SearchInv'
<1>1. /\ BrowserStep /\ quiet' = (at = "capture")
      /\ UNCHANGED <<at, filter, entries, todo, loaded, copy, hits, counts>>
  BY DEF Browser, searchVars
<1>2. StoreInv' /\ OwnerInv'
  BY <1>1, BrowserKeepsStore DEF SearchInv
<1>3. Types' /\ EntriesInv'
  BY <1>1 DEF SearchInv, Types, EntriesInv
<1>4. Rejected' = Rejected /\ Passed' = Passed
  BY <1>1 DEF Behind, Rejected, Passed, PreFiltered, HeaderPasses
<1>5. CountInv'
  BY <1>1, <1>4 DEF SearchInv, CountInv, Hit
<1>6. QuietInv'
  BY <1>1 DEF QuietInv
<1> QED
  BY <1>2, <1>3, <1>5, <1>6 DEF SearchInv

LEMMA SearchStep == SearchInv /\ [Next]_vars => SearchInv'
<1> SUFFICES ASSUME SearchInv, [Next]_vars PROVE SearchInv'
  OBVIOUS
<1>1. CASE Capture
  BY <1>1, CaptureStep
<1>2. ASSUME NEW e \in todo, PreFilter(e) PROVE SearchInv'
  BY <1>2, PreFilterStep
<1>3. ASSUME NEW e \in todo, MetadataMatch(e) PROVE SearchInv'
  BY <1>3, MetadataMatchStep
<1>4. ASSUME NEW e \in todo, SkipBodiless(e) PROVE SearchInv'
  BY <1>4, SkipBodilessStep
<1>5. ASSUME NEW e \in todo, SkipUnreadable(e) PROVE SearchInv'
  BY <1>5, SkipUnreadableStep
<1>6. ASSUME NEW e \in todo, SearchBody(e) PROVE SearchInv'
  BY <1>6, SearchBodyStep
<1>7. CASE Finish
  BY <1>7, FinishStep
<1>8. CASE Browser
  BY <1>8, BrowserKeeps
<1>9. CASE UNCHANGED vars
  <2>1. UNCHANGED cacheVars
        /\ UNCHANGED <<at, filter, entries, todo, loaded, copy, hits, counts, quiet>>
    BY <1>9 DEF vars, searchVars
  <2>2. StoreInv' /\ OwnerInv'
    BY <2>1, StoreStays DEF SearchInv
  <2>3. Types' /\ EntriesInv'
    BY <2>1 DEF SearchInv, Types, EntriesInv
  <2>4. /\ Behind' = Behind /\ Rejected' = Rejected /\ Passed' = Passed
        /\ Holding' = Holding /\ Missing' = Missing
    BY <2>1 DEF Behind, Rejected, Passed, Holding, Missing, Sure, Searchable, Settled, Wants,
                EmptyHeader, NoRoom, Matches, PreFiltered, HeaderPasses
  <2>5. CountInv'
    BY <2>1, <2>4 DEF SearchInv, CountInv, Hit
  <2>6. QuietInv'
    BY <2>1, <2>4 DEF SearchInv, QuietInv, Hit, cacheVars
  <2> QED
    BY <2>2, <2>3, <2>5, <2>6 DEF SearchInv
<1> QED
  BY <1>1, <1>2, <1>3, <1>4, <1>5, <1>6, <1>7, <1>8, <1>9 DEF Next, Reader

LEMMA SearchInvariant == Spec => []SearchInv
BY SearchInit, SearchStep, PTL DEF Spec

-----------------------------------------------------------------------------
(* The types; a counter never exceeds the number of entries.               *)
THEOREM SearchTypeOK == Spec => []TypeOK
<1>1. SearchInv => TypeOK
  <2> SUFFICES ASSUME SearchInv PROVE TypeOK
    OBVIOUS
  <2>1. /\ Cardinality(Rejected) <= Cardinality(entries)
        /\ Cardinality(Passed) <= Cardinality(entries) /\ Cardinality(entries) \in Nat
    <3>1. Rejected \in SUBSET entries /\ Passed \in SUBSET entries /\ IsFiniteSet(entries)
      BY DEF Rejected, Passed, Behind, SearchInv, EntriesInv
    <3> QED
      BY <3>1, FS_Subset, FS_CardinalityType
  <2>2. \A c \in Counters : counts[c] \in 0 .. Cardinality(entries)
    <3>1. /\ counts["preFiltered"] <= Cardinality(entries)
          /\ counts["bodiesRead"] <= Cardinality(entries)
          /\ counts["needleMiss"] <= Cardinality(entries)
      BY <2>1, Numbers DEF SearchInv, CountInv
    <3> QED
      BY <2>1, <3>1, Numbers DEF Counters
  <2>3. counts \in [Counters -> 0 .. Cardinality(entries)]
    BY <2>2 DEF SearchInv, Types
  <2> QED
    BY <2>3 DEF SearchInv, StoreInv, Types, TypeOK, Counters
<1> QED
  BY <1>1, SearchInvariant, PTL

(* At the end nothing is left to come to.                                  *)
LEMMA AtTheEnd ==
  ASSUME SearchInv, at = "done"
  PROVE  /\ Behind = entries /\ Passed = Passing
         /\ IsFiniteSet(Passing) /\ Cardinality(Passing) \in Nat
         /\ counts["preFiltered"] + Cardinality(Passing) = Cardinality(entries)
<1>1. todo = {} /\ Behind = entries
  BY DEF SearchInv, CountInv, Behind
<1>2. Passed = Passing /\ Rejected = entries \ Passing
  BY <1>1 DEF Passed, Passing, Rejected
<1>3. Passing \in SUBSET entries /\ IsFiniteSet(entries)
  BY DEF Passing, SearchInv, EntriesInv
<1>4. IsFiniteSet(Passing) /\ Cardinality(Passing) \in Nat /\ Cardinality(entries) \in Nat
  BY <1>3, FS_Subset, FS_CardinalityType
<1>5. Cardinality(entries \ Passing) = Cardinality(entries) - Cardinality(Passing)
  <2>1. Passing \cap entries = Passing /\ entries \cap Passing = Passing
    BY <1>3
  <2> QED
    BY ZenonT(30), <1>3, <2>1, FS_Difference
<1> QED
  BY <1>1, <1>2, <1>4, <1>5 DEF SearchInv, CountInv

(* CacheSearchResult's counters, whatever the browser does: what the       *)
(* filters rejected and what they passed are the entries of the capture,   *)
(* and no body is a hit or a miss that was not read.                       *)
THEOREM SearchCountersAddUp == Spec => []CountersAddUp
<1>1. SearchInv => CountersAddUp
  BY AtTheEnd DEF CountersAddUp, SearchInv, CountInv
<1> QED
  BY <1>1, SearchInvariant, PTL

(* SearchCache without a needle, whatever the browser does: the hits are   *)
(* the entries profile.h asks for, but that an entry whose header is empty *)
(* is left open.                                                           *)
THEOREM MetadataSearchesAreExact == Spec => []MetadataSearchIsExact
<1>1. SearchInv => MetadataSearchIsExact
  <2> SUFFICES ASSUME SearchInv, at = "done", ~filter.needle
               PROVE  /\ \A e \in entries :
                           \/ EmptyHeader(e.key)
                           \/ Wants(e.key) <=> \E h \in hits : h.key = e.key
                      /\ counts["preFiltered"] + Cardinality(hits) = Cardinality(entries)
                      /\ loaded = {}
    BY DEF MetadataSearchIsExact
  <2>1. /\ hits = {Hit(e) : e \in Passing} /\ Cardinality(hits) = Cardinality(Passing)
        /\ loaded = {}
    BY AtTheEnd DEF SearchInv, CountInv
  <2>2. ASSUME NEW e \in entries
        PROVE  e \in Passing <=> \E h \in hits : h.key = e.key
    <3>1. \A d \in entries : d.key = e.key => d = e
      BY DEF SearchInv, EntriesInv
    <3>2. Passing \subseteq entries
      BY DEF Passing
    <3>3. ASSUME e \in Passing PROVE \E h \in hits : h.key = e.key
      <4>1. Hit(e) \in hits /\ Hit(e).key = e.key
        BY <2>1, <3>3 DEF Hit
      <4> QED
        BY <4>1
    <3>4. ASSUME NEW h \in hits, h.key = e.key PROVE e \in Passing
      <4>1. PICK d \in Passing : h = Hit(d)
        BY <2>1
      <4>2. d.key = e.key
        BY <3>4, <4>1 DEF Hit
      <4> QED
        BY <3>1, <3>2, <4>2
    <3> QED
      BY <3>3, <3>4
  <2>3. \A e \in entries : e \in Passing <=> Wants(e.key) /\ ~EmptyHeader(e.key)
    BY Asked DEF Passing
  <2> QED
    BY <2>1, <2>2, <2>3, AtTheEnd
<1> QED
  BY <1>1, SearchInvariant, PTL

(* SearchCache with a needle, when nobody has written to the cache since   *)
(* the capture; brotli text without room and empty headers are left open.  *)
THEOREM QuietSearchesAreExact == Spec => []QuietSearchIsExact
<1>1. SearchInv => QuietSearchIsExact
  <2> SUFFICES ASSUME SearchInv, at = "done", quiet, filter.needle
               PROVE  /\ WithOwnBody(Sure) \subseteq hits
                      /\ hits \subseteq WithOwnBody(Searchable)
                      /\ Cardinality(hits) + counts["needleMiss"]
                           \in Cardinality(Sure) .. Cardinality(Searchable)
    BY DEF QuietSearchIsExact, Sure
  <2>1. /\ Sure \subseteq Searchable /\ Searchable \subseteq entries /\ Behind = entries
    BY AtTheEnd DEF Sure, Searchable
  <2>2. /\ Holding = {s \in Sure : Matches(s.key)}
        /\ Missing = Sure \ Holding /\ Holding \subseteq Sure
    BY <2>1 DEF Holding, Missing
  <2>3. /\ hits = {Hit(e) : e \in Holding} /\ Cardinality(hits) = Cardinality(Holding)
        /\ counts["needleMiss"] = Cardinality(Missing)
    BY DEF SearchInv, QuietInv
  <2>4. /\ IsFiniteSet(Searchable) /\ IsFiniteSet(Sure) /\ IsFiniteSet(Holding)
        /\ Cardinality(Sure) <= Cardinality(Searchable)
    BY <2>1, <2>2, FS_Subset DEF SearchInv, EntriesInv
  <2>5. Cardinality(Sure \ Holding) = Cardinality(Sure) - Cardinality(Holding)
    <3>1. Sure \cap Holding = Holding /\ Holding \cap Sure = Holding
      BY <2>2
    <3> QED
      BY ZenonT(30), <2>4, <3>1, FS_Difference
  <2>6. WithOwnBody(Sure) = hits
    BY <2>2, <2>3 DEF WithOwnBody, Hit
  <2>7. hits \subseteq WithOwnBody(Searchable)
    BY <2>1, <2>6 DEF WithOwnBody
  <2> QED
    BY <2>2, <2>3, <2>4, <2>5, <2>6, <2>7, FS_CardinalityType
<1> QED
  BY <1>1, SearchInvariant, PTL
==============================================================================
