----------------------------- MODULE CacheSearch -----------------------------
(***************************************************************************)
(* SearchCache (readers_cache.cpp): the filter cascade over the entries of *)
(* a capture.  The capture keeps the headers of an entry but only the      *)
(* address and the size of its body; the search reads the body from the    *)
(* cache as it is when the search gets there.                              *)
(*                                                                         *)
(* The capture itself is taken in one step: CacheWalk is about what        *)
(* happens when it is not.                                                 *)
(***************************************************************************)
EXTENDS CacheStore

CONSTANTS
  Http,        \* the keys whose URL is http:// or https://
  Filters,     \* the filters a caller may pass
  HeaderOf,    \* what an entry has of the header a filter names
  Bodiless,    \* the keys whose entry has no body
  Encoding,    \* the Content-Encoding of an entry
  SizeOf,      \* the size of a body as it is stored
  Damaged,     \* the keys whose compressed body does not decode
  Holds,       \* the keys whose text contains the needle
  Long,        \* the keys whose text is longer than maxBodyBytes
  Late,        \* those of them that have the needle behind the cap only
  Dense,       \* the keys whose text outgrows BrotliDecompress's estimate
  Unreadable   \* the data files that cannot be loaded or have a bad magic

(* A filter: the keys its MIME, URL, status and size tests reject, its     *)
(* header test, whether it has a needle and whether maxBodyBytes > 0.      *)
CacheFilter == [rejects: SUBSET Keys, header: {"none", "present", "value"},
                needle: BOOLEAN, capped: BOOLEAN]

ASSUME SearchAssumption ==
  /\ Http \subseteq Keys /\ Bodiless \subseteq Keys /\ Damaged \subseteq Keys
  /\ Holds \subseteq Keys /\ Long \subseteq Keys /\ Dense \subseteq Keys
  /\ Late \subseteq Holds \cap Long
  /\ Unreadable \subseteq Files
  /\ Filters \subseteq CacheFilter
  /\ HeaderOf \in [Keys -> {"absent", "empty", "match", "other"}]
  /\ Encoding \in [Keys -> {"identity", "gzip", "br", "zstd"}]
  /\ SizeOf \in [Keys -> Nat \ {0}]

VARIABLES
  at,        \* "capture", "search", "done"
  filter,    \* the argument of SearchCache
  entries,   \* the captured entries
  todo,      \* those the search has not come to
  loaded,    \* the block files read by the search
  copy,      \* the streams in them
  hits,      \* the result: a key and whose body was put into the entry
  counts,    \* preFiltered, bodiesRead, needleMiss
  quiet      \* history: the browser did nothing since the capture

searchVars == <<at, filter, entries, todo, loaded, copy, hits, counts>>
vars == <<cacheVars, searchVars, quiet>>

Entry == [key: Http, slot: Streams]
Owner == Keys \cup {Null}

TypeOK ==
  /\ CacheTypeOK
  /\ at \in {"capture", "search", "done"}
  /\ filter \in CacheFilter
  /\ entries \subseteq Entry
  /\ todo \subseteq entries
  /\ loaded \subseteq Files
  /\ copy \in [Streams -> Owner]
  /\ hits \subseteq [key: Http, body: Owner]
  /\ counts \in [{"preFiltered", "bodiesRead", "needleMiss"} ->
                   0 .. Cardinality(entries)]
  /\ quiet \in BOOLEAN

Init ==
  /\ CacheInit
  /\ at = "capture"
  /\ filter = [rejects |-> {}, header |-> "none", needle |-> FALSE,
               capped |-> FALSE]
  /\ entries = {} /\ todo = {}
  /\ loaded = {} /\ copy = [d \in Streams |-> Null]
  /\ hits = {}
  /\ counts = [c \in {"preFiltered", "bodiesRead", "needleMiss"} |-> 0]
  /\ quiet = TRUE

Browser ==
  /\ BrowserStep
  /\ quiet' = (at = "capture")
  /\ UNCHANGED searchVars

-----------------------------------------------------------------------------
(* The cascade.                                                            *)

(* CacheEntry::header gives "" for a header that is not there, so an empty *)
(* value and no header are the same to the filter.                         *)
HeaderPasses(k) ==
  \/ filter.header = "none"
  \/ filter.header = "present" /\ HeaderOf[k] \in {"match", "other"}
  \/ filter.header = "value" /\ HeaderOf[k] = "match"

PreFiltered(k) == k \in filter.rejects \/ ~HeaderPasses(k)

(* The bytes stored for `owner' are read as the body of k: decoded by its  *)
(* Content-Encoding, after they were cut to the size the capture knew.     *)
InFormat(owner, k) == owner # Null /\ Encoding[owner] = Encoding[k]

Cut(owner, k) == SizeOf[owner] > SizeOf[k]

(* GzipDecompress stops at the cap.  It has no way out of a stream that    *)
(* ends before it does: see Inflate.                                       *)
GzipResults(owner, k) ==
  {r \in {"body", "none", "hangs"} :
     /\ r = "body" => /\ owner \notin Damaged
                      /\ Cut(owner, k) => filter.capped /\ owner \in Long
     /\ r = "none" => owner \in Damaged
     /\ r = "hangs" => Cut(owner, k)}

(* BrotliDecompress decodes into one buffer, of maxBodyBytes or of an      *)
(* estimate, and gives nothing when the text does not fit.                 *)
NoRoom(owner) == owner \in (IF filter.capped THEN Long ELSE Dense)

BrotliFails(owner, k) == owner \in Damaged \/ Cut(owner, k) \/ NoRoom(owner)

(* Decompress: the text of a body, bytes in which nothing is found, no     *)
(* text, or no answer.                                                     *)
Decompress(owner, k) ==
  IF Encoding[k] = "identity" THEN {IF InFormat(owner, k) THEN "body" ELSE "noise"}
  ELSE IF Encoding[k] = "gzip" /\ InFormat(owner, k) THEN GzipResults(owner, k)
  ELSE IF Encoding[k] = "br" /\ InFormat(owner, k) /\ ~BrotliFails(owner, k)
    THEN {"body"}
  ELSE {"none"}

(* Whether the needle is found: it may lie behind the cap, or behind the   *)
(* place where plain text was cut.                                         *)
Matches(k) == k \in Holds /\ ~(filter.capped /\ k \in Late)

Finds(owner, k, text) ==
  IF text # "body" \/ ~Matches(owner) THEN {FALSE}
  ELSE IF Encoding[k] = "identity" /\ Cut(owner, k) THEN BOOLEAN
  ELSE {TRUE}

Count(c) == [counts EXCEPT ![c] = @ + 1]

(* Capture and SearchCache's entry.                                        *)
Capture ==
  /\ at = "capture"
  /\ at' = "search"
  /\ filter' \in Filters
  /\ entries' = {[key |-> block[b].key, slot |-> block[b].data] :
                   b \in {u \in used : block[u].key \in Http /\ block[u].data # Null}}
  /\ todo' = entries'
  /\ UNCHANGED <<cacheVars, loaded, copy, hits, counts, quiet>>

Take(e) == at = "search" /\ todo' = todo \ {e}

RestUnchanged == UNCHANGED <<cacheVars, at, filter, entries, quiet>>

PreFilter(e) ==
  /\ Take(e)
  /\ PreFiltered(e.key)
  /\ counts' = Count("preFiltered")
  /\ UNCHANGED <<loaded, copy, hits>>
  /\ RestUnchanged

(* Mutation of MetadataMatch: an entry that is gone from disk is left out. *)
MetadataMatchLive(e) ==
  /\ Take(e)
  /\ ~PreFiltered(e.key) /\ ~filter.needle
  /\ hits' = IF stream[e.slot] = e.key
             THEN hits \cup {[key |-> e.key, body |-> e.key]} ELSE hits
  /\ UNCHANGED <<loaded, copy, counts>>
  /\ RestUnchanged

(* No needle: the captured entry is the result, with the body it has.      *)
MetadataMatch(e) ==
  /\ Take(e)
  /\ ~PreFiltered(e.key) /\ ~filter.needle
  /\ hits' = hits \cup {[key |-> e.key, body |-> e.key]}
  /\ UNCHANGED <<loaded, copy, counts>>
  /\ RestUnchanged

Wanted(e) == ~PreFiltered(e.key) /\ filter.needle

(* No body: the entry is counted nowhere.                                  *)
SkipBodiless(e) ==
  /\ Take(e)
  /\ Wanted(e) /\ e.key \in Bodiless
  /\ UNCHANGED <<loaded, copy, hits, counts>>
  /\ RestUnchanged

(* Mutation of LoadBodies: one file is enough.                             *)
LoadFirstOnly(f) ==
  IF loaded # {} THEN UNCHANGED <<loaded, copy>>
  ELSE /\ loaded' = loaded \cup {f}
       /\ copy' = [d \in Streams |-> IF FileOf[d] = f THEN stream[d] ELSE copy[d]]

(* getBF, or LoadFile for an external file.                                *)
LoadBodies(f) ==
  IF f \in loaded \ External THEN UNCHANGED <<loaded, copy>>
  ELSE /\ loaded' = loaded \cup {f}
       /\ copy' = [d \in Streams |-> IF FileOf[d] = f THEN stream[d] ELSE copy[d]]

(* The file is not there: counted nowhere either.                          *)
SkipUnreadable(e) ==
  /\ Take(e)
  /\ Wanted(e) /\ e.key \notin Bodiless
  /\ LoadBodies(FileOf[e.slot])
  /\ \/ FileOf[e.slot] \in Unreadable
     \/ FileOf[e.slot] \in External /\ copy'[e.slot] = Null
  /\ UNCHANGED <<hits, counts>>
  /\ RestUnchanged

(* Mutation of Tally: a body that does not decompress is a miss, unread.   *)
TallyUnread(text, found) ==
  [counts EXCEPT !["bodiesRead"] = IF text # "none" THEN @ + 1 ELSE @,
                 !["needleMiss"] = IF ~found THEN @ + 1 ELSE @]

(* A body that does not decompress was read, and is no miss.               *)
Tally(text, found) ==
  [counts EXCEPT !["bodiesRead"] = @ + 1,
                 !["needleMiss"] = IF text # "none" /\ ~found THEN @ + 1 ELSE @]

(* The body is read, decompressed and searched.                            *)
SearchBody(e) ==
  /\ Take(e)
  /\ Wanted(e) /\ e.key \notin Bodiless
  /\ LoadBodies(FileOf[e.slot])
  /\ FileOf[e.slot] \notin Unreadable
  /\ LET owner == copy'[e.slot]
     IN  /\ FileOf[e.slot] \in External => owner # Null
         /\ \E text \in Decompress(owner, e.key) \ {"hangs"} :
              \E found \in Finds(owner, e.key, text) :
                /\ counts' = Tally(text, found)
                /\ hits' = IF found THEN hits \cup {[key |-> e.key, body |-> owner]}
                           ELSE hits
  /\ RestUnchanged

Finish ==
  /\ at = "search" /\ todo = {}
  /\ at' = "done"
  /\ UNCHANGED <<cacheVars, filter, entries, todo, loaded, copy, hits, counts,
                 quiet>>

Reader ==
  \/ Capture
  \/ \E e \in todo : \/ PreFilter(e) \/ MetadataMatch(e) \/ SkipBodiless(e)
                     \/ SkipUnreadable(e) \/ SearchBody(e)
  \/ Finish

Next == Reader \/ Browser

Spec == Init /\ [][Next]_vars

-----------------------------------------------------------------------------
(* The properties.                                                         *)

Passing == {e \in entries : ~PreFiltered(e.key)}

(* What profile.h:344-347 asks of the filters: a header that is present    *)
(* will do when no value is given.                                         *)
Wants(k) ==
  /\ k \notin filter.rejects
  /\ filter.header = "present" => HeaderOf[k] # "absent"
  /\ filter.header = "value" => HeaderOf[k] = "match"

(* Where the header and the code disagree, nothing is claimed: a header    *)
(* that is present and empty (readers_cache.cpp:720), and brotli text for  *)
(* which there is no room (line 354 of profile.h, "0 = unlimited"; line    *)
(* 602 of readers_cache.cpp, "grow if needed").                            *)
EmptyHeader(k) ==
  k \notin filter.rejects /\ filter.header = "present" /\ HeaderOf[k] = "empty"

Settled(k) == ~EmptyHeader(k) /\ ~(Encoding[k] = "br" /\ NoRoom(k))

(* The entries asked for that have a body SearchCache can read and decode. *)
Searchable ==
  {e \in entries : /\ Wants(e.key)
                   /\ e.key \notin Bodiless
                   /\ FileOf[e.slot] \notin Unreadable
                   /\ \/ Encoding[e.key] = "identity"
                      \/ Encoding[e.key] \in {"gzip", "br"} /\ e.key \notin Damaged}

WithOwnBody(E) == {[key |-> e.key, body |-> e.key] : e \in {s \in E : Matches(s.key)}}

(* SearchCache with a needle, on a cache nobody has changed since the      *)
(* capture: the hits are the entries asked for whose own text, up to the   *)
(* cap, holds the needle, each with that text, and the others that could   *)
(* be decoded are the misses.  Exactly, but for the unsettled entries.     *)
QuietSearchIsExact ==
  at = "done" /\ quiet /\ filter.needle =>
    LET sure == {e \in Searchable : Settled(e.key)}
    IN  /\ WithOwnBody(sure) \subseteq hits
        /\ hits \subseteq WithOwnBody(Searchable)
        /\ Cardinality(hits) + counts["needleMiss"]
             \in Cardinality(sure) .. Cardinality(Searchable)

(* SearchCache without a needle: the hits are exactly the captured entries *)
(* asked for (entries with an empty header left open), whatever has become *)
(* of the cache, no entry is lost from the counters, and no file is read.  *)
MetadataSearchIsExact ==
  at = "done" /\ ~filter.needle =>
    /\ \A e \in entries :
         \/ EmptyHeader(e.key)
         \/ Wants(e.key) <=> \E h \in hits : h.key = e.key
    /\ counts["preFiltered"] + Cardinality(hits) = Cardinality(entries)
    /\ loaded = {}

(* CacheSearchResult's counters, whatever the browser does: an entry is    *)
(* counted in at most one place, and a body is searched before it is a hit *)
(* or a miss.                                                              *)
CountersAddUp ==
  at = "done" =>
    /\ counts["preFiltered"] + Cardinality(Passing) = Cardinality(entries)
    /\ filter.needle =>
         /\ Cardinality(hits) + counts["needleMiss"] <= counts["bodiesRead"]
         /\ counts["bodiesRead"] <= Cardinality(Passing)

(* profile.h: with a needle, "only entries whose decompressed body         *)
(* contains needle, with entry.body populated on each hit": the body that  *)
(* comes with an entry is that entry's.                                    *)
HitBodyIsOwn == \A h \in hits : h.body = h.key
=============================================================================
