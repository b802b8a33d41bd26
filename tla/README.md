# chromium_parser in TLA+

`chromium_parser` is a C++17 library that reads what a Chromium-family browser keeps in its
"User Data" directory: SQLite databases, a LevelDB store, an HTTP cache in block files and JSON
documents. The library itself has one thread and keeps no files. What makes it hard is that the
browser may be running: every store is read while another process locks it, commits to it,
checkpoints it, compacts it, deletes parts of it or dies in the middle of writing it. The library
answers with probes, copies, best-effort loops and diagnostics, and the question these modules ask
is what a caller may conclude from the result.

Paths below are relative to the repository; line numbers are those of the commit that was modelled.

## 1. Inventory

| Part | Source | State it keeps | Operations |
|---|---|---|---|
| locked store reader | `src/store_copy.cpp:28-73`, `src/internal.h:47-70` | position in the read, temporary directory, diagnostics | `ReadLockedStore(live, tryRead, copyStore)`, `MakeRandomTempDir`, `CaptureCtx::emit` |
| SQLite readers | `src/readers_sqlite.cpp` | a connection, the rows pushed so far, the files copied so far | `OpenSqliteRO`, `CopySqliteDb`, seven `QuerySqlite*`, six `Read*` |
| sync device reader | `src/readers_proto.cpp:69-160` | an open LevelDB, its LOCK, the copied files | `ReadSyncData`, `CopyLevelDbDir` |
| cache reader | `src/readers_cache.cpp:344-534` | index copy, block files loaded so far, bucket, address, counters | `ReadCache`, `ReadCacheDir` |
| cache search | `src/readers_cache.cpp:632-778` | captured entries, block files loaded so far, counters | `SearchCache` |
| body decompression | `src/readers_cache.cpp:575-630` | a zlib stream, the output | `Decompress`, `GzipDecompress`, `BrotliDecompress` |
| capture orchestrator | `src/capture.cpp:377-449` | the `Installation` being filled | `CaptureInstallation`, `ListUniqueUrls` |
| JSON readers | `src/capture.cpp:83-341` | - | `ReadLocalState`, `ReadPreferences`, `ReadSecurityPosture`, `ReadBookmarks`, `ReadNetworkState`, `ReadCredentialPresence` |
| address merge | `src/readers_sqlite.cpp:210-327` | addresses by guid | `FindOrCreate`, the three ingestions, the final drop |
| profile copy | `src/store_copy.cpp:77-139` | a directory iterator, counters | `CopyProfile` |
| system profile decoder | `src/readers_sysprofile.cpp` | a position in a message | `ReadVarint`, `SkipField`, `Find*`, `DecodeSystemProfile` |
| variations decoder | `src/readers_proto.cpp:30-67,93-106` | a zlib stream | `DecodeVariations`, `Gunzip`, `Base64Decode` |
| discovery | `src/discover.cpp` | - | `DiscoverInstalls` |
| exporters | `src/dump.cpp` | - | `DumpText`, `DumpJson`, `DumpCsv` |
| data types | `include/chromium_parser/profile.h` | the result of a capture | accessors |

**How they interact.** `CaptureInstallation` reads `Local State`, makes one `Profile` per entry of
`info_cache` and calls the readers of each profile one after the other. The SQLite readers and
`ReadSyncData` hand two callbacks to `ReadLockedStore`: `tryRead(path)`, which opens the store and
appends rows to the `Profile`, and `copyStore(live, tmp)`. All readers report through one
`CaptureCtx`, which buffers the diagnostic and then calls the user's `onDiagnostic`, which may throw.
`SearchCache` runs later, on a finished capture: it uses the addresses `ReadCacheDir` recorded to read
bodies from the cache as it is by then. The only party that runs concurrently is the browser; it is
seen through the file system and its locks alone.

**Hard behaviours.** Interleavings with the browser at every file operation; files of one store read at
different moments; locks that are probed and taken later; a browser that dies and leaves a WAL, a
hot journal or half a compaction; exceptions that cross `ReadLockedStore`; loops over data of
another program that have no bound of their own. `hazards` in `PROJECT.json` has the list, each at its
line, with the properties that cover it.

**What makes each part correct.**

- locked store reader: no row twice, no return that skips a store without a diagnostic, diagnostics that name the way
  the read took, no temporary directory left behind, an end.
- SQLite readers: rows that are not announced as a live copy are a state the browser committed while
  they were read; a quiet store is read completely, WAL included; nothing is lost silently.
- sync reader: the same for devices, and the user's store is intact afterwards, because `DB::Open` writes.
- cache reader: on a quiet cache exactly the HTTP entries, once; on a changing one nothing that
  was not there during the walk; an end.
- cache search: exactly the entries that pass; a hit's body is its own; counters that add up; an end.
- decompression: the text up to the limit, or nothing; an end.
- capture: without a usable `Local State` no result; a profile nobody writes to is captured as it lies there,
  whatever becomes of the others; an extension that moves between its two files is not lost; an end.
- address merge: one address a guid, no value of another one, first value wins, an address that is migrated
  between two SELECTs is not lost.
- profile copy: what the browser leaves alone arrives or is counted as failed, caches stay behind, the counters are
  those of the tree, `ok` means what it says.
- decoders: of whole input the exact answer, of torn input the same or nothing, of noise an end.

## 2. Modules

| Module | Models | Notes |
|---|---|---|
| `LockedStore` | `ReadLockedStore` | operations take the callbacks' answers as parameters; `LSSpec` leaves them open |
| `SqliteStore` | a `Read*` of `readers_sqlite.cpp` on `LockedStore`, and the browser's database | EXTENDS `LockedStore`, conjoins its operations with its own |
| `SnapshotRead` | abstract: what a SQLite reader promises | no locks, files or copies; `SqliteStore` implements it |
| `SyncStore` | `ReadSyncData` on `LockedStore`, and the browser's LevelDB | EXTENDS `LockedStore` |
| `CacheStore` | the block-file cache and the browser that changes it | the environment of the next two |
| `CacheWalk` | `ReadCacheDir` | EXTENDS `CacheStore` |
| `CacheSearch` | `SearchCache` | EXTENDS `CacheStore` |
| `Inflate` | `Decompress` | the loop that `CacheSearch` takes as one step |
| `Capture` | `CaptureInstallation`, the readers of `capture.cpp`, and the browser that rewrites documents | the readers of the other files are one step that may throw |
| `WebData` | `QuerySqliteWebData`, and the browser's commits between its statements | what `SqliteStore` calls the answers of the SELECTs |
| `CopyProfile` | `CopyProfile`, the recursive iterator and the browser that changes the tree | |
| `WireReader` | `ReadVarint`, `SkipField`, `Find*`, the descent of `DecodeSystemProfile` | over bytes |
| `SeedDecoder` | both `Base64Decode`, `Gunzip`, `DecodeVariations` | what the first leaves of a system profile goes to `WireReader` |
| `MCLibrary` | the six modules above, which share no state | a behaviour is one call of one of them |
| `MC*` | - | model values and functions of the TLC instances |
| `*Proofs` | - | the theorems of section 5 |

`SyncStore` and `Inflate` need no functions over model values, so TLC runs them directly where they run alone.

### LockedStore and its clients

`pc` is the position in `ReadLockedStore`; each action is one call with the branch that follows it.
`CheckExists`, `CheckWal`, `ReadLiveReturns`, `MakeTemp`, `CopyReturns`, `ReadCopyReturns` and
`Cleanup` are the helper's own steps in the order of the code. `Exceptions` says where a C++ exception
may come from; it leads to `thrown`, with whatever exists at that moment left as it is. `served` is a history
variable: the paths on which `tryRead` returned true. The result of the second `tryRead` is not looked at, so no property can say
that a copy announced as read was read; `LiveCopyWasRead` asks for it and is refuted.

`SqliteStore`: a database is a function from pages to the number of the commit that last wrote the page. It has a
main file, the frames of a WAL, a rollback journal, and `cur`, the database as committed. The browser opens,
writes in place (`BeginWrite`, `WritePage`, `Commit`) or to the WAL (`CommitWal`, `CheckpointPage`),
closes and crashes. The reader opens and probes in one step (`OpenSucceeds`, `OpenFails`), because
the probe is a transaction of its own; each SELECT is one step (`RunStmt`), because SQLite gives a
statement one snapshot; the connection is closed on each return of `tryRead` and stays open when an exception leaves it
(`ClosedOutside`); a copy takes the main file page by page and then the WAL (`CopyPage`,
`CopyMainEnds`, `CopySidecars`). `out` has what each SELECT pushed, as a sequence, so that pushing
twice shows. `window` and `quiet` are history: the databases committed since the read began, and whether
the browser has kept still.

What SQLite does is modelled from what the code relies on. `RoReplaysWal` is a parameter on
purpose: the comment at `src/readers_sqlite.cpp:55-57` says that a `?mode=ro` connection reads only
the main file; SQLite applies the WAL when it can. All runs have it TRUE; that
`UnflaggedRowsAreSnapshots` needs it is an assumption of the theorem.

`SyncStore`: a LevelDB directory is a function from file numbers to files: `CURRENT` names a
MANIFEST, which lists tables and the oldest log to replay. `Recovery` is what `DB::Open` writes. The
browser's flush and compaction are `BuildTable`, `Install`, `RemoveObsolete`, in that order and
interleaved with the copy. `OpenLive` is the reader's own `DB::Open` on the live store, with the files it
writes and deletes; its LOCK is given back however `tryRead` ends (`LockGivenBack`). A record is the number of the write that made it, and `DeviceWrites` those that
are devices.

### The cache

`CacheStore`: `heads` is the index table, `block` the entry blocks (key, state, next, data), `stream`
says whose data a data slot holds. Deleting an entry frees its slots but keeps their content; only an external
file goes away with its entry. `FileOf` says which file a slot lies in, `External` which files are
`f_XXXXXX` files.

`CacheWalk`: `table` is the index as read; `loaded`, `blockSnap` and `streamSnap` the data files as they were when
the walk first needed them (`Load` is `getBlockFile` and `readStream`). `VisitMissing`, `VisitOther` and
`VisitHttp` are the ways through the body of the `while` loop, `PushEntry` the reading of the headers (the copy of a small text body
at `readers_cache.cpp:486-502` is left out),
`Advance` the `addr = nextAddr` and the step of the `for` loop. `seen` and `still` are history.

`CacheSearch` takes the capture in one step and then one entry at a time: `PreFilter`,
`MetadataMatch`, `SkipBodiless`, `SkipUnreadable`, `SearchBody` are the exits of the loop body. The
order of the entries is left open. `Decompress` is what `Inflate` shows of a body, in one step: the text, noise, nothing, or no answer where
the loop of `GzipDecompress` does not come out. It depends on the encoding, on whether the bytes are damaged (`Damaged`) or were cut to the size
the capture knew (`Cut`), on the cap (`Long`, `Late`) and on the room of `BrotliDecompress` (`Dense`).

`Inflate`: sizes only. `Produced` is what zlib may answer to a call: output and a result.

### The capture and its readers

`Capture`: a document is `absent`, `torn` (does not parse) or `good`, with the items and the flag its readers take from it, and which of
the items are ill-typed, so that `value()` throws on them; an extension that is there already is passed by before its value is looked at
(`IllTyped`). `Readers` is what the six readers of
`capture.cpp` look at, in the order of `CaptureInstallation`; one line of it is two steps, `Look` for the `exists` and
`ReadUnparsed`, `ReadOdd`, `ReadDocument` or `MeasureStore` for what comes after, because the browser may replace the document in
between. A document is replaced as a whole, as the browser does it by renaming; `torn` covers a writer that does not. Of the
four security flags there is one: the four are set alike and independently. `quiet`, `gone` and
`odd` are history: the profiles left alone, the extensions that were in neither file at some moment (or came to Preferences after
it may have been read), the profiles that ever had an ill-typed value. `HasLocalState` does not change: the root belongs to the
browser as a whole, and no reader looks at it twice after `ReadLocalState`.

`WebData`: a row has a guid and one value a field; a table is a set of rows, since rows of equal `use_count` come in any order.
`SelectAddresses` takes the snapshot of a SELECT, `MergeRow` one turn of its loop, `EndOfRows` the way to the next table. The browser
rewrites an address, moves it to the table of a newer schema (`Migrate`), uploads a card, drops an engine.

`CopyProfile`: `stack` and `todo` are the recursive iterator, what each open directory has yet to give; an entry that comes or goes
while its directory is listed may or may not be seen. `TakeEntry`, `LeaveDir`, `EnterDir` and
`IterationFails` are the outcomes of `increment`. The loop body is `SkipCached`, `MakeDir`, `SkipOther`, or `Measure` and then
`CopyFails` or `CopySucceeds`: the file may change between `file_size` and `copy_file`. A link leads to a file or a directory
of the tree; `fs::relative` resolves it, so its target is what is written (`Rel`, `To`), and a linked directory is made but not entered.
`skip_existing` is found out before the source is opened, so a file that is there already is copied in name even if it cannot be read (`Spared`).

`WireReader` works on bytes, of `Group` + 1 bits instead of 8, so that messages of a few bytes reach every branch: varints of several
bytes, varints that do not fit, lengths past the end. `Sought` is what the caller gets of a payload: the decoded number of
`FindVarint`, or the bytes. `Written` is how a message comes into the file, and a torn one is a prefix; `WireFields` are
the fields it is made of, with their submessages. `Groups` puts the groups of a varint together, the last byte first.

`SeedDecoder`: a character is the number it stands for, the padding, or noise. `acc` is `unsigned` in one decoder and `int` in the
other; `Wrapped` gives both their width. The left shift of a negative or overflowing `int` is undefined in C++17; the builds
there are wrap. What comes out is stated over bits: `Digits` are the characters that count, and bytes are right when the digits carry
their bits (`Carries`). zlib is three kinds of stream and a size.

## 3. Runs

`tlc -config X.cfg M`; every run takes less than a minute, `library` about two.

| Run | Module | Question | Expected |
|---|---|---|---|
| `sqlite` | MCSqliteStore | either journal mode, with or without the exclusive lock, three SELECTs of which the database does not know the second, commits, checkpoints, crashes, I/O errors, exceptions: `TypeOK`, `RowsOnce`, `UnflaggedRowsAreSnapshots`, `QuietReadIsComplete`, `NoTempDirLeaks`, `DiagnosticsNameThePath`, `ReadEnds`, and the refinement `ImplementsSnapshotRead` | pass |
| `sqlite_probe_race` | MCSqliteStore | `NoSilentLoss` with a lock taken between probe and query | violation |
| `cache_walk` | MCCacheWalk | one readable block file, one that is not, an external file, two buckets: `TypeOK`, `QuietWalkIsExact`, `ReportedWasCached`, `WalkEnds` | pass |
| `cache_cycle` | MCCacheWalk | entry blocks in two files: `WalkEnds` | violation |
| `search` | MCCacheSearch | four filters, capped or not; four encodings, bodies that are whole, damaged or cut, that fit or not; unreadable and external files: `QuietSearchIsExact`, `MetadataSearchIsExact`, `CountersAddUp` | pass |
| `search_stale` | MCCacheSearch | a body slot given to another entry: `HitBodyIsOwn` | violation |
| `inflate_torn` | Inflate | a gzip body that ends too early: `TornBodyEnds` | violation |
| `sync_store` | SyncStore | LevelDB in place or copied: `TypeOK`, `StoreSurvives`, `InPlaceIsExact`, `QuietSyncIsComplete`, `SyncEnds` | pass |
| `sync_torn_copy` | SyncStore | files deleted between two `copy_file` calls: `LiveCopyWasRead` | violation |
| `library` | MCLibrary | captures: `QuietProfileIsExact`, `MovedExtensionIsKept`, `ThrowsForAReason`, `RootIsFound`; merges: `GuidsUnique`, `FieldsFromOwnRows`, `FirstValueStays`, `MigratedAddressIsKept`, `QuietMergeIsExact`; copies: `SteadyFilesArrive`, `CountersMatchTree`, `CachesStayBehind`; decoders: `FindIsExact`, `TurnsAreBounded`, `Base64IsExact`, `SeedIsAllOrNothing`, `DecompressIsExact`; all: `LibraryTypeOK`, `LibraryCallsEnd` | pass |
| `capture_best_effort` | MCCapture | one ill-typed value in a profile: `ProfilesAreBestEffort` | violation |
| `copy_cut_short` | MCCopyProfile | an error of the iterator: `OkMeansComplete` | violation |

**Bounds, and why they are enough.**

- `Pages` = 2: the smallest database that can be torn. `MaxCommits` = 2: one commit before or during the read and one more that
  restarts the WAL or overwrites half of the first. `NStmts` = 3 with the second unknown: locks and commits between the SELECTs of one
  connection, with and without rows.
- `MaxWrites` = 2 and `MaxFile` = 5 in `SyncStore`: a store is new or has two tables, so a compaction has something to
  merge, a flush something to write, and both can delete a file under the copy. A recovery takes up to three numbers.
  A behaviour is followed until the read has returned (`BrowserFrame`).
- `MaxChanges` in the cache runs: 4 changes are create, delete, create again in the freed block with
  different links, and one more; the cycle needs 5. Two buckets in `cache_walk`, one in `search`, whose capture
  does not depend on them.
- `Capture`: two profiles, one of them open in a browser that makes two changes: an extension needs one to move, and one to
  come back. Two items, so that one may be in both files and the other in one. The scenes have every form of every document, one
  or two at a time, an ill-typed extension beside a good one in Secure Preferences, read before from Preferences or not.
- `WebData`: two guids, three fields (one that makes an address useful, one that tokens have, one that they have not), two values, two
  commits: a migration and a change. `CopyProfile`: a directory with a file, a cache with one, a locked file, a link into the cache and one to the directory,
  all options, into an empty destination and into one that has some of the files; one change of the browser (a path has one `file_size` and one `copy_file`), and no limit on what the listing may fail at.
- `WireReader`: two levels of submessages with up to two fields, every prefix of every message, all noise of three bytes from a set that has every wire
  type. `SeedDecoder`: up to four bytes, so up to 24 bits through an accumulator of 16, each text with blanks, cut short at every
  place, and with more text behind the padding; streams of zero to two buffers and a part.
- The keys of `search`: plain, gzip, brotli and another encoding; bodies of two sizes, so that a slot used again can cut a body; text longer than
  the cap with the needle before or behind it; three of the six keys are in the cache at a time.
- `MaxPlain` = 12 with `BufSize` = 3 in `Inflate`: texts of zero to four output buffers, full or not.

`CHECK_DEADLOCK FALSE` in the cache, library and sync runs: the reader has returned and the browser has used up its changes (the
decoders have no browser). The SQLite runs check deadlock: the browser can always open or close.

**Fairness.** Weak fairness of the reader's steps and nothing else. The readers run in the caller's
thread, take no lock and set no busy timeout: a locked store is an answer, not a wait. The
steps of `SqliteStore` and `SyncStore` that are an exception (`Throw`) are outside the fair part, since nothing makes an
exception happen, and the browser is never obliged to do anything.

## 4. Where the code and its comments disagree

Seven runs end with a counterexample.

1. `sqlite_probe_race`. `OpenSqliteRO` finalizes its probe, which gives the shared lock back. If the browser takes
   its lock before the query's first step, that step answers `SQLITE_BUSY`, the loop ends, the reader returns
   true and nothing is reported: what the comment at `src/readers_sqlite.cpp:50-53` says the probe prevents.
2. `sync_torn_copy`. `src/store_copy.cpp:69` says "data read from a live copy" before the copy is read, and line 70
   does not look at the result. A MANIFEST or table deleted during the copy makes it unreadable.
3. `cache_cycle`. `src/readers_cache.cpp:416` follows links without a bound; block files loaded at
   different moments may link in a cycle.
4. `search_stale`. `src/readers_cache.cpp:748` reads a body at the address the capture kept; after a reuse of the
   slot the hit has the captured URL and another entry's body.
5. `inflate_torn`. `src/readers_cache.cpp:594` does not leave its loop on `Z_BUF_ERROR`, which is what zlib answers
   at the end of a truncated stream; the loop of `Gunzip` at `src/readers_proto.cpp:62` does.
6. `capture_best_effort`. `value()` throws a `type_error` when a key is there with another type, outside the `try`
   (`src/capture.cpp:178,189,238,310`): one extension with a string for its `state` loses the capture of all profiles, whose readers
   line 420 calls best-effort.
7. `copy_cut_short`. An error of `increment` makes the iterator the end iterator; `src/store_copy.cpp:102` leaves the loop before line 103 looks at
   the error, and `ok`, "true iff nothing failed" (`profile.h:528`), is true of a copy that stopped half-way.

Other disagreements were met while modelling, and have no run of their own because they refute the same property
or restate one line: a hot rollback journal passes the probe and reads as empty (`readers_sqlite.cpp:74`, also
`NoSilentLoss`); a SELECT of an unknown schema is skipped silently (`:94`); a WAL left by a crash is
announced as "browser is running" (`store_copy.cpp:57,69`); a profile directory with a trailing separator is not resolved (`capture.cpp:76`);
a directory with `Default` and no `Local State` is discovered (`discover.cpp:100`) but cannot be "handed straight to
CaptureInstallation()" (`discover.h:6-7`).

On five cases the code does one thing and a comment says another, and the passing properties about the same code take no side: they hold
whichever is meant, and claim nothing of these inputs.

| Case | The comment | The code | Left open by |
|---|---|---|---|
| a header that is there with an empty value | "just require header presence" (`profile.h:345-347`) | the entry is rejected (`readers_cache.cpp:720`) | `MetadataSearchIsExact`, `QuietSearchIsExact` (`EmptyHeader`) |
| brotli text longer than `maxBodyBytes`, or than the estimate taken for 0 | "0 = unlimited" (`profile.h:354`), "grow if needed" (`readers_cache.cpp:602`) | the body is empty (`:603-614`) | `DecompressIsExact`, `QuietSearchIsExact` (`Settled`) |
| an address with a street or a phone and nothing else | entries "with no useful fields" are dropped (`readers_sqlite.cpp:321`) | it is dropped (`:323-325`) | `QuietMergeIsExact` |
| a symbolic link | "skip symlinks / sockets / etc." (`store_copy.cpp:121`) | what it leads to is copied, and counted once more | `CountersMatchTree` (`L`) |
| a file that cannot be read and is in the destination, without `overwrite` | counted in `filesFailed` (`profile.h:538`) | counted in `filesCopied` | `CountersMatchTree` (`S`) |

## 5. What is proved

`tlapm M.tla` proves every obligation of the eight proof modules. `CaptureProofs` is about `Capture`, `WebData` and
`CopyProfile`; `DecoderProofs` about `WireReader`, `SeedDecoder` and `Inflate`; `CacheStoreProofs` has the lemmas about the browser's cache
that the proofs of the walk and of the search share.

| Theorem | Says, for every value of the constants |
|---|---|
| `LockedStoreProofs!LockedStoreInvariant`, `LockedStoreSafety`, `LockedStoreDiagnostics` | with any callbacks, `LSSpec` keeps `NoTempDirLeaks`, `ServedOnce`, and `DiagnosticsNameThePath`: a return without a word is a read in place, a reported failure an unread store, rows of a copy are announced |
| `SqliteStoreProofs!SqliteImplementsLockedStore` | a SQLite reader is a client of `LSSpec`, so the above holds of it |
| `SqliteStoreProofs!SqliteTypeOK`, `SqliteRowsOnce` | `TypeOK` of the reader and of the database under it; `RowsOnce` |
| `SqliteStoreProofs!SqliteSnapshots` | `UnflaggedRowsAreSnapshots`, if `RoReplaysWal` |
| `SqliteStoreProofs!SqliteQuietReads` | `QuietReadIsComplete`, if `RoReplaysWal` |
| `SqliteStoreProofs!SqliteImplementsSnapshotRead` | the reader implements `SnapshotRead`, if `RoReplaysWal` |
| `SyncStoreProofs!SyncImplementsLockedStore` | `ReadSyncData` is a client of `LSSpec` |
| `SyncStoreProofs!SyncDevicesOnce` | devices are pushed at most once, and exactly once if a `tryRead` succeeded |
| `SyncStoreProofs!SyncTypeOK`, `SyncStoreSurvives` | `TypeOK`, `StoreSurvives` |
| `SyncStoreProofs!SyncInPlaceIsExact`, `QuietSync` | `InPlaceIsExact`, `QuietSyncIsComplete` |
| `CacheWalkProofs!CacheWalkTypeOK`, `QuietWalksAreExact` | `TypeOK` of the walk and of the cache under it; `QuietWalkIsExact` |
| `CacheWalkProofs!CacheReportedWasCached` | `ReportedWasCached`, if the readable entry blocks lie in one block file |
| `CacheSearchProofs!SearchTypeOK`, `SearchCountersAddUp` | `TypeOK`, `CountersAddUp` |
| `CacheSearchProofs!MetadataSearchesAreExact`, `QuietSearchesAreExact` | `MetadataSearchIsExact`, `QuietSearchIsExact` |
| `CaptureProofs!CaptureTypes`, `RootsAreFound`, `ThrowsOnlyForAReason` | `CaptureTypeOK`, `RootIsFound`, `ThrowsForAReason` |
| `CaptureProofs!MovedExtensionsAreKept`, `QuietProfilesAreExact` | `MovedExtensionIsKept`, `QuietProfileIsExact` |
| `CaptureProofs!WebDataTypeOK`, `GuidsAreUnique`, `FieldsAreOwn`, `ValuesStay` | `WebTypeOK`, `GuidsUnique`, `FieldsFromOwnRows`, `FirstValueStays` |
| `CaptureProofs!MigratedAddressesAreKept`, `QuietMergesAreExact` | `MigratedAddressIsKept`, `QuietMergeIsExact` |
| `CaptureProofs!CopyTypes`, `CachesStay` | `CopyTypeOK`, `CachesStayBehind` |
| `CaptureProofs!SteadyFilesDoArrive`, `CountersDoMatch` | `SteadyFilesArrive`, `CountersMatchTree` |
| `DecoderProofs!WireTypes`, `TurnsAreFew`, `FindsAreExact` | `WireTypeOK`, `TurnsAreBounded`, `FindIsExact` |
| `DecoderProofs!SeedTypes`, `Base64Decodes`, `SeedAllOrNothing` | `SeedTypeOK`, `Base64IsExact`, `SeedIsAllOrNothing` |
| `DecoderProofs!EncodedDecodes` | `EncodedComesBack`: the text of some bytes is decoded to these bytes |
| `DecoderProofs!InflateIsExact` | `TypeOK`, `DecompressIsExact` of `Inflate` |

Assumptions: the `ASSUME`s of the modules, which give the constants their types and say what the trees of `CopyProfile` and the
messages of `WireReader` are, and the two conditions named in the table, which are hypotheses of their theorems. Both are needed:
without the first an in-place read misses a commit in the WAL; without the second a link in the file loaded later can lead
to a block that was free when the other file was loaded, whose copy still shows an entry deleted long before. TLC finds both
when the condition is dropped (the second needs three entry blocks, three keys and six changes). `WebData` assumes that the
street, which the database of an older version has no column for, is not one of the fields that make an address useful, as in the code.
`SeedAssumption` says of the powers 2^`AccBits` and 2^(`AccBits` - 1) that they are positive, one the double of the other, and the larger a multiple
of 2^12, which the provers cannot compute; TLC evaluates it on the instance.

**The arguments.**

- `LockedStore`. Whether a finished read was diagnosed depends on the place it came from. `LSInv` adds
  `ServedByPlace` and `SaidByPlace`: what may have been served, and what may or must have been said, at each place. That a store
  announced as read from a copy was read is neither proved nor true (finding 2).
- `SqliteStore`. `DbInv`: without a journal, the WAL over the main file is the committed database; a journal exists only
  inside a rollback transaction or after a crash in one; and `cur` is always in `window`. `RowInv`: a statement that
  is still to be run has pushed nothing, so a `tryRead` that answered false has pushed nothing at all, which gives
  `RowsOnce`. `SnapshotStep` carries the snapshot property: a statement that answers in place runs while there is no
  lock and no hot journal, so by `DbInv` what it pushes is `cur`; `window` only grows; and a read of the copy comes
  after the "live copy" message (`LSInv`). *Quiet reads*: `StillInv` says that while nothing has changed what was copied agrees with the
  files and that a store which let the reader in is not locked; `AnsweredInv`, that every statement so far has then answered with `cur`.
  *The refinement*: a SELECT that pushes rows maps to `Answer`, a diagnostic to
  `Report`, the browser's commits to `Change`; looking, probing and copying stutter. What an abstract read may answer comes from `SnapshotStep`. It may
  end with a statement unanswered only if that was reported or the owner can lock the database between two statements: `UnlockedInv`.
- `SyncStore`. `ReportsByPlace`: the number of reports is the number of places that were served, and `LSInv` says that is one at most.
  `StoreInv` is about the directory: `StoreOK`, that the tables of the MANIFEST which CURRENT names and the logs from its `ref` on hold
  `1 .. written`, is not inductive; `OpeningInv` and `EditInv` say the same of the MANIFEST that
  is written but not named yet, and of the one that is not written yet. An obsolete file is one none of the two needs. `ReadInv`
  relates reader and directory: a read in place is the last step of the read and reports `Committed` (`LiveInv`), and while only
  the read goes on the copy is a part of the directory that grows to the whole of it (`QuietCopyInv`).
- The cache. `ChainInv` gives the entries a rank along the links of live entries, so that an unlinked block is never linked to again;
  `OwnerInv`: a key has one entry, a data slot one owner, whose data it has; `OrderInv`: the used blocks of a bucket are one chain.
- `CacheWalk`. The walk follows links of a copy taken after `table` was. When the index is read, every link of a live entry leads to a
  live entry. `ReachInv`: from then on there is a set of blocks, those live at some moment since, that neither `table`
  nor any of their links leaves, on disk until the file with the entries is loaded, and in the copy of it afterwards.
  A block that joins the set later, in a file that was loaded before, would break it: hence one file. In a quiet walk no file matters:
  by `OrderInv` the place the walk stands on divides the used blocks into those behind it (`Past`) and those ahead, and
  `Counted` says that those behind have been pushed once, or why not.
- `CacheSearch`. `CountInv` counts what lies behind: the rejected are `preFiltered`, hits and misses are at most the others. `QuietInv`: as
  long as the cache is that of the capture, the data files loaded agree with it, so that a hit is an entry with its own body.
- `Capture`. An extension that has moved is in the second file by the time the first has been read, and that is what the invariant says
  place by place: `AfterFirst`, once Preferences has been read, an extension not in `gone` was found or lies in Secure Preferences; `AfterSecond`,
  once both have been read, it was found. `Once`: `Ingest` passes by what is there. `History` ties `gone` and `odd` to the directories.
  `AsFarAsRead`: of a profile nobody writes to the record is at each line of `Readers` what the lines before make of its directory.
  `Resolved`: the root stays what `ResolveUserDataRoot` made of the input.
- `WebData`. `GuidsUnique` is what makes the CHOOSE of `FindOrCreate` the address itself, and is needed for the others: every row that is
  open has values that were once in a table (`rows` inside `ever`), and `Fill` adds none. `ReadOrAhead`: a migration moves rows to the
  statements to come, so a useful row was read or is still ahead. `QuietMerge`: each field of an address is that of the first table seen
  so far that has one, and every guid seen has its address.
- `CopyProfile`. What has been written under a cache name was there before: directories are made above a path that is not
  pruned, and by `CopyAssumption` what lies above it is then not in a cache either. `Reachable`: unless the iteration failed, a file that is owed has been
  reached or the iterator has yet to give a path above it. `CountInv`: in a tree at rest no path to be given lies above another (`Apart`), so
  each step passes exactly what it counts, and `Counts` states the counters as the size of what has been passed; the bytes are the
  size of a set with one element per byte.
- `WireReader`. A tag takes a byte, and a payload ends inside its message: the position grows with every turn but the last, through submessages
  too. That what was written is bytes at all needs induction along the recursive functions `Varint`, `WrittenUpTo` and `Groups`. The library's
  induction theorems cannot be used here (below), but a set of numbers without a smallest element is empty because `<` is
  well-founded on Nat; `Induct` and `StrongInduct` state this for sets, and `HornerExists`, `VarintExists`, `UpExists`, `LevelExists` give
  each recursive function its equation. `FindIsExact`: `ValueIs` reads back what `Varint` wrote, and by `TurnReads` a turn that begins with a field
  takes exactly this field, or finds none when it is torn. `FindInv` then places the reader: in the d-th of the messages on the
  path, behind k of its fields, none of which is the wanted one (`Looking`). Only the outermost message can be torn; one
  that the reader has gone down into lies there as a whole, because its length was checked.
- `SeedDecoder`. `Held` relates the digits read so far to the bytes, `acc` and `bits`: the bytes carry the first bits of the digits, and the lowest
  `bits` + 8 bits of `acc` are the rest of them, six at most. The accumulator is never cleared, so above these bits lies
  what earlier characters left, and the width cuts it off somewhere; but 64 * `acc` + c modulo 2^`AccBits`, with a sign or without, differs from the
  number itself by a multiple of 2^12, so that the twelve bits in use are right (`PendingBits`). `TextInv` is `Held` for the characters in front of `pos`, none of which
  is padding for the system profile; `OutcomeInv` says what has come out once the text ends, and of `inflated` and `present` after that.
  `EncodedDecodes` adds that `Encoded` writes the bits of its bytes and no whole byte more (`EncodedCarries`), and that bytes with the same bits are the same.
- `Inflate`. In the loop, `out = fed` and the limit has not been reached; a call that ends
  the stream has produced the whole text.

The proofs are about what TLA+ says, not what TLC does: CASE takes any arm that holds where TLC takes the first, so tests that the code makes one
after the other are IF expressions in the modules where they overlap.

**Model-checked only.** Liveness (`ReadEnds`, `SyncEnds`, `WalkEnds`, `LibraryCallsEnd`) is beyond the
prover. Induction theorems with an operator parameter cannot be instantiated by the installed provers, and what a recursive function computes
needs the detour above, which `WireReader` and `SeedDecoder` took.
`LibraryTypeOK` is the conjunction of the types of six components, for the run that composes them; each is proved of its own specification (`CaptureTypes`,
`WebDataTypeOK`, `CopyTypes`, `WireTypes`, `SeedTypes`, `InflateIsExact`), their conjunction under the next-state relation of the run is not.
Of the search no run says that it ends: its loop goes through a finite list, and a body on which `GzipDecompress` does not come out
(finding 5) stops it for good.

## 6. What is not modelled, and the plan

Not modelled: the exporters (`dump.cpp` formats a finished capture, which it only reads), the data types, the generated protobuf code,
the examples and the build; discovery (a fixed table of directories, each tested once: a model would restate the table); `GuessBrand`,
which looks for names anywhere in the path, that of the user included. A copy into a directory below the source, which is listed while it is written, is
outside `CopyProfile`: the destination is a tree of its own. Left out inside modelled parts: the columns and filters of the SELECTs,
the fields of a record, the bytes of cache addresses and headers. SQLite, LevelDB, zlib, brotli, the file system and the browser are external; their definitions
are marked so in the `map`.

What is left, the behaviour that matters most first:

1. The byte level of the cache: addresses, keys longer than their block, pickled headers, as a part of `library`.
2. A destination below the source in `CopyProfile`.
3. Discovery composed with `Capture`: which of the directories it names can be captured.
