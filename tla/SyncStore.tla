------------------------------ MODULE SyncStore ------------------------------
(***************************************************************************)
(* ReadSyncData (readers_proto.cpp) on top of ReadLockedStore: the LevelDB *)
(* store of the synced devices, read in place when nobody holds its LOCK,  *)
(* and otherwise from a copy made file by file while the browser goes on   *)
(* appending to its log, flushing it, compacting and deleting files.       *)
(*                                                                         *)
(* LevelDB and the browser are not part of the repository.  A store is its *)
(* directory: numbered files, CURRENT that names the MANIFEST, a MANIFEST  *)
(* that lists the tables and the oldest log to replay.  A record is the    *)
(* number of the write that made it.                                       *)
(***************************************************************************)
EXTENDS LockedStore, Naturals, Sequences, FiniteSets

CONSTANTS
  DeviceWrites,   \* the writes whose records are devices
  MaxWrites,      \* bound on the writes of a behaviour
  MaxFile,        \* bound on the file numbers the browser uses
  Unreadable,     \* the kinds of files on which copy_file may fail
  OpenMayFail     \* DB::Open may fail on a store that is in order

ASSUME SyncAssumption ==
  /\ MaxWrites \in Nat \ (0 .. 1)
  /\ MaxFile \in Nat \ (0 .. 3)
  /\ DeviceWrites \subseteq 1 .. MaxWrites
  /\ Unreadable \subseteq {"current", "manifest", "table", "log"}
  /\ OpenMayFail \in BOOLEAN

VARIABLES
  present,   \* the directory exists
  files,     \* what is in it
  next,      \* the next file number
  holder,    \* who has the store open, and so its LOCK
  phase,     \* the browser: "closed", "opening" or "open"
  edit,      \* what the browser will write in the MANIFEST, or NoFile
  written    \* the number of writes so far

VARIABLES
  pending,   \* the files directory_iterator found and has yet to give
  copy,      \* what is in the temporary directory
  failed,    \* the files copy_file could not read
  reports,   \* the devices pushed by each iteration of the store
  began,     \* history: the writes made before the read began
  quiet      \* history: the browser took no step since the read began

storeVars  == <<present, files, next, holder, phase, edit, written>>
copyVars   == <<pending, copy, failed>>
seenVars   == <<began, quiet>>
vars == <<lsVars, storeVars, copyVars, reports, seenVars>>

-----------------------------------------------------------------------------
(* Files and directories.  "ref" is the MANIFEST that CURRENT names, and   *)
(* the oldest log that a MANIFEST wants to be replayed.                    *)

CURRENT == 0

Numbers == 0 .. MaxFile + 7
Writes  == 1 .. MaxWrites

File == [kind: {"current", "manifest", "table", "log"}, ref: Numbers,
         tables: SUBSET Numbers, writes: SUBSET Writes]

Current(m)     == [kind |-> "current", ref |-> m, tables |-> {}, writes |-> {}]
Manifest(T, l) == [kind |-> "manifest", ref |-> l, tables |-> T, writes |-> {}]
Table(W)       == [kind |-> "table", ref |-> 0, tables |-> {}, writes |-> W]
Log(W)         == [kind |-> "log", ref |-> 0, tables |-> {}, writes |-> W]
NoFile         == Table({})

IsDirectory(dir) == DOMAIN dir \subseteq Numbers /\ dir \in [DOMAIN dir -> File]

With(dir, n, file) ==
  [f \in DOMAIN dir \cup {n} |-> IF f = n THEN file ELSE dir[f]]

Keep(dir, F) == [f \in DOMAIN dir \cap F |-> dir[f]]

(* The MANIFEST is there and so is every table it lists: anything else is  *)
(* a corruption to DB::Open.  A log that is gone is not missed.            *)
Openable(dir) ==
  /\ CURRENT \in DOMAIN dir
  /\ dir[CURRENT].ref \in DOMAIN dir
  /\ dir[dir[CURRENT].ref].tables \subseteq DOMAIN dir

Installed(dir) == dir[dir[CURRENT].ref]

Replayed(dir) ==
  {f \in DOMAIN dir : dir[f].kind = "log" /\ f >= Installed(dir).ref}

Contents(dir, F) == UNION {dir[f].writes : f \in F}

(* What an iterator over the opened store gives.                           *)
Records(dir) == Contents(dir, Installed(dir).tables \cup Replayed(dir))

NewestLog == CHOOSE f \in Replayed(files) : \A g \in Replayed(files) : g <= f

NewestManifest ==
  CHOOSE f \in DOMAIN files : /\ files[f].kind = "manifest"
                              /\ \A g \in DOMAIN files :
                                    files[g].kind = "manifest" => g <= f

(* DB::Open: the logs are replayed into a table, and a new MANIFEST lists  *)
(* it next to a new, empty log.                                            *)
Recovery(dir, n) ==
  LET replay == Contents(dir, Replayed(dir))
      tables == Installed(dir).tables
      logged == With(dir, n, Log({}))
  IN  IF replay = {} THEN With(logged, n + 1, Manifest(tables, n))
      ELSE With(With(logged, n + 1, Manifest(tables \cup {n + 2}, n)),
                n + 2, Table(replay))

Needed(dir) ==
  {CURRENT, dir[CURRENT].ref} \cup Installed(dir).tables \cup Replayed(dir)

-----------------------------------------------------------------------------
(* The reader gives the LOCK back on every way out of tryRead.             *)
LockGivenBack == holder = "reader" => pc = "readLive"

TypeOK ==
  /\ LSTypeOK
  /\ LockGivenBack
  /\ present \in BOOLEAN
  /\ IsDirectory(files)
  /\ next \in Numbers
  /\ holder \in {"none", "browser", "reader"}
  /\ phase \in {"closed", "opening", "open"}
  /\ edit \in File
  /\ written \in 0 .. MaxWrites
  /\ pending \subseteq Numbers
  /\ IsDirectory(copy)
  /\ failed \subseteq Numbers
  /\ reports \in Seq(SUBSET DeviceWrites)
  /\ began \in 0 .. MaxWrites
  /\ quiet \in BOOLEAN

(* A new store, or one of which two records are in tables.                 *)
NewStore == [f \in {CURRENT, 1, 2} |-> CASE f = CURRENT -> Current(1)
                                         [] f = 1 -> Manifest({}, 2)
                                         [] f = 2 -> Log({})]

UsedStore ==
  With(With(With(NewStore, 1, Manifest({3, 4}, 2)), 3, Table({1})), 4, Table({2}))

Init ==
  /\ LSInit
  /\ phase \in {"closed", "open"}
  /\ holder = IF phase = "open" THEN "browser" ELSE "none"
  /\ written \in {0, 2}
  /\ files = IF written = 0 THEN NewStore ELSE UsedStore
  /\ present \in BOOLEAN
  /\ phase = "open" \/ written = 2 => present
  /\ next = IF written = 0 THEN 3 ELSE 5
  /\ edit = NoFile
  /\ pending = {}
  /\ copy = [f \in {} |-> NoFile]
  /\ failed = {}
  /\ reports = <<>>
  /\ began = 0
  /\ quiet = TRUE

-----------------------------------------------------------------------------
(* The browser.                                                            *)

(* A behaviour is followed until the read has returned.                    *)
BrowserFrame ==
  /\ pc \notin Ended
  /\ began' = IF pc = "exists" THEN written' ELSE began
  /\ quiet' = (quiet /\ pc = "exists")
  /\ UNCHANGED <<lsVars, copyVars, reports>>

(* The browser opens the store, which fails while the reader has it open.  *)
(* Its recovery is visible to a copy file by file until CURRENT is renamed.*)
OpenBrowser ==
  /\ phase = "closed"
  /\ holder = "none"
  /\ next < MaxFile
  /\ phase' = "opening"
  /\ holder' = "browser"
  /\ present' = TRUE
  /\ files' = Recovery(files, next)
  /\ next' = next + (IF Contents(files, Replayed(files)) = {} THEN 2 ELSE 3)
  /\ UNCHANGED <<edit, written>>
  /\ BrowserFrame

SetCurrent ==
  /\ phase = "opening"
  /\ phase' = "open"
  /\ files' = With(files, CURRENT, Current(NewestManifest))
  /\ UNCHANGED <<present, next, holder, edit, written>>
  /\ BrowserFrame

Put ==
  /\ phase = "open"
  /\ written < MaxWrites
  /\ written' = written + 1
  /\ files' = With(files, NewestLog, Log(files[NewestLog].writes \cup {written'}))
  /\ UNCHANGED <<present, next, holder, phase, edit>>
  /\ BrowserFrame

(* The log is full: writes go to a new one.                                *)
RollLog ==
  /\ phase = "open"
  /\ Cardinality(Replayed(files)) = 1
  /\ files[NewestLog].writes # {}
  /\ next <= MaxFile
  /\ files' = With(files, next, Log({}))
  /\ next' = next + 1
  /\ UNCHANGED <<present, holder, phase, edit, written>>
  /\ BrowserFrame

(* A table is built from the logs but the newest, or from all the tables.  *)
BuildTable ==
  /\ phase = "open"
  /\ edit = NoFile
  /\ next <= MaxFile
  /\ LET old == Replayed(files) \ {NewestLog}
         tables == Installed(files).tables
     IN  \/ /\ old # {}
            /\ files' = With(files, next, Table(Contents(files, old)))
            /\ edit' = Manifest(tables \cup {next}, NewestLog)
         \/ /\ Cardinality(tables) > 1
            /\ files' = With(files, next, Table(Contents(files, tables)))
            /\ edit' = Manifest({next}, Installed(files).ref)
  /\ next' = next + 1
  /\ UNCHANGED <<present, holder, phase, written>>
  /\ BrowserFrame

Install ==
  /\ phase = "open"
  /\ edit # NoFile
  /\ files' = With(files, files[CURRENT].ref, edit)
  /\ edit' = NoFile
  /\ UNCHANGED <<present, next, holder, phase, written>>
  /\ BrowserFrame

(* The files that are neither listed nor being built are deleted.  A copy  *)
(* may have taken any of them before, so one step for all loses nothing.   *)
RemoveObsolete ==
  /\ phase = "open"
  /\ files' = Keep(files, Needed(files) \cup edit.tables)
  /\ files' # files
  /\ UNCHANGED <<present, next, holder, phase, edit, written>>
  /\ BrowserFrame

(* The browser closes the store or dies: its files stay as they are.       *)
StopBrowser ==
  /\ phase # "closed"
  /\ phase' = "closed"
  /\ holder' = "none"
  /\ edit' = NoFile
  /\ UNCHANGED <<present, files, next, written>>
  /\ BrowserFrame

-----------------------------------------------------------------------------
(* The reader.                                                             *)

(* exists, the "-wal" file that a directory never has, remove_all.         *)
Look ==
  /\ \/ CheckExists(present)
     \/ CheckWal(FALSE)
     \/ Cleanup
  /\ UNCHANGED <<storeVars, copyVars, reports, seenVars>>

(* The temporary directory, and the opening of the directory to be copied. *)
BeginCopy ==
  /\ MakeTemp
  /\ pending' = IF pc' = "copy" THEN DOMAIN files ELSE {}
  /\ UNCHANGED <<storeVars, copy, failed, reports, seenVars>>

(* Mutation of OpenLive: the LOCK is not looked at.                        *)
OpenLiveUnlocked ==
  /\ pc = "readLive"
  /\ holder # "reader"
  /\ holder' = "reader"
  /\ LET opened == With(Recovery(files, next), CURRENT, Current(next + 1))
     IN  files' = Keep(opened, Needed(opened))
  /\ next' = next + (IF Contents(files, Replayed(files)) = {} THEN 2 ELSE 3)
  /\ UNCHANGED <<lsVars, present, phase, edit, written>>
  /\ UNCHANGED <<copyVars, reports, seenVars>>

(* DB::Open on the live store takes its LOCK and recovers it, which writes *)
(* to the profile; nobody else can look at it meanwhile.                   *)
OpenLive ==
  /\ pc = "readLive"
  /\ holder = "none"
  /\ holder' = "reader"
  /\ LET opened == With(Recovery(files, next), CURRENT, Current(next + 1))
     IN  files' = Keep(opened, Needed(opened))
  /\ next' = next + (IF Contents(files, Replayed(files)) = {} THEN 2 ELSE 3)
  /\ UNCHANGED <<lsVars, present, phase, edit, written>>
  /\ UNCHANGED <<copyVars, reports, seenVars>>

OpenLiveFails ==
  /\ holder = "browser" \/ (OpenMayFail /\ holder = "none")
  /\ ReadLiveReturns(FALSE)
  /\ UNCHANGED <<storeVars, copyVars, reports, seenVars>>

Devices(dir) == Records(dir) \cap DeviceWrites

IterateLive ==
  /\ holder = "reader"
  /\ ReadLiveReturns(TRUE)
  /\ reports' = Append(reports, Devices(files))
  /\ holder' = "none"
  /\ UNCHANGED <<present, files, next, phase, edit, written>>
  /\ UNCHANGED <<copyVars, seenVars>>

(* Mutation of CopyFile: the log in use is passed over.                    *)
CopyFileButLog ==
  /\ pc = "copy"
  /\ \E f \in DOMAIN files \ (DOMAIN copy \cup failed) :
        /\ pending' = pending \ {f}
        /\ \/ /\ files[f].kind # "log"
              /\ copy' = With(copy, f, files[f])
              /\ UNCHANGED failed
           \/ /\ files[f].kind = "log"
              /\ f \in pending
              /\ UNCHANGED <<copy, failed>>
  /\ UNCHANGED <<lsVars, storeVars, reports, seenVars>>

(* copy_file on one directory entry, in any order.  A file that was made   *)
(* after the directory was opened may be given or not; one that is gone,   *)
(* or cannot be read, is passed over.                                      *)
CopyFile ==
  /\ pc = "copy"
  /\ \E f \in DOMAIN files \ (DOMAIN copy \cup failed) :
        /\ pending' = pending \ {f}
        /\ \/ /\ copy' = With(copy, f, files[f])
              /\ UNCHANGED failed
           \/ /\ files[f].kind \in Unreadable
              /\ failed' = failed \cup {f}
              /\ UNCHANGED copy
  /\ UNCHANGED <<lsVars, storeVars, reports, seenVars>>

EndCopy ==
  /\ pending \cap DOMAIN files = {}
  /\ CopyReturns(DOMAIN copy # {})
  /\ pending' = {}
  /\ UNCHANGED <<storeVars, copy, failed, reports, seenVars>>

OpenCopy ==
  /\ Openable(copy)
  /\ ReadCopyReturns(TRUE)
  /\ reports' = Append(reports, Devices(copy))
  /\ UNCHANGED <<storeVars, copyVars, seenVars>>

OpenCopyFails ==
  /\ ~Openable(copy) \/ OpenMayFail
  /\ ReadCopyReturns(FALSE)
  /\ UNCHANGED <<storeVars, copyVars, reports, seenVars>>

(* Mutation of Throw: the store is held by a plain pointer.                *)
ThrowUnclosed ==
  /\ ClientThrows
  /\ UNCHANGED <<storeVars, copyVars, reports, seenVars>>

(* An exception closes the store on its way up: a unique_ptr holds it.     *)
Throw ==
  /\ ClientThrows
  /\ holder' = IF holder = "reader" THEN "none" ELSE holder
  /\ UNCHANGED <<present, files, next, phase, edit, written>>
  /\ UNCHANGED <<copyVars, reports, seenVars>>

Browser ==
  \/ OpenBrowser \/ SetCurrent \/ Put \/ RollLog
  \/ BuildTable \/ Install \/ RemoveObsolete \/ StopBrowser

Step ==
  \/ Look \/ OpenLive \/ OpenLiveFails \/ IterateLive
  \/ BeginCopy \/ CopyFile \/ EndCopy \/ OpenCopy \/ OpenCopyFails

Reader == Step \/ Throw

Next == Browser \/ Reader

(* ReadSyncData runs in one thread and waits for nobody; nothing makes an  *)
(* exception happen.                                                       *)
Spec == Init /\ [][Next]_vars /\ WF_vars(Step)

-----------------------------------------------------------------------------
Committed == DeviceWrites \cap 1 .. written

(* Whoever opens, flushes, dies or reads, the store on disk holds every    *)
(* write and can be opened: DB::Open of ReadSyncData rewrites a profile    *)
(* that is not its own, and only the LOCK keeps it from a running browser. *)
StoreSurvives == Openable(files) /\ Records(files) = 1 .. written

(* A read that was not announced as a live copy has every device that was  *)
(* there when it began, none twice.                                        *)
InPlaceIsExact ==
  pc = "done" /\ served # {} /\ "liveCopy" \notin diags =>
    /\ Len(reports) = 1
    /\ DeviceWrites \cap 1 .. began \subseteq reports[1]
    /\ reports[1] \subseteq Committed

(* While the browser only has the store open, and every file can be read,  *)
(* the copy made file by file loses nothing, not even the devices that are *)
(* in the log alone (readers_proto.cpp:69-73): it is complete or, after an *)
(* I/O error, not read at all.                                             *)
QuietSyncIsComplete ==
  pc = "done" /\ quiet /\ failed = {} =>
    \/ reports = <<Committed>>
    \/ reports = <<>> /\ (OpenMayFail \/ "noTempDir" \in diags)

(* ReadSyncData returns whatever the browser does in the meantime.         *)
SyncEnds == <>(pc \in Ended)
=============================================================================
