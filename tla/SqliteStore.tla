----------------------------- MODULE SqliteStore -----------------------------
(***************************************************************************)
(* One SQLite reader (readers_sqlite.cpp) on top of ReadLockedStore, run   *)
(* while the browser that owns the database may be starting, committing,   *)
(* checkpointing, closing or crashing.                                     *)
(*                                                                         *)
(* A database is its pages, and the content of a page is the number of the *)
(* commit that last wrote it.  The browser and SQLite are not part of the  *)
(* repository; they are modelled from what the readers rely on: file       *)
(* locks, the "-wal" file, the rollback journal and what "?mode=ro" sees.  *)
(***************************************************************************)
EXTENDS LockedStore, Naturals, Sequences, FiniteSets

CONSTANTS
  Pages,          \* the pages of the database
  NStmts,         \* how many SELECTs the reader runs on one connection
  KnownStmts,     \* those whose tables and columns exist in this database
  ReportsEmpty,   \* ReadWebData: a diagnostic when no statement gave a row
  JournalModes,   \* the journal modes considered: "wal", "rollback"
  LockingModes,   \* the locking modes considered: "normal", "exclusive"
  RoReplaysWal,   \* a "?mode=ro" connection applies the frames of a WAL
  Checkpoints,    \* the browser may checkpoint its WAL
  IoMayFail,      \* sqlite3_open_v2 and copy_file may fail
  MaxCommits      \* bound on the commits of a behaviour

ASSUME SqliteAssumption ==
  /\ NStmts \in Nat \ {0}
  /\ KnownStmts \subseteq 1 .. NStmts
  /\ ReportsEmpty \in BOOLEAN
  /\ JournalModes \subseteq {"wal", "rollback"}
  /\ LockingModes \subseteq {"normal", "exclusive"}
  /\ RoReplaysWal \in BOOLEAN
  /\ Checkpoints \in BOOLEAN
  /\ IoMayFail \in BOOLEAN
  /\ MaxCommits \in Nat

VARIABLES
  journalMode, lockingMode,   \* the PRAGMAs of the browser, fixed for a database
  present,   \* the database file exists
  browser,   \* "closed", "open", or "writing" inside a rollback transaction
  main,      \* the pages of the main file
  wal,       \* the frame each page has in the "-wal" file, 0 for none
  journal,   \* a rollback journal exists
  todo,      \* pages the running rollback transaction has yet to write
  cur,       \* the committed database
  version,   \* the number of commits so far
  window,    \* history: the databases committed since the read began
  quiet      \* history: the browser took no step since the read began

VARIABLES
  stmt,      \* 0: not open, i: about to run SELECT i, NStmts + 1: all run
  out,       \* per SELECT, what it pushed into the Profile
  stage,     \* the file CopySqliteDb is at
  left,      \* pages of the main file not copied yet
  cMain,     \* the copied main file
  cWal,      \* the copied "-wal" file
  copied     \* the files whose copy succeeded

pragmas    == <<journalMode, lockingMode>>
dbVars     == <<pragmas, present, browser, main, wal, journal, todo, cur, version>>
seenVars   == <<window, quiet>>
tryVars    == <<stmt, out>>
copyVars   == <<stage, left, cMain, cWal, copied>>
vars == <<lsVars, dbVars, seenVars, tryVars, copyVars>>

Versions == 0 .. MaxCommits
Database == [Pages -> Versions]
NoFrames == [p \in Pages |-> 0]

(* The connection is closed on every way out of tryRead; an exception      *)
(* leaves it open, the handle being a plain sqlite3 pointer.               *)
ClosedOutside == stmt # 0 => pc \in {"readLive", "readCopy", "thrown"}

TypeOK ==
  /\ LSTypeOK
  /\ ClosedOutside
  /\ journalMode \in JournalModes
  /\ lockingMode \in LockingModes
  /\ present \in BOOLEAN
  /\ browser \in {"closed", "open", "writing"}
  /\ main \in Database
  /\ wal \in Database
  /\ journal \in BOOLEAN
  /\ todo \subseteq Pages
  /\ cur \in Database
  /\ version \in Versions
  /\ window \subseteq Database
  /\ quiet \in BOOLEAN
  /\ stmt \in 0 .. NStmts + 1
  /\ out \in [1 .. NStmts -> Seq(Database)]
  /\ stage \in {"main", "wal"}
  /\ left \subseteq Pages
  /\ cMain \in Database
  /\ cWal \in Database
  /\ copied \subseteq {"main", "wal"}

Init ==
  /\ LSInit
  /\ journalMode \in JournalModes
  /\ lockingMode \in LockingModes
  /\ present \in BOOLEAN
  /\ browser = "closed"
  /\ main = [p \in Pages |-> 0]
  /\ wal = NoFrames
  /\ journal = FALSE
  /\ todo = {}
  /\ cur = main
  /\ version = 0
  /\ window = {cur}
  /\ quiet = TRUE
  /\ stmt = 0
  /\ out = [i \in 1 .. NStmts |-> <<>>]
  /\ stage = "main"
  /\ left = Pages
  /\ cMain = [p \in Pages |-> 0]
  /\ cWal = NoFrames
  /\ copied = {}

-----------------------------------------------------------------------------
(* What the file locks and the journal say to another process.             *)

Locked ==
  (browser = "writing") \/ (lockingMode = "exclusive" /\ browser = "open")

(* A journal whose writer is gone: it has to be rolled back before the     *)
(* database can be read, which a read-only connection refuses to do.       *)
Hot == journal /\ browser = "closed"

WalNonEmpty == \E p \in Pages : wal[p] > 0

Overlay(m, w) == [p \in Pages |-> IF w[p] > 0 THEN w[p] ELSE m[p]]

ReadOnlyView(m, w) == IF RoReplaysWal THEN Overlay(m, w) ELSE m

-----------------------------------------------------------------------------
(* The browser.  Every step is recorded against the read in progress.      *)

Observed ==
  /\ window' = IF pc = "exists" THEN {cur'} ELSE window \cup {cur'}
  /\ quiet' = (quiet /\ pc = "exists")

BrowserFrame == Observed /\ UNCHANGED <<lsVars, pragmas, tryVars, copyVars>>

(* The database is opened, created if missing; a hot journal is rolled     *)
(* back.                                                                   *)
OpenBrowser ==
  /\ browser = "closed"
  /\ browser' = "open"
  /\ present' = TRUE
  /\ main' = IF journal THEN cur ELSE main
  /\ journal' = FALSE
  /\ UNCHANGED <<wal, todo, cur, version>>
  /\ BrowserFrame

(* Rollback mode: pages are overwritten in place under an exclusive lock.  *)
BeginWrite ==
  /\ journalMode = "rollback"
  /\ browser = "open"
  /\ version < MaxCommits
  /\ browser' = "writing"
  /\ journal' = TRUE
  /\ \E S \in SUBSET Pages \ {{}} : todo' = S
  /\ UNCHANGED <<present, main, wal, cur, version>>
  /\ BrowserFrame

WritePage ==
  /\ browser = "writing"
  /\ \E p \in todo :
        /\ main' = [main EXCEPT ![p] = version + 1]
        /\ todo' = todo \ {p}
  /\ UNCHANGED <<present, browser, wal, journal, cur, version>>
  /\ BrowserFrame

Commit ==
  /\ browser = "writing"
  /\ todo = {}
  /\ browser' = "open"
  /\ journal' = FALSE
  /\ cur' = main
  /\ version' = version + 1
  /\ UNCHANGED <<present, main, wal, todo>>
  /\ BrowserFrame

(* WAL mode: a commit appends its frames; once everything before it has    *)
(* been checkpointed the file is restarted instead.                        *)
Backfilled == \A p \in Pages : wal[p] > 0 => main[p] = wal[p]

CommitWal ==
  /\ journalMode = "wal"
  /\ browser = "open"
  /\ version < MaxCommits
  /\ \E S \in SUBSET Pages \ {{}} :
        /\ wal' = [p \in Pages |-> IF p \in S THEN version + 1
                                   ELSE IF Backfilled THEN 0 ELSE wal[p]]
        /\ cur' = [p \in Pages |-> IF p \in S THEN version + 1 ELSE cur[p]]
  /\ version' = version + 1
  /\ UNCHANGED <<present, browser, main, journal, todo>>
  /\ BrowserFrame

CheckpointPage ==
  /\ journalMode = "wal"
  /\ Checkpoints
  /\ browser = "open"
  /\ \E p \in Pages : /\ wal[p] > main[p]
                      /\ main' = [main EXCEPT ![p] = wal[p]]
  /\ UNCHANGED <<present, browser, wal, journal, todo, cur, version>>
  /\ BrowserFrame

(* A clean close has checkpointed everything and deletes the "-wal" file.  *)
CloseBrowser ==
  /\ browser = "open"
  /\ Backfilled
  /\ browser' = "closed"
  /\ wal' = NoFrames
  /\ UNCHANGED <<present, main, journal, todo, cur, version>>
  /\ BrowserFrame

(* A crash releases the locks and leaves the files as they are.            *)
Crash ==
  /\ browser \in {"open", "writing"}
  /\ browser' = "closed"
  /\ todo' = {}
  /\ UNCHANGED <<present, main, wal, journal, cur, version>>
  /\ BrowserFrame

Browser ==
  \/ OpenBrowser \/ BeginWrite \/ WritePage \/ Commit
  \/ CommitWal \/ CheckpointPage \/ CloseBrowser \/ Crash

-----------------------------------------------------------------------------
(* The reader.                                                             *)

Look ==
  /\ \/ CheckExists(present)
     \/ CheckWal(WalNonEmpty)
     \/ MakeTemp
     \/ Cleanup
  /\ UNCHANGED <<dbVars, seenVars, tryVars, copyVars>>

(* Mutation of Return: a way out of tryRead without sqlite3_close.         *)
ReturnUnclosed(ok) ==
  /\ ReadLiveReturns(ok) \/ ReadCopyReturns(ok)
  /\ UNCHANGED <<dbVars, seenVars, tryVars, copyVars>>

(* tryRead(live) or tryRead(target) returns.                               *)
Return(ok) ==
  /\ ReadLiveReturns(ok) \/ ReadCopyReturns(ok)
  /\ stmt' = 0
  /\ UNCHANGED <<dbVars, seenVars, out, copyVars>>

(* OpenSqliteRO: the open fails, or the probe is answered with BUSY.  Any  *)
(* other answer to the probe, the refusal of a hot journal among them,     *)
(* leaves the connection open and counts as success.                       *)
OpenFails ==
  /\ stmt = 0
  /\ \/ IoMayFail
     \/ pc = "readLive" /\ Locked
  /\ Return(FALSE)

(* Mutation of OpenSucceeds: the connection is not probed.                 *)
OpenWithoutProbe ==
  /\ pc \in {"readLive", "readCopy"}
  /\ stmt = 0
  /\ stmt' = 1
  /\ UNCHANGED <<lsVars, dbVars, seenVars, out, copyVars>>

OpenSucceeds ==
  /\ stmt = 0
  /\ \/ pc = "readLive" /\ ~Locked
     \/ pc = "readCopy"
  /\ stmt' = 1
  /\ UNCHANGED <<lsVars, dbVars, seenVars, out, copyVars>>

(* Mutation of LiveAnswers: opened with "immutable=1", no locks, no        *)
(* journal.                                                                *)
LiveAnswersImmutable == {<<ReadOnlyView(main, wal)>>}

(* One prepare and step loop, a read transaction of its own.  A prepare    *)
(* that fails skips the loop and a step that fails ends it: both push      *)
(* nothing and neither changes what the reader returns.                    *)
LiveAnswers ==
  IF Locked \/ Hot THEN {<<>>} ELSE {<<ReadOnlyView(main, wal)>>}

(* Nothing locks the copy.  Pages that do not belong together are read as  *)
(* they are or stop the loop with SQLITE_CORRUPT.                          *)
CopyAnswers ==
  LET view == ReadOnlyView(cMain, cWal)
  IN  {<<view>>} \cup (IF view \in window THEN {} ELSE {<<>>})

Answers(i) ==
  IF i \notin KnownStmts THEN {<<>>}
  ELSE IF pc = "readLive" THEN LiveAnswers ELSE CopyAnswers

RunStmt ==
  /\ pc \in {"readLive", "readCopy"}
  /\ stmt \in 1 .. NStmts
  /\ \E a \in Answers(stmt) : out' = [out EXCEPT ![stmt] = @ \o a]
  /\ stmt' = stmt + 1
  /\ UNCHANGED <<lsVars, dbVars, seenVars, copyVars>>

NoRows == \A i \in 1 .. NStmts : out[i] = <<>>

SaysEmpty == ReportsEmpty /\ NoRows /\ "noRows" \notin diags

ReportEmpty ==
  /\ stmt = NStmts + 1
  /\ SaysEmpty
  /\ ClientEmits("noRows")
  /\ UNCHANGED <<dbVars, seenVars, tryVars, copyVars>>

ReadSucceeds ==
  /\ stmt = NStmts + 1
  /\ ~SaysEmpty
  /\ Return(TRUE)

(* CopySqliteDb: the main file page after page, then its sidecars.         *)
CopyFrame == UNCHANGED <<lsVars, dbVars, seenVars, tryVars>>

CopyPage ==
  /\ pc = "copy"
  /\ stage = "main"
  /\ \E p \in left : /\ cMain' = [cMain EXCEPT ![p] = main[p]]
                     /\ left' = left \ {p}
  /\ UNCHANGED <<stage, cWal, copied>>
  /\ CopyFrame

CopyMainEnds ==
  /\ pc = "copy"
  /\ stage = "main"
  /\ \/ left = {} /\ copied' = copied \cup {"main"}
     \/ IoMayFail /\ UNCHANGED copied
  /\ stage' = "wal"
  /\ UNCHANGED <<left, cMain, cWal>>
  /\ CopyFrame

(* "-wal" and "-shm"; a sidecar that cannot be copied is left out.  The    *)
(* "-shm" file is an index SQLite rebuilds and carries no rows.            *)
CopySidecars ==
  /\ stage = "wal"
  /\ \/ cWal' = wal /\ copied' = copied \cup {"wal"}
     \/ IoMayFail /\ UNCHANGED <<cWal, copied>>
  /\ CopyReturns("main" \in copied)
  /\ UNCHANGED <<stage, left, cMain, dbVars, seenVars, tryVars>>

Throw ==
  /\ ClientThrows
  /\ UNCHANGED <<dbVars, seenVars, tryVars, copyVars>>

Step ==
  \/ Look \/ OpenFails \/ OpenSucceeds \/ RunStmt \/ ReportEmpty
  \/ ReadSucceeds \/ CopyPage \/ CopyMainEnds \/ CopySidecars

Reader == Step \/ Throw

Next == Reader \/ Browser

(* ReadLockedStore runs in one thread and never waits for the browser: no  *)
(* busy timeout is set, so a lock is an answer and not a wait.  Nothing    *)
(* makes an exception happen.                                              *)
Spec == Init /\ [][Next]_vars /\ WF_vars(Step)

-----------------------------------------------------------------------------
(* No row is shown twice: a SELECT that pushed rows in the live read is    *)
(* not run again on the copy.                                              *)
RowsOnce == \A i \in 1 .. NStmts : Len(out[i]) <= 1

(* Rows that do not form a database the browser committed during the read  *)
(* (torn across pages, or older than the read) are only ever returned      *)
(* together with the "live copy" diagnostic.                               *)
UnflaggedRowsAreSnapshots ==
  "liveCopy" \notin diags =>
    \A i \in 1 .. NStmts : \A k \in DOMAIN out[i] : out[i][k] \in window

(* When the browser keeps still and no transaction is half written, every  *)
(* statement of a store that was read returns what is committed, in place  *)
(* or from the copy, WAL included.                                         *)
QuietReadIsComplete ==
  pc = "done" /\ quiet /\ ~journal /\ served # {}
    /\ ("copy" \in served => copied = {"main", "wal"})
  => \A i \in KnownStmts : out[i] = <<cur>>

(* A store that was read but gave nothing to a SELECT it knows has a       *)
(* diagnostic.                                                             *)
NoSilentLoss ==
  pc = "done" /\ served # {} /\ (\E i \in KnownStmts : out[i] = <<>>)
    => diags # {}

(* ReadLockedStore returns (or throws) whatever the browser does.          *)
ReadEnds == <>(pc \in Ended)

(* The reader, its locks, copies and temporary files hidden, keeps the     *)
(* promise of SnapshotRead.                                                *)
Status ==
  CASE pc = "exists"              -> "waiting"
    [] pc \in {"absent", "done"}  -> "ended"
    [] pc = "thrown"              -> "failed"
    [] OTHER                      -> "reading"

Promise == INSTANCE SnapshotRead WITH
  Databases <- Database,
  NAnswers  <- NStmts,
  Known     <- KnownStmts,
  exists    <- present,
  committed <- cur,
  status    <- Status,
  answer    <- out,
  reported  <- (diags # {}),
  lockable  <- (journalMode = "rollback" \/ lockingMode = "exclusive")

ImplementsSnapshotRead == Promise!Spec

(* The reader drives ReadLockedStore and does nothing else to its state.   *)
ImplementsLockedStore == LSSpec
=============================================================================
