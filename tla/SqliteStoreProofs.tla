-------------------------- MODULE SqliteStoreProofs --------------------------
(***************************************************************************)
(* Theorems about the SQLite readers, for every database, any number of    *)
(* statements and any journal mode.                                        *)
(*                                                                         *)
(* The reader implements LockedStore, so LSInv comes from                  *)
(* LockedStoreProofs; DbInv says where the committed database is to be     *)
(* found in the files, RowInv what the reader has pushed so far.           *)
(***************************************************************************)
EXTENDS SqliteStore, LockedStoreProofs, SequenceTheorems

-----------------------------------------------------------------------------
(* Types                                                                   *)

LEMMA ViewType ==
  ASSUME TypeOK
  PROVE  /\ ReadOnlyView(main, wal) \in Database
         /\ ReadOnlyView(cMain, cWal) \in Database
  BY DEF TypeOK, ReadOnlyView, Overlay, Database

(* A statement answers nothing or one view of the database.                *)
LEMMA AnswerShape ==
  ASSUME TypeOK, NEW i, NEW a \in Answers(i)
  PROVE  a = <<>> \/ \E d \in Database : a = <<d>>
  BY ViewType DEF Answers, LiveAnswers, CopyAnswers

LEMMA AnswerType ==
  ASSUME TypeOK, NEW i, NEW a \in Answers(i)
  PROVE  a \in Seq(Database)
<1>1. a = <<>> \/ \E d \in Database : a = <<d>>
  BY AnswerShape
<1>2. \A d \in Database : <<d>> \in Seq(Database)
  OBVIOUS
<1>3. <<>> \in Seq(Database)
  OBVIOUS
<1>4. QED
  BY <1>1, <1>2, <1>3

LEMMA InitType == Init => TypeOK
<1> SUFFICES ASSUME Init PROVE TypeOK
  OBVIOUS
<1>1. LSTypeOK
  BY DEF Init, LSInit, LSTypeOK, Locations, Ended
<1>2. NoFrames \in Database /\ 0 \in Versions
  BY SqliteAssumption DEF NoFrames, Database, Versions
<1>3. main \in Database /\ cMain \in Database /\ wal \in Database
  BY <1>2 DEF Init, NoFrames
<1>4. out \in [1 .. NStmts -> Seq(Database)] /\ stmt \in 0 .. NStmts + 1
  BY SqliteAssumption DEF Init
<1>5. QED
  BY <1>1, <1>2, <1>3, <1>4 DEF Init, TypeOK, ClosedOutside

(* Reader and browser drive the helper through its own operations.         *)
LEMMA StepIsLocked == TypeOK /\ [Next]_vars => [LSNext]_lsVars
<1> SUFFICES ASSUME TypeOK, [Next]_vars
             PROVE  [LSNext]_lsVars
  OBVIOUS
<1>1. CASE Browser
  BY <1>1 DEF Browser, BrowserFrame, OpenBrowser, BeginWrite, WritePage, Commit,
              CommitWal, CheckpointPage, CloseBrowser, Crash
<1>2. CASE Look
  BY <1>2 DEF Look, LSNext, TypeOK, WalNonEmpty
<1>3. CASE OpenFails
  BY <1>3 DEF OpenFails, Return, LSNext
<1>4. CASE ReadSucceeds
  BY <1>4 DEF ReadSucceeds, Return, LSNext
<1>5. CASE ReportEmpty
  BY <1>5 DEF ReportEmpty, LSNext
<1>6. CASE CopySidecars
  <2>1. ("main" \in copied) \in BOOLEAN
    OBVIOUS
  <2>2. CopyReturns("main" \in copied)
    BY <1>6 DEF CopySidecars
  <2>3. QED
    BY <2>1, <2>2 DEF LSNext
<1>7. CASE Throw
  BY <1>7 DEF Throw, LSNext
<1>8. CASE OpenSucceeds \/ RunStmt \/ CopyPage \/ CopyMainEnds
  BY <1>8 DEF OpenSucceeds, RunStmt, CopyPage, CopyMainEnds, CopyFrame
<1>9. CASE UNCHANGED vars
  BY <1>9 DEF vars
<1>10. QED
  BY <1>1, <1>2, <1>3, <1>4, <1>5, <1>6, <1>7, <1>8, <1>9 DEF Next, Reader, Step

(* The types of what this module adds to the helper.                       *)
BrowserTypeOK ==
  /\ journalMode \in JournalModes
  /\ lockingMode \in LockingModes
  /\ present \in BOOLEAN
  /\ browser \in {"closed", "open", "writing"}
  /\ main \in Database
  /\ wal \in Database
  /\ journal \in BOOLEAN
  /\ todo \subseteq Pages
  /\ cur \in Database
  /\ version \in Versions
  /\ window \subseteq Database
  /\ quiet \in BOOLEAN

ReaderTypeOK ==
  /\ ClosedOutside
  /\ stmt \in 0 .. NStmts + 1
  /\ out \in [1 .. NStmts -> Seq(Database)]
  /\ stage \in {"main", "wal"}
  /\ left \subseteq Pages
  /\ cMain \in Database
  /\ cWal \in Database
  /\ copied \subseteq {"main", "wal"}

LEMMA TypeParts == TypeOK <=> LSTypeOK /\ BrowserTypeOK /\ ReaderTypeOK
  BY DEF TypeOK, BrowserTypeOK, ReaderTypeOK

(* The bound on commits leaves room for the transaction being written.     *)
WriteRoom == browser = "writing" => version < MaxCommits

LEMMA BrowserStepType ==
  ASSUME TypeOK, WriteRoom, Browser
  PROVE  BrowserTypeOK' /\ ReaderTypeOK' /\ WriteRoom'
<1>1. BrowserFrame
  BY DEF Browser, OpenBrowser, BeginWrite, WritePage, Commit, CommitWal,
         CheckpointPage, CloseBrowser, Crash
<1>2. ReaderTypeOK'
  BY <1>1 DEF BrowserFrame, TypeOK, ReaderTypeOK, ClosedOutside, lsVars, tryVars, copyVars
<1>3. ASSUME cur' \in Database
      PROVE  window' \subseteq Database /\ quiet' \in BOOLEAN
  BY <1>1, <1>3 DEF BrowserFrame, Observed, TypeOK
<1>4. version \in Nat /\ MaxCommits \in Nat /\ version <= MaxCommits
  BY SqliteAssumption DEF TypeOK, Versions
<1> DEFINE Files == /\ present' \in BOOLEAN
                    /\ browser' \in {"closed", "open", "writing"}
                    /\ main' \in Database
                    /\ wal' \in Database
                    /\ journal' \in BOOLEAN
                    /\ todo' \subseteq Pages
                    /\ cur' \in Database
                    /\ version' \in Versions
                    /\ WriteRoom'
<1>5. Files
  <2>1. CASE OpenBrowser
    BY <2>1 DEF OpenBrowser, TypeOK, WriteRoom
  <2>2. CASE BeginWrite
    BY <2>2 DEF BeginWrite, TypeOK, WriteRoom
  <2>3. CASE WritePage
    <3>1. version + 1 \in Versions
      BY <1>4, <2>3 DEF WritePage, WriteRoom, Versions
    <3>2. main' \in Database
      BY <2>3, <3>1 DEF WritePage, TypeOK, Database
    <3>3. QED
      BY <2>3, <3>2 DEF WritePage, TypeOK, WriteRoom
  <2>4. CASE Commit
    <3>1. version + 1 \in Versions
      BY <1>4, <2>4 DEF Commit, WriteRoom, Versions
    <3>2. QED
      BY <2>4, <3>1 DEF Commit, TypeOK, WriteRoom
  <2>5. CASE CommitWal
    <3>1. version + 1 \in Versions /\ 0 \in Versions
      BY <1>4, <2>5 DEF CommitWal, Versions
    <3>2. wal' \in Database /\ cur' \in Database
      BY <2>5, <3>1 DEF CommitWal, TypeOK, Database
    <3>3. QED
      BY <2>5, <3>1, <3>2 DEF CommitWal, TypeOK, WriteRoom
  <2>6. CASE CheckpointPage
    <3>1. main' \in Database
      BY <2>6 DEF CheckpointPage, TypeOK, Database
    <3>2. QED
      BY <2>6, <3>1 DEF CheckpointPage, TypeOK, WriteRoom
  <2>7. CASE CloseBrowser
    <3>1. NoFrames \in Database
      BY <1>4 DEF NoFrames, Database, Versions
    <3>2. QED
      BY <2>7, <3>1 DEF CloseBrowser, TypeOK, WriteRoom
  <2>8. CASE Crash
    BY <2>8 DEF Crash, TypeOK, WriteRoom
  <2>9. QED
    BY <2>1, <2>2, <2>3, <2>4, <2>5, <2>6, <2>7, <2>8 DEF Browser
<1>6. UNCHANGED <<journalMode, lockingMode>>
  BY <1>1 DEF BrowserFrame, pragmas
<1>7. QED
  BY <1>2, <1>3, <1>5, <1>6 DEF TypeOK, BrowserTypeOK

LEMMA ReaderStepType ==
  ASSUME TypeOK, WriteRoom, Reader
  PROVE  BrowserTypeOK' /\ ReaderTypeOK' /\ WriteRoom'
<1>1. UNCHANGED <<dbVars, seenVars>>
  BY DEF Reader, Step, Look, OpenFails, OpenSucceeds, Return, RunStmt, ReportEmpty,
         ReadSucceeds, CopyFrame, CopyPage, CopyMainEnds, CopySidecars, Throw
<1>2. BrowserTypeOK' /\ WriteRoom'
  BY <1>1 DEF dbVars, pragmas, seenVars, TypeOK, BrowserTypeOK, WriteRoom
<1>3. CASE Look \/ ReportEmpty \/ Throw
  <2>1. ClosedOutside'
    BY <1>3 DEF Look, CheckExists, CheckWal, MakeTemp, Cleanup, ReportEmpty, ClientEmits,
                Emit, Throw, ClientThrows, tryVars, TypeOK, ClosedOutside
  <2>2. QED
    BY <1>2, <1>3, <2>1 DEF Look, ReportEmpty, Throw, tryVars, copyVars, TypeOK, ReaderTypeOK
<1>4. CASE OpenFails \/ ReadSucceeds
  <2>1. 0 \in 0 .. NStmts + 1
    BY SqliteAssumption
  <2>2. /\ stmt' = 0
        /\ UNCHANGED <<out, copyVars>>
    BY <1>4 DEF OpenFails, ReadSucceeds, Return
  <2>3. QED
    BY <1>2, <2>1, <2>2 DEF copyVars, TypeOK, ReaderTypeOK, ClosedOutside
<1>5. CASE OpenSucceeds
  BY <1>2, <1>5, SqliteAssumption
     DEF OpenSucceeds, copyVars, lsVars, TypeOK, ReaderTypeOK, ClosedOutside
<1>6. CASE RunStmt
  <2>1. PICK a \in Answers(stmt) : out' = [out EXCEPT ![stmt] = @ \o a]
    BY <1>6 DEF RunStmt
  <2>2. a \in Seq(Database)
    BY <2>1, AnswerType
  <2>3. stmt \in 1 .. NStmts /\ out[stmt] \in Seq(Database)
    BY <1>6 DEF RunStmt, TypeOK
  <2>4. out[stmt] \o a \in Seq(Database)
    BY <2>2, <2>3
  <2>5. out' \in [1 .. NStmts -> Seq(Database)]
    BY <2>1, <2>3, <2>4 DEF TypeOK
  <2>6. stmt' \in 0 .. NStmts + 1
    BY <1>6, SqliteAssumption DEF RunStmt
  <2>7. QED
    BY <1>2, <1>6, <2>5, <2>6
       DEF RunStmt, copyVars, lsVars, TypeOK, ReaderTypeOK, ClosedOutside
<1>7. CASE CopyPage
  <2>1. cMain' \in Database
    BY <1>7 DEF CopyPage, TypeOK, Database
  <2>2. QED
    BY <1>2, <1>7, <2>1
       DEF CopyPage, CopyFrame, lsVars, tryVars, TypeOK, ReaderTypeOK, ClosedOutside
<1>8. CASE CopyMainEnds
  BY <1>2, <1>8
     DEF CopyMainEnds, CopyFrame, lsVars, tryVars, TypeOK, ReaderTypeOK, ClosedOutside
<1>9. CASE CopySidecars
  <2>1. ClosedOutside'
    BY <1>9 DEF CopySidecars, CopyReturns, tryVars, TypeOK, ClosedOutside
  <2>2. QED
    BY <1>2, <1>9, <2>1 DEF CopySidecars, tryVars, TypeOK, ReaderTypeOK
<1>10. QED
  BY <1>3, <1>4, <1>5, <1>6, <1>7, <1>8, <1>9 DEF Reader, Step

-----------------------------------------------------------------------------
(* The committed database                                                  *)

(* Outside a rollback transaction the main file overlaid with the frames   *)
(* of the WAL is the committed database; inside one, or after a crash in   *)
(* one, there is a journal, and no WAL.                                    *)
DbInv ==
  /\ ~journal => \A p \in Pages : cur[p] = IF wal[p] > 0 THEN wal[p] ELSE main[p]
  /\ journal => browser \in {"writing", "closed"}
  /\ browser = "writing" => journal
  /\ journalMode = "rollback" => wal = NoFrames
  /\ journalMode = "wal" => ~journal
  /\ browser = "writing" => journalMode = "rollback"
  /\ cur \in window

LEMMA CommittedView ==
  ASSUME TypeOK, DbInv, ~journal, RoReplaysWal
  PROVE  ReadOnlyView(main, wal) = cur
  BY DEF TypeOK, DbInv, ReadOnlyView, Overlay, Database

LEMMA DbStep ==
  ASSUME TypeOK, WriteRoom, DbInv, [Next]_vars
  PROVE  DbInv'
<1> DEFINE Where(m, w, c) == \A p \in Pages : c[p] = IF w[p] > 0 THEN w[p] ELSE m[p]
<1>1. CASE UNCHANGED <<dbVars, seenVars>>
  BY <1>1 DEF dbVars, pragmas, seenVars, DbInv, NoFrames
<1>2. ASSUME Browser PROVE cur' \in window' /\ journalMode' = journalMode
  BY <1>2 DEF Browser, OpenBrowser, BeginWrite, WritePage, Commit, CommitWal,
              CheckpointPage, CloseBrowser, Crash, BrowserFrame, Observed, pragmas
<1>3. CASE Browser
  <2> USE SqliteAssumption
  <2>1. CASE OpenBrowser
    <3>1. CASE journal
      <4>1. wal = NoFrames
        BY <3>1 DEF DbInv, TypeOK
      <4>2. QED
        BY <1>2, <1>3, <2>1, <3>1, <4>1 DEF OpenBrowser, DbInv, NoFrames
    <3>2. CASE ~journal
      BY <1>2, <1>3, <2>1, <3>2 DEF OpenBrowser, DbInv, NoFrames
    <3>3. QED
      BY <3>1, <3>2
  <2>2. CASE BeginWrite
    BY <1>2, <1>3, <2>2 DEF BeginWrite, DbInv, NoFrames
  <2>3. CASE WritePage
    BY <1>2, <1>3, <2>3 DEF WritePage, DbInv, NoFrames
  <2>4. CASE Commit
    <3>1. wal = NoFrames
      BY <2>4 DEF Commit, DbInv
    <3>2. QED
      BY <1>2, <1>3, <2>4, <3>1 DEF Commit, DbInv, NoFrames
  <2>5. CASE CommitWal
    <3>1. PICK S \in SUBSET Pages \ {{}} :
            /\ wal' = [p \in Pages |-> IF p \in S THEN version + 1
                                       ELSE IF Backfilled THEN 0 ELSE wal[p]]
            /\ cur' = [p \in Pages |-> IF p \in S THEN version + 1 ELSE cur[p]]
      BY <2>5 DEF CommitWal
    <3>2. version + 1 > 0
      BY DEF TypeOK, Versions
    <3>3. Where(main, wal, cur)
      BY <2>5 DEF CommitWal, DbInv
    <3>4. Where(main, wal', cur')
      BY <3>1, <3>2, <3>3 DEF Backfilled
    <3>5. QED
      BY <1>2, <1>3, <2>5, <3>4 DEF CommitWal, DbInv
  <2>6. CASE CheckpointPage
    <3>1. PICK p \in Pages : wal[p] > main[p] /\ main' = [main EXCEPT ![p] = wal[p]]
      BY <2>6 DEF CheckpointPage
    <3>2. main \in [Pages -> Nat] /\ wal \in [Pages -> Nat]
      BY DEF TypeOK, Database, Versions
    <3>3. wal[p] > 0
      BY <3>1, <3>2
    <3>4. Where(main, wal, cur)
      BY <2>6 DEF CheckpointPage, DbInv
    <3>5. Where(main', wal, cur)
      BY <3>1, <3>2, <3>3, <3>4
    <3>6. QED
      BY <1>2, <1>3, <2>6, <3>5 DEF CheckpointPage, DbInv
  <2>7. CASE CloseBrowser
    <3>1. Where(main, wal, cur)
      BY <2>7 DEF CloseBrowser, DbInv
    <3>2. Where(main, NoFrames, cur)
      BY <2>7, <3>1 DEF CloseBrowser, Backfilled, NoFrames
    <3>3. QED
      BY <1>2, <1>3, <2>7, <3>2 DEF CloseBrowser, DbInv
  <2>8. CASE Crash
    BY <1>2, <1>3, <2>8 DEF Crash, DbInv, NoFrames
  <2>9. QED
    BY <1>3, <2>1, <2>2, <2>3, <2>4, <2>5, <2>6, <2>7, <2>8 DEF Browser
<1>4. CASE Reader
  <2>1. UNCHANGED <<dbVars, seenVars>>
    BY <1>4 DEF Reader, Step, Look, OpenFails, OpenSucceeds, Return, RunStmt,
                ReportEmpty, ReadSucceeds, CopyFrame, CopyPage, CopyMainEnds,
                CopySidecars, Throw
  <2>2. QED
    BY <1>1, <2>1
<1>5. QED
  BY <1>1, <1>3, <1>4 DEF Next, vars

-----------------------------------------------------------------------------
(* What has been pushed                                                    *)

Before == {"exists", "walSize", "readLive", "mkTemp", "copy", "readCopy"}

(* A statement that is still to be run has pushed nothing: in particular a *)
(* tryRead that answered false has pushed nothing at all.                  *)
RowInv ==
  /\ stmt # 0 => pc \in {"readLive", "readCopy", "thrown"}
  /\ \A i \in 1 .. NStmts :
       /\ Len(out[i]) <= 1
       /\ pc \in Before /\ (stmt = 0 \/ i >= stmt) => out[i] = <<>>

LEMMA RowStep ==
  ASSUME TypeOK, RowInv, [Next]_vars
  PROVE  RowInv'
<1>1. CASE UNCHANGED <<pc, tryVars>>
  BY <1>1 DEF tryVars, RowInv
<1>2. CASE Look
  BY <1>2 DEF Look, CheckExists, CheckWal, MakeTemp, Emit, Cleanup, tryVars,
              RowInv, Before
<1>3. CASE OpenFails
  BY <1>3 DEF OpenFails, Return, ReadLiveReturns, ReadCopyReturns, RowInv, Before
<1>4. CASE OpenSucceeds
  BY <1>4 DEF OpenSucceeds, lsVars, RowInv, Before
<1>5. CASE RunStmt
  <2>1. PICK a \in Answers(stmt) : out' = [out EXCEPT ![stmt] = @ \o a]
    BY <1>5 DEF RunStmt
  <2>2. a = <<>> \/ \E d \in Database : a = <<d>>
    BY <2>1, AnswerShape
  <2>3. stmt \in 1 .. NStmts /\ stmt' = stmt + 1 /\ pc \in Before /\ UNCHANGED pc
    BY <1>5 DEF RunStmt, Before, lsVars
  <2>4. out'[stmt] = a
    <3>1. out[stmt] = <<>>
      BY <2>3, SqliteAssumption DEF RowInv
    <3>2. out'[stmt] = <<>> \o a
      BY <2>1, <2>3, <3>1 DEF TypeOK
    <3>3. QED
      BY <2>1, <3>2, AnswerType, ConcatEmptySeq
  <2>5. Len(out'[stmt]) <= 1
    <3>1. Len(<<>>) = 0 /\ \A d \in Database : Len(<<d>>) = 1
      OBVIOUS
    <3>2. Len(a) <= 1
      <4>1. CASE a = <<>>
        BY <3>1, <4>1
      <4>2. CASE \E d \in Database : a = <<d>>
        BY <3>1, <4>2
      <4>3. QED
        BY <2>2, <4>1, <4>2
    <3>3. QED
      BY <2>4, <3>2
  <2>6. \A i \in 1 .. NStmts : i # stmt => out'[i] = out[i]
    BY <2>1, <2>3 DEF TypeOK
  <2>7. \A i \in 1 .. NStmts : i >= stmt + 1 => out'[i] = <<>>
    BY <2>3, <2>6, SqliteAssumption DEF RowInv
  <2>8. \A i \in 1 .. NStmts : Len(out'[i]) <= 1
    BY <2>5, <2>6 DEF RowInv
  <2>9. pc \in {"readLive", "readCopy"}
    BY <1>5 DEF RunStmt
  <2>10. QED
    BY <2>3, <2>7, <2>8, <2>9, SqliteAssumption DEF RowInv
<1>6. CASE ReportEmpty
  BY <1>6 DEF ReportEmpty, ClientEmits, Emit, tryVars, RowInv, Before
<1>7. CASE ReadSucceeds
  BY <1>7 DEF ReadSucceeds, Return, ReadLiveReturns, ReadCopyReturns, RowInv, Before
<1>8. CASE CopyPage \/ CopyMainEnds
  BY <1>1, <1>8 DEF CopyPage, CopyMainEnds, CopyFrame, lsVars, tryVars
<1>9. CASE CopySidecars
  BY <1>9 DEF CopySidecars, CopyReturns, Emit, tryVars, RowInv, Before
<1>10. CASE Throw
  BY <1>10 DEF Throw, ClientThrows, tryVars, RowInv, Before
<1>11. CASE Browser
  BY <1>1, <1>11 DEF Browser, BrowserFrame, OpenBrowser, BeginWrite, WritePage,
                     Commit, CommitWal, CheckpointPage, CloseBrowser, Crash,
                     lsVars, tryVars
<1>12. CASE UNCHANGED vars
  BY <1>1, <1>12 DEF vars, lsVars
<1>13. QED
  BY <1>2, <1>3, <1>4, <1>5, <1>6, <1>7, <1>8, <1>9, <1>10, <1>11, <1>12
     DEF Next, Reader, Step

-----------------------------------------------------------------------------
(* The invariant and the theorems                                          *)

IInv ==
  /\ TypeOK
  /\ LSInv
  /\ WriteRoom
  /\ DbInv
  /\ RowInv

LEMMA InitInv == Init => IInv
<1> SUFFICES ASSUME Init PROVE IInv
  OBVIOUS
<1>1. TypeOK
  BY InitType
<1>2. LSInv
  BY LSInitInv DEF Init
<1>3. WriteRoom
  BY DEF Init, WriteRoom
<1>4. DbInv
  BY DEF Init, DbInv, NoFrames
<1>5. RowInv
  BY DEF Init, LSInit, RowInv
<1>6. QED
  BY <1>1, <1>2, <1>3, <1>4, <1>5 DEF IInv

LEMMA StepInv == IInv /\ [Next]_vars => IInv'
<1> SUFFICES ASSUME IInv, [Next]_vars
             PROVE  IInv'
  OBVIOUS
<1>1. TypeOK /\ LSInv /\ WriteRoom /\ DbInv /\ RowInv
  BY DEF IInv
<1>2. LSInv'
  BY <1>1, StepIsLocked, LSStepInv
<1>3. BrowserTypeOK' /\ ReaderTypeOK' /\ WriteRoom'
  <2>1. CASE Browser
    BY <1>1, <2>1, BrowserStepType
  <2>2. CASE Reader
    BY <1>1, <2>2, ReaderStepType
  <2>3. CASE UNCHANGED vars
    BY <1>1, <2>3, TypeParts
       DEF vars, lsVars, dbVars, pragmas, seenVars, tryVars, copyVars, BrowserTypeOK,
           ReaderTypeOK, ClosedOutside, WriteRoom
  <2>4. QED
    BY <2>1, <2>2, <2>3 DEF Next
<1>4. TypeOK'
  BY <1>2, <1>3 DEF TypeOK, LSInv, BrowserTypeOK, ReaderTypeOK
<1>5. DbInv'
  BY <1>1, DbStep
<1>6. RowInv'
  BY <1>1, RowStep
<1>7. QED
  BY <1>2, <1>3, <1>4, <1>5, <1>6 DEF IInv

THEOREM SqliteInvariant == Spec => []IInv
  BY InitInv, StepInv, PTL DEF Spec

(* Every variable keeps its type, whatever the constants.                  *)
THEOREM SqliteTypeOK == Spec => []TypeOK
<1>1. IInv => TypeOK
  BY DEF IInv
<1>2. QED
  BY <1>1, SqliteInvariant, PTL

(* A SQLite reader is a client of ReadLockedStore: it has all of           *)
(* LockedStoreSafety.                                                      *)
THEOREM SqliteImplementsLockedStore == Spec => ImplementsLockedStore
<1>1. Init => LSInit
  BY DEF Init
<1>2. IInv /\ [Next]_vars => [LSNext]_lsVars
  BY StepIsLocked DEF IInv
<1>3. QED
  BY <1>1, <1>2, SqliteInvariant, PTL DEF Spec, LSSpec, ImplementsLockedStore

(* No SELECT pushes its rows twice.                                        *)
THEOREM SqliteRowsOnce == Spec => []RowsOnce
<1>1. IInv => RowsOnce
  BY DEF IInv, RowInv, RowsOnce
<1>2. QED
  BY <1>1, SqliteInvariant, PTL

(* Rows of the live store are snapshots: the lemma that carries the        *)
(* theorem below from one state to the next.                               *)
LEMMA SnapshotStep ==
  ASSUME RoReplaysWal, IInv, UnflaggedRowsAreSnapshots, [Next]_vars
  PROVE  UnflaggedRowsAreSnapshots'
<1> SUFFICES ASSUME "liveCopy" \notin diags',
                    NEW i \in 1 .. NStmts, NEW k \in DOMAIN out'[i]
             PROVE  out'[i][k] \in window'
  BY DEF UnflaggedRowsAreSnapshots
<1>1. diags \subseteq diags'
  BY DEF Next, Reader, Step, Browser, vars, lsVars, BrowserFrame, OpenBrowser, BeginWrite,
         WritePage, Commit, CommitWal, CheckpointPage, CloseBrowser, Crash,
         Look, CheckExists, CheckWal, MakeTemp, Cleanup, OpenFails, Return,
         ReadLiveReturns, ReadCopyReturns, OpenSucceeds, RunStmt, ReportEmpty,
         ClientEmits, ReadSucceeds, CopyFrame, CopyPage, CopyMainEnds,
         CopySidecars, CopyReturns, Throw, ClientThrows, Emit
<1>2. \A j \in 1 .. NStmts : \A n \in DOMAIN out[j] : out[j][n] \in window
  BY <1>1 DEF UnflaggedRowsAreSnapshots
<1>3. CASE RunStmt
  <2>1. PICK a \in Answers(stmt) : out' = [out EXCEPT ![stmt] = @ \o a]
    BY <1>3 DEF RunStmt
  <2>2. /\ stmt \in 1 .. NStmts
        /\ pc = "readLive"
        /\ window' = window
    BY <1>1, <1>3 DEF RunStmt, IInv, LSInv, CopyIsAnnounced, seenVars
  <2>3. a = <<>> \/ a = <<cur>>
    <3>1. CASE Locked \/ Hot \/ stmt \notin KnownStmts
      BY <2>1, <2>2, <3>1 DEF Answers, LiveAnswers
    <3>2. CASE ~(Locked \/ Hot \/ stmt \notin KnownStmts)
      <4>1. ~journal
        BY <3>2 DEF Locked, Hot, IInv, DbInv
      <4>2. ReadOnlyView(main, wal) = cur
        BY <4>1, CommittedView DEF IInv
      <4>3. QED
        BY <2>1, <2>2, <3>2, <4>2 DEF Answers, LiveAnswers
    <3>3. QED
      BY <3>1, <3>2
  <2>4. out'[stmt] = a
    <3>1. out[stmt] = <<>>
      BY <2>2, SqliteAssumption DEF IInv, RowInv, Before
    <3>2. out'[stmt] = <<>> \o a
      BY <2>1, <2>2, <3>1 DEF IInv, TypeOK
    <3>3. a \in Seq(Database)
      BY <2>1, AnswerType DEF IInv
    <3>4. QED
      BY <3>2, <3>3, ConcatEmptySeq
  <2>5. cur \in window
    BY DEF IInv, DbInv
  <2>6. CASE i = stmt
    BY <2>2, <2>3, <2>4, <2>5, <2>6
  <2>7. CASE i # stmt
    BY <1>2, <2>1, <2>2, <2>7 DEF IInv, TypeOK
  <2>8. QED
    BY <2>6, <2>7
<1>4. CASE Browser
  <2>1. BrowserFrame
    BY <1>4 DEF Browser, OpenBrowser, BeginWrite, WritePage, Commit, CommitWal,
                CheckpointPage, CloseBrowser, Crash
  <2>2. UNCHANGED out /\ out[i] = out'[i]
    BY <2>1 DEF BrowserFrame, tryVars
  <2>3. CASE pc = "exists"
    BY <2>2, <2>3 DEF IInv, RowInv, Before
  <2>4. CASE pc # "exists"
    BY <1>2, <2>1, <2>2, <2>4 DEF BrowserFrame, Observed
  <2>5. QED
    BY <2>3, <2>4
<1>5. CASE UNCHANGED <<out, window>>
  BY <1>2, <1>5
<1>6. QED
  BY <1>3, <1>4, <1>5
     DEF Next, Reader, Step, vars, tryVars, seenVars, Look, OpenFails, Return,
         OpenSucceeds, ReportEmpty, ReadSucceeds, CopyFrame, CopyPage,
         CopyMainEnds, CopySidecars, Throw

(* As long as "?mode=ro" applies the WAL, rows that were not announced as  *)
(* a live copy are a database committed during the read: commits,          *)
(* checkpoints, crashes and rollbacks between any two steps of the reader  *)
(* never show through the live path.                                       *)
THEOREM SqliteSnapshots ==
  ASSUME RoReplaysWal
  PROVE  Spec => []UnflaggedRowsAreSnapshots
<1>1. Init => UnflaggedRowsAreSnapshots
  BY DEF Init, UnflaggedRowsAreSnapshots
<1>2. IInv /\ UnflaggedRowsAreSnapshots /\ [Next]_vars
        => UnflaggedRowsAreSnapshots'
  BY SnapshotStep
<1>3. QED
  BY <1>1, <1>2, SqliteInvariant, PTL DEF Spec

-----------------------------------------------------------------------------
(* Quiet reads                                                             *)

(* What the copy has before and after the main file is copied.             *)
CopyPlace ==
  /\ pc \in {"exists", "walSize", "readLive", "mkTemp"} => left = Pages /\ copied = {}
  /\ "main" \in copied => left = {}

Complete(k) == \A i \in KnownStmts : i < k => out[i] = <<cur>>

(* Since the read began nothing has changed, so what the files were is     *)
(* what they are: what has been copied agrees with them, and a store that  *)
(* let the reader in is not locked.                                        *)
StillInv ==
  /\ pc = "exists" \/ quiet => window = {cur}
  /\ quiet =>
       /\ \A p \in Pages \ left : cMain[p] = main[p]
       /\ "wal" \in copied => cWal = wal
       /\ pc = "readLive" /\ stmt # 0 => ~Locked

(* The statements that have run have answered with what is committed.      *)
AnsweredInv ==
  quiet /\ ~journal =>
    /\ pc = "readLive" => Complete(stmt)
    /\ pc = "readCopy" /\ copied = {"main", "wal"} => Complete(stmt)
    /\ served # {} /\ ("copy" \in served => copied = {"main", "wal"}) => Complete(NStmts + 1)

QuietInv == CopyPlace /\ StillInv /\ AnsweredInv

(* The browser's step ends the quiet, or belongs to the time before.       *)
LEMMA BrowserEndsQuiet ==
  ASSUME Browser
  PROVE  /\ quiet' => pc = "exists"
         /\ UNCHANGED <<lsVars, tryVars, copyVars>>
         /\ pc = "exists" => window' = {cur'}
  BY DEF Browser, OpenBrowser, BeginWrite, WritePage, Commit, CommitWal,
         CheckpointPage, CloseBrowser, Crash, BrowserFrame, Observed

LEMMA ReaderKeepsStore == ASSUME Reader PROVE UNCHANGED <<dbVars, seenVars>>
  BY DEF Reader, Step, Look, OpenFails, OpenSucceeds, Return, RunStmt, ReportEmpty,
         ReadSucceeds, CopyFrame, CopyPage, CopyMainEnds, CopySidecars, Throw

LEMMA CopyPlaceStep ==
  ASSUME TypeOK, CopyPlace, [Next]_vars
  PROVE  CopyPlace'
<1>1. CASE Browser \/ UNCHANGED vars
  BY <1>1, BrowserEndsQuiet DEF vars, lsVars, copyVars, CopyPlace
<1>2. CASE Look
  BY <1>2 DEF Look, CheckExists, CheckWal, MakeTemp, Emit, Cleanup, copyVars, CopyPlace
<1>3. CASE OpenFails \/ ReadSucceeds
  BY <1>3 DEF OpenFails, ReadSucceeds, Return, ReadLiveReturns, ReadCopyReturns,
              copyVars, CopyPlace
<1>4. CASE OpenSucceeds \/ RunStmt
  BY <1>4 DEF OpenSucceeds, RunStmt, lsVars, copyVars, CopyPlace
<1>5. CASE ReportEmpty
  BY <1>5 DEF ReportEmpty, ClientEmits, Emit, copyVars, CopyPlace
<1>6. CASE CopyPage
  BY <1>6 DEF CopyPage, CopyFrame, lsVars, CopyPlace
<1>7. CASE CopyMainEnds
  BY <1>7 DEF CopyMainEnds, CopyFrame, lsVars, CopyPlace
<1>8. CASE CopySidecars
  BY <1>8 DEF CopySidecars, CopyReturns, Emit, CopyPlace
<1>9. CASE Throw
  BY <1>9 DEF Throw, ClientThrows, copyVars, CopyPlace
<1>10. QED
  BY <1>1, <1>2, <1>3, <1>4, <1>5, <1>6, <1>7, <1>8, <1>9 DEF Next, Reader, Step

LEMMA StillStep ==
  ASSUME IInv, CopyPlace, CopyPlace', StillInv, [Next]_vars
  PROVE  StillInv'
<1>1. CASE Browser
  <2>1. quiet' => pc' = "exists"
    BY <1>1, BrowserEndsQuiet DEF lsVars
  <2>2. pc' = "exists" => window' = {cur'} /\ left' = Pages /\ copied' = {}
    BY <1>1, BrowserEndsQuiet DEF lsVars, CopyPlace
  <2>3. QED
    BY <2>1, <2>2 DEF StillInv
<1>2. CASE UNCHANGED vars
  BY <1>2 DEF vars, lsVars, dbVars, pragmas, seenVars, tryVars, copyVars, StillInv, Locked
<1>3. CASE Reader
  <2>1. Locked' = Locked /\ UNCHANGED <<quiet, window, cur, main, wal>>
    BY <1>3, ReaderKeepsStore DEF dbVars, pragmas, seenVars, Locked
  <2>2. pc' = "exists" => pc = "exists"
    BY <1>3 DEF Reader, Step, Look, CheckExists, CheckWal, MakeTemp, Emit, Cleanup, OpenFails,
         OpenSucceeds, Return, ReadLiveReturns, ReadCopyReturns, RunStmt, ReportEmpty, ClientEmits,
         ReadSucceeds, CopyFrame, CopyPage, CopyMainEnds, CopySidecars, CopyReturns, Throw,
         ClientThrows, lsVars
  <2>3. pc' = "exists" \/ quiet' => window' = {cur'}
    BY <2>1, <2>2 DEF StillInv
  <2>4. CASE Look \/ OpenFails \/ OpenSucceeds \/ ReportEmpty \/ ReadSucceeds \/ Throw
    <3>1. UNCHANGED copyVars
      BY <2>4 DEF Look, OpenFails, OpenSucceeds, Return, ReportEmpty, ReadSucceeds, Throw
    <3>2. quiet /\ pc' = "readLive" /\ stmt' # 0 => ~Locked
      BY <2>4 DEF Look, CheckExists, CheckWal, MakeTemp, Emit, Cleanup, OpenFails, OpenSucceeds,
           Return, ReadLiveReturns, ReadCopyReturns, ReportEmpty, ClientEmits, ReadSucceeds, Throw,
           ClientThrows, lsVars, tryVars, StillInv, IInv, RowInv
    <3>3. QED
      BY <2>1, <2>3, <3>1, <3>2 DEF copyVars, StillInv
  <2>5. CASE RunStmt
    BY <2>1, <2>3, <2>5, SqliteAssumption DEF RunStmt, lsVars, copyVars, StillInv
  <2>6. CASE CopyPage
    <3>1. PICK p \in left : cMain' = [cMain EXCEPT ![p] = main[p]] /\ left' = left \ {p}
      BY <2>6 DEF CopyPage
    <3>2. ASSUME NEW q \in Pages \ left', quiet
          PROVE  cMain'[q] = main[q]
      BY <3>1, <3>2 DEF StillInv, IInv, TypeOK, Database
    <3>3. pc' = "copy" /\ UNCHANGED <<copied, cWal>>
      BY <2>6 DEF CopyPage, CopyFrame, lsVars
    <3>4. QED
      BY <2>1, <2>3, <3>2, <3>3 DEF StillInv
  <2>7. CASE CopyMainEnds
    BY <2>1, <2>3, <2>7 DEF CopyMainEnds, CopyFrame, lsVars, StillInv
  <2>8. CASE CopySidecars
    BY <2>1, <2>3, <2>8 DEF CopySidecars, CopyReturns, Emit, StillInv
  <2>9. QED
    BY <1>3, <2>4, <2>5, <2>6, <2>7, <2>8 DEF Reader, Step
<1>4. QED
  BY <1>1, <1>2, <1>3 DEF Next

(* On a quiet store without a journal a statement the database knows       *)
(* answers with what is committed, in place and from a complete copy.      *)
LEMMA QuietAnswer ==
  ASSUME RoReplaysWal, IInv, CopyPlace, StillInv, quiet, ~journal, RunStmt,
         pc = "readCopy" => copied = {"main", "wal"}, stmt \in KnownStmts
  PROVE  Answers(stmt) = {<<cur>>}
<1>1. ReadOnlyView(main, wal) = cur
  BY CommittedView DEF IInv
<1>2. CASE pc = "readLive"
  <2>1. stmt # 0
    BY SqliteAssumption DEF RunStmt
  <2>2. ~Locked /\ ~Hot
    BY <1>2, <2>1 DEF StillInv, Hot
  <2>3. QED
    BY <1>1, <1>2, <2>2 DEF Answers, LiveAnswers
<1>3. CASE pc = "readCopy"
  <2>1. left = {} /\ cWal = wal
    BY <1>3 DEF CopyPlace, StillInv
  <2>2. cMain = main
    BY <2>1 DEF StillInv, IInv, TypeOK, Database
  <2>3. ReadOnlyView(cMain, cWal) = cur /\ cur \in window
    BY <1>1, <2>1, <2>2 DEF StillInv
  <2>4. QED
    BY <1>3, <2>3 DEF Answers, CopyAnswers
<1>4. QED
  BY <1>2, <1>3 DEF RunStmt

LEMMA AnsweredStep ==
  ASSUME RoReplaysWal, IInv, CopyPlace, StillInv, AnsweredInv, [Next]_vars
  PROVE  AnsweredInv'
<1>1. CASE Browser
  BY <1>1, BrowserEndsQuiet DEF AnsweredInv, lsVars, IInv, LSInv, ServedByPlace
<1>2. CASE UNCHANGED vars
  BY <1>2 DEF vars, lsVars, dbVars, seenVars, tryVars, copyVars, AnsweredInv, Complete
<1>3. ASSUME Reader, UNCHANGED out
      PROVE  \A k : Complete(k)' <=> Complete(k)
  BY <1>3, ReaderKeepsStore DEF dbVars, Complete
<1>4. ASSUME NEW k \in {0, 1} PROVE Complete(k)
  BY SqliteAssumption DEF Complete
<1>5. Reader => UNCHANGED <<quiet, journal>>
  BY ReaderKeepsStore DEF dbVars, seenVars
<1>6. pc \in {"readLive", "readCopy", "copy"} => served = {}
  BY DEF IInv, LSInv, ServedByPlace
<1>7. CASE Look
  <2>1. UNCHANGED <<served, out, stmt, copied>> /\ pc' \notin {"readCopy"}
    BY <1>7 DEF Look, CheckExists, CheckWal, MakeTemp, Emit, Cleanup, tryVars, copyVars
  <2>2. pc' = "readLive" => stmt = 0
    BY <1>7 DEF Look, CheckExists, CheckWal, MakeTemp, Emit, Cleanup, IInv, RowInv
  <2>3. Reader
    BY <1>7 DEF Reader, Step
  <2>4. \A k : Complete(k)' <=> Complete(k)
    BY <1>3, <2>1, <2>3
  <2>5. pc' = "readLive" => Complete(stmt)
    BY <1>4, <2>2
  <2>6. QED
    BY <1>5, <2>1, <2>3, <2>4, <2>5 DEF AnsweredInv
<1>8. CASE OpenFails \/ OpenSucceeds
  <2>1. UNCHANGED <<served, out, copied>> /\ stmt' \in {0, 1} /\ Reader
    BY <1>8 DEF OpenFails, OpenSucceeds, Return, ReadLiveReturns, ReadCopyReturns, lsVars, copyVars,
                Reader, Step
  <2>2. \A k : Complete(k)' <=> Complete(k)
    BY <1>3, <2>1
  <2>3. Complete(stmt')
    BY <1>4, <2>1
  <2>4. QED
    BY <1>5, <2>1, <2>2, <2>3 DEF AnsweredInv
<1>9. CASE RunStmt
  <2>1. /\ UNCHANGED <<quiet, journal, cur, lsVars, copied>>
        /\ stmt \in 1 .. NStmts
        /\ stmt' = stmt + 1
        /\ pc \in {"readLive", "readCopy"}
    BY <1>9 DEF RunStmt, dbVars, seenVars, copyVars
  <2>2. served' = {}
    BY <1>6, <2>1 DEF lsVars
  <2>3. ASSUME quiet, ~journal, pc = "readCopy" => copied = {"main", "wal"}
        PROVE  Complete(stmt)'
    <3> SUFFICES ASSUME NEW i \in KnownStmts, i < stmt + 1
                 PROVE  out'[i] = <<cur>>
      BY <2>1 DEF Complete
    <3>1. PICK a \in Answers(stmt) : out' = [out EXCEPT ![stmt] = @ \o a]
      BY <1>9 DEF RunStmt
    <3>2. Complete(stmt)
      BY <2>1, <2>3 DEF AnsweredInv
    <3>3. CASE i = stmt
      <4>1. a = <<cur>>
        BY <1>9, <2>3, <3>1, <3>3, QuietAnswer
      <4>2. out[stmt] = <<>>
        BY <2>1, SqliteAssumption DEF IInv, RowInv, Before
      <4>3. out'[stmt] = <<>> \o a
        BY <2>1, <3>1, <4>2 DEF IInv, TypeOK
      <4>4. a \in Seq(Database)
        BY <3>1, AnswerType DEF IInv
      <4>5. QED
        BY <3>3, <4>1, <4>3, <4>4, ConcatEmptySeq
    <3>4. CASE i # stmt
      <4>1. i < stmt /\ i \in 1 .. NStmts
        BY <2>1, <3>4, SqliteAssumption
      <4>2. out[i] = <<cur>>
        BY <3>2, <4>1 DEF Complete
      <4>3. QED
        BY <2>1, <3>1, <3>4, <4>1, <4>2 DEF IInv, TypeOK
    <3>5. QED
      BY <3>3, <3>4
  <2>4. QED
    BY <2>1, <2>2, <2>3 DEF AnsweredInv, lsVars
<1>10. CASE ReportEmpty \/ Throw
  <2>1. UNCHANGED <<served, out, stmt, copied>> /\ Reader /\ (pc' = pc \/ pc' = "thrown")
    BY <1>10 DEF ReportEmpty, Throw, ClientEmits, ClientThrows, Emit, tryVars, copyVars, Reader, Step
  <2>2. \A k : Complete(k)' <=> Complete(k)
    BY <1>3, <2>1
  <2>3. QED
    BY <1>5, <2>1, <2>2 DEF AnsweredInv
<1>11. CASE ReadSucceeds
  <2>1. /\ UNCHANGED <<out, copied>>
        /\ Reader
        /\ stmt = NStmts + 1
        /\ \/ pc = "readLive" /\ served' = {"live"}
           \/ pc = "readCopy" /\ served' = {"copy"}
        /\ pc' \notin {"readLive", "readCopy"}
    BY <1>6, <1>11 DEF ReadSucceeds, Return, ReadLiveReturns, ReadCopyReturns, copyVars, Reader, Step
  <2>2. \A k : Complete(k)' <=> Complete(k)
    BY <1>3, <2>1
  <2>3. QED
    BY <1>5, <2>1, <2>2 DEF AnsweredInv
<1>12. CASE CopyPage \/ CopyMainEnds
  <2>1. pc' = "copy" /\ served' = {}
    BY <1>6, <1>12 DEF CopyPage, CopyMainEnds, CopyFrame, lsVars
  <2>2. QED
    BY <2>1 DEF AnsweredInv
<1>13. CASE CopySidecars
  <2>1. /\ pc = "copy"
        /\ served' = {}
        /\ UNCHANGED <<stmt, out>>
        /\ pc' # "readLive"
        /\ Reader
    BY <1>6, <1>13 DEF CopySidecars, CopyReturns, Emit, tryVars, Reader, Step
  <2>2. stmt = 0
    BY <2>1 DEF IInv, RowInv
  <2>3. Complete(stmt)'
    BY <1>3, <1>4, <2>1, <2>2
  <2>4. QED
    BY <2>1, <2>3 DEF AnsweredInv
<1>14. QED
  BY <1>1, <1>2, <1>7, <1>8, <1>9, <1>10, <1>11, <1>12, <1>13 DEF Next, Reader, Step

(* A store that is read while its owner keeps still and has no transaction *)
(* half written gives every known statement what is committed, whether it  *)
(* was read in place or from a copy of both files.                         *)
THEOREM SqliteQuietReads ==
  ASSUME RoReplaysWal
  PROVE  Spec => []QuietReadIsComplete
<1> DEFINE Inv == IInv /\ QuietInv
<1>1. Init => QuietInv
  <2> SUFFICES ASSUME Init PROVE QuietInv
    OBVIOUS
  <2>1. CopyPlace
    BY DEF Init, LSInit, CopyPlace
  <2>2. StillInv
    BY DEF Init, LSInit, StillInv
  <2>3. AnsweredInv
    BY DEF Init, LSInit, AnsweredInv
  <2>4. QED
    BY <2>1, <2>2, <2>3 DEF QuietInv
<1>2. IInv /\ QuietInv /\ [Next]_vars => QuietInv'
  BY CopyPlaceStep, StillStep, AnsweredStep DEF QuietInv, IInv
<1>3. IInv /\ QuietInv => QuietReadIsComplete
  <2> SUFFICES ASSUME IInv, QuietInv, quiet, ~journal, served # {},
                      "copy" \in served => copied = {"main", "wal"}, NEW i \in KnownStmts
               PROVE  out[i] = <<cur>>
    BY DEF QuietReadIsComplete
  <2>1. Complete(NStmts + 1)
    BY DEF QuietInv, AnsweredInv
  <2>2. i < NStmts + 1
    BY SqliteAssumption
  <2>3. QED
    BY <2>1, <2>2 DEF Complete
<1>4. QED
  BY <1>1, <1>2, <1>3, SqliteInvariant, PTL DEF Spec

-----------------------------------------------------------------------------
(* The refinement of SnapshotRead                                          *)

Lockable == journalMode = "rollback" \/ lockingMode = "exclusive"

(* A database that its owner cannot lock between two statements answers    *)
(* every statement it knows.                                               *)
UnlockedInv ==
  pc = "readLive" /\ ~Lockable => \A i \in KnownStmts : i < stmt => out[i] # <<>>

LEMMA UnlockedAnswer ==
  ASSUME IInv, ~Lockable, pc = "readLive", NEW i \in KnownStmts
  PROVE  \A a \in Answers(i) : a # <<>>
<1>1. journalMode = "wal"
  BY SqliteAssumption DEF Lockable, IInv, TypeOK
<1>2. ~Locked /\ ~Hot
  BY <1>1 DEF Lockable, Locked, Hot, IInv, DbInv
<1>3. QED
  BY <1>2 DEF Answers, LiveAnswers

LEMMA UnlockedStep ==
  ASSUME IInv, UnlockedInv, [Next]_vars
  PROVE  UnlockedInv'
<1>1. Lockable' = Lockable
  BY DEF Next, Reader, Step, Browser, OpenBrowser, BeginWrite, WritePage, Commit, CommitWal,
         CheckpointPage, CloseBrowser, Crash, BrowserFrame, Look, OpenFails, OpenSucceeds, Return,
         RunStmt, ReportEmpty, ReadSucceeds, CopyFrame, CopyPage, CopyMainEnds, CopySidecars, Throw,
         vars, dbVars, pragmas, Lockable
<1>2. CASE UNCHANGED <<pc, tryVars>>
  BY <1>1, <1>2 DEF tryVars, UnlockedInv
<1>3. CASE pc' # "readLive"
  BY <1>3 DEF UnlockedInv
<1>4. CASE stmt' \in {0, 1}
  BY <1>4, SqliteAssumption DEF UnlockedInv
<1>5. CASE Browser \/ UNCHANGED vars
  BY <1>2, <1>5, BrowserEndsQuiet DEF vars, lsVars
<1>6. CASE Look
  <2>1. pc' = "readLive" => stmt' = 0
    BY <1>6 DEF Look, CheckExists, CheckWal, MakeTemp, Emit, Cleanup, tryVars, IInv, RowInv
  <2>2. QED
    BY <1>3, <1>4, <2>1
<1>7. CASE OpenFails \/ OpenSucceeds \/ ReadSucceeds
  BY <1>4, <1>7 DEF OpenFails, OpenSucceeds, ReadSucceeds, Return
<1>8. CASE RunStmt
  <2> SUFFICES ASSUME pc = "readLive", ~Lockable, NEW i \in KnownStmts, i < stmt + 1
               PROVE  out'[i] # <<>>
    BY <1>1, <1>8 DEF UnlockedInv, RunStmt, lsVars
  <2>1. PICK a \in Answers(stmt) : out' = [out EXCEPT ![stmt] = @ \o a]
    BY <1>8 DEF RunStmt
  <2>2. stmt \in 1 .. NStmts
    BY <1>8 DEF RunStmt
  <2>3. CASE i = stmt
    <3>1. out[stmt] = <<>>
      BY <2>2, SqliteAssumption DEF IInv, RowInv, Before
    <3>2. out'[stmt] = <<>> \o a
      BY <2>1, <2>2, <3>1 DEF IInv, TypeOK
    <3>3. a \in Seq(Database)
      BY <2>1, AnswerType DEF IInv
    <3>4. out'[stmt] = a /\ a # <<>>
      BY <2>1, <2>3, <3>2, <3>3, ConcatEmptySeq, UnlockedAnswer
    <3>5. QED
      BY <2>3, <3>4
  <2>4. CASE i # stmt
    <3>1. i < stmt /\ i \in 1 .. NStmts
      BY <2>2, <2>4, SqliteAssumption
    <3>2. QED
      BY <2>1, <2>2, <2>4, <3>1 DEF UnlockedInv, IInv, TypeOK
  <2>5. QED
    BY <2>3, <2>4
<1>9. CASE ReportEmpty
  BY <1>2, <1>3, <1>9 DEF ReportEmpty, ClientEmits, Emit
<1>10. CASE CopyPage \/ CopyMainEnds \/ CopySidecars \/ Throw
  BY <1>3, <1>10 DEF CopyPage, CopyMainEnds, CopyFrame, CopySidecars, CopyReturns, Emit, Throw,
                     ClientThrows, lsVars
<1>11. QED
  BY <1>5, <1>6, <1>7, <1>8, <1>9, <1>10 DEF Next, Reader, Step

Reported == diags # {}

LEMMA PromiseInit == Init => Promise!Init
<1> SUFFICES ASSUME Init PROVE Promise!Init
  OBVIOUS
<1>1. TypeOK
  BY InitType
<1>2. Status = "waiting"
  BY DEF Init, LSInit, Status
<1>3. QED
  BY <1>1, <1>2 DEF Init, LSInit, TypeOK, Promise!Init

(* A step of the browser is a change of the database.                      *)
LEMMA PromiseBrowser ==
  ASSUME IInv, IInv', Browser
  PROVE  Promise!Change
<1>1. UNCHANGED <<lsVars, out, pragmas>>
  BY BrowserEndsQuiet DEF Browser, OpenBrowser, BeginWrite, WritePage, Commit, CommitWal,
         CheckpointPage, CloseBrowser, Crash, BrowserFrame, tryVars
<1>2. UNCHANGED <<Status, out, Reported, Lockable>>
  BY <1>1 DEF lsVars, pragmas, Status, Reported, Lockable
<1>3. present' \in {present, TRUE}
  BY DEF Browser, OpenBrowser, BeginWrite, WritePage, Commit, CommitWal, CheckpointPage,
         CloseBrowser, Crash
<1>4. cur' \in Database
  BY DEF IInv, TypeOK
<1>5. window' = IF pc = "exists" THEN {cur'} ELSE window \cup {cur'}
  BY DEF Browser, OpenBrowser, BeginWrite, WritePage, Commit, CommitWal, CheckpointPage,
         CloseBrowser, Crash, BrowserFrame, Observed
<1>6. Status = "waiting" <=> pc = "exists"
  BY DEF Status
<1>7. QED
  BY <1>2, <1>3, <1>4, <1>5, <1>6 DEF Promise!Change, Reported, Lockable

(* The parts of the abstract state that a reader leaves alone.             *)
LEMMA PromiseFrame ==
  ASSUME Reader
  PROVE  UNCHANGED <<present, cur, window, Lockable>>
  BY ReaderKeepsStore DEF dbVars, pragmas, seenVars, Lockable

(* A statement that answers gives one database, of the window as long as   *)
(* nothing has been reported.                                              *)
LEMMA PromiseRunStmt ==
  ASSUME RoReplaysWal, IInv, RunStmt
  PROVE  [Promise!Next]_(Promise!vars)
<1>1. PICK a \in Answers(stmt) : out' = [out EXCEPT ![stmt] = @ \o a]
  BY DEF RunStmt
<1>2. /\ stmt \in 1 .. NStmts
      /\ pc \in {"readLive", "readCopy"}
      /\ UNCHANGED <<pc, diags>>
  BY DEF RunStmt, lsVars
<1>3. UNCHANGED <<present, cur, window, Lockable>>
  BY PromiseFrame DEF Reader, Step
<1>4. Status = "reading" /\ UNCHANGED <<Status, Reported>>
  BY <1>2 DEF Status, Reported
<1>5. out[stmt] = <<>> /\ out'[stmt] = a
  <2>1. out[stmt] = <<>>
    BY <1>2, SqliteAssumption DEF IInv, RowInv, Before
  <2>2. out'[stmt] = <<>> \o a
    BY <1>1, <1>2, <2>1 DEF IInv, TypeOK
  <2>3. a \in Seq(Database)
    BY <1>1, AnswerType DEF IInv
  <2>4. QED
    BY <2>1, <2>2, <2>3, ConcatEmptySeq
<1>6. CASE a = <<>>
  <2>1. out' = out
    BY <1>1, <1>2, <1>5, <1>6 DEF IInv, TypeOK
  <2>2. QED
    BY <1>3, <1>4, <2>1 DEF Promise!vars, Reported, Lockable
<1>7. CASE a # <<>>
  <2>1. PICK d \in Database : a = <<d>>
    BY <1>1, <1>7, AnswerShape DEF IInv
  <2>2. out' = [out EXCEPT ![stmt] = <<d>>]
    BY <1>1, <1>2, <1>5, <2>1 DEF IInv, TypeOK
  <2>3. ~Reported => d \in window
    <3> SUFFICES ASSUME ~Reported PROVE d \in window
      OBVIOUS
    <3>1. pc = "readLive"
      BY <1>2 DEF IInv, LSInv, CopyIsAnnounced, Reported
    <3>2. ~Locked /\ ~Hot /\ a = <<ReadOnlyView(main, wal)>>
      BY <1>1, <1>7, <3>1 DEF Answers, LiveAnswers
    <3>3. ~journal
      BY <3>2 DEF Locked, Hot, IInv, DbInv
    <3>4. d = cur
      BY <2>1, <3>2, <3>3, CommittedView DEF IInv
    <3>5. QED
      BY <3>4 DEF IInv, DbInv
  <2>4. Promise!Answer(stmt)
    BY <1>3, <1>4, <1>5, <2>2, <2>3 DEF Promise!Answer, Reported, Lockable
  <2>5. QED
    BY <1>2, <2>4 DEF Promise!Next
<1>8. QED
  BY <1>6, <1>7

LEMMA PromiseReader ==
  ASSUME RoReplaysWal, IInv, UnlockedInv, Reader
  PROVE  [Promise!Next]_(Promise!vars)
<1>1. UNCHANGED <<present, cur, window, Lockable>>
  BY PromiseFrame
<1>2. CASE RunStmt
  BY <1>2, PromiseRunStmt
<1>3. ASSUME UNCHANGED <<out, diags, Status>>
      PROVE  [Promise!Next]_(Promise!vars)
  BY <1>1, <1>3 DEF Promise!vars, Reported, Lockable
<1>4. ASSUME UNCHANGED out, Status = "reading", Reported', Status' \in {"reading", "failed", "ended"}
      PROVE  [Promise!Next]_(Promise!vars)
  BY <1>1, <1>4 DEF Promise!Next, Promise!Report, Reported, Lockable
<1>5. ASSUME UNCHANGED <<out, diags>>, Status = "reading", Status' = "failed"
      PROVE  [Promise!Next]_(Promise!vars)
  BY <1>1, <1>5 DEF Promise!Next, Promise!Fail, Reported, Lockable
<1>6. ASSUME UNCHANGED <<out, diags>>, Status = "reading", Status' = "ended",
             Reported \/ Lockable \/ \A i \in KnownStmts : out[i] # <<>>
      PROVE  [Promise!Next]_(Promise!vars)
  BY <1>1, <1>6 DEF Promise!Next, Promise!End, Reported, Lockable
<1>7. CASE Look
  <2>1. UNCHANGED out
    BY <1>7 DEF Look, tryVars
  <2>2. CASE CheckExists(present)
    <3>1. Status = "waiting" /\ Status' = (IF present THEN "reading" ELSE "ended")
      BY <2>2 DEF CheckExists, Status
    <3>2. QED
      BY <1>1, <2>1, <2>2, <3>1 DEF CheckExists, Promise!Next, Promise!Begin, Reported, Lockable
  <2>3. CASE CheckWal(WalNonEmpty)
    <3>1. UNCHANGED <<Status, diags>>
      BY <2>3 DEF CheckWal, Status
    <3>2. QED
      BY <1>3, <2>1, <3>1
  <2>4. CASE MakeTemp
    <3>1. Status = "reading"
      BY <2>4 DEF MakeTemp, Status
    <3>2. \/ UNCHANGED <<Status, diags>>
          \/ UNCHANGED diags /\ Status' = "failed"
          \/ Reported' /\ Status' \in {"failed", "ended"}
      BY <2>4 DEF MakeTemp, Emit, Status, Reported
    <3>3. QED
      BY <1>3, <1>4, <1>5, <2>1, <3>1, <3>2
  <2>5. CASE Cleanup
    <3>1. UNCHANGED diags /\ Status = "reading" /\ Status' = "ended"
      BY <2>5 DEF Cleanup, Status
    <3>2. Reported
      BY <2>5 DEF Cleanup, Reported, IInv, LSInv, SaidByPlace
    <3>3. QED
      BY <1>6, <2>1, <3>1, <3>2
  <2>6. QED
    BY <1>7, <2>2, <2>3, <2>4, <2>5 DEF Look
<1>8. CASE OpenFails
  <2>1. UNCHANGED <<out, diags, Status>>
    BY <1>8 DEF OpenFails, Return, ReadLiveReturns, ReadCopyReturns, Status
  <2>2. QED
    BY <1>3, <2>1
<1>9. CASE OpenSucceeds \/ CopyPage \/ CopyMainEnds
  <2>1. UNCHANGED <<out, diags, Status>>
    BY <1>9 DEF OpenSucceeds, CopyPage, CopyMainEnds, CopyFrame, lsVars, tryVars, Status
  <2>2. QED
    BY <1>3, <2>1
<1>10. CASE ReportEmpty
  <2>1. UNCHANGED out /\ Status = "reading" /\ Reported' /\ Status' \in {"reading", "failed"}
    BY <1>10 DEF ReportEmpty, ClientEmits, Emit, tryVars, Status, Reported
  <2>2. QED
    BY <1>4, <2>1
<1>11. CASE ReadSucceeds
  <2>1. UNCHANGED <<out, diags>> /\ Status = "reading"
    BY <1>11 DEF ReadSucceeds, Return, ReadLiveReturns, ReadCopyReturns, Status
  <2>2. CASE pc = "readCopy"
    <3>1. UNCHANGED Status
      BY <1>11, <2>2 DEF ReadSucceeds, Return, ReadLiveReturns, ReadCopyReturns, Status
    <3>2. QED
      BY <1>3, <2>1, <3>1
  <2>3. CASE pc = "readLive"
    <3>1. Status' = "ended"
      BY <1>11, <2>3 DEF ReadSucceeds, Return, ReadLiveReturns, ReadCopyReturns, Status
    <3>2. Lockable \/ \A i \in KnownStmts : out[i] # <<>>
      BY <1>11, <2>3, SqliteAssumption DEF ReadSucceeds, UnlockedInv
    <3>3. QED
      BY <1>6, <2>1, <3>1, <3>2
  <2>4. QED
    BY <1>11, <2>2, <2>3 DEF ReadSucceeds, Return, ReadLiveReturns, ReadCopyReturns
<1>12. CASE CopySidecars
  <2>1. UNCHANGED out /\ Status = "reading" /\ Reported' /\ Status' \in {"reading", "failed"}
    BY <1>12 DEF CopySidecars, CopyReturns, Emit, tryVars, Status, Reported
  <2>2. QED
    BY <1>4, <2>1
<1>13. CASE Throw
  <2>1. UNCHANGED <<out, diags>> /\ Status = "reading" /\ Status' = "failed"
    BY <1>13 DEF Throw, ClientThrows, tryVars, Status
  <2>2. QED
    BY <1>5, <2>1
<1>14. QED
  BY <1>2, <1>7, <1>8, <1>9, <1>10, <1>11, <1>12, <1>13 DEF Reader, Step

(* A SQLite reader, with its locks, files, copies and exceptions, keeps    *)
(* what SnapshotRead promises: an answer that nothing was said about is a  *)
(* database committed during the read, and a read that ends short of its   *)
(* answers has said so or met an owner that may lock it out.               *)
THEOREM SqliteImplementsSnapshotRead ==
  ASSUME RoReplaysWal
  PROVE  Spec => ImplementsSnapshotRead
<1>1. Init => UnlockedInv /\ Promise!Init
  BY PromiseInit DEF Init, LSInit, UnlockedInv
<1>2. IInv /\ UnlockedInv /\ [Next]_vars => UnlockedInv'
  BY UnlockedStep
<1>3. IInv /\ IInv' /\ UnlockedInv /\ [Next]_vars => [Promise!Next]_(Promise!vars)
  <2> SUFFICES ASSUME IInv, IInv', UnlockedInv, [Next]_vars
               PROVE  [Promise!Next]_(Promise!vars)
    OBVIOUS
  <2>1. CASE Browser
    BY <2>1, PromiseBrowser DEF Promise!Next
  <2>2. CASE Reader
    BY <2>2, PromiseReader
  <2>3. CASE UNCHANGED vars
    BY <2>3 DEF vars, lsVars, dbVars, pragmas, seenVars, tryVars, Status, Promise!vars
  <2>4. QED
    BY <2>1, <2>2, <2>3 DEF Next
<1>4. QED
  BY <1>1, <1>2, <1>3, SqliteInvariant, PTL DEF Spec, ImplementsSnapshotRead, Promise!Spec
=============================================================================
