\* A database in either journal mode, locked or not, read while the browser
\* commits, checkpoints, closes, crashes and starts again.
SPECIFICATION Spec
CONSTANTS
  p1 = p1
  p2 = p2
  Pages = {p1, p2}
  Exceptions = {"callback", "tempPath", "client"}
  NStmts = 3
  KnownStmts = {1, 3}
  ReportsEmpty = TRUE
  JournalModes = {"wal", "rollback"}
  LockingModes = {"normal", "exclusive"}
  RoReplaysWal = TRUE
  Checkpoints = TRUE
  IoMayFail = TRUE
  MaxCommits = 2
INVARIANTS
  TypeOK
  RowsOnce
  UnflaggedRowsAreSnapshots
  QuietReadIsComplete
  NoTempDirLeaks
  DiagnosticsNameThePath
PROPERTIES
  ImplementsSnapshotRead
  ReadEnds
