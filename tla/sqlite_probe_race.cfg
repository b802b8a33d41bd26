\* The lock is taken between the probe and the query.
SPECIFICATION Spec
CONSTANTS
  p1 = p1
  p2 = p2
  Pages = {p1, p2}
  Exceptions = {}
  NStmts = 1
  KnownStmts = {1}
  ReportsEmpty = FALSE
  JournalModes = {"rollback"}
  LockingModes = {"normal"}
  RoReplaysWal = TRUE
  Checkpoints = FALSE
  IoMayFail = FALSE
  MaxCommits = 1
INVARIANTS
  NoSilentLoss
