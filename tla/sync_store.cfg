\* The LevelDB store read in place or copied while the browser works on it.
SPECIFICATION Spec
CONSTANTS
  Exceptions = {"client"}
  DeviceWrites = {2}
  MaxWrites = 2
  MaxFile = 5
  Unreadable = {"log"}
  OpenMayFail = TRUE
INVARIANTS
  TypeOK
  StoreSurvives
  InPlaceIsExact
  QuietSyncIsComplete
PROPERTIES
  SyncEnds
\* The reader returns and the browser may have closed the store for good.
CHECK_DEADLOCK FALSE
