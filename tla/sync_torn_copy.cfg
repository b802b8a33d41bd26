\* Files are deleted between two copy_file calls: the copy cannot be opened.
SPECIFICATION Spec
CONSTANTS
  Exceptions = {}
  DeviceWrites = {2}
  MaxWrites = 2
  MaxFile = 5
  Unreadable = {}
  OpenMayFail = FALSE
INVARIANTS
  LiveCopyWasRead
CHECK_DEADLOCK FALSE
