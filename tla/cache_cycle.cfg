\* Entries in two data files, read at different moments.
SPECIFICATION Spec
CONSTANTS
  X = X
  Y = Y
  Z = Z
  DX = DX
  DY = DY
  a = a
  b = b
  c = c
  f1 = f1
  f2 = f2
  fx = fx
  Null = Null
  Keys = {a, b}
  Http = {a, b}
  Blocks = {X, Y}
  Streams = {DX, DY}
  Files = {f1, f2, fx}
  External = {fx}
  FileOf <- TwoFiles
  NBuckets = 1
  BucketOf <- OneBucket
  Unreadable = {}
  MaxChanges = 5
PROPERTIES
  WalkEnds
CHECK_DEADLOCK FALSE
