\* Entries in two data files of which one can be loaded, data in the first
\* and in an external file, a key that is not HTTP; the browser may change
\* the cache before and during the walk.
SPECIFICATION Spec
CONSTANTS
  X = X
  Y = Y
  Z = Z
  DX = DX
  DY = DY
  a = a
  b = b
  c = c
  f1 = f1
  f2 = f2
  fx = fx
  Null = Null
  Keys = {a, b, c}
  Http = {a, b}
  Blocks = {X, Y, Z}
  Streams = {DX, DY}
  Files = {f1, f2, fx}
  External = {fx}
  FileOf <- Spread
  NBuckets = 2
  BucketOf <- TwoBuckets
  Unreadable = {f2}
  MaxChanges = 4
INVARIANTS
  TypeOK
  QuietWalkIsExact
  ReportedWasCached
PROPERTIES
  WalkEnds
CHECK_DEADLOCK FALSE
