\* The slot of a body is used again between the capture and the search.
SPECIFICATION Spec
CONSTANTS
  X = X
  Y = Y
  Z = Z
  DX = DX
  DY = DY
  DZ = DZ
  a = a
  b = b
  c = c
  p = p
  q = q
  r = r
  f1 = f1
  f2 = f2
  fx = fx
  Null = Null
  Keys = {a, b, c}
  Http = {a, b}
  Blocks = {X, Y, Z}
  Streams = {DX}
  Files = {f1, f2, fx}
  External = {fx}
  FileOf <- MCFileOf
  NBuckets = 1
  BucketOf <- OneBucket
  MaxChanges = 4
  Filters <- OnlyAnyBody
  HeaderOf <- MCHeaders
  Bodiless = {}
  Encoding <- Plain
  SizeOf <- SameSize
  Damaged = {}
  Holds = {a, b}
  Long = {}
  Late = {}
  Dense = {}
  Unreadable = {}
INVARIANTS
  HitBodyIsOwn
CHECK_DEADLOCK FALSE
