\* Searches for a body or for a header, with a cap on the text and without;
\* entries of four encodings and two sizes, whole or damaged, longer than the
\* cap or not, one without a body; data in two block files, of which one
\* cannot be loaded, and an external one.
SPECIFICATION Spec
CONSTANTS
  X = X
  Y = Y
  Z = Z
  DX = DX
  DY = DY
  DZ = DZ
  a = a
  b = b
  c = c
  p = p
  q = q
  r = r
  f1 = f1
  f2 = f2
  fx = fx
  Null = Null
  Keys = {a, b, c, p, q, r}
  Http = {a, b, c, p, q, r}
  Blocks = {X, Y, Z}
  Streams = {DX, DY, DZ}
  Files = {f1, f2, fx}
  External = {fx}
  FileOf <- MCFileOf
  NBuckets = 1
  BucketOf <- OneBucket
  MaxChanges = 3
  Filters <- MCFilters
  HeaderOf <- MCHeaders
  Bodiless = {r}
  Encoding <- Mixed
  SizeOf <- TwoSizes
  Damaged = {q}
  Holds = {a, b, p}
  Long = {a, b}
  Late = {a}
  Dense = {p}
  Unreadable = {f2}
INVARIANTS
  QuietSearchIsExact
  MetadataSearchIsExact
  CountersAddUp
CHECK_DEADLOCK FALSE
