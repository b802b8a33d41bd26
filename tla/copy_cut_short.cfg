\* The browser removes a directory before the iterator enters it; every file
\* can be read and readdir does not fail.
SPECIFICATION CopySpec
CONSTANTS
  dir = dir
  cache = cache
  inDir = inDir
  inCache = inCache
  file = file
  link = link
  shortcut = shortcut
  Root = Root
  Nodes = {dir, cache, inDir, inCache, file, link, shortcut}
  Parent <- MCParent
  Above <- MCAbove
  Kind <- MCKind
  Target <- MCTarget
  CacheNamed = {cache}
  Unreadable = {}
  Sizes = {1, 2}
  Sources <- EmptyDir
  MaxPaths = 1
  MaxEdits = 1
  ListingMayFail = FALSE
INVARIANTS
  OkMeansComplete
CHECK_DEADLOCK FALSE
