\* Captures of two profiles, queries of Web Data, copies of a profile, messages
\* of the system profile, variations seeds and bodies, one call each.
SPECIFICATION LibrarySpec
CONSTANTS
  x = x
  y = y
  g1 = g1
  g2 = g2
  name = name
  company = company
  street = street
  dir = dir
  cache = cache
  inDir = inDir
  inCache = inCache
  file = file
  link = link
  shortcut = shortcut
  NProfiles = 2
  Items = {x, y}
  Scenes <- MCCalls
  Rewrites <- MCRewrites
  Busy = {1}
  RestMayThrow = TRUE
  MaxRewrites = 2
  Guids = {g1, g2}
  Vals = {1, 2}
  NoVal = NoVal
  Fields = {name, company, street}
  Useful = {name}
  TokenFields = {name, street}
  Street = street
  RowSets <- MCRowSets
  Cards = {1}
  Engines = {1, 2}
  Databases <- MCDatabases
  MaxCommits = 2
  Root = Root
  Nodes = {dir, cache, inDir, inCache, file, link, shortcut}
  Parent <- MCParent
  Above <- MCAbove
  Kind <- MCKind
  Target <- MCTarget
  CacheNamed = {cache}
  Unreadable = {file}
  Sizes = {1, 2}
  Sources <- MCCopies
  MaxPaths = 1
  MaxEdits = 1
  ListingMayFail = TRUE
  Group = 4
  Width = 8
  FieldWidth = 5
  Fixed64 = 2
  Fixed32 = 1
  WireFields <- MCWireFields
  Messages <- MCMessages
  Noise <- MCNoise
  WantedPaths <- MCPaths
  AccBits = 16
  Chunk = 4
  Seeds <- MCSeeds
  Encodings = {"identity", "gzip", "br", "zstd"}
  States = {"whole", "corrupt"}
  MaxPlain = 12
  BufSize = 3
  Ratio = 2
  Ceiling = 6
INVARIANTS
  LibraryTypeOK
  QuietProfileIsExact
  MovedExtensionIsKept
  ThrowsForAReason
  RootIsFound
  GuidsUnique
  FieldsFromOwnRows
  MigratedAddressIsKept
  QuietMergeIsExact
  SteadyFilesArrive
  CountersMatchTree
  CachesStayBehind
  FindIsExact
  TurnsAreBounded
  Base64IsExact
  SeedIsAllOrNothing
  DecompressIsExact
PROPERTIES
  LibraryCallsEnd
  FirstValueStays
CHECK_DEADLOCK FALSE
