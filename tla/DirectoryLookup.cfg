SPECIFICATION Spec
CONSTANTS
  Names = {a, b}
  Dot = dot
  DotDot = dotdot
  NoName = none
  Clusters = {root, c1, c2, c3}
  RootDirectoryCluster = root
  NamedSlots = 2
  MaxDepth = 3
  MaxCached = 2
  MaxIndexed = 4
  Careful = TRUE
SYMMETRY NamesAndClusters
CHECK_DEADLOCK FALSE
INVARIANTS
  CacheIsTrue
  LookupsAreTrue
