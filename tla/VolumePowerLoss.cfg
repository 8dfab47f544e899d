SPECIFICATION Spec
CONSTANTS
  MaximumClusterNumber = 6
  RootDirectoryCluster = 2
  Names = {n1, n2}
  Cases = {lower}
  NoName = none
  SlotsPerCluster = 2
  Careful = TRUE
  MayRename = TRUE
  LossPoints = {"idle", "create", "link", "release", "allocate", "publish", "extend", "write",
                "mkdir", "undo_mkdir"}
  MaxOpen = 1
  MaxPowerLosses = 1
INVARIANTS
  TreeAllocated
  TreeDisjoint
SYMMETRY NameSymmetry
