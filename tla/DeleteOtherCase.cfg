SPECIFICATION Spec
CONSTANTS
  MaximumClusterNumber = 5
  RootDirectoryCluster = 2
  Names = {n1, n2}
  Cases = {lower, upper}
  NoName = none
  SlotsPerCluster = 2
  Careful = TRUE
  MayRename = FALSE
  LossPoints = {}
  MaxOpen = 1
  MaxPowerLosses = 0
INVARIANT OpenFilesAreNotDeleted
