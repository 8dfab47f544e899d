SPECIFICATION Spec
CONSTANTS
  MaximumClusterNumber = 6
  RootDirectoryCluster = 2
  Names = {n1, n2}
  Cases = {lower}
  NoName = none
  SlotsPerCluster = 2
  Careful = TRUE
  MayRename = TRUE
  LossPoints = {}
  MaxOpen = 1
  MaxPowerLosses = 0
INVARIANTS
  NothingLost
  NamesUnique
  OpenFilesKeepTheirEntries
PROPERTY
  OperationEnds
