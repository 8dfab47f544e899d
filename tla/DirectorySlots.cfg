SPECIFICATION Spec
CONSTANTS
  n1 = n1
  n2 = n2
  n3 = n3
  f = f
  g = g
  Names = {n1, n2, n3}
  LfnSlots <- MCLfnSlots
  BasisName <- MCBasisName
  NoName = none
  SlotsPerCluster = 2
  MaxClusters = 4
  MayRename = TRUE
  MaxPowerLosses = 2
INVARIANTS
  NothingAfterEnd
  OrphansEndACluster
  ShortNamesUnique
PROPERTY
  OthersUntouched
