SPECIFICATION Spec
CONSTANTS
  MaximumClusterNumber = 6
  RootDirectoryCluster = 2
  DirectoryClusters = {2}
  Files = {f1, f2}
  NoFile = none
  BytesPerCluster = 1
  Bytes = {u}
  Uninitialised = u
  UInt32Modulus = 1000
  MaxWriteLength = 2
  MaxFileSize = 3
  MaxFaults = 2
INVARIANTS
  SizeIsCovered
  CommittedDisjoint
PROPERTIES
  CommittedDataStable
SYMMETRY FileSymmetry
