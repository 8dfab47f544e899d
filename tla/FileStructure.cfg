SPECIFICATION Spec
CONSTANTS
  MaximumClusterNumber = 7
  RootDirectoryCluster = 2
  DirectoryClusters = {2, 4}
  Files = {f1, f2}
  NoFile = none
  BytesPerCluster = 2
  Bytes = {u}
  Uninitialised = u
  UInt32Modulus = 1000
  MaxWriteLength = 3
  MaxFileSize = 4
  MaxFaults = 0
INVARIANTS
  NoCrossLink
  NoDanglingLink
  NoLostCluster
  PositionConsistent
PROPERTIES
  CallReturns
