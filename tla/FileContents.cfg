SPECIFICATION SequentialSpec
CONSTANTS
  MaximumClusterNumber = 7
  RootDirectoryCluster = 2
  DirectoryClusters = {2}
  Files = {f1, f2}
  NoFile = none
  BytesPerCluster = 2
  Bytes = {a, b}
  Uninitialised = u
  UInt32Modulus = 1000
  MaxWriteLength = 2
  MaxFileSize = 3
  MaxFaults = 0
PROPERTIES
  ImplementsByteFile
SYMMETRY FileAndByteSymmetry
