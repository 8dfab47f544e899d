--------------------------- MODULE MCDirectoryLookup ---------------------------
(* TLC instances of DirectoryLookup.  Names are interchangeable, and so are *)
(* the clusters but that of the root directory.                             *)
EXTENDS DirectoryLookup

NamesAndClusters == Permutations(Names) \cup Permutations(Clusters \ {RootDirectoryCluster})

=============================================================================
