------------------------- MODULE FAT32BlockIOAdapter -------------------------
(***************************************************************************)
(* The file allocation table of a mounted FAT32 volume, as the class       *)
(* FAT32BlockIOAdapter reads and writes it.  Every other part of the       *)
(* filesystem allocates, links and frees clusters through these operators. *)
(*                                                                         *)
(* A FAT update is a read-modify-write of the one sector that holds the    *)
(* entry, so an entry changes atomically, but two entries never change     *)
(* together.  Sectors, LBAs and the read buffer are abstracted away.  The  *)
(* second copy of the FAT is absent: the code never writes it.             *)
(***************************************************************************)
EXTENDS Integers

CONSTANTS
  MaximumClusterNumber, \* sectors per FAT * entries per sector
  RootDirectoryCluster  \* first cluster of the root directory

FAT32EntryFree == 0
FAT32EntryDefective == 268435447            \* 0x0FFFFFF7
FAT32EntryEOFThreshold == 268435448         \* 0x0FFFFFF8
FAT32EntryAllocatedAndEndOfFile == 268435455 \* 0x0FFFFFFF

ASSUME VolumeAssumption ==
  /\ MaximumClusterNumber \in Nat
  /\ RootDirectoryCluster \in Nat
  /\ 2 <= RootDirectoryCluster
  /\ RootDirectoryCluster < MaximumClusterNumber
  /\ MaximumClusterNumber < FAT32EntryDefective

VARIABLES
  fat,                     \* the entries of the FAT on the device
  last_empty_cluster_found \* the allocation hint, volatile, 0 after Mount

adapterVars == <<fat, last_empty_cluster_found>>

\* The clusters that have an entry in the FAT: 0 and 1 are reserved.
Cluster == 2 .. (MaximumClusterNumber - 1)

\* An entry is free, the next cluster of a chain, or an end of chain mark.
FATEntry ==
  Cluster \cup {FAT32EntryFree, FAT32EntryEOFThreshold, FAT32EntryAllocatedAndEndOfFile}

IsEndOfChain(entry) == entry >= FAT32EntryEOFThreshold

IsClusterOutOfRange(cluster) ==
  \/ cluster < 2
  \/ cluster > MaximumClusterNumber /\ cluster < FAT32EntryDefective

-----------------------------------------------------------------------------
(* Finding a cluster.  The search only moves forward.                      *)

StartingCluster(starting_cluster) ==
  IF starting_cluster # 0 THEN starting_cluster
  ELSE IF last_empty_cluster_found > RootDirectoryCluster
       THEN last_empty_cluster_found
       ELSE RootDirectoryCluster

\* Mutant: any entry is taken for a free one.
AnyClustersFrom(starting_cluster) == {c \in Cluster : c >= StartingCluster(starting_cluster)}

EmptyClustersFrom(starting_cluster) ==
  {c \in Cluster : c >= StartingCluster(starting_cluster) /\ fat[c] = FAT32EntryFree}

\* FAT32_DEVICE_FULL, or FAT32_CLUSTER_OUT_OF_RANGE past the last entry.
NoEmptyCluster(starting_cluster) == EmptyClustersFrom(starting_cluster) = {}

\* The search succeeds with `found'.  It marks nothing: it only raises the hint.
FindNextEmptyCluster(starting_cluster, found) ==
  /\ found \in EmptyClustersFrom(starting_cluster)
  /\ \A c \in EmptyClustersFrom(starting_cluster) : found <= c
  /\ last_empty_cluster_found' =
       IF found > last_empty_cluster_found THEN found ELSE last_empty_cluster_found

-----------------------------------------------------------------------------
(* Updating an entry.  Zero may be written: that is how a cluster is freed.*)

\* Mutant: an end mark is refused, it exceeds the number of the last cluster.
UpdateFATTableEntryButMarks(cluster, new_value) ==
  fat' = IF new_value > MaximumClusterNumber THEN fat ELSE [fat EXCEPT ![cluster] = new_value]

UpdateFATTableEntry(cluster, new_value) ==
  /\ ~IsClusterOutOfRange(cluster)
  /\ new_value = FAT32EntryFree \/ ~IsClusterOutOfRange(new_value)
  /\ fat' = [fat EXCEPT ![cluster] = new_value]

-----------------------------------------------------------------------------
(* Following a chain.                                                      *)

\* The entry is read from the FAT as it is, whatever it holds.
NextClusterInChain(cluster) == fat[cluster]

\* ChainWalk(c)[n] is what n calls of NextClusterInChain from c lead to; a
\* walk stays where it is once it has left the clusters of the volume.
ChainWalk(first_cluster) ==
  LET walk[n \in 0 .. MaximumClusterNumber] ==
        IF n = 0 THEN first_cluster
        ELSE LET here == walk[n - 1]
             IN  IF here \in Cluster THEN NextClusterInChain(here) ELSE here
  IN  walk

\* The clusters the walk visits.
ChainClusters(first_cluster) ==
  LET visited[S \in SUBSET Cluster] ==
        LET next == {NextClusterInChain(c) : c \in S} \cap Cluster
        IN  IF next \subseteq S THEN S ELSE visited[S \cup next]
  IN  visited[{first_cluster} \cap Cluster]

\* The number of clusters the walk visits before it leaves the volume.
ChainLength(first_cluster) ==
  LET walk == ChainWalk(first_cluster)
  IN  IF walk[MaximumClusterNumber] \in Cluster
      THEN MaximumClusterNumber
      ELSE CHOOSE n \in 0 .. MaximumClusterNumber :
             walk[n] \notin Cluster /\ \A m \in 0 .. (n - 1) : walk[m] \in Cluster

=============================================================================
