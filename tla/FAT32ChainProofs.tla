--------------------------- MODULE FAT32ChainProofs ---------------------------
(***************************************************************************)
(* Theorems about FAT32File that speak of whole chains: what a directory   *)
(* entry promises is there, and nobody else's, whatever failed and whenever*)
(* the power went; a file is where its offsets say; until something fails  *)
(* no cluster is lost; and to a program that only extends it, a file is a  *)
(* sequence of bytes.                                                      *)
(***************************************************************************)
EXTENDS FAT32FileProofs, DataLemmas

-----------------------------------------------------------------------------
(* Walking a chain, for any table of entries: ChainWalk is defined of the  *)
(* FAT as it is in one state, its lemmas are about the two of a step.      *)

WalkIn(table, first) ==
  LET walk[n \in 0 .. MaximumClusterNumber] ==
        IF n = 0 THEN first
        ELSE LET here == walk[n - 1]
             IN  IF here \in Cluster THEN table[here] ELSE here
  IN  walk

OneStep(table, here) == IF here \in Cluster THEN table[here] ELSE here

IsWalk(walk, table, first, length) ==
  walk = [n \in 0 .. length |-> IF n = 0 THEN first ELSE OneStep(table, walk[n - 1])]

(* There is a walk of every length.                                        *)
LEMMA WalksExist ==
  ASSUME NEW table, NEW first
  PROVE  \A n \in Nat : \E walk : IsWalk(walk, table, first, n)
<1> DEFINE S == {n \in Nat : \E walk : IsWalk(walk, table, first, n)}
<1>1. 0 \in S
  <2>1. IsWalk([n \in 0 .. 0 |-> first], table, first, 0)
    BY DEF IsWalk
  <2> QED
    BY <2>1
<1>2. ASSUME NEW n \in Nat, n \in S
      PROVE  n + 1 \in S
  <2>1. PICK walk : IsWalk(walk, table, first, n)
    BY <1>2
  <2> DEFINE longer == [m \in 0 .. (n + 1) |-> IF m = n + 1 THEN OneStep(table, walk[n]) ELSE walk[m]]
  <2>2. \A m \in 0 .. n : walk[m] = IF m = 0 THEN first ELSE OneStep(table, walk[m - 1])
    BY <2>1 DEF IsWalk
  <2>3. \A m \in 0 .. (n + 1) : longer[m] = IF m = 0 THEN first ELSE OneStep(table, longer[m - 1])
    BY <2>2
  <2>4. IsWalk(longer, table, first, n + 1)
    BY <2>3 DEF IsWalk
  <2> QED
    BY <2>4
<1>3. Nat \subseteq S
  <2> HIDE DEF S
  <2> QED
    BY <1>1, <1>2, EveryNatural
<1> QED
  BY <1>3

(* The recursive function is one: it starts at the first cluster and goes  *)
(* from each to what its entry holds.                                      *)
LEMMA WalkSteps ==
  ASSUME NEW table, NEW first
  PROVE  /\ WalkIn(table, first)[0] = first
         /\ \A n \in 0 .. (MaximumClusterNumber - 1) :
              WalkIn(table, first)[n + 1] = OneStep(table, WalkIn(table, first)[n])
<1>1. \E walk : IsWalk(walk, table, first, MaximumClusterNumber)
  BY WalksExist, VolumeAssumption
<1>2. \E walk : walk = [n \in 0 .. MaximumClusterNumber |->
                          IF n = 0 THEN first
                          ELSE LET here == walk[n - 1]
                               IN  IF here \in Cluster THEN table[here] ELSE here]
  BY <1>1 DEF IsWalk, OneStep
<1>3. WalkIn(table, first) = [n \in 0 .. MaximumClusterNumber |->
                                IF n = 0 THEN first
                                ELSE LET here == WalkIn(table, first)[n - 1]
                                     IN  IF here \in Cluster THEN table[here] ELSE here]
  BY <1>2 DEF WalkIn
<1>4. \A n \in 0 .. MaximumClusterNumber :
        WalkIn(table, first)[n] = IF n = 0 THEN first ELSE OneStep(table, WalkIn(table, first)[n - 1])
  BY <1>3 DEF OneStep
<1> QED
  BY <1>4, VolumeAssumption

(* A walk of the FAT is one of its table, before a step and after it.      *)
LEMMA WalkOfFAT ==
  ASSUME NEW f \in Files
  PROVE  /\ ChainWalk(directory[f].first) = WalkIn(fat, directory[f].first)
         /\ ChainWalk(directory[f].first)' = WalkIn(fat', directory'[f].first)
         /\ ChainWalk(first_cluster_[f]) = WalkIn(fat, first_cluster_[f])
BY DEF ChainWalk, WalkIn, NextClusterInChain

(* A walk that meets no entry that another table has otherwise is a walk   *)
(* of that table, too.                                                     *)
SameFor(table, other, first, length) ==
  \A n \in 0 .. (length - 1) : WalkIn(table, first)[n] \in Cluster =>
    other[WalkIn(table, first)[n]] = table[WalkIn(table, first)[n]]

(* Wherever one has got by the number of steps given.                      *)
LEMMA WalkSame ==
  ASSUME NEW table, NEW other, NEW first, NEW N \in 0 .. MaximumClusterNumber,
         SameFor(table, other, first, N)
  PROVE  \A n \in 0 .. N : WalkIn(other, first)[n] = WalkIn(table, first)[n]
<1> DEFINE S == {n \in 0 .. N : WalkIn(other, first)[n] = WalkIn(table, first)[n]}
<1>1. 0 \in S
  BY WalkSteps
<1>2. ASSUME NEW n \in 0 .. (N - 1), n \in S
      PROVE  n + 1 \in S
  <2>1. n \in 0 .. (MaximumClusterNumber - 1) /\ n + 1 \in 0 .. N
    BY VolumeAssumption
  <2>2. /\ WalkIn(other, first)[n + 1] = OneStep(other, WalkIn(other, first)[n])
        /\ WalkIn(table, first)[n + 1] = OneStep(table, WalkIn(table, first)[n])
    BY <2>1, WalkSteps
  <2> QED
    BY <1>2, <2>1, <2>2 DEF OneStep, SameFor
<1>3. 0 .. N \subseteq S
  <2>1. N \in Nat
    BY VolumeAssumption
  <2> HIDE DEF S
  <2> QED
    BY <1>1, <1>2, <2>1, EveryNumberTo
<1> QED
  BY <1>3

(* Links that only lead forward, to greater cluster numbers.               *)
IsForward(table) ==
  /\ table \in [Cluster -> FATEntry]
  /\ \A c \in Cluster : table[c] \in Cluster => c < table[c]

(* A walk along such links has been in clusters wherever it is in one, and *)
(* has climbed by one with each step: it passes no cluster twice and ends  *)
(* before it has gone as many steps as there are clusters.                 *)
LEMMA WalkClimbs ==
  ASSUME NEW table, IsForward(table), NEW first
  PROVE  \A n \in 0 .. MaximumClusterNumber : WalkIn(table, first)[n] \in Cluster =>
           /\ n + 2 <= WalkIn(table, first)[n]
           /\ \A m \in 0 .. (n - 1) : /\ WalkIn(table, first)[m] \in Cluster
                                      /\ WalkIn(table, first)[m] < WalkIn(table, first)[n]
<1> DEFINE w == WalkIn(table, first)
           Climbed(n) == w[n] \in Cluster =>
                           /\ n + 2 <= w[n]
                           /\ \A m \in 0 .. (n - 1) : w[m] \in Cluster /\ w[m] < w[n]
           S == {n \in 0 .. MaximumClusterNumber : Climbed(n)}
<1>1. 0 \in S
  BY VolumeAssumption DEF Cluster
<1>2. ASSUME NEW n \in 0 .. (MaximumClusterNumber - 1), n \in S
      PROVE  n + 1 \in S
  <2>1. w[n + 1] = OneStep(table, w[n]) /\ n + 1 \in 0 .. MaximumClusterNumber
    BY WalkSteps, VolumeAssumption
  <2> SUFFICES ASSUME w[n + 1] \in Cluster
               PROVE  /\ n + 3 <= w[n + 1]
                      /\ \A m \in 0 .. n : w[m] \in Cluster /\ w[m] < w[n + 1]
    BY <2>1
  <2>2. w[n] \in Cluster /\ w[n] < w[n + 1]
    BY <2>1 DEF OneStep, IsForward
  <2>3. n + 2 <= w[n] /\ \A m \in 0 .. (n - 1) : w[m] \in Cluster /\ w[m] < w[n]
    BY <1>2, <2>2
  <2> HIDE DEF w
  <2>4. \A c \in Cluster : c \in Nat
    BY ClusterNumbers
  <2>5. n + 3 <= w[n + 1]
    BY <2>2, <2>3, <2>4
  <2>6. ASSUME NEW m \in 0 .. n PROVE w[m] \in Cluster /\ w[m] < w[n + 1]
    BY <2>2, <2>3, <2>4
  <2> QED
    BY <2>5, <2>6
<1>3. 0 .. MaximumClusterNumber \subseteq S
  <2> HIDE DEF S
  <2> QED
    BY <1>1, <1>2, EveryNumberTo, VolumeAssumption
<1> QED
  BY <1>3

-----------------------------------------------------------------------------
(***************************************************************************)
(* What files hold.  A failure may leave a link to a cluster that another  *)
(* file then takes, so that chains do meet behind what their files hold:   *)
(* the first cluster, the clusters that the size needs, in the directory   *)
(* or in the object, and those an open file has come to.  This is what the *)
(* induction is about.                                                     *)
(***************************************************************************)
Start(n) == n * BytesPerCluster

Chain(f) == WalkIn(fat, directory[f].first)

Held(f) ==
  {n \in 0 .. MaximumClusterNumber :
     \/ n = 0 /\ directory[f].first # 0
     \/ Start(n) < directory[f].size
     \/ f \in open /\ Start(n) < size_[f]
     \/ /\ f \in open /\ current_cluster_[f] # 0
        /\ Start(n) + byte_offset_into_cluster_[f] <= byte_offset_into_file_[f]}

(* What is held is allocated to the file, and to no other.                 *)
HeldAllocated ==
  \A f \in Files : \A n \in Held(f) :
    /\ Chain(f)[n] \in Cluster \ DirectoryClusters
    /\ fat[Chain(f)[n]] # FAT32EntryFree

HeldApart ==
  \A f, g \in Files : \A m \in Held(f), n \in Held(g) : Chain(f)[m] = Chain(g)[n] => f = g

(* The fields of an object agree with its entry in the directory.  Where a *)
(* device error kept the new size from the directory, the object has it.   *)
ObjectAgrees(f) ==
  /\ first_cluster_[f] = directory[f].first
  /\ directory[f].size <= size_[f]
  /\ directory[f].first = 0 => size_[f] = 0
  /\ current_cluster_[f] = 0 <=> directory[f].first = 0
  /\ current_cluster_[f] = 0 => byte_offset_into_file_[f] = 0 /\ byte_offset_into_cluster_[f] = 0

ObjectsAgree ==
  /\ \A f \in Files : directory[f].first = 0 => directory[f].size = 0
  /\ \A f \in open : ObjectAgrees(f)

(* An open file is in the cluster its offsets tell.                        *)
IsAt(f, n) ==
  /\ byte_offset_into_file_[f] = Start(n) + byte_offset_into_cluster_[f]
  /\ Chain(f)[n] = current_cluster_[f]

InPosition ==
  \A f \in open : current_cluster_[f] # 0 => \E n \in 0 .. MaximumClusterNumber : IsAt(f, n)

(* How far the call in progress has come: it is at the end of its cluster  *)
(* when it goes on to the next one, which the size of the file needs when  *)
(* it is followed and not when it is added.                                *)
CallUnderWay ==
  LET f == call.file
      position == byte_offset_into_file_[f]
  IN
  /\ pc # "idle" => f \in open
  /\ pc \in {"allocate", "publish"} => current_cluster_[f] = 0
  /\ pc \in {"seek", "seek_next", "read_next", "copy", "advance", "mark"} => current_cluster_[f] # 0
  /\ pc \in {"seek_next", "read_next", "advance", "mark"} =>
       byte_offset_into_cluster_[f] = BytesPerCluster
  /\ pc \in {"seek", "seek_next"} => call.target <= size_[f]
  /\ pc = "seek_next" => position < call.target
  /\ pc = "read_next" => position < size_[f]
  /\ pc = "mark" => size_[f] <= position

(* The cluster that is allocated but not entered, or linked but not marked.*)
NewClusterIsNew ==
  /\ pc = "publish" =>
       /\ new_cluster \in Cluster \ DirectoryClusters
       /\ fat[new_cluster] # FAT32EntryFree
       /\ \A f \in Files : \A n \in Held(f) : Chain(f)[n] # new_cluster
  /\ pc = "mark" =>
       /\ new_cluster \in Cluster
       /\ fat[new_cluster] = FAT32EntryFree
       /\ fat[current_cluster_[call.file]] = new_cluster

ChainInv ==
  /\ TypeInv /\ IsForward(fat) /\ DirectoriesAllocated
  /\ HeldAllocated /\ HeldApart
  /\ ObjectsAgree /\ InPosition /\ CallUnderWay /\ NewClusterIsNew

-----------------------------------------------------------------------------
(* Where clusters start.                                                   *)
LEMMA StartFacts ==
  /\ Start(0) = 0
  /\ \A n \in Nat : Start(n) \in Nat /\ Start(n + 1) = Start(n) + BytesPerCluster
  /\ \A m, n \in Nat : Start(m) <= Start(n) <=> m <= n
<1>1. BytesPerCluster \in Nat \ {0}
  BY FileAssumption
<1>2. ASSUME NEW m \in Nat, NEW n \in Nat, m <= n PROVE Start(m) <= Start(n)
  <2>1. n * BytesPerCluster = m * BytesPerCluster + (n - m) * BytesPerCluster
    BY <1>1
  <2>2. (n - m) * BytesPerCluster \in Nat
    BY <1>1, <1>2
  <2> QED
    BY <1>1, <2>1, <2>2 DEF Start
<1>3. \A n \in Nat : Start(n) \in Nat /\ Start(n + 1) = Start(n) + BytesPerCluster
  BY <1>1 DEF Start
<1>4. ASSUME NEW m \in Nat, NEW n \in Nat, n < m PROVE Start(n) < Start(m)
  <2>1. Start(n + 1) <= Start(m)
    BY <1>2, <1>4
  <2> QED
    BY <1>1, <1>3, <2>1
<1>5. Start(0) = 0
  BY <1>1 DEF Start
<1> QED
  BY <1>2, <1>3, <1>4, <1>5, SMTT(60)

(* What a file holds is the beginning of its chain: without gaps, in       *)
(* clusters that climb, and shorter than the volume.                       *)
LEMMA HeldIsPrefix ==
  ASSUME TypeInv, NEW f \in Files, NEW n \in Held(f), NEW m \in 0 .. n
  PROVE  m \in Held(f)
<1>1. n \in Nat /\ m \in Nat /\ m <= n /\ m \in 0 .. MaximumClusterNumber
  BY VolumeAssumption DEF Held
<1>2. Start(m) \in Nat /\ Start(n) \in Nat /\ Start(m) <= Start(n)
  BY <1>1, StartFacts
<1>3. /\ directory[f].size \in Nat
      /\ size_[f] \in Nat /\ byte_offset_into_cluster_[f] \in Nat /\ byte_offset_into_file_[f] \in Nat
  BY FileAssumption DEF TypeInv, TypeOK, DeviceTypeOK, ObjectTypeOK
<1> QED
  BY <1>1, <1>2, <1>3 DEF Held

(* The clusters a file holds climb, each linked from the one before it.    *)
LEMMA HeldClimbs ==
  ASSUME IsForward(fat), HeldAllocated, NEW f \in Files, NEW n \in Held(f)
  PROVE  /\ n + 2 <= Chain(f)[n] /\ n + 3 <= MaximumClusterNumber
         /\ Chain(f)[n + 1] = fat[Chain(f)[n]]
         /\ \A m \in 0 .. (n - 1) : Chain(f)[m] < Chain(f)[n]
<1>1. n \in 0 .. MaximumClusterNumber /\ Chain(f)[n] \in Cluster
  BY DEF Held, HeldAllocated
<1>2. n + 2 <= Chain(f)[n] /\ \A m \in 0 .. (n - 1) : Chain(f)[m] < Chain(f)[n]
  BY <1>1, WalkClimbs DEF Chain
<1>3. n + 3 <= MaximumClusterNumber
  BY <1>1, <1>2, VolumeAssumption DEF Cluster
<1>4. n \in 0 .. (MaximumClusterNumber - 1)
  BY <1>1, <1>3, VolumeAssumption
<1> QED
  BY <1>1, <1>2, <1>3, <1>4, WalkSteps DEF Chain, OneStep

(* A file that holds anything has a first cluster.                         *)
LEMMA HoldsFirst ==
  ASSUME TypeInv, HeldAllocated, NEW f \in Files, NEW n \in Held(f)
  PROVE  directory[f].first \in Cluster /\ directory[f].first # 0
<1>1. 0 \in Held(f)
  <2>1. 0 \in 0 .. n
    BY VolumeAssumption DEF Held
  <2> QED
    BY <2>1, HeldIsPrefix
<1>2. Chain(f)[0] = directory[f].first
  BY WalkSteps DEF Chain
<1> QED
  BY <1>1, <1>2, ClusterNumbers DEF HeldAllocated, FAT32EntryFree

(* A file that is open is in a cluster it holds.                           *)
LEMMA PlaceHeld ==
  ASSUME TypeInv, NEW f \in open, NEW n \in 0 .. MaximumClusterNumber,
         current_cluster_[f] # 0, IsAt(f, n)
  PROVE  n \in Held(f)
<1>1. /\ f \in Files /\ Start(n) \in Nat /\ byte_offset_into_cluster_[f] \in Nat
  BY StartFacts, FileAssumption DEF TypeInv, TypeOK, ObjectTypeOK
<1> QED
  BY <1>1 DEF Held, IsAt

(* No size and no position is so great that a difference would wrap.       *)
LEMMA SizesFit ==
  ASSUME ChainInv, NEW f \in open
  PROVE  /\ size_[f] \in Nat /\ size_[f] < UInt32Modulus
         /\ byte_offset_into_file_[f] \in Nat /\ byte_offset_into_file_[f] < UInt32Modulus
<1> DEFINE M == MaximumClusterNumber
<1>1. /\ f \in Files /\ size_[f] \in Nat /\ byte_offset_into_file_[f] \in Nat
      /\ byte_offset_into_cluster_[f] \in 0 .. BytesPerCluster
  BY DEF ChainInv, TypeInv, TypeOK, ObjectTypeOK
<1>2. M \in Nat /\ M >= 3 /\ BytesPerCluster \in Nat \ {0}
  BY VolumeAssumption, FileAssumption
<1>3. Start(M - 2) + BytesPerCluster = Start(M - 1) /\ Start(M - 1) + BytesPerCluster = Start(M)
      /\ Start(M - 2) \in Nat /\ Start(M) <= UInt32Modulus /\ UInt32Modulus \in Nat
  <2>1. (M - 2) + 1 = M - 1 /\ (M - 1) + 1 = M /\ M - 2 \in Nat /\ M - 1 \in Nat
    BY <1>2
  <2>2. Start(M) <= UInt32Modulus
    BY OffsetsFit DEF Start
  <2> QED
    BY <2>1, <2>2, StartFacts, FileAssumption
<1>4. M - 2 \notin Held(f)
  BY <1>1, <1>2, HeldClimbs DEF ChainInv
<1>5. size_[f] <= Start(M - 2)
  BY <1>1, <1>2, <1>3, <1>4 DEF Held
<1>6. byte_offset_into_file_[f] <= Start(M - 1)
  <2>1. CASE current_cluster_[f] = 0
    BY <1>2, <1>3, <2>1 DEF ChainInv, ObjectsAgree, ObjectAgrees
  <2>2. CASE current_cluster_[f] # 0
    <3>1. PICK n \in 0 .. M : IsAt(f, n)
      BY <2>2 DEF ChainInv, InPosition
    <3>2. n \in Held(f)
      BY <2>2, <3>1, PlaceHeld DEF ChainInv
    <3>3. n + 3 <= M /\ n \in Nat
      BY <1>1, <3>2, HeldClimbs DEF ChainInv
    <3>4. Start(n) <= Start(M - 2)
      BY <1>2, <3>3, StartFacts
    <3>5. Start(n) \in Nat
      BY <3>3, StartFacts
    <3> QED
      BY <1>1, <1>2, <1>3, <3>1, <3>4, <3>5 DEF IsAt
  <2> QED
    BY <2>1, <2>2
<1> QED
  BY <1>1, <1>2, <1>3, <1>5, <1>6

(* A difference that is not negative does not wrap.                        *)
LEMMA UIntMinusFits ==
  ASSUME NEW a \in Nat, NEW b \in Nat, b <= a, a < UInt32Modulus
  PROVE  UIntMinus(a, b) = a - b
BY FileAssumption DEF UIntMinus

-----------------------------------------------------------------------------
(* Steps that write no entry of the FAT.                                   *)

HeldStays == \A f \in Files : \A n \in Held(f) : Chain(f)'[n] = Chain(f)[n]

(* A file that holds no more than it did holds it as it did.               *)
LEMMA FATUntouched ==
  ASSUME ChainInv, TypeInv', UNCHANGED fat,
         \A f \in Files : directory'[f].first = directory[f].first,
         \A f \in Files : Held(f)' \subseteq Held(f)
  PROVE  /\ \A f \in Files : Chain(f)' = Chain(f)
         /\ IsForward(fat)' /\ DirectoriesAllocated' /\ HeldAllocated' /\ HeldApart'
<1>1. ASSUME NEW f \in Files PROVE Chain(f)' = Chain(f)
  BY DEF Chain
<1>2. IsForward(fat)' /\ DirectoriesAllocated'
  BY DEF ChainInv, IsForward, DirectoriesAllocated
<1>3. HeldAllocated'
  BY <1>1 DEF ChainInv, HeldAllocated
<1>4. HeldApart'
  BY <1>1 DEF ChainInv, HeldApart
<1> QED
  BY <1>1, <1>2, <1>3, <1>4

(* Nothing moves, or the files that are open become fewer.                 *)
LEMMA StaysPut ==
  ASSUME ChainInv, TypeInv', UNCHANGED <<fat, directory>>, open' \subseteq open,
         \A f \in open' :
           /\ size_'[f] = size_[f] /\ first_cluster_'[f] = first_cluster_[f]
           /\ current_cluster_'[f] = current_cluster_[f]
           /\ byte_offset_into_cluster_'[f] = byte_offset_into_cluster_[f]
           /\ byte_offset_into_file_'[f] = byte_offset_into_file_[f],
         pc' \notin {"publish", "mark"}, CallUnderWay'
  PROVE  ChainInv' /\ HeldStays
<1>1. \A f \in Files : Held(f)' \subseteq Held(f)
  BY DEF Held
<1>2. /\ \A f \in Files : Chain(f)' = Chain(f)
      /\ IsForward(fat)' /\ DirectoriesAllocated' /\ HeldAllocated' /\ HeldApart'
  BY <1>1, FATUntouched
<1>3. open' \subseteq Files
  BY DEF TypeInv, TypeOK, ObjectTypeOK
<1>4. ObjectsAgree'
  BY DEF ChainInv, ObjectsAgree, ObjectAgrees
<1>5. InPosition'
  BY <1>2, <1>3 DEF ChainInv, InPosition, IsAt
<1>6. NewClusterIsNew'
  BY DEF NewClusterIsNew
<1> QED
  BY <1>2, <1>4, <1>5, <1>6 DEF ChainInv, HeldStays

(* A file moves to a place in a cluster it holds.                          *)
LEMMA MovesTo ==
  ASSUME ChainInv, TypeInv', UNCHANGED <<fat, directory, open, size_, first_cluster_>>,
         NEW f \in open, NEW n \in Held(f),
         current_cluster_'[f] = Chain(f)[n],
         byte_offset_into_file_'[f] = Start(n) + byte_offset_into_cluster_'[f],
         \A g \in Files \ {f} :
           /\ current_cluster_'[g] = current_cluster_[g]
           /\ byte_offset_into_cluster_'[g] = byte_offset_into_cluster_[g]
           /\ byte_offset_into_file_'[g] = byte_offset_into_file_[g],
         pc' \notin {"publish", "mark"}, CallUnderWay'
  PROVE  ChainInv' /\ HeldStays
<1>0. f \in Files /\ open \subseteq Files /\ open' \subseteq Files
  BY DEF ChainInv, TypeInv, TypeOK, ObjectTypeOK
<1>1. n \in 0 .. MaximumClusterNumber /\ Chain(f)[n] \in Cluster /\ Chain(f)[n] # 0
  BY <1>0, ClusterNumbers DEF ChainInv, HeldAllocated, Held, FAT32EntryFree
<1>2. ASSUME NEW g \in Files PROVE Held(g)' \subseteq Held(g)
  <2>1. CASE g = f
    <3>1. ASSUME NEW m \in 0 .. MaximumClusterNumber,
                 Start(m) + byte_offset_into_cluster_'[f] <= byte_offset_into_file_'[f]
          PROVE  m \in Held(f)
      <4>1. byte_offset_into_cluster_'[f] \in Nat
        BY <1>0, FileAssumption DEF TypeInv, TypeOK, ObjectTypeOK
      <4>2. m \in Nat /\ n \in Nat /\ Start(m) \in Nat /\ Start(n) \in Nat
        BY <1>1, VolumeAssumption, StartFacts, SMTT(60)
      <4>3. m <= n
        BY <3>1, <4>1, <4>2, StartFacts, SMTT(60)
      <4> QED
        BY <1>0, <4>2, <4>3, HeldIsPrefix DEF ChainInv
    <3> QED
      BY <2>1, <3>1 DEF Held
  <2>2. CASE g # f
    BY <2>2 DEF Held
  <2> QED
    BY <2>1, <2>2
<1>3. /\ \A g \in Files : Chain(g)' = Chain(g)
      /\ IsForward(fat)' /\ DirectoriesAllocated' /\ HeldAllocated' /\ HeldApart'
  BY <1>2, FATUntouched
<1>4. directory[f].first # 0
  BY <1>0, HoldsFirst DEF ChainInv
<1>5. ObjectsAgree'
  <2>1. \A g \in open \ {f} : ObjectAgrees(g)'
    BY <1>0 DEF ChainInv, ObjectsAgree, ObjectAgrees
  <2>2. ObjectAgrees(f)'
    BY <1>0, <1>1, <1>4 DEF ChainInv, ObjectsAgree, ObjectAgrees
  <2> QED
    BY <2>1, <2>2 DEF ChainInv, ObjectsAgree
<1>6. InPosition'
  <2>1. IsAt(f, n)'
    BY <1>0, <1>3 DEF IsAt, Start
  <2>2. ASSUME NEW g \in open', current_cluster_'[g] # 0, g # f
        PROVE  \E m \in 0 .. MaximumClusterNumber : IsAt(g, m)'
    BY <1>0, <1>3, <2>2 DEF ChainInv, InPosition, IsAt
  <2> QED
    BY <1>1, <2>1, <2>2 DEF InPosition
<1>7. NewClusterIsNew'
  BY DEF NewClusterIsNew
<1> QED
  BY <1>3, <1>5, <1>6, <1>7 DEF ChainInv, HeldStays

(* A call begins, where the file is.                                       *)
LEMMA BeginKeeps ==
  ASSUME ChainInv, TypeInv', NEW kind, NEW f, NEW buffer, NEW target, NEW label,
         label \in {"seek_from", "read", "allocate", "copy", "resize"},
         label = "allocate" => current_cluster_[f] = 0,
         label = "copy" => current_cluster_[f] # 0,
         Begin(Call(kind, f, buffer, target), label)
  PROVE  ChainInv' /\ HeldStays
<1>1. call'.file = f /\ f \in open /\ pc' = label
  BY DEF Begin, Call
<1>2. UNCHANGED <<fat, directory, open, size_, first_cluster_, current_cluster_,
                  byte_offset_into_cluster_, byte_offset_into_file_>>
  BY DEF Begin, adapterVars, objectVars, positionVars
<1>3. CallUnderWay'
  BY <1>1, <1>2 DEF CallUnderWay
<1> QED
  BY <1>1, <1>2, <1>3, StaysPut

(* An object starts at the beginning of what the directory says, and knows *)
(* no more of the file than that.                                          *)
LEMMA OpenKeeps ==
  ASSUME ChainInv, TypeInv', NEW f \in Files, OpenFile(f)
  PROVE  ChainInv' /\ HeldStays
<1>0. /\ open \subseteq Files /\ f \notin open /\ open' = open \cup {f}
      /\ UNCHANGED <<fat, directory>> /\ pc = "idle" /\ pc' = "idle"
  BY DEF ChainInv, TypeInv, TypeOK, ObjectTypeOK, OpenFile, adapterVars
<1>1. /\ size_'[f] = directory[f].size /\ first_cluster_'[f] = directory[f].first
      /\ current_cluster_'[f] = directory[f].first
      /\ byte_offset_into_cluster_'[f] = 0 /\ byte_offset_into_file_'[f] = 0
  BY DEF ChainInv, TypeInv, TypeOK, ObjectTypeOK, OpenFile
<1>2. \A g \in Files \ {f} :
        /\ size_'[g] = size_[g] /\ first_cluster_'[g] = first_cluster_[g]
        /\ current_cluster_'[g] = current_cluster_[g]
        /\ byte_offset_into_cluster_'[g] = byte_offset_into_cluster_[g]
        /\ byte_offset_into_file_'[g] = byte_offset_into_file_[g]
  BY DEF ChainInv, TypeInv, TypeOK, ObjectTypeOK, OpenFile
<1>3. ASSUME NEW g \in Files PROVE Held(g)' \subseteq Held(g)
  <2>1. CASE g = f
    <3>1. ASSUME NEW m \in 0 .. MaximumClusterNumber, Start(m) + 0 <= 0
          PROVE  m = 0
      BY <3>1, StartFacts, VolumeAssumption, FileAssumption DEF Start
    <3> QED
      BY <1>0, <1>1, <2>1, <3>1 DEF Held
  <2>2. CASE g # f
    BY <1>0, <1>2, <2>2 DEF Held
  <2> QED
    BY <2>1, <2>2
<1>4. /\ \A g \in Files : Chain(g)' = Chain(g)
      /\ IsForward(fat)' /\ DirectoriesAllocated' /\ HeldAllocated' /\ HeldApart'
  BY <1>0, <1>3, FATUntouched
<1>5. ObjectsAgree'
  <2>1. \A g \in open : ObjectAgrees(g)'
    BY <1>0, <1>2 DEF ChainInv, ObjectsAgree, ObjectAgrees
  <2>2. ObjectAgrees(f)'
    BY <1>0, <1>1 DEF ChainInv, ObjectsAgree, ObjectAgrees, TypeInv, TypeOK, DeviceTypeOK
  <2> QED
    BY <1>0, <2>1, <2>2 DEF ChainInv, ObjectsAgree
<1>6. InPosition'
  <2>1. IsAt(f, 0)'
    BY <1>0, <1>1, <1>4, StartFacts, WalkSteps DEF IsAt, Chain, Start
  <2>2. ASSUME NEW g \in open, current_cluster_'[g] # 0
        PROVE  \E m \in 0 .. MaximumClusterNumber : IsAt(g, m)'
    BY <1>0, <1>2, <1>4, <2>2 DEF ChainInv, InPosition, IsAt
  <2> QED
    BY <1>0, <2>1, <2>2, VolumeAssumption DEF InPosition
<1>7. CallUnderWay' /\ NewClusterIsNew'
  BY <1>0 DEF CallUnderWay, NewClusterIsNew
<1> QED
  BY <1>4, <1>5, <1>6, <1>7 DEF ChainInv, HeldStays

(* Opening and closing a file, and the beginning of a call, move nothing.  *)
LEMMA BeginCallKeeps ==
  ASSUME ChainInv, TypeInv', BeginCall
  PROVE  ChainInv' /\ HeldStays
<1>1. PICK f \in Files :
        \/ OpenFile(f)
        \/ CloseFile(f)
        \/ \E position \in 0 .. MaxFileSize : SeekCall(f, position)
        \/ \E space \in 0 .. MaxFileSize : ReadCall(f, space)
        \/ \E buffer \in Buffers : WriteCall(f, buffer) \/ AppendCall(f, buffer)
  BY DEF BeginCall
<1>2. CASE OpenFile(f)
  BY <1>2, OpenKeeps
<1>3. CASE CloseFile(f)
  <2>1. /\ UNCHANGED <<fat, directory>> /\ open' = open \ {f} /\ pc' = "idle"
        /\ open \subseteq Files
    BY <1>3 DEF CloseFile, adapterVars, ChainInv, TypeInv, TypeOK, ObjectTypeOK
  <2>2. \A g \in open' :
          /\ size_'[g] = size_[g] /\ first_cluster_'[g] = first_cluster_[g]
          /\ current_cluster_'[g] = current_cluster_[g]
          /\ byte_offset_into_cluster_'[g] = byte_offset_into_cluster_[g]
          /\ byte_offset_into_file_'[g] = byte_offset_into_file_[g]
    BY <1>3, <2>1 DEF CloseFile, ChainInv, TypeInv, TypeOK, ObjectTypeOK
  <2>3. CallUnderWay'
    BY <2>1 DEF CallUnderWay
  <2> QED
    BY <2>1, <2>2, <2>3, StaysPut
<1>4. ASSUME NEW position \in 0 .. MaxFileSize, SeekCall(f, position)
      PROVE  ChainInv' /\ HeldStays
  BY <1>4, BeginKeeps DEF SeekCall
<1>5. ASSUME NEW space \in 0 .. MaxFileSize, ReadCall(f, space)
      PROVE  ChainInv' /\ HeldStays
  BY <1>5, BeginKeeps DEF ReadCall
<1>6. ASSUME NEW buffer \in Buffers, WriteCall(f, buffer)
      PROVE  ChainInv' /\ HeldStays
  <2>1. /\ WriteEntry(current_cluster_[f], buffer) \in {"allocate", "copy", "resize"}
        /\ WriteEntry(current_cluster_[f], buffer) = "allocate" => current_cluster_[f] = 0
        /\ WriteEntry(current_cluster_[f], buffer) = "copy" => current_cluster_[f] # 0
    BY DEF WriteEntry
  <2> QED
    BY <1>6, <2>1, BeginKeeps DEF WriteCall
<1>7. ASSUME NEW buffer \in Buffers, AppendCall(f, buffer)
      PROVE  ChainInv' /\ HeldStays
  BY <1>7, BeginKeeps DEF AppendCall
<1> QED
  BY <1>1, <1>2, <1>3, <1>4, <1>5, <1>6, <1>7

(* The size grows to where the file is, in the object and perhaps in the   *)
(* directory: the file holds as far as that.                               *)
LEMMA SizeGrows ==
  ASSUME ChainInv, TypeInv', NEW f \in open, byte_offset_into_file_[f] > size_[f],
         UNCHANGED <<fat, open, first_cluster_, positionVars>>,
         size_' = [size_ EXCEPT ![f] = byte_offset_into_file_[f]],
         \/ directory' = directory
         \/ directory' = [directory EXCEPT ![f].size = byte_offset_into_file_[f]],
         pc' = "idle"
  PROVE  ChainInv' /\ HeldStays
<1>0. /\ f \in Files /\ open \subseteq Files /\ pc' = "idle"
      /\ UNCHANGED <<current_cluster_, byte_offset_into_cluster_, byte_offset_into_file_>>
      /\ size_[f] \in Nat /\ byte_offset_into_file_[f] \in Nat
      /\ byte_offset_into_cluster_[f] \in 0 .. BytesPerCluster
  BY DEF ChainInv, TypeInv, TypeOK, ObjectTypeOK, positionVars
<1>1. /\ size_'[f] = byte_offset_into_file_[f]
      /\ \A g \in Files \ {f} : size_'[g] = size_[g]
  BY <1>0 DEF ChainInv, TypeInv, TypeOK, ObjectTypeOK
<1>2. /\ \A g \in Files : directory'[g].first = directory[g].first
      /\ \A g \in Files \ {f} : directory'[g].size = directory[g].size
      /\ directory'[f].size = directory[f].size \/ directory'[f].size = byte_offset_into_file_[f]
  BY <1>0 DEF ChainInv, TypeInv, TypeOK, DeviceTypeOK
<1>3. current_cluster_[f] # 0
  BY <1>0 DEF ChainInv, ObjectsAgree, ObjectAgrees
<1>4. PICK n \in 0 .. MaximumClusterNumber : IsAt(f, n)
  BY <1>3 DEF ChainInv, InPosition
<1>5. n \in Held(f)
  BY <1>3, <1>4, PlaceHeld DEF ChainInv
<1>6. ASSUME NEW m \in 0 .. MaximumClusterNumber, Start(m) < byte_offset_into_file_[f]
      PROVE  m \in Held(f)
  <2>1. m \in Nat /\ n \in Nat /\ n + 1 \in Nat /\ BytesPerCluster \in Nat
    BY VolumeAssumption, FileAssumption
  <2>2. Start(m) \in Nat /\ Start(n) \in Nat /\ Start(n + 1) = Start(n) + BytesPerCluster
        /\ (Start(n + 1) <= Start(m) <=> n + 1 <= m)
    BY <2>1, StartFacts
  <2>3. m <= n
    BY <1>0, <1>4, <1>6, <2>1, <2>2 DEF IsAt
  <2> QED
    BY <1>0, <1>5, <2>1, <2>3, HeldIsPrefix DEF ChainInv
<1>7. ASSUME NEW g \in Files PROVE Held(g)' \subseteq Held(g)
  <2>1. CASE g = f
    BY <1>0, <1>1, <1>2, <1>6, <2>1 DEF Held, Start
  <2>2. CASE g # f
    BY <1>0, <1>1, <1>2, <2>2 DEF Held
  <2> QED
    BY <2>1, <2>2
<1>8. /\ \A g \in Files : Chain(g)' = Chain(g)
      /\ IsForward(fat)' /\ DirectoriesAllocated' /\ HeldAllocated' /\ HeldApart'
  BY <1>2, <1>7, FATUntouched
<1>9. directory[f].first # 0
  BY <1>0, <1>5, HoldsFirst DEF ChainInv
<1>10. ObjectsAgree'
  <2>1. \A g \in Files : directory'[g].first = 0 => directory'[g].size = 0
    BY <1>2, <1>9 DEF ChainInv, ObjectsAgree
  <2>2. \A g \in open \ {f} : ObjectAgrees(g)'
    BY <1>0, <1>1, <1>2 DEF ChainInv, ObjectsAgree, ObjectAgrees
  <2>3. directory'[f].size <= size_'[f]
    <3>1. directory[f].size \in Nat /\ directory[f].size <= size_[f]
      BY <1>0 DEF ChainInv, ObjectsAgree, ObjectAgrees, TypeInv, TypeOK, DeviceTypeOK
    <3> QED
      BY <1>0, <1>1, <1>2, <3>1
  <2>4. ObjectAgrees(f)'
    BY <1>0, <1>1, <1>2, <1>3, <1>9, <2>3 DEF ChainInv, ObjectsAgree, ObjectAgrees
  <2> QED
    BY <2>1, <2>2, <2>4 DEF ObjectsAgree
<1>11. InPosition'
  BY <1>0, <1>8 DEF ChainInv, InPosition, IsAt
<1>12. CallUnderWay' /\ NewClusterIsNew'
  BY DEF CallUnderWay, NewClusterIsNew
<1> QED
  BY <1>8, <1>10, <1>11, <1>12 DEF ChainInv, HeldStays

(* Power losses, and errors of the device.                                 *)
LEMMA FaultsKeep ==
  ASSUME ChainInv, TypeInv', DeviceError \/ PowerLoss
  PROVE  ChainInv' /\ HeldStays
<1>1. UNCHANGED <<fat, directory>> /\ pc' = "idle" /\ CallUnderWay'
  BY DEF DeviceError, PowerLoss, Return, CallUnderWay
<1>2. CASE PowerLoss
  BY <1>1, <1>2, StaysPut DEF PowerLoss
<1>3. CASE DeviceError /\ UNCHANGED size_
  BY <1>1, <1>3, StaysPut DEF DeviceError, positionVars
<1>4. CASE DeviceError /\ ~UNCHANGED size_
  <2>1. /\ pc = "resize" /\ byte_offset_into_file_[call.file] > size_[call.file]
        /\ size_' = [size_ EXCEPT ![call.file] = byte_offset_into_file_[call.file]]
        /\ UNCHANGED <<open, first_cluster_, positionVars>>
    BY <1>4 DEF DeviceError
  <2>2. call.file \in open
    BY <2>1 DEF ChainInv, CallUnderWay
  <2> QED
    BY <1>1, <2>1, <2>2, SizeGrows
<1> QED
  BY <1>2, <1>3, <1>4

(* Where an open file is, in terms of what it holds.                       *)
LEMMA Whereabouts ==
  ASSUME ChainInv, NEW f \in open, current_cluster_[f] # 0
  PROVE  \E n \in Held(f) :
           /\ IsAt(f, n) /\ n \in Nat /\ n + 1 \in 0 .. MaximumClusterNumber
           /\ n + 2 <= current_cluster_[f]
           /\ current_cluster_[f] \in Cluster \ DirectoryClusters
           /\ fat[current_cluster_[f]] # FAT32EntryFree
           /\ Chain(f)[n + 1] = fat[current_cluster_[f]]
           /\ Start(n) \in Nat /\ Start(n + 1) = Start(n) + BytesPerCluster
<1>1. PICK n \in 0 .. MaximumClusterNumber : IsAt(f, n)
  BY DEF ChainInv, InPosition
<1>2. n \in Held(f) /\ f \in Files
  BY <1>1, PlaceHeld DEF ChainInv, TypeInv, TypeOK, ObjectTypeOK
<1>3. /\ Chain(f)[n] = current_cluster_[f] /\ Chain(f)[n] \in Cluster \ DirectoryClusters
      /\ fat[Chain(f)[n]] # FAT32EntryFree
  BY <1>1, <1>2 DEF IsAt, ChainInv, HeldAllocated
<1>4. n + 2 <= Chain(f)[n] /\ n + 3 <= MaximumClusterNumber /\ Chain(f)[n + 1] = fat[Chain(f)[n]]
  BY <1>2, HeldClimbs DEF ChainInv
<1>5. n \in Nat /\ n + 1 \in 0 .. MaximumClusterNumber
  BY <1>4, VolumeAssumption
<1> QED
  BY <1>1, <1>2, <1>3, <1>4, <1>5, StartFacts

(* Within the size of the file the next cluster of its chain is one that   *)
(* it holds: that is where Seek, Read and Write go.                        *)
LEMMA FollowsOn ==
  ASSUME ChainInv, TypeInv', NEW f \in open, f = call.file, current_cluster_[f] # 0,
         byte_offset_into_cluster_[f] = BytesPerCluster, byte_offset_into_file_[f] < size_[f],
         UNCHANGED <<fat, directory, open, size_, first_cluster_, byte_offset_into_file_, call>>,
         current_cluster_' = [current_cluster_ EXCEPT ![f] = fat[current_cluster_[f]]],
         byte_offset_into_cluster_' = [byte_offset_into_cluster_ EXCEPT ![f] = 0],
         pc' \in {"seek", "read", "copy"}, pc' = "seek" => pc = "seek_next"
  PROVE  ChainInv' /\ HeldStays
<1>1. PICK n \in Held(f) :
           /\ IsAt(f, n) /\ n \in Nat /\ n + 1 \in 0 .. MaximumClusterNumber
           /\ Chain(f)[n + 1] = fat[current_cluster_[f]]
           /\ Start(n) \in Nat /\ Start(n + 1) = Start(n) + BytesPerCluster
  BY Whereabouts
<1>2. f \in Files /\ open \subseteq Files
  BY DEF ChainInv, TypeInv, TypeOK, ObjectTypeOK
<1>3. byte_offset_into_file_[f] = Start(n + 1)
  BY <1>1 DEF IsAt
<1>4. n + 1 \in Held(f)
  BY <1>1, <1>3 DEF Held
<1>5. /\ current_cluster_'[f] = Chain(f)[n + 1] /\ byte_offset_into_cluster_'[f] = 0
      /\ byte_offset_into_file_'[f] = Start(n + 1) + 0
      /\ \A g \in Files \ {f} :
           /\ current_cluster_'[g] = current_cluster_[g]
           /\ byte_offset_into_cluster_'[g] = byte_offset_into_cluster_[g]
           /\ byte_offset_into_file_'[g] = byte_offset_into_file_[g]
  BY <1>1, <1>2, <1>3, FileAssumption DEF ChainInv, TypeInv, TypeOK, ObjectTypeOK
<1>6. Chain(f)[n + 1] # 0
  BY <1>2, <1>4, ClusterNumbers DEF ChainInv, HeldAllocated, FAT32EntryFree
<1>7. CallUnderWay'
  BY <1>5, <1>6 DEF ChainInv, CallUnderWay
<1> QED
  BY <1>4, <1>5, <1>7, MovesTo

(* The actions of Seek.                                                    *)
LEMMA SeekHandsOver ==
  ASSUME ChainInv, NEW at, pc \in {"seek_from", "seek", "seek_next"},
         SeekFinished(at), at = current_cluster_'[call.file], UNCHANGED open
  PROVE  pc' \notin {"publish", "mark"} /\ CallUnderWay'
<1>1. call.file \in open
  BY DEF ChainInv, CallUnderWay
<1>2. CASE call.kind = "append"
  <2>1. pc' = WriteEntry(at, call.buffer) /\ call' = call
    BY <1>2 DEF SeekFinished, Goto
  <2>2. /\ pc' \in {"allocate", "copy", "resize"}
        /\ pc' = "allocate" => at = 0
        /\ pc' = "copy" => at # 0
    BY <2>1 DEF WriteEntry
  <2> QED
    BY <1>1, <2>1, <2>2 DEF CallUnderWay
<1>3. CASE call.kind # "append"
  BY <1>3 DEF SeekFinished, Return, CallUnderWay
<1> QED
  BY <1>2, <1>3

(* Seek starts from where the file is, or from its beginning.              *)
LEMMA SeekFromKeeps ==
  ASSUME ChainInv, TypeInv', SeekFrom
  PROVE  ChainInv' /\ HeldStays
<1> DEFINE f == call.file
<1>1. /\ UNCHANGED <<fat, directory, open, size_, first_cluster_>> /\ pc = "seek_from"
      /\ f \in open /\ f \in Files /\ open \subseteq Files
  BY DEF SeekFrom, adapterVars, ChainInv, CallUnderWay, TypeInv, TypeOK, ObjectTypeOK
<1>2. CASE current_cluster_[f] = 0 /\ UNCHANGED positionVars /\ SeekFinished(0)
  <2>1. pc' \notin {"publish", "mark"} /\ CallUnderWay'
    BY <1>1, <1>2, SeekHandsOver DEF positionVars
  <2> QED
    BY <1>1, <1>2, <2>1, StaysPut DEF positionVars
<1>3. CASE current_cluster_[f] # 0 /\ Rewind(f) /\ SeekFinished(first_cluster_[f])
  <2>1. /\ current_cluster_'[f] = first_cluster_[f] /\ first_cluster_[f] = directory[f].first
        /\ byte_offset_into_cluster_'[f] = 0 /\ byte_offset_into_file_'[f] = 0
        /\ \A g \in Files \ {f} :
             /\ current_cluster_'[g] = current_cluster_[g]
             /\ byte_offset_into_cluster_'[g] = byte_offset_into_cluster_[g]
             /\ byte_offset_into_file_'[g] = byte_offset_into_file_[g]
    BY <1>1, <1>3 DEF Rewind, ChainInv, ObjectsAgree, ObjectAgrees, TypeInv, TypeOK, ObjectTypeOK
  <2>2. pc' \notin {"publish", "mark"} /\ CallUnderWay'
    BY <1>1, <1>3, <2>1, SeekHandsOver
  <2>3. 0 \in Held(f)
    BY <1>1, <1>3, VolumeAssumption DEF Held, ChainInv, ObjectsAgree, ObjectAgrees
  <2>4. Chain(f)[0] = directory[f].first /\ Start(0) = 0
    BY WalkSteps, StartFacts DEF Chain
  <2>5. byte_offset_into_file_'[f] = Start(0) + byte_offset_into_cluster_'[f]
    BY <2>1, <2>4
  <2> QED
    BY <1>1, <2>1, <2>2, <2>3, <2>4, <2>5, MovesTo
<1>4. CASE /\ current_cluster_[f] # 0
           /\ call' = [call EXCEPT !.target = Smaller(@, size_[f])]
           /\ pc' = "seek" /\ UNCHANGED positionVars
  <2>1. call'.file = f /\ call'.target <= size_[f]
    BY <1>1, <1>4, SmallerBounds DEF ChainInv, TypeInv, TypeOK, CallTypeOK, Calls, ObjectTypeOK
  <2>2. CallUnderWay'
    BY <1>1, <1>4, <2>1 DEF CallUnderWay, positionVars
  <2> QED
    BY <1>1, <1>4, <2>2, StaysPut DEF positionVars
<1> QED
  BY <1>2, <1>3, <1>4 DEF SeekFrom

(* A file that moves within its cluster.                                   *)
LEMMA MovesWithin ==
  ASSUME ChainInv, TypeInv', NEW f \in open, current_cluster_[f] # 0, NEW k \in Nat,
         UNCHANGED <<fat, directory, open, size_, first_cluster_, current_cluster_>>,
         byte_offset_into_file_' = [byte_offset_into_file_ EXCEPT ![f] = @ + k],
         byte_offset_into_cluster_' = [byte_offset_into_cluster_ EXCEPT ![f] = @ + k],
         pc' \notin {"publish", "mark"}, CallUnderWay'
  PROVE  ChainInv' /\ HeldStays
<1>1. PICK n \in Held(f) : IsAt(f, n) /\ n \in Nat /\ Start(n) \in Nat
  BY Whereabouts
<1>2. f \in Files /\ open \subseteq Files
  BY DEF ChainInv, TypeInv, TypeOK, ObjectTypeOK
<1>3. byte_offset_into_cluster_[f] \in Nat
  BY <1>2, FileAssumption DEF ChainInv, TypeInv, TypeOK, ObjectTypeOK
<1>4. /\ byte_offset_into_file_'[f] = byte_offset_into_file_[f] + k
      /\ byte_offset_into_cluster_'[f] = byte_offset_into_cluster_[f] + k
      /\ \A g \in Files \ {f} :
           /\ current_cluster_'[g] = current_cluster_[g]
           /\ byte_offset_into_cluster_'[g] = byte_offset_into_cluster_[g]
           /\ byte_offset_into_file_'[g] = byte_offset_into_file_[g]
  BY <1>2 DEF ChainInv, TypeInv, TypeOK, ObjectTypeOK
<1>5. byte_offset_into_file_'[f] = Start(n) + byte_offset_into_cluster_'[f]
  BY <1>1, <1>3, <1>4 DEF IsAt
<1>6. current_cluster_'[f] = Chain(f)[n]
  BY <1>1 DEF IsAt
<1> QED
  BY <1>1, <1>4, <1>5, <1>6, MovesTo

(* Seek moves within a cluster, no farther than its end.                   *)
LEMMA SeekBlockKeeps ==
  ASSUME ChainInv, TypeInv', SeekBlock
  PROVE  ChainInv' /\ HeldStays
<1> DEFINE f == call.file
           ahead == UIntMinus(call.target, byte_offset_into_file_[f])
           left == BytesPerCluster - byte_offset_into_cluster_[f]
           k == Smaller(left, ahead)
<1>1. /\ UNCHANGED <<fat, directory, open, size_, first_cluster_, current_cluster_>>
      /\ pc = "seek" /\ f \in open /\ f \in Files
      /\ byte_offset_into_file_' = [byte_offset_into_file_ EXCEPT ![f] = @ + k]
      /\ byte_offset_into_cluster_' = [byte_offset_into_cluster_ EXCEPT ![f] = @ + k]
  BY DEF SeekBlock, adapterVars, ChainInv, CallUnderWay, TypeInv, TypeOK, ObjectTypeOK
<1>2. /\ current_cluster_[f] # 0 /\ call.target <= size_[f] /\ call.target \in Nat
      /\ byte_offset_into_cluster_[f] \in 0 .. BytesPerCluster
      /\ size_[f] \in Nat /\ size_[f] < UInt32Modulus /\ byte_offset_into_file_[f] \in Nat
      /\ UInt32Modulus \in Nat
  BY <1>1, SizesFit, FileAssumption
     DEF ChainInv, CallUnderWay, TypeInv, TypeOK, ObjectTypeOK, CallTypeOK, Calls
<1>3. left \in Nat /\ ahead \in Nat
  <2>1. left \in Nat
    BY <1>2, FileAssumption
  <2> QED
    BY <1>2, <2>1, UIntMinusType
<1>4. k \in Nat
  BY <1>3, SmallerBounds
<1>5. /\ byte_offset_into_file_'[f] = byte_offset_into_file_[f] + k
      /\ byte_offset_into_cluster_'[f] = byte_offset_into_cluster_[f] + k
  BY <1>1 DEF ChainInv, TypeInv, TypeOK, ObjectTypeOK
<1>6. pc' \notin {"publish", "mark"} /\ CallUnderWay'
  <2>1. CASE SeekFinished(current_cluster_[f])
    BY <1>1, <2>1, SeekHandsOver
  <2>2. CASE /\ byte_offset_into_file_[f] + k < call.target
             /\ Goto("seek_next")
    <3>1. pc' = "seek_next" /\ call' = call
      BY <2>2 DEF Goto
    <3>2. ahead = call.target - byte_offset_into_file_[f]
      <4>1. byte_offset_into_file_[f] <= call.target /\ call.target < UInt32Modulus
        <5> HIDE DEF k
        <5> QED
          BY <1>2, <1>4, <2>2
      <4> QED
        BY <1>2, <4>1, UIntMinusFits
    <3>3. k = left
      <4>1. ASSUME k = ahead PROVE FALSE
        BY <1>2, <2>2, <3>2, <4>1
      <4> QED
        BY <4>1 DEF Smaller
    <3>4. byte_offset_into_cluster_'[f] = BytesPerCluster
      BY <1>2, <1>5, <3>3, FileAssumption
    <3>5. byte_offset_into_file_'[f] < call.target
      BY <1>5, <2>2
    <3> QED
      BY <1>1, <1>2, <3>1, <3>4, <3>5 DEF CallUnderWay
  <2>3. \/ SeekFinished(current_cluster_[f])
        \/ byte_offset_into_file_[f] + k < call.target /\ Goto("seek_next")
    BY <1>2, <1>4 DEF SeekBlock
  <2> QED
    BY <2>1, <2>2, <2>3
<1> HIDE DEF k
<1> QED
  BY <1>1, <1>2, <1>4, <1>6, MovesWithin

(* Seek goes on to the next cluster, which the size needs.                 *)
LEMMA SeekNextKeeps ==
  ASSUME ChainInv, TypeInv', SeekNext
  PROVE  ChainInv' /\ HeldStays
<1> DEFINE f == call.file
<1>1. /\ UNCHANGED <<fat, directory, open, size_, first_cluster_>> /\ pc = "seek_next"
      /\ f \in open /\ f \in Files /\ current_cluster_[f] # 0
      /\ byte_offset_into_cluster_[f] = BytesPerCluster
  BY DEF SeekNext, adapterVars, ChainInv, CallUnderWay, TypeInv, TypeOK, ObjectTypeOK
<1>2. CASE SeekFinished(current_cluster_[f]) /\ UNCHANGED positionVars
  BY <1>1, <1>2, SeekHandsOver, StaysPut DEF positionVars
<1>3. CASE ~(SeekFinished(current_cluster_[f]) /\ UNCHANGED positionVars)
  <2>1. /\ current_cluster_' = [current_cluster_ EXCEPT ![f] = fat[current_cluster_[f]]]
        /\ byte_offset_into_cluster_' = [byte_offset_into_cluster_ EXCEPT ![f] = 0]
        /\ pc' = "seek" /\ UNCHANGED <<call, byte_offset_into_file_>>
    BY <1>3 DEF SeekNext, Goto, NextClusterInChain
  <2>2. byte_offset_into_file_[f] < size_[f]
    BY <1>1 DEF ChainInv, CallUnderWay, TypeInv, TypeOK, ObjectTypeOK, CallTypeOK, Calls
  <2> QED
    BY <1>1, <2>1, <2>2, FollowsOn
<1> QED
  BY <1>2, <1>3

(* The actions of Read.                                                    *)
LEMMA ReadBlockKeeps ==
  ASSUME ChainInv, TypeInv', ReadBlock
  PROVE  ChainInv' /\ HeldStays
<1> DEFINE f == call.file
           left == BytesPerCluster - byte_offset_into_cluster_[f]
           k == Smaller(Smaller(left, UIntMinus(size_[f], byte_offset_into_file_[f])),
                        call.target - Len(call.buffer))
<1>1. /\ UNCHANGED <<fat, directory, open, size_, first_cluster_, current_cluster_>>
      /\ pc = "read" /\ f \in open /\ f \in Files
      /\ byte_offset_into_file_' = [byte_offset_into_file_ EXCEPT ![f] = @ + k]
      /\ byte_offset_into_cluster_' = [byte_offset_into_cluster_ EXCEPT ![f] = @ + k]
      /\ current_cluster_[f] # 0 /\ ~BufferFull
  BY ClusterNumbers DEF ReadBlock, adapterVars, ChainInv, CallUnderWay, TypeInv, TypeOK, ObjectTypeOK
<1>2. /\ byte_offset_into_cluster_[f] \in 0 .. BytesPerCluster
      /\ size_[f] \in Nat /\ byte_offset_into_file_[f] \in Nat
      /\ call.target \in Nat /\ Len(call.buffer) \in Nat
      /\ byte_offset_into_file_'[f] = byte_offset_into_file_[f] + k
      /\ byte_offset_into_cluster_'[f] = byte_offset_into_cluster_[f] + k
  BY <1>1 DEF ChainInv, TypeInv, TypeOK, ObjectTypeOK, CallTypeOK, Calls
<1>3. left \in Nat /\ UIntMinus(size_[f], byte_offset_into_file_[f]) \in Nat
      /\ call.target - Len(call.buffer) \in Nat
  <2>1. left \in Nat /\ call.target - Len(call.buffer) \in Nat
    BY <1>1, <1>2, FileAssumption, SMTT(60) DEF BufferFull
  <2> QED
    BY <1>2, <2>1, UIntMinusType
<1>4. k \in Nat /\ k <= left
  BY <1>3 DEF Smaller
<1>5. pc' \notin {"publish", "mark"} /\ CallUnderWay'
  <2>1. CASE pc' = "idle"
    BY <2>1 DEF CallUnderWay
  <2>2. CASE /\ byte_offset_into_file_[f] + k < size_[f]
             /\ call'.file = f
             /\ pc' = IF byte_offset_into_cluster_[f] + k >= BytesPerCluster THEN "read_next" ELSE "read"
    <3>1. byte_offset_into_cluster_[f] + k >= BytesPerCluster =>
            byte_offset_into_cluster_'[f] = BytesPerCluster
      BY <1>2, <1>4, FileAssumption, SMTT(60)
    <3>2. byte_offset_into_file_'[f] < size_'[f] /\ current_cluster_'[f] # 0 /\ f \in open'
      BY <1>1, <1>2, <2>2
    <3> HIDE DEF k
    <3> QED
      BY <2>2, <3>1, <3>2 DEF CallUnderWay
  <2>3. ASSUME ~(byte_offset_into_file_[f] + k >= size_[f])
        PROVE  byte_offset_into_file_[f] + k < size_[f]
    <3> HIDE DEF k
    <3> QED
      BY <1>2, <1>4, <2>3
  <2>4. ASSUME byte_offset_into_file_[f] + k < size_[f],
               call' = [call EXCEPT !.buffer =
                          @ \o [i \in 1 .. k |-> cluster_data[current_cluster_[f]]
                                                [byte_offset_into_cluster_[f] + i - 1]]]
        PROVE  call'.file = f
    BY <2>4 DEF ChainInv, TypeInv, TypeOK, CallTypeOK, Calls
  <2> QED
    BY <2>1, <2>2, <2>3, <2>4 DEF ReadBlock, Return
<1> HIDE DEF k
<1> QED
  BY <1>1, <1>4, <1>5, MovesWithin

(* Read goes on to the next cluster only while there is something to read. *)
LEMMA ReadKeeps ==
  ASSUME ChainInv, TypeInv', ReadFinished \/ ReadBlock \/ ReadNext
  PROVE  ChainInv' /\ HeldStays
<1> DEFINE f == call.file
<1>1. CASE ReadFinished \/ (ReadNext /\ pc' = "idle")
  <2>1. /\ UNCHANGED <<fat, directory, open, size_, first_cluster_>> /\ pc' = "idle"
        /\ UNCHANGED positionVars
    BY <1>1 DEF ReadFinished, ReadNext, Return, Goto, adapterVars, objectVars
  <2> QED
    BY <2>1, StaysPut DEF CallUnderWay, positionVars
<1>2. CASE ReadBlock
  BY <1>2, ReadBlockKeeps
<1>3. CASE ReadNext /\ pc' # "idle"
  <2>1. /\ UNCHANGED <<fat, directory, open, size_, first_cluster_>> /\ pc = "read_next"
        /\ f \in open /\ current_cluster_[f] # 0 /\ byte_offset_into_cluster_[f] = BytesPerCluster
        /\ byte_offset_into_file_[f] < size_[f]
        /\ current_cluster_' = [current_cluster_ EXCEPT ![f] = fat[current_cluster_[f]]]
        /\ byte_offset_into_cluster_' = [byte_offset_into_cluster_ EXCEPT ![f] = 0]
        /\ pc' = "read" /\ UNCHANGED <<call, byte_offset_into_file_>>
    BY <1>3 DEF ReadNext, Return, Goto, NextClusterInChain, adapterVars, ChainInv, CallUnderWay
  <2> QED
    BY <2>1, FollowsOn
<1> QED
  BY <1>1, <1>2, <1>3

(* The actions of Write that change no entry of the FAT.                   *)
LEMMA CopyBlockKeeps ==
  ASSUME ChainInv, TypeInv', CopyBlock
  PROVE  ChainInv' /\ HeldStays
<1> DEFINE f == call.file
           left == BytesPerCluster - byte_offset_into_cluster_[f]
           k == Smaller(left, Len(call.buffer) - transferred)
<1>1. /\ UNCHANGED <<fat, directory, open, size_, first_cluster_, current_cluster_, call>>
      /\ pc = "copy" /\ f \in open /\ f \in Files /\ current_cluster_[f] # 0
      /\ byte_offset_into_file_' = [byte_offset_into_file_ EXCEPT ![f] = @ + k]
      /\ byte_offset_into_cluster_' = [byte_offset_into_cluster_ EXCEPT ![f] = @ + k]
      /\ pc' = IF transferred + k >= Len(call.buffer) THEN "resize" ELSE "advance"
  BY DEF CopyBlock, Goto, adapterVars, ChainInv, CallUnderWay, TypeInv, TypeOK, ObjectTypeOK
<1>2. /\ byte_offset_into_cluster_[f] \in 0 .. BytesPerCluster
      /\ Len(call.buffer) - transferred \in Nat /\ Len(call.buffer) \in Nat /\ transferred \in Nat
      /\ byte_offset_into_cluster_'[f] = byte_offset_into_cluster_[f] + k
  BY <1>1 DEF ChainInv, TypeInv, TransferWithinBuffer, TypeOK, ObjectTypeOK, CallTypeOK, Calls
<1>3. k \in Nat
  BY <1>2, FileAssumption DEF Smaller
<1>4. pc' = "advance" => byte_offset_into_cluster_'[f] = BytesPerCluster
  BY <1>1, <1>2, FileAssumption DEF Smaller
<1> HIDE DEF k
<1>5. CallUnderWay'
  BY <1>1, <1>4 DEF CallUnderWay
<1> QED
  BY <1>1, <1>3, <1>5, MovesWithin

(* Write goes on to the next cluster while it is within the size.          *)
LEMMA WriteKeeps ==
  ASSUME ChainInv, TypeInv', CopyBlock \/ FollowChain \/ Resize \/ DeviceFull
  PROVE  ChainInv' /\ HeldStays
<1> DEFINE f == call.file
<1>1. CASE CopyBlock
  BY <1>1, CopyBlockKeeps
<1>2. CASE FollowChain
  <2>1. /\ UNCHANGED <<fat, directory, open, size_, first_cluster_>> /\ pc = "advance"
        /\ f \in open /\ current_cluster_[f] # 0 /\ byte_offset_into_cluster_[f] = BytesPerCluster
        /\ byte_offset_into_file_[f] < size_[f]
        /\ current_cluster_' = [current_cluster_ EXCEPT ![f] = fat[current_cluster_[f]]]
        /\ byte_offset_into_cluster_' = [byte_offset_into_cluster_ EXCEPT ![f] = 0]
        /\ pc' = "copy" /\ UNCHANGED <<call, byte_offset_into_file_>>
    BY <1>2 DEF FollowChain, Goto, NextClusterInChain, adapterVars, ChainInv, CallUnderWay
  <2> QED
    BY <2>1, FollowsOn
<1>3. CASE Resize
  <2>1. /\ UNCHANGED <<fat, open, first_cluster_, positionVars>> /\ pc' = "idle" /\ f \in open
    BY <1>3 DEF Resize, Return, adapterVars, ChainInv, CallUnderWay
  <2>2. CASE byte_offset_into_file_[f] > size_[f]
    BY <1>3, <2>1, <2>2, SizeGrows DEF Resize, UpdateDirectoryEntrySize
  <2>3. CASE ~(byte_offset_into_file_[f] > size_[f])
    <3>1. UNCHANGED <<size_, directory>> /\ CallUnderWay'
      BY <1>3, <2>1, <2>3 DEF Resize, CallUnderWay
    <3> QED
      BY <2>1, <3>1, StaysPut DEF positionVars
  <2> QED
    BY <2>2, <2>3
<1>4. CASE DeviceFull
  <2>1. /\ UNCHANGED <<fat, directory, open, size_, first_cluster_, positionVars>> /\ pc' = "idle"
    BY <1>4 DEF DeviceFull, Return, adapterVars, objectVars
  <2> QED
    BY <2>1, StaysPut DEF CallUnderWay, positionVars
<1> QED
  BY <1>1, <1>2, <1>3, <1>4

-----------------------------------------------------------------------------
(* Steps that write an entry of the FAT.                                   *)

(* The entry that is written was free, or ended what a file holds: chains  *)
(* keep what is held of them, in its order.                                *)
LEMMA EntryWritten ==
  ASSUME ChainInv, UNCHANGED directory, NEW d \in Cluster, NEW e \in FATEntry,
         fat' = [fat EXCEPT ![d] = e],
         e # FAT32EntryFree, e \in Cluster => d < e,
         \A g \in Files : \A n \in Held(g) : \A m \in 0 .. (n - 1) : Chain(g)[m] # d
  PROVE  /\ HeldStays /\ IsForward(fat)' /\ DirectoriesAllocated'
         /\ \A c \in Cluster : fat[c] # FAT32EntryFree => fat'[c] # FAT32EntryFree
<1>1. /\ fat \in [Cluster -> FATEntry] /\ fat' \in [Cluster -> FATEntry]
      /\ fat'[d] = e /\ \A c \in Cluster \ {d} : fat'[c] = fat[c]
  BY DEF ChainInv, IsForward
<1>2. ASSUME NEW g \in Files, NEW n \in Held(g) PROVE Chain(g)'[n] = Chain(g)[n]
  <2>1. n \in 0 .. MaximumClusterNumber /\ n \in 0 .. n
    BY VolumeAssumption DEF Held
  <2>2. ASSUME NEW m \in 0 .. (n - 1), Chain(g)[m] \in Cluster
        PROVE  fat'[Chain(g)[m]] = fat[Chain(g)[m]]
    BY <1>1, <2>2
  <2>3. Chain(g)' = WalkIn(fat', directory[g].first) /\ Chain(g) = WalkIn(fat, directory[g].first)
    BY DEF Chain
  <2>4. SameFor(fat, fat', directory[g].first, n)
    BY <2>2, <2>3 DEF SameFor
  <2>5. \A m \in 0 .. n : WalkIn(fat', directory[g].first)[m] = WalkIn(fat, directory[g].first)[m]
    BY <2>1, <2>4, WalkSame
  <2> QED
    BY <2>1, <2>3, <2>5
<1>3. IsForward(fat)' /\ DirectoriesAllocated'
  BY <1>1, FileAssumption DEF ChainInv, IsForward, DirectoriesAllocated
<1> QED
  BY <1>1, <1>2, <1>3 DEF HeldStays

(* What files hold stays theirs when they hold no more than they did.      *)
LEMMA HeldAsBefore ==
  ASSUME ChainInv, HeldStays, UNCHANGED <<directory, open>>,
         \A f \in open : /\ size_'[f] = size_[f]
                         /\ current_cluster_'[f] = current_cluster_[f]
                         /\ byte_offset_into_cluster_'[f] = byte_offset_into_cluster_[f]
                         /\ byte_offset_into_file_'[f] = byte_offset_into_file_[f],
         \A c \in Cluster : fat[c] # FAT32EntryFree => fat'[c] # FAT32EntryFree
  PROVE  /\ \A f \in Files : Held(f)' = Held(f)
         /\ HeldAllocated' /\ HeldApart' /\ InPosition'
<1>1. \A f \in Files : Held(f)' = Held(f)
  BY DEF Held
<1>2. HeldAllocated'
  BY <1>1 DEF ChainInv, HeldStays, HeldAllocated
<1>3. HeldApart'
  BY <1>1 DEF ChainInv, HeldStays, HeldApart
<1>4. InPosition'
  <2> SUFFICES ASSUME NEW f \in open, current_cluster_[f] # 0
               PROVE  \E n \in 0 .. MaximumClusterNumber : IsAt(f, n)'
    BY DEF InPosition
  <2>1. f \in Files
    BY DEF ChainInv, TypeInv, TypeOK, ObjectTypeOK
  <2>2. PICK n \in Held(f) : IsAt(f, n)
    BY Whereabouts
  <2>3. n \in 0 .. MaximumClusterNumber
    BY DEF Held
  <2> QED
    BY <2>1, <2>2, <2>3 DEF HeldStays, IsAt, Start
<1> QED
  BY <1>1, <1>2, <1>3, <1>4

(* The first cluster of a file is free when it is found.                   *)
LEMMA AllocateFirstClusterKeeps ==
  ASSUME ChainInv, TypeInv', AllocateFirstCluster
  PROVE  ChainInv' /\ HeldStays
<1>1. PICK c \in Cluster :
        /\ fat[c] = FAT32EntryFree
        /\ fat' = [fat EXCEPT ![c] = FAT32EntryAllocatedAndEndOfFile]
        /\ new_cluster' = c
  BY DEF AllocateFirstCluster, FindNextEmptyCluster, EmptyClustersFrom, UpdateFATTableEntry
<1>2. /\ pc = "allocate" /\ pc' = "publish" /\ call' = call
      /\ UNCHANGED <<directory, open, size_, first_cluster_, current_cluster_,
                     byte_offset_into_cluster_, byte_offset_into_file_>>
  BY DEF AllocateFirstCluster, Goto, objectVars, positionVars
<1>3. /\ FAT32EntryAllocatedAndEndOfFile \in FATEntry
      /\ FAT32EntryAllocatedAndEndOfFile \notin Cluster
      /\ FAT32EntryAllocatedAndEndOfFile # FAT32EntryFree
  BY ClusterNumbers DEF FATEntry, FAT32EntryAllocatedAndEndOfFile, FAT32EntryFree
<1>4. ASSUME NEW g \in Files, NEW n \in Held(g) PROVE Chain(g)[n] # c
  BY <1>1 DEF ChainInv, HeldAllocated
<1>5. ASSUME NEW g \in Files, NEW n \in Held(g), NEW m \in 0 .. (n - 1)
      PROVE  Chain(g)[m] # c
  <2>1. m \in 0 .. n
    BY VolumeAssumption DEF Held
  <2> QED
    BY <1>4, <2>1, HeldIsPrefix DEF ChainInv
<1>6. /\ HeldStays /\ IsForward(fat)' /\ DirectoriesAllocated'
      /\ \A d \in Cluster : fat[d] # FAT32EntryFree => fat'[d] # FAT32EntryFree
  BY <1>1, <1>2, <1>3, <1>5, EntryWritten
<1>7. /\ \A g \in Files : Held(g)' = Held(g)
      /\ HeldAllocated' /\ HeldApart' /\ InPosition'
  BY <1>2, <1>6, HeldAsBefore
<1>8. ObjectsAgree' /\ CallUnderWay'
  BY <1>2 DEF ChainInv, ObjectsAgree, ObjectAgrees, CallUnderWay
<1>9. NewClusterIsNew'
  <2>1. fat'[c] # FAT32EntryFree /\ c \notin DirectoryClusters
    BY <1>1, <1>3 DEF ChainInv, IsForward, DirectoriesAllocated
  <2> QED
    BY <1>1, <1>2, <1>4, <1>6, <1>7, <2>1 DEF NewClusterIsNew, HeldStays
<1> QED
  BY <1>6, <1>7, <1>8, <1>9 DEF ChainInv

(* It is nobody else's when the directory learns of it.                    *)
LEMMA PublishFirstClusterKeeps ==
  ASSUME ChainInv, TypeInv', PublishFirstCluster
  PROVE  ChainInv' /\ HeldStays
<1>0. PICK f \in Files : f = call.file
  BY DEF PublishFirstCluster, ChainInv, TypeInv, TypeOK, CallTypeOK
<1>1. /\ pc = "publish" /\ pc' \in {"copy", "resize"} /\ call' = call
      /\ f \in open /\ open \subseteq Files /\ current_cluster_[f] = 0
      /\ UNCHANGED <<fat, open, size_, byte_offset_into_cluster_, byte_offset_into_file_, new_cluster>>
  BY <1>0 DEF PublishFirstCluster, Goto, ChainInv, CallUnderWay, TypeInv, TypeOK, ObjectTypeOK,
     adapterVars, localVars
<1>2. /\ new_cluster \in Cluster \ DirectoryClusters /\ fat[new_cluster] # FAT32EntryFree
      /\ \A g \in Files : \A n \in Held(g) : Chain(g)[n] # new_cluster
      /\ new_cluster # 0
  BY <1>1, ClusterNumbers DEF ChainInv, NewClusterIsNew, FAT32EntryFree
<1>3. /\ directory'[f].first = new_cluster /\ directory'[f].size = directory[f].size
      /\ first_cluster_'[f] = new_cluster /\ current_cluster_'[f] = new_cluster
      /\ \A g \in Files \ {f} : /\ directory'[g] = directory[g]
                                /\ first_cluster_'[g] = first_cluster_[g]
                                /\ current_cluster_'[g] = current_cluster_[g]
  BY <1>0, <1>1 DEF PublishFirstCluster, SetDirectoryEntryFirstCluster,
     ChainInv, TypeInv, TypeOK, DeviceTypeOK, ObjectTypeOK
<1>4. /\ directory[f].first = 0 /\ directory[f].size = 0 /\ size_[f] = 0
      /\ byte_offset_into_file_[f] = 0 /\ byte_offset_into_cluster_[f] = 0
  BY <1>1 DEF ChainInv, ObjectsAgree, ObjectAgrees
<1>5. \A m \in 0 .. MaximumClusterNumber : Start(m) \in Nat /\ (Start(m) <= 0 => m = 0)
  BY StartFacts, VolumeAssumption, FileAssumption DEF Start
<1>6. Held(f)' \subseteq {0} /\ Held(f) = {}
  <2>1. \A m \in 0 .. MaximumClusterNumber : ~(Start(m) < 0) /\ (Start(m) + 0 <= 0 => m = 0)
    BY <1>5
  <2> QED
    BY <1>1, <1>3, <1>4, <2>1 DEF Held
<1>7. Chain(f)'[0] = new_cluster
  BY <1>3, WalkSteps DEF Chain
<1>8. \A g \in Files \ {f} : Held(g)' = Held(g) /\ Chain(g)' = Chain(g)
  BY <1>1, <1>3 DEF Held, Chain
<1>9. IsForward(fat)' /\ DirectoriesAllocated'
  BY <1>1 DEF ChainInv, IsForward, DirectoriesAllocated
<1>10. HeldAllocated'
  BY <1>1, <1>2, <1>6, <1>7, <1>8 DEF ChainInv, HeldAllocated
<1>11. HeldApart'
  <2> SUFFICES ASSUME NEW g \in Files, NEW h \in Files, NEW m \in Held(g)', NEW n \in Held(h)',
                      Chain(g)'[m] = Chain(h)'[n], g # h
               PROVE  FALSE
    BY DEF HeldApart
  <2>1. CASE g = f
    BY <1>2, <1>6, <1>7, <1>8, <2>1
  <2>2. CASE h = f
    BY <1>2, <1>6, <1>7, <1>8, <2>2
  <2>3. CASE g # f /\ h # f
    BY <1>8, <2>3 DEF ChainInv, HeldApart
  <2> QED
    BY <2>1, <2>2, <2>3
<1>12. ObjectsAgree'
  <2>1. \A g \in open \ {f} : ObjectAgrees(g)'
    BY <1>1, <1>3 DEF ChainInv, ObjectsAgree, ObjectAgrees
  <2>2. ObjectAgrees(f)'
    BY <1>1, <1>2, <1>3, <1>4 DEF ObjectAgrees
  <2> QED
    BY <1>1, <1>2, <1>3, <2>1, <2>2 DEF ChainInv, ObjectsAgree
<1>13. InPosition'
  <2>1. IsAt(f, 0)'
    BY <1>1, <1>3, <1>4, <1>7, StartFacts DEF IsAt, Start
  <2>2. ASSUME NEW g \in open \ {f}, current_cluster_'[g] # 0
        PROVE  \E n \in 0 .. MaximumClusterNumber : IsAt(g, n)'
    BY <1>1, <1>3, <1>8, <2>2 DEF ChainInv, InPosition, IsAt
  <2> QED
    BY <1>1, <2>1, <2>2, VolumeAssumption DEF InPosition
<1>14. CallUnderWay' /\ NewClusterIsNew'
  BY <1>0, <1>1, <1>2, <1>3 DEF CallUnderWay, NewClusterIsNew
<1>15. HeldStays
  BY <1>6, <1>8 DEF HeldStays
<1> QED
  BY <1>9, <1>10, <1>11, <1>12, <1>13, <1>14, <1>15 DEF ChainInv

(* Where a file grows from is the last cluster it holds.                   *)
LEMMA LastHeld ==
  ASSUME ChainInv, NEW f \in open, NEW n \in Held(f), IsAt(f, n), current_cluster_[f] # 0,
         byte_offset_into_cluster_[f] = BytesPerCluster, size_[f] <= byte_offset_into_file_[f]
  PROVE  \A m \in Held(f) : m <= n
<1>1. /\ f \in Files /\ directory[f].size \in Nat /\ size_[f] \in Nat
      /\ directory[f].size <= size_[f]
  BY DEF ChainInv, TypeInv, TypeOK, ObjectTypeOK, DeviceTypeOK, ObjectsAgree, ObjectAgrees
<1>2. n \in Nat /\ Start(n) \in Nat /\ BytesPerCluster \in Nat \ {0}
      /\ Start(n + 1) = Start(n) + BytesPerCluster
  BY VolumeAssumption, FileAssumption, StartFacts DEF Held
<1>3. ASSUME NEW m \in Held(f), ~(m <= n) PROVE FALSE
  <2>1. m \in Nat /\ Start(m) \in Nat
    BY StartFacts, VolumeAssumption, SMTT(60) DEF Held
  <2>2. n + 1 \in Nat /\ n + 1 <= m
    BY <1>2, <1>3, <2>1
  <2>3. Start(n + 1) <= Start(m)
    BY <2>1, <2>2, StartFacts
  <2>4. byte_offset_into_file_[f] = Start(n + 1)
    BY <1>2 DEF IsAt
  <2>5. ~(m = 0) /\ ~(Start(m) < directory[f].size) /\ ~(Start(m) < size_[f])
        /\ ~(Start(m) + byte_offset_into_cluster_[f] <= byte_offset_into_file_[f])
    BY <1>1, <1>2, <2>1, <2>2, <2>3, <2>4
  <2> QED
    BY <2>5 DEF Held
<1> QED
  BY <1>3

(* A link to a free cluster, from the last one that the file holds.        *)
LEMMA LinkNewClusterKeeps ==
  ASSUME ChainInv, TypeInv', LinkNewCluster
  PROVE  ChainInv' /\ HeldStays
<1>1. PICK f \in Files : f = call.file
  BY DEF LinkNewCluster, ChainInv, TypeInv, TypeOK, CallTypeOK
<1>2. /\ pc = "advance" /\ pc' = "mark" /\ call' = call /\ f \in open /\ call.file = f
      /\ UNCHANGED <<directory, open, size_, first_cluster_, current_cluster_,
                     byte_offset_into_cluster_, byte_offset_into_file_>>
      /\ current_cluster_[f] # 0 /\ current_cluster_[f] \in Cluster
      /\ byte_offset_into_cluster_[f] = BytesPerCluster
      /\ byte_offset_into_file_[f] >= size_[f]
  BY <1>1 DEF LinkNewCluster, Goto, objectVars, positionVars, ChainInv, CallUnderWay
<1>3. PICK c \in Cluster :
        /\ c \in EmptyClustersFrom(current_cluster_[f] + 1)
        /\ fat' = [fat EXCEPT ![current_cluster_[f]] = c]
        /\ new_cluster' = c
  BY <1>1 DEF LinkNewCluster, FindNextEmptyCluster, UpdateFATTableEntry
<1>4. fat[c] = FAT32EntryFree /\ current_cluster_[f] < c
  <2>1. current_cluster_[f] \in Nat /\ c \in Nat /\ current_cluster_[f] + 1 # 0
    BY <1>2, <1>3, VolumeAssumption DEF Cluster
  <2>2. StartingCluster(current_cluster_[f] + 1) = current_cluster_[f] + 1
    BY <2>1 DEF StartingCluster
  <2> QED
    BY <1>3, <2>1, <2>2 DEF EmptyClustersFrom
<1>5. PICK n \in Held(f) : /\ IsAt(f, n) /\ n \in Nat
                           /\ fat[current_cluster_[f]] # FAT32EntryFree
  BY <1>2, Whereabouts
<1>6. size_[f] \in Nat /\ byte_offset_into_file_[f] \in Nat
  BY DEF ChainInv, TypeInv, TypeOK, ObjectTypeOK
<1>7. \A m \in Held(f) : m <= n
  BY <1>2, <1>5, <1>6, LastHeld
<1>8. Chain(f)[n] = current_cluster_[f] /\ \A m \in 0 .. (n - 1) : Chain(f)[m] < Chain(f)[n]
  BY <1>5, HeldClimbs DEF IsAt, ChainInv
<1>9. ASSUME NEW g \in Files, NEW i \in Held(g), NEW m \in 0 .. (i - 1)
      PROVE  Chain(g)[m] # current_cluster_[f]
  <2>1. m \in 0 .. i /\ m \in Nat /\ i \in Nat /\ m < i
    BY VolumeAssumption DEF Held
  <2>2. m \in Held(g)
    BY <2>1, HeldIsPrefix DEF ChainInv
  <2>3. CASE g # f
    BY <1>5, <1>8, <2>2, <2>3 DEF ChainInv, HeldApart
  <2>4. CASE g = f
    <3>1. m \in 0 .. (n - 1)
      BY <1>5, <1>7, <2>1, <2>4
    <3>2. Chain(f)[m] \in Nat /\ Chain(f)[n] \in Nat
      BY <1>5, <2>2, <2>4, ClusterNumbers DEF ChainInv, HeldAllocated
    <3> QED
      BY <1>8, <2>4, <3>1, <3>2
  <2> QED
    BY <2>3, <2>4
<1>10. c \in FATEntry /\ c # FAT32EntryFree
  BY ClusterNumbers DEF FATEntry
<1>11. /\ HeldStays /\ IsForward(fat)' /\ DirectoriesAllocated'
       /\ \A d \in Cluster : fat[d] # FAT32EntryFree => fat'[d] # FAT32EntryFree
  BY <1>2, <1>3, <1>4, <1>9, <1>10, EntryWritten
<1>12. HeldAllocated' /\ HeldApart' /\ InPosition'
  BY <1>2, <1>11, HeldAsBefore
<1>13. ObjectsAgree'
  BY <1>2 DEF ChainInv, ObjectsAgree, ObjectAgrees
<1>14. CallUnderWay'
  BY <1>2, <1>6 DEF CallUnderWay
<1>15. NewClusterIsNew'
  <2>1. fat'[c] = FAT32EntryFree /\ fat'[current_cluster_[f]] = c
    BY <1>2, <1>3, <1>4, <1>5 DEF ChainInv, IsForward
  <2> QED
    BY <1>2, <1>3, <2>1 DEF NewClusterIsNew
<1> QED
  BY <1>11, <1>12, <1>13, <1>14, <1>15 DEF ChainInv

(* The cluster that is linked becomes one that the file holds.             *)
LEMMA MarkNewClusterKeeps ==
  ASSUME ChainInv, TypeInv', MarkNewCluster
  PROVE  ChainInv' /\ HeldStays
<1>1. PICK f \in Files : f = call.file
  BY DEF MarkNewCluster, ChainInv, TypeInv, TypeOK, CallTypeOK
<1> DEFINE c == new_cluster
<1>2. /\ pc = "mark" /\ pc' = "copy" /\ call' = call /\ f \in open /\ call.file = f
      /\ open \subseteq Files
      /\ UNCHANGED <<directory, open, size_, first_cluster_, byte_offset_into_file_>>
      /\ current_cluster_[f] # 0 /\ byte_offset_into_cluster_[f] = BytesPerCluster
      /\ size_[f] <= byte_offset_into_file_[f]
      /\ fat' = [fat EXCEPT ![c] = FAT32EntryAllocatedAndEndOfFile]
  BY <1>1 DEF MarkNewCluster, Goto, UpdateFATTableEntry, ChainInv, CallUnderWay,
     TypeInv, TypeOK, ObjectTypeOK
<1>3. /\ current_cluster_'[f] = c /\ byte_offset_into_cluster_'[f] = 0
      /\ \A g \in Files \ {f} : /\ current_cluster_'[g] = current_cluster_[g]
                                /\ byte_offset_into_cluster_'[g] = byte_offset_into_cluster_[g]
  BY <1>1 DEF MarkNewCluster, ChainInv, TypeInv, TypeOK, ObjectTypeOK
<1>4. c \in Cluster /\ c # 0 /\ fat[c] = FAT32EntryFree /\ fat[current_cluster_[f]] = c
  BY <1>2, ClusterNumbers DEF ChainInv, NewClusterIsNew, FAT32EntryFree
<1>5. /\ FAT32EntryAllocatedAndEndOfFile \in FATEntry
      /\ FAT32EntryAllocatedAndEndOfFile \notin Cluster
      /\ FAT32EntryAllocatedAndEndOfFile # FAT32EntryFree
  BY ClusterNumbers DEF FATEntry, FAT32EntryAllocatedAndEndOfFile, FAT32EntryFree
<1>6. ASSUME NEW g \in Files, NEW n \in Held(g) PROVE Chain(g)[n] # c
  BY <1>4 DEF ChainInv, HeldAllocated
<1>7. ASSUME NEW g \in Files, NEW n \in Held(g), NEW m \in 0 .. (n - 1)
      PROVE  Chain(g)[m] # c
  <2>1. m \in 0 .. n
    BY VolumeAssumption DEF Held
  <2> QED
    BY <1>6, <2>1, HeldIsPrefix DEF ChainInv
<1>8. /\ HeldStays /\ IsForward(fat)' /\ DirectoriesAllocated'
      /\ \A d \in Cluster : fat[d] # FAT32EntryFree => fat'[d] # FAT32EntryFree
  BY <1>2, <1>4, <1>5, <1>7, EntryWritten
<1>9. PICK n \in Held(f) : /\ IsAt(f, n) /\ n \in Nat /\ n + 1 \in 0 .. MaximumClusterNumber
                           /\ current_cluster_[f] \in Cluster
                           /\ fat[current_cluster_[f]] # FAT32EntryFree
                           /\ Start(n) \in Nat /\ Start(n + 1) = Start(n) + BytesPerCluster
  BY <1>2, Whereabouts
<1>10. byte_offset_into_file_'[f] = Start(n + 1) + 0
  BY <1>2, <1>9, FileAssumption DEF IsAt
<1>11. fat'[c] = FAT32EntryAllocatedAndEndOfFile /\ fat'[current_cluster_[f]] = c
  BY <1>2, <1>4, <1>9 DEF ChainInv, IsForward
<1>12. Chain(f)'[n + 1] = c
  <2>1. Chain(f)'[n] = current_cluster_[f]
    BY <1>8, <1>9 DEF HeldStays, IsAt
  <2>2. Chain(f)' = WalkIn(fat', directory'[f].first) /\ n \in 0 .. (MaximumClusterNumber - 1)
    BY <1>9, VolumeAssumption DEF Chain
  <2>3. Chain(f)'[n + 1] = OneStep(fat', Chain(f)'[n])
    BY <2>2, WalkSteps
  <2> QED
    BY <1>9, <1>11, <2>1, <2>3 DEF OneStep
<1>13. ASSUME NEW g \in Files, NEW m \in Held(g)'
       PROVE  m \in Held(g) \/ (g = f /\ m = n + 1)
  <2>1. CASE g # f
    BY <1>2, <1>3, <2>1 DEF Held
  <2>2. CASE g = f
    <3>1. ASSUME Start(m) + byte_offset_into_cluster_'[f] <= byte_offset_into_file_'[f], m # n + 1
          PROVE  m \in Held(f)
      <4>1. m \in Nat /\ m \in 0 .. MaximumClusterNumber
        BY VolumeAssumption DEF Held
      <4>2. m <= n + 1
        <5>1. Start(m) \in Nat /\ Start(n + 1) \in Nat /\ n + 1 \in Nat
          BY <1>9, <4>1, StartFacts
        <5>2. Start(m) <= Start(n + 1)
          BY <1>3, <1>10, <3>1, <5>1
        <5> QED
          BY <4>1, <5>1, <5>2, StartFacts
      <4>3. m \in 0 .. n
        <5>1. n \in Nat /\ m # n + 1
          BY <1>9, <3>1
        <5> QED
          BY <4>1, <4>2, <5>1
      <4> QED
        BY <1>9, <4>3, HeldIsPrefix DEF ChainInv
    <3> QED
      BY <1>2, <2>2, <3>1 DEF Held, Start
  <2> QED
    BY <2>1, <2>2
<1>14. c \notin DirectoryClusters
  BY <1>4 DEF ChainInv, DirectoriesAllocated
<1>15. HeldAllocated'
  <2> SUFFICES ASSUME NEW g \in Files, NEW m \in Held(g)'
               PROVE  /\ Chain(g)'[m] \in Cluster \ DirectoryClusters
                      /\ fat'[Chain(g)'[m]] # FAT32EntryFree
    BY DEF HeldAllocated
  <2>1. CASE m \in Held(g)
    BY <1>8, <2>1 DEF ChainInv, HeldAllocated, HeldStays
  <2>2. CASE g = f /\ m = n + 1
    BY <1>4, <1>5, <1>11, <1>12, <1>14, <2>2
  <2> QED
    BY <1>13, <2>1, <2>2
<1>16. HeldApart'
  <2> SUFFICES ASSUME NEW g \in Files, NEW h \in Files, NEW i \in Held(g)', NEW j \in Held(h)',
                      Chain(g)'[i] = Chain(h)'[j], g # h
               PROVE  FALSE
    BY DEF HeldApart
  <2>1. CASE i \in Held(g) /\ j \in Held(h)
    BY <1>8, <2>1 DEF ChainInv, HeldApart, HeldStays
  <2>2. CASE g = f /\ i = n + 1 /\ j \in Held(h)
    BY <1>6, <1>8, <1>12, <2>2 DEF HeldStays
  <2>3. CASE i \in Held(g) /\ h = f /\ j = n + 1
    BY <1>6, <1>8, <1>12, <2>3 DEF HeldStays
  <2> QED
    BY <1>13, <2>1, <2>2, <2>3
<1>17. InPosition'
  <2>1. IsAt(f, n + 1)'
    BY <1>3, <1>10, <1>12 DEF IsAt, Start
  <2>2. ASSUME NEW g \in open \ {f}, current_cluster_'[g] # 0
        PROVE  \E m \in 0 .. MaximumClusterNumber : IsAt(g, m)'
    <3>1. PICK m \in Held(g) : IsAt(g, m)
      BY <1>2, <1>3, <2>2, Whereabouts
    <3>2. m \in 0 .. MaximumClusterNumber /\ Chain(g)'[m] = Chain(g)[m]
      BY <1>2, <1>8 DEF Held, HeldStays
    <3> QED
      BY <1>2, <1>3, <3>1, <3>2 DEF IsAt, Start
  <2> QED
    BY <1>2, <1>9, <2>1, <2>2 DEF InPosition
<1>18. ObjectsAgree'
  <2>1. directory[f].first # 0
    BY <1>9, HoldsFirst DEF ChainInv
  <2> QED
    BY <1>2, <1>3, <1>4, <2>1 DEF ChainInv, ObjectsAgree, ObjectAgrees
<1>19. CallUnderWay' /\ NewClusterIsNew'
  BY <1>2, <1>3, <1>4 DEF CallUnderWay, NewClusterIsNew
<1> QED
  BY <1>8, <1>15, <1>16, <1>17, <1>18, <1>19 DEF ChainInv

-----------------------------------------------------------------------------
(* The invariant, and what follows from it.                                *)

(* At first no file holds anything.                                        *)
LEMMA ChainInitially == Init => ChainInv
<1> SUFFICES ASSUME Init PROVE ChainInv
  OBVIOUS
<1>1. TypeInv
  BY InitialTypes
<1>2. /\ fat = [c \in Cluster |-> IF c \in DirectoryClusters
                                  THEN FAT32EntryAllocatedAndEndOfFile ELSE FAT32EntryFree]
      /\ directory = [f \in Files |-> [first |-> 0, size |-> 0]] /\ open = {} /\ pc = "idle"
  BY DEF Init
<1>3. \A f \in Files : directory[f].first = 0 /\ directory[f].size = 0
  BY <1>2
<1>4. \A n \in 0 .. MaximumClusterNumber : ~(Start(n) < 0)
  BY StartFacts, VolumeAssumption
<1>5. \A f \in Files : Held(f) = {}
  BY <1>2, <1>3, <1>4 DEF Held
<1>6. HeldAllocated /\ HeldApart
  BY <1>5 DEF HeldAllocated, HeldApart
<1>7. ObjectsAgree /\ InPosition /\ CallUnderWay /\ NewClusterIsNew
  BY <1>2, <1>3 DEF ObjectsAgree, InPosition, CallUnderWay, NewClusterIsNew
<1>8. /\ FAT32EntryAllocatedAndEndOfFile \in FATEntry \ Cluster
      /\ FAT32EntryFree \in FATEntry \ Cluster
      /\ FAT32EntryAllocatedAndEndOfFile # FAT32EntryFree
  BY ClusterNumbers DEF FATEntry, FAT32EntryAllocatedAndEndOfFile, FAT32EntryFree
<1>9. IsForward(fat) /\ DirectoriesAllocated
  BY <1>2, <1>8, FileAssumption DEF IsForward, DirectoriesAllocated
<1> QED
  BY <1>1, <1>6, <1>7, <1>9 DEF ChainInv

(* Every step keeps it, and the clusters that are held where they are.     *)
LEMMA ChainStep == ChainInv /\ [Next]_vars => ChainInv' /\ HeldStays
<1> SUFFICES ASSUME ChainInv, [Next]_vars PROVE ChainInv' /\ HeldStays
  OBVIOUS
<1>1. TypeInv'
  BY TypeStep DEF ChainInv
<1>2. CASE UNCHANGED vars
  <2>1. UNCHANGED <<fat, directory, open, size_, first_cluster_, current_cluster_,
                    byte_offset_into_cluster_, byte_offset_into_file_, pc, call, new_cluster>>
    BY <1>2 DEF vars, adapterVars, objectVars, positionVars, localVars
  <2>2. \A f \in Files : Held(f)' \subseteq Held(f)
    BY <2>1 DEF Held
  <2>3. /\ \A f \in Files : Chain(f)' = Chain(f)
        /\ IsForward(fat)' /\ DirectoriesAllocated' /\ HeldAllocated' /\ HeldApart'
    BY <1>1, <2>1, <2>2, FATUntouched
  <2>4. open \subseteq Files
    BY DEF ChainInv, TypeInv, TypeOK, ObjectTypeOK
  <2>5. ObjectsAgree' /\ CallUnderWay'
    BY <2>1 DEF ChainInv, ObjectsAgree, ObjectAgrees, CallUnderWay
  <2>6. InPosition'
    BY <2>1, <2>3, <2>4 DEF ChainInv, InPosition, IsAt, Start
  <2>7. NewClusterIsNew'
    BY <2>1, <2>2, <2>3 DEF ChainInv, NewClusterIsNew
  <2> QED
    BY <1>1, <2>3, <2>5, <2>6, <2>7 DEF ChainInv, HeldStays
<1> QED
  BY <1>1, <1>2, BeginCallKeeps, SeekFromKeeps, SeekBlockKeeps, SeekNextKeeps, ReadKeeps,
     AllocateFirstClusterKeeps, PublishFirstClusterKeeps, LinkNewClusterKeeps,
     MarkNewClusterKeeps, WriteKeeps, FaultsKeep DEF Next, Continue

(* What the size of an entry needs is held.                                *)
LEMMA CommittedIsHeld ==
  ASSUME NEW f \in Files
  PROVE  /\ \A n \in 0 .. MaximumClusterNumber : n * BytesPerCluster < directory[f].size => n \in Held(f)
         /\ \A c \in CommittedClusters(f) : \E n \in Held(f) : c = Chain(f)[n]
<1>1. \A n \in 0 .. MaximumClusterNumber : n * BytesPerCluster < directory[f].size => n \in Held(f)
  BY DEF Held, Start
<1>2. ChainWalk(directory[f].first) = Chain(f)
  BY WalkOfFAT DEF Chain
<1> QED
  BY <1>1, <1>2 DEF CommittedClusters

(* A chain is as long as the first place it is out of the volume.          *)
LEMMA LengthOfChain ==
  ASSUME IsForward(fat), NEW f \in Files
  PROVE  /\ ChainLength(directory[f].first) \in 0 .. MaximumClusterNumber
         /\ Chain(f)[ChainLength(directory[f].first)] \notin Cluster
<1> DEFINE M == MaximumClusterNumber
           w == ChainWalk(directory[f].first)
           Ends(n) == w[n] \notin Cluster /\ \A m \in 0 .. (n - 1) : w[m] \in Cluster
<1>0. M \in Nat /\ w = Chain(f)
  BY VolumeAssumption, WalkOfFAT DEF Chain
<1>1. w[M] \notin Cluster
  <2>1. ASSUME w[M] \in Cluster PROVE M + 2 <= w[M]
    BY <1>0, <2>1, WalkClimbs DEF Chain
  <2> HIDE DEF w
  <2> QED
    BY <1>0, <2>1 DEF Cluster
<1>2. \E n \in 0 .. M : Ends(n)
  <2> SUFFICES ASSUME \A n \in 0 .. M : ~Ends(n) PROVE FALSE
    OBVIOUS
  <2> DEFINE S == {n \in 0 .. M : \A m \in 0 .. n : w[m] \in Cluster}
  <2> HIDE DEF w
  <2>1. 0 \in S
    <3>1. ~Ends(0) /\ 0 \in 0 .. M
      BY <1>0
    <3> QED
      BY <3>1
  <2>2. ASSUME NEW n \in 0 .. (M - 1), n \in S PROVE n + 1 \in S
    <3>1. n + 1 \in 0 .. M /\ \A m \in 0 .. n : w[m] \in Cluster
      BY <1>0, <2>2
    <3>2. w[n + 1] \in Cluster
      <4>1. ~Ends(n + 1)
        BY <3>1
      <4> QED
        BY <3>1, <4>1
    <3> QED
      BY <3>1, <3>2
  <2>3. 0 .. M \subseteq S
    <3> HIDE DEF S
    <3> QED
      BY <1>0, <2>1, <2>2, EveryNumberTo
  <2> QED
    BY <1>0, <1>1, <2>3
<1>3. ChainLength(directory[f].first) = CHOOSE n \in 0 .. M : Ends(n)
  BY <1>0, <1>1 DEF ChainLength
<1> HIDE DEF w
<1> QED
  BY <1>0, <1>2, <1>3

(* An open file is where its two offsets say, whatever seeks, reads, writes*)
(* and failures led it there.                                              *)
THEOREM FilesKnowTheirPlace == Spec => []PositionConsistent
<1>1. ASSUME ChainInv PROVE PositionConsistent
  <2> SUFFICES ASSUME NEW f \in open, current_cluster_[f] # 0
               PROVE  LET start == byte_offset_into_file_[f] - byte_offset_into_cluster_[f]
                          n == start \div BytesPerCluster
                      IN  /\ start % BytesPerCluster = 0
                          /\ n \in 0 .. MaximumClusterNumber
                          /\ ChainWalk(first_cluster_[f])[n] = current_cluster_[f]
                          /\ current_cluster_[f] \in Cluster
    BY DEF PositionConsistent
  <2>1. PICK n \in Held(f) :
          IsAt(f, n) /\ n \in Nat /\ Start(n) \in Nat /\ current_cluster_[f] \in Cluster
    BY <1>1, Whereabouts
  <2>2. n \in 0 .. MaximumClusterNumber
    BY DEF Held
  <2>3. f \in Files /\ byte_offset_into_cluster_[f] \in Nat /\ first_cluster_[f] = directory[f].first
    BY <1>1, FileAssumption DEF ChainInv, TypeInv, TypeOK, ObjectTypeOK, ObjectsAgree, ObjectAgrees
  <2>4. byte_offset_into_file_[f] - byte_offset_into_cluster_[f] = n * BytesPerCluster
    BY <2>1, <2>3 DEF IsAt, Start
  <2>5. (n * BytesPerCluster) % BytesPerCluster = 0 /\ (n * BytesPerCluster) \div BytesPerCluster = n
    BY <2>1, FileAssumption
  <2>6. ChainWalk(first_cluster_[f])[n] = current_cluster_[f]
    BY <2>1, <2>3, WalkOfFAT DEF IsAt, Chain
  <2> QED
    BY <2>1, <2>2, <2>4, <2>5, <2>6
<1> QED
  BY <1>1, ChainInitially, ChainStep, PTL DEF Spec

(* The directory never promises more than the chain of a file holds.       *)
THEOREM PromisesAreCovered == Spec => []SizeIsCovered
<1>1. ASSUME ChainInv PROVE SizeIsCovered
  <2> SUFFICES ASSUME NEW f \in Files
               PROVE  /\ CommittedClusters(f) \subseteq {c \in Cluster : fat[c] # FAT32EntryFree}
                      /\ directory[f].size <= BytesPerCluster * ChainLength(directory[f].first)
    BY DEF SizeIsCovered
  <2>1. CommittedClusters(f) \subseteq {c \in Cluster : fat[c] # FAT32EntryFree}
    BY <1>1, CommittedIsHeld DEF ChainInv, HeldAllocated
  <2> DEFINE length == ChainLength(directory[f].first)
  <2>2. length \in 0 .. MaximumClusterNumber /\ Chain(f)[length] \notin Cluster
    BY <1>1, LengthOfChain DEF ChainInv
  <2>3. ~(length * BytesPerCluster < directory[f].size)
    BY <1>1, <2>2, CommittedIsHeld DEF ChainInv, HeldAllocated
  <2>4. directory[f].size \in Nat /\ BytesPerCluster \in Nat /\ length \in Nat
    BY <1>1, <2>2, VolumeAssumption, FileAssumption DEF ChainInv, TypeInv, TypeOK, DeviceTypeOK
  <2> HIDE DEF length
  <2>5. directory[f].size <= BytesPerCluster * length
    BY <2>3, <2>4
  <2> QED
    BY <2>1, <2>5 DEF length
<1> QED
  BY <1>1, ChainInitially, ChainStep, PTL DEF Spec

(* What two entries promise never meets, and never meets a directory.      *)
THEOREM PromisesAreApart == Spec => []CommittedDisjoint
<1>1. ASSUME ChainInv PROVE CommittedDisjoint
  <2> SUFFICES ASSUME NEW f \in Files
               PROVE  /\ CommittedClusters(f) \cap DirectoryClusters = {}
                      /\ \A g \in Files \ {f} : CommittedClusters(f) \cap CommittedClusters(g) = {}
    BY DEF CommittedDisjoint
  <2>1. CommittedClusters(f) \cap DirectoryClusters = {}
    BY <1>1, CommittedIsHeld DEF ChainInv, HeldAllocated
  <2>2. ASSUME NEW g \in Files \ {f}, NEW c \in CommittedClusters(f) \cap CommittedClusters(g)
        PROVE  FALSE
    <3>1. PICK m \in Held(f) : c = Chain(f)[m]
      BY CommittedIsHeld
    <3>2. PICK n \in Held(g) : c = Chain(g)[n]
      BY CommittedIsHeld
    <3> QED
      BY <1>1, <3>1, <3>2 DEF ChainInv, HeldApart
  <2> QED
    BY <2>1, <2>2
<1> QED
  BY <1>1, ChainInitially, ChainStep, PTL DEF Spec

(* What an entry promises stays where it is, and only its own file writes  *)
(* there.                                                                  *)
THEOREM PromisesStay == Spec => CommittedDataStable
<1> DEFINE Stable ==
      \A f \in Files :
        /\ \A n \in 0 .. MaximumClusterNumber : n * BytesPerCluster < directory[f].size =>
             ChainWalk(directory[f].first)'[n] = ChainWalk(directory[f].first)[n]
        /\ pc = "copy" /\ call.file # f =>
             current_cluster_[call.file] \notin CommittedClusters(f)
<1>1. ASSUME ChainInv, [Next]_vars PROVE Stable
  <2> TAKE f \in Files
  <2>1. ASSUME NEW n \in 0 .. MaximumClusterNumber, n * BytesPerCluster < directory[f].size
        PROVE  ChainWalk(directory[f].first)'[n] = ChainWalk(directory[f].first)[n]
    <3>1. Chain(f)'[n] = Chain(f)[n]
      BY <1>1, <2>1, CommittedIsHeld, ChainStep DEF HeldStays
    <3>2. ChainWalk(directory[f].first) = Chain(f) /\ ChainWalk(directory[f].first)' = Chain(f)'
      BY WalkOfFAT DEF Chain
    <3> QED
      BY <3>1, <3>2
  <2>2. ASSUME pc = "copy", call.file # f, current_cluster_[call.file] \in CommittedClusters(f)
        PROVE  FALSE
    <3>1. /\ call.file \in open /\ current_cluster_[call.file] # 0 /\ open \subseteq Files
      BY <1>1, <2>2 DEF ChainInv, CallUnderWay, TypeInv, TypeOK, ObjectTypeOK
    <3>2. PICK n \in Held(call.file) : IsAt(call.file, n)
      BY <1>1, <3>1, Whereabouts
    <3>3. PICK m \in Held(f) : current_cluster_[call.file] = Chain(f)[m]
      BY <2>2, CommittedIsHeld
    <3> QED
      BY <1>1, <2>2, <3>1, <3>2, <3>3 DEF ChainInv, HeldApart, IsAt
  <2> QED
    BY <2>1, <2>2
<1>2. Spec => []ChainInv
  BY ChainInitially, ChainStep, PTL DEF Spec
<1> QED
  BY <1>1, <1>2, PTL DEF Spec, CommittedDataStable

-----------------------------------------------------------------------------
(***************************************************************************)
(* No cluster is lost until something fails.  To link a new cluster to the *)
(* end of a file loses what was linked there before, and a Write that runs *)
(* out of clusters does leave a chain that is longer than its file.  It is *)
(* then that no free cluster is left behind it: TailsAreFinal.  While a    *)
(* Write is on its way it is not, but whatever free clusters there are lie *)
(* beyond the one it has come to.                                          *)
(***************************************************************************)
Growing(f) ==
  /\ pc \in {"copy", "advance", "mark", "resize"} /\ call.file = f
  /\ pc = "copy" \/ byte_offset_into_cluster_[f] > 0

FreeBeyond(c) == {d \in Cluster : fat[d] = FAT32EntryFree /\ c < d}

\* The n-th cluster of the chain is followed by one that the size does not need.
LeadsToTail(f, n) == Chain(f)[n + 1] \in Cluster /\ directory[f].size <= Start(n + 1)

TailsAreFinal ==
  \A f \in Files : \A n \in 0 .. (MaximumClusterNumber - 1) : LeadsToTail(f, n) =>
    \A c \in FreeBeyond(Chain(f)[n]) :
      \/ Growing(f) /\ Chain(f)[n] < current_cluster_[f] /\ current_cluster_[f] < c
      \/ pc = "mark" /\ call.file = f /\ Chain(f)[n] = current_cluster_[f] /\ new_cluster <= c

SizesAreSaved == \A f \in open : size_[f] = directory[f].size

NewClusterIsLast == pc = "publish" => fat[new_cluster] \notin Cluster

NothingLost ==
  \A c \in Cluster : fat[c] # FAT32EntryFree =>
    \/ c \in DirectoryClusters
    \/ \E f \in Files : \E n \in 0 .. MaximumClusterNumber : c = Chain(f)[n]
    \/ pc = "publish" /\ c = new_cluster

Undisturbed == TailsAreFinal /\ SizesAreSaved /\ NewClusterIsLast /\ NothingLost

LossInv == ChainInv /\ StructureInv /\ (faults = 0 => Undisturbed)

(* The clusters that are visited from a set of them.                       *)
Visited ==
  LET visited[S \in SUBSET Cluster] ==
        LET next == {NextClusterInChain(c) : c \in S} \cap Cluster
        IN  IF next \subseteq S THEN S ELSE visited[S \cup next]
  IN  visited

NextOf(S) == {NextClusterInChain(c) : c \in S} \cap Cluster

(* The recursive function is one: a set of clusters leads to the smallest  *)
(* set that contains it and all its successors.                            *)
LEMMA VisitedSteps ==
  \A S \in SUBSET Cluster :
    Visited[S] = IF NextOf(S) \subseteq S THEN S ELSE Visited[S \cup NextOf(S)]
<1> DEFINE Closed(T) == NextOf(T) \subseteq T
           Closure(S) == {c \in Cluster : \A T \in SUBSET Cluster : S \subseteq T /\ Closed(T) => c \in T}
           g == [S \in SUBSET Cluster |-> Closure(S)]
<1>1. ASSUME NEW S \in SUBSET Cluster
      PROVE  Closure(S) = IF Closed(S) THEN S ELSE Closure(S \cup NextOf(S))
  <2>1. CASE Closed(S)
    BY <2>1
  <2>2. CASE ~Closed(S)
    <3>1. ASSUME NEW T \in SUBSET Cluster, Closed(T)
          PROVE  S \subseteq T <=> S \cup NextOf(S) \subseteq T
      BY <3>1 DEF NextOf
    <3>2. Closure(S) = Closure(S \cup NextOf(S))
      BY <3>1
    <3> QED
      BY <2>2, <3>2
  <2> QED
    BY <2>1, <2>2
<1>2. g = [S \in SUBSET Cluster |-> IF NextOf(S) \subseteq S THEN S ELSE g[S \cup NextOf(S)]]
  <2>1. \A S \in SUBSET Cluster : S \cup NextOf(S) \in SUBSET Cluster
    BY DEF NextOf
  <2>2. \A S \in SUBSET Cluster : g[S] = IF NextOf(S) \subseteq S THEN S ELSE g[S \cup NextOf(S)]
    <3> HIDE DEF Closure
    <3> QED
      BY <1>1, <2>1
  <2> QED
    BY <2>2
<1>3. \E h : h = [S \in SUBSET Cluster |->
                    LET next == {NextClusterInChain(c) : c \in S} \cap Cluster
                    IN  IF next \subseteq S THEN S ELSE h[S \cup next]]
  <2> HIDE DEF g
  <2> QED
    BY <1>2 DEF NextOf
<1>4. Visited = [S \in SUBSET Cluster |->
                   LET next == {NextClusterInChain(c) : c \in S} \cap Cluster
                   IN  IF next \subseteq S THEN S ELSE Visited[S \cup next]]
  BY <1>3 DEF Visited
<1> QED
  BY <1>4 DEF NextOf

(* The clusters of a chain are among those the chain is said to visit.     *)
LEMMA ChainIsVisited ==
  ASSUME IsForward(fat), NEW f \in Files, NEW n \in 0 .. MaximumClusterNumber,
         Chain(f)[n] \in Cluster
  PROVE  Chain(f)[n] \in ChainClusters(directory[f].first)
<1> DEFINE Good(S) == S \subseteq Visited[S] /\ NextOf(Visited[S]) \subseteq Visited[S]
           Near(k) == {S \in SUBSET Cluster : Cardinality(Cluster \ S) <= k}
           K == {k \in Nat : \A S \in Near(k) : Good(S)}
<1>1. \A S \in SUBSET Cluster : IsFiniteSet(Cluster \ S) /\ Cardinality(Cluster \ S) \in Nat
  <2>1. IsFiniteSet(Cluster)
    BY VolumeAssumption, FS_Interval DEF Cluster
  <2> QED
    BY <2>1, FS_Subset, FS_CardinalityType
<1>2. 0 \in K
  <2> SUFFICES ASSUME NEW S \in Near(0) PROVE Good(S)
    OBVIOUS
  <2>1. Cluster \ S = {}
    BY <1>1, FS_EmptySet
  <2>2. NextOf(S) \subseteq S
    BY <2>1 DEF NextOf
  <2> QED
    BY <2>2, VisitedSteps
<1>3. ASSUME NEW k \in Nat, k \in K
      PROVE  k + 1 \in K
  <2> SUFFICES ASSUME NEW S \in Near(k + 1) PROVE Good(S)
    OBVIOUS
  <2>1. CASE NextOf(S) \subseteq S
    BY <2>1, VisitedSteps
  <2>2. CASE ~(NextOf(S) \subseteq S)
    <3> DEFINE T == S \cup NextOf(S)
    <3>1. T \in SUBSET Cluster /\ Cluster \ T \subseteq Cluster \ S /\ Cluster \ T # Cluster \ S
      BY <2>2 DEF NextOf
    <3>2. Cardinality(Cluster \ T) <= Cardinality(Cluster \ S)
          /\ Cardinality(Cluster \ T) # Cardinality(Cluster \ S)
      BY <1>1, <3>1, FS_Subset
    <3>3. T \in Near(k)
      <4>1. Cardinality(Cluster \ S) <= k + 1
        OBVIOUS
      <4>2. Cardinality(Cluster \ S) \in Nat /\ Cardinality(Cluster \ T) \in Nat
        BY <1>1, <3>1
      <4>3. Cardinality(Cluster \ T) <= k
        BY <3>2, <4>1, <4>2
      <4> QED
        BY <3>1, <4>3
    <3>4. Good(T)
      BY <1>3, <3>3
    <3>5. Visited[S] = Visited[T]
      BY <2>2, VisitedSteps
    <3> QED
      BY <3>4, <3>5
  <2> QED
    BY <2>1, <2>2
<1>4. \A S \in SUBSET Cluster : Good(S)
  <2>1. Nat \subseteq K
    <3> HIDE DEF K
    <3> QED
      BY <1>2, <1>3, EveryNatural
  <2> TAKE S \in SUBSET Cluster
  <2>2. Cardinality(Cluster \ S) \in K
    BY <1>1, <2>1
  <2>3. S \in Near(Cardinality(Cluster \ S))
    BY <1>1
  <2> QED
    BY <2>2, <2>3
<1> DEFINE first == directory[f].first
           visited == ChainClusters(first)
           w == Chain(f)
           N == {m \in 0 .. n : w[m] \in visited}
<1>5. visited = Visited[{first} \cap Cluster]
  BY DEF ChainClusters, Visited
<1>6. {first} \cap Cluster \subseteq visited /\ NextOf(visited) \subseteq visited
  BY <1>4, <1>5
<1>7. \A m \in 0 .. n : w[m] \in Cluster
  <2>1. \A m \in 0 .. (n - 1) : w[m] \in Cluster
    BY WalkClimbs DEF Chain
  <2> QED
    BY <2>1, VolumeAssumption
<1>8. 0 \in N
  BY <1>6, <1>7, WalkSteps, VolumeAssumption DEF Chain
<1>9. ASSUME NEW m \in 0 .. (n - 1), m \in N
      PROVE  m + 1 \in N
  <2>1. m \in 0 .. (MaximumClusterNumber - 1) /\ m + 1 \in 0 .. n /\ m \in 0 .. n
    BY VolumeAssumption
  <2>2. w[m + 1] = fat[w[m]] /\ w[m + 1] \in Cluster
    BY <1>7, <2>1, WalkSteps DEF Chain, OneStep
  <2>3. w[m + 1] \in NextOf(visited)
    BY <1>9, <2>2 DEF NextOf, NextClusterInChain
  <2> QED
    BY <1>6, <2>1, <2>3
<1>10. 0 .. n \subseteq N
  <2>1. n \in Nat
    BY VolumeAssumption
  <2> HIDE DEF N
  <2> QED
    BY <1>8, <1>9, <2>1, EveryNumberTo
<1>11. n \in 0 .. n
  BY VolumeAssumption
<1> QED
  BY <1>10, <1>11

(* Until something fails chains do not even meet behind what files hold.   *)
LEMMA ChainsMeetNowhere ==
  ASSUME TypeInv, ChainsApart, IsForward(fat), NEW f \in Files, NEW g \in Files
  PROVE  \A m, n \in 0 .. MaximumClusterNumber :
           Chain(f)[m] \in Cluster /\ Chain(f)[m] = Chain(g)[n] => f = g
<1> DEFINE M == MaximumClusterNumber
           Meets(m, n) == Chain(f)[m] \in Cluster /\ Chain(f)[m] = Chain(g)[n]
           S == {m \in 0 .. M : \A n \in 0 .. M : Meets(m, n) => f = g}
<1>0. M \in Nat
  BY VolumeAssumption
<1>1. ASSUME NEW h \in Files, NEW n \in 1 .. M, Chain(h)[n] \in Cluster
      PROVE  Chain(h)[n - 1] \in Cluster /\ Chain(h)[n] = fat[Chain(h)[n - 1]]
  <2>1. n - 1 \in 0 .. (n - 1) /\ n \in 0 .. M /\ n - 1 \in 0 .. (M - 1) /\ (n - 1) + 1 = n
    BY <1>0
  <2>2. Chain(h)[n - 1] \in Cluster
    BY <1>1, <2>1, WalkClimbs DEF Chain
  <2> QED
    BY <2>1, <2>2, WalkSteps DEF Chain, OneStep
<1>2. ASSUME NEW h \in Files PROVE Chain(h)[0] = directory[h].first
  BY WalkSteps DEF Chain
<1>3. ASSUME NEW h \in Files, Chain(h)[0] \in Cluster PROVE Chain(h)[0] \in FirstClusters
  BY <1>2, <1>3, ClusterNumbers DEF FirstClusters, FAT32EntryFree
<1>4. 0 \in S
  <2> SUFFICES ASSUME NEW n \in 0 .. M, Meets(0, n) PROVE f = g
    BY <1>0
  <2>1. CASE n = 0
    BY <1>2, <1>3, <2>1, ClusterNumbers DEF ChainsApart, FAT32EntryFree
  <2>2. CASE n # 0
    <3>1. n \in 1 .. M
      BY <2>2
    <3> QED
      BY <1>1, <1>3, <3>1 DEF ChainsApart
  <2> QED
    BY <2>1, <2>2
<1>5. ASSUME NEW m \in 0 .. (M - 1), m \in S PROVE m + 1 \in S
  <2>0. m + 1 \in 1 .. M /\ m + 1 \in 0 .. M /\ (m + 1) - 1 = m
    BY <1>0
  <2> SUFFICES ASSUME NEW n \in 0 .. M, Meets(m + 1, n) PROVE f = g
    BY <2>0
  <2>1. Chain(f)[m] \in Cluster /\ Chain(f)[m + 1] = fat[Chain(f)[m]]
    BY <1>1, <2>0
  <2>2. CASE n = 0
    BY <1>3, <2>1, <2>2 DEF ChainsApart
  <2>3. CASE n # 0
    <3>1. n \in 1 .. M /\ n - 1 \in 0 .. M
      BY <1>0, <2>3
    <3>2. Chain(g)[n - 1] \in Cluster /\ Chain(g)[n] = fat[Chain(g)[n - 1]]
      BY <1>1, <3>1
    <3>3. Chain(f)[m] = Chain(g)[n - 1]
      BY <2>1, <3>2 DEF ChainsApart
    <3> QED
      BY <1>5, <2>1, <3>1, <3>3
  <2> QED
    BY <2>2, <2>3
<1>6. 0 .. M \subseteq S
  <2> HIDE DEF S
  <2> QED
    BY <1>0, <1>4, <1>5, EveryNumberTo
<1> QED
  BY <1>6

(* To write an entry that ended a chain moves none of its clusters.        *)
DiffersAtEnd(table, other, d) ==
  table[d] \notin Cluster /\ \A c \in Cluster \ {d} : other[c] = table[c]

(* A walk that is still in a cluster has not got past that end.            *)
LEMMA WalkKept ==
  ASSUME NEW table, NEW other, IsForward(table), NEW first, NEW d, DiffersAtEnd(table, other, d),
         NEW n \in 0 .. MaximumClusterNumber, WalkIn(table, first)[n] \in Cluster
  PROVE  WalkIn(other, first)[n] = WalkIn(table, first)[n]
<1>1. n \in Nat /\ n \in 0 .. n
  BY VolumeAssumption
<1>2. ASSUME NEW m \in 0 .. (n - 1), WalkIn(table, first)[m] \in Cluster
      PROVE  WalkIn(table, first)[m] # d
  <2>1. m + 1 \in 0 .. n /\ m \in 0 .. (MaximumClusterNumber - 1)
    BY <1>1, VolumeAssumption
  <2>2. WalkIn(table, first)[m + 1] \in Cluster
    <3>1. CASE m + 1 = n
      BY <3>1
    <3>2. CASE m + 1 # n
      <4>1. m + 1 \in 0 .. (n - 1)
        BY <1>1, <2>1, <3>2
      <4> QED
        BY <4>1, WalkClimbs
    <3> QED
      BY <3>1, <3>2
  <2> QED
    BY <1>2, <2>1, <2>2, WalkSteps DEF OneStep, DiffersAtEnd
<1>3. SameFor(table, other, first, n)
  BY <1>2 DEF SameFor, DiffersAtEnd
<1> QED
  BY <1>1, <1>3, WalkSame

(* Steps that change no chain.  No cluster is lost by them; what is left   *)
(* behind the chains is the matter of each.                                *)
LEMMA ChainsUntouched ==
  ASSUME ChainInv, Undisturbed, UNCHANGED fat,
         \A f \in Files : directory'[f].first = directory[f].first,
         pc \notin {"publish"}, pc' \notin {"publish"},
         SizesAreSaved', TailsAreFinal'
  PROVE  Undisturbed'
<1>1. \A f \in Files : Chain(f)' = Chain(f)
  BY DEF Chain
<1> QED
  BY <1>1 DEF Undisturbed, NewClusterIsLast, NothingLost

(* Where no Write is on its way there is nothing behind a tail, and what   *)
(* does not change a size or a chain leaves it so.                         *)
LEMMA OutsideWrite ==
  ASSUME ChainInv, Undisturbed, UNCHANGED <<fat, directory>>,
         pc \notin {"copy", "advance", "mark", "resize", "publish"}, pc' \notin {"publish"},
         SizesAreSaved'
  PROVE  Undisturbed'
<1>1. \A f \in Files : Chain(f)' = Chain(f)
  BY DEF Chain
<1>2. TailsAreFinal'
  BY <1>1 DEF Undisturbed, TailsAreFinal, Growing, LeadsToTail, FreeBeyond, Start
<1> QED
  BY <1>2, ChainsUntouched

(* The beginning of a call writes nothing.                                 *)
LEMMA BeginUndisturbed ==
  ASSUME ChainInv, Undisturbed, BeginCall
  PROVE  Undisturbed'
<1>1. PICK f \in Files :
        \/ OpenFile(f)
        \/ CloseFile(f)
        \/ \E position \in 0 .. MaxFileSize : SeekCall(f, position)
        \/ \E space \in 0 .. MaxFileSize : ReadCall(f, space)
        \/ \E buffer \in Buffers : WriteCall(f, buffer) \/ AppendCall(f, buffer)
  BY DEF BeginCall
<1>2. UNCHANGED <<fat, directory>> /\ pc = "idle" /\ pc' # "publish"
  <2>1. \A cluster, buffer : WriteEntry(cluster, buffer) # "publish"
    BY DEF WriteEntry
  <2> QED
    BY <1>1, <2>1 DEF OpenFile, CloseFile, SeekCall, ReadCall, WriteCall, AppendCall, Begin, adapterVars
<1>3. SizesAreSaved'
  <2>0. size_ \in [Files -> Nat] /\ open \subseteq Files
    BY DEF ChainInv, TypeInv, TypeOK, ObjectTypeOK
  <2>1. CASE OpenFile(f)
    BY <1>2, <2>0, <2>1 DEF OpenFile, Undisturbed, SizesAreSaved
  <2>2. CASE CloseFile(f)
    BY <1>2, <2>0, <2>2 DEF CloseFile, Undisturbed, SizesAreSaved
  <2>3. CASE UNCHANGED <<open, size_>>
    BY <1>2, <2>3 DEF Undisturbed, SizesAreSaved
  <2> QED
    BY <1>1, <2>1, <2>2, <2>3 DEF SeekCall, ReadCall, WriteCall, AppendCall, Begin, objectVars
<1> QED
  BY <1>2, <1>3, OutsideWrite

(* Nor do Seek and Read.                                                   *)
LEMMA SeekReadUndisturbed ==
  ASSUME ChainInv, Undisturbed,
         SeekFrom \/ SeekBlock \/ SeekNext \/ ReadFinished \/ ReadBlock \/ ReadNext
  PROVE  Undisturbed'
<1>1. /\ UNCHANGED <<fat, directory, open, size_>>
      /\ pc \in {"seek_from", "seek", "seek_next", "read", "read_next"}
  BY DEF SeekFrom, SeekBlock, SeekNext, ReadFinished, ReadBlock, ReadNext, adapterVars, objectVars
<1>2. pc' # "publish"
  <2>1. \A at : WriteEntry(at, call.buffer) # "publish"
    BY DEF WriteEntry
  <2>2. ASSUME NEW at, SeekFinished(at) PROVE pc' # "publish"
    BY <2>1, <2>2 DEF SeekFinished, Goto, Return
  <2> QED
    BY <2>2 DEF SeekFrom, SeekBlock, SeekNext, ReadFinished, ReadBlock, ReadNext, Goto, Return
<1>3. SizesAreSaved'
  BY <1>1 DEF Undisturbed, SizesAreSaved
<1> QED
  BY <1>1, <1>2, <1>3, OutsideWrite

(* The steps of Write that write no entry.                                 *)
LEMMA CopyUndisturbed ==
  ASSUME ChainInv, Undisturbed, CopyBlock
  PROVE  Undisturbed'
<1>0. PICK f \in Files : f = call.file
  BY DEF CopyBlock, ChainInv, TypeInv, TypeOK, CallTypeOK
<1> DEFINE k == Smaller(BytesPerCluster - byte_offset_into_cluster_[f], Len(call.buffer) - transferred)
<1>1. /\ UNCHANGED <<fat, directory, open, size_, current_cluster_, call>>
      /\ pc = "copy" /\ pc' \in {"resize", "advance"} /\ f \in open /\ call.file = f
      /\ byte_offset_into_cluster_' = [byte_offset_into_cluster_ EXCEPT ![f] = @ + k]
  BY <1>0 DEF CopyBlock, Goto, adapterVars, ChainInv, CallUnderWay
<1>2. /\ byte_offset_into_cluster_[f] \in 0 .. BytesPerCluster
      /\ Len(call.buffer) - transferred \in Nat \ {0}
      /\ byte_offset_into_cluster_'[f] = byte_offset_into_cluster_[f] + k
  BY <1>1 DEF ChainInv, TypeInv, TransferWithinBuffer, TypeOK, ObjectTypeOK, CallTypeOK, Calls
<1>3. byte_offset_into_cluster_'[f] > 0
  BY <1>2, FileAssumption DEF Smaller
<1>4. Growing(f)'
  BY <1>1, <1>3 DEF Growing
<1>5. \A g \in Files : Chain(g)' = Chain(g)
  BY <1>1 DEF Chain
<1>6. TailsAreFinal'
  <2> SUFFICES ASSUME NEW g \in Files, NEW n \in 0 .. (MaximumClusterNumber - 1), LeadsToTail(g, n)',
                      NEW c \in FreeBeyond(Chain(g)[n])'
               PROVE  Growing(g)' /\ Chain(g)'[n] < current_cluster_'[g] /\ current_cluster_'[g] < c
    BY DEF TailsAreFinal
  <2>1. LeadsToTail(g, n) /\ c \in FreeBeyond(Chain(g)[n])
    BY <1>1, <1>5 DEF LeadsToTail, FreeBeyond, Start
  <2>2. Growing(g) /\ Chain(g)[n] < current_cluster_[g] /\ current_cluster_[g] < c
    BY <1>1, <2>1 DEF Undisturbed, TailsAreFinal
  <2>3. g = f
    BY <1>1, <2>2 DEF Growing
  <2> QED
    BY <1>1, <1>4, <1>5, <2>2, <2>3
<1>7. SizesAreSaved'
  BY <1>1 DEF Undisturbed, SizesAreSaved
<1> QED
  BY <1>1, <1>6, <1>7, ChainsUntouched

(* A Write that has passed a cluster of the chain is beyond it in the file.*)
LEMMA PassedIsNeeded ==
  ASSUME ChainInv, NEW f \in open, current_cluster_[f] # 0,
         NEW n \in 0 .. (MaximumClusterNumber - 1), Chain(f)[n + 1] \in Cluster,
         Chain(f)[n] < current_cluster_[f]
  PROVE  Start(n + 1) + byte_offset_into_cluster_[f] <= byte_offset_into_file_[f]
<1>1. PICK k \in Held(f) : IsAt(f, k) /\ k \in Nat /\ current_cluster_[f] \in Cluster
  BY Whereabouts
<1>2. k \in 0 .. MaximumClusterNumber /\ n \in Nat /\ n + 1 \in 0 .. MaximumClusterNumber
  BY VolumeAssumption DEF Held
<1>3. Chain(f)[n] \in Cluster
  <2>1. n \in 0 .. ((n + 1) - 1)
    BY <1>2
  <2> QED
    BY <1>2, <2>1, WalkClimbs DEF Chain, ChainInv
<1>4. n < k
  <2>1. CASE n = k
    <3>1. Chain(f)[n] = current_cluster_[f] /\ current_cluster_[f] \in Nat
      BY <1>1, <2>1, ClusterNumbers DEF IsAt
    <3> QED
      BY <3>1
  <2>2. CASE k < n
    <3>1. k \in 0 .. (n - 1) /\ n \in 0 .. MaximumClusterNumber
      BY <1>1, <1>2, <2>2, VolumeAssumption
    <3>2. Chain(f)[k] < Chain(f)[n]
      BY <1>3, <3>1, WalkClimbs DEF Chain, ChainInv
    <3>3. Chain(f)[n] \in Nat /\ Chain(f)[k] \in Nat /\ Chain(f)[k] = current_cluster_[f]
      BY <1>1, <1>3, ClusterNumbers DEF IsAt
    <3> QED
      BY <3>2, <3>3
  <2> QED
    BY <1>1, <1>2, <2>1, <2>2
<1>5. Start(n + 1) <= Start(k) /\ Start(n + 1) \in Nat /\ Start(k) \in Nat
  <2>1. n + 1 \in Nat /\ n + 1 <= k
    BY <1>1, <1>2, <1>4
  <2> QED
    BY <1>1, <2>1, StartFacts
<1>6. byte_offset_into_cluster_[f] \in Nat
  BY FileAssumption DEF ChainInv, TypeInv, TypeOK, ObjectTypeOK
<1> QED
  BY <1>1, <1>5, <1>6 DEF IsAt

(* So what a Write follows, or has written, ends no longer in a tail.      *)
LEMMA FollowUndisturbed ==
  ASSUME ChainInv, Undisturbed, FollowChain
  PROVE  Undisturbed'
<1>0. PICK f \in Files : f = call.file
  BY DEF FollowChain, ChainInv, TypeInv, TypeOK, CallTypeOK
<1>1. /\ UNCHANGED <<fat, directory, open, size_>>
      /\ pc = "advance" /\ pc' = "copy" /\ f \in open /\ call.file = f
      /\ byte_offset_into_file_[f] < size_[f] /\ current_cluster_[f] # 0
      /\ byte_offset_into_cluster_[f] = BytesPerCluster
  BY <1>0 DEF FollowChain, Goto, adapterVars, ChainInv, CallUnderWay
<1>2. size_[f] = directory[f].size
  BY <1>1 DEF Undisturbed, SizesAreSaved
<1>3. \A g \in Files : Chain(g)' = Chain(g)
  BY <1>1 DEF Chain
<1>4. TailsAreFinal'
  <2> SUFFICES ASSUME NEW g \in Files, NEW n \in 0 .. (MaximumClusterNumber - 1), LeadsToTail(g, n)',
                      NEW c \in FreeBeyond(Chain(g)[n])'
               PROVE  FALSE
    BY DEF TailsAreFinal
  <2>1. LeadsToTail(g, n) /\ c \in FreeBeyond(Chain(g)[n])
    BY <1>1, <1>3 DEF LeadsToTail, FreeBeyond, Start
  <2>2. g = f /\ Chain(f)[n] < current_cluster_[f]
    BY <1>1, <2>1 DEF Undisturbed, TailsAreFinal, Growing
  <2>3. Start(n + 1) + byte_offset_into_cluster_[f] <= byte_offset_into_file_[f]
    BY <1>1, <2>1, <2>2, PassedIsNeeded DEF LeadsToTail
  <2>4. Start(n + 1) \in Nat /\ BytesPerCluster \in Nat
        /\ size_[f] \in Nat /\ byte_offset_into_file_[f] \in Nat
    <3>1. n + 1 \in Nat
      BY VolumeAssumption
    <3> QED
      BY <3>1, StartFacts, FileAssumption DEF ChainInv, TypeInv, TypeOK, ObjectTypeOK
  <2>5. size_[f] <= Start(n + 1)
    BY <1>2, <2>1, <2>2 DEF LeadsToTail
  <2> QED
    BY <1>1, <2>3, <2>4, <2>5
<1>5. SizesAreSaved'
  BY <1>1 DEF Undisturbed, SizesAreSaved
<1> QED
  BY <1>1, <1>4, <1>5, ChainsUntouched

(* When the size is saved it covers all that has been written.             *)
LEMMA ResizeUndisturbed ==
  ASSUME ChainInv, Undisturbed, Resize
  PROVE  Undisturbed'
<1>0. PICK f \in Files : f = call.file
  BY DEF Resize, ChainInv, TypeInv, TypeOK, CallTypeOK
<1>1. /\ UNCHANGED <<fat, open>> /\ open \subseteq Files
      /\ pc = "resize" /\ pc' = "idle" /\ f \in open /\ call.file = f
  BY <1>0 DEF Resize, Return, adapterVars, ChainInv, CallUnderWay, TypeInv, TypeOK, ObjectTypeOK
<1>2. /\ size_[f] \in Nat /\ byte_offset_into_file_[f] \in Nat /\ size_[f] = directory[f].size
      /\ byte_offset_into_cluster_[f] \in Nat
  BY <1>1, FileAssumption DEF Undisturbed, SizesAreSaved, ChainInv, TypeInv, TypeOK, ObjectTypeOK
<1>3. /\ \A g \in Files : directory'[g].first = directory[g].first
      /\ \A g \in Files \ {f} : directory'[g].size = directory[g].size /\ size_'[g] = size_[g]
      /\ size_'[f] = directory'[f].size
      /\ byte_offset_into_file_[f] <= directory'[f].size /\ directory[f].size <= directory'[f].size
      /\ directory'[f].size \in Nat
  <2>1. CASE byte_offset_into_file_[f] > size_[f]
    <3>1. /\ size_' = [size_ EXCEPT ![f] = byte_offset_into_file_[f]]
          /\ directory' = [directory EXCEPT ![f].size = byte_offset_into_file_[f]]
      BY <1>1, <2>1 DEF Resize, UpdateDirectoryEntrySize
    <3>2. /\ size_'[f] = byte_offset_into_file_[f] /\ directory'[f].size = byte_offset_into_file_[f]
          /\ \A g \in Files \ {f} : size_'[g] = size_[g] /\ directory'[g] = directory[g]
          /\ directory'[f].first = directory[f].first
      BY <3>1 DEF ChainInv, TypeInv, TypeOK, ObjectTypeOK, DeviceTypeOK
    <3> QED
      BY <1>2, <2>1, <3>2
  <2>2. CASE ~(byte_offset_into_file_[f] > size_[f])
    <3>1. UNCHANGED <<size_, directory>>
      BY <1>1, <2>2 DEF Resize
    <3> QED
      BY <1>2, <2>2, <3>1
  <2> QED
    BY <2>1, <2>2
<1>4. \A g \in Files : Chain(g)' = Chain(g)
  BY <1>1, <1>3 DEF Chain
<1>5. TailsAreFinal'
  <2> SUFFICES ASSUME NEW g \in Files, NEW n \in 0 .. (MaximumClusterNumber - 1), LeadsToTail(g, n)',
                      NEW c \in FreeBeyond(Chain(g)[n])'
               PROVE  FALSE
    BY DEF TailsAreFinal
  <2>0. n + 1 \in Nat /\ Start(n + 1) \in Nat /\ n + 1 \in 0 .. MaximumClusterNumber
    BY VolumeAssumption, StartFacts
  <2>1. Chain(g)[n + 1] \in Cluster /\ c \in FreeBeyond(Chain(g)[n])
        /\ directory'[g].size <= Start(n + 1)
    BY <1>1, <1>4 DEF LeadsToTail, FreeBeyond, Start
  <2>2. directory[g].size <= Start(n + 1)
    BY <1>2, <1>3, <2>0, <2>1
  <2>3. /\ g = f /\ Chain(f)[n] < current_cluster_[f] /\ byte_offset_into_cluster_[f] > 0
    BY <1>1, <2>1, <2>2 DEF Undisturbed, TailsAreFinal, Growing, LeadsToTail
  <2>4. current_cluster_[f] # 0
    <3>1. n \in 0 .. ((n + 1) - 1)
      BY <2>0
    <3>2. Chain(f)[n] \in Nat
      BY <2>0, <2>1, <2>3, <3>1, WalkClimbs, ClusterNumbers DEF Chain, ChainInv
    <3> QED
      BY <2>3, <3>2
  <2>5. Start(n + 1) + byte_offset_into_cluster_[f] <= byte_offset_into_file_[f]
    BY <1>1, <2>1, <2>3, <2>4, PassedIsNeeded
  <2> QED
    BY <1>2, <1>3, <2>0, <2>1, <2>3, <2>5
<1>6. SizesAreSaved'
  BY <1>1, <1>3 DEF Undisturbed, SizesAreSaved
<1> QED
  BY <1>1, <1>3, <1>5, <1>6, ChainsUntouched

(* A Write that finds no cluster leaves none behind its tail.              *)
LEMMA DeviceFullUndisturbed ==
  ASSUME ChainInv, Undisturbed, DeviceFull
  PROVE  Undisturbed'
<1>1. UNCHANGED <<fat, directory, open, size_>> /\ pc \in {"allocate", "advance"} /\ pc' = "idle"
  BY DEF DeviceFull, Return, adapterVars, objectVars
<1>2. SizesAreSaved'
  BY <1>1 DEF Undisturbed, SizesAreSaved
<1>3. CASE pc = "allocate"
  BY <1>1, <1>2, <1>3, OutsideWrite
<1>4. CASE pc = "advance"
  <2>1. PICK f \in Files : f = call.file
    BY <1>4 DEF ChainInv, TypeInv, TypeOK, CallTypeOK
  <2>2. NoEmptyCluster(current_cluster_[f] + 1) /\ f \in open /\ current_cluster_[f] # 0
    BY <1>4, <2>1 DEF DeviceFull, ChainInv, CallUnderWay
  <2>3. FreeBeyond(current_cluster_[f]) = {}
    <3>1. current_cluster_[f] \in Cluster
      BY <2>2, Whereabouts
    <3>2. StartingCluster(current_cluster_[f] + 1) = current_cluster_[f] + 1
      BY <3>1 DEF StartingCluster, Cluster
    <3>3. \A c \in Cluster : current_cluster_[f] < c => c >= current_cluster_[f] + 1
      BY <3>1 DEF Cluster
    <3> QED
      BY <2>2, <3>2, <3>3 DEF NoEmptyCluster, EmptyClustersFrom, FreeBeyond
  <2>4. \A g \in Files : Chain(g)' = Chain(g)
    BY <1>1 DEF Chain
  <2>5. TailsAreFinal'
    <3> SUFFICES ASSUME NEW g \in Files, NEW n \in 0 .. (MaximumClusterNumber - 1), LeadsToTail(g, n)',
                        NEW c \in FreeBeyond(Chain(g)[n])'
                 PROVE  FALSE
      BY DEF TailsAreFinal
    <3>1. LeadsToTail(g, n) /\ c \in FreeBeyond(Chain(g)[n])
      BY <1>1, <2>4 DEF LeadsToTail, FreeBeyond, Start
    <3>2. g = f /\ current_cluster_[f] < c
      BY <1>4, <2>1, <3>1 DEF Undisturbed, TailsAreFinal, Growing
    <3> QED
      BY <2>3, <3>1, <3>2 DEF FreeBeyond
  <2> QED
    BY <1>1, <1>2, <1>4, <2>5, ChainsUntouched
<1> QED
  BY <1>1, <1>3, <1>4

(* A free cluster that becomes the end of a chain changes no chain in the  *)
(* clusters it leads through.                                              *)
LEMMA EndMarked ==
  ASSUME ChainInv, ChainInv', UNCHANGED directory, NEW c \in Cluster, fat[c] = FAT32EntryFree,
         fat' = [fat EXCEPT ![c] = FAT32EntryAllocatedAndEndOfFile]
  PROVE  /\ fat'[c] \notin Cluster /\ fat'[c] # FAT32EntryFree
         /\ \A d \in Cluster \ {c} : fat'[d] = fat[d]
         /\ \A f \in Files : \A n \in 0 .. MaximumClusterNumber :
              Chain(f)[n] \in Cluster \/ Chain(f)'[n] \in Cluster => Chain(f)'[n] = Chain(f)[n]
         /\ \A f \in Files : \A n \in 0 .. (MaximumClusterNumber - 1) :
              LeadsToTail(f, n)' => Chain(f)'[n] = Chain(f)[n] /\ LeadsToTail(f, n)
         /\ \A d \in Cluster : fat'[d] = FAT32EntryFree => fat[d] = FAT32EntryFree /\ d # c
<1>1. /\ fat \in [Cluster -> FATEntry] /\ IsForward(fat) /\ IsForward(fat')
      /\ fat'[c] = FAT32EntryAllocatedAndEndOfFile
      /\ \A d \in Cluster \ {c} : fat'[d] = fat[d]
  BY DEF ChainInv, IsForward
<1>2. /\ FAT32EntryAllocatedAndEndOfFile \notin Cluster /\ FAT32EntryFree \notin Cluster
      /\ FAT32EntryAllocatedAndEndOfFile # FAT32EntryFree
  BY ClusterNumbers DEF FAT32EntryAllocatedAndEndOfFile, FAT32EntryFree
<1>3. ASSUME NEW f \in Files PROVE Chain(f)' = WalkIn(fat', directory[f].first)
  BY DEF Chain
<1>4. ASSUME NEW f \in Files, NEW n \in 0 .. MaximumClusterNumber, Chain(f)[n] \in Cluster
      PROVE  Chain(f)'[n] = Chain(f)[n]
  <2>1. DiffersAtEnd(fat, fat', c)
    BY <1>1, <1>2 DEF DiffersAtEnd
  <2>2. WalkIn(fat, directory[f].first)[n] \in Cluster
    BY <1>4 DEF Chain
  <2>3. WalkIn(fat', directory[f].first)[n] = WalkIn(fat, directory[f].first)[n]
    BY <1>1, <2>1, <2>2, WalkKept
  <2> QED
    BY <1>3, <2>3 DEF Chain
<1>5. ASSUME NEW f \in Files, NEW n \in 0 .. MaximumClusterNumber, Chain(f)'[n] \in Cluster
      PROVE  Chain(f)[n] = Chain(f)'[n]
  <2>1. DiffersAtEnd(fat', fat, c)
    BY <1>1, <1>2 DEF DiffersAtEnd
  <2>2. WalkIn(fat', directory[f].first)[n] \in Cluster
    BY <1>3, <1>5
  <2>3. WalkIn(fat, directory[f].first)[n] = WalkIn(fat', directory[f].first)[n]
    BY <1>1, <2>1, <2>2, WalkKept
  <2> QED
    BY <1>3, <2>3 DEF Chain
<1>6. ASSUME NEW f \in Files, NEW n \in 0 .. (MaximumClusterNumber - 1), LeadsToTail(f, n)'
      PROVE  Chain(f)'[n] = Chain(f)[n] /\ LeadsToTail(f, n)
  <2>1. n \in 0 .. MaximumClusterNumber /\ n + 1 \in 0 .. MaximumClusterNumber /\ n \in 0 .. ((n + 1) - 1)
    BY VolumeAssumption
  <2>2. Chain(f)'[n + 1] \in Cluster /\ directory[f].size <= Start(n + 1)
    BY <1>6 DEF LeadsToTail, Start
  <2>3. Chain(f)'[n] \in Cluster
    <3>1. WalkIn(fat', directory[f].first)[n + 1] \in Cluster
      BY <1>3, <2>2
    <3>2. WalkIn(fat', directory[f].first)[n] \in Cluster
      BY <1>1, <2>1, <3>1, WalkClimbs
    <3> QED
      BY <1>3, <3>2
  <2> QED
    BY <1>5, <2>1, <2>2, <2>3 DEF LeadsToTail
<1>7. \A d \in Cluster : fat'[d] = FAT32EntryFree => fat[d] = FAT32EntryFree /\ d # c
  BY <1>1, <1>2
<1> QED
  BY <1>1, <1>2, <1>4, <1>5, <1>6, <1>7

(* The first cluster of a file is allocated before it is entered ...       *)
LEMMA AllocateUndisturbed ==
  ASSUME ChainInv, ChainInv', Undisturbed, AllocateFirstCluster
  PROVE  Undisturbed'
<1>1. PICK c \in Cluster :
        /\ fat[c] = FAT32EntryFree
        /\ fat' = [fat EXCEPT ![c] = FAT32EntryAllocatedAndEndOfFile]
        /\ new_cluster' = c
  BY DEF AllocateFirstCluster, FindNextEmptyCluster, EmptyClustersFrom, UpdateFATTableEntry
<1>2. /\ pc = "allocate" /\ pc' = "publish" /\ UNCHANGED <<directory, open, size_>>
  BY DEF AllocateFirstCluster, Goto, objectVars
<1>3. /\ fat'[c] \notin Cluster /\ fat'[c] # FAT32EntryFree
      /\ \A d \in Cluster \ {c} : fat'[d] = fat[d]
      /\ \A f \in Files : \A n \in 0 .. MaximumClusterNumber :
           Chain(f)[n] \in Cluster => Chain(f)'[n] = Chain(f)[n]
      /\ \A f \in Files : \A n \in 0 .. (MaximumClusterNumber - 1) :
           LeadsToTail(f, n)' => Chain(f)'[n] = Chain(f)[n] /\ LeadsToTail(f, n)
      /\ \A d \in Cluster : fat'[d] = FAT32EntryFree => fat[d] = FAT32EntryFree /\ d # c
  BY <1>1, <1>2, EndMarked
<1>4. TailsAreFinal'
  <2> SUFFICES ASSUME NEW f \in Files, NEW n \in 0 .. (MaximumClusterNumber - 1), LeadsToTail(f, n)',
                      NEW d \in FreeBeyond(Chain(f)[n])'
               PROVE  FALSE
    BY DEF TailsAreFinal
  <2>1. d \in Cluster /\ fat'[d] = FAT32EntryFree /\ Chain(f)'[n] < d
    BY DEF FreeBeyond
  <2>2. LeadsToTail(f, n) /\ d \in FreeBeyond(Chain(f)[n])
    BY <1>3, <2>1 DEF FreeBeyond
  <2> QED
    BY <1>2, <2>2 DEF Undisturbed, TailsAreFinal, Growing
<1>5. NothingLost'
  BY <1>1, <1>2, <1>3 DEF Undisturbed, NothingLost
<1>6. SizesAreSaved' /\ NewClusterIsLast'
  BY <1>1, <1>2, <1>3 DEF Undisturbed, SizesAreSaved, NewClusterIsLast
<1> QED
  BY <1>4, <1>5, <1>6 DEF Undisturbed

(* ... and nothing follows it when it is.                                  *)
LEMMA PublishUndisturbed ==
  ASSUME ChainInv, ChainInv', Undisturbed, PublishFirstCluster
  PROVE  Undisturbed'
<1>0. PICK f \in Files : f = call.file
  BY DEF PublishFirstCluster, ChainInv, TypeInv, TypeOK, CallTypeOK
<1>1. /\ pc = "publish" /\ pc' \in {"copy", "resize"} /\ f \in open /\ call.file = f
      /\ open \subseteq Files /\ current_cluster_[f] = 0 /\ UNCHANGED <<fat, open, size_, new_cluster>>
  BY <1>0 DEF PublishFirstCluster, Goto, ChainInv, CallUnderWay, TypeInv, TypeOK, ObjectTypeOK,
     adapterVars, localVars
<1>2. /\ new_cluster \in Cluster /\ fat[new_cluster] \notin Cluster
      /\ directory[f].first = 0 /\ 0 \notin Cluster
  BY <1>1, ClusterNumbers DEF ChainInv, NewClusterIsNew, ObjectsAgree, ObjectAgrees,
     Undisturbed, NewClusterIsLast, FAT32EntryFree
<1>3. /\ directory'[f].first = new_cluster /\ directory'[f].size = directory[f].size
      /\ \A g \in Files \ {f} : directory'[g] = directory[g]
  BY <1>0 DEF PublishFirstCluster, SetDirectoryEntryFirstCluster, ChainInv, TypeInv, TypeOK, DeviceTypeOK
<1>4. \A g \in Files \ {f} : Chain(g)' = Chain(g)
  BY <1>1, <1>3 DEF Chain
<1>5. Chain(f)'[0] = new_cluster /\ Chain(f)'[1] \notin Cluster
  <2>1. Chain(f)' = WalkIn(fat, new_cluster)
    BY <1>1, <1>3 DEF Chain
  <2>2. 0 \in 0 .. (MaximumClusterNumber - 1) /\ 0 + 1 = 1
    BY VolumeAssumption
  <2> QED
    BY <1>2, <2>1, <2>2, WalkSteps DEF OneStep
<1>6. ASSUME NEW n \in 0 .. (MaximumClusterNumber - 1) PROVE ~LeadsToTail(f, n)'
  <2>1. n = 0 \/ 1 \in 0 .. ((n + 1) - 1)
    BY VolumeAssumption
  <2>2. n + 1 \in 0 .. MaximumClusterNumber
    BY VolumeAssumption
  <2>3. Chain(f)'[n + 1] \in Cluster => n = 0 \/ Chain(f)'[1] \in Cluster
    BY <2>1, <2>2, WalkClimbs DEF ChainInv, Chain
  <2> QED
    BY <1>5, <2>3 DEF LeadsToTail
<1>7. TailsAreFinal'
  <2> SUFFICES ASSUME NEW g \in Files, NEW n \in 0 .. (MaximumClusterNumber - 1), LeadsToTail(g, n)',
                      NEW c \in FreeBeyond(Chain(g)[n])'
               PROVE  FALSE
    BY DEF TailsAreFinal
  <2>1. g # f
    BY <1>6
  <2>2. LeadsToTail(g, n) /\ c \in FreeBeyond(Chain(g)[n])
    BY <1>1, <1>3, <1>4, <2>1 DEF LeadsToTail, FreeBeyond, Start
  <2> QED
    BY <1>1, <2>2 DEF Undisturbed, TailsAreFinal, Growing
<1>8. NothingLost'
  <2>1. ASSUME NEW n \in 0 .. MaximumClusterNumber PROVE Chain(f)[n] \notin Cluster
    <3>1. Chain(f)[0] = 0
      BY <1>2, WalkSteps DEF Chain
    <3>2. n = 0 \/ 0 \in 0 .. (n - 1)
      BY VolumeAssumption
    <3> QED
      BY <1>2, <3>1, <3>2, WalkClimbs DEF ChainInv, Chain
  <2>2. 0 \in 0 .. MaximumClusterNumber
    BY VolumeAssumption
  <2> SUFFICES ASSUME NEW c \in Cluster, fat[c] # FAT32EntryFree, c \notin DirectoryClusters
               PROVE  \E g \in Files : \E n \in 0 .. MaximumClusterNumber : c = Chain(g)'[n]
    BY <1>1 DEF NothingLost
  <2>3. CASE c = new_cluster
    BY <1>5, <2>2, <2>3
  <2>4. CASE c # new_cluster
    <3>1. PICK g \in Files : \E n \in 0 .. MaximumClusterNumber : c = Chain(g)[n]
      BY <2>4 DEF Undisturbed, NothingLost
    <3>2. g # f
      BY <2>1, <3>1
    <3> QED
      BY <1>4, <3>1, <3>2
  <2> QED
    BY <2>3, <2>4
<1>9. SizesAreSaved' /\ NewClusterIsLast'
  BY <1>1, <1>3 DEF Undisturbed, SizesAreSaved, NewClusterIsLast
<1> QED
  BY <1>7, <1>8, <1>9 DEF Undisturbed

(* Where a Write extends the chain: at the end of the cluster it is in,    *)
(* beyond the size.                                                        *)
LEMMA GrowsFrom ==
  ASSUME ChainInv, SizesAreSaved, NEW f \in open, current_cluster_[f] # 0,
         byte_offset_into_cluster_[f] = BytesPerCluster, size_[f] <= byte_offset_into_file_[f]
  PROVE  \E k \in 0 .. (MaximumClusterNumber - 1) :
           /\ Chain(f)[k] = current_cluster_[f] /\ current_cluster_[f] \in Cluster
           /\ Chain(f)[k + 1] = fat[current_cluster_[f]]
           /\ directory[f].size <= Start(k + 1)
<1>1. PICK k \in Held(f) : /\ IsAt(f, k) /\ k \in Nat /\ k + 1 \in 0 .. MaximumClusterNumber
                           /\ current_cluster_[f] \in Cluster
                           /\ Start(k) \in Nat /\ Start(k + 1) = Start(k) + BytesPerCluster
  BY Whereabouts
<1>2. k \in 0 .. (MaximumClusterNumber - 1)
  BY <1>1, VolumeAssumption
<1>3. Chain(f)[k] = current_cluster_[f] /\ byte_offset_into_file_[f] = Start(k + 1)
  BY <1>1 DEF IsAt
<1>4. Chain(f)[k + 1] = fat[current_cluster_[f]]
  BY <1>1, <1>2, <1>3, WalkSteps DEF Chain, OneStep
<1>5. directory[f].size <= Start(k + 1)
  BY <1>3 DEF SizesAreSaved
<1> QED
  BY <1>1, <1>2, <1>3, <1>4, <1>5

(* A link is written where nothing followed, or nothing is free to link.   *)
LEMMA LinkUndisturbed ==
  ASSUME ChainInv, ChainInv', ChainsApart, Undisturbed, LinkNewCluster
  PROVE  Undisturbed'
<1>0. PICK f \in Files : f = call.file
  BY DEF LinkNewCluster, ChainInv, TypeInv, TypeOK, CallTypeOK
<1> DEFINE last == current_cluster_[f]
<1>1. /\ pc = "advance" /\ pc' = "mark" /\ call' = call /\ f \in open /\ call.file = f
      /\ UNCHANGED <<directory, open, size_, current_cluster_, byte_offset_into_cluster_>>
      /\ last # 0 /\ byte_offset_into_cluster_[f] = BytesPerCluster
      /\ size_[f] <= byte_offset_into_file_[f]
  <2>1. size_[f] \in Nat /\ byte_offset_into_file_[f] \in Nat
    BY DEF ChainInv, TypeInv, TypeOK, ObjectTypeOK
  <2> QED
    BY <1>0, <2>1 DEF LinkNewCluster, Goto, objectVars, positionVars, ChainInv, CallUnderWay
<1>2. PICK k \in 0 .. (MaximumClusterNumber - 1) :
        /\ Chain(f)[k] = last /\ last \in Cluster
        /\ Chain(f)[k + 1] = fat[last] /\ directory[f].size <= Start(k + 1)
  BY <1>1, GrowsFrom DEF Undisturbed
<1>3. PICK c \in Cluster :
        /\ c \in EmptyClustersFrom(last + 1) /\ \A d \in EmptyClustersFrom(last + 1) : c <= d
        /\ fat' = [fat EXCEPT ![last] = c] /\ new_cluster' = c
  BY <1>0 DEF LinkNewCluster, FindNextEmptyCluster, UpdateFATTableEntry
<1>4. EmptyClustersFrom(last + 1) = FreeBeyond(last)
  <2>1. StartingCluster(last + 1) = last + 1
    BY <1>2, VolumeAssumption DEF StartingCluster, Cluster
  <2>2. \A d \in Cluster : d >= last + 1 <=> last < d
    BY <1>2, VolumeAssumption DEF Cluster
  <2> QED
    BY <2>1, <2>2 DEF EmptyClustersFrom, FreeBeyond
<1>5. last \in Nat /\ c \in Nat /\ fat[c] = FAT32EntryFree /\ last < c
  BY <1>2, <1>3, <1>4, ClusterNumbers DEF FreeBeyond
<1>6. fat[last] \notin Cluster
  <2> SUFFICES ASSUME LeadsToTail(f, k) PROVE FALSE
    BY <1>2 DEF LeadsToTail
  <2>1. c \in FreeBeyond(Chain(f)[k])
    BY <1>2, <1>3, <1>4
  <2>2. Chain(f)[k] < last
    BY <1>1, <2>1 DEF Undisturbed, TailsAreFinal
  <2> QED
    BY <1>2, <1>5, <2>2
<1>7. /\ fat'[last] = c /\ \A d \in Cluster \ {last} : fat'[d] = fat[d]
      /\ fat'[c] = FAT32EntryFree /\ FAT32EntryFree \notin Cluster
  <2>1. fat \in [Cluster -> FATEntry]
    BY DEF ChainInv, IsForward
  <2> QED
    BY <1>2, <1>3, <1>5, <2>1, ClusterNumbers DEF FAT32EntryFree
<1>8. \A g \in Files : Chain(g)' = WalkIn(fat', directory[g].first)
  BY <1>1 DEF Chain
<1>9. ASSUME NEW g \in Files, NEW n \in 0 .. MaximumClusterNumber, Chain(g)[n] \in Cluster
      PROVE  Chain(g)'[n] = Chain(g)[n]
  <2>1. DiffersAtEnd(fat, fat', last)
    BY <1>6, <1>7 DEF DiffersAtEnd
  <2>2. WalkIn(fat, directory[g].first)[n] \in Cluster /\ IsForward(fat)
    BY <1>9 DEF Chain, ChainInv
  <2>3. WalkIn(fat', directory[g].first)[n] = WalkIn(fat, directory[g].first)[n]
    BY <2>1, <2>2, WalkKept
  <2> QED
    BY <1>8, <2>3 DEF Chain
<1>10. Chain(f)'[k + 1] = c
       /\ (k + 1 \in 0 .. (MaximumClusterNumber - 1) => Chain(f)'[k + 2] = FAT32EntryFree)
  <2>1. Chain(f)'[k] = last
    <3>1. k \in 0 .. MaximumClusterNumber
      BY VolumeAssumption
    <3> QED
      BY <1>2, <1>9, <3>1
  <2>2. Chain(f)'[k + 1] = OneStep(fat', Chain(f)'[k])
    BY <1>8, WalkSteps
  <2>3. Chain(f)'[k + 1] = c
    BY <1>2, <1>7, <2>1, <2>2 DEF OneStep
  <2>4. ASSUME k + 1 \in 0 .. (MaximumClusterNumber - 1) PROVE Chain(f)'[k + 2] = FAT32EntryFree
    <3>1. (k + 1) + 1 = k + 2
      BY VolumeAssumption
    <3>2. Chain(f)'[k + 2] = OneStep(fat', Chain(f)'[k + 1])
      BY <1>8, <2>4, <3>1, WalkSteps
    <3> QED
      BY <1>7, <2>3, <3>2 DEF OneStep
  <2> QED
    BY <2>3, <2>4
<1>11. ASSUME NEW g \in Files, NEW n \in 0 .. (MaximumClusterNumber - 1),
              Chain(g)'[n + 1] \in Cluster, Chain(g)[n + 1] \notin Cluster
       PROVE  g = f /\ n = k
  <2>0. /\ n \in Nat /\ k \in Nat /\ n + 1 \in 0 .. (n + 1) /\ n + 1 \in 0 .. MaximumClusterNumber
        /\ MaximumClusterNumber \in Nat /\ n <= MaximumClusterNumber - 1
        /\ k \in 0 .. MaximumClusterNumber
    BY VolumeAssumption
  <2>1. PICK m \in 0 .. n : Chain(g)[m] = last
    <3> SUFFICES ASSUME \A m \in 0 .. n : Chain(g)[m] # last PROVE FALSE
      OBVIOUS
    <3>1. SameFor(fat, fat', directory[g].first, n + 1)
      BY <1>7, <2>0 DEF SameFor, Chain
    <3>2. WalkIn(fat', directory[g].first)[n + 1] = WalkIn(fat, directory[g].first)[n + 1]
      BY <2>0, <3>1, WalkSame
    <3> QED
      BY <1>8, <1>11, <3>2 DEF Chain
  <2>2. m \in 0 .. MaximumClusterNumber
    BY <2>0
  <2>3. g = f
    BY <1>2, <2>0, <2>1, <2>2, ChainsMeetNowhere DEF ChainInv
  <2>4. m = k
    <3>1. Chain(f)[m] = last /\ Chain(f)[k] = last
      BY <1>2, <2>1, <2>3
    <3>2. \A i \in 0 .. (m - 1) : Chain(f)[i] < last
      BY <1>2, <2>2, <3>1, WalkClimbs DEF Chain, ChainInv
    <3>3. \A i \in 0 .. (k - 1) : Chain(f)[i] < last
      BY <1>2, <2>0, <3>1, WalkClimbs DEF Chain, ChainInv
    <3>4. ~(k \in 0 .. (m - 1)) /\ ~(m \in 0 .. (k - 1))
      BY <1>5, <3>1, <3>2, <3>3
    <3> QED
      BY <2>0, <2>2, <3>4
  <2>5. ~(k < n)
    <3> SUFFICES ASSUME k < n PROVE FALSE
      OBVIOUS
    <3>1. k + 1 \in 0 .. (MaximumClusterNumber - 1) /\ (k + 2 = n + 1 \/ k + 2 \in 0 .. ((n + 1) - 1))
      BY <2>0
    <3>2. Chain(f)'[k + 2] \in Cluster
      <4>1. WalkIn(fat', directory[f].first)[n + 1] \in Cluster /\ IsForward(fat')
        BY <1>8, <1>11, <2>3 DEF ChainInv
      <4>2. \A i \in 0 .. ((n + 1) - 1) : WalkIn(fat', directory[f].first)[i] \in Cluster
        BY <2>0, <4>1, WalkClimbs
      <4>3. WalkIn(fat', directory[f].first)[k + 2] \in Cluster
        BY <3>1, <4>1, <4>2
      <4> QED
        BY <1>8, <4>3
    <3> QED
      BY <1>7, <1>10, <3>1, <3>2
  <2> QED
    BY <2>0, <2>1, <2>3, <2>4, <2>5
<1>12. TailsAreFinal'
  <2> SUFFICES ASSUME NEW g \in Files, NEW n \in 0 .. (MaximumClusterNumber - 1), LeadsToTail(g, n)',
                      NEW d \in FreeBeyond(Chain(g)[n])'
               PROVE  \/ Growing(g)' /\ Chain(g)'[n] < current_cluster_'[g] /\ current_cluster_'[g] < d
                      \/ call'.file = g /\ Chain(g)'[n] = current_cluster_'[g] /\ new_cluster' <= d
    BY <1>1 DEF TailsAreFinal
  <2>1. Chain(g)'[n + 1] \in Cluster /\ directory[g].size <= Start(n + 1)
    BY <1>1 DEF LeadsToTail, Start
  <2>2. d \in Cluster /\ fat[d] = FAT32EntryFree /\ Chain(g)'[n] < d
    BY <1>3, <1>7 DEF FreeBeyond
  <2>3. CASE Chain(g)[n + 1] \in Cluster
    <3>1. Chain(g)'[n] = Chain(g)[n]
      <4>1. n + 1 \in 0 .. MaximumClusterNumber /\ n \in 0 .. ((n + 1) - 1) /\ n \in 0 .. MaximumClusterNumber
        BY VolumeAssumption
      <4>2. Chain(g)[n] \in Cluster
        BY <2>3, <4>1, WalkClimbs DEF Chain, ChainInv
      <4> QED
        BY <1>9, <4>1, <4>2
    <3>2. LeadsToTail(g, n) /\ d \in FreeBeyond(Chain(g)[n])
      BY <2>1, <2>2, <2>3, <3>1 DEF LeadsToTail, FreeBeyond
    <3>3. Growing(g) /\ Chain(g)[n] < current_cluster_[g] /\ current_cluster_[g] < d
      BY <1>1, <3>2 DEF Undisturbed, TailsAreFinal
    <3> QED
      BY <1>1, <3>1, <3>3 DEF Growing
  <2>4. CASE Chain(g)[n + 1] \notin Cluster
    <3>1. g = f /\ n = k
      BY <1>11, <2>1, <2>4
    <3>2. Chain(f)'[k] = last
      <4>1. k \in 0 .. MaximumClusterNumber
        BY VolumeAssumption
      <4> QED
        BY <1>2, <1>9, <4>1
    <3>3. c <= d
      BY <1>3, <1>4, <2>2, <3>1, <3>2 DEF FreeBeyond
    <3> QED
      BY <1>1, <1>3, <3>1, <3>2, <3>3
  <2> QED
    BY <2>3, <2>4
<1>13. NothingLost'
  <2> SUFFICES ASSUME NEW d \in Cluster, fat'[d] # FAT32EntryFree, d \notin DirectoryClusters
               PROVE  \E g \in Files : \E n \in 0 .. MaximumClusterNumber : d = Chain(g)[n]
    BY <1>9 DEF NothingLost
  <2>1. CASE d = last
    <3>1. k \in 0 .. MaximumClusterNumber
      BY VolumeAssumption
    <3> QED
      BY <1>2, <2>1, <3>1
  <2>2. CASE d # last
    BY <1>1, <1>7, <2>2 DEF Undisturbed, NothingLost
  <2> QED
    BY <2>1, <2>2
<1>14. SizesAreSaved' /\ NewClusterIsLast'
  BY <1>1 DEF Undisturbed, SizesAreSaved, NewClusterIsLast
<1> QED
  BY <1>12, <1>13, <1>14 DEF Undisturbed

(* The new cluster was the first free one, so that none is behind it.      *)
LEMMA MarkUndisturbed ==
  ASSUME ChainInv, ChainInv', Undisturbed, MarkNewCluster
  PROVE  Undisturbed'
<1>0. PICK f \in Files : f = call.file
  BY DEF MarkNewCluster, ChainInv, TypeInv, TypeOK, CallTypeOK
<1>c. PICK c \in Cluster : c = new_cluster
  BY DEF MarkNewCluster, ChainInv, NewClusterIsNew
<1> DEFINE last == current_cluster_[f]
<1>1. /\ pc = "mark" /\ pc' = "copy" /\ call' = call /\ f \in open /\ call.file = f
      /\ UNCHANGED <<directory, open, size_>>
      /\ last # 0 /\ byte_offset_into_cluster_[f] = BytesPerCluster
      /\ size_[f] <= byte_offset_into_file_[f]
      /\ fat' = [fat EXCEPT ![c] = FAT32EntryAllocatedAndEndOfFile]
      /\ fat[c] = FAT32EntryFree /\ fat[last] = c
  BY <1>0, <1>c DEF MarkNewCluster, Goto, UpdateFATTableEntry, ChainInv, CallUnderWay, NewClusterIsNew
<1>2. current_cluster_'[f] = c
  BY <1>0, <1>c DEF MarkNewCluster, ChainInv, TypeInv, TypeOK, ObjectTypeOK
<1>3. PICK k \in 0 .. (MaximumClusterNumber - 1) :
        /\ Chain(f)[k] = last /\ last \in Cluster
        /\ Chain(f)[k + 1] = fat[last] /\ directory[f].size <= Start(k + 1)
  BY <1>1, GrowsFrom DEF Undisturbed
<1>4. last < c /\ last \in Nat /\ c \in Nat /\ \A d \in Cluster : d \in Nat
  BY <1>1, <1>3, ClusterNumbers DEF ChainInv, IsForward
<1>5. ASSUME NEW d \in FreeBeyond(last), d # c
      PROVE  c < d
  <2>1. LeadsToTail(f, k) /\ d \in FreeBeyond(Chain(f)[k])
    BY <1>1, <1>3, <1>5 DEF LeadsToTail
  <2>2. ~(Chain(f)[k] < last)
    BY <1>3, <1>4
  <2>3. c <= d
    BY <1>c, <2>1, <2>2 DEF Undisturbed, TailsAreFinal
  <2>4. d \in Nat
    BY <1>4, <1>5 DEF FreeBeyond
  <2> QED
    BY <1>4, <1>5, <2>3, <2>4
<1>6. /\ fat'[c] \notin Cluster /\ fat'[c] # FAT32EntryFree
      /\ \A d \in Cluster \ {c} : fat'[d] = fat[d]
      /\ \A g \in Files : \A n \in 0 .. MaximumClusterNumber :
           Chain(g)[n] \in Cluster => Chain(g)'[n] = Chain(g)[n]
      /\ \A g \in Files : \A n \in 0 .. (MaximumClusterNumber - 1) :
           LeadsToTail(g, n)' => Chain(g)'[n] = Chain(g)[n] /\ LeadsToTail(g, n)
      /\ \A d \in Cluster : fat'[d] = FAT32EntryFree => fat[d] = FAT32EntryFree /\ d # c
  <2>1. /\ UNCHANGED directory /\ fat[c] = FAT32EntryFree
        /\ fat' = [fat EXCEPT ![c] = FAT32EntryAllocatedAndEndOfFile]
    BY <1>1
  <2> HIDE DEF last
  <2> QED
    BY <2>1, EndMarked
<1>7. TailsAreFinal'
  <2> SUFFICES ASSUME NEW g \in Files, NEW n \in 0 .. (MaximumClusterNumber - 1), LeadsToTail(g, n)',
                      NEW d \in FreeBeyond(Chain(g)[n])'
               PROVE  Growing(g)' /\ Chain(g)'[n] < current_cluster_'[g] /\ current_cluster_'[g] < d
    BY DEF TailsAreFinal
  <2>1. d \in Cluster /\ fat'[d] = FAT32EntryFree /\ Chain(g)'[n] < d
    BY DEF FreeBeyond
  <2>2. LeadsToTail(g, n) /\ d \in FreeBeyond(Chain(g)[n]) /\ d # c /\ Chain(g)'[n] = Chain(g)[n]
    BY <1>6, <2>1 DEF FreeBeyond
  <2>3. \/ Growing(g) /\ Chain(g)[n] < current_cluster_[g] /\ current_cluster_[g] < d
        \/ call.file = g /\ Chain(g)[n] = current_cluster_[g]
    BY <2>2 DEF Undisturbed, TailsAreFinal
  <2>4. g = f
    BY <1>1, <2>3 DEF Growing
  <2>5. d \in FreeBeyond(last)
    BY <2>2, <2>3, <2>4 DEF FreeBeyond
  <2>6. Chain(f)[n] < c
    <3>1. CASE Chain(f)[n] = last
      BY <1>4, <3>1
    <3>2. CASE Chain(f)[n] # last
      <4>1. Chain(f)[n] < last
        BY <2>3, <2>4, <3>2
      <4>2. Chain(f)[n] \in Nat
        <5>1. n + 1 \in 0 .. MaximumClusterNumber /\ n \in 0 .. ((n + 1) - 1)
          BY VolumeAssumption
        <5>2. Chain(f)[n] \in Cluster
          BY <2>2, <2>4, <5>1, WalkClimbs DEF Chain, ChainInv, LeadsToTail
        <5> QED
          BY <1>4, <5>2
      <4> QED
        BY <1>4, <4>1, <4>2
    <3> QED
      BY <3>1, <3>2
  <2>7. Growing(f)'
    BY <1>1 DEF Growing
  <2> QED
    BY <1>2, <1>5, <2>2, <2>4, <2>5, <2>6, <2>7
<1>8. NothingLost'
  <2> SUFFICES ASSUME NEW d \in Cluster, fat'[d] # FAT32EntryFree, d \notin DirectoryClusters
               PROVE  \E g \in Files : \E n \in 0 .. MaximumClusterNumber : d = Chain(g)[n]
    BY <1>6 DEF NothingLost
  <2>1. CASE d = c
    <3>1. k + 1 \in 0 .. MaximumClusterNumber
      BY VolumeAssumption
    <3> QED
      BY <1>1, <1>3, <2>1, <3>1
  <2>2. CASE d # c
    BY <1>1, <1>6, <2>2 DEF Undisturbed, NothingLost
  <2> QED
    BY <2>1, <2>2
<1>9. SizesAreSaved' /\ NewClusterIsLast'
  BY <1>1 DEF Undisturbed, SizesAreSaved, NewClusterIsLast
<1> QED
  BY <1>7, <1>8, <1>9 DEF Undisturbed

(* At first there are the directories and nothing else.                    *)
LEMMA LossInitially == Init => LossInv
<1> SUFFICES ASSUME Init PROVE Undisturbed
  BY ChainInitially, StructureInitially DEF LossInv
<1>1. /\ fat = [c \in Cluster |-> IF c \in DirectoryClusters
                                  THEN FAT32EntryAllocatedAndEndOfFile ELSE FAT32EntryFree]
      /\ directory = [f \in Files |-> [first |-> 0, size |-> 0]] /\ open = {} /\ pc = "idle"
  BY DEF Init
<1>2. 0 \notin Cluster /\ \A f \in Files : Chain(f)[0] = 0
  BY <1>1, WalkSteps, ClusterNumbers DEF Chain, FAT32EntryFree
<1>3. ASSUME NEW f \in Files, NEW n \in 0 .. (MaximumClusterNumber - 1) PROVE ~LeadsToTail(f, n)
  <2>1. n + 1 \in 0 .. MaximumClusterNumber /\ 0 \in 0 .. ((n + 1) - 1)
    BY VolumeAssumption
  <2>2. Chain(f)[n + 1] \in Cluster => Chain(f)[0] \in Cluster
    BY <2>1, WalkClimbs, ChainInitially DEF Chain, ChainInv
  <2> QED
    BY <1>2, <2>2 DEF LeadsToTail
<1>4. TailsAreFinal
  BY <1>3 DEF TailsAreFinal
<1>5. NothingLost
  BY <1>1 DEF NothingLost
<1>6. SizesAreSaved /\ NewClusterIsLast
  BY <1>1 DEF SizesAreSaved, NewClusterIsLast
<1> QED
  BY <1>4, <1>5, <1>6 DEF Undisturbed

(* And every step leaves them, as long as none fails.                      *)
LEMMA LossStep == LossInv /\ [Next]_vars => LossInv'
<1> SUFFICES ASSUME LossInv, [Next]_vars, faults' = 0, ChainInv' PROVE Undisturbed'
  BY ChainStep, StructureStep DEF LossInv
<1>1. ChainInv /\ faults \in Nat
  BY DEF LossInv, ChainInv, TypeInv, TypeOK, DeviceTypeOK
<1>2. ~DeviceError /\ ~PowerLoss
  BY <1>1 DEF DeviceError, PowerLoss
<1>3. Undisturbed /\ ChainsApart
  <2>1. UNCHANGED faults
    BY <1>2 DEF Next, BeginCall, Continue, OpenFile, CloseFile, SeekCall, ReadCall, WriteCall, AppendCall,
       Begin, SeekFrom, SeekBlock, SeekNext, ReadFinished, ReadBlock, ReadNext, AllocateFirstCluster,
       PublishFirstCluster, CopyBlock, FollowChain, LinkNewCluster, MarkNewCluster, Resize, DeviceFull, vars
  <2> QED
    BY <2>1 DEF LossInv, StructureInv, FATStructure
<1>4. CASE UNCHANGED vars
  <2>1. UNCHANGED <<fat, directory, open, size_, current_cluster_, byte_offset_into_cluster_,
                    pc, call, new_cluster>>
    BY <1>4 DEF vars, adapterVars, objectVars, positionVars, localVars
  <2>2. \A f \in Files : Chain(f)' = Chain(f)
    BY <2>1 DEF Chain
  <2>3. TailsAreFinal'
    BY <1>3, <2>1, <2>2 DEF Undisturbed, TailsAreFinal, LeadsToTail, FreeBeyond, Growing, Start
  <2>4. NothingLost' /\ SizesAreSaved' /\ NewClusterIsLast'
    BY <1>3, <2>1, <2>2 DEF Undisturbed, NothingLost, SizesAreSaved, NewClusterIsLast
  <2> QED
    BY <2>3, <2>4 DEF Undisturbed
<1>5. CASE BeginCall
  BY <1>1, <1>3, <1>5, BeginUndisturbed
<1>6. CASE SeekFrom \/ SeekBlock \/ SeekNext \/ ReadFinished \/ ReadBlock \/ ReadNext
  BY <1>1, <1>3, <1>6, SeekReadUndisturbed
<1>7. CASE AllocateFirstCluster
  BY <1>1, <1>3, <1>7, AllocateUndisturbed
<1>8. CASE PublishFirstCluster
  BY <1>1, <1>3, <1>8, PublishUndisturbed
<1>9. CASE CopyBlock
  BY <1>1, <1>3, <1>9, CopyUndisturbed
<1>10. CASE FollowChain
  BY <1>1, <1>3, <1>10, FollowUndisturbed
<1>11. CASE LinkNewCluster
  BY <1>1, <1>3, <1>11, LinkUndisturbed
<1>12. CASE MarkNewCluster
  BY <1>1, <1>3, <1>12, MarkUndisturbed
<1>13. CASE Resize
  BY <1>1, <1>3, <1>13, ResizeUndisturbed
<1>14. CASE DeviceFull
  BY <1>1, <1>3, <1>14, DeviceFullUndisturbed
<1> QED
  BY <1>2, <1>4, <1>5, <1>6, <1>7, <1>8, <1>9, <1>10, <1>11, <1>12, <1>13, <1>14 DEF Next, Continue

(* Until something fails every allocated cluster can be reached from the   *)
(* entry of a file, is a directory's, or is about to be entered in one:    *)
(* the order of the updates of Write leaks no cluster.                     *)
THEOREM NoClusterIsLost == Spec => []NoLostCluster
<1>1. LossInv => NoLostCluster
  <2> SUFFICES ASSUME LossInv, faults = 0, NEW c \in Cluster, fat[c] # FAT32EntryFree
               PROVE  \/ c \in DirectoryClusters
                      \/ \E f \in Files : c \in ChainClusters(directory[f].first)
                      \/ pc = "publish" /\ c = new_cluster
    BY DEF NoLostCluster
  <2>1. NothingLost /\ IsForward(fat)
    BY DEF LossInv, Undisturbed, ChainInv
  <2>2. ASSUME NEW f \in Files, NEW n \in 0 .. MaximumClusterNumber, c = Chain(f)[n]
        PROVE  c \in ChainClusters(directory[f].first)
    BY <2>1, <2>2, ChainIsVisited
  <2> QED
    BY <2>1, <2>2 DEF NothingLost
<1> QED
  BY <1>1, LossInitially, LossStep, PTL DEF Spec

-----------------------------------------------------------------------------
(***************************************************************************)
(* The refinement of ByteFile.  A file is where its bytes are: at an index *)
(* that the size needs, or that the file has passed, there is a cluster    *)
(* which the file holds.  ChainStep says that those clusters stay, and a   *)
(* program that only extends its files writes behind the bytes they have.  *)
(***************************************************************************)
PlaceOf(i) == i \div BytesPerCluster
InPlace(i) == i % BytesPerCluster

Byte(f, i) == cluster_data[Chain(f)[PlaceOf(i)]][InPlace(i)]

Content == [f \in Files |-> DiskContent(f)]

Position ==
  [f \in Files |-> IF pc # "idle" /\ call.file = f THEN call.from ELSE byte_offset_into_file_[f]]

Asked ==
  IF pc = "idle" THEN [kind |-> "none"]
  ELSE [kind |-> call.kind, file |-> call.file,
        target |-> IF call.kind = "read" THEN call.target
                   ELSE Smaller(call.target, size_[call.file]),
        buffer |-> IF call.kind = "read" THEN <<>> ELSE call.buffer]

(* Every index has one place: a cluster of the chain and an offset in it.  *)
LEMMA PlaceFacts ==
  ASSUME NEW i \in Nat
  PROVE  PlaceOf(i) \in Nat /\ InPlace(i) \in Offsets /\ i = Start(PlaceOf(i)) + InPlace(i)
<1>1. BytesPerCluster \in Nat /\ BytesPerCluster > 0
  BY FileAssumption
<1>2. i \div BytesPerCluster \in Int /\ i % BytesPerCluster \in 0 .. (BytesPerCluster - 1)
      /\ i = (i \div BytesPerCluster) * BytesPerCluster + (i % BytesPerCluster)
  BY <1>1, SMTT(60)
<1>3. i \div BytesPerCluster >= 0
  BY <1>1, SMTT(60)
<1> QED
  BY <1>2, <1>3 DEF PlaceOf, InPlace, Offsets, Start

(* An offset in a cluster is the place of one index.                       *)
LEMMA PlaceIs ==
  ASSUME NEW n \in Nat, NEW o \in Offsets
  PROVE  PlaceOf(Start(n) + o) = n /\ InPlace(Start(n) + o) = o
<1>1. BytesPerCluster \in Int /\ BytesPerCluster > 0 /\ n \in Int
      /\ o \in Int /\ 0 <= o /\ o < BytesPerCluster
  BY FileAssumption DEF Offsets
<1>2. PICK a \in Int : a = n * BytesPerCluster + o
  BY <1>1
<1>3. a \div BytesPerCluster = n
  BY <1>1, <1>2, SMTT(60)
<1>4. a % BytesPerCluster = o
  BY <1>1, <1>2, SMTT(60)
<1> QED
  BY <1>2, <1>3, <1>4 DEF PlaceOf, InPlace, Start

(* The place of an index before a size, or before the position of an open  *)
(* file, is one that the file holds.                                       *)
LEMMA PlaceIsHeld ==
  ASSUME ChainInv, NEW f \in Files, NEW i \in Nat,
         \/ i < directory[f].size
         \/ f \in open /\ (i < size_[f] \/ i < byte_offset_into_file_[f])
  PROVE  PlaceOf(i) \in Held(f)
<1> DEFINE M == MaximumClusterNumber
<1>0. /\ PlaceOf(i) \in Nat /\ InPlace(i) \in Offsets /\ i = Start(PlaceOf(i)) + InPlace(i)
  BY PlaceFacts
<1>1. PICK p \in Nat : p = PlaceOf(i)
  BY <1>0
<1>2. Start(p) \in Nat /\ Start(p) <= i
  BY <1>0, <1>1, StartFacts, FileAssumption DEF Offsets
<1>3. /\ directory[f].size \in Nat /\ size_[f] \in Nat /\ byte_offset_into_file_[f] \in Nat
      /\ byte_offset_into_cluster_[f] \in 0 .. BytesPerCluster /\ BytesPerCluster \in Nat
      /\ M \in Nat /\ M >= 3
  BY FileAssumption, VolumeAssumption DEF ChainInv, TypeInv, TypeOK, DeviceTypeOK, ObjectTypeOK
<1>4. CASE i < directory[f].size \/ (f \in open /\ i < size_[f])
  <2>1. ASSUME NEW m \in 0 .. M, Start(m) <= Start(p) PROVE m \in Held(f)
    <3>1. Start(m) \in Nat
      BY <1>3, <2>1, StartFacts
    <3> QED
      BY <1>2, <1>3, <1>4, <2>1, <3>1 DEF Held
  <2>2. p <= M
    <3> SUFFICES ASSUME p > M PROVE FALSE
      BY <1>1, <1>3
    <3>1. Start(M) <= Start(p)
      BY <1>1, <1>3, StartFacts
    <3>2. M \in Held(f)
      BY <1>3, <2>1, <3>1
    <3>3. M + 3 <= M
      BY <3>2, HeldClimbs DEF ChainInv
    <3> QED
      BY <1>3, <3>3
  <2> QED
    BY <1>1, <1>2, <1>3, <2>1, <2>2
<1>5. CASE f \in open /\ i < byte_offset_into_file_[f]
  <2>1. current_cluster_[f] # 0
    BY <1>2, <1>3, <1>5 DEF ChainInv, ObjectsAgree, ObjectAgrees
  <2>2. PICK n \in Held(f) : /\ IsAt(f, n) /\ n \in Nat
                             /\ Start(n) \in Nat /\ Start(n + 1) = Start(n) + BytesPerCluster
    BY <1>5, <2>1, Whereabouts
  <2>3. byte_offset_into_file_[f] = Start(n) + byte_offset_into_cluster_[f]
    BY <2>2 DEF IsAt
  <2>4. ~(Start(n + 1) <= Start(p))
    BY <1>2, <1>3, <1>5, <2>2, <2>3
  <2>5. n + 1 \in Nat /\ (Start(n + 1) <= Start(p) <=> n + 1 <= p)
    BY <1>1, <2>2, StartFacts
  <2>6. p \in 0 .. n
    BY <1>1, <2>2, <2>4, <2>5
  <2> QED
    BY <1>1, <2>2, <2>6, HeldIsPrefix DEF ChainInv
<1> QED
  BY <1>4, <1>5

(* A byte is in a byte of a cluster that the file holds.                   *)
LEMMA ByteIs ==
  ASSUME ChainInv, NEW f \in Files, NEW i \in Nat, PlaceOf(i) \in Held(f)
  PROVE  Byte(f, i) \in AnyByte /\ Chain(f)[PlaceOf(i)] \in Cluster /\ InPlace(i) \in Offsets
BY PlaceFacts DEF ChainInv, HeldAllocated, TypeInv, TypeOK, DeviceTypeOK, Byte

(* What the clusters of a file hold, and what they hold after a step.      *)
LEMMA ContentIs ==
  ASSUME ChainInv, NEW f \in Files
  PROVE  /\ Content[f] = DiskContent(f)
         /\ DiskContent(f) \in Seq(AnyByte) /\ Len(DiskContent(f)) = directory[f].size
         /\ \A i \in 1 .. directory[f].size : DiskContent(f)[i] = Byte(f, i - 1)
<1>1. directory[f].size \in Nat
  BY DEF ChainInv, TypeInv, TypeOK, DeviceTypeOK
<1>2. ASSUME NEW i \in 1 .. directory[f].size
      PROVE  ByteAt(f, i - 1) = Byte(f, i - 1) /\ Byte(f, i - 1) \in AnyByte
  <2>1. i - 1 \in Nat /\ i - 1 < directory[f].size
    BY <1>1
  <2>2. ByteAt(f, i - 1) = Byte(f, i - 1)
    BY WalkOfFAT DEF ByteAt, Byte, Chain, PlaceOf, InPlace
  <2> QED
    BY <2>1, <2>2, PlaceIsHeld, ByteIs
<1>3. DiskContent(f) = [i \in 1 .. directory[f].size |-> Byte(f, i - 1)]
  BY <1>2 DEF DiskContent
<1> HIDE DEF Byte
<1> QED
  BY <1>1, <1>2, <1>3 DEF Content

(* A byte that is held stays what it is while nothing is written.          *)
LEMMA BytesStay ==
  ASSUME HeldStays, UNCHANGED cluster_data, NEW f \in Files, NEW i \in Nat, PlaceOf(i) \in Held(f)
  PROVE  Byte(f, i)' = Byte(f, i)
BY DEF HeldStays, Byte, PlaceOf, InPlace

(* The content after a step, byte by byte.                                 *)
LEMMA ContentNext ==
  ASSUME NEW f \in Files
  PROVE  /\ Content'[f] = DiskContent(f)'
         /\ DiskContent(f)' = [i \in 1 .. directory'[f].size |-> Byte(f, i - 1)']
<1>1. ASSUME NEW i PROVE ByteAt(f, i)' = Byte(f, i)'
  BY WalkOfFAT DEF ByteAt, Byte, Chain, PlaceOf, InPlace
<1> QED
  BY <1>1 DEF DiskContent, Content

(* Where sizes and bytes stay, the content does.                           *)
LEMMA ContentKept ==
  ASSUME ChainInv, \A f \in Files : directory'[f].size = directory[f].size,
         \A f \in Files : \A i \in Nat : i < directory[f].size => Byte(f, i)' = Byte(f, i)
  PROVE  Content' = Content
<1>1. ASSUME NEW f \in Files PROVE DiskContent(f)' = DiskContent(f)
  <2>1. directory[f].size \in Nat
    BY DEF ChainInv, TypeInv, TypeOK, DeviceTypeOK
  <2>2. \A i \in 1 .. directory[f].size : ByteAt(f, i - 1) = Byte(f, i - 1)
    BY WalkOfFAT DEF ByteAt, Byte, Chain, PlaceOf, InPlace
  <2>3. \A i \in 1 .. directory[f].size : Byte(f, i - 1)' = Byte(f, i - 1)
    BY <2>1
  <2>4. DiskContent(f)' = [i \in 1 .. directory[f].size |-> Byte(f, i - 1)']
    BY ContentNext
  <2> QED
    BY <2>2, <2>3, <2>4 DEF DiskContent
<1> QED
  BY <1>1 DEF Content

(* Where nothing is written and no size changes, the content stays.        *)
LEMMA ContentStays ==
  ASSUME ChainInv, HeldStays, UNCHANGED cluster_data,
         \A f \in Files : directory'[f].size = directory[f].size
  PROVE  Content' = Content
BY PlaceIsHeld, BytesStay, ContentKept

(* Where the position of a file is, in the cluster that it is in.          *)
LEMMA BytesHere ==
  ASSUME ChainInv, NEW f \in open, current_cluster_[f] # 0, NEW j \in Nat,
         byte_offset_into_cluster_[f] + j < BytesPerCluster
  PROVE  /\ PlaceOf(byte_offset_into_file_[f] + j) \in Held(f)
         /\ Chain(f)[PlaceOf(byte_offset_into_file_[f] + j)] = current_cluster_[f]
         /\ InPlace(byte_offset_into_file_[f] + j) = byte_offset_into_cluster_[f] + j
         /\ Byte(f, byte_offset_into_file_[f] + j)
            = cluster_data[current_cluster_[f]][byte_offset_into_cluster_[f] + j]
<1>1. PICK n \in Held(f) : IsAt(f, n) /\ n \in Nat /\ Start(n) \in Nat
  BY Whereabouts
<1>2. f \in Files /\ byte_offset_into_cluster_[f] \in Nat /\ BytesPerCluster \in Nat
  BY FileAssumption DEF ChainInv, TypeInv, TypeOK, ObjectTypeOK
<1>3. byte_offset_into_cluster_[f] + j \in Offsets
  BY <1>2 DEF Offsets
<1>4. byte_offset_into_file_[f] + j = Start(n) + (byte_offset_into_cluster_[f] + j)
  BY <1>1, <1>2 DEF IsAt
<1>5. PICK o : o = byte_offset_into_cluster_[f] + j
  OBVIOUS
<1>6. PlaceOf(Start(n) + o) = n /\ InPlace(Start(n) + o) = o
  BY <1>1, <1>3, <1>5, PlaceIs
<1>7. PICK i : i = byte_offset_into_file_[f] + j
  OBVIOUS
<1>8. PlaceOf(i) = n /\ InPlace(i) = o
  BY <1>4, <1>5, <1>6, <1>7
<1>9. Chain(f)[n] = current_cluster_[f]
  BY <1>1 DEF IsAt
<1>10. Byte(f, i) = cluster_data[current_cluster_[f]][o]
  BY <1>8, <1>9 DEF Byte
<1> QED
  BY <1>1, <1>5, <1>7, <1>8, <1>9, <1>10

(* At the end of a cluster and before the end of the file the chain goes   *)
(* on: no loop of Seek or Read ends early.                                 *)
LEMMA NextIsThere ==
  ASSUME ChainInv, NEW f \in open, current_cluster_[f] # 0,
         byte_offset_into_cluster_[f] = BytesPerCluster, byte_offset_into_file_[f] < size_[f]
  PROVE  ~IsEndOfChain(NextClusterInChain(current_cluster_[f]))
<1>1. PICK n \in Held(f) :
           /\ IsAt(f, n) /\ n \in Nat /\ n + 1 \in 0 .. MaximumClusterNumber
           /\ Chain(f)[n + 1] = fat[current_cluster_[f]]
           /\ Start(n) \in Nat /\ Start(n + 1) = Start(n) + BytesPerCluster
  BY Whereabouts
<1>2. f \in Files
  BY DEF ChainInv, TypeInv, TypeOK, ObjectTypeOK
<1>3. byte_offset_into_file_[f] = Start(n + 1)
  BY <1>1 DEF IsAt
<1>4. n + 1 \in Held(f)
  BY <1>1, <1>3 DEF Held
<1>5. fat[current_cluster_[f]] \in Cluster
  BY <1>1, <1>2, <1>4 DEF ChainInv, HeldAllocated
<1>6. fat[current_cluster_[f]] \in Nat /\ fat[current_cluster_[f]] < FAT32EntryDefective
  BY <1>5, ClusterNumbers
<1> QED
  BY <1>6 DEF IsEndOfChain, NextClusterInChain, FAT32EntryEOFThreshold, FAT32EntryDefective

-----------------------------------------------------------------------------
(* What the steps of ByteFile are, in terms of this specification.         *)
Refines == [Abstract!Next]_(Abstract!byteFileVars)

(* A step within a call, of which a caller sees nothing.                   *)
LEMMA Stutters ==
  ASSUME UNCHANGED <<Content, open, Position, Asked, returned>>
  PROVE  Refines
BY DEF Refines, Abstract!byteFileVars, Content, Position, Asked

(* A file is opened: Open.                                                 *)
LEMMA OpensThere ==
  ASSUME NEW f \in Files, f \notin open, open' = open \cup {f}, Asked.kind = "none",
         UNCHANGED <<Content, Position, Asked, returned>>
  PROVE  Refines
BY DEF Refines, Abstract!Next, Abstract!Open, Content, Position, Asked

(* A file is closed: Close.                                                *)
LEMMA ClosesThere ==
  ASSUME NEW f \in Files, f \in open, open' = open \ {f}, Asked.kind = "none",
         Position' = [Position EXCEPT ![f] = 0],
         UNCHANGED <<Content, Asked, returned>>
  PROVE  Refines
BY DEF Refines, Abstract!Next, Abstract!Close, Content, Position, Asked

(* A call begins: Request.                                                 *)
LEMMA RequestsThere ==
  ASSUME NEW f \in Files, f \in open, Asked.kind = "none",
         Asked'.kind \in {"seek", "append", "write", "read"}, Asked'.file = f,
         Asked'.buffer \in Seq(Bytes), Asked'.target \in Nat,
         UNCHANGED <<Content, open, Position, returned>>
  PROVE  Refines
BY DEF Refines, Abstract!Next, Abstract!Request, Abstract!Kinds, Content, Position, Asked

(* A seek returns: Seek.                                                   *)
LEMMA SeeksThere ==
  ASSUME Asked.kind = "seek", NEW f, f = Asked.file, NEW p,
         p = Smaller(Asked.target, Len(Content[f])),
         Position' = [Position EXCEPT ![f] = p],
         Asked' = [kind |-> "none"], returned' = [code |-> "SUCCESS", bytes |-> <<>>],
         UNCHANGED <<Content, open>>
  PROVE  Refines
BY DEF Refines, Abstract!Next, Abstract!Seek, Abstract!Within, Abstract!Respond, Smaller,
       Content, Position, Asked

(* A read returns: Read.                                                   *)
LEMMA ReadsThere ==
  ASSUME Asked.kind = "read", NEW f, f = Asked.file, NEW end,
         end = Smaller(Position[f] + Asked.target, Len(Content[f])),
         Position' = [Position EXCEPT ![f] = end], NEW bytes,
         bytes = SubSeq(Content[f], Position[f] + 1, end),
         Asked' = [kind |-> "none"], returned' = [code |-> "SUCCESS", bytes |-> bytes],
         UNCHANGED <<Content, open>>
  PROVE  Refines
<1>1. Abstract!Within(Asked.file, Position[Asked.file] + Asked.target) = end
  BY DEF Abstract!Within, Smaller, Content
<1>2. Abstract!Respond(bytes) /\ UNCHANGED Content /\ Asked.kind # "none"
  BY DEF Abstract!Respond, Asked
<1>3. Abstract!Read(Asked.file)
  BY <1>1, <1>2 DEF Abstract!Read, Content, Position, Asked
<1> QED
  BY <1>2, <1>3 DEF Refines, Abstract!Next, Asked

(* A write or an append returns: Extend.                                   *)
LEMMA ExtendsThere ==
  ASSUME Asked.kind \in {"append", "write"}, NEW f, f = Asked.file,
         Content' = [Content EXCEPT ![f] = @ \o Asked.buffer],
         Position' = [Position EXCEPT ![f] = Len(Content'[f])],
         Asked' = [kind |-> "none"], returned' = [code |-> "SUCCESS", bytes |-> <<>>],
         UNCHANGED open
  PROVE  Refines
BY DEF Refines, Abstract!Next, Abstract!Extend, Abstract!Respond, Content, Position, Asked

-----------------------------------------------------------------------------
(***************************************************************************)
(* How far a call has come, and what that means for its file.  A seek is   *)
(* not past what it seeks, a read has in its buffer what is between where  *)
(* it began and where it is, and what a write has transferred is behind    *)
(* the end of the file, where the size does not reach yet.                 *)
(***************************************************************************)
ClosedAtStart == \A f \in Files \ open : byte_offset_into_file_[f] = 0

WithinFile ==
  \A f \in open : pc = "idle" \/ call.file # f => byte_offset_into_file_[f] <= size_[f]

SeekLabels == {"seek_from", "seek", "seek_next"}
ReadLabels == {"read", "read_next"}
WriteLabels == {"allocate", "publish", "copy", "advance", "mark", "resize"}

SeekUnderWay ==
  LET f == call.file
      position == byte_offset_into_file_[f]
  IN  /\ call.kind \in {"seek", "append"}
      /\ call.kind = "append" => call.target = size_[f]
      /\ position <= size_[f]
      /\ position <= call.target \/ (pc = "seek_from" /\ call.target = 0)

\* What is in the buffer of a read, and what a write has transferred.
BytesRead ==
  \A f \in Files : f = call.file =>
    \A i \in call.from .. (byte_offset_into_file_[f] - 1) :
      Byte(f, i) = call.buffer[i - call.from + 1]

BytesWritten ==
  \A f \in Files : f = call.file =>
    \A i \in size_[f] .. (byte_offset_into_file_[f] - 1) :
      Byte(f, i) = call.buffer[i - size_[f] + 1]

ReadUnderWay ==
  LET f == call.file
      position == byte_offset_into_file_[f]
  IN  /\ call.kind = "read"
      /\ position = call.from + Len(call.buffer)
      /\ position <= size_[f]
      /\ Len(call.buffer) <= call.target
      /\ BytesRead

WriteUnderWay ==
  LET f == call.file
      position == byte_offset_into_file_[f]
  IN  /\ call.kind \in {"append", "write"}
      /\ position = size_[f] + transferred
      /\ BytesWritten
      /\ pc = "resize" => transferred = Len(call.buffer)

SequentialInv ==
  /\ ChainInv /\ SizesAreSaved /\ ClosedAtStart /\ WithinFile
  /\ pc \in SeekLabels => SeekUnderWay
  /\ pc \in ReadLabels => ReadUnderWay
  /\ pc \in WriteLabels => WriteUnderWay

(* The types of what the lemmas below speak of.                            *)
LEMMA CallFacts ==
  ASSUME SequentialInv, pc # "idle"
  PROVE  /\ call.file \in open /\ call.file \in Files /\ open \subseteq Files
         /\ size_[call.file] \in Nat /\ byte_offset_into_file_[call.file] \in Nat
         /\ byte_offset_into_cluster_[call.file] \in 0 .. BytesPerCluster
         /\ directory[call.file].size = size_[call.file]
         /\ call.target \in Nat /\ call.from \in Nat /\ call.buffer \in Seq(AnyByte)
         /\ Len(call.buffer) \in Nat /\ transferred \in Nat
         /\ BytesPerCluster \in Nat /\ BytesPerCluster > 0
         /\ pc \in SeekLabels \cup ReadLabels \cup WriteLabels
         /\ call.kind \in {"seek", "append", "write", "read"}
<1>1. /\ call.file \in open /\ call.file \in Files /\ open \subseteq Files
      /\ directory[call.file].size = size_[call.file]
  BY DEF SequentialInv, SizesAreSaved, ChainInv, CallUnderWay, TypeInv, TypeOK, ObjectTypeOK
<1>2. /\ size_[call.file] \in Nat /\ byte_offset_into_file_[call.file] \in Nat
      /\ byte_offset_into_cluster_[call.file] \in 0 .. BytesPerCluster
      /\ BytesPerCluster \in Nat /\ BytesPerCluster > 0
  BY <1>1, FileAssumption DEF SequentialInv, ChainInv, TypeInv, TypeOK, ObjectTypeOK
<1>3. /\ call.target \in Nat /\ call.from \in Nat /\ call.buffer \in Seq(AnyByte)
      /\ transferred \in Nat
      /\ pc \in SeekLabels \cup ReadLabels \cup WriteLabels
  BY DEF SequentialInv, ChainInv, TypeInv, TypeOK, CallTypeOK, Calls,
         SeekLabels, ReadLabels, WriteLabels
<1>4. Len(call.buffer) \in Nat
  BY <1>3
<1>5. call.kind \in {"seek", "append", "write", "read"}
  BY <1>3 DEF SequentialInv, SeekUnderWay, ReadUnderWay, WriteUnderWay
<1> QED
  BY <1>1, <1>2, <1>3, <1>4, <1>5

(* What is asked does not change while the call is under way.              *)
LEMMA StillAsked ==
  ASSUME SequentialInv, pc # "idle", pc' # "idle",
         call'.file = call.file, call'.kind = call.kind, call'.from = call.from,
         call.kind = "read" => call'.target = call.target,
         call.kind # "read" => /\ call'.buffer = call.buffer
                               /\ Smaller(call'.target, size_[call.file])
                                  = Smaller(call.target, size_[call.file]),
         UNCHANGED <<open, size_, returned>>, Content' = Content,
         \A g \in Files \ {call.file} : byte_offset_into_file_'[g] = byte_offset_into_file_[g]
  PROVE  Refines
<1>1. Asked' = Asked
  BY DEF Asked
<1>2. Position' = Position
  BY DEF Position
<1> QED
  BY <1>1, <1>2, Stutters

(* The other files are where they were.                                    *)
LEMMA OthersStay ==
  ASSUME SequentialInv, pc # "idle", UNCHANGED <<open, size_>>,
         \A g \in Files : directory'[g].size = directory[g].size,
         \A g \in Files \ {call.file} : byte_offset_into_file_'[g] = byte_offset_into_file_[g],
         \/ pc' # "idle" /\ call'.file = call.file
         \/ byte_offset_into_file_'[call.file] <= size_[call.file]
  PROVE  SizesAreSaved' /\ ClosedAtStart' /\ WithinFile'
<1>1. call.file \in open /\ open \subseteq Files
  BY CallFacts
<1>2. SizesAreSaved'
  BY <1>1 DEF SequentialInv, SizesAreSaved
<1>3. ClosedAtStart'
  BY <1>1 DEF SequentialInv, ClosedAtStart
<1>4. WithinFile'
  BY <1>1 DEF SequentialInv, WithinFile
<1> QED
  BY <1>2, <1>3, <1>4

(* The answer of a call, once the position of its file is known.           *)
LEMMA Answered ==
  ASSUME SequentialInv, pc # "idle", NEW bytes, Return("SUCCESS", bytes),
         \A g \in Files \ {call.file} : byte_offset_into_file_'[g] = byte_offset_into_file_[g]
  PROVE  /\ Position' = [Position EXCEPT ![call.file] = byte_offset_into_file_'[call.file]]
         /\ Asked' = [kind |-> "none"]
         /\ returned' = [code |-> "SUCCESS", bytes |-> bytes]
         /\ Asked.kind = call.kind /\ Asked.file = call.file
<1>1. call.file \in Files
  BY CallFacts
<1>2. pc' = "idle" /\ returned' = [code |-> "SUCCESS", bytes |-> bytes]
  BY DEF Return
<1>3. Asked' = [kind |-> "none"] /\ Asked.kind = call.kind /\ Asked.file = call.file
  BY <1>2 DEF Asked
<1>4. Position' = [Position EXCEPT ![call.file] = byte_offset_into_file_'[call.file]]
  BY <1>1, <1>2 DEF Position
<1> QED
  BY <1>2, <1>3, <1>4

(* A seek that ends is at the position sought, or at the end of the file.  *)
LEMMA SeekEnds ==
  ASSUME SequentialInv, ChainInv', HeldStays, pc \in SeekLabels, NEW at, SeekFinished(at),
         UNCHANGED <<cluster_data, directory, open, size_>>,
         \A g \in Files \ {call.file} : byte_offset_into_file_'[g] = byte_offset_into_file_[g],
         byte_offset_into_file_'[call.file] = Smaller(call.target, size_[call.file])
  PROVE  SequentialInv' /\ Refines
<1> DEFINE f == call.file
<1>0. pc # "idle"
  BY DEF SeekLabels
<1>1. /\ f \in open /\ f \in Files /\ size_[f] \in Nat /\ call.target \in Nat
      /\ call.buffer \in Seq(AnyByte) /\ directory[f].size = size_[f] /\ SeekUnderWay
  BY <1>0, CallFacts DEF SequentialInv
<1>2. Content' = Content
  BY ContentStays DEF SequentialInv
<1>3. byte_offset_into_file_'[f] <= size_[f]
  BY <1>1, SmallerBounds
<1>4. SizesAreSaved' /\ ClosedAtStart' /\ WithinFile'
  BY <1>0, <1>3, OthersStay
<1>5. CASE call.kind = "append"
  <2>1. /\ pc' = WriteEntry(at, call.buffer) /\ UNCHANGED <<call, returned, transferred>>
    BY <1>5 DEF SeekFinished, Goto, localVars
  <2>2. /\ pc' \in {"allocate", "copy", "resize"} /\ pc' # "idle"
        /\ pc' = "resize" => call.buffer = <<>>
    BY <2>1 DEF WriteEntry
  <2>3. transferred = 0
    BY DEF SequentialInv, ChainInv, TypeInv, TransferWithinBuffer, SeekLabels
  <2>4. byte_offset_into_file_'[f] = size_[f]
    BY <1>1, <1>5 DEF SeekUnderWay, Smaller
  <2>5. WriteUnderWay'
    <3>1. BytesWritten'
      BY <1>1, <2>1, <2>4 DEF BytesWritten
    <3> QED
      BY <1>1, <1>5, <2>1, <2>2, <2>3, <2>4, <3>1 DEF WriteUnderWay
  <2>6. SequentialInv'
    BY <1>4, <2>2, <2>5 DEF SequentialInv, SeekLabels, ReadLabels
  <2>7. Refines
    BY <1>0, <1>2, <2>1, <2>2, StillAsked
  <2> QED
    BY <2>6, <2>7
<1>6. CASE call.kind # "append"
  <2>1. Return("SUCCESS", <<>>) /\ pc' = "idle" /\ call.kind = "seek"
    BY <1>1, <1>6 DEF SeekFinished, Return, SeekUnderWay
  <2>2. SequentialInv'
    BY <1>4, <2>1 DEF SequentialInv, SeekLabels, ReadLabels, WriteLabels
  <2>3. /\ Position' = [Position EXCEPT ![f] = byte_offset_into_file_'[f]]
        /\ Asked' = [kind |-> "none"]
        /\ returned' = [code |-> "SUCCESS", bytes |-> <<>>]
        /\ Asked.kind = "seek" /\ Asked.file = f
    BY <1>0, <2>1, Answered
  <2>4. Len(Content[f]) = size_[f]
    BY <1>1, ContentIs DEF SequentialInv
  <2>5. Asked.target = Smaller(call.target, size_[f])
    BY <1>0, <2>1 DEF Asked
  <2>6. byte_offset_into_file_'[f] = Smaller(Asked.target, Len(Content[f]))
    BY <1>1, <2>4, <2>5 DEF Smaller
  <2>7. Refines
    BY <1>2, <2>3, <2>6, SeeksThere
  <2> QED
    BY <2>2, <2>7
<1> QED
  BY <1>5, <1>6

(* The first step of a seek.                                               *)
LEMMA SeekFromRefines ==
  ASSUME SequentialInv, ChainInv', HeldStays, SeekFrom
  PROVE  SequentialInv' /\ Refines
<1> DEFINE f == call.file
<1>0. /\ pc = "seek_from" /\ pc # "idle" /\ pc \in SeekLabels
      /\ UNCHANGED <<cluster_data, directory, open, size_>>
  BY DEF SeekFrom, SeekLabels
<1>1. /\ f \in open /\ f \in Files /\ open \subseteq Files
      /\ size_[f] \in Nat /\ call.target \in Nat /\ SeekUnderWay
      /\ byte_offset_into_file_ \in [Files -> Nat] /\ ObjectAgrees(f)
  BY <1>0, CallFacts
  DEF SequentialInv, ChainInv, TypeInv, TypeOK, ObjectTypeOK, ObjectsAgree
<1>2. CASE current_cluster_[f] = 0 /\ UNCHANGED positionVars /\ SeekFinished(0)
  <2>1. byte_offset_into_file_' = byte_offset_into_file_ /\ byte_offset_into_file_[f] = 0
        /\ size_[f] = 0
    BY <1>1, <1>2 DEF positionVars, ObjectAgrees
  <2>2. byte_offset_into_file_'[f] = Smaller(call.target, size_[f])
    BY <1>1, <2>1 DEF Smaller
  <2> QED
    BY <1>0, <1>2, <2>1, <2>2, SeekEnds
<1>3. CASE call.target = 0 /\ Rewind(f) /\ SeekFinished(first_cluster_[f])
  <2>1. /\ byte_offset_into_file_'[f] = 0
        /\ \A g \in Files \ {f} : byte_offset_into_file_'[g] = byte_offset_into_file_[g]
    BY <1>1, <1>3 DEF Rewind
  <2>2. byte_offset_into_file_'[f] = Smaller(call.target, size_[f])
    BY <1>1, <1>3, <2>1 DEF Smaller
  <2> QED
    BY <1>0, <1>3, <2>1, <2>2, SeekEnds
<1>4. CASE /\ call.target # 0
           /\ call' = [call EXCEPT !.target = Smaller(@, size_[f])]
           /\ pc' = "seek" /\ UNCHANGED <<positionVars, localVars, returned>>
  <2>1. byte_offset_into_file_' = byte_offset_into_file_
    BY <1>4 DEF positionVars
  <2>2. /\ call'.file = f /\ call'.kind = call.kind /\ call'.from = call.from
        /\ call'.buffer = call.buffer /\ call'.target = Smaller(call.target, size_[f])
    BY <1>4 DEF SequentialInv, ChainInv, TypeInv, TypeOK, CallTypeOK, Calls
  <2>3. /\ Smaller(call'.target, size_[f]) = Smaller(call.target, size_[f])
        /\ call.target = size_[f] => call'.target = size_[f]
        /\ byte_offset_into_file_[f] <= call'.target
    BY <1>1, <1>4, <2>2 DEF Smaller, SeekUnderWay
  <2>4. SizesAreSaved' /\ ClosedAtStart' /\ WithinFile'
    BY <1>0, <1>4, <2>1, <2>2, OthersStay
  <2>5. SeekUnderWay'
    BY <1>0, <1>1, <2>1, <2>2, <2>3 DEF SeekUnderWay
  <2>6. SequentialInv'
    BY <1>4, <2>4, <2>5 DEF SequentialInv, SeekLabels, ReadLabels, WriteLabels
  <2>7. Content' = Content
    BY <1>0, ContentStays DEF SequentialInv
  <2>8. call.kind # "read"
    BY <1>1 DEF SeekUnderWay
  <2>9. Refines
    BY <1>0, <1>4, <2>1, <2>2, <2>3, <2>7, <2>8, StillAsked
  <2> QED
    BY <2>6, <2>9
<1> QED
  BY <1>2, <1>3, <1>4 DEF SeekFrom

(* Seek within a cluster: the difference does not wrap, as the file is not *)
(* past the position sought.                                               *)
LEMMA SeekBlockRefines ==
  ASSUME SequentialInv, ChainInv', HeldStays, SeekBlock
  PROVE  SequentialInv' /\ Refines
<1> DEFINE f == call.file
           left == BytesPerCluster - byte_offset_into_cluster_[f]
           k == Smaller(left, UIntMinus(call.target, byte_offset_into_file_[f]))
<1>0. /\ pc = "seek" /\ pc # "idle" /\ pc \in SeekLabels
      /\ UNCHANGED <<cluster_data, directory, open, size_>>
      /\ byte_offset_into_file_' = [byte_offset_into_file_ EXCEPT ![f] = @ + k]
      /\ IF byte_offset_into_file_[f] + k >= call.target
         THEN SeekFinished(current_cluster_[f])
         ELSE pc' = "seek_next" /\ UNCHANGED <<call, returned>>
  BY DEF SeekBlock, SeekLabels, Goto
<1>1. /\ f \in open /\ f \in Files /\ open \subseteq Files
      /\ size_[f] \in Nat /\ call.target \in Nat /\ SeekUnderWay
      /\ byte_offset_into_file_ \in [Files -> Nat] /\ byte_offset_into_file_[f] \in Nat
      /\ byte_offset_into_cluster_[f] \in 0 .. BytesPerCluster /\ BytesPerCluster \in Nat
      /\ call.target <= size_[f] /\ size_[f] < UInt32Modulus
  BY <1>0, CallFacts, SizesFit
  DEF SequentialInv, ChainInv, TypeInv, TypeOK, ObjectTypeOK, CallUnderWay
<1>2. byte_offset_into_file_[f] <= call.target
  BY <1>0, <1>1 DEF SeekUnderWay
<1>3. UIntMinus(call.target, byte_offset_into_file_[f]) = call.target - byte_offset_into_file_[f]
  BY <1>1, <1>2, UIntMinusFits, FileAssumption
<1>4. k \in Nat /\ byte_offset_into_file_[f] + k <= call.target
  BY <1>1, <1>2, <1>3 DEF Smaller
<1> HIDE DEF k
<1>5. /\ byte_offset_into_file_'[f] = byte_offset_into_file_[f] + k
      /\ \A g \in Files \ {f} : byte_offset_into_file_'[g] = byte_offset_into_file_[g]
  BY <1>0, <1>1
<1>6. CASE byte_offset_into_file_[f] + k >= call.target
  <2>1. byte_offset_into_file_'[f] = Smaller(call.target, size_[f])
    BY <1>1, <1>4, <1>5, <1>6 DEF Smaller
  <2> QED
    BY <1>0, <1>5, <1>6, <2>1, SeekEnds
<1>7. CASE ~(byte_offset_into_file_[f] + k >= call.target)
  <2>1. pc' = "seek_next" /\ UNCHANGED <<call, returned>>
    BY <1>0, <1>7
  <2>2. SizesAreSaved' /\ ClosedAtStart' /\ WithinFile'
    BY <1>0, <1>5, <2>1, OthersStay
  <2>3. SeekUnderWay'
    BY <1>0, <1>1, <1>4, <1>5, <2>1 DEF SeekUnderWay
  <2>4. SequentialInv'
    BY <2>1, <2>2, <2>3 DEF SequentialInv, SeekLabels, ReadLabels, WriteLabels
  <2>5. Content' = Content
    BY <1>0, ContentStays DEF SequentialInv
  <2>6. Refines
    BY <1>0, <1>5, <2>1, <2>5, StillAsked
  <2> QED
    BY <2>4, <2>6
<1> QED
  BY <1>6, <1>7

(* Seek goes on to the next cluster, which is there.                       *)
LEMMA SeekNextRefines ==
  ASSUME SequentialInv, ChainInv', HeldStays, SeekNext
  PROVE  SequentialInv' /\ Refines
<1> DEFINE f == call.file
<1>0. /\ pc = "seek_next" /\ pc # "idle" /\ pc \in SeekLabels
      /\ UNCHANGED <<cluster_data, directory, open, size_>>
  BY DEF SeekNext, SeekLabels
<1>1. /\ f \in open /\ f \in Files /\ current_cluster_[f] # 0
      /\ byte_offset_into_cluster_[f] = BytesPerCluster
      /\ byte_offset_into_file_[f] \in Nat /\ call.target \in Nat /\ size_[f] \in Nat
      /\ byte_offset_into_file_[f] < call.target /\ call.target <= size_[f]
  BY <1>0, CallFacts DEF SequentialInv, ChainInv, CallUnderWay
<1>2. byte_offset_into_file_[f] < size_[f]
  BY <1>1
<1>3. ~IsEndOfChain(NextClusterInChain(current_cluster_[f]))
  BY <1>1, <1>2, NextIsThere DEF SequentialInv
<1>4. pc' = "seek" /\ UNCHANGED <<call, returned, byte_offset_into_file_>>
  BY <1>3 DEF SeekNext, Goto
<1>5. SizesAreSaved' /\ ClosedAtStart' /\ WithinFile'
  BY <1>0, <1>4, OthersStay
<1>6. SeekUnderWay'
  BY <1>0, <1>4 DEF SequentialInv, SeekUnderWay
<1>7. SequentialInv'
  BY <1>4, <1>5, <1>6 DEF SequentialInv, SeekLabels, ReadLabels, WriteLabels
<1>8. Content' = Content
  BY <1>0, ContentStays DEF SequentialInv
<1>9. Refines
  BY <1>0, <1>4, <1>8, StillAsked
<1> QED
  BY <1>7, <1>9

(* A read that ends has filled the buffer, or has come to the end of the   *)
(* file, and has read what is between.                                     *)
LEMMA ReadEnds ==
  ASSUME SequentialInv, ChainInv', HeldStays, pc \in ReadLabels,
         NEW bytes \in Seq(AnyByte), Return("SUCCESS", bytes),
         UNCHANGED <<cluster_data, directory, open, size_>>,
         \A g \in Files \ {call.file} : byte_offset_into_file_'[g] = byte_offset_into_file_[g],
         byte_offset_into_file_'[call.file] = call.from + Len(bytes),
         byte_offset_into_file_'[call.file] = Smaller(call.from + call.target, size_[call.file]),
         \A i \in call.from .. (call.from + Len(bytes) - 1) :
           Byte(call.file, i) = bytes[i - call.from + 1]
  PROVE  SequentialInv' /\ Refines
<1> DEFINE f == call.file
<1>0. pc # "idle" /\ pc' = "idle" /\ call.kind = "read"
  BY DEF ReadLabels, SequentialInv, ReadUnderWay, Return
<1>1. /\ f \in open /\ f \in Files /\ size_[f] \in Nat
      /\ call.target \in Nat /\ call.from \in Nat /\ directory[f].size = size_[f]
  BY <1>0, CallFacts
<1>2. Content' = Content
  BY ContentStays DEF SequentialInv
<1>3. PICK end : end = Smaller(call.from + call.target, size_[f])
  OBVIOUS
<1>4. Len(bytes) \in Nat /\ end = call.from + Len(bytes) /\ byte_offset_into_file_'[f] = end
  BY <1>3
<1>5. end \in Nat /\ end <= size_[f]
  <2>1. call.from + call.target \in Nat
    BY <1>1
  <2> QED
    BY <1>1, <1>3, <2>1, SmallerBounds
<1>6. SizesAreSaved' /\ ClosedAtStart' /\ WithinFile'
  BY <1>0, <1>4, <1>5, OthersStay
<1>7. SequentialInv'
  BY <1>0, <1>6 DEF SequentialInv, SeekLabels, ReadLabels, WriteLabels
<1>8. /\ Position' = [Position EXCEPT ![f] = end]
      /\ Asked' = [kind |-> "none"]
      /\ returned' = [code |-> "SUCCESS", bytes |-> bytes]
      /\ Asked.kind = "read" /\ Asked.file = f
  BY <1>0, <1>4, Answered
<1>9. Position[f] = call.from /\ Asked.target = call.target
  BY <1>0, <1>1 DEF Position, Asked
<1>10. PICK s : s = Content[f]
  OBVIOUS
<1>11. /\ s \in Seq(AnyByte) /\ Len(s) = size_[f]
       /\ \A i \in 1 .. size_[f] : s[i] = Byte(f, i - 1)
  BY <1>1, <1>10, ContentIs DEF SequentialInv
<1>12. PICK from \in Nat : from = call.from
  BY <1>1
<1>13. bytes = SubSeq(s, from + 1, end)
  <2>1. from + 1 \in 1 .. (Len(s) + 1) /\ end \in ((from + 1) - 1) .. Len(s)
    <3>1. PICK size, length : size = size_[f] /\ length = Len(bytes)
      OBVIOUS
    <3>2. /\ from \in Nat /\ end \in Nat /\ length \in Nat /\ size \in Nat
          /\ end = from + length /\ end <= size
      BY <1>1, <1>4, <1>5, <1>12, <3>1
    <3>3. from + 1 \in 1 .. (size + 1) /\ end \in ((from + 1) - 1) .. size
      BY <3>2
    <3> QED
      BY <1>11, <3>1, <3>3
  <2>2. PICK r : r = SubSeq(s, from + 1, end)
    OBVIOUS
  <2>3. /\ r \in Seq(AnyByte) /\ Len(r) = end - (from + 1) + 1
        /\ \A j \in 1 .. (end - (from + 1) + 1) : r[j] = s[from + 1 + j - 1]
    BY <1>11, <2>1, <2>2, PartOf
  <2>4. Len(r) = Len(bytes) /\ Len(bytes) = end - (from + 1) + 1
    BY <1>4, <1>5, <1>12, <2>3
  <2>5. ASSUME NEW i \in 1 .. Len(bytes) PROVE bytes[i] = r[i]
    <3>1. r[i] = s[from + 1 + i - 1]
      BY <2>3, <2>4
    <3>2. PICK j : j = from + i - 1
      OBVIOUS
    <3>3. /\ from + 1 + i - 1 = j + 1 /\ j + 1 \in 1 .. size_[f] /\ (j + 1) - 1 = j
          /\ j \in from .. (from + Len(bytes) - 1) /\ j - from + 1 = i
      <4>1. PICK length \in Nat : length = Len(bytes)
        BY <1>4
      <4>2. i \in 1 .. length /\ from + length <= size_[f] /\ size_[f] \in Nat /\ from \in Nat
        BY <1>1, <1>4, <1>5, <1>12, <4>1
      <4> HIDE DEF f
      <4>3. /\ from + 1 + i - 1 = j + 1 /\ j + 1 \in 1 .. size_[f] /\ (j + 1) - 1 = j
            /\ j \in from .. (from + length - 1) /\ j - from + 1 = i
        BY <3>2, <4>2
      <4> QED
        BY <4>1, <4>3
    <3>4. s[j + 1] = Byte(f, j)
      BY <1>11, <3>3
    <3>5. Byte(f, j) = bytes[i]
      BY <1>12, <3>3
    <3> QED
      BY <3>1, <3>3, <3>4, <3>5
  <2>6. bytes = r
    BY <2>3, <2>4, <2>5, SameSequence
  <2> QED
    BY <2>2, <2>6
<1>14. end = Smaller(Position[f] + Asked.target, Len(Content[f]))
  BY <1>3, <1>9, <1>10, <1>11
<1>15. Refines
  BY <1>2, <1>8, <1>9, <1>10, <1>12, <1>13, <1>14, ReadsThere
<1> QED
  BY <1>7, <1>15

(* A read ends where the buffer is full or the file has no cluster.        *)
LEMMA ReadFinishedRefines ==
  ASSUME SequentialInv, ChainInv', HeldStays, ReadFinished
  PROVE  SequentialInv' /\ Refines
<1> DEFINE f == call.file
<1>0. /\ pc = "read" /\ pc # "idle" /\ pc \in ReadLabels
      /\ UNCHANGED <<cluster_data, directory, open, size_, byte_offset_into_file_>>
      /\ Return("SUCCESS", call.buffer)
      /\ current_cluster_[f] = 0 \/ call.target <= Len(call.buffer)
  BY DEF ReadFinished, ReadLabels, BufferFull, objectVars, positionVars
<1>1. /\ f \in open /\ f \in Files /\ size_[f] \in Nat /\ byte_offset_into_file_[f] \in Nat
      /\ call.target \in Nat /\ call.from \in Nat /\ call.buffer \in Seq(AnyByte)
      /\ Len(call.buffer) \in Nat /\ ReadUnderWay /\ ObjectAgrees(f)
  BY <1>0, CallFacts DEF SequentialInv, ChainInv, ObjectsAgree
<1>2. byte_offset_into_file_[f] = call.from + Len(call.buffer)
      /\ byte_offset_into_file_[f] <= size_[f] /\ Len(call.buffer) <= call.target
  BY <1>1 DEF ReadUnderWay
<1>3. byte_offset_into_file_[f] = Smaller(call.from + call.target, size_[f])
  <2>1. CASE current_cluster_[f] = 0
    <3>1. size_[f] = 0 /\ byte_offset_into_file_[f] = 0
      BY <1>1, <2>1 DEF ObjectAgrees
    <3> QED
      BY <1>1, <3>1 DEF Smaller
  <2>2. CASE call.target <= Len(call.buffer)
    BY <1>1, <1>2, <2>2 DEF Smaller
  <2> QED
    BY <1>0, <2>1, <2>2
<1>4. \A i \in call.from .. (call.from + Len(call.buffer) - 1) :
        Byte(f, i) = call.buffer[i - call.from + 1]
  <2>1. \A i \in call.from .. (byte_offset_into_file_[f] - 1) :
          Byte(f, i) = call.buffer[i - call.from + 1]
    BY <1>1 DEF ReadUnderWay, BytesRead
  <2>2. PICK from, length, position :
          from = call.from /\ length = Len(call.buffer) /\ position = byte_offset_into_file_[f]
    OBVIOUS
  <2>3. from \in Nat /\ length \in Nat /\ position = from + length
    BY <1>1, <1>2, <2>2
  <2>4. from + length - 1 = position - 1
    <3> HIDE DEF f
    <3> QED
      BY <2>3
  <2> QED
    BY <2>1, <2>2, <2>4, Zenon
<1> QED
  BY <1>0, <1>1, <1>2, <1>3, <1>4, ReadEnds

(* What the buffer of a read holds stays in the file.                      *)
LEMMA BytesReadStay ==
  ASSUME ChainInv, HeldStays, UNCHANGED cluster_data, call.file \in open,
         call.from \in Nat, byte_offset_into_file_'[call.file] \in Nat,
         byte_offset_into_file_'[call.file] <= size_[call.file],
         call'.file = call.file, call'.from = call.from,
         \A i \in call.from .. (byte_offset_into_file_'[call.file] - 1) :
           Byte(call.file, i) = call'.buffer[i - call.from + 1]
  PROVE  BytesRead'
<1> SUFFICES ASSUME NEW f \in Files, f = call'.file,
                    NEW i \in call'.from .. (byte_offset_into_file_'[f] - 1)
             PROVE  Byte(f, i)' = call'.buffer[i - call'.from + 1]
  BY DEF BytesRead
<1>1. f = call.file /\ size_[f] \in Nat /\ f \in open
  BY DEF ChainInv, TypeInv, TypeOK, ObjectTypeOK
<1>2. i \in Nat /\ i < size_[f]
  BY <1>1
<1>3. Byte(f, i)' = Byte(f, i)
  BY <1>1, <1>2, PlaceIsHeld, BytesStay
<1> QED
  BY <1>1, <1>3

(* An index in what was in the buffer and what is added to it, counted from*)
(* where the read began and from the start of what is added.               *)
LEMMA InEitherPart ==
  ASSUME NEW from \in Nat, NEW length \in Nat, NEW k \in Nat,
         NEW i \in from .. (from + (length + k) - 1)
  PROVE  /\ i \in Nat /\ i - from + 1 \in 1 .. (length + k)
         /\ i - from + 1 <= length => i \in from .. ((from + length) - 1)
         /\ ~(i - from + 1 <= length) =>
              /\ (i - from + 1) - length \in 1 .. k
              /\ (from + length) + (((i - from + 1) - length) - 1) = i
OBVIOUS

(* Read copies what is in the cluster from the position on.                *)
LEMMA ReadBlockRefines ==
  ASSUME SequentialInv, ChainInv', HeldStays, ReadBlock
  PROVE  SequentialInv' /\ Refines
<1> DEFINE f == call.file
           offset == byte_offset_into_cluster_[f]
           position == byte_offset_into_file_[f]
           n == Smaller(BytesPerCluster - offset, UIntMinus(size_[f], position))
           k == Smaller(n, call.target - Len(call.buffer))
           part == [i \in 1 .. k |-> cluster_data[current_cluster_[f]][offset + i - 1]]
           appended == call.buffer \o part
<1>0. /\ pc = "read" /\ pc # "idle" /\ pc \in ReadLabels /\ current_cluster_[f] \in Cluster
      /\ ~(call.target <= Len(call.buffer))
      /\ UNCHANGED <<cluster_data, directory, open, size_>>
      /\ byte_offset_into_file_' = [byte_offset_into_file_ EXCEPT ![f] = @ + k]
      /\ IF position + k >= size_[f]
         THEN Return("SUCCESS", appended)
         ELSE /\ call' = [call EXCEPT !.buffer = appended]
              /\ pc' \in {"read", "read_next"} /\ UNCHANGED returned
  BY DEF ReadBlock, ReadLabels, BufferFull
<1>1. /\ f \in open /\ f \in Files /\ open \subseteq Files /\ call \in Calls
      /\ size_[f] \in Nat /\ position \in Nat
      /\ offset \in 0 .. BytesPerCluster /\ BytesPerCluster \in Nat
      /\ call.target \in Nat /\ call.from \in Nat /\ call.buffer \in Seq(AnyByte)
      /\ Len(call.buffer) \in Nat /\ ReadUnderWay
      /\ byte_offset_into_file_ \in [Files -> Nat]
      /\ size_[f] < UInt32Modulus
  BY <1>0, CallFacts, SizesFit
  DEF SequentialInv, ChainInv, TypeInv, TypeOK, ObjectTypeOK, CallTypeOK
<1>2. /\ position = call.from + Len(call.buffer) /\ position <= size_[f]
      /\ Len(call.buffer) <= call.target
      /\ \A i \in call.from .. (position - 1) : Byte(f, i) = call.buffer[i - call.from + 1]
  BY <1>1 DEF ReadUnderWay, BytesRead
<1>types. /\ size_[f] \in Nat /\ position \in Nat /\ offset \in Nat /\ offset <= BytesPerCluster
      /\ BytesPerCluster \in Nat /\ call.target \in Nat /\ call.from \in Nat
      /\ Len(call.buffer) \in Nat
      /\ position = call.from + Len(call.buffer) /\ position <= size_[f]
      /\ Len(call.buffer) <= call.target
  BY <1>1, <1>2
<1>3. UIntMinus(size_[f], position) = size_[f] - position
  BY <1>1, <1>2, UIntMinusFits
<1>4. /\ k \in Nat /\ position + k <= size_[f] /\ Len(call.buffer) + k <= call.target
      /\ offset + k <= BytesPerCluster
  <2>1. PICK o, c, s, p, t, l :
          /\ o = offset /\ c = BytesPerCluster /\ s = size_[f] /\ p = position
          /\ t = call.target /\ l = Len(call.buffer)
    OBVIOUS
  <2>2. /\ o \in Nat /\ c \in Nat /\ s \in Nat /\ p \in Nat /\ t \in Nat /\ l \in Nat
        /\ o <= c /\ p <= s /\ l <= t
    BY <1>types, <2>1
  <2>3. PICK x : x = Smaller(Smaller(c - o, s - p), t - l)
    OBVIOUS
  <2>4. x \in Nat /\ p + x <= s /\ l + x <= t /\ o + x <= c
    BY <2>2, <2>3 DEF Smaller
  <2>5. k = x
    BY <1>3, <2>1, <2>3
  <2> QED
    BY <2>1, <2>4, <2>5
<1> HIDE DEF n, k
<1>5. /\ byte_offset_into_file_'[f] = position + k
      /\ \A g \in Files \ {f} : byte_offset_into_file_'[g] = byte_offset_into_file_[g]
  BY <1>0, <1>1
<1>6. current_cluster_[f] # 0
  BY <1>0, ClusterNumbers
<1>7. ASSUME NEW i \in 1 .. k
      PROVE  /\ cluster_data[current_cluster_[f]][offset + i - 1] \in AnyByte
             /\ cluster_data[current_cluster_[f]][offset + i - 1] = Byte(f, position + (i - 1))
  <2>1. i - 1 \in Nat /\ offset + (i - 1) < BytesPerCluster /\ offset + (i - 1) = offset + i - 1
        /\ position + (i - 1) \in Nat
    <3> HIDE DEF f, offset, position, part
    <3> QED
      BY <1>types, <1>4
  <2>2. /\ PlaceOf(position + (i - 1)) \in Held(f)
        /\ Byte(f, position + (i - 1)) = cluster_data[current_cluster_[f]][offset + (i - 1)]
    BY <1>1, <1>6, <2>1, BytesHere DEF SequentialInv
  <2>3. Byte(f, position + (i - 1)) \in AnyByte
    BY <1>1, <2>1, <2>2, ByteIs DEF SequentialInv
  <2> QED
    BY <2>1, <2>2, <2>3
<1>8. PICK p : p = part
  OBVIOUS
<1>9. /\ p \in Seq(AnyByte) /\ Len(p) = k
      /\ \A i \in 1 .. k : p[i] = Byte(f, position + (i - 1))
  <2>1. p = [i \in 1 .. k |-> cluster_data[current_cluster_[f]][offset + i - 1]]
    BY <1>8
  <2> HIDE DEF f, offset, position
  <2> QED
    BY <1>4, <1>7, <2>1
<1>10. PICK a : a = call.buffer \o p
  OBVIOUS
<1>11. /\ a \in Seq(AnyByte) /\ Len(a) = Len(call.buffer) + k
       /\ \A j \in 1 .. (Len(call.buffer) + k) :
            a[j] = IF j <= Len(call.buffer) THEN call.buffer[j] ELSE p[j - Len(call.buffer)]
  BY <1>1, <1>9, <1>10, Joined
<1>12. ASSUME NEW i \in call.from .. (call.from + Len(a) - 1)
       PROVE  Byte(f, i) = a[i - call.from + 1]
  <2>1. PICK j : j = i - call.from + 1
    OBVIOUS
  <2>2. /\ j \in 1 .. (Len(call.buffer) + k) /\ i \in Nat
        /\ j <= Len(call.buffer) => i \in call.from .. (position - 1)
        /\ ~(j <= Len(call.buffer)) => /\ j - Len(call.buffer) \in 1 .. k
                                       /\ position + ((j - Len(call.buffer)) - 1) = i
    <3>1. i \in call.from .. (call.from + (Len(call.buffer) + k) - 1)
      BY <1>11
    <3>2. PICK length, from : length = Len(call.buffer) /\ from = call.from
      OBVIOUS
    <3>3. /\ i \in Nat /\ i - from + 1 \in 1 .. (length + k)
          /\ i - from + 1 <= length => i \in from .. ((from + length) - 1)
          /\ ~(i - from + 1 <= length) =>
               /\ (i - from + 1) - length \in 1 .. k
               /\ (from + length) + (((i - from + 1) - length) - 1) = i
      <4>1. /\ length \in Nat /\ from \in Nat /\ k \in Nat
            /\ i \in from .. (from + (length + k) - 1)
        BY <1>4, <1>types, <3>1, <3>2
      <4> QED
        BY <4>1, InEitherPart
    <3>4. position = from + length
      BY <1>types, <3>2
    <3> HIDE DEF position
    <3> QED
      BY <2>1, <3>2, <3>3, <3>4, Zenon
  <2>3. CASE j <= Len(call.buffer)
    BY <1>2, <1>11, <2>1, <2>2, <2>3
  <2>4. CASE ~(j <= Len(call.buffer))
    <3>1. PICK m : m = j - Len(call.buffer)
      OBVIOUS
    <3>2. m \in 1 .. k /\ position + (m - 1) = i
      BY <2>2, <2>4, <3>1
    <3>3. a[j] = p[m]
      BY <1>11, <2>2, <2>4, <3>1
    <3> QED
      BY <1>9, <2>1, <3>2, <3>3
  <2> QED
    BY <2>3, <2>4
<1>13. a = appended
  BY <1>8, <1>10
<1>14. byte_offset_into_file_'[f] = call.from + Len(a)
  BY <1>1, <1>2, <1>4, <1>5, <1>11
<1>15. CASE position + k >= size_[f]
  <2>1. Return("SUCCESS", a)
    BY <1>0, <1>13, <1>15
  <2>2. position + k = Smaller(call.from + call.target, size_[f])
    <3>1. position + k = size_[f] /\ size_[f] <= call.from + call.target
      <4>1. PICK s, q, t, l, from :
              /\ s = size_[f] /\ q = position /\ t = call.target
              /\ l = Len(call.buffer) /\ from = call.from
        OBVIOUS
      <4>2. /\ s \in Nat /\ t \in Nat /\ l \in Nat /\ from \in Nat /\ k \in Nat
            /\ q = from + l /\ q + k <= s /\ s <= q + k /\ l + k <= t
        BY <1>4, <1>15, <1>types, <4>1
      <4>3. q + k = s /\ s <= from + t
        BY <4>2
      <4> QED
        BY <4>1, <4>3
    <3> HIDE DEF offset, position, f
    <3> QED
      BY <1>types, <3>1 DEF Smaller
  <2> QED
    BY <1>0, <1>5, <1>11, <1>12, <1>14, <2>1, <2>2, ReadEnds
<1>16. CASE ~(position + k >= size_[f])
  <2>1. /\ call' = [call EXCEPT !.buffer = a] /\ pc' \in {"read", "read_next"}
        /\ UNCHANGED returned
    BY <1>0, <1>13, <1>16
  <2>2. /\ call'.file = f /\ call'.kind = call.kind /\ call'.from = call.from
        /\ call'.target = call.target /\ call'.buffer = a /\ call.kind = "read"
    BY <1>1, <2>1 DEF Calls, ReadUnderWay
  <2>3. SizesAreSaved' /\ ClosedAtStart' /\ WithinFile'
    BY <1>0, <1>5, <2>1, <2>2, OthersStay
  <2>4. byte_offset_into_file_'[f] \in Nat /\ byte_offset_into_file_'[f] <= size_[f]
    BY <1>1, <1>4, <1>5
  <2>5. BytesRead'
    BY <1>0, <1>1, <1>12, <1>14, <2>2, <2>4, BytesReadStay DEF SequentialInv
  <2>6. ReadUnderWay'
    BY <1>0, <1>1, <1>4, <1>11, <1>14, <2>2, <2>4, <2>5 DEF ReadUnderWay
  <2>7. SequentialInv'
    BY <2>1, <2>3, <2>6 DEF SequentialInv, SeekLabels, ReadLabels, WriteLabels
  <2>8. Content' = Content
    BY <1>0, ContentStays DEF SequentialInv
  <2>9. Refines
    BY <1>0, <1>5, <2>1, <2>2, <2>8, StillAsked
  <2> QED
    BY <2>7, <2>9
<1> QED
  BY <1>15, <1>16

(* Read goes on to the next cluster, which is there.                       *)
LEMMA ReadNextRefines ==
  ASSUME SequentialInv, ChainInv', HeldStays, ReadNext
  PROVE  SequentialInv' /\ Refines
<1> DEFINE f == call.file
<1>0. /\ pc = "read_next" /\ pc # "idle" /\ pc \in ReadLabels
      /\ UNCHANGED <<cluster_data, directory, open, size_>>
  BY DEF ReadNext, ReadLabels
<1>1. /\ f \in open /\ f \in Files /\ current_cluster_[f] # 0
      /\ byte_offset_into_cluster_[f] = BytesPerCluster
      /\ byte_offset_into_file_[f] < size_[f]
      /\ size_[f] \in Nat /\ byte_offset_into_file_[f] \in Nat
      /\ call.from \in Nat /\ Len(call.buffer) \in Nat /\ ReadUnderWay
  BY <1>0, CallFacts DEF SequentialInv, ChainInv, CallUnderWay
<1>2. ~IsEndOfChain(NextClusterInChain(current_cluster_[f]))
  BY <1>1, NextIsThere DEF SequentialInv
<1>3. pc' = "read" /\ UNCHANGED <<call, returned, byte_offset_into_file_>>
  BY <1>2 DEF ReadNext, Goto
<1>4. SizesAreSaved' /\ ClosedAtStart' /\ WithinFile'
  BY <1>0, <1>3, OthersStay
<1>5. BytesRead'
  <2>1. \A i \in call.from .. (byte_offset_into_file_[f] - 1) :
          Byte(f, i) = call.buffer[i - call.from + 1]
    BY <1>1 DEF ReadUnderWay, BytesRead
  <2> QED
    BY <1>0, <1>1, <1>3, <2>1, BytesReadStay DEF SequentialInv
<1>6. ReadUnderWay'
  BY <1>0, <1>1, <1>3, <1>5 DEF ReadUnderWay
<1>7. SequentialInv'
  BY <1>3, <1>4, <1>6 DEF SequentialInv, SeekLabels, ReadLabels, WriteLabels
<1>8. Content' = Content
  BY <1>0, ContentStays DEF SequentialInv
<1>9. Refines
  BY <1>0, <1>3, <1>8, StillAsked
<1> QED
  BY <1>7, <1>9

(* Places in the clusters that files hold are apart: what is before the    *)
(* position of a file, or of another file, is not from there on to the end *)
(* of its cluster.                                                         *)
LEMMA NotFromHere ==
  ASSUME ChainInv, NEW f \in open, current_cluster_[f] # 0, NEW g \in Files, NEW i \in Nat,
         PlaceOf(i) \in Held(g), g # f \/ i < byte_offset_into_file_[f]
  PROVE  \/ Chain(g)[PlaceOf(i)] # current_cluster_[f]
         \/ InPlace(i) < byte_offset_into_cluster_[f]
<1> SUFFICES ASSUME Chain(g)[PlaceOf(i)] = current_cluster_[f]
             PROVE  InPlace(i) < byte_offset_into_cluster_[f]
  OBVIOUS
<1>1. PICK n \in Held(f) : IsAt(f, n) /\ n \in Nat /\ Start(n) \in Nat
  BY Whereabouts
<1>2. f \in Files /\ byte_offset_into_cluster_[f] \in Nat /\ byte_offset_into_file_[f] \in Nat
  BY FileAssumption DEF ChainInv, TypeInv, TypeOK, ObjectTypeOK
<1>3. Chain(f)[n] = Chain(g)[PlaceOf(i)]
  BY <1>1 DEF IsAt
<1>4. g = f /\ i < byte_offset_into_file_[f]
  BY <1>1, <1>2, <1>3 DEF ChainInv, HeldApart
<1>5. PICK p \in Nat : p = PlaceOf(i)
  BY PlaceFacts
<1>6. i = Start(p) + InPlace(i) /\ InPlace(i) \in Nat
  BY <1>5, PlaceFacts, FileAssumption DEF Offsets
<1>7. p = n
  <2>1. p \in Held(f) /\ Chain(f)[p] = Chain(f)[n]
    BY <1>3, <1>4, <1>5
  <2>2. Chain(f)[p] \in Nat
    BY <1>2, <2>1, ClusterNumbers DEF ChainInv, HeldAllocated
  <2>3. ~(p < n)
    <3>1. p < n => p \in 0 .. (n - 1)
      BY <1>1, <1>5
    <3> QED
      BY <1>1, <1>2, <2>1, <2>2, <3>1, HeldClimbs DEF ChainInv
  <2>4. ~(n < p)
    <3>1. n < p => n \in 0 .. (p - 1)
      BY <1>1, <1>5
    <3> QED
      BY <1>2, <2>1, <2>2, <3>1, HeldClimbs DEF ChainInv
  <2> QED
    BY <1>1, <1>5, <2>3, <2>4
<1>8. byte_offset_into_file_[f] = Start(n) + byte_offset_into_cluster_[f]
  BY <1>1 DEF IsAt
<1> QED
  BY <1>1, <1>2, <1>4, <1>6, <1>7, <1>8

(* The block that Write copies: what is in front of it and what it puts    *)
(* there, and that no other byte of a file changes.                        *)
LEMMA BytesCopied ==
  ASSUME ChainInv, CopyBlock, call.file \in open,
         NEW k, k = Smaller(BytesPerCluster - byte_offset_into_cluster_[call.file],
                            Len(call.buffer) - transferred),
         k \in Nat, byte_offset_into_cluster_[call.file] + k <= BytesPerCluster,
         transferred \in Nat, current_cluster_[call.file] # 0
  PROVE  /\ \A g \in Files : \A i \in Nat :
              PlaceOf(i) \in Held(g) /\ (g # call.file \/ i < byte_offset_into_file_[call.file])
              => Byte(g, i)' = Byte(g, i)
         /\ \A f \in Files : f = call.file =>
              \A j \in 0 .. (k - 1), i \in Nat : i = byte_offset_into_file_[f] + j =>
                Byte(f, i)' = call.buffer[transferred + j + 1]
<1> DEFINE f == call.file
           cluster == current_cluster_[f]
           offset == byte_offset_into_cluster_[f]
           before == BlockBefore(cluster, offset)
           after == [i \in Offsets |->
                       IF offset <= i /\ i < offset + k
                       THEN call.buffer[transferred + i - offset + 1]
                       ELSE before[i]]
<1>1. /\ cluster \in Cluster /\ cluster_data' = [cluster_data EXCEPT ![cluster] = after]
      /\ UNCHANGED <<fat, directory, call>>
  BY DEF CopyBlock, Goto, adapterVars
<1>2. \A g \in Files : Chain(g)' = Chain(g)
  BY <1>1 DEF Chain
<1>3. offset \in Nat /\ BytesPerCluster \in Nat /\ byte_offset_into_file_[f] \in Nat /\ f \in Files
      /\ offset + k <= BytesPerCluster
      /\ cluster_data \in [Cluster -> [Offsets -> AnyByte]]
  BY FileAssumption DEF ChainInv, TypeInv, TypeOK, ObjectTypeOK, DeviceTypeOK
<1>4. /\ cluster_data'[cluster] = after
      /\ \A c \in Cluster \ {cluster} : cluster_data'[c] = cluster_data[c]
  BY <1>1, <1>3
<1>5. ASSUME NEW o \in Offsets, o < offset
      PROVE  cluster_data'[cluster][o] = cluster_data[cluster][o]
  <2>1. o \in Nat /\ offset > 0 /\ ~(offset <= o)
    BY <1>3, <1>5 DEF Offsets
  <2>2. before = cluster_data[cluster]
    BY <2>1 DEF BlockBefore
  <2> QED
    BY <1>4, <2>1, <2>2
<1>6. ASSUME NEW j \in 0 .. (k - 1)
      PROVE  cluster_data'[cluster][offset + j] = call.buffer[transferred + j + 1]
  <2>1. PICK o : o = offset + j
    OBVIOUS
  <2>2. /\ o \in Offsets /\ offset <= o /\ o < offset + k
        /\ transferred + o - offset + 1 = transferred + j + 1
    <3> HIDE DEF f, offset
    <3> QED
      BY <1>3, <2>1 DEF Offsets
  <2>3. after[o] = call.buffer[transferred + o - offset + 1]
    BY <2>2
  <2> QED
    BY <1>4, <2>1, <2>2, <2>3
<1> HIDE DEF before, after
<1>7. ASSUME NEW g \in Files, NEW i \in Nat, PlaceOf(i) \in Held(g),
             g # f \/ i < byte_offset_into_file_[f]
      PROVE  Byte(g, i)' = Byte(g, i)
  <2>1. Chain(g)[PlaceOf(i)] \in Cluster /\ InPlace(i) \in Offsets
    BY <1>7, ByteIs
  <2>2. Chain(g)[PlaceOf(i)] # cluster \/ InPlace(i) < offset
    BY <1>7, NotFromHere
  <2>3. PICK c, o : c = Chain(g)[PlaceOf(i)] /\ o = InPlace(i)
    OBVIOUS
  <2>4. cluster_data'[c][o] = cluster_data[c][o]
    BY <1>4, <1>5, <2>1, <2>2, <2>3
  <2>5. Byte(g, i) = cluster_data[c][o]
    BY <2>3 DEF Byte
  <2>6. Byte(g, i)' = cluster_data'[c][o]
    BY <1>2, <2>3 DEF Byte, PlaceOf, InPlace
  <2> QED
    BY <2>4, <2>5, <2>6
<1>8. ASSUME NEW g \in Files, g = f, NEW j \in 0 .. (k - 1), NEW i \in Nat,
             i = byte_offset_into_file_[g] + j
      PROVE  Byte(g, i)' = call.buffer[transferred + j + 1]
  <2>1. j \in Nat /\ offset + j < BytesPerCluster
    <3> HIDE DEF f, offset
    <3> QED
      BY <1>3
  <2>2. Chain(f)[PlaceOf(i)] = cluster /\ InPlace(i) = offset + j
    BY <1>8, <2>1, BytesHere
  <2>3. PICK p, o : p = PlaceOf(i) /\ o = InPlace(i)
    OBVIOUS
  <2>4. Byte(g, i)' = cluster_data'[Chain(g)'[p]][o]
    BY <2>3 DEF Byte, PlaceOf, InPlace
  <2> QED
    BY <1>2, <1>3, <1>6, <1>8, <2>2, <2>3, <2>4
<1> QED
  BY <1>7, <1>8

(* Write copies into the cluster, behind the end of the file.              *)
LEMMA CopyBlockRefines ==
  ASSUME SequentialInv, ChainInv', HeldStays, CopyBlock
  PROVE  SequentialInv' /\ Refines
<1> DEFINE f == call.file
           offset == byte_offset_into_cluster_[f]
           position == byte_offset_into_file_[f]
           k == Smaller(BytesPerCluster - offset, Len(call.buffer) - transferred)
<1>0. /\ pc = "copy" /\ pc # "idle" /\ pc \in WriteLabels
      /\ UNCHANGED <<directory, open, size_, call, returned>>
      /\ byte_offset_into_file_' = [byte_offset_into_file_ EXCEPT ![f] = @ + k]
      /\ transferred' = transferred + k
      /\ pc' = IF transferred + k >= Len(call.buffer) THEN "resize" ELSE "advance"
  BY DEF CopyBlock, WriteLabels, Goto
<1>1. /\ f \in open /\ f \in Files /\ open \subseteq Files
      /\ size_[f] \in Nat /\ position \in Nat /\ directory[f].size = size_[f]
      /\ offset \in 0 .. BytesPerCluster /\ BytesPerCluster \in Nat
      /\ Len(call.buffer) \in Nat /\ transferred \in Nat
      /\ byte_offset_into_file_ \in [Files -> Nat]
  BY <1>0, CallFacts DEF SequentialInv, ChainInv, TypeInv, TypeOK, ObjectTypeOK
<1>2. /\ call.kind \in {"append", "write"} /\ position = size_[f] + transferred
      /\ \A i \in size_[f] .. (position - 1) : Byte(f, i) = call.buffer[i - size_[f] + 1]
  BY <1>0, <1>1 DEF SequentialInv, WriteUnderWay, BytesWritten
<1>3. transferred < Len(call.buffer) /\ current_cluster_[f] # 0
  BY <1>0 DEF SequentialInv, ChainInv, TypeInv, TransferWithinBuffer, CallUnderWay
<1>4. k \in Nat /\ offset + k <= BytesPerCluster /\ transferred + k <= Len(call.buffer)
  <2>1. PICK left, rest : left = BytesPerCluster - offset /\ rest = Len(call.buffer) - transferred
    OBVIOUS
  <2>2. left \in Nat /\ rest \in Nat
    <3> HIDE DEF f, offset
    <3> QED
      BY <1>1, <1>3, <2>1
  <2>3. k \in Nat /\ k <= left /\ k <= rest
    BY <2>1, <2>2, SmallerBounds
  <2> HIDE DEF k, f, offset
  <2> QED
    BY <1>1, <2>1, <2>3
<1> HIDE DEF k
<1>5. /\ byte_offset_into_file_'[f] = position + k
      /\ \A g \in Files \ {f} : byte_offset_into_file_'[g] = byte_offset_into_file_[g]
  BY <1>0, <1>1
<1>6. /\ \A g \in Files : \A i \in Nat :
           PlaceOf(i) \in Held(g) /\ (g # f \/ i < position) => Byte(g, i)' = Byte(g, i)
      /\ \A g \in Files : g = f => \A j \in 0 .. (k - 1), i \in Nat :
           i = byte_offset_into_file_[g] + j => Byte(g, i)' = call.buffer[transferred + j + 1]
  BY <1>1, <1>3, <1>4, BytesCopied DEF SequentialInv, k
<1>7. Content' = Content
  <2>1. ASSUME NEW g \in Files, NEW i \in Nat, i < directory[g].size
        PROVE  Byte(g, i)' = Byte(g, i)
    <3>1. PlaceOf(i) \in Held(g)
      BY <2>1, PlaceIsHeld DEF SequentialInv
    <3>2. g = f => i < position
      BY <1>1, <1>2, <2>1
    <3> QED
      BY <1>6, <3>1, <3>2
  <2> QED
    BY <1>0, <2>1, ContentKept DEF SequentialInv
<1>8. BytesWritten'
  <2> SUFFICES ASSUME NEW g \in Files, g = f,
                      NEW i \in size_[g] .. (byte_offset_into_file_'[g] - 1)
               PROVE  Byte(g, i)' = call.buffer[i - size_[g] + 1]
    BY <1>0 DEF BytesWritten
  <2>1. PICK size, from \in Nat : size = size_[g] /\ from = position
    BY <1>1
  <2>2. size \in Nat /\ from = size + transferred /\ i \in size .. (from + k - 1) /\ i \in Nat
    <3>1. size \in Nat /\ from \in Nat /\ k \in Nat /\ transferred \in Nat
      BY <1>1, <1>4, <2>1
    <3>2. PICK upto : upto = from + k
      OBVIOUS
    <3>3. size_[g] = size /\ byte_offset_into_file_'[g] = upto
      BY <1>5, <2>1, <3>2
    <3>4. from = size + transferred
      BY <1>2, <2>1
    <3>5. i \in size .. (upto - 1)
      BY <3>3
    <3> HIDE DEF f, position
    <3> QED
      BY <3>1, <3>2, <3>4, <3>5
  <2>3. CASE i < from
    <3>1. PlaceOf(i) \in Held(g)
      BY <1>1, <2>1, <2>2, <2>3, PlaceIsHeld DEF SequentialInv
    <3>2. i \in size .. (from - 1)
      BY <2>2, <2>3
    <3>3. Byte(g, i) = call.buffer[i - size_[g] + 1]
      BY <1>2, <2>1, <3>2
    <3> QED
      BY <1>6, <2>1, <2>2, <2>3, <3>1, <3>3
  <2>4. CASE ~(i < from)
    <3>1. PICK j : j = i - from
      OBVIOUS
    <3>2. k \in Nat /\ transferred \in Nat /\ from \in Nat
      BY <1>1, <1>4
    <3>3. j \in 0 .. (k - 1) /\ i = from + j /\ transferred + j + 1 = i - size + 1
      <4> HIDE DEF f, position
      <4> QED
        BY <2>2, <2>4, <3>1, <3>2
    <3>4. i = byte_offset_into_file_[g] + j
      BY <2>1, <3>3
    <3>5. Byte(g, i)' = call.buffer[transferred + j + 1]
      BY <1>6, <2>2, <3>3, <3>4
    <3> QED
      BY <2>1, <3>3, <3>5
  <2> QED
    BY <2>3, <2>4
<1>9. SizesAreSaved' /\ ClosedAtStart' /\ WithinFile'
  BY <1>0, <1>5, OthersStay
<1>10. pc' \in {"resize", "advance"} /\ (pc' = "resize" => transferred' = Len(call.buffer))
  BY <1>0, <1>1, <1>4
<1>11. byte_offset_into_file_'[f] = size_[f] + transferred'
  BY <1>0, <1>1, <1>2, <1>4, <1>5
<1>12. WriteUnderWay'
  BY <1>0, <1>2, <1>8, <1>10, <1>11 DEF WriteUnderWay
<1>13. SequentialInv'
  BY <1>9, <1>10, <1>12 DEF SequentialInv, SeekLabels, ReadLabels
<1>14. Refines
  BY <1>0, <1>5, <1>7, <1>10, StillAsked
<1> QED
  BY <1>13, <1>14

(* A step of a write that moves no byte and no position.                   *)
LEMMA WriteGoesOn ==
  ASSUME SequentialInv, ChainInv', HeldStays, pc \in WriteLabels, pc' \in WriteLabels,
         UNCHANGED <<cluster_data, open, size_, byte_offset_into_file_,
                     transferred, call, returned>>,
         \A g \in Files : directory'[g].size = directory[g].size,
         pc' = "resize" => transferred = Len(call.buffer)
  PROVE  SequentialInv' /\ Refines
<1>0. pc # "idle" /\ pc' # "idle"
  BY DEF WriteLabels
<1>1. /\ call.file \in open /\ call.file \in Files /\ byte_offset_into_file_[call.file] \in Nat
      /\ size_[call.file] \in Nat
  BY <1>0, CallFacts
<1>2. WriteUnderWay
  BY DEF SequentialInv
<1>3. BytesWritten'
  <2> SUFFICES ASSUME NEW f \in Files, f = call.file,
                      NEW i \in size_[f] .. (byte_offset_into_file_[f] - 1)
               PROVE  Byte(f, i)' = call.buffer[i - size_[f] + 1]
    BY DEF BytesWritten
  <2>1. i \in Nat /\ i < byte_offset_into_file_[f] /\ f \in open
    BY <1>1
  <2>2. Byte(f, i)' = Byte(f, i)
    BY <2>1, PlaceIsHeld, BytesStay DEF SequentialInv
  <2>3. Byte(f, i) = call.buffer[i - size_[f] + 1]
    BY <1>2 DEF WriteUnderWay, BytesWritten
  <2> QED
    BY <2>2, <2>3
<1>4. WriteUnderWay'
  BY <1>2, <1>3 DEF WriteUnderWay
<1>5. SizesAreSaved' /\ ClosedAtStart' /\ WithinFile'
  BY <1>0, OthersStay
<1>6. SequentialInv'
  BY <1>4, <1>5 DEF SequentialInv, SeekLabels, ReadLabels, WriteLabels
<1>7. Content' = Content
  BY ContentStays DEF SequentialInv
<1>8. Refines
  BY <1>0, <1>7, StillAsked
<1> QED
  BY <1>6, <1>8

(* A file is given its first cluster, or its next one.                     *)
LEMMA NewClusterRefines ==
  ASSUME SequentialInv, ChainInv', HeldStays,
         AllocateFirstCluster \/ PublishFirstCluster \/ LinkNewCluster \/ MarkNewCluster
  PROVE  SequentialInv' /\ Refines
<1>1. CASE AllocateFirstCluster \/ LinkNewCluster
  <2>1. /\ pc \in WriteLabels /\ pc' \in WriteLabels /\ pc' # "resize"
        /\ UNCHANGED <<cluster_data, directory, open, size_, byte_offset_into_file_,
                       transferred, call, returned>>
    BY <1>1 DEF AllocateFirstCluster, LinkNewCluster, Goto, WriteLabels, objectVars, positionVars
  <2> QED
    BY <2>1, WriteGoesOn
<1>2. CASE PublishFirstCluster
  <2>1. /\ pc = "publish" /\ pc' = (IF call.buffer = <<>> THEN "resize" ELSE "copy")
        /\ UNCHANGED <<cluster_data, open, size_, byte_offset_into_file_,
                       transferred, call, returned>>
        /\ directory' = [directory EXCEPT ![call.file].first = new_cluster]
    BY <1>2 DEF PublishFirstCluster, Goto, localVars, SetDirectoryEntryFirstCluster
  <2>2. \A g \in Files : directory'[g].size = directory[g].size
    BY <2>1 DEF SequentialInv, ChainInv, TypeInv, TypeOK, DeviceTypeOK
  <2>3. pc' = "resize" => transferred = Len(call.buffer)
    <3>1. transferred = 0
      BY <2>1 DEF SequentialInv, ChainInv, TypeInv, TransferWithinBuffer
    <3> QED
      BY <2>1, <3>1
  <2> QED
    BY <2>1, <2>2, <2>3, WriteGoesOn DEF WriteLabels
<1>3. CASE MarkNewCluster
  <2>1. /\ pc = "mark" /\ pc' = "copy"
        /\ UNCHANGED <<cluster_data, directory, open, size_, byte_offset_into_file_,
                       transferred, call, returned>>
    BY <1>3 DEF MarkNewCluster, Goto, localVars
  <2> QED
    BY <2>1, WriteGoesOn DEF WriteLabels
<1> QED
  BY <1>1, <1>2, <1>3

(* A write that only extends is never within the size: there is no chain   *)
(* to follow.                                                              *)
LEMMA NothingToFollow ==
  ASSUME SequentialInv
  PROVE  ~FollowChain
<1> SUFFICES ASSUME FollowChain PROVE FALSE
  OBVIOUS
<1>1. pc = "advance" /\ byte_offset_into_file_[call.file] < size_[call.file]
  BY DEF FollowChain
<1>2. byte_offset_into_file_[call.file] = size_[call.file] + transferred
  BY <1>1 DEF SequentialInv, WriteUnderWay, WriteLabels
<1>3. size_[call.file] \in Nat /\ transferred \in Nat
  BY <1>1, CallFacts
<1> QED
  BY <1>1, <1>2, <1>3

(* The end of a write: the size takes in what has been transferred.        *)
LEMMA ResizeRefines ==
  ASSUME SequentialInv, ChainInv', HeldStays, Resize
  PROVE  SequentialInv' /\ Refines
<1> DEFINE f == call.file
<1>0. /\ pc = "resize" /\ pc # "idle" /\ pc \in WriteLabels /\ pc' = "idle"
      /\ UNCHANGED <<cluster_data, open, byte_offset_into_file_>> /\ Return("SUCCESS", <<>>)
  BY DEF Resize, WriteLabels, Return, positionVars
<1>1. /\ f \in open /\ f \in Files /\ open \subseteq Files
      /\ size_ \in [Files -> Nat] /\ byte_offset_into_file_ \in [Files -> Nat]
      /\ directory \in [Files -> [first : Cluster \cup {0}, size : Nat]]
      /\ directory[f].size = size_[f]
      /\ call.buffer \in Seq(AnyByte) /\ Len(call.buffer) \in Nat /\ transferred \in Nat
  BY <1>0, CallFacts
  DEF SequentialInv, ChainInv, TypeInv, TypeOK, ObjectTypeOK, DeviceTypeOK
<1>2. PICK size, length, position \in Nat :
        size = size_[f] /\ length = Len(call.buffer) /\ position = byte_offset_into_file_[f]
  BY <1>1
<1>3. /\ call.kind \in {"append", "write"} /\ position = size + length
      /\ \A i \in size .. (position - 1) : Byte(f, i) = call.buffer[i - size + 1]
  BY <1>0, <1>1, <1>2 DEF SequentialInv, WriteUnderWay, BytesWritten
<1>4. /\ size_'[f] = position /\ directory'[f].size = position
      /\ \A g \in Files \ {f} : size_'[g] = size_[g] /\ directory'[g] = directory[g]
  <2>1. CASE position > size
    BY <1>1, <1>2, <2>1 DEF Resize, UpdateDirectoryEntrySize
  <2>2. CASE ~(position > size)
    <3>1. position = size
      BY <1>2, <1>3, <2>2
    <3> QED
      BY <1>1, <1>2, <2>2, <3>1 DEF Resize
  <2> QED
    BY <2>1, <2>2
<1>5. SequentialInv'
  <2>1. SizesAreSaved'
    BY <1>0, <1>1, <1>4 DEF SequentialInv, SizesAreSaved
  <2>2. ClosedAtStart'
    BY <1>0 DEF SequentialInv, ClosedAtStart
  <2>3. WithinFile'
    <3>1. ASSUME NEW g \in open, g # f PROVE byte_offset_into_file_[g] <= size_[g]
      BY <3>1 DEF SequentialInv, WithinFile
    <3> QED
      BY <1>0, <1>1, <1>2, <1>4, <3>1 DEF WithinFile
  <2> QED
    BY <1>0, <2>1, <2>2, <2>3 DEF SequentialInv, SeekLabels, ReadLabels, WriteLabels
<1>6. ASSUME NEW g \in Files, NEW i \in Nat, i < directory[g].size \/ (g = f /\ i < position)
      PROVE  Byte(g, i)' = Byte(g, i)
  BY <1>0, <1>1, <1>2, <1>6, PlaceIsHeld, BytesStay DEF SequentialInv
<1>7. \A g \in Files \ {f} : DiskContent(g)' = DiskContent(g)
  <2> SUFFICES ASSUME NEW g \in Files, g # f PROVE DiskContent(g)' = DiskContent(g)
    OBVIOUS
  <2>1. directory[g].size \in Nat /\ directory'[g].size = directory[g].size
    BY <1>1, <1>4
  <2>2. \A i \in 1 .. directory[g].size : ByteAt(g, i - 1) = Byte(g, i - 1)
    BY WalkOfFAT DEF ByteAt, Byte, Chain, PlaceOf, InPlace
  <2>3. \A i \in 1 .. directory[g].size : Byte(g, i - 1)' = Byte(g, i - 1)
    BY <1>6, <2>1
  <2>4. DiskContent(g)' = [i \in 1 .. directory[g].size |-> Byte(g, i - 1)']
    BY <2>1, ContentNext
  <2> QED
    BY <2>2, <2>3, <2>4 DEF DiskContent
<1>8. PICK s, b : s = Content[f] /\ b = call.buffer
  OBVIOUS
<1>9. /\ s \in Seq(AnyByte) /\ Len(s) = size /\ b \in Seq(AnyByte) /\ Len(b) = length
      /\ \A i \in 1 .. size : s[i] = Byte(f, i - 1)
  BY <1>1, <1>2, <1>8, ContentIs DEF SequentialInv
<1>10. /\ s \o b \in Seq(AnyByte) /\ Len(s \o b) = size + length
       /\ \A i \in 1 .. (size + length) :
            (s \o b)[i] = IF i <= size THEN s[i] ELSE b[i - size]
  BY <1>9, Joined
<1>11. ASSUME NEW g \in Files, g = f PROVE DiskContent(g)' = s \o b
  <2>1. ASSUME NEW i \in 1 .. (size + length) PROVE Byte(g, i - 1)' = (s \o b)[i]
    <3>1. /\ i \in Nat /\ i - 1 \in Nat /\ i - 1 < position
          /\ (i - 1) - size + 1 = i - size
          /\ ~(i <= size) => i - 1 \in size .. (position - 1)
      BY <1>2, <1>3
    <3>2. Byte(g, i - 1)' = Byte(g, i - 1)
      BY <1>6, <1>11, <3>1
    <3>3. Byte(g, i - 1) = IF i <= size THEN s[i] ELSE b[i - size]
      BY <1>3, <1>8, <1>9, <1>11, <3>1
    <3> QED
      BY <1>10, <3>2, <3>3
  <2>2. directory'[g].size = size + length
    BY <1>3, <1>4, <1>11
  <2>3. DiskContent(g)' = [i \in 1 .. (size + length) |-> Byte(g, i - 1)']
    BY <2>2, ContentNext
  <2>4. DiskContent(g)' = [i \in 1 .. (size + length) |-> (s \o b)[i]]
    BY <2>1, <2>3
  <2>5. PICK joined : joined = s \o b
    OBVIOUS
  <2>6. joined \in Seq(AnyByte) /\ Len(joined) = size + length /\ size + length \in Nat
    BY <1>2, <1>10, <2>5
  <2>7. joined = [i \in 1 .. (size + length) |-> joined[i]]
    BY <2>6
  <2> QED
    BY <2>4, <2>5, <2>7
<1>12. Content' = [Content EXCEPT ![f] = s \o b]
  <2>1. \A g \in Files : Content[g] = DiskContent(g) /\ Content'[g] = DiskContent(g)'
    BY ContentNext DEF Content
  <2>2. \A g \in Files : Content'[g] = IF g = f THEN s \o b ELSE Content[g]
    BY <1>7, <1>11, <2>1
  <2>3. Content = [g \in Files |-> Content[g]] /\ Content' = [g \in Files |-> Content'[g]]
    BY DEF Content
  <2> QED
    BY <1>1, <2>2, <2>3
<1>13. /\ Position' = [Position EXCEPT ![f] = position]
       /\ Asked' = [kind |-> "none"]
       /\ returned' = [code |-> "SUCCESS", bytes |-> <<>>]
       /\ Asked.kind = call.kind /\ Asked.file = f /\ Asked.buffer = b
  <2>1. Asked.buffer = call.buffer
    BY <1>0, <1>3 DEF Asked
  <2> QED
    BY <1>0, <1>2, <1>8, <2>1, Answered
<1>14. Len(Content'[f]) = position
  <2>1. Content'[f] = s \o b
    BY <1>1, <1>12 DEF Content
  <2> QED
    BY <1>3, <1>10, <2>1
<1>15. Refines
  BY <1>0, <1>3, <1>8, <1>12, <1>13, <1>14, ExtendsThere
<1> QED
  BY <1>5, <1>15

-----------------------------------------------------------------------------
(* A call that begins is a request, and has not come anywhere yet.         *)
LEMMA CallBegins ==
  ASSUME SequentialInv, ChainInv', HeldStays,
         NEW kind \in {"seek", "append", "write", "read"}, NEW f \in open,
         NEW buffer \in Seq(Bytes), NEW target \in Nat, kind = "read" => buffer = <<>>,
         NEW label \in SeekLabels \cup ReadLabels \cup WriteLabels,
         Begin(Call(kind, f, buffer, target), label)
  PROVE  /\ Refines /\ SizesAreSaved' /\ ClosedAtStart' /\ WithinFile'
         /\ call'.kind = kind /\ call'.file = f /\ call'.buffer = buffer
         /\ call'.target = target /\ call'.from = byte_offset_into_file_[f]
         /\ pc' = label /\ UNCHANGED <<size_, byte_offset_into_file_, transferred>>
         /\ f \in Files /\ byte_offset_into_file_[f] \in Nat /\ size_[f] \in Nat
         /\ byte_offset_into_file_[f] <= size_[f] /\ transferred = 0
<1>1. /\ pc = "idle" /\ pc' = label /\ pc' # "idle"
      /\ call' = Call(kind, f, buffer, target)
      /\ UNCHANGED <<cluster_data, directory, open, size_, byte_offset_into_file_,
                     transferred, returned>>
  BY DEF Begin, objectVars, positionVars, localVars, SeekLabels, ReadLabels, WriteLabels
<1>2. /\ call'.kind = kind /\ call'.file = f /\ call'.buffer = buffer
      /\ call'.target = target /\ call'.from = byte_offset_into_file_[f]
  BY <1>1 DEF Call
<1>3. f \in Files /\ byte_offset_into_file_[f] \in Nat /\ size_[f] \in Nat
  BY DEF SequentialInv, ChainInv, TypeInv, TypeOK, ObjectTypeOK
<1>4. byte_offset_into_file_[f] <= size_[f] /\ transferred = 0
  BY <1>1 DEF SequentialInv, WithinFile, ChainInv, TypeInv, TransferWithinBuffer
<1>5. SizesAreSaved' /\ ClosedAtStart' /\ WithinFile'
  BY <1>1 DEF SequentialInv, SizesAreSaved, ClosedAtStart, WithinFile
<1>6. Content' = Content
  BY <1>1, ContentStays DEF SequentialInv
<1>7. Position' = Position
  BY <1>1, <1>2 DEF Position
<1>8. Asked.kind = "none"
  BY <1>1 DEF Asked
<1>9. /\ Asked'.kind \in {"seek", "append", "write", "read"} /\ Asked'.file = f
      /\ Asked'.buffer \in Seq(Bytes) /\ Asked'.target \in Nat
  BY <1>1, <1>2, <1>3 DEF Asked, Smaller
<1>10. Refines
  BY <1>1, <1>3, <1>6, <1>7, <1>8, <1>9, RequestsThere
<1> QED
  BY <1>1, <1>2, <1>3, <1>4, <1>5, <1>10

(* An opened file is at its start, which is where a closed one was.        *)
LEMMA OpenRefines ==
  ASSUME SequentialInv, ChainInv', HeldStays, NEW f \in Files, OpenFile(f)
  PROVE  SequentialInv' /\ Refines
<1>1. /\ pc = "idle" /\ pc' = "idle" /\ f \notin open /\ open' = open \cup {f}
      /\ UNCHANGED <<cluster_data, directory, call, returned>>
      /\ size_' = [size_ EXCEPT ![f] = directory[f].size]
      /\ byte_offset_into_file_' = [byte_offset_into_file_ EXCEPT ![f] = 0]
  BY DEF OpenFile
<1>2. /\ size_ \in [Files -> Nat] /\ byte_offset_into_file_ \in [Files -> Nat]
      /\ directory[f].size \in Nat
  BY DEF SequentialInv, ChainInv, TypeInv, TypeOK, ObjectTypeOK, DeviceTypeOK
<1>3. byte_offset_into_file_' = byte_offset_into_file_ /\ byte_offset_into_file_[f] = 0
  BY <1>1, <1>2 DEF SequentialInv, ClosedAtStart
<1>4. size_'[f] = directory[f].size /\ \A g \in Files \ {f} : size_'[g] = size_[g]
  BY <1>1, <1>2
<1>5. open \subseteq Files
  BY DEF SequentialInv, ChainInv, TypeInv, TypeOK, ObjectTypeOK
<1>6. SizesAreSaved' /\ ClosedAtStart' /\ WithinFile'
  <2>1. SizesAreSaved'
    BY <1>1, <1>4, <1>5 DEF SequentialInv, SizesAreSaved
  <2>2. ClosedAtStart'
    BY <1>1, <1>3 DEF SequentialInv, ClosedAtStart
  <2>3. WithinFile'
    BY <1>1, <1>2, <1>3, <1>4, <1>5 DEF SequentialInv, WithinFile
  <2> QED
    BY <2>1, <2>2, <2>3
<1>7. SequentialInv'
  BY <1>1, <1>6 DEF SequentialInv, SeekLabels, ReadLabels, WriteLabels
<1>8. Content' = Content
  BY <1>1, ContentStays DEF SequentialInv
<1>9. Position' = Position /\ Asked' = Asked /\ Asked.kind = "none"
  BY <1>1, <1>3 DEF Position, Asked
<1>10. Refines
  BY <1>1, <1>8, <1>9, OpensThere
<1> QED
  BY <1>7, <1>10

(* A closed file is at its start.                                          *)
LEMMA CloseRefines ==
  ASSUME SequentialInv, ChainInv', HeldStays, NEW f \in Files, CloseFile(f)
  PROVE  SequentialInv' /\ Refines
<1>1. /\ pc = "idle" /\ pc' = "idle" /\ f \in open /\ open' = open \ {f}
      /\ UNCHANGED <<cluster_data, directory, call, returned>>
      /\ size_' = [size_ EXCEPT ![f] = 0]
      /\ byte_offset_into_file_' = [byte_offset_into_file_ EXCEPT ![f] = 0]
  BY DEF CloseFile
<1>2. size_ \in [Files -> Nat] /\ byte_offset_into_file_ \in [Files -> Nat] /\ open \subseteq Files
  BY DEF SequentialInv, ChainInv, TypeInv, TypeOK, ObjectTypeOK
<1>3. /\ byte_offset_into_file_'[f] = 0
      /\ \A g \in Files \ {f} : /\ size_'[g] = size_[g]
                                /\ byte_offset_into_file_'[g] = byte_offset_into_file_[g]
  BY <1>1, <1>2
<1>4. SizesAreSaved' /\ ClosedAtStart' /\ WithinFile'
  BY <1>1, <1>2, <1>3 DEF SequentialInv, SizesAreSaved, ClosedAtStart, WithinFile
<1>5. SequentialInv'
  BY <1>1, <1>4 DEF SequentialInv, SeekLabels, ReadLabels, WriteLabels
<1>6. Content' = Content
  BY <1>1, ContentStays DEF SequentialInv
<1>7. Asked' = Asked /\ Asked.kind = "none"
  BY <1>1 DEF Asked
<1>8. Position' = [Position EXCEPT ![f] = 0]
  BY <1>1, <1>2, <1>3 DEF Position
<1>9. Refines
  BY <1>1, <1>6, <1>7, <1>8, ClosesThere
<1> QED
  BY <1>5, <1>9

(* A seek or an append begins at or before the position it seeks.          *)
LEMMA SeekCallsRefine ==
  ASSUME SequentialInv, ChainInv', HeldStays, NEW f \in Files,
         \/ \E position \in {0} \cup byte_offset_into_file_[f] .. MaxFileSize : SeekCall(f, position)
         \/ \E buffer \in Buffers : AppendCall(f, buffer)
  PROVE  SequentialInv' /\ Refines
<1>0. byte_offset_into_file_[f] \in Nat /\ size_[f] \in Nat
  BY DEF SequentialInv, ChainInv, TypeInv, TypeOK, ObjectTypeOK
<1>1. ASSUME NEW position \in {0} \cup byte_offset_into_file_[f] .. MaxFileSize, SeekCall(f, position)
      PROVE  SequentialInv' /\ Refines
  <2>1. /\ f \in open /\ Begin(Call("seek", f, <<>>, position), "seek_from")
        /\ position \in Nat /\ (position = 0 \/ byte_offset_into_file_[f] <= position)
        /\ <<>> \in Seq(Bytes) /\ "seek_from" \in SeekLabels \cup ReadLabels \cup WriteLabels
    BY <1>0, <1>1, FileAssumption DEF SeekCall, Begin, Call, SeekLabels
  <2>2. /\ Refines /\ SizesAreSaved' /\ ClosedAtStart' /\ WithinFile'
        /\ call'.kind = "seek" /\ call'.file = f /\ call'.target = position /\ pc' = "seek_from"
        /\ UNCHANGED <<size_, byte_offset_into_file_>> /\ byte_offset_into_file_[f] <= size_[f]
    BY <2>1, CallBegins
  <2>3. SeekUnderWay'
    BY <2>1, <2>2 DEF SeekUnderWay
  <2> QED
    BY <2>2, <2>3 DEF SequentialInv, SeekLabels, ReadLabels, WriteLabels
<1>2. ASSUME NEW buffer \in Buffers, AppendCall(f, buffer) PROVE SequentialInv' /\ Refines
  <2>1. /\ f \in open /\ Begin(Call("append", f, buffer, size_[f]), "seek_from")
        /\ "seek_from" \in SeekLabels \cup ReadLabels \cup WriteLabels
    BY <1>2 DEF AppendCall, Begin, Call, SeekLabels
  <2>2. buffer \in Seq(Bytes)
    BY FileAssumption DEF Buffers
  <2>3. /\ Refines /\ SizesAreSaved' /\ ClosedAtStart' /\ WithinFile'
        /\ call'.kind = "append" /\ call'.file = f /\ call'.target = size_[f] /\ pc' = "seek_from"
        /\ UNCHANGED <<size_, byte_offset_into_file_>> /\ byte_offset_into_file_[f] <= size_[f]
    BY <1>0, <2>1, <2>2, CallBegins
  <2>4. SeekUnderWay'
    BY <2>3 DEF SeekUnderWay
  <2> QED
    BY <2>3, <2>4 DEF SequentialInv, SeekLabels, ReadLabels, WriteLabels
<1> QED
  BY <1>1, <1>2

(* A read begins with nothing in its buffer.                               *)
LEMMA ReadCallRefines ==
  ASSUME SequentialInv, ChainInv', HeldStays, NEW f \in Files,
         NEW space \in 0 .. MaxFileSize, ReadCall(f, space)
  PROVE  SequentialInv' /\ Refines
<1>1. /\ f \in open /\ Begin(Call("read", f, <<>>, space), "read") /\ space \in Nat
      /\ <<>> \in Seq(Bytes) /\ "read" \in SeekLabels \cup ReadLabels \cup WriteLabels
  BY FileAssumption DEF ReadCall, Begin, Call, ReadLabels
<1>2. /\ Refines /\ SizesAreSaved' /\ ClosedAtStart' /\ WithinFile'
      /\ call'.kind = "read" /\ call'.file = f /\ call'.target = space /\ call'.buffer = <<>>
      /\ call'.from = byte_offset_into_file_[f] /\ pc' = "read"
      /\ UNCHANGED <<size_, byte_offset_into_file_>> /\ byte_offset_into_file_[f] \in Nat
      /\ byte_offset_into_file_[f] <= size_[f]
  <2>1. PICK nothing, kind, label : nothing = <<>> /\ kind = "read" /\ label = "read"
    OBVIOUS
  <2>2. /\ nothing \in Seq(Bytes) /\ kind \in {"seek", "append", "write", "read"}
        /\ label \in SeekLabels \cup ReadLabels \cup WriteLabels
        /\ Begin(Call(kind, f, nothing, space), label)
    BY <1>1, <2>1
  <2>3. /\ Refines /\ SizesAreSaved' /\ ClosedAtStart' /\ WithinFile'
        /\ call'.kind = kind /\ call'.file = f /\ call'.target = space /\ call'.buffer = nothing
        /\ call'.from = byte_offset_into_file_[f] /\ pc' = label
        /\ UNCHANGED <<size_, byte_offset_into_file_>> /\ byte_offset_into_file_[f] \in Nat
        /\ byte_offset_into_file_[f] <= size_[f]
    BY <1>1, <2>1, <2>2, CallBegins
  <2> QED
    BY <2>1, <2>3
<1>3. BytesRead'
  <2> SUFFICES ASSUME NEW g \in Files, g = f,
                      NEW i \in byte_offset_into_file_[g] .. (byte_offset_into_file_[g] - 1)
               PROVE  FALSE
    BY <1>2 DEF BytesRead
  <2> QED
    BY <1>2
<1>4. Len(call'.buffer) = 0
  BY <1>2
<1>5. ReadUnderWay'
  BY <1>1, <1>2, <1>3, <1>4 DEF ReadUnderWay
<1> QED
  BY <1>2, <1>5 DEF SequentialInv, SeekLabels, ReadLabels, WriteLabels

(* A write at the end of the file begins with nothing transferred.         *)
LEMMA WriteCallRefines ==
  ASSUME SequentialInv, ChainInv', HeldStays, NEW f \in Files, NEW buffer \in Buffers,
         byte_offset_into_file_[f] = size_[f], WriteCall(f, buffer)
  PROVE  SequentialInv' /\ Refines
<1>1. PICK label : label = WriteEntry(current_cluster_[f], buffer)
  OBVIOUS
<1>2. /\ f \in open /\ Begin(Call("write", f, buffer, 0), label) /\ 0 \in Nat
      /\ label \in {"allocate", "copy", "resize"} /\ (label = "resize" => buffer = <<>>)
      /\ label \in SeekLabels \cup ReadLabels \cup WriteLabels
  BY <1>1 DEF WriteCall, Begin, Call, WriteEntry, WriteLabels
<1>3. buffer \in Seq(Bytes)
  BY FileAssumption DEF Buffers
<1>4. /\ Refines /\ SizesAreSaved' /\ ClosedAtStart' /\ WithinFile'
      /\ call'.kind = "write" /\ call'.file = f /\ call'.buffer = buffer /\ pc' = label
      /\ UNCHANGED <<size_, byte_offset_into_file_, transferred>>
      /\ size_[f] \in Nat /\ transferred = 0
  BY <1>2, <1>3, CallBegins
<1>5. BytesWritten'
  <2> SUFFICES ASSUME NEW g \in Files, g = f,
                      NEW i \in size_[g] .. (byte_offset_into_file_[g] - 1)
               PROVE  FALSE
    BY <1>4 DEF BytesWritten
  <2> QED
    BY <1>4
<1>6. label = "resize" => Len(call'.buffer) = 0
  BY <1>2, <1>4
<1>7. WriteUnderWay'
  BY <1>4, <1>5, <1>6 DEF WriteUnderWay
<1> QED
  BY <1>2, <1>4, <1>7 DEF SequentialInv, SeekLabels, ReadLabels, WriteLabels

(* There is nothing in any file at first.                                  *)
LEMMA SequentialInitially == Init => SequentialInv /\ Abstract!Init
<1> SUFFICES ASSUME Init PROVE SequentialInv /\ Abstract!Init
  OBVIOUS
<1>1. SequentialInv
  BY ChainInitially DEF Init, SequentialInv, SizesAreSaved, ClosedAtStart, WithinFile,
     SeekLabels, ReadLabels, WriteLabels
<1>2. \A f \in Files : DiskContent(f) = <<>>
  BY DEF Init, DiskContent
<1> QED
  BY <1>1, <1>2 DEF Init, Abstract!Init

(* Every step is one of ByteFile, or one that it does not see.             *)
LEMMA SequentialStep ==
  SequentialInv /\ [SequentialNext]_vars /\ [~DeviceFull]_vars => SequentialInv' /\ Refines
<1> SUFFICES ASSUME SequentialInv, [SequentialNext]_vars, [~DeviceFull]_vars
             PROVE  SequentialInv' /\ Refines
  OBVIOUS
<1>1. CASE UNCHANGED vars
  <2>1. UNCHANGED <<fat, cluster_data, directory, open, size_, byte_offset_into_file_,
                    pc, call, transferred, returned>>
    BY <1>1 DEF vars, adapterVars, objectVars, positionVars, localVars
  <2>2. ChainInv' /\ HeldStays
    BY <1>1, ChainStep DEF SequentialInv
  <2>3. UNCHANGED <<Content, Position, Asked>>
    <3>1. Content' = Content
      BY <2>1, <2>2, ContentStays DEF SequentialInv
    <3> QED
      BY <2>1, <3>1 DEF Position, Asked
  <2>4. Refines
    BY <2>1, <2>3, Stutters
  <2>5. SizesAreSaved' /\ ClosedAtStart' /\ WithinFile'
    BY <2>1 DEF SequentialInv, SizesAreSaved, ClosedAtStart, WithinFile
  <2>6. BytesRead' <=> BytesRead
    <3>1. \A f \in Files : Chain(f)' = Chain(f)
      BY <2>1 DEF Chain
    <3> QED
      BY <2>1, <3>1 DEF BytesRead, Byte, PlaceOf, InPlace
  <2>7. BytesWritten' <=> BytesWritten
    <3>1. \A f \in Files : Chain(f)' = Chain(f)
      BY <2>1 DEF Chain
    <3> QED
      BY <2>1, <3>1 DEF BytesWritten, Byte, PlaceOf, InPlace
  <2>8. /\ SeekUnderWay => SeekUnderWay'
        /\ ReadUnderWay => ReadUnderWay'
        /\ WriteUnderWay => WriteUnderWay'
    BY <2>1, <2>6, <2>7 DEF SeekUnderWay, ReadUnderWay, WriteUnderWay
  <2> QED
    BY <2>1, <2>2, <2>4, <2>5, <2>8 DEF SequentialInv, SeekLabels, ReadLabels, WriteLabels
<1>2. CASE ~(UNCHANGED vars)
  <2>1. SequentialNext /\ ~DeviceFull
    BY <1>2
  <2>2. Next
    <3>1. ASSUME NEW f \in Files,
                 NEW position \in {0} \cup byte_offset_into_file_[f] .. MaxFileSize
          PROVE  position \in 0 .. MaxFileSize
      BY FileAssumption DEF SequentialInv, ChainInv, TypeInv, TypeOK, ObjectTypeOK
    <3> QED
      BY <2>1, <3>1 DEF SequentialNext, BeginSequentialCall, Next, BeginCall
  <2>3. ChainInv' /\ HeldStays
    BY <2>2, ChainStep DEF SequentialInv
  <2>4. CASE BeginSequentialCall
    BY <2>3, <2>4, OpenRefines, CloseRefines, SeekCallsRefine, ReadCallRefines, WriteCallRefines
    DEF BeginSequentialCall
  <2>5. CASE Continue
    BY <2>1, <2>3, <2>5, SeekFromRefines, SeekBlockRefines, SeekNextRefines,
       ReadFinishedRefines, ReadBlockRefines, ReadNextRefines, CopyBlockRefines,
       NewClusterRefines, NothingToFollow, ResizeRefines
    DEF Continue
  <2> QED
    BY <2>1, <2>4, <2>5 DEF SequentialNext
<1> QED
  BY <1>1, <1>2

(* To a program that reads its files forward, rewinds and extends them, a  *)
(* file is a sequence of bytes, however its clusters are chained and       *)
(* whatever other files are written in between: ByteFile is implemented,   *)
(* as long as the volume has room for what is written.  A write for which  *)
(* it has none is refused, of which ByteFile does not speak.               *)
THEOREM FilesAreByteFiles ==
  SequentialSpec /\ [][~DeviceFull]_vars => ImplementsByteFile
<1>1. SequentialInv /\ [SequentialNext]_vars /\ [~DeviceFull]_vars
      => SequentialInv' /\ [Abstract!Next]_(Abstract!byteFileVars)
  BY SequentialStep DEF Refines
<1> QED
  BY <1>1, SequentialInitially, PTL DEF SequentialSpec, ImplementsByteFile, Abstract!Spec

=============================================================================
