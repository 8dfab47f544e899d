--------------------------- MODULE FAT32VolumeProofs ---------------------------
(***************************************************************************)
(* Theorems about FAT32Volume: whatever a careful program does, and        *)
(* wherever the power goes but between the writes that belong together,    *)
(* the directory tree leads through allocated clusters, no cluster belongs *)
(* to two entries, names are unique and open files keep their entries.     *)
(***************************************************************************)
EXTENDS FAT32Volume, DataLemmas, FiniteSetTheorems, TLAPS

-----------------------------------------------------------------------------
(* Chains, for any table of entries: ChainClusters is defined of the FAT   *)
(* as it is in one state, its lemmas are about the two of a step.          *)

LinkedFrom(table, S) == {table[c] : c \in S} \cap Cluster

IsVisit(visited, table) ==
  visited = [S \in SUBSET Cluster |-> IF LinkedFrom(table, S) \subseteq S THEN S
                                      ELSE visited[S \cup LinkedFrom(table, S)]]

ChainIn(table, first) ==
  LET visited[S \in SUBSET Cluster] ==
        LET next == {table[c] : c \in S} \cap Cluster
        IN  IF next \subseteq S THEN S ELSE visited[S \cup next]
  IN  visited[{first} \cap Cluster]

\* A set of clusters that no link leaves, and the smallest that holds a set.
IsClosed(table, S) == \A c \in S : table[c] \in Cluster => table[c] \in S

Closure(table, S) ==
  {c \in Cluster : \A T \in SUBSET Cluster : S \subseteq T /\ IsClosed(table, T) => c \in T}

(* The closure is closed, holds the set, and is within all that do both.   *)
LEMMA ClosureFacts ==
  ASSUME NEW table, NEW S \in SUBSET Cluster
  PROVE  /\ Closure(table, S) \in SUBSET Cluster /\ S \subseteq Closure(table, S)
         /\ IsClosed(table, Closure(table, S))
         /\ \A T \in SUBSET Cluster : S \subseteq T /\ IsClosed(table, T) => Closure(table, S) \subseteq T
         /\ LinkedFrom(table, S) \subseteq S => Closure(table, S) = S
         /\ Closure(table, S \cup LinkedFrom(table, S)) = Closure(table, S)
<1>1. Closure(table, S) \in SUBSET Cluster /\ S \subseteq Closure(table, S)
  BY DEF Closure
<1>2. \A T \in SUBSET Cluster : S \subseteq T /\ IsClosed(table, T) => Closure(table, S) \subseteq T
  BY DEF Closure
<1>3. IsClosed(table, Closure(table, S))
  BY DEF Closure, IsClosed
<1>4. LinkedFrom(table, S) \subseteq S => Closure(table, S) = S
  <2>1. LinkedFrom(table, S) \subseteq S => IsClosed(table, S)
    BY DEF LinkedFrom, IsClosed
  <2> QED
    BY <1>1, <1>2, <2>1
<1>5. Closure(table, S \cup LinkedFrom(table, S)) = Closure(table, S)
  <2>1. \A T \in SUBSET Cluster : S \subseteq T /\ IsClosed(table, T)
          => S \cup LinkedFrom(table, S) \subseteq T
    BY DEF LinkedFrom, IsClosed
  <2> QED
    BY <2>1 DEF Closure
<1> QED
  BY <1>1, <1>2, <1>3, <1>4, <1>5

(* What the recursion visits is the closure: each step that is not the     *)
(* last adds a cluster, and there are finitely many.                       *)
LEMMA VisitsClosure ==
  ASSUME NEW table, NEW visited, IsVisit(visited, table)
  PROVE  \A S \in SUBSET Cluster : visited[S] = Closure(table, S)
<1>1. IsFiniteSet(Cluster)
  BY FS_Interval, VolumeAssumption DEF Cluster
<1> DEFINE Done(n) == \A S \in SUBSET Cluster : Cardinality(Cluster \ S) <= n
                        => visited[S] = Closure(table, S)
           N == {n \in Nat : Done(n)}
<1>2. \A S \in SUBSET Cluster : visited[S] = IF LinkedFrom(table, S) \subseteq S THEN S
                                             ELSE visited[S \cup LinkedFrom(table, S)]
  BY DEF IsVisit
<1>3. \A S \in SUBSET Cluster : Cardinality(Cluster \ S) \in Nat /\ IsFiniteSet(Cluster \ S)
  <2> SUFFICES ASSUME NEW S \in SUBSET Cluster
               PROVE  Cardinality(Cluster \ S) \in Nat /\ IsFiniteSet(Cluster \ S)
    OBVIOUS
  <2>1. Cluster \ S \in SUBSET Cluster
    OBVIOUS
  <2>2. IsFiniteSet(Cluster \ S)
    BY <1>1, <2>1, FS_Subset
  <2> QED
    BY <2>2, FS_CardinalityType
<1>4. 0 \in N
  <2> SUFFICES ASSUME NEW S \in SUBSET Cluster, Cardinality(Cluster \ S) <= 0
               PROVE  visited[S] = Closure(table, S)
    OBVIOUS
  <2>1. Cardinality(Cluster \ S) = 0 /\ IsFiniteSet(Cluster \ S)
    <3>1. \A n \in Nat : n <= 0 => n = 0
      OBVIOUS
    <3> QED
      BY <1>3, <3>1
  <2>2. Cluster \ S = {}
    BY <2>1, FS_EmptySet
  <2>3. LinkedFrom(table, S) \subseteq S
    BY <2>2 DEF LinkedFrom
  <2> QED
    BY <1>2, <2>3, ClosureFacts
<1>5. ASSUME NEW n \in Nat, n \in N
      PROVE  n + 1 \in N
  <2> SUFFICES ASSUME NEW S \in SUBSET Cluster, Cardinality(Cluster \ S) <= n + 1
               PROVE  visited[S] = Closure(table, S)
    <3>1. n + 1 \in Nat
      OBVIOUS
    <3> QED
      BY <3>1
  <2>1. CASE LinkedFrom(table, S) \subseteq S
    BY <1>2, <2>1, ClosureFacts
  <2>2. CASE ~(LinkedFrom(table, S) \subseteq S)
    <3> DEFINE T == S \cup LinkedFrom(table, S)
    <3>1. T \in SUBSET Cluster /\ (Cluster \ T) \in SUBSET (Cluster \ S) /\ Cluster \ T # Cluster \ S
      BY <2>2 DEF LinkedFrom
    <3>2. IsFiniteSet(Cluster \ S)
      BY <1>3
    <3>3. Cardinality(Cluster \ T) <= Cardinality(Cluster \ S)
          /\ Cardinality(Cluster \ T) # Cardinality(Cluster \ S)
      BY <3>1, <3>2, FS_Subset
    <3>4. Cardinality(Cluster \ T) <= n
      <4>1. Cardinality(Cluster \ T) \in Nat /\ Cardinality(Cluster \ S) \in Nat
        BY <1>3, <3>1
      <4> QED
        BY <3>3, <4>1
    <3>5. visited[T] = Closure(table, T)
      BY <1>5, <3>1, <3>4
    <3> QED
      BY <1>2, <2>2, <3>5, ClosureFacts
  <2> QED
    BY <2>1, <2>2
<1>6. Nat \subseteq N
  <2> HIDE DEF N
  <2> QED
    BY <1>4, <1>5, EveryNatural
<1> QED
  <2> SUFFICES ASSUME NEW S \in SUBSET Cluster
               PROVE  visited[S] = Closure(table, S)
    OBVIOUS
  <2> DEFINE n == Cardinality(Cluster \ S)
  <2>1. n \in Nat
    BY <1>3
  <2>2. n \in N
    BY <1>6, <2>1
  <2>3. \A m \in Nat : m <= m
    OBVIOUS
  <2> QED
    BY <2>1, <2>2, <2>3

(* The clusters of a chain: its first, if it is one, and what is linked    *)
(* from them, and no others.                                               *)
LEMMA ChainFacts ==
  ASSUME NEW table, NEW first
  PROVE  /\ ChainIn(table, first) \subseteq Cluster
         /\ first \in Cluster => first \in ChainIn(table, first)
         /\ \A c \in ChainIn(table, first) : table[c] \in Cluster => table[c] \in ChainIn(table, first)
         /\ \A T \in SUBSET Cluster : (first \in Cluster => first \in T) /\ IsClosed(table, T)
              => ChainIn(table, first) \subseteq T
<1> DEFINE S == {first} \cap Cluster
<1>1. IsVisit([U \in SUBSET Cluster |-> Closure(table, U)], table)
  <2> DEFINE v == [U \in SUBSET Cluster |-> Closure(table, U)]
  <2>1. ASSUME NEW U \in SUBSET Cluster
        PROVE  Closure(table, U) = IF LinkedFrom(table, U) \subseteq U THEN U
                                   ELSE v[U \cup LinkedFrom(table, U)]
    <3>1. U \cup LinkedFrom(table, U) \in SUBSET Cluster
      BY DEF LinkedFrom
    <3> QED
      BY <3>1, ClosureFacts
  <2> QED
    BY <2>1 DEF IsVisit
<1>2. \E v : v = [U \in SUBSET Cluster |->
                    LET next == {table[c] : c \in U} \cap Cluster
                    IN  IF next \subseteq U THEN U ELSE v[U \cup next]]
  BY <1>1 DEF IsVisit, LinkedFrom
<1>3. PICK v : /\ v = [U \in SUBSET Cluster |->
                         LET next == {table[c] : c \in U} \cap Cluster
                         IN  IF next \subseteq U THEN U ELSE v[U \cup next]]
               /\ ChainIn(table, first) = v[S]
  BY <1>2 DEF ChainIn
<1>4. IsVisit(v, table)
  BY <1>3 DEF IsVisit, LinkedFrom
<1>5. ChainIn(table, first) = Closure(table, S)
  BY <1>3, <1>4, VisitsClosure
<1>6. /\ Closure(table, S) \in SUBSET Cluster /\ S \subseteq Closure(table, S)
      /\ IsClosed(table, Closure(table, S))
      /\ \A T \in SUBSET Cluster : S \subseteq T /\ IsClosed(table, T) => Closure(table, S) \subseteq T
  <2>1. S \in SUBSET Cluster
    OBVIOUS
  <2> HIDE DEF S
  <2> QED
    BY <2>1, ClosureFacts
<1> QED
  BY <1>5, <1>6 DEF IsClosed

-----------------------------------------------------------------------------
(* Tables of entries.                                                      *)

(* The numbers of clusters, and the marks in the FAT that are none.        *)
LEMMA NumberFacts ==
  /\ Cluster \subseteq Nat /\ 0 \notin Cluster /\ RootDirectoryCluster \in Cluster
  /\ FAT32EntryFree = 0 /\ FAT32EntryAllocatedAndEndOfFile # 0
  /\ FAT32EntryAllocatedAndEndOfFile \notin Cluster
  /\ {FAT32EntryFree, FAT32EntryAllocatedAndEndOfFile} \cup Cluster \subseteq FATEntry
  /\ \A c \in Cluster : ~IsEndOfChain(c)
  /\ \A e \in FATEntry : IsEndOfChain(e) <=> e \notin Cluster /\ e # FAT32EntryFree
BY VolumeAssumption DEF Cluster, FATEntry, IsEndOfChain, FAT32EntryFree, FAT32EntryDefective,
     FAT32EntryEOFThreshold, FAT32EntryAllocatedAndEndOfFile

\* From these clusters the tables lead to the same clusters.
SameLinks(table, other, S) ==
  \A c \in S : other[c] = table[c] \/ (table[c] \notin Cluster /\ other[c] \notin Cluster)

(* A chain depends on the entries of its own clusters alone.               *)
LEMMA ChainSame ==
  ASSUME NEW table, NEW other, NEW first, SameLinks(table, other, ChainIn(table, first))
  PROVE  ChainIn(other, first) = ChainIn(table, first)
<1>1. IsClosed(other, ChainIn(table, first))
  BY ChainFacts DEF IsClosed, SameLinks
<1>2. ChainIn(other, first) \subseteq ChainIn(table, first)
  BY <1>1, ChainFacts
<1>3. IsClosed(table, ChainIn(other, first))
  BY <1>2, ChainFacts DEF IsClosed, SameLinks
<1>4. ChainIn(table, first) \subseteq ChainIn(other, first)
  BY <1>3, ChainFacts
<1> QED
  BY <1>2, <1>4

(* Its last cluster may be linked to one that leads nowhere.               *)
LEMMA ChainGrows ==
  ASSUME NEW table, NEW other, NEW first, NEW last \in ChainIn(table, first), NEW c \in Cluster,
         table[last] \notin Cluster, table[c] \notin Cluster, c # last, other[last] = c,
         \A d \in Cluster \ {last} : other[d] = table[d]
  PROVE  ChainIn(other, first) = ChainIn(table, first) \cup {c}
<1>1. IsClosed(other, ChainIn(table, first) \cup {c})
  BY ChainFacts DEF IsClosed
<1>2. ChainIn(other, first) \subseteq ChainIn(table, first) \cup {c}
  BY <1>1, ChainFacts
<1>3. IsClosed(table, ChainIn(other, first))
  BY ChainFacts DEF IsClosed
<1>4. ChainIn(table, first) \subseteq ChainIn(other, first)
  BY <1>3, ChainFacts
<1>5. c \in ChainIn(other, first)
  BY <1>4, ChainFacts
<1> QED
  BY <1>2, <1>4, <1>5

(* A cluster of a chain that is not its first is linked from another.      *)
LEMMA ChainMember ==
  ASSUME NEW table, NEW first, NEW c \in ChainIn(table, first), c # first
  PROVE  \E d \in ChainIn(table, first) : table[d] = c
<1> SUFFICES ASSUME \A d \in ChainIn(table, first) : table[d] # c PROVE FALSE
  OBVIOUS
<1> DEFINE T == ChainIn(table, first) \ {c}
<1>1. T \in SUBSET Cluster /\ IsClosed(table, T) /\ (first \in Cluster => first \in T)
  BY ChainFacts DEF IsClosed
<1> QED
  BY <1>1, ChainFacts

(* What is at a cluster of a chain follows it to the end.                  *)
LEMMA ChainTail ==
  ASSUME NEW table, NEW first, NEW c \in ChainIn(table, first)
  PROVE  ChainIn(table, c) \subseteq ChainIn(table, first)
BY ChainFacts DEF IsClosed

Injective(table) ==
  \A c, d \in Cluster : table[c] \in Cluster /\ table[c] = table[d] => c = d

Unlinked(table, c) == c \in Cluster /\ \A d \in Cluster : table[d] # c

(* A cluster no entry leads to is in no chain but its own, and two chains  *)
(* with different such heads have no cluster in common: a cluster of both  *)
(* is linked from one cluster, which is in both, too, and so back to the   *)
(* heads.                                                                  *)
LEMMA HeadApart ==
  ASSUME NEW table, NEW first, NEW head, Unlinked(table, head), head # first
  PROVE  head \notin ChainIn(table, first)
BY ChainMember, ChainFacts DEF Unlinked

(* The chains of two heads have no cluster in common.                      *)
LEMMA ChainsApart ==
  ASSUME NEW table, Injective(table), NEW g, NEW h, Unlinked(table, g), Unlinked(table, h), g # h
  PROVE  ChainIn(table, g) \cap ChainIn(table, h) = {}
<1> DEFINE T == ChainIn(table, g) \ ChainIn(table, h)
<1>1. g \in T
  BY HeadApart, ChainFacts DEF Unlinked
<1>2. ASSUME NEW c \in T, table[c] \in Cluster PROVE table[c] \in T
  <2>1. table[c] \in ChainIn(table, g) /\ c \in Cluster
    BY <1>2, ChainFacts
  <2>2. ASSUME table[c] \in ChainIn(table, h) PROVE FALSE
    <3>1. table[c] # h
      BY <2>1 DEF Unlinked
    <3>2. PICK d \in ChainIn(table, h) : table[d] = table[c]
      BY <2>2, <3>1, ChainMember
    <3>3. d \in Cluster
      BY <3>2, ChainFacts
    <3> QED
      BY <1>2, <2>1, <3>2, <3>3 DEF Injective
  <2> QED
    BY <2>1, <2>2
<1>3. T \in SUBSET Cluster /\ IsClosed(table, T)
  BY <1>2, ChainFacts DEF IsClosed
<1>4. ChainIn(table, g) \subseteq T
  BY <1>1, <1>3, ChainFacts
<1> QED
  BY <1>4

(* The chains of the model.                                                *)
LEMMA ChainNow ==
  ASSUME NEW first
  PROVE  ChainClusters(first) = ChainIn(fat, first) /\ ChainClusters(first)' = ChainIn(fat', first)
BY DEF ChainClusters, ChainIn, NextClusterInChain

-----------------------------------------------------------------------------
(***************************************************************************)
(* What the induction is about.  The chains of the tree keep apart because *)
(* of what holds of single entries of the FAT: no two lead to the same     *)
(* cluster, none leads to the head of a chain, and the entries of the tree *)
(* and the operation in progress have different heads.                     *)
(***************************************************************************)

\* The model's room for the program, and where the power may go.
CarefulProgram ==
  /\ Careful
  /\ \A c, d \in Cases : c = d
  /\ LossPoints \cap {"mark", "end_chain", "remove_old"} = {}

Operations == [kind : {"none", "create", "mkdir", "rename", "release", "append"},
               dir : Directories, entry : Entry, old : Addresses, file : Handles,
               cluster : Cluster \cup {0}, added : Cluster \cup {0}]

TypeOK ==
  /\ fat \in [Cluster -> FATEntry] /\ last_empty_cluster_found \in Nat
  /\ block \in [Cluster -> [Indices -> Entry]]
  /\ open \subseteq Handles /\ directories \subseteq Directories
  /\ pc \in Points /\ op \in Operations

Leads(a) == EntryAt(a).first

\* A cluster that is allocated and that no entry of the FAT leads to.
IsHead(c) == Unlinked(fat, c) /\ fat[c] # FAT32EntryFree

LinksAreSound ==
  /\ Injective(fat)
  /\ \A c \in Cluster : fat[c] \in Cluster /\ fat[fat[c]] = FAT32EntryFree
       => pc \in {"mark", "end_chain"} /\ fat[c] = op.added

TreeHasHeads ==
  /\ IsHead(RootDirectoryCluster)
  /\ \A a \in Tree : Leads(a) # 0 => IsHead(Leads(a)) /\ Leads(a) # RootDirectoryCluster
  /\ \A a \in Subdirectories : Leads(a) # 0
  /\ \A a, b \in Tree : Leads(a) = Leads(b) /\ Leads(a) # 0 /\ a # b
       => pc = "remove_old" /\ op.old \in {a, b}

\* The head of a chain that is not in the tree yet, or no longer.
HeldByOperation ==
  {c \in Cluster : \/ c = op.cluster /\ (pc = "release" \/ (op.kind = "mkdir" /\ pc # "mkdir"))
                   \/ c = op.added /\ pc = "publish"}

OperationHasHead ==
  \A c \in HeldByOperation :
    IsHead(c) /\ c # RootDirectoryCluster /\ \A a \in Tree : Leads(a) # c

MakesDirectory ==
  /\ op.kind = "mkdir" =>
       /\ pc \in {"mkdir", "create", "link", "mark", "undo_mkdir"}
       /\ op.dir = RootDirectory
       /\ op.entry.kind = "dir" /\ op.entry.first = op.cluster
       /\ op.cluster \in Cluster /\ fat[op.cluster] \notin Cluster
       /\ block[op.cluster] = EmptyCluster
  /\ pc = "mkdir" => op.kind = "mkdir" /\ fat[op.cluster] = FAT32EntryFree
  /\ pc = "undo_mkdir" => op.kind = "mkdir"

CreatesFile ==
  op.kind = "create" =>
    /\ pc \in {"create", "link", "mark"}
    /\ op.entry.kind = "file" /\ op.entry.first = 0
    /\ op.file.first = 0
    /\ \E case \in Cases : op.file.path = Path(op.dir, op.entry.name, case)

Renames ==
  /\ op.kind = "rename" =>
       /\ pc \in {"create", "link", "mark", "remove_old"}
       /\ op.old \in EntriesIn(op.dir.first)
       /\ EntryAt(op.old).kind = op.entry.kind /\ Leads(op.old) = op.entry.first
       /\ ~InUse(op.old)
  /\ pc = "remove_old" =>
       /\ op.kind = "rename" /\ op.dir \in directories
       /\ \E b \in EntriesIn(op.dir.first) : b # op.old /\ EntryAt(b) = op.entry

CreatesEntry ==
  /\ pc \in {"create", "link", "mark"} =>
       /\ op.kind \in {"create", "mkdir", "rename"} /\ op.dir \in directories
       /\ op.entry.kind \in {"file", "dir"}
  /\ pc \in {"link", "mark"} =>
       /\ op.added \in Cluster /\ fat[op.added] = FAT32EntryFree
       /\ block[op.added] = EmptyCluster

Appends ==
  /\ op.kind = "append" =>
       /\ pc \in {"allocate", "publish", "extend", "end_chain", "write"}
       /\ op.file \in open
  /\ pc \in {"allocate", "publish"} => op.kind = "append" /\ op.file.first = 0
  /\ pc = "publish" => op.added \in Cluster
  /\ pc \in {"extend", "end_chain", "write"} => op.kind = "append" /\ op.file.first # 0
  /\ pc = "end_chain" => op.added \in ChainClusters(op.file.first) /\ fat[op.added] = FAT32EntryFree

Releases ==
  /\ pc = "release" => op.kind = "release" /\ op.cluster \in Cluster
  /\ op.kind = "release" => pc = "release"

DirectoriesAreKnown ==
  /\ RootDirectory \in directories
  /\ \A d \in directories : d # RootDirectory =>
       d.address \in Subdirectories /\ EntryAt(d.address).first = d.first
                                    /\ EntryAt(d.address).name = d.name

\* The entry is in the directory of this name.
IsIn(a, name) ==
  \/ name = NoName /\ a \in EntriesIn(RootDirectoryCluster)
  \/ \E s \in Subdirectories : EntryAt(s).name = name /\ a \in EntriesIn(Leads(s))

FilesAreKnown ==
  /\ OpenFilesKeepTheirEntries
  /\ \A h \in open : h.path.case \in Cases /\ IsIn(h.address, h.path.dir)
  /\ \A g, h \in open : g.path = h.path => g = h

OperationIsSound ==
  /\ MakesDirectory /\ CreatesFile /\ Renames /\ CreatesEntry /\ Appends /\ Releases
  /\ pc = "idle" => op = NoOperation

TreeInv ==
  /\ TypeOK /\ LinksAreSound /\ TreeHasHeads /\ OperationHasHead /\ OperationIsSound
  /\ DirectoriesAreKnown /\ FilesAreKnown /\ NamesUnique

-----------------------------------------------------------------------------
(* Types.                                                                  *)

(* The constants of the model are of their types.                          *)
LEMMA OperationTypes ==
  /\ NoOperation \in Operations /\ RootDirectory \in Directories
  /\ EmptyCluster \in [Indices -> Entry] /\ DataCluster \in [Indices -> Entry]
  /\ NotAnEntry("unused") \in Entry /\ NoAddress \in Addresses /\ NoHandle \in Handles
<1>1. 0 \in Indices
  BY VolumeTreeAssumption DEF Indices
<1>2. RootDirectoryCluster \in Cluster
  BY NumberFacts
<1>3. NotAnEntry("unused") \in Entry /\ NotAnEntry("data") \in Entry
  BY DEF Entry, NotAnEntry
<1>4. NoAddress \in Addresses
  BY <1>1 DEF NoAddress, Addresses
<1>5. NoHandle \in Handles
  BY <1>4 DEF NoHandle, Handles, Paths
<1>6. RootDirectory \in Directories
  BY <1>2, <1>4 DEF RootDirectory, Directories
<1>7. NoOperation \in Operations
  BY <1>3, <1>4, <1>5, <1>6 DEF NoOperation, Operations
<1>8. EmptyCluster \in [Indices -> Entry] /\ DataCluster \in [Indices -> Entry]
  BY <1>3 DEF EmptyCluster, DataCluster
<1> QED
  BY <1>3, <1>4, <1>5, <1>6, <1>7, <1>8

(* One slot is written.                                                    *)
LEMMA SlotWritten ==
  ASSUME block \in [Cluster -> [Indices -> Entry]], NEW a \in Cluster \X Indices, NEW entry \in Entry,
         WriteSlot(a, entry)
  PROVE  /\ block' \in [Cluster -> [Indices -> Entry]]
         /\ EntryAt(a)' = entry
         /\ \A b \in Cluster \X Indices : b # a => EntryAt(b)' = EntryAt(b)
BY DEF WriteSlot, EntryAt

(* One entry of the FAT is written.                                        *)
LEMMA FATWritten ==
  ASSUME fat \in [Cluster -> FATEntry], NEW c \in Cluster, NEW value, UpdateFATTableEntry(c, value),
         value \in FATEntry
  PROVE  /\ fat' \in [Cluster -> FATEntry] /\ fat'[c] = value
         /\ \A d \in Cluster \ {c} : fat'[d] = fat[d]
BY DEF UpdateFATTableEntry

(* The cluster found is free.                                              *)
LEMMA ClusterFound ==
  ASSUME TypeOK, NEW starting_cluster, NEW c, FindNextEmptyCluster(starting_cluster, c)
  PROVE  c \in Cluster /\ fat[c] = FAT32EntryFree /\ last_empty_cluster_found' \in Nat
BY NumberFacts DEF TypeOK, FindNextEmptyCluster, EmptyClustersFrom

(* Where the slots of a directory are.                                     *)
LEMMA SlotFacts ==
  ASSUME NEW first
  PROVE  /\ SlotsOf(first) = ChainIn(fat, first) \X Indices
         /\ SlotsOf(first)' = ChainIn(fat', first) \X Indices
         /\ SlotsOf(first) \subseteq Cluster \X Indices
         /\ SlotsOf(first)' \subseteq Cluster \X Indices
BY ChainNow, ChainFacts DEF SlotsOf

(* A directory is a sequence of entries, and what is found in it is there. *)
LEMMA EntryFacts ==
  ASSUME TypeOK, NEW first
  PROVE  /\ \A a \in Cluster \X Indices : EntryAt(a) \in Entry
         /\ \A a \in EntriesIn(first) :
              a \in Cluster \X Indices /\ a \in Addresses /\ EntryAt(a) \in Entry
              /\ a[1] \in ChainIn(fat, first)
         /\ \A name : \A kind \in {"file", "dir"} : \A a \in FindDirectoryEntry(first, kind, name) :
              a \in EntriesIn(first) /\ EntryAt(a).kind = kind /\ EntryAt(a).name = name
<1>1. \A a \in Cluster \X Indices : EntryAt(a) \in Entry
  BY DEF TypeOK, EntryAt
<1>2. SlotsOf(first) \subseteq Cluster \X Indices
  BY SlotFacts
<1>3. \A a \in SlotsOf(first) : a[1] \in ChainIn(fat, first)
  BY SlotFacts
<1>4. EntriesIn(first) \subseteq SlotsOf(first)
  BY DEF EntriesIn
<1>5. Cluster \X Indices \subseteq Addresses
  BY DEF Addresses
<1>6. \A name : \A kind \in {"file", "dir"} : \A a \in FindDirectoryEntry(first, kind, name) :
        a \in EntriesIn(first) /\ EntryAt(a).kind = kind /\ EntryAt(a).name = name
  BY DEF FindDirectoryEntry, EntriesIn
<1> QED
  BY <1>1, <1>2, <1>3, <1>4, <1>5, <1>6

(* The beginning of an operation, and its end.                             *)
LEMMA BeginTypes ==
  ASSUME TypeOK
  PROVE  /\ Return => pc' \in Points /\ op' \in Operations
         /\ \A operation \in Operations, label \in Points :
              Begin(operation, label) => pc' \in Points /\ op' \in Operations
BY OperationTypes DEF Return, Begin, Points

(* The steps of CreateEntry keep the types.                                *)
LEMMA CreationTypes ==
  ASSUME TreeInv, \/ CreateEntryFails \/ CreateEntry \/ AddNewCluster \/ LinkNewCluster
                  \/ MarkNewCluster
  PROVE  TypeOK'
<1>0. TypeOK /\ op \in Operations
  BY DEF TreeInv, TypeOK
<1>1. CASE CreateEntryFails
  BY <1>0, <1>1, BeginTypes DEF CreateEntryFails, TypeOK, adapterVars, Points
<1>2. CASE CreateEntry
  <2>1. PICK a \in EmptyBlocksOfEntries(op.dir.first) :
          /\ WriteSlot(a, op.entry)
          /\ open' = IF op.kind = "create" /\ ~IsFileOpen(op.file.path)
                     THEN open \cup {[op.file EXCEPT !.address = a]} ELSE open
          /\ directories' = IF op.kind = "mkdir"
                            THEN directories \cup {[name |-> op.entry.name, address |-> a,
                                                    first |-> op.entry.first]}
                            ELSE directories
    BY <1>2 DEF CreateEntry
  <2>2. a \in Cluster \X Indices /\ a \in Addresses
    BY SlotFacts DEF EmptyBlocksOfEntries, Addresses
  <2>3. block' \in [Cluster -> [Indices -> Entry]]
    BY <1>0, <2>1, <2>2, SlotWritten DEF TypeOK, Operations
  <2>4. open' \subseteq Handles
    BY <1>0, <2>1, <2>2 DEF TypeOK, Operations, Handles
  <2>5. directories' \subseteq Directories
    BY <1>0, <2>1, <2>2 DEF TypeOK, Operations, Directories, Entry, TreeInv, OperationIsSound, MakesDirectory
  <2>6. pc' \in Points /\ op' \in Operations
    BY <1>0, <1>2, BeginTypes DEF CreateEntry, Points
  <2> QED
    BY <1>0, <1>2, <2>3, <2>4, <2>5, <2>6 DEF CreateEntry, TypeOK, adapterVars
<1>3. CASE AddNewCluster
  <2>1. PICK c \in Cluster : /\ FindNextEmptyCluster(0, c)
                             /\ block' = [block EXCEPT ![c] = EmptyCluster]
                             /\ op' = [op EXCEPT !.added = c]
    BY <1>3 DEF AddNewCluster
  <2>2. last_empty_cluster_found' \in Nat /\ op' \in Operations
    BY <1>0, <2>1, ClusterFound DEF Operations
  <2>3. block' \in [Cluster -> [Indices -> Entry]]
    BY <1>0, <2>1, OperationTypes DEF TypeOK
  <2> QED
    BY <1>0, <1>3, <2>2, <2>3 DEF AddNewCluster, TypeOK, Points
<1>4. CASE LinkNewCluster
  <2>1. PICK last \in Cluster : UpdateFATTableEntry(last, op.added)
    BY <1>4 DEF LinkNewCluster
  <2>2. op.added \in FATEntry
    BY <1>4, NumberFacts DEF LinkNewCluster, TreeInv, OperationIsSound, CreatesEntry
  <2>3. fat' \in [Cluster -> FATEntry]
    BY <1>0, <2>1, <2>2, FATWritten DEF TypeOK
  <2> QED
    BY <1>0, <1>4, <2>3 DEF LinkNewCluster, TypeOK, Points
<1>5. CASE MarkNewCluster
  <2>1. fat' \in [Cluster -> FATEntry]
    BY <1>0, <1>5, FATWritten, NumberFacts DEF TypeOK, MarkNewCluster, TreeInv, OperationIsSound, CreatesEntry
  <2> QED
    BY <1>0, <1>5, <2>1 DEF MarkNewCluster, TypeOK, Points
<1> QED
  BY <1>1, <1>2, <1>3, <1>4, <1>5

(* The entry goes, and perhaps its chain.                                  *)
LEMMA RemovalTypes ==
  ASSUME TypeOK, NEW first, NEW a \in EntriesIn(first), RemoveAndRelease(a), pc = "idle"
  PROVE  /\ block' \in [Cluster -> [Indices -> Entry]]
         /\ pc' \in Points /\ op' \in Operations
<1>1. a \in Cluster \X Indices /\ EntryAt(a) \in Entry
  BY EntryFacts
<1>2. block' \in [Cluster -> [Indices -> Entry]]
  BY <1>1, SlotWritten, OperationTypes DEF RemoveAndRelease, RemoveEntry, TypeOK
<1>3. [NoOperation EXCEPT !.kind = "release", !.cluster = EntryAt(a).first] \in Operations
  BY <1>1, OperationTypes DEF Operations, Entry
<1>4. pc' \in Points /\ op' \in Operations
  BY <1>3, BeginTypes DEF RemoveAndRelease, TypeOK, Points
<1> QED
  BY <1>2, <1>4

(* Opening, creating and deleting a file keep the types.                   *)
LEMMA FileTypes ==
  ASSUME TreeInv, NEW d \in directories, NEW name \in Names, NEW case \in Cases,
         OpenFile(d, name, case) \/ CreateFile(d, name, case) \/ DeleteFile(d, name, case)
  PROVE  TypeOK'
<1>0. TypeOK /\ op \in Operations /\ d \in Directories
  BY DEF TreeInv, TypeOK
<1>1. Path(d, name, case) \in Paths
  BY <1>0 DEF Paths, Path, Directories
<1>2. CASE OpenFile(d, name, case)
  <2>1. PICK a \in FindDirectoryEntry(d.first, "file", name) :
          open' = open \cup {Handle(Path(d, name, case), a, EntryAt(a).first)}
    BY <1>2 DEF OpenFile
  <2>2. a \in Addresses /\ EntryAt(a) \in Entry
    BY <1>0, EntryFacts
  <2>3. Handle(Path(d, name, case), a, EntryAt(a).first) \in Handles
    BY <1>1, <2>2 DEF Handle, Handles, Entry
  <2> QED
    BY <1>0, <1>2, <2>1, <2>3 DEF OpenFile, TypeOK, adapterVars
<1>3. CASE CreateFile(d, name, case)
  <2>1. Handle(Path(d, name, case), NoAddress, 0) \in Handles
    BY <1>1, OperationTypes DEF Handle, Handles
  <2>2. [kind |-> "file", name |-> name, first |-> 0] \in Entry
    BY DEF Entry
  <2>3. [NoOperation EXCEPT !.kind = "create", !.dir = d,
              !.entry = [kind |-> "file", name |-> name, first |-> 0],
              !.file = Handle(Path(d, name, case), NoAddress, 0)] \in Operations
    BY <1>0, <2>1, <2>2, OperationTypes DEF Operations
  <2> QED
    BY <1>0, <1>3, <2>3, BeginTypes DEF CreateFile, TypeOK, adapterVars, Points
<1>4. CASE DeleteFile(d, name, case)
  <2>1. PICK a \in FindDirectoryEntry(d.first, "file", name) : RemoveAndRelease(a)
    BY <1>4 DEF DeleteFile
  <2>2. a \in EntriesIn(d.first)
    BY <1>0, EntryFacts
  <2>3. /\ block' \in [Cluster -> [Indices -> Entry]]
        /\ pc' \in Points /\ op' \in Operations
    BY <1>0, <1>4, <2>1, <2>2, RemovalTypes DEF DeleteFile
  <2> QED
    BY <1>0, <1>4, <2>3 DEF DeleteFile, TypeOK, adapterVars
<1> QED
  BY <1>2, <1>3, <1>4

(* Closing a file and the steps of an append keep the types.               *)
LEMMA AppendTypes ==
  ASSUME TreeInv, \/ \E h \in open : CloseFile(h) \/ AppendCall(h)
                  \/ AppendFails \/ AllocateFirstCluster \/ SetDirectoryEntryFirstCluster
                  \/ ExtendChain \/ EndChain \/ WriteCluster
  PROVE  TypeOK'
<1>0. /\ TypeOK /\ op \in Operations /\ op.file \in Handles /\ op.added \in Cluster \cup {0}
      /\ open \subseteq Handles
  BY DEF TreeInv, TypeOK, Operations
<1>1. ASSUME NEW h \in open, CloseFile(h) PROVE TypeOK'
  BY <1>0, <1>1 DEF CloseFile, TypeOK, adapterVars
<1>2. ASSUME NEW h \in open, AppendCall(h) PROVE TypeOK'
  <2>1. [NoOperation EXCEPT !.kind = "append", !.file = h] \in Operations
    BY <1>0, OperationTypes DEF Operations
  <2> QED
    BY <1>0, <1>2, <2>1, BeginTypes DEF AppendCall, TypeOK, adapterVars, Points
<1>3. CASE AppendFails
  BY <1>0, <1>3, BeginTypes DEF AppendFails, TypeOK, adapterVars
<1>4. CASE AllocateFirstCluster
  <2>1. PICK c \in Cluster :
          /\ FindNextEmptyCluster(0, c)
          /\ UpdateFATTableEntry(c, FAT32EntryAllocatedAndEndOfFile)
          /\ op' = [op EXCEPT !.added = c]
    BY <1>4 DEF AllocateFirstCluster
  <2>2. last_empty_cluster_found' \in Nat /\ op' \in Operations
    BY <1>0, <2>1, ClusterFound DEF Operations
  <2>3. fat' \in [Cluster -> FATEntry]
    BY <1>0, <2>1, FATWritten, NumberFacts DEF TypeOK
  <2> QED
    BY <1>0, <1>4, <2>2, <2>3 DEF AllocateFirstCluster, TypeOK, Points
<1>5. ASSUME NEW c \in Cluster, MoveTo(c)
      PROVE  open' \subseteq Handles /\ op' \in Operations
  <2>1. [op.file EXCEPT !.current = c, !.first = IF @ = 0 THEN c ELSE @] \in Handles
    BY <1>0 DEF Handles
  <2> QED
    BY <1>0, <1>5, <2>1 DEF MoveTo, Operations
<1>6. CASE SetDirectoryEntryFirstCluster
  <2>1. op.added \in Cluster /\ op.file \in open
    BY <1>6 DEF SetDirectoryEntryFirstCluster, TreeInv, OperationIsSound, Appends
  <2>2. op.file.address \in Tree
    BY <2>1 DEF TreeInv, FilesAreKnown, OpenFilesKeepTheirEntries
  <2>3. op.file.address \in Cluster \X Indices /\ EntryAt(op.file.address) \in Entry
    BY <1>0, <2>2, EntryFacts DEF Tree
  <2>4. [EntryAt(op.file.address) EXCEPT !.first = op.added] \in Entry
    BY <2>1, <2>3 DEF Entry
  <2>5. block' \in [Cluster -> [Indices -> Entry]]
    BY <1>0, <1>6, <2>3, <2>4, SlotWritten DEF SetDirectoryEntryFirstCluster, TypeOK
  <2>6. open' \subseteq Handles /\ op' \in Operations
    BY <1>5, <1>6, <2>1 DEF SetDirectoryEntryFirstCluster
  <2> QED
    BY <1>0, <1>6, <2>5, <2>6 DEF SetDirectoryEntryFirstCluster, TypeOK, adapterVars, Points
<1>7. CASE ExtendChain
  <2>1. PICK last \in Cluster, c \in Cluster :
          /\ FindNextEmptyCluster(last + 1, c)
          /\ UpdateFATTableEntry(last, c)
          /\ op' = [op EXCEPT !.added = c]
    BY <1>7 DEF ExtendChain
  <2>2. last_empty_cluster_found' \in Nat /\ op' \in Operations
    BY <1>0, <2>1, ClusterFound DEF Operations
  <2>3. fat' \in [Cluster -> FATEntry]
    BY <1>0, <2>1, FATWritten, NumberFacts DEF TypeOK
  <2> QED
    BY <1>0, <1>7, <2>2, <2>3 DEF ExtendChain, TypeOK, Points
<1>8. CASE EndChain
  <2>1. op.added \in Cluster
    BY <1>8, ChainNow, ChainFacts DEF EndChain, TreeInv, OperationIsSound, Appends
  <2>2. fat' \in [Cluster -> FATEntry]
    BY <1>0, <1>8, <2>1, FATWritten, NumberFacts DEF EndChain, TypeOK
  <2>3. open' \subseteq Handles /\ op' \in Operations
    BY <1>5, <1>8, <2>1 DEF EndChain
  <2> QED
    BY <1>0, <1>8, <2>2, <2>3 DEF EndChain, TypeOK, Points
<1>9. CASE WriteCluster
  <2>1. block' \in [Cluster -> [Indices -> Entry]]
    BY <1>0, <1>9, OperationTypes DEF WriteCluster, TypeOK
  <2> QED
    BY <1>0, <1>9, <2>1, BeginTypes DEF WriteCluster, TypeOK, adapterVars
<1> QED
  BY <1>1, <1>2, <1>3, <1>4, <1>6, <1>7, <1>8, <1>9

(* The operations on directories keep the types.                           *)
LEMMA DirectoryTypes ==
  ASSUME TreeInv,
         \/ \E name \in Names : GetDirectory(name) \/ CreateDirectory(name)
         \/ \E d \in directories : ForgetDirectory(d) \/ RemoveDirectory(d)
         \/ \E d \in directories, kind \in {"file", "dir"}, name, new_name \in Names :
              RenameEntry(d, kind, name, new_name)
         \/ ReleaseCluster \/ MarkDirectoryCluster \/ FreeDirectoryCluster \/ RemoveOldEntry
  PROVE  TypeOK'
<1>0. TypeOK /\ op \in Operations /\ directories \subseteq Directories
  BY DEF TreeInv, TypeOK
<1>1. ASSUME NEW name \in Names, GetDirectory(name) PROVE TypeOK'
  <2>1. PICK a \in FindDirectoryEntry(RootDirectoryCluster, "dir", name) :
          directories' = directories \cup {[name |-> name, address |-> a, first |-> EntryAt(a).first]}
    BY <1>1 DEF GetDirectory
  <2>2. a \in Subdirectories /\ a \in Addresses /\ EntryAt(a) \in Entry
    BY <1>0, EntryFacts DEF Subdirectories
  <2>3. EntryAt(a).first \in Cluster
    BY <2>2 DEF TreeInv, TreeHasHeads, Leads, Entry
  <2>4. directories' \subseteq Directories
    BY <1>0, <2>1, <2>2, <2>3 DEF Directories
  <2> QED
    BY <1>0, <1>1, <2>4 DEF GetDirectory, TypeOK, adapterVars
<1>2. ASSUME NEW name \in Names, CreateDirectory(name) PROVE TypeOK'
  <2>1. PICK c \in Cluster :
          /\ FindNextEmptyCluster(0, c)
          /\ block' = [block EXCEPT ![c] = EmptyCluster]
          /\ Begin([NoOperation EXCEPT !.kind = "mkdir", !.cluster = c,
                      !.entry = [kind |-> "dir", name |-> name, first |-> c]], "mkdir")
    BY <1>2 DEF CreateDirectory
  <2>2. [NoOperation EXCEPT !.kind = "mkdir", !.cluster = c,
           !.entry = [kind |-> "dir", name |-> name, first |-> c]] \in Operations
    BY OperationTypes DEF Operations, Entry
  <2>3. pc' \in Points /\ op' \in Operations
    BY <1>0, <2>1, <2>2, BeginTypes DEF Points
  <2>4. block' \in [Cluster -> [Indices -> Entry]] /\ last_empty_cluster_found' \in Nat
    BY <1>0, <2>1, OperationTypes, ClusterFound DEF TypeOK
  <2> QED
    BY <1>0, <1>2, <2>3, <2>4 DEF CreateDirectory, TypeOK
<1>3. ASSUME NEW d \in directories, ForgetDirectory(d) PROVE TypeOK'
  BY <1>0, <1>3 DEF ForgetDirectory, TypeOK, adapterVars
<1>4. ASSUME NEW d \in directories, RemoveDirectory(d) PROVE TypeOK'
  <2>1. d.address \in EntriesIn(RootDirectoryCluster)
    BY <1>4 DEF RemoveDirectory, TreeInv, DirectoriesAreKnown, Subdirectories
  <2>2. /\ block' \in [Cluster -> [Indices -> Entry]]
        /\ pc' \in Points /\ op' \in Operations
    BY <1>0, <1>4, <2>1, RemovalTypes DEF RemoveDirectory
  <2> QED
    BY <1>0, <1>4, <2>2 DEF RemoveDirectory, TypeOK, adapterVars
<1>5. ASSUME NEW d \in directories, NEW kind \in {"file", "dir"}, NEW name \in Names,
             NEW new_name \in Names, RenameEntry(d, kind, name, new_name)
      PROVE  TypeOK'
  <2>1. PICK a \in FindDirectoryEntry(d.first, kind, name) :
          Begin([NoOperation EXCEPT !.kind = "rename", !.dir = d, !.old = a,
                   !.entry = [EntryAt(a) EXCEPT !.name = new_name]], "create")
    BY <1>5 DEF RenameEntry
  <2>2. a \in Addresses /\ EntryAt(a) \in Entry
    BY <1>0, EntryFacts
  <2>3. [EntryAt(a) EXCEPT !.name = new_name] \in Entry
    BY <2>2 DEF Entry
  <2>4. [NoOperation EXCEPT !.kind = "rename", !.dir = d, !.old = a,
           !.entry = [EntryAt(a) EXCEPT !.name = new_name]] \in Operations
    BY <1>0, <2>2, <2>3, OperationTypes DEF Operations
  <2> QED
    BY <1>0, <1>5, <2>1, <2>4, BeginTypes DEF RenameEntry, TypeOK, adapterVars, Points
<1>6. CASE ReleaseCluster
  <2>1. fat' \in [Cluster -> FATEntry]
    BY <1>0, <1>6, FATWritten, NumberFacts DEF ReleaseCluster, TypeOK, TreeInv, OperationIsSound, Releases
  <2>2. pc' \in Points /\ op' \in Operations
    BY <1>0, <1>6, BeginTypes DEF ReleaseCluster, TypeOK, Operations
  <2> QED
    BY <1>0, <1>6, <2>1, <2>2 DEF ReleaseCluster, TypeOK
<1>7. CASE MarkDirectoryCluster
  <2>1. fat' \in [Cluster -> FATEntry]
    BY <1>0, <1>7, FATWritten, NumberFacts
       DEF MarkDirectoryCluster, TypeOK, TreeInv, OperationIsSound, MakesDirectory
  <2> QED
    BY <1>0, <1>7, <2>1 DEF MarkDirectoryCluster, TypeOK, Points
<1>8. CASE FreeDirectoryCluster
  <2>1. fat' \in [Cluster -> FATEntry]
    BY <1>0, <1>8, FATWritten, NumberFacts
       DEF FreeDirectoryCluster, TypeOK, TreeInv, OperationIsSound, MakesDirectory
  <2> QED
    BY <1>0, <1>8, <2>1, BeginTypes DEF FreeDirectoryCluster, TypeOK
<1>9. CASE RemoveOldEntry
  <2>1. op.old \in EntriesIn(op.dir.first)
    BY <1>9 DEF RemoveOldEntry, TreeInv, OperationIsSound, Renames
  <2>2. op.old \in Cluster \X Indices
    BY <1>0, <2>1, EntryFacts
  <2>3. block' \in [Cluster -> [Indices -> Entry]]
    BY <1>0, <1>9, <2>2, SlotWritten, OperationTypes DEF RemoveOldEntry, RemoveEntry, TypeOK
  <2> QED
    BY <1>0, <1>9, <2>3, BeginTypes DEF RemoveOldEntry, TypeOK, adapterVars
<1> QED
  BY <1>1, <1>2, <1>3, <1>4, <1>5, <1>6, <1>7, <1>8, <1>9

(* Every step keeps the types.                                             *)
LEMMA TypesKeep ==
  ASSUME TreeInv, [Next]_volumeVars
  PROVE  TypeOK'
<1>0. TypeOK
  BY DEF TreeInv
<1>1. CASE PowerLoss
  BY <1>0, <1>1, BeginTypes, OperationTypes DEF PowerLoss, TypeOK
<1>2. CASE UNCHANGED volumeVars
  BY <1>0, <1>2 DEF volumeVars, adapterVars, TypeOK
<1>3. CASE BeginOperation
  BY <1>3, FileTypes, AppendTypes, DirectoryTypes DEF BeginOperation
<1>4. CASE Continue
  BY <1>4, CreationTypes, AppendTypes, DirectoryTypes DEF Continue
<1> QED
  BY <1>1, <1>2, <1>3, <1>4 DEF Next

-----------------------------------------------------------------------------
(* The tree: what its directories hold.                                    *)

Folders == {RootDirectoryCluster} \cup {Leads(a) : a \in Subdirectories}

(* The tree is what its folders hold, before a step and after it.          *)
LEMMA TreeByFolder ==
  /\ \A a : a \in Tree <=> \E d \in Folders : a \in EntriesIn(d)
  /\ \A a : a \in Tree' <=> \E d \in Folders' : a \in EntriesIn(d)'
  /\ Subdirectories \subseteq Tree /\ Subdirectories' \subseteq Tree'
  /\ RootDirectoryCluster \in Folders /\ RootDirectoryCluster \in Folders'
<1>1. \A a : a \in Tree <=> \E d \in Folders : a \in EntriesIn(d)
  BY DEF Tree, Folders, Leads
<1>2. \A a : a \in Tree' <=> \E d \in Folders' : a \in EntriesIn(d)'
  BY DEF Tree, Folders, Leads
<1>3. Subdirectories \subseteq Tree /\ Subdirectories' \subseteq Tree'
  BY DEF Tree, Subdirectories
<1> QED
  BY <1>1, <1>2, <1>3 DEF Folders

(* An entry is in the chain of its directory, in a slot in use.            *)
LEMMA EntryPlace ==
  /\ \A d, a : a \in EntriesIn(d) <=> /\ a \in ChainIn(fat, d) \X Indices
                                      /\ block[a[1]][a[2]].kind \in {"file", "dir"}
  /\ \A d, a : a \in EntriesIn(d)' <=> /\ a \in ChainIn(fat', d) \X Indices
                                       /\ block'[a[1]][a[2]].kind \in {"file", "dir"}
<1>1. ASSUME NEW d, NEW a
      PROVE  a \in EntriesIn(d) <=> /\ a \in ChainIn(fat, d) \X Indices
                                    /\ block[a[1]][a[2]].kind \in {"file", "dir"}
  BY SlotFacts DEF EntriesIn, EntryAt
<1>2. ASSUME NEW d, NEW a
      PROVE  a \in EntriesIn(d)' <=> /\ a \in ChainIn(fat', d) \X Indices
                                     /\ block'[a[1]][a[2]].kind \in {"file", "dir"}
  BY SlotFacts DEF EntriesIn, EntryAt
<1> QED
  BY <1>1, <1>2

(* Two heads have nothing in common, and directories and entries lead to   *)
(* heads.                                                                  *)
LEMMA HeadFacts ==
  ASSUME TreeInv
  PROVE  /\ \A g, h : IsHead(g) /\ IsHead(h) /\ g # h => ChainIn(fat, g) \cap ChainIn(fat, h) = {}
         /\ \A d \in Folders : IsHead(d) /\ d # 0
         /\ \A a \in Tree : a \in Cluster \X Indices /\ EntryAt(a) \in Entry
         /\ \A a \in Tree : EntryAt(a).kind \in {"file", "dir"}
         /\ \A a \in Tree : Leads(a) # 0 => IsHead(Leads(a)) /\ Leads(a) # RootDirectoryCluster
<1>0. TypeOK /\ TreeHasHeads /\ Injective(fat)
  BY DEF TreeInv, LinksAreSound
<1>1. \A g, h : IsHead(g) /\ IsHead(h) /\ g # h => ChainIn(fat, g) \cap ChainIn(fat, h) = {}
  BY <1>0, ChainsApart DEF IsHead
<1>2. \A d \in Folders : IsHead(d)
  BY <1>0, TreeByFolder DEF TreeHasHeads, Folders
<1>3. \A d \in Folders : d # 0
  BY <1>2, NumberFacts DEF IsHead, Unlinked
<1>4. ASSUME NEW a \in Tree PROVE a \in Cluster \X Indices /\ EntryAt(a) \in Entry
  <2>1. PICK d \in Folders : a \in EntriesIn(d)
    BY TreeByFolder
  <2> QED
    BY <1>0, <2>1, EntryFacts
<1>5. \A a \in Tree : EntryAt(a).kind \in {"file", "dir"}
  BY TreeByFolder DEF EntriesIn
<1> QED
  BY <1>0, <1>1, <1>2, <1>3, <1>4, <1>5 DEF TreeHasHeads

(* What a chain of a head holds is allocated, but for the cluster that is  *)
(* marked next; a cluster that is free is in no chain before it is linked. *)
LEMMA ChainAllocated ==
  ASSUME TreeInv, NEW h, IsHead(h), NEW c \in ChainIn(fat, h), fat[c] = FAT32EntryFree
  PROVE  pc \in {"mark", "end_chain"} /\ c = op.added
<1>1. c # h
  BY DEF IsHead
<1>2. PICK d \in ChainIn(fat, h) : fat[d] = c
  BY <1>1, ChainMember
<1>3. d \in Cluster /\ c \in Cluster
  BY <1>2, ChainFacts
<1> QED
  BY <1>2, <1>3 DEF TreeInv, LinksAreSound

(* A free cluster is in no chain, and nothing leads to it.                 *)
LEMMA FreeIsUnlinked ==
  ASSUME TreeInv, pc \notin {"mark", "end_chain"}, NEW c \in Cluster, fat[c] = FAT32EntryFree
  PROVE  /\ Unlinked(fat, c) /\ \A h : IsHead(h) => c \notin ChainIn(fat, h)
<1>1. Unlinked(fat, c)
  BY DEF TreeInv, LinksAreSound, Unlinked
<1> QED
  BY <1>1, ChainAllocated

\* The tree is the same after a step.
TreeStays ==
  /\ Folders' = Folders /\ Subdirectories' = Subdirectories /\ Tree' = Tree
  /\ \A d \in Folders : EntriesIn(d)' = EntriesIn(d)
  /\ \A a \in Tree : EntryAt(a)' = EntryAt(a)

(* It is when directories become longer by empty clusters at most.         *)
LEMMA TreeSame ==
  ASSUME \A d \in Folders : ChainIn(fat, d) \subseteq ChainIn(fat', d),
         \A d \in Folders : \A c \in ChainIn(fat, d) : block'[c] = block[c],
         \A d \in Folders : \A c \in ChainIn(fat', d) \ ChainIn(fat, d) : block'[c] = EmptyCluster
  PROVE  TreeStays
<1>1. ASSUME NEW d \in Folders PROVE EntriesIn(d)' = EntriesIn(d)
  <2>1. ASSUME NEW a \in EntriesIn(d) PROVE a \in EntriesIn(d)'
    <3>1. a \in ChainIn(fat, d) \X Indices /\ block[a[1]][a[2]].kind \in {"file", "dir"}
      BY EntryPlace
    <3>2. block'[a[1]][a[2]] = block[a[1]][a[2]]
      BY <3>1
    <3> QED
      BY <3>1, <3>2, EntryPlace
  <2>2. ASSUME NEW a \in EntriesIn(d)' PROVE a \in EntriesIn(d)
    <3>1. a \in ChainIn(fat', d) \X Indices /\ block'[a[1]][a[2]].kind \in {"file", "dir"}
      BY EntryPlace
    <3>2. a[1] \in ChainIn(fat, d)
      <4>1. EmptyCluster[a[2]].kind = "unused"
        BY <3>1 DEF EmptyCluster, NotAnEntry
      <4> QED
        BY <3>1, <4>1
    <3>3. block'[a[1]][a[2]] = block[a[1]][a[2]]
      BY <3>2
    <3> QED
      BY <3>1, <3>2, <3>3, EntryPlace
  <2> QED
    BY <2>1, <2>2
<1>2. ASSUME NEW a \in Tree PROVE EntryAt(a)' = EntryAt(a)
  <2>1. PICK d \in Folders : a \in EntriesIn(d)
    BY TreeByFolder
  <2>2. a[1] \in ChainIn(fat, d)
    BY <2>1, EntryPlace
  <2> QED
    BY <2>2 DEF EntryAt
<1>3. Subdirectories' = Subdirectories
  <2>1. EntriesIn(RootDirectoryCluster)' = EntriesIn(RootDirectoryCluster)
    BY <1>1, TreeByFolder
  <2>2. \A a \in EntriesIn(RootDirectoryCluster) : EntryAt(a)' = EntryAt(a)
    BY <1>2, TreeByFolder
  <2> QED
    BY <2>1, <2>2 DEF Subdirectories
<1>4. Folders' = Folders
  BY <1>2, <1>3, TreeByFolder DEF Folders, Leads
<1>5. Tree' = Tree
  BY <1>1, <1>4, TreeByFolder
<1> QED
  BY <1>1, <1>2, <1>3, <1>4, <1>5 DEF TreeStays

-----------------------------------------------------------------------------
(* Parts of the invariant that a step leaves alone.                        *)

TreeFirsts == ({RootDirectoryCluster} \cup {Leads(a) : a \in Tree}) \ {0}

(* What the folders and the entries of the tree begin with are heads.      *)
LEMMA FirstFacts ==
  ASSUME TreeInv
  PROVE  /\ Folders \subseteq TreeFirsts
         /\ \A h \in TreeFirsts : IsHead(h) /\ h \in Cluster
         /\ \A a \in Tree : Leads(a) # 0 => Leads(a) \in TreeFirsts
<1>1. Folders \subseteq TreeFirsts
  BY HeadFacts, TreeByFolder DEF Folders, TreeFirsts
<1>2. \A h \in TreeFirsts : IsHead(h)
  BY HeadFacts, TreeByFolder DEF TreeFirsts
<1> QED
  BY <1>1, <1>2 DEF TreeFirsts, IsHead, Unlinked

(* Names are unique when they are so in every folder.                      *)
LEMMA NamesByFolder ==
  /\ NamesUnique <=> \A d \in Folders : \A a, b \in EntriesIn(d) :
       EntryAt(a).kind = EntryAt(b).kind /\ EntryAt(a).name = EntryAt(b).name => a = b
  /\ NamesUnique' <=> \A d \in Folders' : \A a, b \in EntriesIn(d)' :
       EntryAt(a)'.kind = EntryAt(b)'.kind /\ EntryAt(a)'.name = EntryAt(b)'.name => a = b
<1>1. NamesUnique <=> \A d \in Folders : \A a, b \in EntriesIn(d) :
        EntryAt(a).kind = EntryAt(b).kind /\ EntryAt(a).name = EntryAt(b).name => a = b
  BY DEF NamesUnique, Folders, Leads
<1>2. NamesUnique' <=> \A d \in Folders' : \A a, b \in EntriesIn(d)' :
        EntryAt(a)'.kind = EntryAt(b)'.kind /\ EntryAt(a)'.name = EntryAt(b)'.name => a = b
  BY DEF NamesUnique, Folders, Leads
<1> QED
  BY <1>1, <1>2

(* The tree is the same, and its heads are heads.                          *)
LEMMA TreeKeeps ==
  ASSUME TreeInv, TreeStays, pc # "remove_old",
         directories' \subseteq directories, RootDirectory \in directories',
         \A h \in TreeFirsts : IsHead(h)'
  PROVE  TreeHasHeads' /\ DirectoriesAreKnown' /\ NamesUnique'
<1>1. /\ Folders' = Folders /\ Subdirectories' = Subdirectories /\ Tree' = Tree
      /\ \A d \in Folders : EntriesIn(d)' = EntriesIn(d)
      /\ \A a \in Tree : EntryAt(a)' = EntryAt(a)
  BY DEF TreeStays
<1>2. \A d \in Folders : EntriesIn(d) \subseteq Tree
  BY TreeByFolder
<1>3. NamesUnique'
  BY <1>1, <1>2, NamesByFolder DEF TreeInv
<1>4. \A a \in Tree : Leads(a)' = Leads(a)
  BY <1>1 DEF Leads
<1>5. DirectoriesAreKnown'
  BY <1>1, TreeByFolder DEF TreeInv, DirectoriesAreKnown
<1>6. IsHead(RootDirectoryCluster)'
  BY NumberFacts DEF TreeFirsts
<1>7. ASSUME NEW a \in Tree, Leads(a)' # 0 PROVE IsHead(Leads(a))' /\ Leads(a)' # RootDirectoryCluster
  <2>1. PICK h \in TreeFirsts : h = Leads(a)
    BY <1>4, <1>7, FirstFacts
  <2>2. IsHead(h)' /\ h = Leads(a)'
    BY <1>4, <2>1
  <2>3. IsHead(Leads(a))'
    BY <2>2 DEF IsHead
  <2> QED
    BY <1>4, <1>7, <2>3, HeadFacts
<1>8. \A a \in Subdirectories : Leads(a)' # 0
  BY <1>4, TreeByFolder DEF TreeInv, TreeHasHeads
<1>9. \A a, b \in Tree : Leads(a)' = Leads(b)' /\ Leads(a)' # 0 => a = b
  BY <1>4 DEF TreeInv, TreeHasHeads
<1>10. TreeHasHeads'
  BY <1>1, <1>6, <1>7, <1>8, <1>9 DEF TreeHasHeads
<1> QED
  BY <1>3, <1>5, <1>10

\* What is known of one open file.
HandleKnown(h) ==
  /\ h.address \in Tree
  /\ EntryAt(h.address) = [kind |-> "file", name |-> h.path.name, first |-> h.first]
  /\ h.first # 0 => h.current \in ChainIn(fat, h.first)
  /\ h.path.case \in Cases /\ IsIn(h.address, h.path.dir)

PathsDiffer == \A g, h \in open : g.path = h.path => g = h

(* Files are known when each is, and no two have one path.                 *)
LEMMA FilesByHandle ==
  /\ FilesAreKnown <=> (\A h \in open : HandleKnown(h)) /\ PathsDiffer
  /\ FilesAreKnown' <=> (\A h \in open' : HandleKnown(h)') /\ PathsDiffer'
<1>1. \A h \in open : (h.first # 0 => h.current \in ChainClusters(h.first))
                      <=> (h.first # 0 => h.current \in ChainIn(fat, h.first))
  BY ChainNow
<1>2. \A h \in open' : (h.first # 0 => h.current \in ChainClusters(h.first)')
                       <=> (h.first # 0 => h.current \in ChainIn(fat', h.first))
  BY ChainNow
<1>3. FilesAreKnown <=> (\A h \in open : HandleKnown(h)) /\ PathsDiffer
  BY <1>1 DEF FilesAreKnown, OpenFilesKeepTheirEntries, HandleKnown, PathsDiffer
<1>4. FilesAreKnown' <=> (\A h \in open' : HandleKnown(h)') /\ PathsDiffer'
  BY <1>2 DEF FilesAreKnown, OpenFilesKeepTheirEntries, HandleKnown, PathsDiffer
<1> QED
  BY <1>3, <1>4

(* The directory that holds an entry holds it still.                       *)
LEMMA PlacesKeep ==
  ASSUME TreeStays
  PROVE  \A a, name : IsIn(a, name) => IsIn(a, name)'
<1>1. /\ Subdirectories' = Subdirectories
      /\ \A d \in Folders : EntriesIn(d)' = EntriesIn(d)
      /\ \A a \in Tree : EntryAt(a)' = EntryAt(a)
  BY DEF TreeStays
<1>2. ASSUME NEW s \in Subdirectories
      PROVE  EntryAt(s)' = EntryAt(s) /\ EntriesIn(Leads(s))' = EntriesIn(Leads(s))
  <2>1. EntryAt(s)' = EntryAt(s) /\ Leads(s)' = Leads(s)
    BY <1>1, TreeByFolder DEF Leads
  <2>2. PICK d \in Folders : d = Leads(s)
    BY DEF Folders
  <2>3. EntriesIn(d)' = EntriesIn(d)
    BY <1>1
  <2> QED
    BY <2>1, <2>2, <2>3
<1>3. EntriesIn(RootDirectoryCluster)' = EntriesIn(RootDirectoryCluster)
  BY <1>1, TreeByFolder
<1> QED
  BY <1>1, <1>2, <1>3 DEF IsIn

(* A file that is open is known as before when its chain became no shorter.*)
LEMMA HandleKeeps ==
  ASSUME TreeInv, TreeStays, NEW h, HandleKnown(h),
         \A x \in TreeFirsts : ChainIn(fat, x) \subseteq ChainIn(fat', x)
  PROVE  HandleKnown(h)'
<1>1. Tree' = Tree /\ \A a \in Tree : EntryAt(a)' = EntryAt(a)
  BY DEF TreeStays
<1>2. PICK a : a = h.address
  OBVIOUS
<1>3. a \in Tree /\ EntryAt(a) = [kind |-> "file", name |-> h.path.name, first |-> h.first]
  BY <1>2 DEF HandleKnown
<1>4. h.first # 0 => h.current \in ChainIn(fat, h.first) /\ h.first \in TreeFirsts
  BY <1>3, FirstFacts DEF HandleKnown, Leads
<1>5. h.first # 0 => h.current \in ChainIn(fat', h.first)
  BY <1>4
<1>6. IsIn(h.address, h.path.dir)' /\ h.path.case \in Cases
  BY PlacesKeep DEF HandleKnown
<1> QED
  BY <1>1, <1>2, <1>3, <1>5, <1>6 DEF HandleKnown

(* So it is of all when no file is opened.                                 *)
LEMMA FilesKeep ==
  ASSUME TreeInv, TreeStays, open' \subseteq open,
         \A h \in TreeFirsts : ChainIn(fat, h) \subseteq ChainIn(fat', h)
  PROVE  FilesAreKnown'
<1>1. (\A h \in open : HandleKnown(h)) /\ PathsDiffer
  BY FilesByHandle DEF TreeInv
<1>2. \A h \in open' : HandleKnown(h)'
  BY <1>1, HandleKeeps
<1>3. PathsDiffer'
  BY <1>1 DEF PathsDiffer
<1> QED
  BY <1>2, <1>3, FilesByHandle

(* A file moves to a cluster of its chain: its object changes in place.    *)
LEMMA MovesKeep ==
  ASSUME TreeInv, TreeStays, NEW h \in open, NEW c, NEW moved,
         open' = (open \ {h}) \cup {moved},
         moved.path = h.path, moved.address = h.address, moved.first = h.first, moved.current = c,
         c \in ChainIn(fat, h.first),
         \A x \in TreeFirsts : ChainIn(fat, x) \subseteq ChainIn(fat', x)
  PROVE  FilesAreKnown'
<1>1. (\A g \in open : HandleKnown(g)) /\ PathsDiffer
  BY FilesByHandle DEF TreeInv
<1>2. HandleKnown(moved)
  BY <1>1 DEF HandleKnown
<1>3. \A g \in open' : HandleKnown(g)'
  BY <1>1, <1>2, HandleKeeps
<1>4. PathsDiffer'
  BY <1>1 DEF PathsDiffer
<1> QED
  BY <1>3, <1>4, FilesByHandle

(* Between operations nothing is held.                                     *)
LEMMA NothingHeld ==
  ASSUME Return
  PROVE  OperationHasHead' /\ OperationIsSound'
<1>1. op'.kind = "none" /\ pc' = "idle" /\ op' = NoOperation
  BY DEF Return, NoOperation
<1>2. OperationHasHead'
  BY <1>1 DEF OperationHasHead, HeldByOperation
<1>3. OperationIsSound'
  BY <1>1 DEF OperationIsSound, MakesDirectory, CreatesFile, Renames, CreatesEntry, Appends, Releases
<1> QED
  BY <1>2, <1>3

-----------------------------------------------------------------------------
(* Parts of the invariant that a change of one entry of the FAT leaves.    *)

FATChanges(c, value) ==
  /\ c \in Cluster /\ fat \in [Cluster -> FATEntry] /\ fat' \in [Cluster -> FATEntry]
  /\ fat'[c] = value
  /\ \A d \in Cluster \ {c} : fat'[d] = fat[d]

\* No chain of a head becomes shorter.
ChainsGrow == \A h : IsHead(h) => ChainIn(fat, h) \subseteq ChainIn(fat', h)

(* A free cluster is marked as the end of a chain.                         *)
LEMMA Marked ==
  ASSUME NEW c, FATChanges(c, FAT32EntryAllocatedAndEndOfFile), fat[c] = FAT32EntryFree
  PROVE  /\ \A first : ChainIn(fat', first) = ChainIn(fat, first)
         /\ \A h : IsHead(h) => IsHead(h)'
         /\ Unlinked(fat, c) => IsHead(c)'
         /\ Injective(fat) => Injective(fat')
         /\ \A d \in Cluster : fat'[d] \in Cluster /\ fat'[fat'[d]] = FAT32EntryFree
              => fat[d] = fat'[d] /\ fat[fat[d]] = FAT32EntryFree /\ fat[d] # c
<1>1. /\ fat'[c] \notin Cluster /\ fat[c] \notin Cluster /\ fat'[c] # FAT32EntryFree
      /\ c \in Cluster /\ \A d \in Cluster \ {c} : fat'[d] = fat[d]
  BY NumberFacts DEF FATChanges
<1>2. SameLinks(fat, fat', Cluster)
  BY <1>1 DEF SameLinks
<1>3. ASSUME NEW first PROVE ChainIn(fat', first) = ChainIn(fat, first)
  <2>1. SameLinks(fat, fat', ChainIn(fat, first))
    BY <1>2, ChainFacts DEF SameLinks
  <2> QED
    BY <2>1, ChainSame
<1>4. \A h \in Cluster : Unlinked(fat, h) => Unlinked(fat', h)
  BY <1>1 DEF Unlinked
<1>5. \A h : IsHead(h) => IsHead(h)'
  BY <1>1, <1>4 DEF IsHead, Unlinked
<1>6. Unlinked(fat, c) => IsHead(c)'
  BY <1>1, <1>4 DEF IsHead
<1>7. Injective(fat) => Injective(fat')
  BY <1>1 DEF Injective
<1>8. \A d \in Cluster : fat'[d] \in Cluster /\ fat'[fat'[d]] = FAT32EntryFree
        => fat[d] = fat'[d] /\ fat[fat[d]] = FAT32EntryFree /\ fat[d] # c
  BY <1>1
<1> QED
  BY <1>3, <1>5, <1>6, <1>7, <1>8

(* The head of a chain is freed: the next cluster is a head then.          *)
LEMMA Freed ==
  ASSUME TreeInv, pc \notin {"mark", "end_chain"}, NEW c, FATChanges(c, FAT32EntryFree), IsHead(c)
  PROVE  /\ \A h : IsHead(h) /\ h # c => IsHead(h)' /\ ChainIn(fat', h) = ChainIn(fat, h)
         /\ \A n \in Cluster : n = fat[c] => IsHead(n)' /\ ~IsHead(n)
         /\ Injective(fat')
         /\ \A d \in Cluster : fat'[d] \in Cluster => fat'[fat'[d]] # FAT32EntryFree
<1>1. /\ fat'[c] \notin Cluster /\ c \in Cluster /\ \A d \in Cluster \ {c} : fat'[d] = fat[d]
      /\ \A d \in Cluster : fat[d] # c
      /\ Injective(fat)
      /\ \A d \in Cluster : fat[d] \in Cluster => fat[fat[d]] # FAT32EntryFree
  BY NumberFacts DEF FATChanges, IsHead, Unlinked, TreeInv, LinksAreSound
<1>2. ASSUME NEW h, IsHead(h), h # c PROVE IsHead(h)' /\ ChainIn(fat', h) = ChainIn(fat, h)
  <2>1. c \notin ChainIn(fat, h)
    BY <1>2, HeadApart DEF IsHead
  <2>2. SameLinks(fat, fat', ChainIn(fat, h))
    BY <1>1, <2>1, ChainFacts DEF SameLinks
  <2>3. IsHead(h)'
    BY <1>1, <1>2 DEF IsHead, Unlinked
  <2> QED
    BY <2>2, <2>3, ChainSame
<1>3. ASSUME NEW n \in Cluster, n = fat[c] PROVE IsHead(n)' /\ ~IsHead(n)
  <2>1. n # c
    BY <1>1, <1>3
  <2>2. fat'[n] # FAT32EntryFree
    BY <1>1, <1>3, <2>1
  <2>3. \A d \in Cluster : fat'[d] # n
    BY <1>1, <1>3 DEF Injective
  <2>4. ~IsHead(n)
    BY <1>1, <1>3 DEF IsHead, Unlinked
  <2> QED
    BY <2>2, <2>3, <2>4 DEF IsHead, Unlinked
<1>5. Injective(fat')
  BY <1>1 DEF Injective
<1>6. \A d \in Cluster : fat'[d] \in Cluster => fat'[fat'[d]] # FAT32EntryFree
  BY <1>1
<1> QED
  BY <1>2, <1>3, <1>5, <1>6

(* A free cluster is linked to the end of a chain.                         *)
LEMMA Linked ==
  ASSUME TreeInv, pc \notin {"mark", "end_chain"}, NEW last, NEW c \in Cluster,
         FATChanges(last, c), IsEndOfChain(fat[last]), fat[c] = FAT32EntryFree
  PROVE  /\ \A h : IsHead(h) => /\ IsHead(h)' /\ ChainIn(fat, h) \subseteq ChainIn(fat', h)
                                /\ ChainIn(fat', h) \subseteq ChainIn(fat, h) \cup {c}
                                /\ last \notin ChainIn(fat, h) => ChainIn(fat', h) = ChainIn(fat, h)
                                /\ last \in ChainIn(fat, h) => c \in ChainIn(fat', h)
                                /\ c \notin ChainIn(fat, h)
         /\ Injective(fat') /\ c # last
         /\ \A d \in Cluster : fat'[d] \in Cluster /\ fat'[fat'[d]] = FAT32EntryFree => fat'[d] = c
<1>1. /\ last \in Cluster /\ fat'[last] = c /\ \A d \in Cluster \ {last} : fat'[d] = fat[d]
      /\ Injective(fat)
      /\ \A d \in Cluster : fat[d] \in Cluster => fat[fat[d]] # FAT32EntryFree
  BY DEF FATChanges, TreeInv, LinksAreSound
<1>2. fat[last] \notin Cluster /\ fat[c] \notin Cluster /\ fat[last] # FAT32EntryFree /\ c # last
  <2>1. fat[last] \in FATEntry
    BY <1>1 DEF FATChanges
  <2> QED
    BY <1>1, <2>1, NumberFacts
<1>3. Unlinked(fat, c)
  BY FreeIsUnlinked
<1>4. ASSUME NEW h, IsHead(h)
      PROVE  /\ IsHead(h)' /\ ChainIn(fat, h) \subseteq ChainIn(fat', h)
             /\ ChainIn(fat', h) \subseteq ChainIn(fat, h) \cup {c}
             /\ last \notin ChainIn(fat, h) => ChainIn(fat', h) = ChainIn(fat, h)
             /\ last \in ChainIn(fat, h) => c \in ChainIn(fat', h)
             /\ c \notin ChainIn(fat, h)
  <2>1. h # c
    BY <1>4 DEF IsHead
  <2>2. IsHead(h)'
    BY <1>1, <1>2, <1>4, <2>1, NumberFacts DEF IsHead, Unlinked
  <2>3. CASE last \in ChainIn(fat, h)
    <3>1. ChainIn(fat', h) = ChainIn(fat, h) \cup {c}
      BY <1>1, <1>2, <2>3, ChainGrows
    <3> QED
      BY <1>4, <2>2, <2>3, <3>1, FreeIsUnlinked
  <2>4. CASE last \notin ChainIn(fat, h)
    <3>1. SameLinks(fat, fat', ChainIn(fat, h))
      BY <1>1, <2>4, ChainFacts DEF SameLinks
    <3>2. ChainIn(fat', h) = ChainIn(fat, h)
      BY <3>1, ChainSame
    <3> QED
      BY <1>4, <2>2, <2>4, <3>2, FreeIsUnlinked
  <2> QED
    BY <2>3, <2>4
<1>5. Injective(fat')
  BY <1>1, <1>2, <1>3 DEF Injective, Unlinked
<1>6. \A d \in Cluster : fat'[d] \in Cluster /\ fat'[fat'[d]] = FAT32EntryFree => fat'[d] = c
  BY <1>1, <1>2, NumberFacts
<1> QED
  BY <1>2, <1>4, <1>5, <1>6

(* Nothing is written: the tree, its chains and its heads are the same.    *)
LEMMA NothingWritten ==
  ASSUME TreeInv, UNCHANGED <<fat, block>>
  PROVE  /\ TreeStays
         /\ \A h : IsHead(h)' <=> IsHead(h)
         /\ \A first : ChainIn(fat', first) = ChainIn(fat, first)
<1>1. TreeStays
  BY TreeSame
<1> QED
  BY <1>1 DEF IsHead

-----------------------------------------------------------------------------
(* Steps that write nothing.                                               *)

(* The objects a program holds are of directories of the tree.             *)
LEMMA ObjectIsFolder ==
  ASSUME TreeInv, NEW d \in directories
  PROVE  /\ d.first \in Folders
         /\ \A a \in EntriesIn(d.first) : a \in Tree /\ IsIn(a, d.name)
         /\ d = RootDirectory => d.first = RootDirectoryCluster
         /\ d # RootDirectory => d.address \in Subdirectories /\ d.first = Leads(d.address)
<1>1. CASE d = RootDirectory
  <2>1. d.first = RootDirectoryCluster /\ d.name = NoName
    BY <1>1 DEF RootDirectory
  <2> QED
    BY <1>1, <2>1, TreeByFolder DEF IsIn
<1>2. CASE d # RootDirectory
  <2>1. d.address \in Subdirectories /\ d.first = Leads(d.address) /\ EntryAt(d.address).name = d.name
    BY <1>2 DEF TreeInv, DirectoriesAreKnown, Leads
  <2>2. d.first \in Folders
    BY <2>1 DEF Folders
  <2> QED
    BY <1>2, <2>1, <2>2, TreeByFolder DEF IsIn
<1> QED
  BY <1>1, <1>2

(* The links stay sound when the FAT is not written.                       *)
LEMMA LinksKeep ==
  ASSUME TreeInv, pc \notin {"mark", "end_chain"}, UNCHANGED fat
  PROVE  LinksAreSound'
BY DEF TreeInv, LinksAreSound

(* The operation has its head still, when it had it.                       *)
LEMMA HeadsKeep ==
  ASSUME TreeInv, TreeStays, \A c \in HeldByOperation' : c \in HeldByOperation /\ IsHead(c)'
  PROVE  OperationHasHead'
<1>1. Tree' = Tree /\ \A a \in Tree : Leads(a)' = Leads(a)
  BY DEF TreeStays, Leads
<1> QED
  BY <1>1 DEF TreeInv, OperationHasHead

(* An operation of these kinds holds no cluster.                           *)
LEMMA HoldsNothing ==
  ASSUME op'.kind # "mkdir", pc' \notin {"release", "publish"}
  PROVE  OperationHasHead'
BY DEF OperationHasHead, HeldByOperation

(* Nothing is written, no object is made, and nothing is in progress then. *)
LEMMA IdleKeeps ==
  ASSUME TreeInv, TypeOK', UNCHANGED <<fat, block>>, Return,
         pc \notin {"mark", "end_chain", "remove_old"},
         open' \subseteq open, directories' \subseteq directories, RootDirectory \in directories'
  PROVE  TreeInv'
<1>1. /\ TreeStays /\ \A h : IsHead(h)' <=> IsHead(h)
      /\ \A first : ChainIn(fat', first) = ChainIn(fat, first)
  BY NothingWritten
<1>2. LinksAreSound'
  BY LinksKeep
<1>3. TreeHasHeads' /\ DirectoriesAreKnown' /\ NamesUnique'
  BY <1>1, TreeKeeps, FirstFacts
<1>4. FilesAreKnown'
  BY <1>1, FilesKeep
<1> QED
  BY <1>2, <1>3, <1>4, NothingHeld DEF TreeInv

(* Nothing is written, and an operation begins that holds no cluster yet.  *)
LEMMA BeginKeeps ==
  ASSUME TreeInv, TypeOK', UNCHANGED <<fat, block, open, directories>>, pc = "idle",
         op'.kind # "mkdir", pc' \notin {"release", "publish"}, OperationIsSound'
  PROVE  TreeInv'
<1>1. /\ TreeStays /\ \A h : IsHead(h)' <=> IsHead(h)
      /\ \A first : ChainIn(fat', first) = ChainIn(fat, first)
  BY NothingWritten
<1>2. LinksAreSound'
  BY LinksKeep
<1>3. TreeHasHeads' /\ DirectoriesAreKnown' /\ NamesUnique'
  BY <1>1, TreeKeeps, FirstFacts DEF TreeInv, DirectoriesAreKnown
<1>4. FilesAreKnown'
  BY <1>1, FilesKeep
<1> QED
  BY <1>2, <1>3, <1>4, HoldsNothing DEF TreeInv

(* Open makes an object that knows its entry, its chain and its path.      *)
LEMMA OpenFileKeeps ==
  ASSUME TreeInv, TypeOK', NEW d, NEW name, NEW case \in Cases, OpenFile(d, name, case)
  PROVE  TreeInv'
<1>0. /\ TypeOK /\ pc = "idle" /\ pc' = "idle" /\ d \in directories
      /\ UNCHANGED <<fat, block, directories, op>>
  BY DEF TreeInv, OpenFile, adapterVars
<1>1. /\ TreeStays /\ \A h : IsHead(h)' <=> IsHead(h)
      /\ \A first : ChainIn(fat', first) = ChainIn(fat, first)
  BY <1>0, NothingWritten
<1>2. LinksAreSound'
  BY <1>0, LinksKeep
<1>3. TreeHasHeads' /\ DirectoriesAreKnown' /\ NamesUnique'
  BY <1>0, <1>1, TreeKeeps, FirstFacts DEF TreeInv, DirectoriesAreKnown
<1>4. PICK a \in FindDirectoryEntry(d.first, "file", name) :
        open' = open \cup {Handle(Path(d, name, case), a, EntryAt(a).first)}
  BY DEF OpenFile
<1>5. /\ a \in EntriesIn(d.first) /\ EntryAt(a).kind = "file" /\ EntryAt(a).name = name
  BY <1>0, EntryFacts
<1>6. a \in Tree /\ IsIn(a, d.name) /\ EntryAt(a) \in Entry
  BY <1>0, <1>5, ObjectIsFolder, HeadFacts
<1> DEFINE new == Handle(Path(d, name, case), a, EntryAt(a).first)
<1>7. /\ new.address = a /\ new.first = Leads(a) /\ new.current = Leads(a)
      /\ new.path = Path(d, name, case) /\ new.path.dir = d.name /\ new.path.name = name
      /\ new.path.case = case
  BY DEF Handle, Path, Leads
<1>8. EntryAt(a) = [kind |-> "file", name |-> name, first |-> Leads(a)]
  BY <1>5, <1>6 DEF Entry, Leads
<1>9. Leads(a) # 0 => Leads(a) \in ChainIn(fat, Leads(a))
  BY <1>6, FirstFacts, ChainFacts
<1> HIDE DEF new
<1>10. HandleKnown(new)
  BY <1>6, <1>7, <1>8, <1>9 DEF HandleKnown
<1>11. (\A h \in open : HandleKnown(h)) /\ PathsDiffer
  BY FilesByHandle DEF TreeInv
<1>12. open' = open \cup {new}
  BY <1>4 DEF new
<1>13. FilesAreKnown'
  <2>1. \A h \in open' : HandleKnown(h)'
    BY <1>1, <1>10, <1>11, <1>12, HandleKeeps
  <2>2. \A h \in open : h.path # new.path
    BY <1>7 DEF OpenFile, IsFileOpen
  <2>3. PathsDiffer'
    BY <1>11, <1>12, <2>2 DEF PathsDiffer
  <2> QED
    BY <2>1, <2>3, FilesByHandle
<1>14. OperationHasHead' /\ OperationIsSound'
  <2>1. op = NoOperation /\ op' = NoOperation
    BY <1>0 DEF TreeInv, OperationIsSound
  <2> QED
    BY <1>0, <2>1, NothingHeld DEF Return
<1> QED
  BY <1>2, <1>3, <1>13, <1>14 DEF TreeInv

(* Create begins with an entry that is in no directory yet.                *)
LEMMA CreateFileKeeps ==
  ASSUME TreeInv, TypeOK', NEW d, NEW name, NEW case \in Cases, CreateFile(d, name, case)
  PROVE  TreeInv'
<1>1. /\ pc = "idle" /\ pc' = "create" /\ d \in directories /\ UNCHANGED <<fat, block, open, directories>>
      /\ op' = [NoOperation EXCEPT !.kind = "create", !.dir = d,
                  !.entry = [kind |-> "file", name |-> name, first |-> 0],
                  !.file = Handle(Path(d, name, case), NoAddress, 0)]
  BY DEF CreateFile, Begin, adapterVars
<1>2. /\ op'.kind = "create" /\ op'.dir = d
      /\ op'.entry = [kind |-> "file", name |-> name, first |-> 0]
      /\ op'.file = Handle(Path(d, name, case), NoAddress, 0)
  BY <1>1 DEF NoOperation
<1>3. CreatesFile'
  BY <1>1, <1>2 DEF CreatesFile, Handle, Path
<1>4. OperationIsSound'
  BY <1>1, <1>2, <1>3 DEF OperationIsSound, MakesDirectory, Renames, CreatesEntry, Appends, Releases
<1> QED
  BY <1>1, <1>2, <1>4, BeginKeeps

(* Append begins.                                                          *)
LEMMA AppendCallKeeps ==
  ASSUME TreeInv, TypeOK', NEW h, AppendCall(h)
  PROVE  TreeInv'
<1>1. /\ pc = "idle" /\ pc' = IF h.first = 0 THEN "allocate" ELSE "extend"
      /\ h \in open /\ UNCHANGED <<fat, block, open, directories>>
      /\ op' = [NoOperation EXCEPT !.kind = "append", !.file = h]
  BY DEF AppendCall, Begin, adapterVars
<1>2. op'.kind = "append" /\ op'.file = h
  BY <1>1 DEF NoOperation
<1>3. OperationIsSound'
  BY <1>1, <1>2 DEF OperationIsSound, MakesDirectory, CreatesFile, Renames, CreatesEntry, Appends,
                    Releases
<1> QED
  BY <1>1, <1>2, <1>3, BeginKeeps

(* The directory of an entry, and what uses it, are the same when nothing  *)
(* is written.                                                             *)
LEMMA UsesStay ==
  ASSUME UNCHANGED <<fat, block, open, directories>>
  PROVE  /\ \A d : EntriesIn(d)' = EntriesIn(d)
         /\ \A a : EntryAt(a)' = EntryAt(a)
         /\ \A a : InUse(a)' <=> InUse(a)
BY DEF EntriesIn, SlotsOf, ChainClusters, NextClusterInChain, EntryAt, InUse

(* RenameEntry begins with an entry that nothing uses.                     *)
LEMMA RenameEntryKeeps ==
  ASSUME TreeInv, TypeOK', Careful, NEW d, NEW kind \in {"file", "dir"}, NEW name, NEW new_name,
         RenameEntry(d, kind, name, new_name)
  PROVE  TreeInv'
<1>0. TypeOK /\ d \in directories
  BY DEF TreeInv, RenameEntry
<1>1. PICK a \in FindDirectoryEntry(d.first, kind, name) :
        /\ ~InUse(a)
        /\ Begin([NoOperation EXCEPT !.kind = "rename", !.dir = d, !.old = a,
                    !.entry = [EntryAt(a) EXCEPT !.name = new_name]], "create")
  BY DEF RenameEntry
<1>2. /\ pc = "idle" /\ pc' = "create" /\ UNCHANGED <<fat, block, open, directories>>
      /\ op'.kind = "rename" /\ op'.dir = d /\ op'.old = a
      /\ op'.entry = [EntryAt(a) EXCEPT !.name = new_name]
  BY <1>1 DEF RenameEntry, Begin, adapterVars, NoOperation
<1>3. a \in EntriesIn(d.first) /\ EntryAt(a).kind = kind /\ EntryAt(a) \in Entry
  BY <1>0, <1>1, EntryFacts
<1>4. op'.entry.kind = EntryAt(a).kind /\ op'.entry.first = Leads(a)
  BY <1>2, <1>3 DEF Leads, Entry
<1>5. Renames'
  <2>1. op'.old \in EntriesIn(op.dir.first)'
    BY <1>2, <1>3, UsesStay
  <2>2. EntryAt(op.old)'.kind = op'.entry.kind /\ Leads(op.old)' = op'.entry.first
    BY <1>2, <1>4, UsesStay DEF Leads
  <2>3. ~InUse(op.old)'
    <3>1. InUse(op.old)' <=> InUse(a)'
      BY <1>2 DEF InUse
    <3> QED
      BY <1>1, <1>2, <3>1, UsesStay
  <2> QED
    BY <1>2, <2>1, <2>2, <2>3 DEF Renames
<1>6. CreatesEntry'
  BY <1>0, <1>2, <1>3, <1>4 DEF CreatesEntry
<1>7. OperationIsSound'
  BY <1>2, <1>5, <1>6 DEF OperationIsSound, MakesDirectory, CreatesFile, Appends, Releases
<1> QED
  BY <1>2, <1>7, BeginKeeps

(* GetDirectory makes an object of a directory of the root.                *)
LEMMA GetDirectoryKeeps ==
  ASSUME TreeInv, TypeOK', NEW name, GetDirectory(name)
  PROVE  TreeInv'
<1>0. TypeOK /\ pc = "idle" /\ pc' = "idle" /\ UNCHANGED <<fat, block, open, op>>
  BY DEF TreeInv, GetDirectory, adapterVars
<1>1. PICK a \in FindDirectoryEntry(RootDirectoryCluster, "dir", name) :
        directories' = directories \cup {[name |-> name, address |-> a, first |-> EntryAt(a).first]}
  BY DEF GetDirectory
<1>2. a \in Subdirectories /\ EntryAt(a).name = name
  BY <1>0, EntryFacts DEF Subdirectories
<1>3. /\ TreeStays /\ \A h : IsHead(h)' <=> IsHead(h)
      /\ \A first : ChainIn(fat', first) = ChainIn(fat, first)
  BY <1>0, NothingWritten
<1>4. LinksAreSound'
  BY <1>0, LinksKeep
<1>5. DirectoriesAreKnown'
  <2>1. Subdirectories' = Subdirectories /\ \A s : EntryAt(s)' = EntryAt(s)
    BY <1>0, <1>3 DEF TreeStays, EntryAt
  <2>2. \A d \in directories' : d # RootDirectory =>
          d.address \in Subdirectories /\ EntryAt(d.address).first = d.first
                                       /\ EntryAt(d.address).name = d.name
    BY <1>1, <1>2 DEF TreeInv, DirectoriesAreKnown
  <2>3. RootDirectory \in directories'
    BY <1>1 DEF TreeInv, DirectoriesAreKnown
  <2> QED
    BY <2>1, <2>2, <2>3 DEF DirectoriesAreKnown
<1>6. NamesUnique' /\ TreeHasHeads'
  <2>1. NamesUnique'
    <3>1. /\ Folders' = Folders /\ \A d \in Folders : EntriesIn(d)' = EntriesIn(d)
          /\ \A b : EntryAt(b)' = EntryAt(b)
      BY <1>0, <1>3 DEF TreeStays, EntryAt
    <3> QED
      BY <3>1, NamesByFolder DEF TreeInv
  <2>2. Tree' = Tree /\ Subdirectories' = Subdirectories /\ \A b : Leads(b)' = Leads(b)
    BY <1>0, <1>3 DEF TreeStays, Leads, EntryAt
  <2>3. \A c : IsHead(c)' <=> IsHead(c)
    BY <1>3
  <2>4. \A b \in Tree : Leads(b)' # 0 => IsHead(Leads(b))' /\ Leads(b)' # RootDirectoryCluster
    BY <1>0, <2>2, HeadFacts DEF IsHead
  <2> QED
    BY <1>0, <2>1, <2>2, <2>3, <2>4 DEF TreeHasHeads, TreeInv
<1>7. FilesAreKnown'
  BY <1>0, <1>3, FilesKeep
<1>8. OperationHasHead' /\ OperationIsSound'
  BY <1>0, NothingHeld DEF Return, TreeInv, OperationIsSound
<1> QED
  BY <1>4, <1>5, <1>6, <1>7, <1>8 DEF TreeInv

(* CreateEntry finds no space: a directory that was being made has to give *)
(* up its cluster.                                                         *)
LEMMA CreateEntryFailsKeeps ==
  ASSUME TreeInv, TypeOK', CreateEntryFails
  PROVE  TreeInv'
<1>0. pc = "create" /\ UNCHANGED <<fat, block, open, directories>>
  BY DEF CreateEntryFails, adapterVars
<1>1. CASE op.kind # "mkdir"
  BY <1>0, <1>1, IdleKeeps DEF CreateEntryFails, TreeInv, DirectoriesAreKnown
<1>2. CASE op.kind = "mkdir"
  <2>0. pc' = "undo_mkdir" /\ op' = op
    BY <1>2 DEF CreateEntryFails
  <2>1. /\ TreeStays /\ \A h : IsHead(h)' <=> IsHead(h)
        /\ \A first : ChainIn(fat', first) = ChainIn(fat, first)
    BY <1>0, NothingWritten
  <2>2. LinksAreSound'
    BY <1>0, LinksKeep
  <2>3. TreeHasHeads' /\ DirectoriesAreKnown' /\ NamesUnique'
    BY <1>0, <2>1, TreeKeeps, FirstFacts DEF TreeInv, DirectoriesAreKnown
  <2>4. FilesAreKnown'
    BY <1>0, <2>1, FilesKeep
  <2>5. OperationHasHead'
    <3>1. \A c \in HeldByOperation' : c \in HeldByOperation
      BY <1>0, <1>2, <2>0 DEF HeldByOperation
    <3>2. \A c \in HeldByOperation' : IsHead(c)'
      BY <2>1, <3>1 DEF TreeInv, OperationHasHead
    <3> QED
      BY <2>1, <3>1, <3>2, HeadsKeep
  <2>6. MakesDirectory'
    BY <1>0, <1>2, <2>0 DEF TreeInv, OperationIsSound, MakesDirectory
  <2>7. OperationIsSound'
    BY <1>2, <2>0, <2>6 DEF OperationIsSound, CreatesFile, Renames, CreatesEntry, Appends, Releases
  <2> QED
    BY <2>2, <2>3, <2>4, <2>5, <2>7 DEF TreeInv
<1> QED
  BY <1>1, <1>2

(* Objects are dropped, a call gives up, or the power goes.                *)
LEMMA DropsKeep ==
  ASSUME TreeInv, TypeOK', CarefulProgram,
         \/ \E h \in open : CloseFile(h)
         \/ \E d \in directories : ForgetDirectory(d)
         \/ AppendFails \/ PowerLoss
  PROVE  TreeInv'
<1>1. ASSUME NEW h \in open, CloseFile(h) PROVE TreeInv'
  <2>1. Return /\ pc = "idle"
    BY <1>1 DEF CloseFile, Return, TreeInv, OperationIsSound
  <2> QED
    BY <1>1, <2>1, IdleKeeps DEF CloseFile, adapterVars, TreeInv, DirectoriesAreKnown
<1>2. ASSUME NEW d \in directories, ForgetDirectory(d) PROVE TreeInv'
  <2>1. Return /\ pc = "idle"
    BY <1>2 DEF ForgetDirectory, Return, TreeInv, OperationIsSound
  <2> QED
    BY <1>2, <2>1, IdleKeeps DEF ForgetDirectory, adapterVars, TreeInv, DirectoriesAreKnown
<1>3. CASE AppendFails
  BY <1>3, IdleKeeps DEF AppendFails, adapterVars, TreeInv, DirectoriesAreKnown
<1>4. CASE PowerLoss
  <2>1. pc \notin {"mark", "end_chain", "remove_old"}
    BY <1>4 DEF PowerLoss, CarefulProgram
  <2>2. directories' \subseteq directories /\ RootDirectory \in directories' /\ open' \subseteq open
    BY <1>4 DEF PowerLoss, TreeInv, DirectoriesAreKnown
  <2> QED
    BY <1>4, <2>1, <2>2, IdleKeeps DEF PowerLoss
<1> QED
  BY <1>1, <1>2, <1>3, <1>4

-----------------------------------------------------------------------------
(* Steps that write outside the tree.                                      *)

(* The tree and its chains are the same: what is left is the operation and *)
(* its head.                                                               *)
LEMMA QuietKeeps ==
  ASSUME TreeInv, TypeOK', TreeStays, pc # "remove_old", open' \subseteq open, UNCHANGED directories,
         \A h \in TreeFirsts : IsHead(h)' /\ ChainIn(fat, h) \subseteq ChainIn(fat', h),
         LinksAreSound', OperationHasHead', OperationIsSound'
  PROVE  TreeInv'
<1>1. TreeHasHeads' /\ DirectoriesAreKnown' /\ NamesUnique'
  BY TreeKeeps DEF TreeInv, DirectoriesAreKnown
<1>2. FilesAreKnown'
  BY FilesKeep
<1> QED
  BY <1>1, <1>2 DEF TreeInv

(* A file begins where no directory does.                                  *)
LEMMA FileFirst ==
  ASSUME TreeInv, pc # "remove_old", NEW h \in open, h.first # 0
  PROVE  /\ h.first \in TreeFirsts /\ h.first \notin Folders
         /\ h.current \in ChainIn(fat, h.first)
         /\ \A d \in Folders : ChainIn(fat, d) \cap ChainIn(fat, h.first) = {}
<1>1. /\ h.address \in Tree /\ EntryAt(h.address).kind = "file" /\ Leads(h.address) = h.first
      /\ h.current \in ChainIn(fat, h.first)
  <2>1. /\ h.address \in Tree
        /\ EntryAt(h.address) = [kind |-> "file", name |-> h.path.name, first |-> h.first]
        /\ h.current \in ChainClusters(h.first)
    BY DEF TreeInv, FilesAreKnown, OpenFilesKeepTheirEntries
  <2> QED
    BY <2>1, ChainNow DEF Leads
<1>2. h.first \in TreeFirsts /\ h.first # RootDirectoryCluster
  BY <1>1, FirstFacts, HeadFacts
<1>3. \A s \in Subdirectories : Leads(s) # h.first
  BY <1>1, TreeByFolder DEF TreeInv, TreeHasHeads, Subdirectories
<1>4. h.first \notin Folders
  BY <1>2, <1>3 DEF Folders
<1>5. \A d \in Folders : ChainIn(fat, d) \cap ChainIn(fat, h.first) = {}
  <2>1. IsHead(h.first)
    BY <1>2, FirstFacts
  <2> QED
    BY <1>4, <2>1, HeadFacts
<1> QED
  BY <1>1, <1>2, <1>4, <1>5

(* ReleaseChain frees the head of a chain that is in the tree no more: the *)
(* next one is the head, and no chain of the tree is touched.              *)
LEMMA ReleaseClusterKeeps ==
  ASSUME TreeInv, TypeOK', ReleaseCluster
  PROVE  TreeInv' /\ TreeStays /\ \A h \in TreeFirsts : ChainIn(fat', h) = ChainIn(fat, h)
<1> DEFINE c == op.cluster
           next == fat[c]
<1>0. /\ TypeOK /\ pc = "release" /\ op.kind = "release" /\ c \in Cluster
      /\ UNCHANGED <<block, open, directories>>
  BY DEF ReleaseCluster, TreeInv, OperationIsSound, Releases
<1>1. FATChanges(c, FAT32EntryFree)
  BY <1>0, FATWritten, NumberFacts DEF ReleaseCluster, FATChanges, TypeOK
<1>2. IsHead(c) /\ c # RootDirectoryCluster /\ \A a \in Tree : Leads(a) # c
  BY <1>0 DEF TreeInv, OperationHasHead, HeldByOperation
<1> HIDE DEF c
<1>3. /\ \A h : IsHead(h) /\ h # c => IsHead(h)' /\ ChainIn(fat', h) = ChainIn(fat, h)
      /\ \A n \in Cluster : n = next => IsHead(n)' /\ ~IsHead(n)
      /\ Injective(fat')
      /\ \A d \in Cluster : fat'[d] \in Cluster => fat'[fat'[d]] # FAT32EntryFree
  <2>1. PICK x : x = c
    OBVIOUS
  <2> QED
    BY <1>0, <1>1, <1>2, <2>1, Freed
<1>4. \A h \in TreeFirsts : IsHead(h)' /\ ChainIn(fat', h) = ChainIn(fat, h)
  BY <1>2, <1>3, FirstFacts DEF TreeFirsts
<1>5. TreeStays
  BY <1>0, <1>4, FirstFacts, TreeSame
<1>6. LinksAreSound'
  BY <1>3 DEF LinksAreSound
<1>7. OperationHasHead' /\ OperationIsSound'
  <2>1. CASE next \notin Cluster
    BY <2>1, NothingHeld DEF ReleaseCluster, NextClusterInChain, c
  <2>2. CASE next \in Cluster
    <3>1. op' = [op EXCEPT !.cluster = next] /\ pc' = "release"
      BY <1>0, <2>2 DEF ReleaseCluster, NextClusterInChain, c
    <3>2. op'.kind = "release" /\ op'.cluster = next
      BY <1>0, <3>1 DEF TypeOK, Operations
    <3>3. PICK n \in Cluster : n = next
      BY <2>2
    <3>4. IsHead(n)' /\ ~IsHead(n)
      BY <1>3, <3>3
    <3>5. n # RootDirectoryCluster /\ \A a \in Tree : Leads(a) # n
      BY <3>3, <3>4, HeadFacts, NumberFacts, TreeByFolder DEF TreeInv, TreeHasHeads
    <3>6. HeldByOperation' = {n}
      BY <3>1, <3>2, <3>3 DEF HeldByOperation
    <3>7. Tree' = Tree /\ \A a \in Tree : Leads(a)' = Leads(a)
      BY <1>5 DEF TreeStays, Leads
    <3>8. OperationHasHead'
      BY <3>4, <3>5, <3>6, <3>7 DEF OperationHasHead
    <3>9. OperationIsSound'
      BY <3>1, <3>2, <3>3 DEF OperationIsSound, MakesDirectory, CreatesFile, Renames, CreatesEntry,
                             Appends, Releases
    <3> QED
      BY <3>8, <3>9
  <2> QED
    BY <2>1, <2>2
<1> QED
  BY <1>0, <1>4, <1>5, <1>6, <1>7, QuietKeeps

(* CreateDirectory gives back the cluster it had marked.                   *)
LEMMA FreeDirectoryClusterKeeps ==
  ASSUME TreeInv, TypeOK', FreeDirectoryCluster
  PROVE  TreeInv' /\ TreeStays /\ \A h \in TreeFirsts : ChainIn(fat', h) = ChainIn(fat, h)
<1> DEFINE c == op.cluster
<1>0. /\ TypeOK /\ pc = "undo_mkdir" /\ op.kind = "mkdir" /\ c \in Cluster
      /\ UNCHANGED <<block, open, directories>> /\ Return
  BY DEF FreeDirectoryCluster, TreeInv, OperationIsSound, MakesDirectory
<1>1. FATChanges(c, FAT32EntryFree)
  BY <1>0, FATWritten, NumberFacts DEF FreeDirectoryCluster, FATChanges, TypeOK
<1>2. IsHead(c) /\ c # RootDirectoryCluster /\ \A a \in Tree : Leads(a) # c
  BY <1>0 DEF TreeInv, OperationHasHead, HeldByOperation
<1> HIDE DEF c
<1>3. /\ \A h : IsHead(h) /\ h # c => IsHead(h)' /\ ChainIn(fat', h) = ChainIn(fat, h)
      /\ Injective(fat')
      /\ \A d \in Cluster : fat'[d] \in Cluster => fat'[fat'[d]] # FAT32EntryFree
  <2>1. PICK x : x = c
    OBVIOUS
  <2> QED
    BY <1>0, <1>1, <1>2, <2>1, Freed
<1>4. \A h \in TreeFirsts : IsHead(h)' /\ ChainIn(fat', h) = ChainIn(fat, h)
  BY <1>2, <1>3, FirstFacts DEF TreeFirsts
<1>5. TreeStays
  BY <1>0, <1>4, FirstFacts, TreeSame
<1>6. LinksAreSound'
  BY <1>3 DEF LinksAreSound
<1> QED
  BY <1>0, <1>4, <1>5, <1>6, NothingHeld, QuietKeeps

(* A file gets its first cluster: it is a head, of no entry yet.           *)
LEMMA AllocateFirstClusterKeeps ==
  ASSUME TreeInv, TypeOK', AllocateFirstCluster
  PROVE  TreeInv' /\ TreeStays /\ ChainsGrow
<1>0. /\ TypeOK /\ pc = "allocate" /\ pc' = "publish" /\ op.kind = "append" /\ op.file.first = 0
      /\ op.file \in open /\ UNCHANGED <<block, open, directories>>
  BY DEF AllocateFirstCluster, TreeInv, OperationIsSound, Appends
<1>1. PICK c \in Cluster :
        /\ FindNextEmptyCluster(0, c)
        /\ UpdateFATTableEntry(c, FAT32EntryAllocatedAndEndOfFile)
        /\ op' = [op EXCEPT !.added = c]
  BY DEF AllocateFirstCluster
<1>2. fat[c] = FAT32EntryFree
  BY <1>0, <1>1, ClusterFound
<1>3. FATChanges(c, FAT32EntryAllocatedAndEndOfFile)
  BY <1>0, <1>1, FATWritten, NumberFacts DEF FATChanges, TypeOK
<1>4. Unlinked(fat, c)
  BY <1>0, <1>2, FreeIsUnlinked
<1>5. /\ \A first : ChainIn(fat', first) = ChainIn(fat, first)
      /\ \A h : IsHead(h) => IsHead(h)'
      /\ IsHead(c)' /\ LinksAreSound'
  BY <1>0, <1>2, <1>3, <1>4, Marked DEF LinksAreSound, TreeInv
<1>6. TreeStays
  BY <1>0, <1>5, TreeSame
<1>7. op'.kind = "append" /\ op'.file = op.file /\ op'.added = c
  BY <1>0, <1>1 DEF TypeOK, Operations
<1>8. HeldByOperation' = {c}
  BY <1>0, <1>7 DEF HeldByOperation
<1>9. c # RootDirectoryCluster /\ \A a \in Tree : Leads(a) # c
  <2>1. ~IsHead(c) /\ c # 0
    BY <1>2, NumberFacts DEF IsHead
  <2> QED
    BY <2>1, HeadFacts DEF TreeInv, TreeHasHeads
<1>10. OperationHasHead'
  <2>1. Tree' = Tree /\ \A a \in Tree : Leads(a)' = Leads(a)
    BY <1>6 DEF TreeStays, Leads
  <2> QED
    BY <1>5, <1>8, <1>9, <2>1 DEF OperationHasHead
<1>11. OperationIsSound'
  BY <1>0, <1>7 DEF OperationIsSound, MakesDirectory, CreatesFile, Renames, CreatesEntry, Appends,
                    Releases
<1>12. ChainsGrow
  BY <1>5 DEF ChainsGrow
<1> QED
  BY <1>12, <1>0, <1>5, <1>6, <1>10, <1>11, FirstFacts, QuietKeeps

(* The end of a file's chain is linked to a free cluster.                  *)
LEMMA ExtendChainKeeps ==
  ASSUME TreeInv, TypeOK', ExtendChain
  PROVE  TreeInv' /\ TreeStays /\ ChainsGrow
<1>0. /\ TypeOK /\ pc = "extend" /\ pc' = "end_chain" /\ op.kind = "append" /\ op.file.first # 0
      /\ op.file \in open /\ UNCHANGED <<block, open, directories>>
  BY DEF ExtendChain, TreeInv, OperationIsSound, Appends
<1>1. PICK last \in Cluster, c \in Cluster :
        /\ IsLastCluster(op.file.current, last)
        /\ FindNextEmptyCluster(last + 1, c)
        /\ UpdateFATTableEntry(last, c)
        /\ op' = [op EXCEPT !.added = c]
  BY DEF ExtendChain
<1>2. fat[c] = FAT32EntryFree
  BY <1>0, <1>1, ClusterFound
<1>3. FATChanges(last, c)
  BY <1>0, <1>1, FATWritten, NumberFacts DEF FATChanges, TypeOK
<1>4. PICK first \in TreeFirsts : /\ first = op.file.first
                                  /\ op.file.current \in ChainIn(fat, first)
                                  /\ \A d \in Folders : ChainIn(fat, d) \cap ChainIn(fat, first) = {}
  BY <1>0, FileFirst
<1>5. last \in ChainIn(fat, first) /\ IsEndOfChain(fat[last])
  BY <1>1, <1>4, ChainNow, ChainTail DEF IsLastCluster
<1>6. /\ \A h : IsHead(h) => /\ IsHead(h)' /\ ChainIn(fat, h) \subseteq ChainIn(fat', h)
                             /\ last \notin ChainIn(fat, h) => ChainIn(fat', h) = ChainIn(fat, h)
                             /\ last \in ChainIn(fat, h) => c \in ChainIn(fat', h)
      /\ Injective(fat')
      /\ \A d \in Cluster : fat'[d] \in Cluster /\ fat'[fat'[d]] = FAT32EntryFree => fat'[d] = c
  BY <1>0, <1>2, <1>3, <1>5, Linked
<1>7. \A d \in Folders : ChainIn(fat', d) = ChainIn(fat, d)
  BY <1>4, <1>5, <1>6, FirstFacts
<1>8. TreeStays
  BY <1>0, <1>7, TreeSame
<1>9. op'.kind = "append" /\ op'.file = op.file /\ op'.added = c
  BY <1>0, <1>1 DEF TypeOK, Operations
<1>10. LinksAreSound'
  BY <1>0, <1>6, <1>9 DEF LinksAreSound
<1>11. OperationHasHead'
  BY <1>0, <1>9, HoldsNothing
<1>12. OperationIsSound'
  <2>1. c \in ChainIn(fat', first) /\ fat'[c] = FAT32EntryFree
    <3>1. c # last /\ c \in ChainIn(fat', first)
      BY <1>0, <1>2, <1>3, <1>4, <1>5, <1>6, FirstFacts, Linked
    <3> QED
      BY <1>2, <1>3, <3>1 DEF FATChanges
  <2>2. op.added' \in ChainClusters(op.file.first)'
    BY <1>4, <1>9, <2>1, ChainNow
  <2>3. Appends'
    BY <1>0, <1>9, <2>1, <2>2 DEF Appends
  <2> QED
    BY <1>0, <1>9, <2>3 DEF OperationIsSound, MakesDirectory, CreatesFile, Renames, CreatesEntry,
                            Releases
<1>13. ChainsGrow
  BY <1>6 DEF ChainsGrow
<1> QED
  BY <1>13, <1>0, <1>6, <1>8, <1>10, <1>11, <1>12, FirstFacts, QuietKeeps

(* The new end of a chain is marked, and the file moves there.             *)
LEMMA EndChainKeeps ==
  ASSUME TreeInv, TypeOK', EndChain
  PROVE  TreeInv' /\ TreeStays /\ ChainsGrow
<1> DEFINE h == op.file
           moved == [h EXCEPT !.current = op.added, !.first = IF @ = 0 THEN op.added ELSE @]
<1>0. /\ TypeOK /\ pc = "end_chain" /\ pc' = "write" /\ op.kind = "append" /\ h.first # 0
      /\ h \in open /\ h \in Handles /\ UNCHANGED <<block, directories>>
      /\ op.added \in ChainIn(fat, h.first) /\ fat[op.added] = FAT32EntryFree
      /\ open' = (open \ {h}) \cup {moved} /\ op' = [op EXCEPT !.file = moved]
  <2>1. TypeOK /\ pc = "end_chain" /\ op.kind = "append" /\ op.file.first # 0 /\ op.file \in open
        /\ op.added \in ChainClusters(op.file.first) /\ fat[op.added] = FAT32EntryFree
    BY DEF EndChain, TreeInv, OperationIsSound, Appends
  <2> QED
    BY <2>1, ChainNow DEF EndChain, MoveTo, TypeOK, Operations
<1>1. /\ moved.path = h.path /\ moved.address = h.address /\ moved.first = h.first
      /\ moved.current = op.added
  BY <1>0 DEF Handles
<1>2. op'.kind = "append" /\ op'.file = moved /\ op'.added = op.added
  BY <1>0 DEF TypeOK, Operations
<1> HIDE DEF moved, h
<1>3. PICK c : c = op.added
  OBVIOUS
<1>4. c \in Cluster
  BY <1>0, <1>3, ChainFacts
<1>5. FATChanges(c, FAT32EntryAllocatedAndEndOfFile)
  BY <1>0, <1>3, <1>4, FATWritten, NumberFacts DEF EndChain, FATChanges, TypeOK
<1>6. /\ \A first : ChainIn(fat', first) = ChainIn(fat, first)
      /\ \A g : IsHead(g) => IsHead(g)'
      /\ LinksAreSound'
  BY <1>0, <1>3, <1>5, Marked DEF LinksAreSound, TreeInv
<1>7. TreeStays
  BY <1>0, <1>6, TreeSame
<1>8. FilesAreKnown'
  BY <1>0, <1>1, <1>3, <1>6, <1>7, MovesKeep
<1>9. TreeHasHeads' /\ DirectoriesAreKnown' /\ NamesUnique'
  BY <1>0, <1>6, <1>7, TreeKeeps, FirstFacts DEF TreeInv, DirectoriesAreKnown
<1>10. OperationHasHead'
  BY <1>0, <1>2, HoldsNothing
<1>11. OperationIsSound'
  BY <1>0, <1>1, <1>2 DEF OperationIsSound, MakesDirectory, CreatesFile, Renames, CreatesEntry, Appends,
                          Releases
<1>12. ChainsGrow
  BY <1>6 DEF ChainsGrow
<1> QED
  BY <1>7, <1>12, <1>6, <1>8, <1>9, <1>10, <1>11 DEF TreeInv

(* The bytes of a file are written: no directory holds its cluster.        *)
LEMMA WriteClusterKeeps ==
  ASSUME TreeInv, TypeOK', WriteCluster
  PROVE  TreeInv' /\ TreeStays /\ ChainsGrow
<1>0. /\ TypeOK /\ pc = "write" /\ op.file.first # 0 /\ op.file \in open
      /\ UNCHANGED <<fat, open, directories>> /\ Return
      /\ block' = [block EXCEPT ![op.file.current] = DataCluster]
  BY DEF WriteCluster, TreeInv, OperationIsSound, Appends, adapterVars
<1>1. /\ op.file.current \in ChainIn(fat, op.file.first)
      /\ \A d \in Folders : ChainIn(fat, d) \cap ChainIn(fat, op.file.first) = {}
  BY <1>0, FileFirst
<1>2. \A d \in Folders : \A c \in ChainIn(fat, d) : block'[c] = block[c]
  <2>1. \A d \in Folders : \A c \in ChainIn(fat, d) : c # op.file.current /\ c \in Cluster
    BY <1>1, ChainFacts
  <2> QED
    BY <1>0, <2>1 DEF TypeOK
<1>3. TreeStays
  BY <1>0, <1>2, TreeSame
<1>4. LinksAreSound'
  BY <1>0, LinksKeep
<1>5. \A h : IsHead(h)' <=> IsHead(h)
  BY <1>0 DEF IsHead
<1>6. ChainsGrow
  BY <1>0 DEF ChainsGrow
<1> QED
  BY <1>6, <1>0, <1>3, <1>4, <1>5, FirstFacts, NothingHeld, QuietKeeps

-----------------------------------------------------------------------------
(* The steps of CreateEntry before its entry is written.                   *)

(* What a renaming wants to remove is where it was, and unused as it was.  *)
LEMMA RenamesKeep ==
  ASSUME TreeInv, TreeStays, op.kind = "rename", pc \in {"create", "link", "mark"},
         pc' \in {"create", "link", "mark"}, UNCHANGED <<open, directories>>,
         NEW c, op' = [op EXCEPT !.added = c],
         \A h \in TreeFirsts : \A g \in open :
           g.address[1] \in ChainIn(fat', h) => g.address[1] \in ChainIn(fat, h)
  PROVE  Renames'
<1>0. PICK a, d : a = op.old /\ d = op.dir.first
  OBVIOUS
<1>1. /\ a \in EntriesIn(d) /\ ~InUse(a) /\ op.dir \in directories
      /\ EntryAt(a).kind = op.entry.kind /\ Leads(a) = op.entry.first
  BY <1>0 DEF TreeInv, OperationIsSound, Renames, CreatesEntry
<1>2. op'.old = a /\ op'.entry = op.entry /\ op'.dir = op.dir /\ op'.kind = "rename"
  BY <1>0 DEF TreeInv, TypeOK, Operations
<1>3. d \in Folders /\ a \in Tree
  BY <1>0, <1>1, ObjectIsFolder
<1>4. EntryAt(a)' = EntryAt(a) /\ a \in EntriesIn(d)'
  BY <1>1, <1>3 DEF TreeStays
<1>5. Leads(a)' = Leads(a)
  BY <1>4 DEF Leads
<1>6. \A g \in open : g.address # a /\ g.address[1] \notin ChainIn(fat, Leads(a))
  BY <1>1, ChainNow DEF InUse, Leads
<1>7. \A g \in open : g.address[1] \notin ChainIn(fat', Leads(a))
  <2>1. ChainIn(fat', 0) = {}
    <3>1. {} \in SUBSET Cluster /\ IsClosed(fat', {}) /\ 0 \notin Cluster
      BY NumberFacts DEF IsClosed
    <3> QED
      BY <3>1, ChainFacts
  <2>2. CASE Leads(a) = 0
    BY <2>1, <2>2
  <2>3. CASE Leads(a) # 0
    BY <1>3, <1>6, <2>3, FirstFacts
  <2> QED
    BY <2>2, <2>3
<1>8. ~InUse(a)'
  <2>1. \A g \in open' : g.address # a /\ g.address[1] \notin ChainClusters(EntryAt(a).first)'
    <3>1. PICK x : x = Leads(a)
      OBVIOUS
    <3>2. EntryAt(a)'.first = x
      BY <1>5, <3>1 DEF Leads
    <3>3. ChainClusters(EntryAt(a).first)' = ChainClusters(x)'
      BY <3>2 DEF ChainClusters, NextClusterInChain
    <3>4. ChainClusters(x)' = ChainIn(fat', x)
      BY ChainNow
    <3> QED
      BY <1>6, <1>7, <3>1, <3>3, <3>4
  <2>2. \A e \in directories' : e.address # a
    BY <1>1 DEF InUse
  <2> QED
    BY <2>1, <2>2 DEF InUse
<1>9. ~InUse(op.old)' /\ EntryAt(op.old)' = EntryAt(a) /\ op.old' \in EntriesIn(op.dir.first)'
  <2>1. InUse(op.old)' <=> InUse(a)'
    BY <1>2 DEF InUse
  <2>2. EntryAt(op.old)' = EntryAt(a)'
    BY <1>2 DEF EntryAt
  <2>3. op'.dir.first = d
    BY <1>0, <1>2
  <2>4. EntriesIn(op.dir.first)' = EntriesIn(d)'
    BY <2>3 DEF EntriesIn, SlotsOf, ChainClusters, NextClusterInChain, EntryAt
  <2> QED
    BY <1>2, <1>4, <1>8, <2>1, <2>2, <2>4
<1> QED
  BY <1>1, <1>2, <1>9 DEF Renames, Leads

(* What these steps have in common.                                        *)
LEMMA CreationKeeps ==
  ASSUME TreeInv, TypeOK', TreeStays, pc \in {"create", "link", "mark"},
         pc' \in {"create", "link", "mark"}, UNCHANGED <<open, directories>>,
         NEW c, op' = [op EXCEPT !.added = c], LinksAreSound',
         \A h \in TreeFirsts : IsHead(h)' /\ ChainIn(fat, h) \subseteq ChainIn(fat', h),
         \A h \in TreeFirsts : \A g \in open :
           g.address[1] \in ChainIn(fat', h) => g.address[1] \in ChainIn(fat, h),
         op.kind = "mkdir" => \A n : n = op.cluster =>
           IsHead(n)' /\ fat'[n] \notin Cluster /\ block'[n] = EmptyCluster,
         pc' \in {"link", "mark"} =>
           c \in Cluster /\ fat'[c] = FAT32EntryFree /\ block'[c] = EmptyCluster
  PROVE  TreeInv'
<1>1. /\ op'.kind = op.kind /\ op'.dir = op.dir /\ op'.entry = op.entry /\ op'.old = op.old
      /\ op'.file = op.file /\ op'.cluster = op.cluster /\ op'.added = c
  BY DEF TreeInv, TypeOK, Operations
<1>2. op.kind \in {"create", "mkdir", "rename"} /\ op.dir \in directories
      /\ op.entry.kind \in {"file", "dir"}
  BY DEF TreeInv, OperationIsSound, CreatesEntry
<1>3. OperationHasHead'
  <2>1. \A x \in HeldByOperation' : x \in HeldByOperation /\ op.kind = "mkdir" /\ x = op.cluster
    BY <1>1 DEF HeldByOperation
  <2> QED
    BY <2>1, HeadsKeep
<1>4. Renames'
  <2>1. CASE op.kind = "rename"
    BY <2>1, RenamesKeep
  <2>2. CASE op.kind # "rename"
    BY <1>1, <2>2 DEF Renames
  <2> QED
    BY <2>1, <2>2
<1>5. MakesDirectory'
  BY <1>1 DEF MakesDirectory, TreeInv, OperationIsSound
<1>6. CreatesFile'
  BY <1>1 DEF CreatesFile, TreeInv, OperationIsSound
<1>7. CreatesEntry'
  BY <1>1, <1>2 DEF CreatesEntry
<1>8. OperationIsSound'
  BY <1>1, <1>2, <1>4, <1>5, <1>6, <1>7 DEF OperationIsSound, Appends, Releases
<1> QED
  BY <1>3, <1>8, QuietKeeps

(* A directory that is being created has its cluster, which is a head.     *)
LEMMA NewDirectory ==
  ASSUME TreeInv, op.kind = "mkdir", pc # "mkdir"
  PROVE  /\ op.cluster \in Cluster /\ IsHead(op.cluster) /\ fat[op.cluster] \notin Cluster
         /\ block[op.cluster] = EmptyCluster
         /\ op.cluster # RootDirectoryCluster /\ \A a \in Tree : Leads(a) # op.cluster
BY DEF TreeInv, OperationIsSound, MakesDirectory, OperationHasHead, HeldByOperation

(* A free cluster is cleared.                                              *)
LEMMA AddNewClusterKeeps ==
  ASSUME TreeInv, TypeOK', AddNewCluster
  PROVE  TreeInv' /\ TreeStays /\ ChainsGrow
<1>0. TypeOK /\ pc = "create" /\ pc' = "link" /\ UNCHANGED <<fat, open, directories>>
  BY DEF AddNewCluster, TreeInv
<1>1. PICK c \in Cluster : /\ FindNextEmptyCluster(0, c)
                           /\ block' = [block EXCEPT ![c] = EmptyCluster]
                           /\ op' = [op EXCEPT !.added = c]
  BY DEF AddNewCluster
<1>2. fat[c] = FAT32EntryFree
  BY <1>0, <1>1, ClusterFound
<1>3. \A h : IsHead(h) => c \notin ChainIn(fat, h)
  BY <1>0, <1>2, FreeIsUnlinked
<1>4. \A d \in Folders : \A x \in ChainIn(fat, d) : block'[x] = block[x]
  <2>1. \A d \in Folders : \A x \in ChainIn(fat, d) : x # c /\ x \in Cluster
    BY <1>3, HeadFacts, ChainFacts
  <2> QED
    BY <1>0, <1>1, <2>1 DEF TypeOK
<1>5. TreeStays
  BY <1>0, <1>4, TreeSame
<1>6. LinksAreSound'
  BY <1>0, LinksKeep
<1>7. \A h : IsHead(h)' <=> IsHead(h)
  BY <1>0 DEF IsHead
<1>8. op.kind = "mkdir" => \A n : n = op.cluster =>
        IsHead(n)' /\ fat'[n] \notin Cluster /\ block'[n] = EmptyCluster
  BY <1>0, <1>1, <1>7, NewDirectory DEF TypeOK
<1>9. block'[c] = EmptyCluster
  BY <1>0, <1>1 DEF TypeOK
<1>10. ChainsGrow
  BY <1>0 DEF ChainsGrow
<1> QED
  BY <1>10, <1>0, <1>1, <1>2, <1>5, <1>6, <1>7, <1>8, <1>9, FirstFacts, CreationKeeps

(* The directory becomes longer by it.                                     *)
LEMMA LinkNewClusterKeeps ==
  ASSUME TreeInv, TypeOK', LinkNewCluster
  PROVE  TreeInv' /\ TreeStays /\ ChainsGrow
<1>0. /\ TypeOK /\ pc = "link" /\ pc' = "mark" /\ UNCHANGED <<block, open, directories, op>>
      /\ op.added \in Cluster /\ fat[op.added] = FAT32EntryFree /\ block[op.added] = EmptyCluster
      /\ op.dir \in directories
  BY DEF LinkNewCluster, TreeInv, OperationIsSound, CreatesEntry
<1>1. PICK c \in Cluster : c = op.added
  BY <1>0
<1>2. PICK last \in Cluster : IsLastCluster(op.dir.first, last) /\ UpdateFATTableEntry(last, c)
  BY <1>1 DEF LinkNewCluster
<1>3. FATChanges(last, c)
  BY <1>0, <1>2, FATWritten, NumberFacts DEF FATChanges, TypeOK
<1>4. PICK first \in Folders : first = op.dir.first /\ first \in TreeFirsts
  BY <1>0, ObjectIsFolder, FirstFacts
<1>5. last \in ChainIn(fat, first) /\ IsEndOfChain(fat[last])
  BY <1>2, <1>4, ChainNow DEF IsLastCluster
<1>6. /\ \A h : IsHead(h) => /\ IsHead(h)' /\ ChainIn(fat, h) \subseteq ChainIn(fat', h)
                             /\ ChainIn(fat', h) \subseteq ChainIn(fat, h) \cup {c}
                             /\ c \notin ChainIn(fat, h)
      /\ Injective(fat') /\ c # last
      /\ \A d \in Cluster : fat'[d] \in Cluster /\ fat'[fat'[d]] = FAT32EntryFree => fat'[d] = c
  BY <1>0, <1>1, <1>3, <1>5, Linked
<1>7. TreeStays
  BY <1>0, <1>1, <1>6, HeadFacts, TreeSame
<1>8. LinksAreSound'
  BY <1>0, <1>1, <1>6 DEF LinksAreSound
<1>9. \A g \in open : g.address[1] # c
  <2> TAKE g \in open
  <2>1. g.address \in Tree
    BY DEF TreeInv, FilesAreKnown, OpenFilesKeepTheirEntries
  <2>2. PICK d \in Folders : g.address[1] \in ChainIn(fat, d)
    BY <2>1, TreeByFolder, EntryPlace
  <2> QED
    BY <1>6, <2>2, HeadFacts
<1>10. \A h \in TreeFirsts : \A g \in open :
         g.address[1] \in ChainIn(fat', h) => g.address[1] \in ChainIn(fat, h)
  BY <1>6, <1>9, FirstFacts
<1>11. op.kind = "mkdir" => \A n : n = op.cluster =>
         IsHead(n)' /\ fat'[n] \notin Cluster /\ block'[n] = EmptyCluster
  <2> SUFFICES ASSUME op.kind = "mkdir", NEW n, n = op.cluster
               PROVE  IsHead(n)' /\ fat'[n] \notin Cluster /\ block'[n] = EmptyCluster
    OBVIOUS
  <2>1. /\ n \in Cluster /\ IsHead(n) /\ fat[n] \notin Cluster /\ block[n] = EmptyCluster
        /\ n # RootDirectoryCluster /\ \A a \in Tree : Leads(a) # n
    BY <1>0, NewDirectory
  <2>2. n # first
    BY <2>1, <1>4, TreeByFolder DEF Folders
  <2>3. n \notin ChainIn(fat, first)
    BY <2>1, <2>2, HeadApart DEF IsHead
  <2>4. n # last
    BY <1>5, <2>3
  <2> QED
    BY <1>0, <1>3, <1>6, <2>1, <2>4 DEF FATChanges
<1>12. fat'[c] = FAT32EntryFree
  BY <1>0, <1>1, <1>3, <1>6 DEF FATChanges
<1>13. op' = [op EXCEPT !.added = c]
  BY <1>0, <1>1 DEF TypeOK, Operations
<1>14. ChainsGrow
  BY <1>6 DEF ChainsGrow
<1> QED
  BY <1>14, <1>0, <1>1, <1>6, <1>7, <1>8, <1>10, <1>11, <1>12, <1>13, FirstFacts, CreationKeeps

(* It is marked.                                                           *)
LEMMA MarkNewClusterKeeps ==
  ASSUME TreeInv, TypeOK', MarkNewCluster
  PROVE  TreeInv' /\ TreeStays /\ ChainsGrow
<1>0. /\ TypeOK /\ pc = "mark" /\ pc' = "create" /\ UNCHANGED <<block, open, directories, op>>
      /\ op.added \in Cluster /\ fat[op.added] = FAT32EntryFree
  BY DEF MarkNewCluster, TreeInv, OperationIsSound, CreatesEntry
<1>1. PICK c \in Cluster : c = op.added
  BY <1>0
<1>2. FATChanges(c, FAT32EntryAllocatedAndEndOfFile)
  BY <1>0, <1>1, FATWritten, NumberFacts DEF MarkNewCluster, FATChanges, TypeOK
<1>3. /\ \A first : ChainIn(fat', first) = ChainIn(fat, first)
      /\ \A h : IsHead(h) => IsHead(h)'
      /\ LinksAreSound'
  BY <1>0, <1>1, <1>2, Marked DEF LinksAreSound, TreeInv
<1>4. TreeStays
  BY <1>0, <1>3, TreeSame
<1>5. op.kind = "mkdir" => \A n : n = op.cluster =>
        IsHead(n)' /\ fat'[n] \notin Cluster /\ block'[n] = EmptyCluster
  <2> SUFFICES ASSUME op.kind = "mkdir", NEW n, n = op.cluster
               PROVE  IsHead(n)' /\ fat'[n] \notin Cluster /\ block'[n] = EmptyCluster
    OBVIOUS
  <2>1. n \in Cluster /\ IsHead(n) /\ fat[n] \notin Cluster /\ block[n] = EmptyCluster
    BY <1>0, NewDirectory
  <2>2. n # c
    BY <1>0, <1>1, <2>1 DEF IsHead
  <2> QED
    BY <1>0, <1>2, <1>3, <2>1, <2>2 DEF FATChanges
<1>6. op' = [op EXCEPT !.added = c]
  BY <1>0, <1>1 DEF TypeOK, Operations
<1>7. \A h \in TreeFirsts : IsHead(h)' /\ ChainIn(fat', h) = ChainIn(fat, h)
  BY <1>3, FirstFacts
<1>8. ChainsGrow
  BY <1>3 DEF ChainsGrow
<1> QED
  BY <1>8, <1>0, <1>3, <1>4, <1>5, <1>6, <1>7, CreationKeeps

-----------------------------------------------------------------------------
(* Directories and files that begin.                                       *)

(* CreateDirectory clears a free cluster.                                  *)
LEMMA CreateDirectoryKeeps ==
  ASSUME TreeInv, TypeOK', NEW name, CreateDirectory(name)
  PROVE  TreeInv' /\ TreeStays /\ ChainsGrow
<1>0. TypeOK /\ pc = "idle" /\ pc' = "mkdir" /\ UNCHANGED <<fat, open, directories>>
  BY DEF CreateDirectory, Begin, TreeInv
<1>1. PICK c \in Cluster :
        /\ FindNextEmptyCluster(0, c)
        /\ block' = [block EXCEPT ![c] = EmptyCluster]
        /\ op' = [NoOperation EXCEPT !.kind = "mkdir", !.cluster = c,
                    !.entry = [kind |-> "dir", name |-> name, first |-> c]]
  BY DEF CreateDirectory, Begin
<1>2. fat[c] = FAT32EntryFree
  BY <1>0, <1>1, ClusterFound
<1>3. \A h : IsHead(h) => c \notin ChainIn(fat, h)
  BY <1>0, <1>2, FreeIsUnlinked
<1>4. \A d \in Folders : \A x \in ChainIn(fat, d) : block'[x] = block[x]
  <2>1. \A d \in Folders : \A x \in ChainIn(fat, d) : x # c /\ x \in Cluster
    BY <1>3, HeadFacts, ChainFacts
  <2> QED
    BY <1>0, <1>1, <2>1 DEF TypeOK
<1>5. TreeStays
  BY <1>0, <1>4, TreeSame
<1>6. LinksAreSound'
  BY <1>0, LinksKeep
<1>7. \A h : IsHead(h)' <=> IsHead(h)
  BY <1>0 DEF IsHead
<1>8. /\ op'.kind = "mkdir" /\ op'.cluster = c /\ op'.dir = RootDirectory
      /\ op'.entry = [kind |-> "dir", name |-> name, first |-> c]
  BY <1>1 DEF NoOperation
<1>9. OperationHasHead'
  BY <1>0, <1>8 DEF OperationHasHead, HeldByOperation
<1>10. fat'[c] = FAT32EntryFree /\ fat'[c] \notin Cluster /\ block'[c] = EmptyCluster
  BY <1>0, <1>1, <1>2, NumberFacts DEF TypeOK
<1>11. OperationIsSound'
  BY <1>0, <1>8, <1>10 DEF OperationIsSound, MakesDirectory, CreatesFile, Renames, CreatesEntry,
                           Appends, Releases
<1>12. ChainsGrow
  BY <1>0 DEF ChainsGrow
<1> QED
  BY <1>12, <1>0, <1>5, <1>6, <1>7, <1>9, <1>11, FirstFacts, QuietKeeps

(* It is marked, and the head of a chain from then on.                     *)
LEMMA MarkDirectoryClusterKeeps ==
  ASSUME TreeInv, TypeOK', MarkDirectoryCluster
  PROVE  TreeInv' /\ TreeStays /\ ChainsGrow
<1>0. /\ TypeOK /\ pc = "mkdir" /\ pc' = "create" /\ UNCHANGED <<block, open, directories, op>>
      /\ op.kind = "mkdir" /\ op.cluster \in Cluster /\ fat[op.cluster] = FAT32EntryFree
      /\ block[op.cluster] = EmptyCluster /\ op.dir = RootDirectory
      /\ op.entry.kind = "dir" /\ op.entry.first = op.cluster
  BY DEF MarkDirectoryCluster, TreeInv, OperationIsSound, MakesDirectory
<1>1. PICK c \in Cluster : c = op.cluster
  BY <1>0
<1>2. FATChanges(c, FAT32EntryAllocatedAndEndOfFile)
  BY <1>0, <1>1, FATWritten, NumberFacts DEF MarkDirectoryCluster, FATChanges, TypeOK
<1>3. Unlinked(fat, c)
  BY <1>0, <1>1, FreeIsUnlinked
<1>4. /\ \A first : ChainIn(fat', first) = ChainIn(fat, first)
      /\ \A h : IsHead(h) => IsHead(h)'
      /\ IsHead(c)' /\ LinksAreSound'
  BY <1>0, <1>1, <1>2, <1>3, Marked DEF LinksAreSound, TreeInv
<1>5. TreeStays
  BY <1>0, <1>4, TreeSame
<1>6. c # RootDirectoryCluster /\ \A a \in Tree : Leads(a) # c
  <2>1. ~IsHead(c) /\ c # 0
    BY <1>0, <1>1, NumberFacts DEF IsHead
  <2> QED
    BY <2>1, HeadFacts DEF TreeInv, TreeHasHeads
<1>7. HeldByOperation' = {c}
  BY <1>0, <1>1 DEF HeldByOperation
<1>8. OperationHasHead'
  <2>1. Tree' = Tree /\ \A a \in Tree : Leads(a)' = Leads(a)
    BY <1>5 DEF TreeStays, Leads
  <2> QED
    BY <1>4, <1>6, <1>7, <2>1 DEF OperationHasHead
<1>9. fat'[c] \notin Cluster /\ RootDirectory \in directories
  BY <1>2, NumberFacts DEF FATChanges, TreeInv, DirectoriesAreKnown
<1>10. OperationIsSound'
  BY <1>0, <1>1, <1>9 DEF OperationIsSound, MakesDirectory, CreatesFile, Renames, CreatesEntry,
                          Appends, Releases
<1>11. ChainsGrow
  BY <1>4 DEF ChainsGrow
<1> QED
  BY <1>11, <1>0, <1>4, <1>5, <1>8, <1>10, FirstFacts, QuietKeeps

(* An entry is in one directory.                                           *)
LEMMA OneFolder ==
  ASSUME TreeInv, NEW d \in Folders, NEW e \in Folders, NEW a \in EntriesIn(d), a \in EntriesIn(e)
  PROVE  d = e
<1>1. a[1] \in ChainIn(fat, d) /\ a[1] \in ChainIn(fat, e)
  BY EntryPlace
<1> QED
  BY <1>1, HeadFacts

(* An entry is in one directory, whose name is one.                        *)
LEMMA OneName ==
  ASSUME TreeInv, pc # "remove_old", NEW a, NEW m, NEW n, IsIn(a, m), IsIn(a, n)
  PROVE  m = n
<1>1. \A s \in Subdirectories : Leads(s) \in Folders /\ Leads(s) # RootDirectoryCluster
  BY TreeByFolder DEF Folders, TreeInv, TreeHasHeads
<1>2. \A s, t \in Subdirectories : Leads(s) = Leads(t) => s = t
  BY TreeByFolder DEF TreeInv, TreeHasHeads
<1>3. RootDirectoryCluster \in Folders
  BY TreeByFolder
<1> QED
  BY <1>1, <1>2, <1>3, OneFolder DEF IsIn

(* A file of the tree is open once at most: its path is that of its        *)
(* directory and its name, and there is one way to spell it.               *)
LEMMA OneHandle ==
  ASSUME TreeInv, CarefulProgram, pc # "remove_old", NEW g \in open, NEW h \in open,
         g.address = h.address
  PROVE  g = h
<1>1. PICK a : a = g.address /\ a = h.address
  OBVIOUS
<1>2. /\ EntryAt(a) = [kind |-> "file", name |-> g.path.name, first |-> g.first]
      /\ EntryAt(a) = [kind |-> "file", name |-> h.path.name, first |-> h.first]
  BY <1>1 DEF TreeInv, FilesAreKnown, OpenFilesKeepTheirEntries
<1>3. g.path.name = h.path.name
  BY <1>2
<1>4. IsIn(a, g.path.dir) /\ IsIn(a, h.path.dir) /\ g.path.case = h.path.case
  BY <1>1 DEF TreeInv, FilesAreKnown, CarefulProgram
<1>5. g.path.dir = h.path.dir
  BY <1>4, OneName
<1>6. g.path \in Paths /\ h.path \in Paths
  BY DEF TreeInv, TypeOK, Handles
<1>7. g.path = h.path
  BY <1>3, <1>4, <1>5, <1>6 DEF Paths
<1> QED
  BY <1>7 DEF TreeInv, FilesAreKnown

(* The entry of a file gets its first cluster: it is the entry of no other *)
(* open file, and no directory changes.                                    *)
LEMMA SetDirectoryEntryFirstClusterKeeps ==
  ASSUME TreeInv, TypeOK', CarefulProgram, SetDirectoryEntryFirstCluster
  PROVE  TreeInv' /\ TreeFirsts \cup HeldByOperation \subseteq TreeFirsts'
<1> DEFINE h == op.file
           moved == [h EXCEPT !.current = op.added, !.first = IF @ = 0 THEN op.added ELSE @]
<1>0. /\ TypeOK /\ pc = "publish" /\ pc' = "write" /\ op.kind = "append" /\ h.first = 0
      /\ h \in open /\ h \in Handles /\ UNCHANGED <<fat, directories>> /\ op.added \in Cluster
      /\ open' = (open \ {h}) \cup {moved} /\ op' = [op EXCEPT !.file = moved]
      /\ WriteSlot(h.address, [EntryAt(h.address) EXCEPT !.first = op.added])
  <2>1. TypeOK /\ pc = "publish" /\ op.kind = "append" /\ op.file.first = 0 /\ op.file \in open
        /\ op.added \in Cluster
    BY DEF SetDirectoryEntryFirstCluster, TreeInv, OperationIsSound, Appends
  <2> QED
    BY <2>1 DEF SetDirectoryEntryFirstCluster, MoveTo, TypeOK, Operations, adapterVars
<1>1. PICK a, c, m, p : a = h.address /\ c = op.added /\ m = moved /\ p = h.path
  OBVIOUS
<1>2. /\ m.path = p /\ m.address = a /\ m.first = c /\ m.current = c
      /\ open' = (open \ {h}) \cup {m}
  BY <1>0, <1>1 DEF Handles
<1>3. op'.kind = "append" /\ op'.file = m
  BY <1>0, <1>1 DEF TypeOK, Operations
<1> HIDE DEF moved, h
<1>4. (\A g \in open : HandleKnown(g)) /\ PathsDiffer
  BY FilesByHandle DEF TreeInv
<1>5. /\ a \in Tree /\ EntryAt(a) = [kind |-> "file", name |-> p.name, first |-> 0]
      /\ p.case \in Cases /\ IsIn(a, p.dir)
  BY <1>0, <1>1, <1>4 DEF HandleKnown
<1>6. a \in Cluster \X Indices /\ EntryAt(a) \in Entry
  BY <1>5, HeadFacts
<1>7. /\ EntryAt(a)' = [kind |-> "file", name |-> p.name, first |-> c]
      /\ \A b \in Cluster \X Indices : b # a => EntryAt(b)' = EntryAt(b)
  <2>1. [EntryAt(a) EXCEPT !.first = c] \in Entry
    BY <1>0, <1>1, <1>6 DEF Entry
  <2>2. [EntryAt(a) EXCEPT !.first = c] = [kind |-> "file", name |-> p.name, first |-> c]
    BY <1>5
  <2> QED
    BY <1>0, <1>1, <1>6, <2>1, <2>2, SlotWritten DEF TypeOK
<1>8. \A b \in Cluster \X Indices : EntryAt(b)'.kind = EntryAt(b).kind /\ EntryAt(b)'.name = EntryAt(b).name
  BY <1>5, <1>7
<1>9. \A d : EntriesIn(d)' = EntriesIn(d)
  <2>1. ASSUME NEW d PROVE EntriesIn(d)' = EntriesIn(d)
    <3>1. SlotsOf(d)' = SlotsOf(d) /\ SlotsOf(d) \subseteq Cluster \X Indices
      BY <1>0, SlotFacts
    <3> QED
      BY <1>8, <3>1 DEF EntriesIn
  <2> QED
    BY <2>1
<1>10. Subdirectories' = Subdirectories /\ \A s \in Subdirectories : s # a /\ EntryAt(s)' = EntryAt(s)
  <2>1. EntriesIn(RootDirectoryCluster) \subseteq Cluster \X Indices
    BY <1>0, EntryFacts
  <2>2. Subdirectories' = Subdirectories
    BY <1>8, <1>9, <2>1 DEF Subdirectories
  <2>3. \A s \in Subdirectories : s # a
    BY <1>5 DEF Subdirectories
  <2> QED
    BY <1>7, <2>1, <2>2, <2>3 DEF Subdirectories
<1>11. Folders' = Folders
  BY <1>10 DEF Folders, Leads
<1>12. Tree' = Tree
  BY <1>9, <1>11, TreeByFolder
<1>13. /\ \A b \in Tree : b # a => Leads(b)' = Leads(b)
       /\ Leads(a)' = c /\ c # 0
  BY <1>0, <1>1, <1>7, HeadFacts, NumberFacts DEF Leads
<1>14. IsHead(c) /\ c # RootDirectoryCluster /\ \A b \in Tree : Leads(b) # c
  BY <1>0, <1>1 DEF TreeInv, OperationHasHead, HeldByOperation
<1>15. TreeHasHeads'
  <2>1. \A x : IsHead(x)' <=> IsHead(x)
    BY <1>0 DEF IsHead
  <2>2. ASSUME NEW b \in Tree, Leads(b)' # 0
        PROVE  IsHead(Leads(b))' /\ Leads(b)' # RootDirectoryCluster
    <3>1. PICK x : x = Leads(b)'
      OBVIOUS
    <3>2. IsHead(x) /\ x # RootDirectoryCluster
      BY <1>13, <1>14, <2>2, <3>1, HeadFacts
    <3> QED
      BY <1>0, <3>1, <3>2 DEF IsHead
  <2>3. \A s \in Subdirectories : Leads(s)' # 0
    BY <1>10, <1>13, TreeByFolder DEF TreeInv, TreeHasHeads
  <2>4. \A x, y \in Tree : Leads(x)' = Leads(y)' /\ Leads(x)' # 0 => x = y
    BY <1>0, <1>13, <1>14 DEF TreeInv, TreeHasHeads
  <2> QED
    BY <1>10, <1>12, <2>1, <2>2, <2>3, <2>4 DEF TreeHasHeads, TreeInv
<1>16. NamesUnique'
  <2>1. \A d \in Folders : \A b \in EntriesIn(d) :
          EntryAt(b)'.kind = EntryAt(b).kind /\ EntryAt(b)'.name = EntryAt(b).name
    BY <1>0, <1>8, EntryFacts
  <2> QED
    BY <1>9, <1>11, <2>1, NamesByFolder DEF TreeInv
<1>17. DirectoriesAreKnown'
  BY <1>0, <1>10 DEF DirectoriesAreKnown, TreeInv
<1>18. \A b, n : IsIn(b, n) => IsIn(b, n)'
  <2>1. \A s \in Subdirectories : EntriesIn(Leads(s))' = EntriesIn(Leads(s))
    <3> TAKE s \in Subdirectories
    <3>1. PICK x : x = Leads(s)
      OBVIOUS
    <3>2. Leads(s)' = x
      BY <1>10, <3>1 DEF Leads
    <3>3. EntriesIn(Leads(s))' = EntriesIn(x)'
      BY <3>2 DEF EntriesIn, SlotsOf, ChainClusters, NextClusterInChain, EntryAt
    <3> QED
      BY <1>9, <3>1, <3>3
  <2> QED
    BY <1>9, <1>10, <2>1 DEF IsIn
<1>19. \A g \in open' : HandleKnown(g)'
  <2>1. ASSUME NEW g \in open, g # h PROVE HandleKnown(g)'
    <3>1. HandleKnown(g) /\ g.address # a
      BY <1>0, <1>1, <1>4, <2>1, OneHandle
    <3>2. g.address \in Cluster \X Indices
      BY <3>1, HeadFacts DEF HandleKnown
    <3>3. EntryAt(g.address)' = EntryAt(g.address)
      BY <1>7, <3>1, <3>2
    <3> QED
      BY <1>0, <1>12, <1>18, <3>1, <3>3 DEF HandleKnown
  <2>2. HandleKnown(m)'
    <3>1. c \in ChainIn(fat', c)
      BY <1>0, <1>1, ChainFacts
    <3>2. IsIn(a, p.dir)'
      BY <1>5, <1>18
    <3> QED
      BY <1>2, <1>5, <1>7, <1>12, <3>1, <3>2 DEF HandleKnown
  <2> QED
    BY <1>2, <2>1, <2>2
<1>20. PathsDiffer'
  BY <1>0, <1>1, <1>2, <1>4 DEF PathsDiffer
<1>21. LinksAreSound' /\ OperationHasHead'
  BY <1>0, <1>3, LinksKeep, HoldsNothing
<1>22. OperationIsSound'
  BY <1>0, <1>2, <1>3, <1>13 DEF OperationIsSound, MakesDirectory, CreatesFile, Renames, CreatesEntry,
                                 Appends, Releases
<1>23. TreeFirsts \cup HeldByOperation \subseteq TreeFirsts'
  <2>1. HeldByOperation = {c} /\ Leads(a) = 0
    BY <1>0, <1>1, <1>5 DEF HeldByOperation, Leads
  <2> QED
    BY <1>5, <1>12, <1>13, <2>1 DEF TreeFirsts
<1> QED
  BY <1>23, <1>15, <1>16, <1>17, <1>19, <1>20, <1>21, <1>22, FilesByHandle DEF TreeInv

-----------------------------------------------------------------------------
(* An entry appears in the tree.                                           *)

\* The entry is written to a free slot of the directory, and the directory
\* it leads to, if it is the entry of one, is empty or in the tree already.
EntryAppears(a, d, entry) ==
  /\ d \in Folders /\ a \in SlotsOf(d) /\ IsUnused(a)
  /\ entry \in Entry /\ entry.kind \in {"file", "dir"}
  /\ WriteSlot(a, entry) /\ UNCHANGED fat
  /\ entry.kind = "dir" /\ d = RootDirectoryCluster =>
       entry.first \in Folders \/ EntriesIn(entry.first)' = {}

(* One slot changes, and so one directory does.                            *)
LEMMA AppearsInFolder ==
  ASSUME TreeInv, NEW a, NEW d, NEW entry, EntryAppears(a, d, entry)
  PROVE  /\ a \in Cluster \X Indices /\ a \notin Tree /\ EntryAt(a)' = entry
         /\ \A b \in Cluster \X Indices : b # a => EntryAt(b)' = EntryAt(b)
         /\ \A b \in Tree : EntryAt(b)' = EntryAt(b)
         /\ EntriesIn(d)' = EntriesIn(d) \cup {a}
         /\ \A e \in Folders : e # d => EntriesIn(e)' = EntriesIn(e)
<1>1. a \in Cluster \X Indices /\ a[1] \in ChainIn(fat, d) /\ EntryAt(a).kind = "unused"
  BY SlotFacts DEF EntryAppears, IsUnused
<1>2. EntryAt(a)' = entry /\ \A b \in Cluster \X Indices : b # a => EntryAt(b)' = EntryAt(b)
  BY <1>1, SlotWritten DEF EntryAppears, TreeInv, TypeOK
<1>3. a \notin Tree
  BY <1>1, HeadFacts
<1>4. \A b \in Tree : EntryAt(b)' = EntryAt(b)
  BY <1>2, <1>3, HeadFacts
<1>5. \A e : SlotsOf(e)' = SlotsOf(e) /\ SlotsOf(e) \subseteq Cluster \X Indices
  BY SlotFacts DEF EntryAppears
<1>6. EntriesIn(d)' = EntriesIn(d) \cup {a}
  BY <1>1, <1>2, <1>5 DEF EntryAppears, EntriesIn
<1>7. ASSUME NEW e \in Folders, e # d PROVE EntriesIn(e)' = EntriesIn(e)
  <2>1. a[1] \notin ChainIn(fat, e)
    BY <1>1, <1>7, HeadFacts DEF EntryAppears
  <2>2. a \notin SlotsOf(e)
    BY <2>1, SlotFacts
  <2> QED
    BY <1>2, <1>5, <2>2 DEF EntriesIn
<1> QED
  BY <1>1, <1>2, <1>3, <1>4, <1>6, <1>7

(* The tree is what it was, and the entry.                                 *)
LEMMA AppearsInTree ==
  ASSUME TreeInv, NEW a, NEW d, NEW entry, EntryAppears(a, d, entry)
  PROVE  /\ Tree' = Tree \cup {a}
         /\ Subdirectories' = IF d = RootDirectoryCluster /\ entry.kind = "dir"
                              THEN Subdirectories \cup {a} ELSE Subdirectories
         /\ Folders \subseteq Folders' /\ \A e \in Folders' \ Folders : EntriesIn(e)' = {}
         /\ \A b, n : IsIn(b, n) => IsIn(b, n)'
<1>1. /\ a \in Cluster \X Indices /\ a \notin Tree /\ EntryAt(a)' = entry
      /\ \A b \in Tree : EntryAt(b)' = EntryAt(b)
      /\ EntriesIn(d)' = EntriesIn(d) \cup {a}
      /\ \A e \in Folders : e # d => EntriesIn(e)' = EntriesIn(e)
  BY AppearsInFolder
<1>2. d \in Folders /\ (entry.kind = "dir" /\ d = RootDirectoryCluster =>
        entry.first \in Folders \/ EntriesIn(entry.first)' = {})
  BY DEF EntryAppears
<1>3. RootDirectoryCluster \in Folders /\ EntriesIn(RootDirectoryCluster) \subseteq Tree
  BY TreeByFolder
<1>4. Subdirectories' = IF d = RootDirectoryCluster /\ entry.kind = "dir"
                        THEN Subdirectories \cup {a} ELSE Subdirectories
  <2>1. CASE d = RootDirectoryCluster
    BY <1>1, <1>3, <2>1 DEF Subdirectories
  <2>2. CASE d # RootDirectoryCluster
    <3>1. EntriesIn(RootDirectoryCluster)' = EntriesIn(RootDirectoryCluster)
      BY <1>1, <1>3, <2>2
    <3> QED
      BY <1>1, <1>3, <2>2, <3>1 DEF Subdirectories
  <2> QED
    BY <2>1, <2>2
<1>5. \A s \in Subdirectories : s \in Subdirectories' /\ Leads(s)' = Leads(s) /\ EntryAt(s)' = EntryAt(s)
  BY <1>1, <1>4, TreeByFolder DEF Leads
<1>6. Folders \subseteq Folders'
  BY <1>5 DEF Folders
<1>7. Leads(a)' = entry.first
  BY <1>1 DEF Leads
<1>8. \A e \in Folders' \ Folders : EntriesIn(e)' = {}
  <2> TAKE e \in Folders' \ Folders
  <2>1. PICK s \in Subdirectories' : e = Leads(s)'
    BY <1>3 DEF Folders
  <2>2. s = a /\ d = RootDirectoryCluster /\ entry.kind = "dir"
    BY <1>4, <1>5, <2>1 DEF Folders
  <2>3. PICK f : f = entry.first
    OBVIOUS
  <2>4. f \notin Folders /\ e = f
    BY <1>7, <2>1, <2>2, <2>3
  <2> QED
    BY <1>2, <2>2, <2>3, <2>4
<1>9. Tree' = Tree \cup {a}
  <2>1. \A e \in Folders : EntriesIn(e)' = EntriesIn(e) \/ (e = d /\ EntriesIn(e)' = EntriesIn(e) \cup {a})
    BY <1>1
  <2> QED
    BY <1>1, <1>2, <1>6, <1>8, <2>1, TreeByFolder
<1>10. ASSUME NEW b, NEW n, IsIn(b, n) PROVE IsIn(b, n)'
  <2>1. CASE n = NoName /\ b \in EntriesIn(RootDirectoryCluster)
    <3>1. b \in EntriesIn(RootDirectoryCluster)'
      BY <1>1, <1>3, <2>1
    <3> QED
      BY <2>1, <3>1 DEF IsIn
  <2>2. CASE \E s \in Subdirectories : EntryAt(s).name = n /\ b \in EntriesIn(Leads(s))
    <3>0. PICK s \in Subdirectories : EntryAt(s).name = n /\ b \in EntriesIn(Leads(s))
      BY <2>2
    <3>1. PICK e : e = Leads(s) /\ EntryAt(s).name = n /\ b \in EntriesIn(e)
      BY <3>0
    <3>2. e \in Folders /\ b \in EntriesIn(e)'
      BY <1>1, <3>1 DEF Folders
    <3>3. Leads(s)' = e /\ EntryAt(s)'.name = n /\ s \in Subdirectories'
      BY <1>5, <3>1
    <3>4. EntriesIn(Leads(s))' = EntriesIn(e)'
      BY <3>3 DEF EntriesIn, SlotsOf, ChainClusters, NextClusterInChain, EntryAt
    <3> QED
      BY <3>2, <3>3, <3>4 DEF IsIn
  <2> QED
    BY <1>10, <2>1, <2>2 DEF IsIn
<1> QED
  BY <1>4, <1>6, <1>8, <1>9, <1>10

(* What CreateEntry is about to write.                                     *)
LEMMA NewEntry ==
  ASSUME TreeInv, pc = "create", NEW d, d = op.dir.first, NEW entry, entry = op.entry
  PROVE  /\ d \in Folders /\ op.dir \in directories
         /\ entry \in Entry /\ entry.kind \in {"file", "dir"}
         /\ op.kind \in {"create", "mkdir", "rename"}
         /\ op.kind = "create" => entry.kind = "file" /\ entry.first = 0
         /\ op.kind = "mkdir" => /\ entry.kind = "dir" /\ entry.first = op.cluster
                                 /\ op.dir = RootDirectory /\ d = RootDirectoryCluster
         /\ op.kind = "rename" => /\ op.old \in EntriesIn(d) /\ op.old \in Tree /\ ~InUse(op.old)
                                  /\ EntryAt(op.old).kind = entry.kind /\ Leads(op.old) = entry.first
         /\ entry.first # 0 => /\ IsHead(entry.first) /\ entry.first # RootDirectoryCluster
                               /\ \A b \in Tree : Leads(b) = entry.first
                                    => op.kind = "rename" /\ b = op.old
         /\ entry.kind = "dir" /\ d = RootDirectoryCluster => entry.first # 0
<1>1. /\ op.kind \in {"create", "mkdir", "rename"} /\ op.dir \in directories
      /\ entry.kind \in {"file", "dir"} /\ entry \in Entry
  BY DEF TreeInv, TypeOK, Operations, OperationIsSound, CreatesEntry
<1>2. d \in Folders /\ \A a \in EntriesIn(d) : a \in Tree
  BY <1>1, ObjectIsFolder
<1>3. CASE op.kind = "create"
  <2>1. entry.kind = "file" /\ entry.first = 0
    BY <1>3 DEF TreeInv, OperationIsSound, CreatesFile
  <2> QED
    BY <1>1, <1>2, <1>3, <2>1
<1>4. CASE op.kind = "mkdir"
  <2>1. entry.kind = "dir" /\ entry.first = op.cluster /\ op.dir = RootDirectory
    BY <1>4 DEF TreeInv, OperationIsSound, MakesDirectory
  <2>2. d = RootDirectoryCluster
    BY <2>1 DEF RootDirectory
  <2>3. /\ IsHead(op.cluster) /\ op.cluster # RootDirectoryCluster /\ op.cluster # 0
        /\ \A b \in Tree : Leads(b) # op.cluster
    BY <1>4, NewDirectory, NumberFacts
  <2>4. PICK x : x = op.cluster
    OBVIOUS
  <2> QED
    BY <1>1, <1>2, <1>4, <2>1, <2>2, <2>3, <2>4
<1>5. CASE op.kind = "rename"
  <2>1. PICK o : o = op.old
    OBVIOUS
  <2>2. /\ o \in EntriesIn(d) /\ ~InUse(o) /\ EntryAt(o).kind = entry.kind
        /\ Leads(o) = entry.first
    BY <1>5, <2>1 DEF TreeInv, OperationIsSound, Renames
  <2>3. o \in Tree
    BY <1>2, <2>2
  <2>4. entry.first # 0 => /\ IsHead(entry.first) /\ entry.first # RootDirectoryCluster
                           /\ \A b \in Tree : Leads(b) = entry.first => b = o
    BY <2>2, <2>3, HeadFacts DEF TreeInv, TreeHasHeads
  <2>5. entry.kind = "dir" /\ d = RootDirectoryCluster => entry.first # 0
    BY <2>2 DEF TreeInv, TreeHasHeads, Subdirectories
  <2> QED
    BY <1>1, <1>2, <1>5, <2>1, <2>2, <2>3, <2>4, <2>5
<1> QED
  BY <1>1, <1>3, <1>4, <1>5

(* It makes the entry appear: a new directory is empty.                    *)
LEMMA CreationAppears ==
  ASSUME TreeInv, pc = "create", NEW d, d = op.dir.first, NEW entry, entry = op.entry,
         NEW a \in EmptyBlocksOfEntries(d), WriteSlot(a, entry), UNCHANGED fat
  PROVE  EntryAppears(a, d, entry)
<1>1. a \in SlotsOf(d) /\ IsUnused(a)
  BY DEF EmptyBlocksOfEntries
<1>2. /\ d \in Folders /\ entry \in Entry /\ entry.kind \in {"file", "dir"}
      /\ op.kind \in {"create", "mkdir", "rename"}
  BY NewEntry
<1>3. ASSUME entry.kind = "dir", d = RootDirectoryCluster
      PROVE  entry.first \in Folders \/ EntriesIn(entry.first)' = {}
  <2>1. op.kind # "create"
    BY <1>3, NewEntry
  <2>2. CASE op.kind = "rename"
    <3>1. op.old \in Subdirectories /\ Leads(op.old) = entry.first
      BY <1>3, <2>2, NewEntry DEF Subdirectories
    <3> QED
      BY <3>1 DEF Folders
  <2>3. CASE op.kind = "mkdir"
    <3>1. PICK n : n = op.cluster /\ n = entry.first
      BY <2>3, NewEntry
    <3>2. /\ n \in Cluster /\ IsHead(n) /\ fat[n] \notin Cluster /\ block[n] = EmptyCluster
          /\ n # RootDirectoryCluster
      BY <2>3, <3>1, NewDirectory
    <3>3. n \notin ChainIn(fat, d)
      BY <1>3, <3>2, HeadApart DEF IsHead
    <3>4. a \in Cluster \X Indices /\ a[1] \in ChainIn(fat, d)
      BY <1>1, SlotFacts
    <3>5. block'[n] = EmptyCluster
      BY <3>2, <3>3, <3>4 DEF WriteSlot, TreeInv, TypeOK
    <3>6. ChainIn(fat', n) \subseteq {n}
      <4>1. {n} \in SUBSET Cluster /\ IsClosed(fat', {n})
        BY <3>2 DEF IsClosed
      <4> QED
        BY <4>1, ChainFacts
    <3>7. \A i \in Indices : EmptyCluster[i].kind = "unused"
      BY DEF EmptyCluster, NotAnEntry
    <3>8. EntriesIn(n)' = {}
      BY <3>5, <3>6, <3>7, EntryPlace
    <3> QED
      BY <3>1, <3>8
  <2> QED
    BY <1>2, <2>1, <2>2, <2>3
<1> QED
  BY <1>1, <1>2, <1>3 DEF EntryAppears

(* The heads of the tree are heads, the new entry's among them: only the   *)
(* entry that a renaming removes next leads to the same.                   *)
LEMMA CreationHasHeads ==
  ASSUME TreeInv, pc = "create", NEW d, d = op.dir.first, NEW entry, entry = op.entry,
         NEW a, EntryAppears(a, d, entry),
         op.kind = "rename" => pc' = "remove_old" /\ op' = op
  PROVE  TreeHasHeads'
<1>1. /\ a \notin Tree /\ EntryAt(a)' = entry /\ \A b \in Tree : EntryAt(b)' = EntryAt(b)
      /\ Tree' = Tree \cup {a} /\ UNCHANGED fat
      /\ Subdirectories' = IF d = RootDirectoryCluster /\ entry.kind = "dir"
                           THEN Subdirectories \cup {a} ELSE Subdirectories
  BY AppearsInFolder, AppearsInTree DEF EntryAppears
<1>2. Leads(a)' = entry.first /\ \A b \in Tree : Leads(b)' = Leads(b)
  BY <1>1 DEF Leads
<1>3. \A x : IsHead(x)' <=> IsHead(x)
  BY <1>1 DEF IsHead
<1>4. /\ entry.first # 0 => /\ IsHead(entry.first) /\ entry.first # RootDirectoryCluster
                            /\ \A b \in Tree : Leads(b) = entry.first
                                 => op.kind = "rename" /\ b = op.old
      /\ entry.kind = "dir" /\ d = RootDirectoryCluster => entry.first # 0
  BY NewEntry
<1>5. ASSUME NEW b \in Tree \cup {a}, Leads(b)' # 0
      PROVE  IsHead(Leads(b))' /\ Leads(b)' # RootDirectoryCluster
  <2>1. PICK x : x = Leads(b)'
    OBVIOUS
  <2>2. IsHead(x) /\ x # RootDirectoryCluster
    BY <1>2, <1>4, <1>5, <2>1, HeadFacts
  <2> QED
    BY <1>1, <2>1, <2>2 DEF IsHead
<1>6. \A s \in Subdirectories' : Leads(s)' # 0
  BY <1>1, <1>2, <1>4, TreeByFolder DEF TreeInv, TreeHasHeads
<1>7. ASSUME NEW x \in Tree \cup {a}, NEW y \in Tree \cup {a}, Leads(x)' = Leads(y)', Leads(x)' # 0, x # y
      PROVE  pc' = "remove_old" /\ op'.old \in {x, y}
  <2>1. CASE x \in Tree /\ y \in Tree
    BY <1>2, <1>7, <2>1 DEF TreeInv, TreeHasHeads
  <2>2. CASE x = a \/ y = a
    BY <1>2, <1>4, <1>7, <2>2
  <2> QED
    BY <2>1, <2>2
<1> QED
  BY <1>1, <1>3, <1>5, <1>6, <1>7 DEF TreeHasHeads, TreeInv

(* The entry is written: the whole of CreateEntry.                         *)
LEMMA CreateEntryKeeps ==
  ASSUME TreeInv, TypeOK', CreateEntry
  PROVE  TreeInv' /\ TreeFirsts \cup HeldByOperation \subseteq TreeFirsts'
<1>1. PICK d, entry : d = op.dir.first /\ entry = op.entry
  OBVIOUS
<1>2. /\ TypeOK /\ pc = "create" /\ UNCHANGED fat
      /\ FindDirectoryEntry(d, entry.kind, entry.name) = {}
      /\ IF op.kind = "rename" THEN pc' = "remove_old" /\ op' = op ELSE Return
  BY <1>1 DEF CreateEntry, TreeInv, adapterVars
<1>3. PICK a \in EmptyBlocksOfEntries(d) :
        /\ WriteSlot(a, entry)
        /\ open' = IF op.kind = "create" /\ ~IsFileOpen(op.file.path)
                   THEN open \cup {[op.file EXCEPT !.address = a]} ELSE open
        /\ directories' = IF op.kind = "mkdir"
                          THEN directories \cup {[name |-> entry.name, address |-> a,
                                                  first |-> entry.first]}
                          ELSE directories
  BY <1>1 DEF CreateEntry
<1>4. EntryAppears(a, d, entry)
  BY <1>1, <1>2, <1>3, CreationAppears
<1>5. /\ a \in Cluster \X Indices /\ a \notin Tree /\ EntryAt(a)' = entry
      /\ \A b \in Tree : EntryAt(b)' = EntryAt(b)
      /\ EntriesIn(d)' = EntriesIn(d) \cup {a}
      /\ \A e \in Folders : e # d => EntriesIn(e)' = EntriesIn(e)
  BY <1>4, AppearsInFolder
<1>6. /\ Tree' = Tree \cup {a}
      /\ Subdirectories' = IF d = RootDirectoryCluster /\ entry.kind = "dir"
                           THEN Subdirectories \cup {a} ELSE Subdirectories
      /\ Folders \subseteq Folders' /\ \A e \in Folders' \ Folders : EntriesIn(e)' = {}
      /\ \A b, n : IsIn(b, n) => IsIn(b, n)'
  BY <1>4, AppearsInTree
<1>7. /\ d \in Folders /\ op.dir \in directories
      /\ entry \in Entry /\ entry.kind \in {"file", "dir"}
      /\ op.kind = "create" => entry.kind = "file" /\ entry.first = 0
      /\ op.kind = "mkdir" => entry.kind = "dir" /\ d = RootDirectoryCluster
      /\ op.kind = "rename" => /\ op.old \in EntriesIn(d) /\ op.old \in Tree /\ ~InUse(op.old)
                               /\ EntryAt(op.old).kind = entry.kind /\ Leads(op.old) = entry.first
  BY <1>1, <1>2, NewEntry
<1>8. TreeHasHeads'
  BY <1>1, <1>2, <1>4, CreationHasHeads
<1>9. LinksAreSound'
  BY <1>2, LinksKeep
<1>10. DirectoriesAreKnown'
  <2>1. ASSUME NEW o \in directories', o # RootDirectory
        PROVE  o.address \in Subdirectories' /\ EntryAt(o.address)'.first = o.first
               /\ EntryAt(o.address)'.name = o.name
    <3>1. CASE o \in directories
      <4>1. /\ o.address \in Subdirectories /\ EntryAt(o.address).first = o.first
            /\ EntryAt(o.address).name = o.name
        BY <2>1, <3>1 DEF TreeInv, DirectoriesAreKnown
      <4> QED
        BY <1>5, <1>6, <4>1, TreeByFolder
    <3>2. CASE o \notin directories
      <4>1. op.kind = "mkdir" /\ o = [name |-> entry.name, address |-> a, first |-> entry.first]
        BY <1>3, <2>1, <3>2
      <4> QED
        BY <1>5, <1>6, <1>7, <4>1
    <3> QED
      BY <3>1, <3>2
  <2>2. RootDirectory \in directories'
    BY <1>3 DEF TreeInv, DirectoriesAreKnown
  <2> QED
    BY <2>1, <2>2 DEF DirectoriesAreKnown
<1>11. NamesUnique'
  <2>1. ASSUME NEW e \in Folders', NEW x \in EntriesIn(e)', NEW y \in EntriesIn(e)',
               EntryAt(x)'.kind = EntryAt(y)'.kind, EntryAt(x)'.name = EntryAt(y)'.name
        PROVE  x = y
    <3>1. e \in Folders
      BY <1>6
    <3>2. ASSUME NEW z \in EntriesIn(e) PROVE z \in Tree /\ EntryAt(z)' = EntryAt(z)
      BY <1>5, <3>1, TreeByFolder
    <3>3. CASE x \in EntriesIn(e) /\ y \in EntriesIn(e)
      BY <2>1, <3>1, <3>2, <3>3, NamesByFolder DEF TreeInv
    <3>4. CASE ~(x \in EntriesIn(e) /\ y \in EntriesIn(e))
      <4>1. e = d /\ x \in EntriesIn(d) \cup {a} /\ y \in EntriesIn(d) \cup {a}
        BY <1>5, <2>1, <3>1, <3>4
      <4>2. \A z \in EntriesIn(d) : ~(EntryAt(z).kind = entry.kind /\ EntryAt(z).name = entry.name)
        BY <1>2 DEF FindDirectoryEntry, EntriesIn
      <4>3. \A z \in EntriesIn(d) : ~(EntryAt(z)'.kind = entry.kind /\ EntryAt(z)'.name = entry.name)
        BY <3>2, <4>1, <4>2
      <4> QED
        BY <1>5, <2>1, <3>4, <4>1, <4>3
    <3> QED
      BY <3>3, <3>4
  <2> QED
    BY <2>1, NamesByFolder
<1>12. FilesAreKnown'
  <2>1. (\A h \in open : HandleKnown(h)) /\ PathsDiffer
    BY FilesByHandle DEF TreeInv
  <2>2. ASSUME NEW h \in open PROVE HandleKnown(h)'
    BY <1>2, <1>5, <1>6, <2>1 DEF HandleKnown
  <2>3. CASE open' = open
    <3>1. PathsDiffer'
      BY <2>1, <2>3 DEF PathsDiffer
    <3> QED
      BY <2>2, <2>3, <3>1, FilesByHandle
  <2>4. CASE open' # open
    <3>1. op.kind = "create" /\ ~IsFileOpen(op.file.path) /\ op.file \in Handles
      BY <1>2, <1>3, <2>4 DEF TypeOK, Operations
    <3>2. PICK m, n : m = [op.file EXCEPT !.address = a] /\ n = op.dir.name
      OBVIOUS
    <3>3. PICK case \in Cases : op.file.path = Path(op.dir, entry.name, case) /\ op.file.first = 0
      BY <1>1, <3>1 DEF TreeInv, OperationIsSound, CreatesFile
    <3>4. /\ m.path = op.file.path /\ m.address = a /\ m.first = 0
          /\ m.path.dir = n /\ m.path.name = entry.name /\ m.path.case = case
          /\ open' = open \cup {m}
      BY <1>3, <3>1, <3>2, <3>3 DEF Path, Handles
    <3>5. EntryAt(a)' = [kind |-> "file", name |-> entry.name, first |-> 0]
      BY <1>5, <1>7, <3>1 DEF Entry
    <3>6. IsIn(a, n)'
      <4>1. CASE op.dir = RootDirectory
        <5>1. d = RootDirectoryCluster /\ n = NoName
          BY <1>1, <3>2, <4>1 DEF RootDirectory
        <5> QED
          BY <1>5, <5>1 DEF IsIn
      <4>2. CASE op.dir # RootDirectory
        <5>1. PICK s \in Subdirectories : EntryAt(s).first = d /\ EntryAt(s).name = n
          BY <1>1, <1>7, <3>2, <4>2 DEF TreeInv, DirectoriesAreKnown
        <5>2. s \in Subdirectories' /\ Leads(s)' = d /\ EntryAt(s)'.name = n
          BY <1>5, <1>6, <5>1, TreeByFolder DEF Leads
        <5>3. EntriesIn(Leads(s))' = EntriesIn(d)'
          BY <5>2 DEF EntriesIn, SlotsOf, ChainClusters, NextClusterInChain, EntryAt
        <5> QED
          BY <1>5, <5>2, <5>3 DEF IsIn
      <4> QED
        BY <4>1, <4>2
    <3>7. HandleKnown(m)'
      BY <1>6, <3>2, <3>4, <3>5, <3>6 DEF HandleKnown
    <3>8. PathsDiffer'
      BY <2>1, <3>1, <3>4 DEF PathsDiffer, IsFileOpen
    <3> QED
      BY <2>2, <3>4, <3>7, <3>8, FilesByHandle
  <2> QED
    BY <2>3, <2>4
<1>13. OperationHasHead' /\ OperationIsSound'
  <2>1. CASE op.kind # "rename"
    BY <1>2, <2>1, NothingHeld
  <2>2. CASE op.kind = "rename"
    <3>1. /\ pc' = "remove_old" /\ op' = op /\ UNCHANGED <<open, directories>>
      BY <1>2, <1>3, <2>2
    <3>2. PICK o : o = op.old
      OBVIOUS
    <3>3. /\ o \in EntriesIn(d) /\ o \in Tree /\ ~InUse(o)
          /\ EntryAt(o).kind = entry.kind /\ Leads(o) = entry.first
      BY <1>7, <2>2, <3>2
    <3>4. /\ o \in EntriesIn(d)' /\ a \in EntriesIn(d)' /\ a # o /\ EntryAt(a)' = entry
          /\ EntryAt(o)' = EntryAt(o) /\ Leads(o)' = entry.first
      BY <1>5, <3>3 DEF Leads
    <3>5. ~InUse(o)'
      <4>1. ChainClusters(EntryAt(o).first)' = ChainClusters(EntryAt(o).first)
        BY <1>2, <3>4 DEF ChainClusters, NextClusterInChain
      <4> QED
        BY <3>1, <3>3, <4>1 DEF InUse
    <3>6. /\ EntriesIn(op.dir.first)' = EntriesIn(d)' /\ EntryAt(op.old)' = EntryAt(o)'
          /\ (InUse(op.old)' <=> InUse(o)')
      BY <1>1, <3>1, <3>2 DEF EntriesIn, SlotsOf, ChainClusters, NextClusterInChain, EntryAt, InUse
    <3>7. Renames'
      BY <1>1, <1>7, <2>2, <3>1, <3>2, <3>3, <3>4, <3>5, <3>6 DEF Renames, Leads
    <3>8. OperationIsSound'
      BY <2>2, <3>1, <3>7 DEF OperationIsSound, MakesDirectory, CreatesFile, CreatesEntry, Appends,
                              Releases
    <3> QED
      BY <2>2, <3>1, <3>8, HoldsNothing
  <2> QED
    BY <2>1, <2>2
<1>14. TreeFirsts \cup HeldByOperation \subseteq TreeFirsts'
  <2>1. Leads(a)' = entry.first /\ \A b \in Tree : Leads(b)' = Leads(b)
    BY <1>5 DEF Leads
  <2>2. \A c \in HeldByOperation : c # 0 /\ c = entry.first
    BY <1>1, <1>2, NewEntry, NumberFacts DEF HeldByOperation
  <2> QED
    BY <1>6, <2>1, <2>2 DEF TreeFirsts
<1> QED
  BY <1>14, <1>8, <1>9, <1>10, <1>11, <1>12, <1>13 DEF TreeInv

-----------------------------------------------------------------------------
(* An entry goes.                                                          *)

\* The entry is of the tree, and the directory it leads to, if it is the
\* entry of one, is empty or has another entry.
EntryGoes(a) ==
  /\ a \in Tree /\ RemoveEntry(a) /\ UNCHANGED fat
  /\ a \in Subdirectories =>
       \/ EntriesIn(Leads(a)) = {}
       \/ \E s \in Subdirectories : s # a /\ Leads(s) = Leads(a)

(* Every directory has the entries it had, without this one.               *)
LEMMA GoesFromFolders ==
  ASSUME TreeInv, NEW a, EntryGoes(a)
  PROVE  /\ a \in Cluster \X Indices /\ EntryAt(a)' = NotAnEntry("unused")
         /\ \A b \in Tree : b # a => EntryAt(b)' = EntryAt(b)
         /\ \A e \in Folders : EntriesIn(e)' = EntriesIn(e) \ {a}
<1>1. a \in Cluster \X Indices
  BY HeadFacts DEF EntryGoes
<1>2. /\ EntryAt(a)' = NotAnEntry("unused")
      /\ \A b \in Cluster \X Indices : b # a => EntryAt(b)' = EntryAt(b)
  BY <1>1, SlotWritten, OperationTypes DEF EntryGoes, RemoveEntry, TreeInv, TypeOK
<1>3. \A b \in Tree : b # a => EntryAt(b)' = EntryAt(b)
  BY <1>2, HeadFacts
<1>4. NotAnEntry("unused").kind = "unused"
  BY DEF NotAnEntry
<1>5. ASSUME NEW e \in Folders PROVE EntriesIn(e)' = EntriesIn(e) \ {a}
  <2>1. SlotsOf(e)' = SlotsOf(e) /\ SlotsOf(e) \subseteq Cluster \X Indices
    BY SlotFacts DEF EntryGoes
  <2> QED
    BY <1>2, <1>4, <2>1 DEF EntriesIn
<1> QED
  BY <1>1, <1>2, <1>3, <1>5

(* The tree is what it was, without this entry.                            *)
LEMMA GoesFromTree ==
  ASSUME TreeInv, NEW a, EntryGoes(a)
  PROVE  /\ Tree' = Tree \ {a} /\ Subdirectories' = Subdirectories \ {a} /\ Folders' \subseteq Folders
         /\ \A b, n : /\ IsIn(b, n) /\ b # a
                      /\ a \in Subdirectories => b \notin EntriesIn(Leads(a))
                      => IsIn(b, n)'
<1>1. /\ EntryAt(a)' = NotAnEntry("unused")
      /\ \A b \in Tree : b # a => EntryAt(b)' = EntryAt(b)
      /\ \A e \in Folders : EntriesIn(e)' = EntriesIn(e) \ {a}
  BY GoesFromFolders
<1>2. RootDirectoryCluster \in Folders /\ EntriesIn(RootDirectoryCluster) \subseteq Tree
  BY TreeByFolder
<1>3. Subdirectories' = Subdirectories \ {a}
  <2>1. EntriesIn(RootDirectoryCluster)' = EntriesIn(RootDirectoryCluster) \ {a}
    BY <1>1, <1>2
  <2>2. \A b \in EntriesIn(RootDirectoryCluster) : b # a => EntryAt(b)' = EntryAt(b)
    BY <1>1, <1>2
  <2> QED
    BY <2>1, <2>2 DEF Subdirectories
<1>4. \A s \in Subdirectories' : s \in Subdirectories /\ Leads(s)' = Leads(s) /\ EntryAt(s)' = EntryAt(s)
  BY <1>1, <1>3, TreeByFolder DEF Leads
<1>5. Folders' \subseteq Folders
  <2>1. RootDirectoryCluster \in Folders' /\ Folders' = {RootDirectoryCluster} \cup {Leads(s)' : s \in Subdirectories'}
    BY DEF Folders
  <2> QED
    BY <1>2, <1>4, <2>1 DEF Folders
<1>6. ASSUME NEW d \in Folders, NEW b \in EntriesIn(d) PROVE d \in Folders'
  <2>1. CASE d = RootDirectoryCluster
    BY <2>1, TreeByFolder
  <2>2. CASE d # RootDirectoryCluster
    <3>1. PICK s \in Subdirectories : d = Leads(s)
      BY <2>2 DEF Folders
    <3>2. \E t \in Subdirectories : t # a /\ d = Leads(t)
      BY <1>6, <3>1 DEF EntryGoes
    <3>3. PICK t \in Subdirectories' : Leads(t)' = d
      BY <1>3, <1>4, <3>2
    <3> QED
      BY <3>3 DEF Folders
  <2> QED
    BY <2>1, <2>2
<1>7. Tree' = Tree \ {a}
  <2>1. ASSUME NEW b \in Tree' PROVE b \in Tree \ {a}
    <3>1. PICK d \in Folders' : b \in EntriesIn(d)'
      BY TreeByFolder
    <3> QED
      BY <1>1, <1>5, <3>1, TreeByFolder
  <2>2. ASSUME NEW b \in Tree, b # a PROVE b \in Tree'
    <3>1. PICK d \in Folders : b \in EntriesIn(d)
      BY TreeByFolder
    <3>2. d \in Folders' /\ b \in EntriesIn(d)'
      BY <1>1, <1>6, <2>2, <3>1
    <3> QED
      BY <3>2, TreeByFolder
  <2> QED
    BY <2>1, <2>2
<1>8. ASSUME NEW b, NEW n, IsIn(b, n), b # a, a \in Subdirectories => b \notin EntriesIn(Leads(a))
      PROVE  IsIn(b, n)'
  <2>1. CASE n = NoName /\ b \in EntriesIn(RootDirectoryCluster)
    <3>1. b \in EntriesIn(RootDirectoryCluster)'
      BY <1>1, <1>2, <1>8, <2>1
    <3> QED
      BY <2>1, <3>1 DEF IsIn
  <2>2. CASE \E s \in Subdirectories : EntryAt(s).name = n /\ b \in EntriesIn(Leads(s))
    <3>0. PICK s \in Subdirectories : EntryAt(s).name = n /\ b \in EntriesIn(Leads(s))
      BY <2>2
    <3>1. PICK e : e = Leads(s) /\ EntryAt(s).name = n /\ b \in EntriesIn(e)
      BY <3>0
    <3>2. e \in Folders /\ b \in EntriesIn(e)' /\ s # a
      BY <1>1, <1>8, <3>1 DEF Folders
    <3>3. s \in Subdirectories' /\ Leads(s)' = e /\ EntryAt(s)'.name = n
      BY <1>3, <1>4, <3>1, <3>2
    <3>4. EntriesIn(Leads(s))' = EntriesIn(e)'
      BY <3>3 DEF EntriesIn, SlotsOf, ChainClusters, NextClusterInChain, EntryAt
    <3> QED
      BY <3>2, <3>3, <3>4 DEF IsIn
  <2> QED
    BY <1>8, <2>1, <2>2 DEF IsIn
<1> QED
  BY <1>3, <1>5, <1>7, <1>8

(* What is left is as it was: no open file had the entry, no object was of *)
(* it, and no file in it is open.                                          *)
LEMMA RemovalKeeps ==
  ASSUME TreeInv, TypeOK', NEW a, EntryGoes(a), UNCHANGED open,
         pc = "remove_old" => a = op.old, pc \notin {"mark", "end_chain"},
         directories' \subseteq directories, RootDirectory \in directories',
         \A d \in directories' : d # RootDirectory => d.address # a,
         \A h \in open : h.address # a,
         a \in Subdirectories => \A h \in open : h.address \notin EntriesIn(Leads(a)),
         OperationHasHead', OperationIsSound'
  PROVE  TreeInv'
<1>0. UNCHANGED fat
  BY DEF EntryGoes
<1>1. /\ \A b \in Tree : b # a => EntryAt(b)' = EntryAt(b)
      /\ \A e \in Folders : EntriesIn(e)' = EntriesIn(e) \ {a}
  BY GoesFromFolders
<1>2. /\ Tree' = Tree \ {a} /\ Subdirectories' = Subdirectories \ {a} /\ Folders' \subseteq Folders
      /\ \A b, n : /\ IsIn(b, n) /\ b # a
                   /\ a \in Subdirectories => b \notin EntriesIn(Leads(a))
                   => IsIn(b, n)'
  BY GoesFromTree
<1>3. \A b \in Tree : b # a => Leads(b)' = Leads(b)
  BY <1>1 DEF Leads
<1>4. TreeHasHeads'
  <2>1. \A x : IsHead(x)' <=> IsHead(x)
    BY <1>0 DEF IsHead
  <2>2. ASSUME NEW b \in Tree', Leads(b)' # 0
        PROVE  IsHead(Leads(b))' /\ Leads(b)' # RootDirectoryCluster
    <3>1. PICK x : x = Leads(b)'
      OBVIOUS
    <3>2. IsHead(x) /\ x # RootDirectoryCluster
      BY <1>2, <1>3, <2>2, <3>1, HeadFacts
    <3> QED
      BY <1>0, <3>1, <3>2 DEF IsHead
  <2>3. \A s \in Subdirectories' : Leads(s)' # 0
    BY <1>2, <1>3, TreeByFolder DEF TreeInv, TreeHasHeads
  <2>4. \A x, y \in Tree' : Leads(x)' = Leads(y)' /\ Leads(x)' # 0 => x = y
    BY <1>2, <1>3 DEF TreeInv, TreeHasHeads
  <2> QED
    BY <2>1, <2>2, <2>3, <2>4 DEF TreeHasHeads, TreeInv
<1>5. NamesUnique'
  <2>1. ASSUME NEW e \in Folders', NEW x \in EntriesIn(e)', NEW y \in EntriesIn(e)',
               EntryAt(x)'.kind = EntryAt(y)'.kind, EntryAt(x)'.name = EntryAt(y)'.name
        PROVE  x = y
    <3>1. e \in Folders /\ x \in EntriesIn(e) /\ y \in EntriesIn(e) /\ x # a /\ y # a
      BY <1>1, <1>2
    <3>2. EntryAt(x)' = EntryAt(x) /\ EntryAt(y)' = EntryAt(y)
      BY <1>1, <3>1, TreeByFolder
    <3> QED
      BY <2>1, <3>1, <3>2, NamesByFolder DEF TreeInv
  <2> QED
    BY <2>1, NamesByFolder
<1>6. DirectoriesAreKnown'
  BY <1>1, <1>2, TreeByFolder DEF TreeInv, DirectoriesAreKnown
<1>7. FilesAreKnown'
  <2>1. (\A h \in open : HandleKnown(h)) /\ PathsDiffer
    BY FilesByHandle DEF TreeInv
  <2>2. \A h \in open : HandleKnown(h)'
    BY <1>0, <1>1, <1>2, <2>1 DEF HandleKnown
  <2> QED
    BY <2>1, <2>2, FilesByHandle DEF PathsDiffer
<1>8. LinksAreSound'
  BY <1>0, LinksKeep
<1> QED
  BY <1>4, <1>5, <1>6, <1>7, <1>8 DEF TreeInv

(* Its chain is released next, if it had one: no other entry leads there.  *)
LEMMA ReleaseBegins ==
  ASSUME TreeInv, pc = "idle", NEW a, EntryGoes(a), RemoveAndRelease(a)
  PROVE  OperationHasHead' /\ OperationIsSound'
<1>1. CASE EntryAt(a).first = 0
  BY <1>1, NothingHeld DEF RemoveAndRelease, Return, TreeInv, OperationIsSound
<1>2. CASE EntryAt(a).first # 0
  <2>1. PICK c : c = Leads(a)
    OBVIOUS
  <2>2. /\ pc' = "release" /\ op' = [NoOperation EXCEPT !.kind = "release", !.cluster = c]
    BY <1>2, <2>1 DEF RemoveAndRelease, Begin, Leads
  <2>3. op'.kind = "release" /\ op'.cluster = c
    BY <2>2 DEF NoOperation
  <2>4. /\ a \in Tree /\ c # 0 /\ IsHead(c) /\ c # RootDirectoryCluster /\ c \in Cluster
        /\ \A b \in Tree : b # a => Leads(b) # c
    <3>1. a \in Tree /\ c # 0
      BY <1>2, <2>1 DEF EntryGoes, Leads
    <3>2. IsHead(c) /\ c # RootDirectoryCluster /\ c \in Cluster
      BY <2>1, <3>1, HeadFacts DEF IsHead, Unlinked
    <3>3. \A b \in Tree : b # a => Leads(b) # c
      BY <2>1, <3>1 DEF TreeInv, TreeHasHeads
    <3> QED
      BY <3>1, <3>2, <3>3
  <2>5. HeldByOperation' = {c}
    BY <2>2, <2>3, <2>4 DEF HeldByOperation
  <2>6. Tree' = Tree \ {a} /\ \A b \in Tree : b # a => Leads(b)' = Leads(b)
    BY GoesFromTree, GoesFromFolders DEF Leads
  <2>7. IsHead(c)'
    BY <2>4 DEF EntryGoes, IsHead
  <2>8. OperationHasHead'
    BY <2>4, <2>5, <2>6, <2>7 DEF OperationHasHead
  <2>9. OperationIsSound'
    BY <2>2, <2>3, <2>4 DEF OperationIsSound, MakesDirectory, CreatesFile, Renames, CreatesEntry,
                            Appends, Releases
  <2> QED
    BY <2>8, <2>9
<1> QED
  BY <1>1, <1>2

(* DeleteFile finds the file closed, so no open file has its entry.        *)
LEMMA DeleteFileKeeps ==
  ASSUME TreeInv, TypeOK', CarefulProgram, NEW d, NEW name, NEW case \in Cases,
         DeleteFile(d, name, case)
  PROVE  TreeInv' /\ \E a : EntryGoes(a) /\ RemoveAndRelease(a)
<1>0. /\ TypeOK /\ pc = "idle" /\ d \in directories /\ ~IsFileOpen(Path(d, name, case))
      /\ UNCHANGED <<fat, open, directories>>
  BY DEF DeleteFile, TreeInv, adapterVars
<1>1. PICK a \in FindDirectoryEntry(d.first, "file", name) : RemoveAndRelease(a)
  BY DEF DeleteFile
<1>2. a \in EntriesIn(d.first) /\ EntryAt(a).kind = "file" /\ EntryAt(a).name = name
  BY <1>0, EntryFacts
<1>3. a \in Tree /\ IsIn(a, d.name) /\ a \notin Subdirectories
  BY <1>0, <1>2, ObjectIsFolder DEF Subdirectories
<1>4. EntryGoes(a)
  BY <1>0, <1>1, <1>3 DEF EntryGoes, RemoveAndRelease
<1>5. \A h \in open : h.address # a
  <2> SUFFICES ASSUME NEW h \in open, h.address = a PROVE FALSE
    OBVIOUS
  <2>1. /\ EntryAt(h.address) = [kind |-> "file", name |-> h.path.name, first |-> h.first]
        /\ h.path.case \in Cases /\ IsIn(h.address, h.path.dir)
    BY DEF TreeInv, FilesAreKnown, OpenFilesKeepTheirEntries
  <2>2. h.path.name = name
    BY <1>2, <2>1
  <2>3. h.path.dir = d.name
    BY <1>0, <1>3, <2>1, OneName
  <2>4. h.path.case = case
    BY <2>1 DEF CarefulProgram
  <2>5. h.path = Path(d, name, case)
    BY <1>0, <2>2, <2>3, <2>4 DEF TypeOK, Handles, Paths, Path
  <2> QED
    BY <1>0, <2>5 DEF IsFileOpen
<1>6. /\ RootDirectory \in directories
      /\ \A e \in directories : e # RootDirectory => e.address # a
  BY <1>3 DEF TreeInv, DirectoriesAreKnown
<1>7. OperationHasHead' /\ OperationIsSound'
  BY <1>0, <1>1, <1>4, ReleaseBegins
<1> QED
  BY <1>1, <1>0, <1>3, <1>4, <1>5, <1>6, <1>7, RemovalKeeps

(* RemoveDirectory is called on an empty directory, and its object goes.   *)
LEMMA RemoveDirectoryKeeps ==
  ASSUME TreeInv, TypeOK', CarefulProgram, NEW d, RemoveDirectory(d)
  PROVE  TreeInv' /\ \E a : EntryGoes(a) /\ RemoveAndRelease(a)
<1>0. /\ TypeOK /\ pc = "idle" /\ d \in directories /\ d # RootDirectory /\ IsEmpty(d.first)
      /\ RemoveAndRelease(d.address) /\ directories' = directories \ {d} /\ UNCHANGED <<fat, open>>
  BY DEF RemoveDirectory, TreeInv, adapterVars, CarefulProgram
<1>1. PICK a : a = d.address
  OBVIOUS
<1>2. /\ a \in Subdirectories /\ a \in Tree /\ EntryAt(a).kind = "dir"
      /\ EntryAt(a).first = d.first /\ EntryAt(a).name = d.name
  BY <1>0, <1>1, TreeByFolder DEF TreeInv, DirectoriesAreKnown, Subdirectories
<1>3. EntriesIn(Leads(a)) = {}
  BY <1>0, <1>2 DEF EntriesIn, IsEmpty, IsUnused, Leads
<1>4. EntryGoes(a)
  BY <1>0, <1>1, <1>2, <1>3 DEF EntryGoes, RemoveAndRelease
<1>5. \A h \in open : h.address # a
  <2> SUFFICES ASSUME NEW h \in open, h.address = a PROVE FALSE
    OBVIOUS
  <2>1. EntryAt(a) = [kind |-> "file", name |-> h.path.name, first |-> h.first]
    BY DEF TreeInv, FilesAreKnown, OpenFilesKeepTheirEntries
  <2> QED
    BY <1>2, <2>1
<1>6. \A e \in directories' : e # RootDirectory => e.address # a
  <2> SUFFICES ASSUME NEW e \in directories, e # d, e # RootDirectory, e.address = a PROVE FALSE
    BY <1>0
  <2>1. EntryAt(e.address).first = e.first /\ EntryAt(e.address).name = e.name
    BY DEF TreeInv, DirectoriesAreKnown
  <2>2. e.address = d.address /\ e.first = d.first /\ e.name = d.name
    BY <1>1, <1>2, <2>1
  <2> QED
    BY <1>0, <2>2 DEF TypeOK, Directories
<1>7. RootDirectory \in directories' /\ directories' \subseteq directories
  BY <1>0 DEF TreeInv, DirectoriesAreKnown
<1>8. OperationHasHead' /\ OperationIsSound'
  BY <1>0, <1>1, <1>4, ReleaseBegins
<1> QED
  BY <1>1, <1>0, <1>3, <1>4, <1>5, <1>6, <1>7, <1>8, RemovalKeeps

(* RenameEntry removes the entry it was called for: the new one leads to   *)
(* the same, and nothing used the old one.                                 *)
LEMMA RemoveOldEntryKeeps ==
  ASSUME TreeInv, TypeOK', RemoveOldEntry
  PROVE  TreeInv' /\ TreeFirsts \subseteq TreeFirsts'
<1>0. PICK a, d : a = op.old /\ d = op.dir.first
  OBVIOUS
<1>1. /\ TypeOK /\ pc = "remove_old" /\ op.kind = "rename" /\ op.dir \in directories
      /\ RemoveEntry(a) /\ Return /\ UNCHANGED <<fat, open, directories>>
      /\ a \in EntriesIn(d) /\ EntryAt(a).kind = op.entry.kind /\ Leads(a) = op.entry.first
      /\ ~InUse(a)
      /\ \E b \in EntriesIn(d) : b # a /\ EntryAt(b) = op.entry
  BY <1>0 DEF RemoveOldEntry, TreeInv, OperationIsSound, Renames, adapterVars
<1>2. d \in Folders /\ a \in Tree
  BY <1>0, <1>1, ObjectIsFolder
<1>3. ASSUME a \in Subdirectories
      PROVE  \E s \in Subdirectories : s # a /\ Leads(s) = Leads(a)
  <2>1. a \in EntriesIn(RootDirectoryCluster) /\ EntryAt(a).kind = "dir"
    BY <1>3 DEF Subdirectories
  <2>2. d = RootDirectoryCluster
    BY <1>1, <1>2, <2>1, OneFolder, TreeByFolder
  <2>3. PICK b \in EntriesIn(d) : b # a /\ EntryAt(b) = op.entry
    BY <1>1
  <2>4. b \in Subdirectories /\ Leads(b) = Leads(a)
    BY <1>1, <2>1, <2>2, <2>3 DEF Subdirectories, Leads
  <2> QED
    BY <2>3, <2>4
<1>4. EntryGoes(a)
  BY <1>1, <1>2, <1>3 DEF EntryGoes
<1>5. /\ \A h \in open : h.address # a /\ h.address[1] \notin ChainIn(fat, Leads(a))
      /\ \A e \in directories : e.address # a
  BY <1>1, ChainNow DEF InUse, Leads
<1>6. \A h \in open : h.address \notin EntriesIn(Leads(a))
  BY <1>5, EntryPlace
<1>7. OperationHasHead' /\ OperationIsSound'
  BY <1>1, NothingHeld
<1>8. RootDirectory \in directories
  BY DEF TreeInv, DirectoriesAreKnown
<1>9. TreeFirsts \subseteq TreeFirsts'
  <2>1. Tree' = Tree \ {a} /\ \A b \in Tree : b # a => Leads(b)' = Leads(b)
    BY <1>4, GoesFromTree, GoesFromFolders DEF Leads
  <2>2. PICK b \in EntriesIn(d) : b # a /\ EntryAt(b) = op.entry
    BY <1>1
  <2>3. b \in Tree /\ Leads(b) = Leads(a)
    BY <1>1, <1>2, <2>2, TreeByFolder DEF Leads
  <2> QED
    BY <2>1, <2>2, <2>3 DEF TreeFirsts
<1> QED
  BY <1>9, <1>0, <1>1, <1>4, <1>5, <1>6, <1>7, <1>8, RemovalKeeps

-----------------------------------------------------------------------------
(* Every step.                                                             *)

(* Init is of one cluster, the root's, whose slots are free.               *)
LEMMA InitTree ==
  ASSUME Init
  PROVE  TreeInv
<1>1. TypeOK
  <2>1. fat \in [Cluster -> FATEntry]
    BY NumberFacts DEF Init
  <2>2. block \in [Cluster -> [Indices -> Entry]] /\ op \in Operations /\ directories \subseteq Directories
    BY OperationTypes DEF Init
  <2> QED
    BY <2>1, <2>2 DEF Init, TypeOK, Points
<1>2. \A c \in Cluster : fat[c] \notin Cluster
  BY NumberFacts DEF Init
<1>3. \A d : EntriesIn(d) = {}
  <2>1. \A i \in Indices : EmptyCluster[i].kind = "unused"
    BY DEF EmptyCluster, NotAnEntry
  <2>2. \A d, a : a \in EntriesIn(d) =>
          a \in Cluster \X Indices /\ block[a[1]][a[2]].kind \in {"file", "dir"}
    BY EntryPlace, ChainFacts
  <2> QED
    BY <2>1, <2>2 DEF Init
<1>4. Tree = {} /\ Subdirectories = {}
  BY <1>3 DEF Tree, Subdirectories
<1>5. LinksAreSound
  BY <1>2 DEF LinksAreSound, Injective
<1>6. IsHead(RootDirectoryCluster)
  BY <1>2, NumberFacts DEF Init, IsHead, Unlinked
<1>7. TreeHasHeads /\ DirectoriesAreKnown
  BY <1>4, <1>6 DEF TreeHasHeads, DirectoriesAreKnown, Init
<1>8. FilesAreKnown
  BY DEF FilesAreKnown, OpenFilesKeepTheirEntries, Init
<1>9. NamesUnique
  BY <1>3 DEF NamesUnique
<1>10. pc = "idle" /\ op = NoOperation /\ op.kind = "none"
  BY DEF Init, NoOperation
<1>11. OperationHasHead
  BY <1>10 DEF OperationHasHead, HeldByOperation
<1>12. OperationIsSound
  BY <1>10 DEF OperationIsSound, MakesDirectory, CreatesFile, Renames, CreatesEntry, Appends, Releases
<1> QED
  BY <1>1, <1>5, <1>7, <1>8, <1>9, <1>11, <1>12 DEF TreeInv

(* A stuttering step changes nothing the invariant is about.               *)
LEMMA StutteringKeeps ==
  ASSUME TreeInv, TypeOK', UNCHANGED volumeVars
  PROVE  TreeInv'
<1>0. UNCHANGED <<fat, block, open, directories, pc, op>>
  BY DEF volumeVars, adapterVars
<1>1. /\ TreeStays /\ \A h : IsHead(h)' <=> IsHead(h)
      /\ \A first : ChainIn(fat', first) = ChainIn(fat, first)
  BY <1>0, NothingWritten
<1>2. /\ Folders' = Folders /\ Subdirectories' = Subdirectories /\ Tree' = Tree
      /\ \A d : EntriesIn(d)' = EntriesIn(d)
      /\ \A a : EntryAt(a)' = EntryAt(a) /\ Leads(a)' = Leads(a)
      /\ \A a : InUse(a)' <=> InUse(a)
  BY <1>0, <1>1, UsesStay DEF TreeStays, Leads
<1>3. LinksAreSound'
  BY <1>0 DEF TreeInv, LinksAreSound
<1>4. TreeHasHeads'
  <2>1. \A a \in Tree : Leads(a)' # 0 => IsHead(Leads(a))' /\ Leads(a)' # RootDirectoryCluster
    BY <1>0, <1>2, HeadFacts DEF IsHead
  <2> QED
    BY <1>0, <1>1, <1>2, <2>1 DEF TreeInv, TreeHasHeads
<1>5. OperationHasHead'
  <2>1. HeldByOperation' = HeldByOperation
    BY <1>0 DEF HeldByOperation
  <2> QED
    BY <1>1, <1>2, <2>1 DEF TreeInv, OperationHasHead
<1>6. DirectoriesAreKnown'
  BY <1>0, <1>2 DEF TreeInv, DirectoriesAreKnown
<1>7. FilesAreKnown' /\ NamesUnique'
  BY <1>0, <1>1, <1>2, FilesKeep, NamesByFolder DEF TreeInv
<1>8. Renames'
  <2>1. PICK o, d : o = op.old /\ d = op.dir.first
    OBVIOUS
  <2>2. /\ EntriesIn(op.dir.first)' = EntriesIn(d)' /\ EntryAt(op.old)' = EntryAt(o)'
        /\ Leads(op.old)' = Leads(o)' /\ (InUse(op.old)' <=> InUse(o)')
    BY <1>0, <2>1 DEF EntriesIn, SlotsOf, ChainClusters, NextClusterInChain, EntryAt, InUse, Leads
  <2> QED
    BY <1>0, <1>2, <2>1, <2>2 DEF TreeInv, OperationIsSound, Renames
<1>9. MakesDirectory' /\ CreatesFile' /\ CreatesEntry' /\ Releases'
  BY <1>0 DEF TreeInv, OperationIsSound, MakesDirectory, CreatesFile, CreatesEntry, Releases
<1>10. Appends'
  <2>1. ChainClusters(op.file.first)' = ChainClusters(op.file.first)
    BY <1>0 DEF ChainClusters, NextClusterInChain
  <2> QED
    BY <1>0, <2>1 DEF TreeInv, OperationIsSound, Appends
<1> QED
  BY <1>0, <1>3, <1>4, <1>5, <1>6, <1>7, <1>8, <1>9, <1>10 DEF TreeInv, OperationIsSound

(* Every step keeps the invariant.                                         *)
LEMMA StepKeepsTree ==
  ASSUME TreeInv, CarefulProgram, [Next]_volumeVars
  PROVE  TreeInv'
<1>0. TypeOK'
  BY TypesKeep
<1>1. CASE BeginOperation
  <2>1. ASSUME NEW d \in directories, NEW name \in Names, NEW case \in Cases,
               OpenFile(d, name, case) \/ CreateFile(d, name, case) \/ DeleteFile(d, name, case)
        PROVE  TreeInv'
    BY <1>0, <2>1, OpenFileKeeps, CreateFileKeeps, DeleteFileKeeps
  <2>2. ASSUME NEW h \in open, CloseFile(h) \/ AppendCall(h) PROVE TreeInv'
    BY <1>0, <2>2, DropsKeep, AppendCallKeeps
  <2>3. ASSUME NEW name \in Names, GetDirectory(name) \/ CreateDirectory(name) PROVE TreeInv'
    BY <1>0, <2>3, GetDirectoryKeeps, CreateDirectoryKeeps
  <2>4. ASSUME NEW d \in directories, ForgetDirectory(d) \/ RemoveDirectory(d) PROVE TreeInv'
    BY <1>0, <2>4, DropsKeep, RemoveDirectoryKeeps
  <2>5. ASSUME NEW d \in directories, NEW kind \in {"file", "dir"}, NEW name \in Names,
               NEW new_name \in Names, RenameEntry(d, kind, name, new_name)
        PROVE  TreeInv'
    BY <1>0, <2>5, RenameEntryKeeps DEF CarefulProgram
  <2> QED
    BY <1>1, <2>1, <2>2, <2>3, <2>4, <2>5 DEF BeginOperation
<1>2. CASE Continue
  <2>1. CASE CreateEntryFails \/ CreateEntry \/ AddNewCluster \/ LinkNewCluster \/ MarkNewCluster
    BY <1>0, <2>1, CreateEntryFailsKeeps, CreateEntryKeeps, AddNewClusterKeeps, LinkNewClusterKeeps,
       MarkNewClusterKeeps
  <2>2. CASE AllocateFirstCluster \/ SetDirectoryEntryFirstCluster \/ ExtendChain \/ EndChain
             \/ WriteCluster \/ AppendFails
    BY <1>0, <2>2, AllocateFirstClusterKeeps, SetDirectoryEntryFirstClusterKeeps, ExtendChainKeeps,
       EndChainKeeps, WriteClusterKeeps, DropsKeep
  <2>3. CASE ReleaseCluster \/ MarkDirectoryCluster \/ FreeDirectoryCluster \/ RemoveOldEntry
    BY <1>0, <2>3, ReleaseClusterKeeps, MarkDirectoryClusterKeeps, FreeDirectoryClusterKeeps,
       RemoveOldEntryKeeps
  <2> QED
    BY <1>2, <2>1, <2>2, <2>3 DEF Continue
<1>3. CASE PowerLoss
  BY <1>0, <1>3, DropsKeep
<1>4. CASE UNCHANGED volumeVars
  BY <1>0, <1>4, StutteringKeeps
<1> QED
  BY <1>1, <1>2, <1>3, <1>4 DEF Next

(* The invariant says what the properties say: every chain of the tree is  *)
(* that of a head, and no two heads have a cluster in common.              *)
LEMMA TreeInvGivesAllocated ==
  ASSUME TreeInv
  PROVE  TreeAllocated
<1> SUFFICES ASSUME NEW first \in {RootDirectoryCluster} \cup {EntryAt(a).first : a \in Tree},
                    NEW c \in ChainClusters(first), fat[c] = FAT32EntryFree
             PROVE  pc \in {"mark", "end_chain"} /\ c = op.added
  BY DEF TreeAllocated
<1>1. c \in ChainIn(fat, first)
  BY ChainNow
<1>2. first # 0
  <2>1. {} \in SUBSET Cluster /\ IsClosed(fat, {}) /\ 0 \notin Cluster
    BY NumberFacts DEF IsClosed
  <2> QED
    BY <1>1, <2>1, ChainFacts
<1>3. first \in TreeFirsts
  BY <1>2 DEF TreeFirsts, Leads
<1> QED
  BY <1>1, <1>3, ChainAllocated, FirstFacts

(* Two entries of the tree begin with different heads, whose chains are    *)
(* apart.                                                                  *)
LEMMA TreeInvGivesDisjoint ==
  ASSUME TreeInv
  PROVE  TreeDisjoint
<1> SUFFICES ASSUME NEW a \in Tree, NEW b \in Tree, a # b, ~(pc = "remove_old" /\ op.old \in {a, b})
             PROVE  ChainClusters(EntryAt(a).first) \cap ChainClusters(EntryAt(b).first) = {}
  BY DEF TreeDisjoint
<1>1. PICK g, h : g = EntryAt(a).first /\ h = EntryAt(b).first
  OBVIOUS
<1>2. ChainClusters(EntryAt(a).first) = ChainIn(fat, g) /\ ChainClusters(EntryAt(b).first) = ChainIn(fat, h)
  BY <1>1, ChainNow
<1>3. ChainIn(fat, 0) = {}
  <2>1. {} \in SUBSET Cluster /\ IsClosed(fat, {}) /\ 0 \notin Cluster
    BY NumberFacts DEF IsClosed
  <2> QED
    BY <2>1, ChainFacts
<1>4. g # 0 /\ h # 0 => ChainIn(fat, g) \cap ChainIn(fat, h) = {}
  <2>1. g = Leads(a) /\ h = Leads(b)
    BY <1>1 DEF Leads
  <2>2. g # 0 => g # h
    BY <2>1 DEF TreeInv, TreeHasHeads
  <2> QED
    BY <2>1, <2>2, HeadFacts
<1> QED
  BY <1>2, <1>3, <1>4

(***************************************************************************)
(* The theorems.  CarefulProgram is the program FAT32Volume is checked     *)
(* with: it uses what it renames and removes no more, spells a name in one *)
(* way, and the power does not go between two writes that belong together. *)
(***************************************************************************)

(* The invariant holds in every state of a careful program.                *)
THEOREM TreeIsSound == CarefulProgram => (Spec => []TreeInv)
<1> SUFFICES ASSUME CarefulProgram PROVE Spec => []TreeInv
  OBVIOUS
<1>1. Init => TreeInv
  BY InitTree
<1>2. TreeInv /\ [Next]_volumeVars => TreeInv'
  BY StepKeepsTree
<1> QED
  BY <1>1, <1>2, PTL DEF Spec

(* Wherever an operation is, the entries of the tree and the root lead     *)
(* through allocated clusters only, but for the one that CreateEntry or    *)
(* Write has linked and marks next.                                        *)
THEOREM TheTreeIsAllocated == CarefulProgram => (Spec => []TreeAllocated)
<1> SUFFICES ASSUME CarefulProgram PROVE Spec => []TreeAllocated
  OBVIOUS
<1>1. TreeInv => TreeAllocated
  BY TreeInvGivesAllocated
<1>2. Spec => []TreeInv
  BY TreeIsSound
<1> QED
  BY <1>1, <1>2, PTL

(* No cluster belongs to two entries of the tree, unless RenameEntry is    *)
(* about to remove one of them.                                            *)
THEOREM TheTreeIsDisjoint == CarefulProgram => (Spec => []TreeDisjoint)
<1> SUFFICES ASSUME CarefulProgram PROVE Spec => []TreeDisjoint
  OBVIOUS
<1>1. TreeInv => TreeDisjoint
  BY TreeInvGivesDisjoint
<1>2. Spec => []TreeInv
  BY TreeIsSound
<1> QED
  BY <1>1, <1>2, PTL

(* No directory has two entries of a kind with the same name, wherever     *)
(* CreateEntry found a free slot for the last of them.                     *)
THEOREM TheNamesAreUnique == CarefulProgram => (Spec => []NamesUnique)
<1> SUFFICES ASSUME CarefulProgram PROVE Spec => []NamesUnique
  OBVIOUS
<1>1. TreeInv => NamesUnique
  BY DEF TreeInv
<1>2. Spec => []TreeInv
  BY TreeIsSound
<1> QED
  BY <1>1, <1>2, PTL

(* What an open file remembers of its entry, its first cluster and the     *)
(* cluster it is at stays true, whatever other files and directories do.   *)
THEOREM TheOpenFilesKeepTheirEntries == CarefulProgram => (Spec => []OpenFilesKeepTheirEntries)
<1> SUFFICES ASSUME CarefulProgram PROVE Spec => []OpenFilesKeepTheirEntries
  OBVIOUS
<1>1. TreeInv => OpenFilesKeepTheirEntries
  BY DEF TreeInv, FilesAreKnown
<1>2. Spec => []TreeInv
  BY TreeIsSound
<1> QED
  BY <1>1, <1>2, PTL

-----------------------------------------------------------------------------
(***************************************************************************)
(* Nothing is lost while the power stays: every allocated cluster is in    *)
(* the chain of an entry of the tree, or in the one that the operation in  *)
(* progress holds.                                                         *)
(***************************************************************************)

Owners == TreeFirsts \cup HeldByOperation

AllOwned == \A c \in Cluster : fat[c] # FAT32EntryFree => \E h \in Owners : c \in ChainIn(fat, h)

\* What AddNewCluster has linked belongs to its directory.
LinkIsMade == pc = "mark" => op.added \in ChainIn(fat, op.dir.first)

LossInv ==
  /\ power_losses \in Nat
  /\ LinkIsMade
  /\ power_losses = 0 => AllOwned

(* The owners are heads, and those in the tree change with the tree only.  *)
LEMMA OwnersFacts ==
  ASSUME TreeInv
  PROVE  /\ \A h \in Owners : IsHead(h)
         /\ TreeStays => TreeFirsts' = TreeFirsts
<1>1. \A h \in Owners : IsHead(h)
  BY FirstFacts DEF Owners, TreeInv, OperationHasHead
<1>2. ASSUME TreeStays PROVE TreeFirsts' = TreeFirsts
  <2>1. Tree' = Tree /\ \A a \in Tree : Leads(a)' = Leads(a)
    BY <1>2 DEF TreeStays, Leads
  <2> QED
    BY <2>1 DEF TreeFirsts
<1> QED
  BY <1>1, <1>2

(* No owner goes, no chain becomes shorter, and the cluster that a step    *)
(* marks has an owner.                                                     *)
LEMMA OwnedStays ==
  ASSUME TreeInv, AllOwned, Owners \subseteq Owners', ChainsGrow, NEW c,
         \A d \in Cluster : fat[d] = FAT32EntryFree /\ d # c => fat'[d] = FAT32EntryFree,
         \E h \in Owners' : c \in ChainIn(fat', h)
  PROVE  AllOwned'
<1> SUFFICES ASSUME NEW d \in Cluster, fat'[d] # FAT32EntryFree
             PROVE  \E h \in Owners' : d \in ChainIn(fat', h)
  BY DEF AllOwned
<1>1. CASE d = c
  BY <1>1
<1>2. CASE d # c
  <2>1. PICK h \in Owners : d \in ChainIn(fat, h)
    BY <1>2 DEF AllOwned
  <2> QED
    BY <2>1, OwnersFacts DEF ChainsGrow
<1> QED
  BY <1>1, <1>2

(* The same of a step that writes nothing to the FAT.                      *)
LEMMA OwnedSame ==
  ASSUME TreeInv, AllOwned, Owners \subseteq Owners', UNCHANGED fat
  PROVE  AllOwned'
BY DEF AllOwned

(* Steps that write nothing, or outside the FAT and the tree.              *)
LEMMA QuietLosesNothing ==
  ASSUME TreeInv, TypeOK', AllOwned,
         \/ \E d, name : \E case \in Cases : OpenFile(d, name, case) \/ CreateFile(d, name, case)
         \/ \E h : CloseFile(h) \/ AppendCall(h)
         \/ \E name : GetDirectory(name) \/ CreateDirectory(name)
         \/ \E d : ForgetDirectory(d)
         \/ \E d, kind, name, new_name : RenameEntry(d, kind, name, new_name)
         \/ CreateEntryFails \/ AppendFails \/ WriteCluster \/ AddNewCluster
         \/ UNCHANGED volumeVars
  PROVE  AllOwned'
<1>1. ASSUME UNCHANGED <<fat, block>>, HeldByOperation \subseteq HeldByOperation' PROVE AllOwned'
  <2>1. Owners \subseteq Owners'
    BY <1>1, NothingWritten, OwnersFacts DEF Owners
  <2> QED
    BY <1>1, <2>1, OwnedSame
<1>2. ASSUME TreeStays, UNCHANGED fat, HeldByOperation \subseteq HeldByOperation' PROVE AllOwned'
  <2>1. Owners \subseteq Owners'
    BY <1>2, OwnersFacts DEF Owners
  <2> QED
    BY <1>2, <2>1, OwnedSame
<1>3. pc = "idle" => HeldByOperation = {}
  BY DEF HeldByOperation, TreeInv, OperationIsSound, NoOperation
<1>4. CASE \/ \E d, name : \E case \in Cases : OpenFile(d, name, case) \/ CreateFile(d, name, case)
           \/ \E h : CloseFile(h) \/ AppendCall(h)
           \/ \E name : GetDirectory(name)
           \/ \E d : ForgetDirectory(d)
           \/ \E d, kind, name, new_name : RenameEntry(d, kind, name, new_name)
  <2>1. pc = "idle" /\ UNCHANGED <<fat, block>>
    BY <1>4 DEF OpenFile, CreateFile, CloseFile, AppendCall, GetDirectory, ForgetDirectory,
                RenameEntry, Begin, adapterVars
  <2> QED
    BY <1>1, <1>3, <2>1
<1>5. CASE \E name : CreateDirectory(name)
  <2>1. pc = "idle" /\ UNCHANGED fat /\ TreeStays
    BY <1>5, CreateDirectoryKeeps DEF CreateDirectory, Begin
  <2> QED
    BY <1>2, <1>3, <2>1
<1>6. CASE CreateEntryFails
  <2>1. UNCHANGED <<fat, block>> /\ pc = "create"
    BY <1>6 DEF CreateEntryFails, adapterVars
  <2>2. HeldByOperation \subseteq HeldByOperation'
    BY <1>6, <2>1 DEF CreateEntryFails, HeldByOperation
  <2> QED
    BY <1>1, <2>1, <2>2
<1>7. CASE AppendFails
  <2>1. UNCHANGED <<fat, block>> /\ pc \in {"allocate", "extend"} /\ op.kind = "append"
    BY <1>7 DEF AppendFails, adapterVars, TreeInv, OperationIsSound, Appends
  <2>2. HeldByOperation = {}
    BY <2>1 DEF HeldByOperation
  <2> QED
    BY <1>1, <2>1, <2>2
<1>8. CASE WriteCluster
  <2>1. UNCHANGED fat /\ pc = "write" /\ op.kind = "append" /\ TreeStays
    BY <1>8, WriteClusterKeeps DEF WriteCluster, adapterVars, TreeInv, OperationIsSound, Appends
  <2>2. HeldByOperation = {}
    BY <2>1 DEF HeldByOperation
  <2> QED
    BY <1>2, <2>1, <2>2
<1>9. CASE AddNewCluster
  <2>1. UNCHANGED fat /\ pc = "create" /\ pc' = "link" /\ TreeStays
    BY <1>9, AddNewClusterKeeps DEF AddNewCluster
  <2>2. op'.kind = op.kind /\ op'.cluster = op.cluster
    BY <1>9 DEF AddNewCluster, TreeInv, TypeOK, Operations
  <2>3. HeldByOperation \subseteq HeldByOperation'
    BY <2>1, <2>2 DEF HeldByOperation
  <2> QED
    BY <1>2, <2>1, <2>3
<1>10. CASE UNCHANGED volumeVars
  BY <1>1, <1>10 DEF volumeVars, adapterVars, HeldByOperation
<1> QED
  BY <1>4, <1>5, <1>6, <1>7, <1>8, <1>9, <1>10

(* Steps that allocate.                                                    *)
LEMMA AllocationLosesNothing ==
  ASSUME TreeInv, TypeOK', AllOwned, LinkIsMade,
         \/ LinkNewCluster \/ MarkNewCluster \/ MarkDirectoryCluster
         \/ AllocateFirstCluster \/ ExtendChain \/ EndChain
  PROVE  AllOwned'
<1>0. fat \in [Cluster -> FATEntry]
  BY DEF TreeInv, TypeOK
<1>1. TreeStays /\ ChainsGrow
  BY LinkNewClusterKeeps, MarkNewClusterKeeps, MarkDirectoryClusterKeeps, AllocateFirstClusterKeeps,
     ExtendChainKeeps, EndChainKeeps
<1>2. ASSUME NEW c \in Cluster, NEW value, UpdateFATTableEntry(c, value),
             HeldByOperation \subseteq HeldByOperation',
             c \in HeldByOperation' \/ \E h \in TreeFirsts : c \in ChainIn(fat, h)
      PROVE  AllOwned'
  <2>1. \A d \in Cluster : fat[d] = FAT32EntryFree /\ d # c => fat'[d] = FAT32EntryFree
    BY <1>0, <1>2 DEF UpdateFATTableEntry
  <2>2. Owners \subseteq Owners' /\ HeldByOperation' \subseteq Owners' /\ TreeFirsts \subseteq Owners'
    BY <1>1, <1>2, OwnersFacts DEF Owners
  <2>3. \E h \in Owners' : c \in ChainIn(fat', h)
    <3>1. CASE c \in HeldByOperation'
      BY <2>2, <3>1, ChainFacts
    <3>2. CASE \E h \in TreeFirsts : c \in ChainIn(fat, h)
      BY <1>1, <2>2, <3>2, FirstFacts DEF ChainsGrow
    <3> QED
      BY <1>2, <3>1, <3>2
  <2> QED
    BY <1>1, <2>1, <2>2, <2>3, OwnedStays
<1>3. CASE LinkNewCluster
  <2>1. PICK last \in Cluster : IsLastCluster(op.dir.first, last) /\ UpdateFATTableEntry(last, op.added)
    BY <1>3 DEF LinkNewCluster
  <2>2. op.dir.first \in TreeFirsts
    BY <1>3, ObjectIsFolder, FirstFacts DEF LinkNewCluster, TreeInv, OperationIsSound, CreatesEntry
  <2>3. last \in ChainIn(fat, op.dir.first)
    BY <2>1, ChainNow DEF IsLastCluster
  <2>4. HeldByOperation \subseteq HeldByOperation'
    BY <1>3 DEF LinkNewCluster, HeldByOperation
  <2>5. PICK h, v : h \in TreeFirsts /\ h = op.dir.first /\ v = op.added
    BY <2>2
  <2> QED
    BY <1>2, <2>1, <2>3, <2>4, <2>5
<1>4. CASE MarkNewCluster
  <2>1. PICK c \in Cluster, h \in TreeFirsts : c = op.added /\ h = op.dir.first
    BY <1>4, ObjectIsFolder, FirstFacts DEF MarkNewCluster, TreeInv, OperationIsSound, CreatesEntry
  <2>2. UpdateFATTableEntry(c, FAT32EntryAllocatedAndEndOfFile) /\ c \in ChainIn(fat, h)
    BY <1>4, <2>1 DEF MarkNewCluster, LinkIsMade
  <2>3. HeldByOperation \subseteq HeldByOperation'
    BY <1>4 DEF MarkNewCluster, HeldByOperation
  <2> QED
    BY <1>2, <2>2, <2>3
<1>5. CASE MarkDirectoryCluster
  <2>1. /\ op.kind = "mkdir" /\ pc = "mkdir" /\ pc' = "create" /\ op' = op /\ op.cluster \in Cluster
        /\ UpdateFATTableEntry(op.cluster, FAT32EntryAllocatedAndEndOfFile)
    BY <1>5 DEF MarkDirectoryCluster, TreeInv, OperationIsSound, MakesDirectory
  <2>2. PICK c \in Cluster : c = op.cluster
    BY <2>1
  <2>3. HeldByOperation = {} /\ c \in HeldByOperation'
    BY <2>1, <2>2 DEF HeldByOperation
  <2> QED
    BY <1>2, <2>1, <2>2, <2>3
<1>6. CASE AllocateFirstCluster
  <2>1. PICK c \in Cluster : /\ UpdateFATTableEntry(c, FAT32EntryAllocatedAndEndOfFile)
                             /\ op' = [op EXCEPT !.added = c]
    BY <1>6 DEF AllocateFirstCluster
  <2>2. op'.added = c /\ pc = "allocate" /\ pc' = "publish" /\ op.kind = "append"
    BY <1>6, <2>1 DEF AllocateFirstCluster, TreeInv, TypeOK, Operations, OperationIsSound, Appends
  <2>3. HeldByOperation = {} /\ c \in HeldByOperation'
    BY <2>2 DEF HeldByOperation
  <2> QED
    BY <1>2, <2>1, <2>3
<1>7. CASE ExtendChain
  <2>1. PICK last, c \in Cluster : IsLastCluster(op.file.current, last) /\ UpdateFATTableEntry(last, c)
    BY <1>7 DEF ExtendChain
  <2>2. pc = "extend" /\ op.kind = "append" /\ op.file \in open /\ op.file.first # 0
    BY <1>7 DEF ExtendChain, TreeInv, OperationIsSound, Appends
  <2>3. PICK h \in TreeFirsts : h = op.file.first /\ op.file.current \in ChainIn(fat, h)
    BY <2>2, FileFirst
  <2>4. last \in ChainIn(fat, h)
    BY <2>1, <2>3, ChainNow, ChainTail DEF IsLastCluster
  <2>5. HeldByOperation = {}
    BY <2>2 DEF HeldByOperation
  <2> QED
    BY <1>2, <2>1, <2>4, <2>5
<1>8. CASE EndChain
  <2>1. pc = "end_chain" /\ op.kind = "append" /\ op.file \in open /\ op.file.first # 0
        /\ op.added \in ChainIn(fat, op.file.first)
    BY <1>8, ChainNow DEF EndChain, TreeInv, OperationIsSound, Appends
  <2>2. PICK h \in TreeFirsts : h = op.file.first
    BY <2>1, FileFirst
  <2>3. PICK c \in Cluster : c = op.added /\ c \in ChainIn(fat, h)
    BY <2>1, <2>2, ChainFacts
  <2>4. UpdateFATTableEntry(c, FAT32EntryAllocatedAndEndOfFile)
    BY <1>8, <2>3 DEF EndChain
  <2>5. HeldByOperation = {}
    BY <2>1 DEF HeldByOperation
  <2> QED
    BY <1>2, <2>3, <2>4, <2>5
<1> QED
  BY <1>3, <1>4, <1>5, <1>6, <1>7, <1>8

(* Steps that free the head of a chain: the next cluster is held then.     *)
LEMMA ReleaseLosesNothing ==
  ASSUME TreeInv, TypeOK', AllOwned, ReleaseCluster \/ FreeDirectoryCluster
  PROVE  AllOwned'
<1>0. PICK c, next : c = op.cluster /\ next = fat[c]
  OBVIOUS
<1>1. /\ TreeStays /\ \A h \in TreeFirsts : ChainIn(fat', h) = ChainIn(fat, h)
  BY ReleaseClusterKeeps, FreeDirectoryClusterKeeps
<1>2. /\ c \in Cluster /\ fat'[c] = FAT32EntryFree /\ \A d \in Cluster : d # c => fat'[d] = fat[d]
      /\ HeldByOperation = {c}
  <2>1. CASE ReleaseCluster
    <3>1. pc = "release" /\ op.kind = "release" /\ c \in Cluster
      BY <1>0, <2>1 DEF ReleaseCluster, TreeInv, OperationIsSound, Releases
    <3> QED
      BY <1>0, <2>1, <3>1 DEF ReleaseCluster, UpdateFATTableEntry, TreeInv, TypeOK, HeldByOperation
  <2>2. CASE FreeDirectoryCluster
    <3>1. pc = "undo_mkdir" /\ op.kind = "mkdir" /\ c \in Cluster
      BY <1>0, <2>2 DEF FreeDirectoryCluster, TreeInv, OperationIsSound, MakesDirectory
    <3> QED
      BY <1>0, <2>2, <3>1 DEF FreeDirectoryCluster, UpdateFATTableEntry, TreeInv, TypeOK,
                              HeldByOperation
  <2> QED
    BY <2>1, <2>2
<1>3. next \in Cluster => next \in HeldByOperation'
  <2>1. ASSUME next \in Cluster PROVE next \in HeldByOperation'
    <3>1. ReleaseCluster
      BY <1>0, <2>1 DEF FreeDirectoryCluster, TreeInv, OperationIsSound, MakesDirectory
    <3>2. op' = [op EXCEPT !.cluster = next] /\ pc' = "release"
      BY <1>0, <2>1, <3>1 DEF ReleaseCluster, NextClusterInChain
    <3>3. op'.cluster = next
      BY <3>2 DEF TreeInv, TypeOK, Operations
    <3> QED
      BY <2>1, <3>2, <3>3 DEF HeldByOperation
  <2> QED
    BY <2>1
<1>4. ChainIn(fat, c) \subseteq ChainIn(fat', next) \cup {c}
  <2>1. /\ ChainIn(fat', next) \cup {c} \in SUBSET Cluster
        /\ \A x \in ChainIn(fat', next) : fat'[x] \in Cluster => fat'[x] \in ChainIn(fat', next)
        /\ next \in Cluster => next \in ChainIn(fat', next)
    BY <1>2, ChainFacts
  <2>2. IsClosed(fat, ChainIn(fat', next) \cup {c})
    BY <1>0, <1>2, <2>1 DEF IsClosed
  <2> QED
    BY <2>1, <2>2, ChainFacts
<1> SUFFICES ASSUME NEW d \in Cluster, fat'[d] # FAT32EntryFree
             PROVE  \E h \in Owners' : d \in ChainIn(fat', h)
  BY DEF AllOwned
<1>5. d # c /\ fat[d] # FAT32EntryFree
  BY <1>2
<1>6. PICK h \in Owners : d \in ChainIn(fat, h)
  BY <1>5 DEF AllOwned
<1>7. CASE h \in TreeFirsts
  BY <1>1, <1>6, <1>7, OwnersFacts DEF Owners
<1>8. CASE h = c
  <2>1. d \in ChainIn(fat', next)
    BY <1>4, <1>5, <1>6, <1>8
  <2>2. next \in Cluster
    <3> SUFFICES ASSUME next \notin Cluster PROVE FALSE
      OBVIOUS
    <3>1. {} \in SUBSET Cluster /\ IsClosed(fat', {})
      BY DEF IsClosed
    <3> QED
      BY <2>1, <3>1, ChainFacts
  <2> QED
    BY <1>3, <2>1, <2>2 DEF Owners
<1> QED
  BY <1>2, <1>6, <1>7, <1>8 DEF Owners

(* Steps that write an entry of a directory.                               *)
LEMMA EntriesLoseNothing ==
  ASSUME TreeInv, TypeOK', CarefulProgram, AllOwned,
         \/ CreateEntry \/ SetDirectoryEntryFirstCluster \/ RemoveOldEntry
         \/ \E d, name : \E case \in Cases : DeleteFile(d, name, case)
         \/ \E d : RemoveDirectory(d)
  PROVE  AllOwned'
<1>1. CASE CreateEntry \/ SetDirectoryEntryFirstCluster
  <2>1. Owners \subseteq Owners'
    BY <1>1, CreateEntryKeeps, SetDirectoryEntryFirstClusterKeeps DEF Owners
  <2>2. UNCHANGED fat
    BY <1>1 DEF CreateEntry, SetDirectoryEntryFirstCluster, adapterVars
  <2> QED
    BY <2>1, <2>2, OwnedSame
<1>2. CASE RemoveOldEntry
  <2>1. TreeFirsts \subseteq TreeFirsts'
    BY <1>2, RemoveOldEntryKeeps
  <2>2. pc = "remove_old" /\ op.kind = "rename" /\ UNCHANGED fat
    BY <1>2 DEF RemoveOldEntry, adapterVars, TreeInv, OperationIsSound, Renames
  <2>3. HeldByOperation = {}
    BY <2>2 DEF HeldByOperation
  <2> QED
    BY <2>1, <2>2, <2>3, OwnedSame DEF Owners
<1>3. CASE (\E d, name : \E case \in Cases : DeleteFile(d, name, case)) \/ \E d : RemoveDirectory(d)
  <2>1. PICK a : EntryGoes(a) /\ RemoveAndRelease(a)
    BY <1>3, DeleteFileKeeps, RemoveDirectoryKeeps
  <2>2. pc = "idle" /\ HeldByOperation = {}
    <3>1. pc = "idle"
      BY <1>3 DEF DeleteFile, RemoveDirectory
    <3> QED
      BY <3>1 DEF HeldByOperation, TreeInv, OperationIsSound, NoOperation
  <2>3. Tree' = Tree \ {a} /\ \A b \in Tree : b # a => Leads(b)' = Leads(b)
    BY <2>1, GoesFromTree, GoesFromFolders DEF Leads
  <2>4. PICK c : c = Leads(a)
    OBVIOUS
  <2>5. TreeFirsts \subseteq TreeFirsts' \cup ({c} \ {0})
    BY <2>3, <2>4 DEF TreeFirsts
  <2>6. c # 0 => c \in HeldByOperation'
    <3>1. ASSUME c # 0 PROVE c \in HeldByOperation'
      <4>1. pc' = "release" /\ op' = [NoOperation EXCEPT !.kind = "release", !.cluster = c]
        BY <2>1, <2>4, <3>1 DEF RemoveAndRelease, Begin, Leads
      <4>2. c \in Cluster /\ op'.cluster = c
        BY <2>1, <2>4, <3>1, <4>1, FirstFacts DEF EntryGoes, NoOperation
      <4> QED
        BY <4>1, <4>2 DEF HeldByOperation
    <3> QED
      BY <3>1
  <2>7. Owners \subseteq Owners'
    BY <2>2, <2>5, <2>6 DEF Owners
  <2> QED
    BY <2>1, <2>7, OwnedSame DEF EntryGoes
<1> QED
  BY <1>1, <1>2, <1>3

(* AddNewCluster has linked the cluster that it marks.                     *)
LEMMA LinkStaysMade ==
  ASSUME TreeInv, TypeOK', LinkIsMade, [Next]_volumeVars
  PROVE  LinkIsMade'
<1> SUFFICES ASSUME pc' = "mark" PROVE op'.added \in ChainIn(fat', op'.dir.first)
  BY DEF LinkIsMade
<1>1. LinkNewCluster \/ UNCHANGED volumeVars
  BY DEF Next, BeginOperation, Continue, PowerLoss, OpenFile, CreateFile, DeleteFile, CloseFile,
     AppendCall, GetDirectory, CreateDirectory, ForgetDirectory, RemoveDirectory, RenameEntry,
     RemoveAndRelease, Begin, Return, CreateEntryFails, CreateEntry, AddNewCluster, MarkNewCluster,
     ReleaseCluster, AppendFails, AllocateFirstCluster, SetDirectoryEntryFirstCluster, ExtendChain,
     EndChain, WriteCluster, MarkDirectoryCluster, FreeDirectoryCluster, RemoveOldEntry
<1>2. CASE LinkNewCluster
  <2>1. PICK last \in Cluster : IsLastCluster(op.dir.first, last) /\ UpdateFATTableEntry(last, op.added)
    BY <1>2 DEF LinkNewCluster
  <2>2. /\ op' = op /\ op.added \in Cluster /\ fat'[last] = op.added
    BY <1>2, <2>1 DEF LinkNewCluster, UpdateFATTableEntry, TreeInv, TypeOK, OperationIsSound,
                      CreatesEntry
  <2>3. PICK h : h = op.dir.first
    OBVIOUS
  <2>4. IsHead(h) /\ last \in ChainIn(fat, h)
    BY <1>2, <2>1, <2>3, ChainNow, ObjectIsFolder, FirstFacts
       DEF LinkNewCluster, TreeInv, OperationIsSound, CreatesEntry, IsLastCluster
  <2>5. last \in ChainIn(fat', h)
    BY <1>2, <2>4, LinkNewClusterKeeps DEF ChainsGrow
  <2> QED
    BY <2>2, <2>3, <2>5, ChainFacts
<1>3. CASE UNCHANGED volumeVars
  BY <1>3 DEF volumeVars, adapterVars, LinkIsMade
<1> QED
  BY <1>1, <1>2, <1>3

(* Every step keeps it; the power losses are counted.                      *)
LEMMA StepLosesNothing ==
  ASSUME TreeInv, LossInv, CarefulProgram, [Next]_volumeVars
  PROVE  LossInv'
<1>0. TypeOK' /\ LinkIsMade'
  BY TypesKeep, LinkStaysMade DEF LossInv
<1>1. CASE PowerLoss
  <2>1. power_losses' \in Nat /\ power_losses' # 0
    BY <1>1 DEF PowerLoss, LossInv
  <2> QED
    BY <1>0, <2>1 DEF LossInv
<1>2. CASE BeginOperation \/ Continue \/ UNCHANGED volumeVars
  <2>1. power_losses' = power_losses
    BY <1>2 DEF volumeVars, adapterVars, BeginOperation, Continue, OpenFile, CreateFile, DeleteFile,
       CloseFile, AppendCall, GetDirectory, CreateDirectory, ForgetDirectory, RemoveDirectory,
       RenameEntry, CreateEntryFails, CreateEntry, AddNewCluster, LinkNewCluster, MarkNewCluster,
       ReleaseCluster, AppendFails, AllocateFirstCluster, SetDirectoryEntryFirstCluster, ExtendChain,
       EndChain, WriteCluster, MarkDirectoryCluster, FreeDirectoryCluster, RemoveOldEntry
  <2>2. ASSUME AllOwned PROVE AllOwned'
    <3>1. CASE BeginOperation
      <4>1. \/ \E d, name : \E case \in Cases : OpenFile(d, name, case) \/ CreateFile(d, name, case)
            \/ \E h : CloseFile(h) \/ AppendCall(h)
            \/ \E name : GetDirectory(name) \/ CreateDirectory(name)
            \/ \E d : ForgetDirectory(d)
            \/ \E d, kind, name, new_name : RenameEntry(d, kind, name, new_name)
            \/ \E d, name : \E case \in Cases : DeleteFile(d, name, case)
            \/ \E d : RemoveDirectory(d)
        BY <3>1 DEF BeginOperation
      <4> QED
        BY <1>0, <2>2, <4>1, QuietLosesNothing, EntriesLoseNothing
    <3>2. CASE Continue
      BY <1>0, <2>2, <3>2, QuietLosesNothing, EntriesLoseNothing, AllocationLosesNothing,
         ReleaseLosesNothing DEF Continue, LossInv
    <3>3. CASE UNCHANGED volumeVars
      BY <1>0, <2>2, <3>3, QuietLosesNothing
    <3> QED
      BY <1>2, <3>1, <3>2, <3>3
  <2> QED
    BY <1>0, <2>1, <2>2 DEF LossInv
<1> QED
  BY <1>1, <1>2 DEF Next

(* At the beginning the root's cluster is the only one.                    *)
LEMMA InitLosesNothing ==
  ASSUME Init
  PROVE  LossInv
<1>1. \A c \in Cluster : fat[c] # FAT32EntryFree => c = RootDirectoryCluster
  BY DEF Init
<1>2. RootDirectoryCluster \in Owners /\ RootDirectoryCluster \in ChainIn(fat, RootDirectoryCluster)
  BY NumberFacts, ChainFacts DEF Owners, TreeFirsts
<1>3. AllOwned
  BY <1>1, <1>2 DEF AllOwned
<1> QED
  BY <1>3 DEF LossInv, LinkIsMade, Init

(* Between operations the owners are the entries of the tree and its root. *)
LEMMA LossInvGivesNothingLost ==
  ASSUME TreeInv, LossInv
  PROVE  NothingLost
<1> SUFFICES ASSUME pc = "idle", power_losses = 0, NEW c \in Cluster, fat[c] # FAT32EntryFree
             PROVE  \/ c \in ChainClusters(RootDirectoryCluster)
                    \/ \E a \in Tree : c \in ChainClusters(EntryAt(a).first)
  BY DEF NothingLost
<1>1. PICK h \in Owners : c \in ChainIn(fat, h)
  BY DEF LossInv, AllOwned
<1>2. HeldByOperation = {}
  BY DEF HeldByOperation, TreeInv, OperationIsSound, NoOperation
<1>3. h = RootDirectoryCluster \/ \E a \in Tree : h = EntryAt(a).first
  BY <1>2 DEF Owners, TreeFirsts, Leads
<1>4. c \in ChainClusters(h)
  BY <1>1, ChainNow
<1> QED
  BY <1>3, <1>4

(* Between operations, and while the power stays, every allocated cluster  *)
(* is one of an entry of the tree: what CreateDirectory allocates and      *)
(* cannot use it gives back, and what DeleteFile and RemoveDirectory cut   *)
(* off they release.                                                       *)
THEOREM NoClusterOfTheTreeIsLost == CarefulProgram => (Spec => []NothingLost)
<1> SUFFICES ASSUME CarefulProgram PROVE Spec => []NothingLost
  OBVIOUS
<1>1. Init => LossInv
  BY InitLosesNothing
<1>2. TreeInv /\ LossInv /\ [Next]_volumeVars => LossInv'
  BY StepLosesNothing
<1>3. TreeInv /\ LossInv => NothingLost
  BY LossInvGivesNothingLost
<1>4. Spec => []TreeInv
  BY TreeIsSound
<1> QED
  BY <1>1, <1>2, <1>3, <1>4, PTL DEF Spec

=============================================================================
