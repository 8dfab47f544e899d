----------------------------- MODULE FAT32Volume -----------------------------
(***************************************************************************)
(* The directory tree of a FAT32 volume over its FAT: the operations of    *)
(* FAT32Directory and FAT32DirectoryCluster that create, rename and remove *)
(* entries, allocate clusters for them and release them, together with the *)
(* open files and the directory objects the program still holds.           *)
(*                                                                         *)
(* An operation is a sequence of device writes, one action each, and the   *)
(* power may go between two of them.  Every name is short here, so that an *)
(* entry takes one slot: the slots of long names, the entries of a         *)
(* directory for itself and its parent, the bytes and sizes of files and   *)
(* the directory cache are left out.  The tree is two levels deep.         *)
(***************************************************************************)
EXTENDS FAT32BlockIOAdapter, FiniteSets

CONSTANTS
  Names,           \* the names of entries, which a directory compares ignoring case
  Cases,           \* the ways to spell a name, which the file map tells apart
  NoName,
  SlotsPerCluster, \* directory entries in a cluster
  Careful,         \* TRUE: the program renames and removes nothing it still uses
  MayRename,       \* TRUE: the program renames
  LossPoints,      \* the points of an operation where the power may go
  MaxOpen,         \* bound: files open at once
  MaxPowerLosses   \* bound

\* The points of an operation between its writes, named for what comes next.
Points == {"idle", "create", "link", "mark", "release", "allocate", "publish", "extend",
           "end_chain", "write", "mkdir", "undo_mkdir", "remove_old"}

ASSUME VolumeTreeAssumption ==
  /\ NoName \notin Names
  /\ SlotsPerCluster \in Nat \ {0, 1}
  /\ Careful \in BOOLEAN
  /\ MayRename \in BOOLEAN
  /\ LossPoints \subseteq Points
  /\ MaxOpen \in Nat
  /\ MaxPowerLosses \in Nat

VARIABLES
  block,       \* the clusters of the data region, read as directory entries
  open,        \* the file map: the open files
  directories, \* the FAT32Directory objects the program holds
  pc,          \* where the operation in progress is, "idle" between operations
  op,          \* its arguments and local variables
  power_losses

volumeVars == <<adapterVars, block, open, directories, pc, op, power_losses>>

Indices == 0 .. (SlotsPerCluster - 1)
Addresses == (Cluster \cup {0}) \X Indices
NoAddress == <<0, 0>>

Entry == [kind : {"unused", "file", "dir", "data"}, name : Names \cup {NoName},
          first : Cluster \cup {0}]

NotAnEntry(kind) == [kind |-> kind, name |-> NoName, first |-> 0]
EmptyCluster == [i \in Indices |-> NotAnEntry("unused")]
DataCluster == [i \in Indices |-> NotAnEntry("data")] \* the bytes of a file

Directories == [name : Names \cup {NoName}, address : Addresses, first : Cluster]

RootDirectory == [name |-> NoName, address |-> NoAddress, first |-> RootDirectoryCluster]

\* A file is known by the path it was opened with; it remembers the address
\* of its entry, its first cluster and the one it is at.
Paths == [dir : Names \cup {NoName}, name : Names \cup {NoName}, case : Cases \cup {NoName}]

Handles == [path : Paths, address : Addresses, first : Cluster \cup {0},
            current : Cluster \cup {0}]

NoHandle == [path |-> [dir |-> NoName, name |-> NoName, case |-> NoName],
             address |-> NoAddress, first |-> 0, current |-> 0]

\* The operation: the directory it changes, the entry it creates, the one it
\* removes, the file it works for and the clusters it allocates or releases.
NoOperation == [kind |-> "none", dir |-> RootDirectory, entry |-> NotAnEntry("unused"),
                old |-> NoAddress, file |-> NoHandle, cluster |-> 0, added |-> 0]

Init ==
  /\ fat = [c \in Cluster |-> IF c = RootDirectoryCluster
                              THEN FAT32EntryAllocatedAndEndOfFile ELSE FAT32EntryFree]
  /\ last_empty_cluster_found = 0
  /\ block = [c \in Cluster |-> EmptyCluster]
  /\ open = {}
  /\ directories = {RootDirectory}
  /\ pc = "idle"
  /\ op = NoOperation
  /\ power_losses = 0

-----------------------------------------------------------------------------
(* Reading a directory: the slots of its chain, in their order.            *)

EntryAt(a) == block[a[1]][a[2]]

SlotsOf(first_cluster) == ChainClusters(first_cluster) \X Indices

\* The first of a set of slots of a directory, in the order of its chain.
IsFirstSlot(a, slots) ==
  /\ a \in slots
  /\ \A b \in slots : IF b[1] = a[1] THEN a[2] <= b[2] ELSE b[1] \in ChainClusters(a[1])

\* Mutant: only the first cluster is searched.
FindInFirstCluster(first_cluster, kind, name) ==
  {a \in {first_cluster} \X Indices : EntryAt(a).kind = kind /\ EntryAt(a).name = name}

\* Names are compared whatever their case, with entries of the same kind.
FindDirectoryEntry(first_cluster, kind, name) ==
  {a \in SlotsOf(first_cluster) : EntryAt(a).kind = kind /\ EntryAt(a).name = name}

IsUnused(a) == EntryAt(a).kind = "unused"

IsEmpty(first_cluster) == \A a \in SlotsOf(first_cluster) : IsUnused(a)

\* The slot after a slot of a directory.
Successor(a) == IF a[2] + 1 \in Indices THEN <<a[1], a[2] + 1>>
                ELSE <<NextClusterInChain(a[1]), 0>>

\* Where an entry fits: there and in the next slot, which may have to say
\* that the directory ends, nothing is in use.
EmptyBlocksOfEntries(first_cluster) ==
  {a \in SlotsOf(first_cluster) : IsUnused(a) /\ Successor(a) \in SlotsOf(first_cluster)
                                              /\ IsUnused(Successor(a))}

IsLastCluster(first_cluster, c) == c \in ChainClusters(first_cluster) /\ IsEndOfChain(fat[c])

WriteSlot(a, entry) == block' = [block EXCEPT ![a[1]][a[2]] = entry]

RemoveEntry(a) == WriteSlot(a, NotAnEntry("unused"))

-----------------------------------------------------------------------------
(* The beginning and the end of an operation, and the names of open files. *)

Begin(operation, label) ==
  /\ pc = "idle"
  /\ op' = operation
  /\ pc' = label

Return == pc' = "idle" /\ op' = NoOperation

Path(d, name, case) == [dir |-> d.name, name |-> name, case |-> case]

IsFileOpen(path) == \E h \in open : h.path = path

\* A handle as the constructor of FAT32File makes it from an entry.
Handle(path, address, first) ==
  [path |-> path, address |-> address, first |-> first, current |-> first]

-----------------------------------------------------------------------------
(* CreateEntry, for a new file, a new directory or a new name.             *)

\* Mutant: it tries again for ever when the volume is full.
CreateEntryFailsOnUse ==
  LET dir == op.dir.first IN
  /\ pc = "create"
  /\ FindDirectoryEntry(dir, op.entry.kind, op.entry.name) # {}
  /\ IF op.kind = "mkdir" THEN pc' = "undo_mkdir" /\ UNCHANGED op ELSE Return
  /\ UNCHANGED <<adapterVars, block, open, directories, power_losses>>

\* An entry of this kind and name exists, or the volume is full.
CreateEntryFails ==
  LET dir == op.dir.first IN
  /\ pc = "create"
  /\ \/ FindDirectoryEntry(dir, op.entry.kind, op.entry.name) # {}
     \/ EmptyBlocksOfEntries(dir) = {} /\ NoEmptyCluster(0)
  /\ IF op.kind = "mkdir" THEN pc' = "undo_mkdir" /\ UNCHANGED op ELSE Return
  /\ UNCHANGED <<adapterVars, block, open, directories, power_losses>>

\* The entry is written; a file is then open, a directory is handed out.
CreateEntry ==
  LET dir == op.dir.first IN
  /\ pc = "create"
  /\ FindDirectoryEntry(dir, op.entry.kind, op.entry.name) = {}
  /\ \E a \in EmptyBlocksOfEntries(dir) :
       /\ IsFirstSlot(a, EmptyBlocksOfEntries(dir))
       /\ WriteSlot(a, op.entry)
       /\ open' = IF op.kind = "create" /\ ~IsFileOpen(op.file.path)
                  THEN open \cup {[op.file EXCEPT !.address = a]} ELSE open
       /\ directories' = IF op.kind = "mkdir"
                         THEN directories \cup {[name |-> op.entry.name, address |-> a,
                                                 first |-> op.entry.first]}
                         ELSE directories
  /\ IF op.kind = "rename" THEN pc' = "remove_old" /\ UNCHANGED op ELSE Return
  /\ UNCHANGED <<adapterVars, power_losses>>

\* AddNewCluster: found and cleared, ...
AddNewCluster ==
  LET dir == op.dir.first IN
  /\ pc = "create"
  /\ FindDirectoryEntry(dir, op.entry.kind, op.entry.name) = {}
  /\ EmptyBlocksOfEntries(dir) = {}
  /\ \E c \in Cluster :
       /\ FindNextEmptyCluster(0, c)
       /\ block' = [block EXCEPT ![c] = EmptyCluster]
       /\ op' = [op EXCEPT !.added = c]
  /\ pc' = "link"
  /\ UNCHANGED <<fat, open, directories, power_losses>>

\* ... linked from the last cluster of the directory, ...
LinkNewCluster ==
  /\ pc = "link"
  /\ \E last \in Cluster :
       /\ IsLastCluster(op.dir.first, last)
       /\ UpdateFATTableEntry(last, op.added)
  /\ pc' = "mark"
  /\ UNCHANGED <<last_empty_cluster_found, block, open, directories, op, power_losses>>

\* ... and marked.
MarkNewCluster ==
  /\ pc = "mark"
  /\ UpdateFATTableEntry(op.added, FAT32EntryAllocatedAndEndOfFile)
  /\ pc' = "create"
  /\ UNCHANGED <<last_empty_cluster_found, block, open, directories, op, power_losses>>

-----------------------------------------------------------------------------
(* Files.                                                                  *)

OpenFile(d, name, case) ==
  /\ pc = "idle"
  /\ d \in directories
  /\ ~IsFileOpen(Path(d, name, case)) \* FILE_ALREADY_OPENED_EXCLUSIVELY
  /\ \E a \in FindDirectoryEntry(d.first, "file", name) :
       open' = open \cup {Handle(Path(d, name, case), a, EntryAt(a).first)}
  /\ UNCHANGED <<adapterVars, block, directories, pc, op, power_losses>>

\* OpenFile with CREATE: the file does not exist, CreateFile makes an entry.
CreateFile(d, name, case) ==
  /\ d \in directories
  /\ FindDirectoryEntry(d.first, "file", name) = {}
  /\ Begin([NoOperation EXCEPT !.kind = "create", !.dir = d,
              !.entry = [kind |-> "file", name |-> name, first |-> 0],
              !.file = Handle(Path(d, name, case), NoAddress, 0)], "create")
  /\ UNCHANGED <<adapterVars, block, open, directories, power_losses>>

CloseFile(h) ==
  /\ pc = "idle"
  /\ h \in open
  /\ open' = open \ {h}
  /\ UNCHANGED <<adapterVars, block, directories, pc, op, power_losses>>

\* Mutant: the entry stays.
ReleaseOnly(a) ==
  /\ UNCHANGED block
  /\ IF EntryAt(a).first = 0 THEN UNCHANGED <<pc, op>>
     ELSE Begin([NoOperation EXCEPT !.kind = "release", !.cluster = EntryAt(a).first], "release")

\* The entry goes first, then the chain, if there is one.
RemoveAndRelease(a) ==
  /\ RemoveEntry(a)
  /\ IF EntryAt(a).first = 0 THEN UNCHANGED <<pc, op>>
     ELSE Begin([NoOperation EXCEPT !.kind = "release", !.cluster = EntryAt(a).first], "release")

\* Mutant: open or not.
DeleteOpenFile(d, name, case) ==
  /\ pc = "idle"
  /\ d \in directories
  /\ \E a \in FindDirectoryEntry(d.first, "file", name) : RemoveAndRelease(a)
  /\ UNCHANGED <<adapterVars, open, directories, power_losses>>

DeleteFile(d, name, case) ==
  /\ pc = "idle"
  /\ d \in directories
  /\ \E a \in FindDirectoryEntry(d.first, "file", name) : RemoveAndRelease(a)
  /\ ~IsFileOpen(Path(d, name, case))
  /\ UNCHANGED <<adapterVars, open, directories, power_losses>>

\* ReleaseChain: it also stops at an entry that leads nowhere.
ReleaseCluster ==
  LET next == NextClusterInChain(op.cluster) IN
  /\ pc = "release"
  /\ UpdateFATTableEntry(op.cluster, FAT32EntryFree)
  /\ IF next \in Cluster THEN op' = [op EXCEPT !.cluster = next] /\ UNCHANGED pc ELSE Return
  /\ UNCHANGED <<last_empty_cluster_found, block, open, directories, power_losses>>

-----------------------------------------------------------------------------
(* Append: a write that fills the last cluster of the file and goes on.    *)

AppendCall(h) ==
  /\ h \in open
  /\ h.first # 0 => \E c \in Cluster : IsLastCluster(h.current, c)
  /\ Begin([NoOperation EXCEPT !.kind = "append", !.file = h],
           IF h.first = 0 THEN "allocate" ELSE "extend")
  /\ UNCHANGED <<adapterVars, block, open, directories, power_losses>>

MoveTo(c) ==
  LET moved == [op.file EXCEPT !.current = c, !.first = IF @ = 0 THEN c ELSE @] IN
  /\ open' = (open \ {op.file}) \cup {moved}
  /\ op' = [op EXCEPT !.file = moved]

AppendFails ==
  /\ \/ pc = "allocate" /\ NoEmptyCluster(0)
     \/ /\ pc = "extend"
        /\ \E last \in Cluster : IsLastCluster(op.file.current, last) /\ NoEmptyCluster(last + 1)
  /\ Return
  /\ UNCHANGED <<adapterVars, block, open, directories, power_losses>>

\* Mutant: the cluster is published without its mark.
AllocateUnmarked ==
  /\ pc = "allocate"
  /\ \E c \in Cluster : FindNextEmptyCluster(0, c) /\ op' = [op EXCEPT !.added = c]
  /\ pc' = "publish"
  /\ UNCHANGED <<fat, block, open, directories, power_losses>>

AllocateFirstCluster ==
  /\ pc = "allocate"
  /\ \E c \in Cluster :
       /\ FindNextEmptyCluster(0, c)
       /\ UpdateFATTableEntry(c, FAT32EntryAllocatedAndEndOfFile)
       /\ op' = [op EXCEPT !.added = c]
  /\ pc' = "publish"
  /\ UNCHANGED <<block, open, directories, power_losses>>

\* Whatever the slot holds by now, its first cluster is overwritten.
SetDirectoryEntryFirstCluster ==
  LET a == op.file.address IN
  /\ pc = "publish"
  /\ WriteSlot(a, [EntryAt(a) EXCEPT !.first = op.added])
  /\ MoveTo(op.added)
  /\ pc' = "write"
  /\ UNCHANGED <<adapterVars, directories, power_losses>>

ExtendChain ==
  /\ pc = "extend"
  /\ \E last, c \in Cluster :
       /\ IsLastCluster(op.file.current, last)
       /\ FindNextEmptyCluster(last + 1, c)
       /\ UpdateFATTableEntry(last, c)
       /\ op' = [op EXCEPT !.added = c]
  /\ pc' = "end_chain"
  /\ UNCHANGED <<block, open, directories, power_losses>>

EndChain ==
  /\ pc = "end_chain"
  /\ UpdateFATTableEntry(op.added, FAT32EntryAllocatedAndEndOfFile)
  /\ MoveTo(op.added)
  /\ pc' = "write"
  /\ UNCHANGED <<last_empty_cluster_found, block, directories, power_losses>>

WriteCluster ==
  /\ pc = "write"
  /\ block' = [block EXCEPT ![op.file.current] = DataCluster]
  /\ Return
  /\ UNCHANGED <<adapterVars, open, directories, power_losses>>

-----------------------------------------------------------------------------
(* Directories.                                                            *)

\* Bound: GetDirectory and CreateDirectory are called on the root only.
GetDirectory(name) ==
  /\ pc = "idle"
  /\ \E a \in FindDirectoryEntry(RootDirectoryCluster, "dir", name) :
       directories' = directories \cup {[name |-> name, address |-> a, first |-> EntryAt(a).first]}
  /\ UNCHANGED <<adapterVars, block, open, pc, op, power_losses>>

ForgetDirectory(d) ==
  /\ pc = "idle"
  /\ d \in directories \ {RootDirectory}
  /\ directories' = directories \ {d}
  /\ UNCHANGED <<adapterVars, block, open, pc, op, power_losses>>

\* Its cluster is found and written, ...
CreateDirectory(name) ==
  /\ \E c \in Cluster :
       /\ FindNextEmptyCluster(0, c)
       /\ block' = [block EXCEPT ![c] = EmptyCluster]
       /\ Begin([NoOperation EXCEPT !.kind = "mkdir", !.cluster = c,
                   !.entry = [kind |-> "dir", name |-> name, first |-> c]], "mkdir")
  /\ UNCHANGED <<fat, open, directories, power_losses>>

\* ... then marked, before there is an entry for it; ...
MarkDirectoryCluster ==
  /\ pc = "mkdir"
  /\ UpdateFATTableEntry(op.cluster, FAT32EntryAllocatedAndEndOfFile)
  /\ pc' = "create"
  /\ UNCHANGED <<last_empty_cluster_found, block, open, directories, op, power_losses>>

\* Mutant: it is kept.
KeepDirectoryCluster ==
  /\ pc = "undo_mkdir"
  /\ Return
  /\ UNCHANGED <<adapterVars, block, open, directories, power_losses>>

\* ... and given back when the entry cannot be created.
FreeDirectoryCluster ==
  /\ pc = "undo_mkdir"
  /\ UpdateFATTableEntry(op.cluster, FAT32EntryFree)
  /\ Return
  /\ UNCHANGED <<last_empty_cluster_found, block, open, directories, power_losses>>

\* RemoveDirectory does not look into the directory: that is up to a careful
\* program, which also drops its object for what it has removed.
RemoveDirectory(d) ==
  /\ pc = "idle"
  /\ d \in directories \ {RootDirectory}
  /\ EntryAt(d.address).kind = "dir" \* DIRECTORY_NOT_FOUND
  /\ Careful => IsEmpty(d.first)
  /\ RemoveAndRelease(d.address)
  /\ directories' = IF Careful THEN directories \ {d} ELSE directories
  /\ UNCHANGED <<adapterVars, open, power_losses>>

\* The entry is that of an open file, of the directory of an open file, or
\* of a directory object.
InUse(a) ==
  \/ \E h \in open : h.address = a \/ h.address[1] \in ChainClusters(EntryAt(a).first)
  \/ \E d \in directories : d.address = a

\* The new name gets the chain of the old one, which is then removed.
RenameEntry(d, kind, name, new_name) ==
  /\ MayRename
  /\ d \in directories
  /\ \E a \in FindDirectoryEntry(d.first, kind, name) :
       /\ Careful => ~InUse(a)
       /\ Begin([NoOperation EXCEPT !.kind = "rename", !.dir = d, !.old = a,
                   !.entry = [EntryAt(a) EXCEPT !.name = new_name]], "create")
  /\ UNCHANGED <<adapterVars, block, open, directories, power_losses>>

RemoveOldEntry ==
  /\ pc = "remove_old"
  /\ RemoveEntry(op.old)
  /\ Return
  /\ UNCHANGED <<adapterVars, open, directories, power_losses>>

-----------------------------------------------------------------------------

\* Everything in memory is lost, the volume is mounted again.
PowerLoss ==
  /\ power_losses < MaxPowerLosses
  /\ pc \in LossPoints
  /\ power_losses' = power_losses + 1
  /\ last_empty_cluster_found' = 0
  /\ open' = {}
  /\ directories' = {RootDirectory}
  /\ Return
  /\ UNCHANGED <<fat, block>>

BeginOperation ==
  \/ \E d \in directories, name \in Names, case \in Cases :
       \/ Cardinality(open) < MaxOpen /\ (OpenFile(d, name, case) \/ CreateFile(d, name, case))
       \/ DeleteFile(d, name, case)
  \/ \E h \in open : CloseFile(h) \/ AppendCall(h)
  \/ \E name \in Names : GetDirectory(name) \/ CreateDirectory(name)
  \/ \E d \in directories : ForgetDirectory(d) \/ RemoveDirectory(d)
  \/ \E d \in directories, kind \in {"file", "dir"}, name, new_name \in Names :
       RenameEntry(d, kind, name, new_name)

Continue ==
  \/ CreateEntryFails \/ CreateEntry \/ AddNewCluster \/ LinkNewCluster \/ MarkNewCluster
  \/ ReleaseCluster
  \/ AppendFails \/ AllocateFirstCluster \/ SetDirectoryEntryFirstCluster
  \/ ExtendChain \/ EndChain \/ WriteCluster
  \/ MarkDirectoryCluster \/ FreeDirectoryCluster \/ RemoveOldEntry

Next == BeginOperation \/ Continue \/ PowerLoss

Spec == Init /\ [][Next]_volumeVars /\ WF_volumeVars(Continue)

-----------------------------------------------------------------------------
(* Properties.                                                             *)

EntriesIn(first_cluster) ==
  {a \in SlotsOf(first_cluster) : EntryAt(a).kind \in {"file", "dir"}}

Subdirectories == {a \in EntriesIn(RootDirectoryCluster) : EntryAt(a).kind = "dir"}

\* The entries that can be reached from the root.
Tree == EntriesIn(RootDirectoryCluster) \cup UNION {EntriesIn(EntryAt(a).first) : a \in Subdirectories}

(* Wherever an operation is, and so wherever the power may go, the entries *)
(* of the tree and the root lead through allocated clusters to an end      *)
(* mark.  The exception is the cluster that AddNewCluster or Write has     *)
(* linked and marks next.                                                  *)
TreeAllocated ==
  \A first \in {RootDirectoryCluster} \cup {EntryAt(a).first : a \in Tree} :
    \A c \in ChainClusters(first) :
      \/ fat[c] # FAT32EntryFree
      \/ pc \in {"mark", "end_chain"} /\ c = op.added

(* No cluster belongs to two entries of the tree, unless RenameEntry is    *)
(* between the entry it has created and the one it is to remove.           *)
TreeDisjoint ==
  \A a, b \in Tree : a # b =>
    \/ ChainClusters(EntryAt(a).first) \cap ChainClusters(EntryAt(b).first) = {}
    \/ pc = "remove_old" /\ op.old \in {a, b}

(* Between operations every allocated cluster belongs to an entry of the   *)
(* tree: what CreateDirectory allocates and cannot use it gives back, and  *)
(* what DeleteFile and RemoveDirectory cut off they release.  A power loss *)
(* may lose clusters, and nothing finds them again.                        *)
NothingLost ==
  pc = "idle" /\ power_losses = 0 => \A c \in Cluster : fat[c] # FAT32EntryFree =>
    \/ c \in ChainClusters(RootDirectoryCluster)
    \/ \E a \in Tree : c \in ChainClusters(EntryAt(a).first)

(* A directory never has two entries of a kind with the same name, however *)
(* its slots were used, freed and used again: CreateEntry looks through    *)
(* the whole chain before it writes.                                       *)
NamesUnique ==
  \A dir \in {RootDirectoryCluster} \cup {EntryAt(a).first : a \in Subdirectories} :
    \A a, b \in EntriesIn(dir) :
      EntryAt(a).kind = EntryAt(b).kind /\ EntryAt(a).name = EntryAt(b).name => a = b

(* A file that is open can trust what it remembers: its entry is where it  *)
(* was, has the name it was opened by and begins with the same cluster,    *)
(* and the cluster it is at belongs to its chain.  DeleteFile looks at the *)
(* file map for this; RenameEntry and RemoveDirectory do not, and a        *)
(* careful program has to.                                                 *)
OpenFilesKeepTheirEntries ==
  \A h \in open :
    /\ h.address \in Tree
    /\ EntryAt(h.address) = [kind |-> "file", name |-> h.path.name, first |-> h.first]
    /\ h.first # 0 => h.current \in ChainClusters(h.first)

(* Every operation ends: no loop over a chain, over the slots of a         *)
(* directory or over the retries of FindEmptyBlockOfEntries goes on for    *)
(* ever.                                                                   *)
OperationEnds == pc # "idle" ~> pc = "idle"

-----------------------------------------------------------------------------
(* What comments in the code say, which the code does not do.              *)

(* "Insure the file is not open" (fat32_directory.cpp:610): a file that is *)
(* open is not deleted.                                                    *)
OpenFilesAreNotDeleted == \A h \in open : EntryAt(h.address).kind = "file"

(* The clusters ReleaseChain deallocates "can be reused by other files or  *)
(* directories" (fat32_blockio_adapter.h:236): while one is free, one is   *)
(* found.                                                                  *)
ReleasedClustersCanBeReused ==
  (\E c \in Cluster : fat[c] = FAT32EntryFree) => ~NoEmptyCluster(0)

=============================================================================
