---------------------------- MODULE DirectoryLookup ----------------------------
(***************************************************************************)
(* Finding directories by their path: FAT32Filesystem::GetDirectory over   *)
(* the directory cache, the operations of FAT32Directory that change what  *)
(* a path leads to, and the command line interface that calls them, with   *)
(* its current directory.                                                  *)
(*                                                                         *)
(* The commands run one after the other, each as one action: what may go   *)
(* wrong between two device writes is in FAT32Volume.  A directory is one  *)
(* cluster of slots, those for itself and for its parent first; files, and *)
(* the tables of clusters, are left out.  A path is the sequence of its    *)
(* names.                                                                  *)
(***************************************************************************)
EXTENDS DirectoryCache

CONSTANTS
  Names, Dot, DotDot,
  Clusters, RootDirectoryCluster,
  NoName,
  NamedSlots,   \* the slots of a directory after '.' and '..'
  MaxDepth,     \* bound: the length of a path
  MaxIndexed,   \* bound: the paths the index of the cache knows
  Careful       \* TRUE: the user never gives '.' or '..' for a name, and deletes and renames
                \* no directory that has directories in it

ASSUME LookupAssumption ==
  /\ {Dot, DotDot, NoName} \cap Names = {} /\ Cardinality({Dot, DotDot, NoName}) = 3
  /\ RootDirectoryCluster \in Clusters
  /\ NamedSlots \in Nat \ {0} /\ MaxDepth \in Nat \ {0} /\ MaxIndexed \in Nat
  /\ Careful \in BOOLEAN

VARIABLES
  volume,    \* the slots of every cluster
  allocated, \* the clusters in use
  cache,     \* the directory cache of the filesystem
  current_directory_path,
  halted     \* the kernel has used an entry that is not there

vars == <<volume, allocated, cache, current_directory_path, halted>>

Indices == 0 .. (NamedSlots + 1)
NoEntry == [name |-> NoName, first |-> RootDirectoryCluster]
EntryFor(name, first) == [name |-> name, first |-> first]

\* '.' leads to the directory, '..' to its parent.
EmptyDirectory(cluster, parent) ==
  [i \in Indices |-> CASE i = 0 -> EntryFor(Dot, cluster)
                       [] i = 1 -> EntryFor(DotDot, parent)
                       [] OTHER -> NoEntry]

Init ==
  /\ volume = [c \in Clusters |-> [i \in Indices |-> NoEntry]]
  /\ allocated = {RootDirectoryCluster}
  /\ cache = EmptyCache
  /\ current_directory_path = << >>
  /\ halted = FALSE

-----------------------------------------------------------------------------
(* Objects of directories, and the lookup of an entry in one.              *)

NoAddress == <<0, 0>>
Directory(path, address, first) == [path |-> path, address |-> address, first |-> first]
RootDirectory == Directory(<< >>, NoAddress, RootDirectoryCluster)

\* The addresses of the entries of a directory that have this name.
FindDirectoryEntry(cluster, name) ==
  {a \in {cluster} \X Indices : volume[cluster][a[2]].name = name}

EntryAt(a) == volume[a[1]][a[2]]
First(addresses) == CHOOSE a \in addresses : \A b \in addresses : a[2] <= b[2]

\* A lookup in progress: its outcome, the cache, and the directory it has reached.
Lookup(outcome, c, directory) == [outcome |-> outcome, cache |-> c, directory |-> directory]

\* The next name of a path is searched for in the directory reached, and what
\* is found goes to the cache.
Descend(lookup, name) ==
  LET found == FindDirectoryEntry(lookup.directory.first, name)
      path == Append(lookup.directory.path, name)
      a == First(found)
  IN IF lookup.outcome # "found" THEN lookup
     ELSE IF found = {} THEN [lookup EXCEPT !.outcome = "not_found"]
     ELSE Lookup("found", AddEntry(lookup.cache, CacheEntry(EntryAt(a).first, a, path)),
                 Directory(path, a, EntryAt(a).first))

\* Mutant: the path is shortened to the prefix, the cluster is not.
TryAnyPrefix(lookup, prefix) ==
  LET r == FindEntry(lookup.cache, prefix)
  IN IF lookup.outcome # "missed" THEN lookup
     ELSE [lookup EXCEPT !.outcome = r.outcome, !.cache = r.cache, !.directory.path = prefix]

\* The longest part of the path that is cached, without its last name.
TryPrefix(lookup, prefix) ==
  LET r == FindEntry(lookup.cache, prefix)
      e == Head(r.cache.list)
  IN IF lookup.outcome # "missed" THEN lookup
     ELSE Lookup(r.outcome, r.cache,
                 IF r.outcome = "found" THEN Directory(prefix, e.address, e.cluster)
                 ELSE lookup.directory)

LongestCachedPrefix(c, path) ==
  LET tried[i \in 0 .. (Len(path) - 1)] ==
        IF i = 0 THEN Lookup("missed", c, RootDirectory)
        ELSE TryPrefix(tried[i - 1], SubSeq(path, 1, Len(path) - i))
  IN tried[Len(path) - 1]

WalkFrom(lookup, path) ==
  LET from == IF lookup.outcome = "missed"
              THEN Lookup("found", lookup.cache, RootDirectory) ELSE lookup
      known == Len(from.directory.path)
      reached[i \in known .. Len(path)] == IF i = known THEN from ELSE Descend(reached[i - 1], path[i])
  IN reached[Len(path)]

\* FAT32Filesystem::GetDirectory.
GetDirectory(path) ==
  LET cached == FindEntry(cache, path)
      e == Head(cached.cache.list)
  IN IF path = << >> THEN Lookup("found", cache, RootDirectory)
     ELSE IF cached.outcome = "found"
     THEN Lookup("found", cached.cache, Directory(path, e.address, e.cluster))
     ELSE IF cached.outcome = "undefined" THEN Lookup("undefined", cached.cache, RootDirectory)
     ELSE WalkFrom(LongestCachedPrefix(cached.cache, path), path)

\* What the path leads to on the volume.
WalkTree(path) == WalkFrom(Lookup("missed", EmptyCache, RootDirectory), path)

-----------------------------------------------------------------------------
(* Commands.  Each looks its directory up first; it does nothing more when *)
(* that fails.                                                             *)

UseLookup(lookup) ==
  /\ ~halted
  /\ Cardinality(DOMAIN lookup.cache.index) <= MaxIndexed
  /\ halted' = (lookup.outcome = "undefined")

Components == Names \cup {Dot, DotDot}
NamesGiven == IF Careful THEN Names ELSE Components

ChangeDirectory(name) ==
  LET path == Append(current_directory_path, name)
      lookup == GetDirectory(path)
  IN /\ Len(path) <= MaxDepth
     /\ UseLookup(lookup)
     /\ cache' = lookup.cache
     /\ current_directory_path' = IF lookup.outcome = "found" THEN path
                                  ELSE current_directory_path
     /\ UNCHANGED <<volume, allocated>>

\* Changing to another filesystem and back.
ChangeFilesystem ==
  /\ ~halted
  /\ current_directory_path' = << >>
  /\ UNCHANGED <<volume, allocated, cache, halted>>

ListDirectory ==
  LET lookup == GetDirectory(current_directory_path)
  IN /\ UseLookup(lookup)
     /\ cache' = lookup.cache
     /\ UNCHANGED <<volume, allocated, current_directory_path>>

\* FAT32Directory::GetDirectory, by a program that has the current directory.
GetSubdirectory(name) ==
  LET lookup == GetDirectory(current_directory_path)
      path == Append(current_directory_path, name)
      r == FindEntry(lookup.cache, path)
      next == IF lookup.outcome # "found" THEN lookup
              ELSE IF r.outcome = "missed"
              THEN Descend([lookup EXCEPT !.cache = r.cache], name)
              ELSE Lookup(r.outcome, r.cache, RootDirectory)
  IN /\ Len(path) <= MaxDepth
     /\ UseLookup(next)
     /\ cache' = next.cache
     /\ UNCHANGED <<volume, allocated, current_directory_path>>

FreeSlots(cluster) == {cluster} \X {i \in Indices : volume[cluster][i] = NoEntry}

CreateDirectory(name) ==
  LET lookup == GetDirectory(current_directory_path)
      d == lookup.directory.first
  IN /\ UseLookup(lookup)
     /\ cache' = lookup.cache
     /\ UNCHANGED current_directory_path
     /\ IF lookup.outcome = "found" /\ FindDirectoryEntry(d, name) = {} /\ FreeSlots(d) # {}
        THEN \E c \in Clusters \ allocated :
               /\ allocated' = allocated \cup {c}
               /\ volume' = [volume EXCEPT ![c] = EmptyDirectory(c, d),
                                           ![d][First(FreeSlots(d))[2]] = EntryFor(name, c)]
        ELSE UNCHANGED <<volume, allocated>>

HasDirectories(cluster) == \E i \in 2 .. (NamedSlots + 1) : volume[cluster][i] # NoEntry

\* RemoveDirectory marks the entry the object remembers and releases what that leads to.
DeleteDirectory(name) ==
  LET lookup == GetDirectory(Append(current_directory_path, name))
      d == lookup.directory
      removed == EntryAt(d.address)
  IN /\ UseLookup(lookup)
     /\ UNCHANGED current_directory_path
     /\ IF lookup.outcome # "found" THEN cache' = lookup.cache /\ UNCHANGED <<volume, allocated>>
        ELSE /\ Careful => ~HasDirectories(d.first)
             /\ cache' = RemoveEntry(lookup.cache, d.first)
             /\ IF removed = NoEntry THEN UNCHANGED <<volume, allocated>>
                ELSE /\ volume' = [volume EXCEPT ![d.address[1]][d.address[2]] = NoEntry]
                     /\ allocated' = allocated \ {removed.first}

\* Mutant: the cache is not told.
CacheAfterRename(c, cluster) == c

\* What is known of the directory renamed is forgotten, what is known of the
\* directories in it is not.
ForgetRenamed(c, cluster) == RemoveEntry(c, cluster)

RenameDirectory(name, new) ==
  LET lookup == GetDirectory(current_directory_path)
      d == lookup.directory.first
      old == FindDirectoryEntry(d, name)
  IN /\ UseLookup(lookup)
     /\ UNCHANGED <<allocated, current_directory_path>>
     /\ IF \/ lookup.outcome # "found" \/ old = {}
           \/ FindDirectoryEntry(d, new) # {} \/ FreeSlots(d) = {}
        THEN cache' = lookup.cache /\ UNCHANGED volume
        ELSE LET e == EntryAt(First(old))
             IN /\ Careful => ~HasDirectories(e.first)
                /\ volume' = [volume EXCEPT ![d][First(FreeSlots(d))[2]] = EntryFor(new, e.first),
                                            ![d][First(old)[2]] = NoEntry]
                /\ cache' = ForgetRenamed(lookup.cache, e.first)

\* Nothing happens after the kernel has used an entry that is not there: the
\* hardware raises an exception, which the kernel does not return from.
Next ==
  \/ \E name \in Names : CreateDirectory(name) \/ \E new \in Names : RenameDirectory(name, new)
  \/ \E name \in NamesGiven : ChangeDirectory(name) \/ DeleteDirectory(name)
                                \/ GetSubdirectory(name)
  \/ ChangeFilesystem
  \/ ListDirectory

Spec == Init /\ [][Next]_vars

-----------------------------------------------------------------------------
(* Properties.                                                             *)

PathsGiven == UNION {[1 .. n -> NamesGiven] : n \in 1 .. MaxDepth}

\* The list of the cache and its map name the same directories.
CacheIsWhole == ListAndMapAgree(cache)

\* The entry a path leads to on the volume is the one that was cached.
IsTrue(e) ==
  LET walk == WalkTree(e.path)
  IN walk.outcome = "found" /\ walk.directory.first = e.cluster /\ walk.directory.address = e.address

\* What is cached is true: creating, renaming, deleting and reusing directories
\* leaves no entry under a path that now leads elsewhere or nowhere.
CacheIsTrue == ~halted => \A i \in DOMAIN cache.list : IsTrue(cache.list[i])

\* The cache is invisible: a path leads to the directory it would lead to if every
\* name of it were looked up on the volume, and fails where that fails.
LookupsAreTrue ==
  \A path \in PathsGiven :
    LET lookup == GetDirectory(path)
        walk == WalkTree(path)
    IN ~halted /\ lookup.outcome # "undefined" =>
         /\ lookup.outcome = walk.outcome
         /\ lookup.outcome = "found" => lookup.directory = walk.directory

\* A path that was cached once can be looked up again.
LookupsAreDefined == ~halted

=============================================================================
