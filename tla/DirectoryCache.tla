---------------------------- MODULE DirectoryCache ----------------------------
(***************************************************************************)
(* FAT32DirectoryCache over minstd::lru_cache: what is known of directories*)
(* by their first cluster, in a list in the order of their last use and a  *)
(* map from clusters into that list, and an index from the hash of a path  *)
(* to the first cluster.  The list and the map are evicted together; the   *)
(* index is not.  A hash is taken for the path itself: two paths with one  *)
(* hash are as if the second were never cached.                            *)
(*                                                                         *)
(* Every method is a function of the state of the cache, for the lookups   *)
(* that call several of them.                                              *)
(***************************************************************************)
EXTENDS Integers, Sequences, SequencesExt, FiniteSets, FiniteSetsExt, Functions, TLC

CONSTANT MaxCached \* max_cache_size_, 4096 in the code

ASSUME CacheAssumption == MaxCached \in Nat \ {0}

\* A cache: the list, most recently used first, the keys of the map, the index.
EmptyCache == [list |-> << >>, keys |-> {}, index |-> << >>]

CacheEntry(cluster, address, path) == [cluster |-> cluster, address |-> address, path |-> path]

Position(cache, cluster) == CHOOSE i \in DOMAIN cache.list : cache.list[i].cluster = cluster

-----------------------------------------------------------------------------
(* lru_cache.                                                              *)

\* find moves what it finds to the front.
MoveFront(cache, cluster) ==
  LET i == Position(cache, cluster)
  IN [cache EXCEPT !.list = <<cache.list[i]>> \o RemoveAt(cache.list, i)]

\* The key erased from the map is read from the element just removed from the
\* list, whose memory nobody has reused.
EvictLast(cache) ==
  [cache EXCEPT !.list = Front(@), !.keys = @ \ {Last(cache.list).cluster}]

InsureSpaceExists(cache) == IF Len(cache.list) >= MaxCached THEN EvictLast(cache) ELSE cache

LruAdd(cache, entry) ==
  LET room == InsureSpaceExists(cache)
  IN [room EXCEPT !.list = <<entry>> \o @, !.keys = @ \cup {entry.cluster}]

LruRemove(cache, cluster) ==
  [cache EXCEPT !.list = RemoveAt(@, Position(cache, cluster)), !.keys = @ \ {cluster}]

-----------------------------------------------------------------------------
(* FAT32DirectoryCache.                                                    *)

\* Nothing is added under a cluster or a path that is known.  The cluster is
\* looked for first, which makes it the most recently used.
AddEntry(cache, entry) ==
  IF entry.cluster \in cache.keys THEN MoveFront(cache, entry.cluster)
  ELSE IF entry.path \in DOMAIN cache.index THEN cache
  ELSE [LruAdd(cache, entry) EXCEPT !.index = @ @@ (entry.path :> entry.cluster)]

RemoveEntry(cache, cluster) ==
  IF cluster \in cache.keys
  THEN LET path == cache.list[Position(cache, cluster)].path
       IN [LruRemove(cache, cluster) EXCEPT !.index = Restrict(@, DOMAIN @ \ {path})]
  ELSE cache

\* FindEntry and FindFirstClusterIndex of a path.  The index may name a cluster
\* that is no longer cached: the code then uses an entry that is not there, after which
\* nothing is known of the memory.
Outcomes == {"found", "missed", "undefined"}

FindEntry(cache, path) ==
  IF path \notin DOMAIN cache.index THEN [outcome |-> "missed", cache |-> cache]
  ELSE IF cache.index[path] \notin cache.keys THEN [outcome |-> "undefined", cache |-> EmptyCache]
  ELSE LET moved == MoveFront(cache, cache.index[path])
       IN [outcome |-> IF Head(moved.list).path = path THEN "found" ELSE "missed", cache |-> moved]

-----------------------------------------------------------------------------

\* The map names what the list holds, once each, and no more than there is room for.
ListAndMapAgree(cache) ==
  /\ cache.keys = {cache.list[i].cluster : i \in DOMAIN cache.list}
  /\ Cardinality(cache.keys) = Len(cache.list)
  /\ Len(cache.list) <= MaxCached

=============================================================================
