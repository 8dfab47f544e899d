------------------------------- MODULE LRUCache -------------------------------
(***************************************************************************)
(* minstd::lru_cache: the entries in a list, the most recently used first, *)
(* and a map from their keys to iterators into it.  An iterator is the     *)
(* node it points to, whatever becomes of that.                            *)
(***************************************************************************)
EXTENDS LinkedList

CONSTANTS
  EntryKeys, EntryValues,
  MaxEntries  \* max_cache_size_

ASSUME LRUAssumption == EntryKeys \subseteq Nat \ {NoNode} /\ MaxEntries \in Nat \ {0}

VARIABLES
  cache_entries,   \* the list of keys
  entry_values,    \* what the node of each key holds
  cache_entry_map  \* from keys to nodes

lruVars == <<cache_entries, entry_values, cache_entry_map>>

LRUInit ==
  /\ cache_entries = EmptyList
  /\ entry_values = << >>
  /\ cache_entry_map = << >>

Erased(f, key) == Restrict(f, DOMAIN f \ {key})

\* Mutant: the entry added last makes room.
InsureSpaceInFront ==
  IF cache_entries.size >= MaxEntries
  THEN [list |-> PopFront(cache_entries), map |-> Erased(cache_entry_map, cache_entries.front)]
  ELSE [list |-> cache_entries, map |-> cache_entry_map]

\* insure_space_exists: the list and the map.  The key by which the map is erased is read
\* from the node that was just freed.  It is still there: freeing a block changes its
\* header only, a cluster number has nothing to destroy, and nothing is allocated between.
InsureSpaceExists ==
  IF cache_entries.size >= MaxEntries
  THEN [list |-> PopBack(cache_entries), map |-> Erased(cache_entry_map, cache_entries.back)]
  ELSE [list |-> cache_entries, map |-> cache_entry_map]

\* add.
LRUAdd(key, value) ==
  LET room == InsureSpaceExists
  IN /\ key \notin DOMAIN cache_entry_map
     /\ cache_entries' = PushFront(room.list, key)
     /\ cache_entry_map' = Extended(room.map, key, cache_entries'.front)
     /\ entry_values' = Extended(Restrict(entry_values, DOMAIN room.map), key, value)

\* find of a key that is there; its iterator is replaced.
LRUFind(key) ==
  /\ key \in DOMAIN cache_entry_map
  /\ cache_entries' = ListMoveFront(cache_entries, cache_entry_map[key])
  /\ cache_entry_map' = Extended(Erased(cache_entry_map, key), key, cache_entries'.front)
  /\ UNCHANGED entry_values

LRURemove(key) ==
  /\ key \in DOMAIN cache_entry_map
  /\ cache_entries' = EraseNode(cache_entries, cache_entry_map[key])
  /\ cache_entry_map' = Erased(cache_entry_map, key)
  /\ entry_values' = Erased(entry_values, key)

LRUClear ==
  /\ cache_entries' = EmptyList
  /\ cache_entry_map' = << >>
  /\ entry_values' = << >>

LRUNext ==
  \/ \E key \in EntryKeys :
       \/ \E value \in EntryValues : LRUAdd(key, value)
       \/ LRUFind(key)
       \/ LRURemove(key)
  \/ LRUClear

LRUSpec == LRUInit /\ [][LRUNext]_lruVars

-----------------------------------------------------------------------------
(* Properties.                                                             *)

Entries ==
  LET keys == Forward(cache_entries) IN [i \in DOMAIN keys |-> <<keys[i], entry_values[keys[i]]>>]

\* The cache is the entries used last, in the order of their use, as far as there is
\* room: through the list and its map, it does what RecentlyUsed says.
RU == INSTANCE RecentlyUsed WITH recent <- Entries
ImplementsRecentlyUsed == RU!Spec

=============================================================================
