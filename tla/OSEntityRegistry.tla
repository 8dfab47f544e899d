--------------------------- MODULE OSEntityRegistry ---------------------------
(***************************************************************************)
(* The registry of devices, filesystems and user interfaces: a map from    *)
(* their ids, a tree that FindEntitiesByType iterates over, and two that   *)
(* lead from the hashes of their names and aliases to their ids.           *)
(*                                                                         *)
(* An entity is called by its id, a random UUID, so that entities may come *)
(* and go in any order.  A hash is the name; two names with one hash are   *)
(* two entities with one name.                                             *)
(***************************************************************************)
EXTENDS AVLTree, SequencesExt, FiniteSetsExt

CONSTANTS
  Entities,   \* ids
  NameHash,   \* their names
  AliasHash,  \* their aliases
  EntityType  \* their types

ASSUME EntitiesAssumption == Entities \subseteq Nat \ {Null}

VARIABLES
  entity_by_id,            \* the tree of ids
  entity_id_by_name_hash,  \* a set of <<hash, id>>
  entity_id_by_alias_hash,
  registered,              \* history: the entities added and not removed
  branched                 \* history: whether one with two branches was removed from the tree

registryVars ==
  <<entity_by_id, entity_id_by_name_hash, entity_id_by_alias_hash, registered, branched>>

RegistryInit ==
  /\ entity_by_id = EmptyTree
  /\ entity_id_by_name_hash = {} /\ entity_id_by_alias_hash = {}
  /\ registered = {} /\ branched = FALSE

\* The ids found under a hash.
Lookup(index, hash) == {entry[2] : entry \in {e \in index : e[1] = hash}}

DoesEntityExist(id) == Find(entity_by_id, id) # Null

\* A map keeps what it has under a key.
InsertHash(index, hash, id) == IF Lookup(index, hash) = {} THEN index \cup {<<hash, id>>} ELSE index

\* GetEntityByNameHash and GetEntityByAliasHash: the entity found, if any.
GetEntityByHash(index, hash) == {id \in Lookup(index, hash) : DoesEntityExist(id)}

\* Mutant: the alias may be in use.
MayAddById(id) == ~DoesEntityExist(id) /\ Lookup(entity_id_by_name_hash, NameHash[id]) = {}

MayAdd(id) ==
  /\ ~DoesEntityExist(id)
  /\ Lookup(entity_id_by_name_hash, NameHash[id]) = {}
  /\ Lookup(entity_id_by_alias_hash, AliasHash[id]) = {}

AddEntity(id) ==
  /\ MayAdd(id)
  /\ entity_by_id' = Insert(entity_by_id, id)
  /\ entity_id_by_name_hash' = InsertHash(entity_id_by_name_hash, NameHash[id], id)
  /\ entity_id_by_alias_hash' = InsertHash(entity_id_by_alias_hash, AliasHash[id], id)
  /\ registered' = registered \cup {id}
  /\ UNCHANGED branched

\* By the hashes of the entity, whoever is found there.  The two maps of hashes are sets:
\* that erasing from a map through an iterator also moves the iterator on is left out.
RemoveEntityById(id) ==
  /\ DoesEntityExist(id)
  /\ entity_id_by_alias_hash' = {e \in entity_id_by_alias_hash : e[1] # AliasHash[id]}
  /\ entity_id_by_name_hash' = {e \in entity_id_by_name_hash : e[1] # NameHash[id]}
  /\ entity_by_id' = Erase(entity_by_id, id)
  /\ registered' = registered \ {id}
  /\ branched' = (branched \/ HasTwoBranches(entity_by_id, id))

RegistryNext == \E id \in Entities : AddEntity(id) \/ RemoveEntityById(id)

RegistrySpec == RegistryInit /\ [][RegistryNext]_registryVars

-----------------------------------------------------------------------------
(* Properties.                                                             *)

FindEntitiesByType(type) == SelectSeq(Visit(entity_by_id, "right"), LAMBDA id : EntityType[id] = type)

\* The tree of ids holds what has been added and not removed, in order, in whatever
\* sequence that was done; it stays as shallow as a tree of its kind must be, and knows
\* its depths.
MapIsAVLTree == IsSearchTree(entity_by_id, registered) /\ IsBalanced(entity_by_id)

\* A name or an alias leads to the registered entity that has it, and to none if none has:
\* the three maps agree, whatever conflicts were refused and entities removed.
IndexesAgree ==
  \A id \in Entities :
    /\ GetEntityByHash(entity_id_by_name_hash, NameHash[id]) =
         {r \in registered : NameHash[r] = NameHash[id]}
    /\ GetEntityByHash(entity_id_by_alias_hash, AliasHash[id]) =
         {r \in registered : AliasHash[r] = AliasHash[id]}

VisitsAll(side) ==
  Visit(entity_by_id, side) =
    SelectSeq(IF side = "right" THEN [i \in 1 .. Max(Entities) |-> i]
              ELSE [i \in 1 .. Max(Entities) |-> Max(Entities) + 1 - i], LAMBDA id : id \in registered)

\* As long as no entity with two branches in the tree was removed, an iteration over the
\* registry, in either direction, comes to each entity once and in order.
IterationVisitsAll == ~branched => VisitsAll("left") /\ VisitsAll("right")

\* FindEntitiesByType returns each entity of the type once.
FindsEachOnce ==
  \A type \in {EntityType[id] : id \in Entities} :
    FindEntitiesByType(type) = SetToSortSeq({id \in registered : EntityType[id] = type}, <)

=============================================================================
