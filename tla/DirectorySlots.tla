---------------------------- MODULE DirectorySlots ----------------------------
(***************************************************************************)
(* The slots of one FAT32 directory: its clusters, in the order of their   *)
(* chain, read as one sequence of 32-byte slots.  An entry whose name is   *)
(* not of the form 8.3 is preceded by slots that hold the fragments of its *)
(* long name, the last fragment first; FAT32DirectoryCluster finds room    *)
(* for them, writes them, lists them and removes them, one device write    *)
(* per cluster, and the power may go between two writes.                   *)
(*                                                                         *)
(* Names are compared ignoring case, so that a name here stands for all    *)
(* its spellings; two names share no fragment.  All entries are files: the *)
(* table of clusters and what the entries lead to is in FAT32Volume.       *)
(***************************************************************************)
EXTENDS Integers, Sequences, SequencesExt, FiniteSetsExt

CONSTANTS
  Names,           \* the names a program uses
  LfnSlots,        \* how many slots the long name takes, 0 if it is of the form 8.3
  BasisName,       \* the short name made from it: <<basis, numeric tail>>, tail 0 for none
  NoName,
  SlotsPerCluster,
  MaxClusters,     \* the room on the device for this directory
  MayRename,       \* TRUE: the program renames
  MaxPowerLosses   \* bound

ASSUME SlotsAssumption ==
  /\ NoName \notin Names
  /\ LfnSlots \in [Names -> Nat]
  /\ \A n \in Names : BasisName[n][2] \in Nat
  /\ SlotsPerCluster \in Nat \ {0, 1}
  /\ MaxClusters \in Nat \ {0}
  /\ MaxPowerLosses \in Nat

VARIABLES
  slots,       \* the slots of the directory on the device
  pc,          \* "idle", or the loop that is at work: "writing", "removing"
  op,          \* the arguments and local variables of the call
  power_losses

vars == <<slots, pc, op, power_losses>>

\* A slot.  The name in an entry is the one it was created with: the device
\* holds its short name alone.
Slot(kind, name, sequence_number, short) ==
  [kind |-> kind, name |-> name, sequence_number |-> sequence_number, short |-> short]

NoShortName == <<NoName, 0>>
UnusedAndEnd == Slot("end", NoName, 0, NoShortName)
Unused == Slot("unused", NoName, 0, NoShortName)
ClusterEntry(name, short) == Slot("entry", name, 0, short)
LFNEntry(name, sequence_number) == Slot("lfn", name, sequence_number, NoShortName)

EmptyCluster == [i \in 1 .. SlotsPerCluster |-> UnusedAndEnd]

\* at: the slot the loop is at; todo: the slots still to be written;
\* fits: there is a slot after the last of them; old: the entry that a rename
\* removes; first_cluster_known: RemoveEntry knows where the directory begins.
NoOperation == [at |-> 0, todo |-> << >>, fits |-> FALSE, old |-> 0, first_cluster_known |-> FALSE]

Init ==
  /\ slots = EmptyCluster
  /\ pc = "idle"
  /\ op = NoOperation
  /\ power_losses = 0

-----------------------------------------------------------------------------
(* Places.                                                                 *)

ClusterOf(i) == (i - 1) \div SlotsPerCluster
FirstSlot(i) == ClusterOf(i) * SlotsPerCluster + 1
LastSlot(i) == (ClusterOf(i) + 1) * SlotsPerCluster

IsLFN(i) == slots[i].kind = "lfn"

\* The fragment written first, which carries the highest number.
IsFirstLFNEntry(i) == IsLFN(i) /\ slots[i].sequence_number = LfnSlots[slots[i].name]

-----------------------------------------------------------------------------
(* Listing.  The iterator stops at the first slot marked as the end, skips *)
(* what is unused, and takes all fragments right before an entry for its   *)
(* name, without regard to their numbers or checksums.                     *)

Visible == {i \in DOMAIN slots : slots[i].kind = "entry" /\ \A j \in 1 .. i : slots[j].kind # "end"}

Fragments(i) == {j \in 1 .. (i - 1) : \A k \in j .. (i - 1) : IsLFN(k)}

\* The entry is listed under this name.
IsListedAs(i, n) ==
  IF LfnSlots[n] = 0
  THEN Fragments(i) = {} /\ slots[i].short = BasisName[n]
  ELSE /\ Fragments(i) = (i - LfnSlots[n]) .. (i - 1)
       /\ \A k \in 1 .. LfnSlots[n] : slots[i - k] = LFNEntry(n, k)

FindDirectoryEntry(n) == {i \in Visible : IsListedAs(i, n)}

-----------------------------------------------------------------------------
(* Room.  A scan counts free slots that follow each other.  At the end of  *)
(* the directory a cluster is added and the scan begins again, with the    *)
(* count and the start of the run it had at the end.                       *)

\* Mutant: the fragments of names count as free.
FreeKindsAndFragments == {"unused", "end", "lfn"}

FreeKinds == {"unused", "end"}

\* The last slots of runs of the length required, `carried' of which come from the
\* scan before.
RunEnds(s, carried, required) ==
  {i \in DOMAIN s :
     \/ i >= required /\ \A j \in (i - required + 1) .. i : s[j].kind \in FreeKinds
     \/ i + carried >= required /\ \A j \in 1 .. i : s[j].kind \in FreeKinds}

StartOfRun(s, carried, start, required) ==
  LET i == Min(RunEnds(s, carried, required))
  IN IF i < required \/ (carried > 0 /\ \A j \in 1 .. i : s[j].kind \in FreeKinds)
     THEN start ELSE i - required + 1

\* The length of the run at the end of a scan.
RunAtEnd(s) == Cardinality({i \in DOMAIN s : \A j \in i .. Len(s) : s[j].kind \in FreeKinds})

AddNewCluster(s) == s \o EmptyCluster
CanAdd(s) == Len(s) < MaxClusters * SlotsPerCluster

NotFound(s) == [slots |-> s, start |-> 0]

\* The directory after the search and the start of the block, 0 if there is none.
FindEmptyBlockOfEntries(required) ==
  LET found(s, carried, start) == [slots |-> s, start |-> StartOfRun(s, carried, start, required)]
      one == AddNewCluster(slots)
      two == AddNewCluster(one)
      carried1 == RunAtEnd(slots)
      carried2 == IF carried1 = Len(slots) THEN carried1 + Len(one) ELSE RunAtEnd(one)
      start1 == Len(slots) - carried1 + 1
      start2 == IF carried1 = Len(slots) THEN start1 ELSE Len(one) - carried2 + 1
  IN IF RunEnds(slots, 0, required) # {} THEN found(slots, 0, 0)
     ELSE IF ~CanAdd(slots) THEN NotFound(slots)
     ELSE IF RunEnds(one, carried1, required) # {} THEN found(one, carried1, start1)
     ELSE IF ~CanAdd(one) THEN NotFound(one)
     ELSE IF RunEnds(two, carried2, required) # {} THEN found(two, carried2, start2)
     ELSE NotFound(IF CanAdd(two) THEN AddNewCluster(two) ELSE two)

-----------------------------------------------------------------------------
(* Short names.                                                            *)

IsDerivativeOfBasisFilename(short, basis) ==
  short[1] = basis[1] /\ (short[2] = 0) = (basis[2] = 0)

\* Mutant: the entry itself is asked for, not the ones derived from its basis.
FirstTail(basis) == basis[2]

\* The smallest numeric tail no listed entry of this basis has.
UnusedTail(basis) ==
  LET used == {slots[i].short[2] : i \in {j \in Visible :
                   IsDerivativeOfBasisFilename(slots[j].short, basis)}}
  IN Min((1 .. (Cardinality(used) + 1)) \ used)

ShortNameFor(n) == IF LfnSlots[n] = 0 THEN BasisName[n]
                   ELSE <<BasisName[n][1], UnusedTail(BasisName[n])>>

CreateLFNSequenceForFilename(n) == [k \in 1 .. LfnSlots[n] |-> LFNEntry(n, LfnSlots[n] + 1 - k)]

-----------------------------------------------------------------------------
(* Creating an entry.                                                      *)

\* The loop over the slots to write begins at the block found.  The slot after
\* the entry becomes the end of the directory if one of those overwritten was.
WriteLFNSequenceAndClusterEntry(n, old) ==
  LET block == FindEmptyBlockOfEntries(LfnSlots[n] + 2)
      written == CreateLFNSequenceForFilename(n) \o <<ClusterEntry(n, ShortNameFor(n))>>
      over == {i \in DOMAIN block.slots : i \in block.start .. (block.start + LfnSlots[n])}
      is_end == \E i \in over : block.slots[i].kind = "end"
  IN /\ slots' = block.slots
     /\ IF block.start = 0 THEN UNCHANGED <<pc, op>>
        ELSE /\ pc' = "writing"
             /\ op' = [at |-> block.start,
                       todo |-> IF is_end THEN Append(written, UnusedAndEnd) ELSE written,
                       fits |-> block.start + LfnSlots[n] < Len(block.slots),
                       old |-> old, first_cluster_known |-> TRUE]

CreateEntry(n) ==
  /\ pc = "idle"
  /\ FindDirectoryEntry(n) = {}
  /\ WriteLFNSequenceAndClusterEntry(n, 0)
  /\ UNCHANGED power_losses

RenameEntry(n, new) ==
  /\ MayRename
  /\ pc = "idle"
  /\ FindDirectoryEntry(n) # {} /\ FindDirectoryEntry(new) = {}
  /\ WriteLFNSequenceAndClusterEntry(new, Min(FindDirectoryEntry(n)))
  /\ UNCHANGED power_losses

BeginRemoval(i, known) ==
  pc' = "removing" /\ op' = [NoOperation EXCEPT !.at = i, !.old = i, !.first_cluster_known = known]

Return == pc' = "idle" /\ op' = NoOperation

HasSlot(next) == next <= Len(slots)

\* One device write: the slots that fall into the cluster the loop is at.
WriteCluster ==
  /\ pc = "writing"
  /\ LET room == LastSlot(op.at) - op.at + 1
         n == Min({room, Len(op.todo)})
     IN /\ slots' = [i \in DOMAIN slots |-> IF i \in op.at .. (op.at + n - 1)
                                            THEN op.todo[i - op.at + 1] ELSE slots[i]]
        /\ \/ /\ n < Len(op.todo) /\ HasSlot(op.at + n)
              /\ op' = [op EXCEPT !.at = @ + n, !.todo = SubSeq(@, n + 1, Len(@))]
              /\ UNCHANGED pc
           \/ /\ n < Len(op.todo) /\ ~HasSlot(op.at + n) \* no next cluster
              /\ Return
           \/ /\ n = Len(op.todo)
              /\ IF op.old # 0 /\ op.fits THEN BeginRemoval(op.old, TRUE) ELSE Return
  /\ UNCHANGED power_losses

-----------------------------------------------------------------------------
(* Removing an entry.                                                      *)

\* DeleteFile looks at the directory from cluster 0.
DeleteFile(n) ==
  /\ pc = "idle"
  /\ FindDirectoryEntry(n) # {}
  /\ BeginRemoval(Min(FindDirectoryEntry(n)), FALSE)
  /\ UNCHANGED <<slots, power_losses>>

\* Mutant: the walk removes the nearest fragment only.
NearestFragment(i, here) == {j \in {i - 1} : j >= FirstSlot(here) /\ IsLFN(j)}

\* The fragments before slot i, in the cluster of slot `here', back to the first
\* fragment of a name.
FragmentsBefore(i, here) ==
  {j \in FirstSlot(here) .. (i - 1) : /\ \A k \in j .. (i - 1) : IsLFN(k)
                                     /\ \A k \in (j + 1) .. (i - 1) : ~IsFirstLFNEntry(k)}

\* Mutant: the slots removed are marked as the end of the directory.
MarkAsEnd(removed) == [i \in DOMAIN slots |-> IF i \in removed THEN UnusedAndEnd ELSE slots[i]]

MarkUnused(removed) == [i \in DOMAIN slots |-> IF i \in removed THEN Unused ELSE slots[i]]

\* One cluster of the walk back from the entry, and the write that ends it.
\* When the walk reaches slot 0 of the cluster it needs the cluster before,
\* which is looked for from the first cluster, and goes on from its end.
RemoveEntry ==
  /\ pc = "removing"
  /\ LET here == IF op.at = op.old THEN op.at ELSE op.at - 1
         removed == ({op.at} \cap {op.old}) \cup FragmentsBefore(op.at, here)
         start == FirstSlot(here)
         still_deleting == start \in removed /\ ~IsFirstLFNEntry(start)
     IN /\ slots' = MarkUnused(removed)
        /\ IF still_deleting /\ op.first_cluster_known /\ start > 1
           THEN op' = [op EXCEPT !.at = start, !.old = 0] /\ UNCHANGED pc
           ELSE Return
  /\ UNCHANGED power_losses

-----------------------------------------------------------------------------

PowerLoss ==
  /\ pc # "idle"
  /\ power_losses < MaxPowerLosses
  /\ power_losses' = power_losses + 1
  /\ Return
  /\ UNCHANGED slots

Next ==
  \/ \E n \in Names : CreateEntry(n) \/ DeleteFile(n)
  \/ \E n, new \in Names : RenameEntry(n, new)
  \/ WriteCluster
  \/ RemoveEntry
  \/ PowerLoss

Spec == Init /\ [][Next]_vars

-----------------------------------------------------------------------------
(* Properties.                                                             *)

\* Nothing in use lies beyond the slot where listing stops: an entry created
\* can be found, at any point of any operation and after any power loss.
NothingAfterEnd ==
  \A i, j \in DOMAIN slots : i < j /\ slots[i].kind = "end" => slots[j].kind \in FreeKinds

\* The slots of the long name an entry was created with.
OwnFragments(i) == (i - LfnSlots[slots[i].name]) .. (i - 1)

\* In use by an entry, or by the operation in progress, which is about to write the
\* slots after it or to remove it.
Owned(j) ==
  \/ \E i \in Visible : j \in OwnFragments(i)
  \/ pc # "idle" /\ j < op.at /\ \A k \in j .. (op.at - 1) : IsLFN(k)

\* Fragments that belong to no entry, left by a removal or by a power loss,
\* always fill a cluster up to its end: they give a wrong name to no entry but
\* the first one of the next cluster.
OrphansEndACluster ==
  \A j \in DOMAIN slots : IsLFN(j) /\ ~Owned(j) =>
    \A k \in j .. LastSlot(j) : IsLFN(k) /\ ~Owned(k)

\* An entry is listed under the name it was created with, whatever other entries
\* come and go.  It is not so: fragments that a removal leaves behind become part of the name
\* of the entry after them.
NamesAreOwn == \A i \in Visible : IsListedAs(i, slots[i].name)

\* No two entries are listed under one name.  It is not so: an entry with the fragments of
\* another before it is not found under its name, which can be created once more.
NamesUnique == \A n \in Names : Cardinality(FindDirectoryEntry(n)) <= 1

\* The short name made for a long one is the short name of no other entry.
ShortNamesUnique ==
  \A i, j \in Visible : slots[i].short = slots[j].short /\ LfnSlots[slots[i].name] > 0 => i = j

\* The block found lies in the directory: the name, the entry and the slot after it
\* never run past its last cluster.  It is not so: the count of free slots goes on from the
\* end of the directory to its start.
BlockIsInDirectory == pc = "writing" => op.fits /\ op.at + Len(op.todo) - 1 <= Len(slots)

\* A step changes or removes no entry but the one that the operation in progress
\* removes, and none of the fragments of its name.
OthersUntouched ==
  [][\A i \in Visible : IsListedAs(i, slots[i].name) /\ i # op.old =>
       \A j \in Fragments(i) \cup {i} : slots'[j] = slots[j]]_vars

=============================================================================
