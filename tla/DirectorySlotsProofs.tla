------------------------- MODULE DirectorySlotsProofs -------------------------
(***************************************************************************)
(* Theorems about DirectorySlots: wherever a name has to begin and however *)
(* many clusters it crosses, wherever the power goes, listing stops at no  *)
(* slot before one in use, and no entry but the one meant is touched;      *)
(* fragments left over fill the rest of their cluster; and the short names *)
(* made for long ones differ from all others.                              *)
(***************************************************************************)
EXTENDS DirectorySlots, DataLemmas

Kinds == {"end", "unused", "lfn", "entry"}

ShortNames == {NoShortName} \cup {BasisName[n] : n \in Names}
              \cup {<<BasisName[n][1], tail>> : n \in Names, tail \in Nat}

SlotValues == [kind : Kinds, name : Names \cup {NoName}, sequence_number : Nat, short : ShortNames]

\* Directories, as sequences of slots: listing stops before no slot in use.
IsDirectory(s) == s \in Seq(SlotValues)
EndIsEnd(s) == \A i, j \in DOMAIN s : i < j /\ s[i].kind = "end" => s[j].kind \in FreeKinds

FreeFrom(s, start) == \A k \in DOMAIN s : start <= k => s[k].kind \in FreeKinds
NoEndBefore(s, start) == \A k \in DOMAIN s : k < start => s[k].kind # "end"

\* Slots to be written from start on, as far as the directory reaches.
IsBlock(s, start, required) ==
  /\ start \in 1 .. Len(s)
  /\ \A k \in DOMAIN s : start <= k /\ k < start + required => s[k].kind \in FreeKinds
  /\ NoEndBefore(s, start)

-----------------------------------------------------------------------------
(* The constants, and slots.                                               *)

(* The slots the code writes are slots.                                    *)
LEMMA SlotFacts ==
  /\ UnusedAndEnd \in SlotValues /\ Unused \in SlotValues
  /\ UnusedAndEnd.kind = "end" /\ Unused.kind = "unused"
  /\ \A n \in Names : \A k \in Nat : LFNEntry(n, k) \in SlotValues /\ LFNEntry(n, k).kind = "lfn"
  /\ \A n \in Names : \A short \in ShortNames :
       ClusterEntry(n, short) \in SlotValues /\ ClusterEntry(n, short).kind = "entry"
BY DEF SlotValues, Kinds, ShortNames, UnusedAndEnd, Unused, LFNEntry, ClusterEntry, Slot

(* A directory with a cluster more.                                        *)
LEMMA ClusterAdded ==
  ASSUME NEW s, IsDirectory(s), EndIsEnd(s)
  PROVE  /\ IsDirectory(AddNewCluster(s)) /\ EndIsEnd(AddNewCluster(s))
         /\ Len(AddNewCluster(s)) = Len(s) + SlotsPerCluster
         /\ \A i \in DOMAIN s : i \in DOMAIN AddNewCluster(s) /\ AddNewCluster(s)[i] = s[i]
         /\ \A i \in DOMAIN AddNewCluster(s) : i \notin DOMAIN s => AddNewCluster(s)[i] = UnusedAndEnd
<1> DEFINE t == AddNewCluster(s)
<1>1. SlotsPerCluster \in Nat /\ SlotsPerCluster > 1
  BY SlotsAssumption
<1>2. EmptyCluster \in Seq(SlotValues) /\ Len(EmptyCluster) = SlotsPerCluster
      /\ \A i \in 1 .. SlotsPerCluster : EmptyCluster[i] = UnusedAndEnd
  BY <1>1, SlotFacts DEF EmptyCluster
<1>3. s \in Seq(SlotValues) /\ Len(s) \in Nat /\ DOMAIN s = 1 .. Len(s)
  BY DEF IsDirectory
<1>4. /\ t \in Seq(SlotValues) /\ Len(t) = Len(s) + SlotsPerCluster
      /\ \A j \in 1 .. (Len(s) + SlotsPerCluster) :
           t[j] = IF j <= Len(s) THEN s[j] ELSE EmptyCluster[j - Len(s)]
  BY <1>2, <1>3, Joined DEF AddNewCluster
<1> HIDE DEF t
<1>5. DOMAIN t = 1 .. (Len(s) + SlotsPerCluster)
  BY <1>4
<1>6. \A i \in DOMAIN s : i \in DOMAIN t /\ t[i] = s[i]
  BY <1>1, <1>3, <1>4, <1>5
<1>7. ASSUME NEW i \in DOMAIN t, i \notin DOMAIN s PROVE t[i] = UnusedAndEnd
  <2>1. i - Len(s) \in 1 .. SlotsPerCluster /\ ~(i <= Len(s)) /\ i \in 1 .. (Len(s) + SlotsPerCluster)
    BY <1>3, <1>5, <1>7, <1>1
  <2> QED
    BY <1>2, <1>4, <2>1
<1>8. EndIsEnd(t)
  <2> SUFFICES ASSUME NEW i \in DOMAIN t, NEW j \in DOMAIN t, i < j, t[i].kind = "end"
               PROVE  t[j].kind \in FreeKinds
    BY DEF EndIsEnd
  <2>1. CASE j \notin DOMAIN s
    BY <1>7, <2>1, SlotFacts DEF FreeKinds
  <2>2. CASE j \in DOMAIN s
    <3>1. i \in DOMAIN s
      BY <1>3, <1>5, <2>2
    <3> QED
      BY <1>6, <2>2, <3>1 DEF EndIsEnd
  <2> QED
    BY <2>1, <2>2
<1> QED
  BY <1>4, <1>6, <1>7, <1>8 DEF IsDirectory, t

-----------------------------------------------------------------------------
(* The search for room.                                                    *)

(* The free slots at the end of a directory: the run they form begins right*)
(* after a slot in use, and at the end of the directory or before it.      *)
LEMMA RunAtEndFacts ==
  ASSUME NEW s, IsDirectory(s), EndIsEnd(s)
  PROVE  /\ RunAtEnd(s) \in 0 .. Len(s)
         /\ FreeFrom(s, Len(s) - RunAtEnd(s) + 1) /\ NoEndBefore(s, Len(s) - RunAtEnd(s) + 1)
<1> DEFINE Free == {i \in DOMAIN s : \A j \in i .. Len(s) : s[j].kind \in FreeKinds}
           Starts == Free \cup {Len(s) + 1}
<1>1. Len(s) \in Nat /\ DOMAIN s = 1 .. Len(s)
  BY DEF IsDirectory
<1>2. PICK m \in Starts : \A i \in Starts : m <= i
  <2>1. Starts \in SUBSET Nat /\ Starts # {}
    BY <1>1
  <2> HIDE DEF Starts
  <2> QED
    BY <2>1, LeastNumber
<1>3. m \in 1 .. (Len(s) + 1) /\ m \in Nat
  BY <1>1, <1>2
<1>4. Free = m .. Len(s)
  <2>1. ASSUME NEW i \in Free PROVE i \in m .. Len(s)
    BY <1>1, <1>2, <2>1
  <2>2. ASSUME NEW i \in m .. Len(s) PROVE i \in Free
    <3>1. m \in Free
      BY <1>1, <1>2, <1>3, <2>2
    <3> QED
      BY <1>1, <1>3, <2>2, <3>1
  <2> QED
    BY <2>1, <2>2
<1>5. RunAtEnd(s) = Len(s) - m + 1
  <2>1. Cardinality(m .. Len(s)) = Len(s) - m + 1
    <3>1. m \in Int /\ Len(s) \in Int
      BY <1>1, <1>3
    <3>2. Cardinality(m .. Len(s)) = IF m > Len(s) THEN 0 ELSE Len(s) - m + 1
      BY <3>1, FS_Interval
    <3>3. m > Len(s) => Len(s) - m + 1 = 0
      BY <1>1, <1>3
    <3> QED
      BY <3>2, <3>3
  <2>2. RunAtEnd(s) = Cardinality(Free)
    BY DEF RunAtEnd
  <2> HIDE DEF Free
  <2> QED
    BY <1>4, <2>1, <2>2
<1>6. FreeFrom(s, m)
  BY <1>1, <1>3, <1>4 DEF FreeFrom
<1>7. ASSUME NEW k \in DOMAIN s, k < m, s[k].kind = "end" PROVE FALSE
  <2>1. \A j \in k .. Len(s) : s[j].kind \in FreeKinds
    BY <1>1, <1>7 DEF EndIsEnd, FreeKinds
  <2>2. k \in Free
    BY <2>1
  <2> QED
    BY <1>1, <1>3, <1>4, <1>7, <2>2
<1>8. Len(s) - RunAtEnd(s) + 1 = m /\ RunAtEnd(s) \in 0 .. Len(s)
  BY <1>1, <1>3, <1>5
<1> QED
  BY <1>6, <1>7, <1>8 DEF NoEndBefore

(* What a scan carries to the next one: a run that begins at start and goes*)
(* on to the end, with nothing marked as the end before it.                *)
Carries(s, carried, start) ==
  carried = 0 \/ (start \in 1 .. Len(s) /\ FreeFrom(s, start) /\ NoEndBefore(s, start))

(* The block that a scan finds can be written, as far as the directory     *)
(* reaches: the first run that is long enough holds the end, or comes      *)
(* before it.                                                              *)
LEMMA RunFound ==
  ASSUME NEW s, IsDirectory(s), EndIsEnd(s), NEW carried \in Nat, NEW start, NEW required \in Nat \ {0},
         Carries(s, carried, start), RunEnds(s, carried, required) # {}
  PROVE  IsBlock(s, StartOfRun(s, carried, start, required), required)
<1> DEFINE i == Min(RunEnds(s, carried, required))
           Wrapped == i < required \/ (carried > 0 /\ \A j \in 1 .. i : s[j].kind \in FreeKinds)
<1>1. Len(s) \in Nat /\ DOMAIN s = 1 .. Len(s) /\ required \in Nat /\ required > 0
  BY DEF IsDirectory
<1>2. i \in RunEnds(s, carried, required) /\ \A k \in RunEnds(s, carried, required) : i <= k
  <2>1. RunEnds(s, carried, required) \in SUBSET Nat
    BY <1>1 DEF RunEnds
  <2> QED
    BY <2>1, LeastNumber
<1>3. /\ i \in 1 .. Len(s)
      /\ \/ i >= required /\ \A j \in (i - required + 1) .. i : s[j].kind \in FreeKinds
         \/ i + carried >= required /\ \A j \in 1 .. i : s[j].kind \in FreeKinds
  BY <1>1, <1>2 DEF RunEnds
<1>4. StartOfRun(s, carried, start, required) = IF Wrapped THEN start ELSE i - required + 1
  BY DEF StartOfRun
<1>5. CASE Wrapped
  <2>1. carried # 0
    <3> HIDE DEF i
    <3> QED
      BY <1>1, <1>3, <1>5
  <2>2. start \in 1 .. Len(s) /\ FreeFrom(s, start) /\ NoEndBefore(s, start)
    BY <2>1 DEF Carries
  <2> QED
    BY <1>4, <1>5, <2>2 DEF IsBlock, FreeFrom
<1>6. CASE ~Wrapped
  <2> HIDE DEF i
  <2>1. i >= required /\ \A j \in (i - required + 1) .. i : s[j].kind \in FreeKinds
    BY <1>1, <1>3, <1>6
  <2>2. i - required + 1 \in 1 .. Len(s)
    BY <1>1, <1>3, <2>1
  <2>3. ASSUME NEW k \in DOMAIN s, k < i - required + 1, s[k].kind = "end" PROVE FALSE
    <3>1. \A j \in k .. Len(s) : s[j].kind \in FreeKinds
      BY <1>1, <2>3 DEF EndIsEnd, FreeKinds
    <3>2. i - 1 \in DOMAIN s /\ i - 1 >= required
      BY <1>1, <1>3, <2>3
    <3>3. \A j \in ((i - 1) - required + 1) .. (i - 1) : s[j].kind \in FreeKinds
      BY <1>1, <1>3, <2>3, <3>1
    <3>4. i - 1 \in RunEnds(s, carried, required)
      BY <3>2, <3>3 DEF RunEnds
    <3> QED
      BY <1>2, <1>3, <3>4
  <2>4. \A k \in DOMAIN s : i - required + 1 <= k /\ k < i - required + 1 + required
          => s[k].kind \in FreeKinds
    BY <1>1, <1>3, <2>1
  <2> QED
    BY <1>4, <1>6, <2>2, <2>3, <2>4 DEF IsBlock, NoEndBefore
<1> QED
  BY <1>5, <1>6

(* The run at the end of a directory goes on in the cluster added.         *)
LEMMA RunGoesOn ==
  ASSUME NEW s, IsDirectory(s), EndIsEnd(s)
  PROVE  Carries(AddNewCluster(s), RunAtEnd(s), Len(s) - RunAtEnd(s) + 1)
<1> DEFINE t == AddNewCluster(s)
           start == Len(s) - RunAtEnd(s) + 1
<1>1. Len(s) \in Nat /\ DOMAIN s = 1 .. Len(s) /\ SlotsPerCluster \in Nat /\ SlotsPerCluster > 1
  BY SlotsAssumption DEF IsDirectory
<1>2. /\ RunAtEnd(s) \in 0 .. Len(s) /\ FreeFrom(s, start) /\ NoEndBefore(s, start)
  BY RunAtEndFacts
<1>3. /\ Len(t) = Len(s) + SlotsPerCluster /\ IsDirectory(t)
      /\ \A i \in DOMAIN s : i \in DOMAIN t /\ t[i] = s[i]
      /\ \A i \in DOMAIN t : i \notin DOMAIN s => t[i] = UnusedAndEnd
  BY ClusterAdded
<1> HIDE DEF t
<1>4. start \in 1 .. Len(t) /\ start \in Nat /\ start <= Len(s) + 1
  BY <1>1, <1>2, <1>3
<1> HIDE DEF start
<1>5. FreeFrom(t, start)
  BY <1>2, <1>3, SlotFacts DEF FreeFrom, FreeKinds
<1>6. NoEndBefore(t, start)
  <2>1. \A k \in DOMAIN t : k < start => k \in DOMAIN s
    BY <1>1, <1>3, <1>4 DEF IsDirectory
  <2> QED
    BY <1>2, <1>3, <2>1 DEF NoEndBefore
<1> QED
  BY <1>4, <1>5, <1>6 DEF Carries, t, start

IsWhole(s) == \E c \in Nat : Len(s) = c * SlotsPerCluster

\* A directory with clusters added to it, and nothing else.
GrownFrom(s, t) ==
  /\ IsWhole(s) => IsWhole(t)
  /\ IsDirectory(t) /\ EndIsEnd(t)
  /\ \A i \in DOMAIN s : i \in DOMAIN t /\ t[i] = s[i]
  /\ \A i \in DOMAIN t : i \notin DOMAIN s => t[i] = UnusedAndEnd

(* A cluster more than a whole number of them.                             *)
LEMMA OneClusterMore ==
  ASSUME NEW s, NEW t, Len(t) = Len(s) + SlotsPerCluster, IsWhole(s)
  PROVE  IsWhole(t)
<1>1. PICK c \in Nat : Len(s) = c * SlotsPerCluster
  BY DEF IsWhole
<1>2. Len(t) = (c + 1) * SlotsPerCluster /\ c + 1 \in Nat
  BY <1>1, SlotsAssumption
<1> QED
  BY <1>2 DEF IsWhole

(* The search for room adds clusters at most, and finds a block.           *)
LEMMA BlockFound ==
  ASSUME IsDirectory(slots), NothingAfterEnd, NEW required \in Nat \ {0},
         NEW block, block = FindEmptyBlockOfEntries(required)
  PROVE  /\ GrownFrom(slots, block.slots)
         /\ block.start # 0 => IsBlock(block.slots, block.start, required)
<1>1. PICK s : s = slots
  OBVIOUS
<1>2. PICK one : one = AddNewCluster(s)
  OBVIOUS
<1>3. PICK two : two = AddNewCluster(one)
  OBVIOUS
<1>4. IsDirectory(s) /\ EndIsEnd(s) /\ Len(s) \in Nat /\ DOMAIN s = 1 .. Len(s)
  BY <1>1 DEF NothingAfterEnd, EndIsEnd, IsDirectory
<1>5. /\ IsDirectory(one) /\ EndIsEnd(one) /\ Len(one) = Len(s) + SlotsPerCluster
      /\ \A i \in DOMAIN s : i \in DOMAIN one /\ one[i] = s[i]
      /\ \A i \in DOMAIN one : i \notin DOMAIN s => one[i] = UnusedAndEnd
  BY <1>2, <1>4, ClusterAdded
<1>6. /\ IsDirectory(two) /\ EndIsEnd(two) /\ Len(two) = Len(one) + SlotsPerCluster
      /\ \A i \in DOMAIN one : i \in DOMAIN two /\ two[i] = one[i]
      /\ \A i \in DOMAIN two : i \notin DOMAIN one => two[i] = UnusedAndEnd
  BY <1>3, <1>5, ClusterAdded
<1>7. GrownFrom(s, s) /\ GrownFrom(s, one) /\ GrownFrom(s, two) /\ GrownFrom(s, AddNewCluster(two))
  <2>1. PICK three : three = AddNewCluster(two)
    OBVIOUS
  <2>2. /\ IsDirectory(three) /\ EndIsEnd(three) /\ Len(three) = Len(two) + SlotsPerCluster
        /\ \A i \in DOMAIN two : i \in DOMAIN three /\ three[i] = two[i]
        /\ \A i \in DOMAIN three : i \notin DOMAIN two => three[i] = UnusedAndEnd
    BY <1>6, <2>1, ClusterAdded
  <2>3. (IsWhole(s) => IsWhole(one)) /\ (IsWhole(one) => IsWhole(two)) /\ (IsWhole(two) => IsWhole(three))
    BY <1>5, <1>6, <2>2, OneClusterMore
  <2> QED
    BY <1>4, <1>5, <1>6, <2>1, <2>2, <2>3 DEF GrownFrom
<1>8. PICK carried1, start1 : carried1 = RunAtEnd(s) /\ start1 = Len(s) - carried1 + 1
  OBVIOUS
<1>9. carried1 \in Nat /\ Carries(one, carried1, start1)
  BY <1>2, <1>4, <1>8, RunAtEndFacts, RunGoesOn
<1>10. PICK carried2, start2 :
         /\ carried2 = IF carried1 = Len(s) THEN carried1 + Len(one) ELSE RunAtEnd(one)
         /\ start2 = IF carried1 = Len(s) THEN start1 ELSE Len(one) - carried2 + 1
  OBVIOUS
<1>11. carried2 \in Nat /\ Carries(two, carried2, start2)
  <2>1. CASE carried1 = Len(s)
    <3>1. start1 = 1 /\ FreeFrom(s, 1)
      <4>1. FreeFrom(s, Len(s) - RunAtEnd(s) + 1)
        BY <1>4, RunAtEndFacts
      <4>2. start1 = 1
        BY <1>4, <1>8, <2>1
      <4> QED
        BY <1>8, <4>1, <4>2
    <3>2. \A k \in DOMAIN two : two[k].kind \in FreeKinds
      BY <1>4, <1>5, <1>6, <3>1, SlotFacts DEF FreeFrom, FreeKinds
    <3>3. Len(one) \in Nat /\ Len(two) \in Nat /\ Len(two) >= 1 /\ DOMAIN two = 1 .. Len(two)
      BY <1>4, <1>5, <1>6, SlotsAssumption DEF IsDirectory
    <3>4. start2 = 1 /\ carried2 \in Nat
      BY <1>9, <1>10, <2>1, <3>1, <3>3
    <3> QED
      BY <3>2, <3>3, <3>4 DEF Carries, FreeFrom, NoEndBefore
  <2>2. CASE carried1 # Len(s)
    BY <1>3, <1>5, <1>10, <2>2, RunAtEndFacts, RunGoesOn
  <2> QED
    BY <2>1, <2>2
<1>12. \/ /\ RunEnds(s, 0, required) # {}
          /\ block = [slots |-> s, start |-> StartOfRun(s, 0, 0, required)]
       \/ block.slots = s /\ block.start = 0
       \/ /\ RunEnds(one, carried1, required) # {}
          /\ block = [slots |-> one, start |-> StartOfRun(one, carried1, start1, required)]
       \/ block.slots = one /\ block.start = 0
       \/ /\ RunEnds(two, carried2, required) # {}
          /\ block = [slots |-> two, start |-> StartOfRun(two, carried2, start2, required)]
       \/ block.slots \in {two, AddNewCluster(two)} /\ block.start = 0
  BY <1>1, <1>2, <1>3, <1>8, <1>10 DEF FindEmptyBlockOfEntries, NotFound
<1>13. ASSUME RunEnds(s, 0, required) # {} PROVE IsBlock(s, StartOfRun(s, 0, 0, required), required)
  BY <1>4, <1>13, RunFound DEF Carries
<1>14. ASSUME RunEnds(one, carried1, required) # {}
       PROVE  IsBlock(one, StartOfRun(one, carried1, start1, required), required)
  BY <1>5, <1>9, <1>14, RunFound
<1>15. ASSUME RunEnds(two, carried2, required) # {}
       PROVE  IsBlock(two, StartOfRun(two, carried2, start2, required), required)
  BY <1>6, <1>11, <1>15, RunFound
<1> QED
  BY <1>1, <1>7, <1>12, <1>13, <1>14, <1>15

-----------------------------------------------------------------------------
(* Short names, and the slots of a new entry.                              *)

(* There is a numeric tail that no listed entry of the basis has.          *)
LEMMA TailIsNumber ==
  ASSUME IsDirectory(slots), NEW basis
  PROVE  /\ UnusedTail(basis) \in Nat \ {0}
         /\ \A i \in Visible : IsDerivativeOfBasisFilename(slots[i].short, basis) =>
              slots[i].short[2] # UnusedTail(basis)
<1> DEFINE Users == {j \in Visible : IsDerivativeOfBasisFilename(slots[j].short, basis)}
           Used == {slots[i].short[2] : i \in Users}
           tail == [i \in Users |-> slots[i].short[2]]
<1>1. IsFiniteSet(Users)
  <2>1. Len(slots) \in Nat /\ DOMAIN slots = 1 .. Len(slots)
    BY DEF IsDirectory
  <2>2. IsFiniteSet(1 .. Len(slots))
    BY <2>1, FS_Interval
  <2>3. Users \subseteq 1 .. Len(slots)
    BY <2>1 DEF Visible
  <2> QED
    BY <2>2, <2>3, FS_Subset
<1>2. IsFiniteSet(Used)
  <2>1. tail \in Surjection(Users, Used)
    BY DEF Surjection
  <2> HIDE DEF Users, Used, tail
  <2> QED
    BY <1>1, <2>1, FS_Surjection
<1> HIDE DEF Users
<1>3. PICK c : c = Cardinality(Used) /\ c \in Nat
  BY <1>2, FS_CardinalityType
<1>4. (1 .. (c + 1)) \ Used # {}
  <2>1. SUFFICES ASSUME 1 .. (c + 1) \subseteq Used PROVE FALSE
    OBVIOUS
  <2>2. Cardinality(1 .. (c + 1)) = c + 1
    BY <1>3, FS_Interval
  <2>3. Cardinality(1 .. (c + 1)) <= Cardinality(Used)
    <3> HIDE DEF Used
    <3> QED
      BY <1>2, <2>1, FS_Subset
  <2> QED
    BY <1>3, <2>2, <2>3
<1>5. UnusedTail(basis) = Min((1 .. (c + 1)) \ Used)
  BY <1>3 DEF UnusedTail, Users
<1>6. (1 .. (c + 1)) \ Used \in SUBSET Nat /\ \A i \in 1 .. (c + 1) : i # 0
  BY <1>3
<1>7. \A i \in Users : slots[i].short[2] \in Used
  OBVIOUS
<1> HIDE DEF Used
<1>8. UnusedTail(basis) \in (1 .. (c + 1)) \ Used
  BY <1>4, <1>5, <1>6, LeastNumber
<1> QED
  BY <1>6, <1>7, <1>8 DEF Users

\* What is written for a name: as many slots as it takes, and the entry.
IsWritten(n, written) ==
  /\ written \in Seq(SlotValues) /\ Len(written) = LfnSlots[n] + 1
  /\ \A k \in 1 .. Len(written) :
       IF k = Len(written) THEN written[k] = ClusterEntry(n, ShortNameFor(n)) /\ written[k].kind = "entry"
       ELSE written[k] = LFNEntry(n, LfnSlots[n] + 1 - k) /\ written[k].kind = "lfn"

(* The fragments of the name, and the entry.                               *)
LEMMA WrittenFacts ==
  ASSUME IsDirectory(slots), NEW n \in Names
  PROVE  IsWritten(n, CreateLFNSequenceForFilename(n) \o <<ClusterEntry(n, ShortNameFor(n))>>)
<1> DEFINE fragments == CreateLFNSequenceForFilename(n)
           entry == ClusterEntry(n, ShortNameFor(n))
<1>1. LfnSlots[n] \in Nat
  BY SlotsAssumption
<1>2. /\ fragments \in Seq(SlotValues) /\ Len(fragments) = LfnSlots[n]
      /\ \A k \in 1 .. LfnSlots[n] :
           fragments[k] = LFNEntry(n, LfnSlots[n] + 1 - k) /\ fragments[k].kind = "lfn"
  <2>1. \A k \in 1 .. LfnSlots[n] : LfnSlots[n] + 1 - k \in Nat
    BY <1>1
  <2>2. \A k \in 1 .. LfnSlots[n] :
          /\ LFNEntry(n, LfnSlots[n] + 1 - k) \in SlotValues
          /\ LFNEntry(n, LfnSlots[n] + 1 - k).kind = "lfn"
    BY <2>1, SlotFacts
  <2> QED
    BY <1>1, <2>2 DEF CreateLFNSequenceForFilename
<1>3. ShortNameFor(n) \in ShortNames
  <2>1. UnusedTail(BasisName[n]) \in Nat
    BY TailIsNumber
  <2> QED
    BY <2>1 DEF ShortNameFor, ShortNames
<1>4. entry \in SlotValues /\ entry.kind = "entry"
  BY <1>3, SlotFacts
<1>5. <<entry>> \in Seq(SlotValues) /\ Len(<<entry>>) = 1 /\ <<entry>>[1] = entry
  BY <1>4
<1> HIDE DEF fragments, entry
<1>6. /\ fragments \o <<entry>> \in Seq(SlotValues) /\ Len(fragments \o <<entry>>) = LfnSlots[n] + 1
      /\ \A k \in 1 .. (LfnSlots[n] + 1) :
           (fragments \o <<entry>>)[k] = IF k <= LfnSlots[n] THEN fragments[k] ELSE <<entry>>[k - LfnSlots[n]]
  BY <1>2, <1>5, Joined
<1>7. \A k \in 1 .. (LfnSlots[n] + 1) :
        IF k = LfnSlots[n] + 1 THEN (fragments \o <<entry>>)[k] = entry
        ELSE /\ (fragments \o <<entry>>)[k] = LFNEntry(n, LfnSlots[n] + 1 - k)
             /\ (fragments \o <<entry>>)[k].kind = "lfn"
  BY <1>1, <1>2, <1>5, <1>6
<1> QED
  BY <1>4, <1>6, <1>7 DEF IsWritten, fragments, entry

-----------------------------------------------------------------------------
(* The invariant: what is still to be written fits where it goes, and what *)
(* is being removed is what it was.                                        *)

\* The slots to be written are free.  Only the last may be an end, where nothing follows.
ToWrite(s, at, todo) ==
  /\ at \in 1 .. Len(s) /\ NoEndBefore(s, at)
  /\ \A k \in DOMAIN s : at <= k /\ k < at + Len(todo) => s[k].kind \in FreeKinds
  /\ \A k \in 1 .. Len(todo) : todo[k].kind = "end" => k = Len(todo) /\ FreeFrom(s, at + k - 1)

IsEntry(s, i) == i \in DOMAIN s /\ s[i].kind = "entry"

\* The walk back begins at an entry, and goes on from a slot it has marked.
ToRemove(s, at, old) == at \in DOMAIN s /\ s[at].kind = IF at = old THEN "entry" ELSE "unused"

Operations == [at : Nat, todo : Seq(SlotValues), fits : BOOLEAN, old : Nat,
               first_cluster_known : BOOLEAN]

SlotsInv ==
  /\ IsDirectory(slots) /\ NothingAfterEnd
  /\ pc \in {"idle", "writing", "removing"} /\ op \in Operations
  /\ pc = "writing" => ToWrite(slots, op.at, op.todo) /\ (op.old # 0 => IsEntry(slots, op.old))
  /\ pc = "removing" => ToRemove(slots, op.at, op.old)

\* What a step leaves alone.
OthersStay ==
  \A i \in Visible : IsListedAs(i, slots[i].name) /\ i # op.old =>
    \A j \in Fragments(i) \cup {i} : slots'[j] = slots[j]

(* What is listed lies in the directory, and its name before it.           *)
LEMMA ListedFacts ==
  ASSUME IsDirectory(slots), NEW i \in Visible
  PROVE  /\ IsEntry(slots, i) /\ i \in Nat \ {0}
         /\ \A j \in Fragments(i) : j \in DOMAIN slots /\ j < i /\ \A k \in j .. (i - 1) : IsLFN(k)
<1>1. Len(slots) \in Nat /\ DOMAIN slots = 1 .. Len(slots)
  BY DEF IsDirectory
<1> QED
  BY <1>1 DEF Visible, IsEntry, Fragments

(* A file that is found is an entry.                                       *)
LEMMA FoundIsEntry ==
  ASSUME IsDirectory(slots), NEW n, FindDirectoryEntry(n) # {}
  PROVE  Min(FindDirectoryEntry(n)) \in Nat /\ IsEntry(slots, Min(FindDirectoryEntry(n)))
<1>1. FindDirectoryEntry(n) \subseteq Visible /\ FindDirectoryEntry(n) \in SUBSET Nat
  BY ListedFacts DEF FindDirectoryEntry
<1>2. Min(FindDirectoryEntry(n)) \in FindDirectoryEntry(n)
  BY <1>1, LeastNumber
<1> QED
  BY <1>1, <1>2, ListedFacts

(* Steps that only add clusters touch no other entry.                      *)
LEMMA GrowthTouchesNothing ==
  ASSUME IsDirectory(slots), \A i \in DOMAIN slots : slots'[i] = slots[i]
  PROVE  OthersStay
BY ListedFacts DEF OthersStay, IsEntry

(* The operation that begins, and the one that ends.                       *)
LEMMA OperationFacts ==
  /\ NoOperation \in Operations
  /\ \A i \in Nat : \A known \in BOOLEAN : BeginRemoval(i, known) =>
       /\ pc' = "removing" /\ op' \in Operations /\ op'.at = i /\ op'.old = i
<1>1. << >> \in Seq(SlotValues)
  OBVIOUS
<1> QED
  BY <1>1 DEF NoOperation, Operations, BeginRemoval

(* CreateEntry and RenameEntry find room and begin to write there.         *)
LEMMA CreationKeeps ==
  ASSUME SlotsInv, pc = "idle", NEW n \in Names, NEW old \in Nat, old = 0 \/ IsEntry(slots, old),
         WriteLFNSequenceAndClusterEntry(n, old)
  PROVE  SlotsInv' /\ OthersStay
<1> DEFINE required == LfnSlots[n] + 2
           written == CreateLFNSequenceForFilename(n) \o <<ClusterEntry(n, ShortNameFor(n))>>
<1>1. PICK block : block = FindEmptyBlockOfEntries(required)
  OBVIOUS
<1>2. required \in Nat \ {0} /\ LfnSlots[n] \in Nat
  BY SlotsAssumption
<1>3. /\ GrownFrom(slots, block.slots)
      /\ block.start # 0 => IsBlock(block.slots, block.start, required)
  BY <1>1, <1>2, BlockFound DEF SlotsInv
<1>4. PICK w : w = written /\ IsWritten(n, w)
  BY WrittenFacts DEF SlotsInv
<1>5. PICK over : over = {i \in DOMAIN block.slots : i \in block.start .. (block.start + LfnSlots[n])}
  OBVIOUS
<1>6. PICK todo : todo = IF \E i \in over : block.slots[i].kind = "end"
                         THEN Append(w, UnusedAndEnd) ELSE w
  OBVIOUS
<1>7. /\ slots' = block.slots
      /\ IF block.start = 0 THEN UNCHANGED <<pc, op>>
         ELSE /\ pc' = "writing"
              /\ op' = [at |-> block.start, todo |-> todo,
                        fits |-> block.start + LfnSlots[n] < Len(block.slots),
                        old |-> old, first_cluster_known |-> TRUE]
  BY <1>1, <1>4, <1>5, <1>6 DEF WriteLFNSequenceAndClusterEntry
<1>8. IsDirectory(slots') /\ EndIsEnd(slots') /\ \A i \in DOMAIN slots : slots'[i] = slots[i]
  BY <1>3, <1>7 DEF GrownFrom
<1>9. IsDirectory(slots)' /\ NothingAfterEnd'
  BY <1>8 DEF IsDirectory, EndIsEnd, NothingAfterEnd
<1>10. OthersStay
  BY <1>8, GrowthTouchesNothing DEF SlotsInv
<1>11. CASE block.start = 0
  BY <1>7, <1>9, <1>10, <1>11 DEF SlotsInv
<1>12. CASE block.start # 0
  <2>1. PICK s, start : s = block.slots /\ start = block.start
    OBVIOUS
  <2>2. /\ IsBlock(s, start, required) /\ IsDirectory(s) /\ EndIsEnd(s)
        /\ Len(s) \in Nat /\ DOMAIN s = 1 .. Len(s) /\ start \in 1 .. Len(s)
    BY <1>3, <1>12, <2>1 DEF GrownFrom, IsBlock, IsDirectory
  <2>3. w \in Seq(SlotValues) /\ Len(w) = LfnSlots[n] + 1 /\ \A k \in 1 .. Len(w) : w[k].kind # "end"
    BY <1>4 DEF IsWritten
  <2>4. /\ Append(w, UnusedAndEnd) \in Seq(SlotValues) /\ Len(Append(w, UnusedAndEnd)) = Len(w) + 1
        /\ \A k \in 1 .. Len(w) : Append(w, UnusedAndEnd)[k] = w[k]
    BY <2>3, SlotFacts
  <2>5. todo \in Seq(SlotValues) /\ Len(todo) <= required /\ Len(todo) \in Nat
    BY <1>2, <1>6, <2>3, <2>4
  <2>6. ASSUME NEW k \in 1 .. Len(todo), todo[k].kind = "end"
        PROVE  k = Len(todo) /\ FreeFrom(s, start + k - 1)
    <3>1. PICK i \in over : block.slots[i].kind = "end"
      BY <1>6, <2>3, <2>6
    <3>2. todo = Append(w, UnusedAndEnd) /\ k = Len(w) + 1 /\ k = Len(todo)
      BY <1>6, <2>3, <2>4, <2>6, <3>1
    <3>3. i \in DOMAIN s /\ s[i].kind = "end" /\ i < start + k - 1
      <4>1. i \in DOMAIN s /\ i \in start .. (start + LfnSlots[n])
        BY <1>5, <2>1
      <4>2. start + k - 1 = start + LfnSlots[n] + 1
        BY <1>2, <2>2, <2>3, <3>2, SMTT(60)
      <4> QED
        BY <1>2, <2>1, <2>2, <3>1, <4>1, <4>2
    <3>4. \A j \in DOMAIN s : start + k - 1 <= j => i < j
      BY <2>2, <3>3
    <3>5. FreeFrom(s, start + k - 1)
      BY <2>2, <3>3, <3>4 DEF EndIsEnd, FreeFrom
    <3> QED
      BY <3>2, <3>5
  <2>7. ToWrite(s, start, todo)
    <3>1. \A j \in DOMAIN s : j < start + Len(todo) => j < start + required
      BY <1>2, <2>2, <2>5
    <3> HIDE DEF required
    <3> QED
      BY <2>2, <2>6, <3>1 DEF ToWrite, IsBlock
  <2>8. op' \in Operations /\ op'.at = start /\ op'.todo = todo /\ op'.old = old /\ pc' = "writing"
    <3>1. start \in Nat /\ old \in Nat
      BY <2>2
    <3>2. PICK fits \in BOOLEAN :
            op' = [at |-> start, todo |-> todo, fits |-> fits, old |-> old,
                   first_cluster_known |-> TRUE]
      <4>1. PICK fits : fits = (block.start + LfnSlots[n] < Len(block.slots))
        OBVIOUS
      <4>2. fits \in BOOLEAN
        BY <4>1
      <4>3. op' = [at |-> start, todo |-> todo, fits |-> fits, old |-> old,
                   first_cluster_known |-> TRUE]
        BY <1>7, <1>12, <2>1, <4>1
      <4> QED
        BY <4>2, <4>3
    <3>3. op' \in Operations
      BY <2>5, <3>1, <3>2 DEF Operations
    <3>4. op'.at = start /\ op'.todo = todo /\ op'.old = old
      BY <3>2
    <3> QED
      BY <1>7, <1>12, <2>1, <3>3, <3>4
  <2>9. old # 0 => IsEntry(s, old)
    BY <1>3, <2>1 DEF IsEntry, GrownFrom
  <2>10. slots' = s
    BY <1>7, <2>1
  <2> QED
    BY <1>9, <1>10, <2>7, <2>8, <2>9, <2>10 DEF SlotsInv, IsEntry
<1> QED
  BY <1>11, <1>12

(* A cluster has room for the slot it is at, and ends no earlier.          *)
LEMMA RoomIsPositive ==
  ASSUME NEW i \in Nat \ {0}
  PROVE  LastSlot(i) \in Nat /\ i <= LastSlot(i) /\ FirstSlot(i) \in Nat \ {0} /\ FirstSlot(i) <= i
<1>1. PICK n : n = SlotsPerCluster /\ n \in Nat /\ n > 1
  BY SlotsAssumption
<1>2. PICK a : a = i - 1 /\ a \in Nat
  OBVIOUS
<1>3. PICK q : q = a \div n
  OBVIOUS
<1>4. q \in Nat /\ q * n <= a /\ a < (q + 1) * n
  BY <1>1, <1>2, <1>3, SMTT(30)
<1>5. FirstSlot(i) = q * n + 1 /\ LastSlot(i) = (q + 1) * n
  BY <1>1, <1>2, <1>3 DEF FirstSlot, LastSlot, ClusterOf
<1>6. q * n \in Nat /\ (q + 1) * n \in Nat
  BY <1>1, <1>4
<1> QED
  BY <1>2, <1>4, <1>5, <1>6

(* One device write: the slots written were free, so no entry and no       *)
(* fragment was there, and what is still to be written goes on after them. *)
LEMMA WriteClusterKeeps ==
  ASSUME SlotsInv, WriteCluster
  PROVE  SlotsInv' /\ OthersStay
<1> DEFINE room == LastSlot(op.at) - op.at + 1
<1>1. PICK s, at, todo, old : s = slots /\ at = op.at /\ todo = op.todo /\ old = op.old
  OBVIOUS
<1>2. /\ IsDirectory(s) /\ EndIsEnd(s) /\ ToWrite(s, at, todo) /\ (old # 0 => IsEntry(s, old))
      /\ todo \in Seq(SlotValues) /\ old \in Nat /\ op \in Operations
  BY <1>1 DEF SlotsInv, WriteCluster, Operations, NothingAfterEnd, EndIsEnd
<1>3. /\ Len(s) \in Nat /\ DOMAIN s = 1 .. Len(s) /\ s \in Seq(SlotValues) /\ Len(todo) \in Nat
      /\ at \in 1 .. Len(s) /\ at \in Nat \ {0}
  BY <1>2 DEF IsDirectory, ToWrite
<1>4. PICK n : n = Min({room, Len(op.todo)})
  OBVIOUS
<1>5. n \in Nat /\ n <= Len(todo) /\ (Len(todo) # 0 => n # 0)
  <2>1. room \in Nat \ {0}
    <3>1. LastSlot(at) \in Nat /\ at <= LastSlot(at)
      BY <1>3, RoomIsPositive
    <3>2. room = LastSlot(at) - at + 1
      BY <1>1
    <3> QED
      BY <1>3, <3>1, <3>2
  <2>2. {room, Len(todo)} \in SUBSET Nat /\ {room, Len(todo)} # {}
    BY <1>3, <2>1
  <2>3. n \in {room, Len(todo)} /\ n <= Len(todo)
    BY <1>1, <1>4, <2>2, LeastNumber
  <2> QED
    BY <1>3, <2>1, <2>3
<1>6. PICK t : t = slots' /\ t = [i \in DOMAIN s |-> IF i \in at .. (at + n - 1)
                                                   THEN todo[i - at + 1] ELSE s[i]]
  BY <1>1, <1>4 DEF WriteCluster
<1>7. \/ /\ n < Len(todo) /\ at + n <= Len(s) /\ pc' = "writing"
         /\ op' = [op EXCEPT !.at = op.at + n, !.todo = SubSeq(op.todo, n + 1, Len(op.todo))]
      \/ Return
      \/ n = Len(todo) /\ old # 0 /\ BeginRemoval(old, TRUE)
  BY <1>1, <1>4 DEF WriteCluster, HasSlot
<1> HIDE DEF room
<1>8. /\ t \in Seq(SlotValues) /\ Len(t) = Len(s) /\ DOMAIN t = 1 .. Len(s)
      /\ \A i \in 1 .. Len(s) : at <= i /\ i < at + n =>
           i - at + 1 \in 1 .. n /\ i - at + 1 \in 1 .. Len(todo) /\ t[i] = todo[i - at + 1]
      /\ \A i \in 1 .. Len(s) : ~(at <= i /\ i < at + n) => t[i] = s[i]
  <2>1. \A i \in 1 .. Len(s) : at <= i /\ i < at + n =>
           i - at + 1 \in 1 .. n /\ i - at + 1 \in 1 .. Len(todo) /\ t[i] = todo[i - at + 1]
    BY <1>3, <1>5, <1>6
  <2>2. \A i \in 1 .. Len(s) : ~(at <= i /\ i < at + n) => t[i] = s[i]
    BY <1>3, <1>5, <1>6
  <2>3. \A i \in 1 .. Len(s) : t[i] \in SlotValues
    BY <1>2, <1>3, <2>1, <2>2
  <2>4. t \in [1 .. Len(s) -> SlotValues]
    BY <1>3, <1>6, <2>3
  <2> QED
    BY <1>3, <2>1, <2>2, <2>4
<1>9. \A i \in 1 .. Len(s) : at <= i /\ i < at + n => s[i].kind \in FreeKinds
  BY <1>2, <1>3, <1>5 DEF ToWrite
<1>10. \A i \in 1 .. Len(s) : s[i].kind \notin FreeKinds => t[i] = s[i]
  BY <1>8, <1>9
<1>11. \A i \in 1 .. Len(s) : i < at + n /\ t[i].kind = "end" => n = Len(todo) /\ FreeFrom(s, i)
  <2> SUFFICES ASSUME NEW i \in 1 .. Len(s), i < at + n, t[i].kind = "end"
               PROVE  n = Len(todo) /\ FreeFrom(s, i)
    OBVIOUS
  <2>1. at <= i
    BY <1>2, <1>3, <1>8 DEF ToWrite, NoEndBefore
  <2>2. PICK k : k = i - at + 1 /\ k \in 1 .. n /\ k \in 1 .. Len(todo) /\ todo[k].kind = "end"
    BY <1>8, <2>1
  <2>3. k = Len(todo) /\ FreeFrom(s, at + k - 1)
    BY <1>2, <2>2 DEF ToWrite
  <2> QED
    BY <1>3, <1>5, <2>2, <2>3
<1>12. EndIsEnd(t)
  <2> SUFFICES ASSUME NEW i \in 1 .. Len(s), NEW j \in 1 .. Len(s), i < j, t[i].kind = "end"
               PROVE  t[j].kind \in FreeKinds
    BY <1>8 DEF EndIsEnd
  <2>1. CASE i < at + n
    <3>1. FreeFrom(s, i) /\ n = Len(todo)
      BY <1>11, <2>1
    <3>2. CASE j < at + n
      <4>1. at <= i
        BY <1>2, <1>3, <1>8, <2>1 DEF ToWrite, NoEndBefore
      <4>2. i - at + 1 \in 1 .. Len(todo) /\ todo[i - at + 1].kind = "end"
        BY <1>8, <2>1, <4>1
      <4>3. i - at + 1 = Len(todo)
        BY <1>2, <4>2 DEF ToWrite
      <4> QED
        BY <1>3, <3>1, <3>2, <4>3
    <3>3. CASE ~(j < at + n)
      BY <1>3, <1>8, <3>1, <3>3 DEF FreeFrom
    <3> QED
      BY <3>2, <3>3
  <2>2. CASE ~(i < at + n)
    BY <1>2, <1>3, <1>5, <1>8, <2>2 DEF EndIsEnd
  <2> QED
    BY <2>1, <2>2
<1>13. IsDirectory(slots)' /\ NothingAfterEnd'
  BY <1>6, <1>8, <1>12 DEF IsDirectory, EndIsEnd, NothingAfterEnd
<1>14. OthersStay
  <2> SUFFICES ASSUME NEW i \in Visible, NEW j \in Fragments(i) \cup {i} PROVE slots'[j] = slots[j]
    BY DEF OthersStay
  <2>1. j \in DOMAIN slots /\ slots[j].kind \in {"lfn", "entry"}
    <3>1. CASE j = i
      BY <1>1, <1>2, <3>1, ListedFacts DEF IsEntry
    <3>2. CASE j \in Fragments(i)
      <4>1. j \in DOMAIN slots /\ j < i /\ \A k \in j .. (i - 1) : IsLFN(k)
        BY <1>1, <1>2, <3>2, ListedFacts
      <4>2. j \in j .. (i - 1)
        BY <1>1, <1>2, <1>3, <4>1, ListedFacts
      <4> QED
        BY <4>1, <4>2 DEF IsLFN
    <3> QED
      BY <3>1, <3>2
  <2> QED
    BY <1>1, <1>3, <1>6, <1>10, <2>1 DEF FreeKinds
<1>15. CASE /\ n < Len(todo) /\ at + n <= Len(s) /\ pc' = "writing"
            /\ op' = [op EXCEPT !.at = op.at + n, !.todo = SubSeq(op.todo, n + 1, Len(op.todo))]
  <2>1. PICK rest : rest = SubSeq(todo, n + 1, Len(todo))
    OBVIOUS
  <2>2. /\ rest \in Seq(SlotValues) /\ Len(rest) = Len(todo) - n
        /\ \A k \in 1 .. (Len(todo) - n) : rest[k] = todo[n + k]
    <3>1. n + 1 \in 1 .. (Len(todo) + 1) /\ Len(todo) \in ((n + 1) - 1) .. Len(todo)
      BY <1>3, <1>5
    <3>2. /\ rest \in Seq(SlotValues) /\ Len(rest) = Len(todo) - (n + 1) + 1
          /\ \A k \in 1 .. (Len(todo) - (n + 1) + 1) : rest[k] = todo[(n + 1) + k - 1]
      BY <1>2, <2>1, <3>1, PartOf
    <3>3. Len(todo) - (n + 1) + 1 = Len(todo) - n
      BY <1>3, <1>5
    <3>4. ASSUME NEW k \in 1 .. (Len(todo) - n) PROVE rest[k] = todo[n + k]
      <4>1. (n + 1) + k - 1 = n + k
        BY <1>3, <1>5
      <4> QED
        BY <3>2, <3>3, <4>1
    <3> QED
      BY <3>2, <3>3, <3>4
  <2>3. /\ op' \in Operations /\ op'.at = at + n /\ op'.todo = rest /\ op'.old = old
    <3>1. op' = [op EXCEPT !.at = at + n, !.todo = rest]
      BY <1>1, <1>15, <2>1
    <3>2. at + n \in Nat
      BY <1>3, <1>5
    <3> QED
      BY <1>1, <1>2, <2>2, <3>1, <3>2 DEF Operations
  <2>4. at + n \in 1 .. Len(t) /\ NoEndBefore(t, at + n)
    BY <1>3, <1>5, <1>8, <1>11, <1>15 DEF NoEndBefore
  <2>5. ASSUME NEW k \in DOMAIN t, at + n <= k, k < (at + n) + Len(rest) PROVE t[k].kind \in FreeKinds
    <3>1. at <= k /\ k < at + Len(todo) /\ ~(k < at + n) /\ k \in 1 .. Len(s)
      BY <1>3, <1>5, <1>8, <2>2, <2>5
    <3> QED
      BY <1>2, <1>3, <1>8, <3>1 DEF ToWrite
  <2>6. ASSUME NEW k \in 1 .. Len(rest), rest[k].kind = "end"
        PROVE  k = Len(rest) /\ FreeFrom(t, (at + n) + k - 1)
    <3>1. n + k \in 1 .. Len(todo) /\ todo[n + k].kind = "end" /\ k \in Nat /\ k > 0
      BY <1>3, <1>5, <2>2, <2>6
    <3>2. n + k = Len(todo) /\ FreeFrom(s, at + (n + k) - 1)
      BY <1>2, <3>1 DEF ToWrite
    <3>3. FreeFrom(t, (at + n) + k - 1)
      <4> SUFFICES ASSUME NEW i \in DOMAIN t, (at + n) + k - 1 <= i PROVE t[i].kind \in FreeKinds
        BY DEF FreeFrom
      <4>1. i \in 1 .. Len(s) /\ at + (n + k) - 1 <= i /\ ~(i < at + n)
        BY <1>3, <1>5, <1>8, <3>1
      <4> QED
        BY <1>3, <1>8, <3>2, <4>1 DEF FreeFrom
    <3> QED
      BY <1>3, <1>5, <2>2, <3>1, <3>2, <3>3
  <2>7. ToWrite(t, at + n, rest)
    BY <2>4, <2>5, <2>6 DEF ToWrite
  <2>8. old # 0 => IsEntry(t, old)
    BY <1>2, <1>3, <1>8, <1>10 DEF IsEntry, FreeKinds
  <2> QED
    BY <1>6, <1>13, <1>14, <1>15, <2>3, <2>7, <2>8 DEF SlotsInv, IsEntry
<1>16. CASE Return
  BY <1>13, <1>14, <1>16, OperationFacts DEF SlotsInv, Return
<1>17. CASE n = Len(todo) /\ old # 0 /\ BeginRemoval(old, TRUE)
  <2>1. pc' = "removing" /\ op' \in Operations /\ op'.at = old /\ op'.old = old
    BY <1>2, <1>17, OperationFacts
  <2>2. old \in DOMAIN t /\ t[old].kind = "entry"
    BY <1>2, <1>3, <1>8, <1>10, <1>17 DEF IsEntry, FreeKinds
  <2> QED
    BY <1>6, <1>13, <1>14, <2>1, <2>2 DEF SlotsInv, ToRemove
<1> QED
  BY <1>7, <1>15, <1>16, <1>17

(* The walk back marks the entry and the fragments right before it, and    *)
(* these are in the name of no other entry.                                *)
LEMMA RemoveEntryKeeps ==
  ASSUME SlotsInv, RemoveEntry
  PROVE  SlotsInv' /\ OthersStay
<1>1. PICK s, at, old : s = slots /\ at = op.at /\ old = op.old
  OBVIOUS
<1>2. /\ IsDirectory(s) /\ EndIsEnd(s) /\ ToRemove(s, at, old) /\ op \in Operations
      /\ Len(s) \in Nat /\ DOMAIN s = 1 .. Len(s) /\ s \in Seq(SlotValues) /\ at \in 1 .. Len(s)
  BY <1>1 DEF SlotsInv, RemoveEntry, NothingAfterEnd, EndIsEnd, IsDirectory, ToRemove
<1>3. PICK here : here = IF at = old THEN at ELSE at - 1
  OBVIOUS
<1>4. PICK removed : removed = ({at} \cap {old}) \cup FragmentsBefore(at, here)
  OBVIOUS
<1>5. PICK start : start = FirstSlot(here)
  OBVIOUS
<1>6. /\ slots' = MarkUnused(removed)
      /\ \/ /\ start \in removed /\ start > 1 /\ pc' = "removing"
            /\ op' = [op EXCEPT !.at = start, !.old = 0]
         \/ Return
  BY <1>1, <1>3, <1>4, <1>5 DEF RemoveEntry
<1>7. PICK t : t = slots' /\ t = [i \in DOMAIN s |-> IF i \in removed THEN Unused ELSE s[i]]
  BY <1>1, <1>6 DEF MarkUnused
<1>8. \A j \in FragmentsBefore(at, here) : j < at /\ \A k \in j .. (at - 1) : IsLFN(k)
  BY <1>2 DEF FragmentsBefore
<1>9. /\ t \in Seq(SlotValues) /\ Len(t) = Len(s) /\ DOMAIN t = 1 .. Len(s)
      /\ \A i \in 1 .. Len(s) : t[i] = Unused \/ t[i] = s[i]
      /\ \A i \in 1 .. Len(s) : i \notin removed => t[i] = s[i]
  <2>1. t \in [1 .. Len(s) -> SlotValues]
    BY <1>2, <1>7, SlotFacts
  <2> QED
    BY <1>2, <1>7, <2>1
<1>10. EndIsEnd(t)
  BY <1>2, <1>9, SlotFacts DEF EndIsEnd, FreeKinds
<1>11. IsDirectory(slots)' /\ NothingAfterEnd'
  BY <1>7, <1>9, <1>10 DEF IsDirectory, EndIsEnd, NothingAfterEnd
<1>12. OthersStay
  <2> SUFFICES ASSUME NEW i \in Visible, i # op.old, NEW j \in Fragments(i) \cup {i}
               PROVE  slots'[j] = slots[j]
    BY DEF OthersStay
  <2>1. /\ i \in 1 .. Len(s) /\ s[i].kind = "entry" /\ i # old
        /\ j \in 1 .. Len(s) /\ j <= i /\ \A k \in j .. (i - 1) : s[k].kind = "lfn"
    BY <1>1, <1>2, ListedFacts DEF IsEntry, IsLFN
  <2>2. s[at].kind # "lfn" /\ (at # old => s[at].kind # "entry")
    BY <1>2 DEF ToRemove
  <2>3. j \notin {at} \cap {old}
    BY <1>2, <2>1, <2>2
  <2>4. ASSUME j \in FragmentsBefore(at, here) PROVE FALSE
    <3>1. j < at /\ \A k \in j .. (at - 1) : s[k].kind = "lfn"
      BY <1>1, <1>8, <2>4 DEF IsLFN
    <3>2. i < at => i \in j .. (at - 1)
      BY <1>2, <2>1
    <3>3. at < i => at \in j .. (i - 1)
      BY <1>2, <2>1, <3>1
    <3> QED
      BY <1>2, <2>1, <2>2, <3>1, <3>2, <3>3
  <2> QED
    BY <1>1, <1>4, <1>7, <1>9, <2>1, <2>3, <2>4
<1>13. CASE start \in removed /\ start > 1 /\ pc' = "removing" /\ op' = [op EXCEPT !.at = start, !.old = 0]
  <2>1. start \in 1 .. Len(s)
    <3>1. start \in {at} \cap {old} \/ (start \in FirstSlot(here) .. (at - 1))
      BY <1>4, <1>13 DEF FragmentsBefore
    <3> QED
      BY <1>2, <1>13, <3>1
  <2>2. t[start] = Unused
    BY <1>2, <1>7, <1>13, <2>1
  <2>3. op' \in Operations /\ op'.at = start /\ op'.old = 0
    <3>1. start \in Nat
      BY <2>1
    <3> QED
      BY <1>2, <1>13, <3>1 DEF Operations
  <2> QED
    BY <1>7, <1>9, <1>11, <1>12, <1>13, <2>1, <2>2, <2>3, SlotFacts DEF SlotsInv, ToRemove
<1>14. CASE Return
  BY <1>11, <1>12, <1>14, OperationFacts DEF SlotsInv, Return
<1> QED
  BY <1>6, <1>13, <1>14

-----------------------------------------------------------------------------
(* Short names.                                                            *)

\* What the names a program uses must keep to: every basis made from a long name has a
\* tail, and no name of the form 8.3 is such a basis with a tail.
TailsAreMade ==
  \A n \in Names : LfnSlots[n] > 0 =>
    /\ BasisName[n][2] # 0
    /\ \A m \in Names : LfnSlots[m] = 0 => ~IsDerivativeOfBasisFilename(BasisName[m], BasisName[n])

\* A slot that holds an entry, with the short name made for its name.
IsMade(e) ==
  /\ e.name \in Names
  /\ IF LfnSlots[e.name] = 0 THEN e.short = BasisName[e.name]
     ELSE IsDerivativeOfBasisFilename(e.short, BasisName[e.name])

\* Two entries of which one has the short name that was made for the other.
Meet(d, e) == d.short = e.short /\ (LfnSlots[d.name] > 0 \/ LfnSlots[e.name] > 0)

EntriesMade(s) == \A i \in DOMAIN s : s[i].kind = "entry" => IsMade(s[i])
EntriesApart(s) ==
  \A i, j \in DOMAIN s : s[i].kind = "entry" /\ s[j].kind = "entry" /\ i # j => ~Meet(s[i], s[j])

\* No entry of the directory has the short name made for e.
IsNewIn(s, e) == \A i \in DOMAIN s : s[i].kind = "entry" => ~Meet(s[i], e)

\* What is still to be written holds one entry at most, and that is new.
TodoIsNew(s, todo) ==
  /\ \A k \in DOMAIN todo : todo[k].kind = "entry" => IsMade(todo[k]) /\ IsNewIn(s, todo[k])
  /\ \A k, l \in DOMAIN todo : todo[k].kind = "entry" /\ todo[l].kind = "entry" => k = l

ShortNamesInv ==
  /\ EntriesMade(slots) /\ EntriesApart(slots)
  /\ pc = "writing" => TodoIsNew(slots, op.todo)

(* As long as listing stops nowhere too early, every entry is listed.      *)
LEMMA AllAreVisible ==
  ASSUME IsDirectory(slots), NothingAfterEnd, NEW i, IsEntry(slots, i)
  PROVE  i \in Visible
<1>1. DOMAIN slots = 1 .. Len(slots) /\ Len(slots) \in Nat
  BY DEF IsDirectory
<1>2. ASSUME NEW j \in 1 .. i, slots[j].kind = "end" PROVE FALSE
  <2>1. j \in DOMAIN slots /\ (j < i \/ j = i)
    BY <1>1 DEF IsEntry
  <2> QED
    BY <1>2, <2>1 DEF NothingAfterEnd, IsEntry, FreeKinds
<1> QED
  BY <1>2 DEF Visible, IsEntry

(* The tail found is none of those in use.                                 *)
LEMMA TailIsUnused ==
  ASSUME IsDirectory(slots), NothingAfterEnd, NEW basis, NEW i, IsEntry(slots, i),
         IsDerivativeOfBasisFilename(slots[i].short, basis)
  PROVE  slots[i].short[2] # UnusedTail(basis)
BY AllAreVisible, TailIsNumber

(* The short name made for a name is that of no entry.                     *)
LEMMA MadeIsNew ==
  ASSUME TailsAreMade, IsDirectory(slots), NothingAfterEnd, EntriesMade(slots), NEW n \in Names
  PROVE  /\ IsMade(ClusterEntry(n, ShortNameFor(n)))
         /\ IsNewIn(slots, ClusterEntry(n, ShortNameFor(n)))
<1>1. PICK tail : tail = UnusedTail(BasisName[n]) /\ tail \in Nat \ {0}
  BY TailIsNumber
<1>2. PICK e : e = ClusterEntry(n, ShortNameFor(n))
  OBVIOUS
<1>3. /\ e.name = n
      /\ e.short = IF LfnSlots[n] = 0 THEN BasisName[n] ELSE <<BasisName[n][1], tail>>
  BY <1>1, <1>2 DEF ClusterEntry, Slot, ShortNameFor
<1>4. \A m \in Names : LfnSlots[m] \in Nat
  BY SlotsAssumption
<1>5. IsMade(e)
  <2>1. CASE LfnSlots[n] = 0
    BY <1>3, <2>1 DEF IsMade
  <2>2. CASE LfnSlots[n] > 0
    <3>1. e.short[1] = BasisName[n][1] /\ e.short[2] = tail /\ BasisName[n][2] # 0
      BY <1>3, <2>2 DEF TailsAreMade
    <3>2. IsDerivativeOfBasisFilename(e.short, BasisName[n])
      BY <1>1, <3>1 DEF IsDerivativeOfBasisFilename
    <3> QED
      BY <1>3, <2>2, <3>2 DEF IsMade
  <2> QED
    BY <1>4, <2>1, <2>2
<1>6. ASSUME NEW i \in DOMAIN slots, slots[i].kind = "entry", Meet(slots[i], e)
      PROVE  FALSE
  <2>1. PICK d : d = slots[i]
    OBVIOUS
  <2>2. IsMade(d) /\ d.short = e.short /\ d.name \in Names
    BY <1>6, <2>1 DEF EntriesMade, IsMade, Meet
  <2>3. CASE LfnSlots[n] > 0
    <3>1. /\ e.short[2] = tail /\ ~(LfnSlots[n] = 0)
          /\ IsDerivativeOfBasisFilename(e.short, BasisName[n])
      BY <1>3, <1>4, <1>5, <2>3 DEF IsMade
    <3>2. IsDerivativeOfBasisFilename(slots[i].short, BasisName[n]) /\ slots[i].short[2] = tail
      BY <2>1, <2>2, <3>1
    <3> QED
      BY <1>1, <1>6, <3>2, TailIsUnused DEF IsEntry
  <2>4. CASE LfnSlots[n] = 0
    <3>1. LfnSlots[d.name] > 0 /\ ~(LfnSlots[d.name] = 0)
      BY <1>3, <1>6, <2>1, <2>4 DEF Meet
    <3>2. IsDerivativeOfBasisFilename(d.short, BasisName[d.name])
      BY <2>2, <3>1 DEF IsMade
    <3>3. d.short = BasisName[n]
      BY <1>3, <2>2, <2>4
    <3> QED
      BY <2>2, <2>4, <3>1, <3>2, <3>3 DEF TailsAreMade
  <2> QED
    BY <1>4, <2>3, <2>4
<1> QED
  BY <1>2, <1>5, <1>6 DEF IsNewIn

(* Slots that are not entries may come and go.                             *)
LEMMA FewerEntries ==
  ASSUME NEW s, NEW t, EntriesMade(s), EntriesApart(s),
         \A i \in DOMAIN t : t[i].kind = "entry" => i \in DOMAIN s /\ t[i] = s[i]
  PROVE  /\ EntriesMade(t) /\ EntriesApart(t)
         /\ \A e : IsNewIn(s, e) => IsNewIn(t, e)
BY DEF EntriesMade, EntriesApart, IsNewIn

\* The first n slots to be written go to the slots from `at' on; the rest is still to be written.
IsPartWritten(s, t, todo, rest, at, n) ==
  /\ todo \in Seq(SlotValues) /\ rest \in Seq(SlotValues) /\ at \in Nat /\ n \in Nat /\ n <= Len(todo)
  /\ \A i \in DOMAIN t : /\ i \in Nat
                         /\ \/ i - at + 1 \in 1 .. n /\ t[i] = todo[i - at + 1]
                            \/ i \in DOMAIN s /\ t[i] = s[i]
  /\ \A k \in DOMAIN rest : n + k \in 1 .. Len(todo) /\ k \in 1 .. Len(todo) /\ rest[k] = todo[n + k]

(* A part of what is to be written is written: its entry is new among      *)
(* those of the directory, and the rest has no entry if the part has one.  *)
LEMMA PartWritten ==
  ASSUME NEW s, NEW t, NEW todo, NEW rest, NEW at, NEW n,
         EntriesMade(s), EntriesApart(s), TodoIsNew(s, todo),
         IsPartWritten(s, t, todo, rest, at, n)
  PROVE  EntriesMade(t) /\ EntriesApart(t) /\ TodoIsNew(t, rest)
<1> USE DEF IsPartWritten
<1>1. /\ Len(todo) \in Nat /\ DOMAIN todo = 1 .. Len(todo)
      /\ \A k \in 1 .. n : k \in DOMAIN todo
  OBVIOUS
<1>2. EntriesMade(t)
  BY <1>1 DEF EntriesMade, TodoIsNew
<1>3. ASSUME NEW i \in DOMAIN t, NEW k \in DOMAIN todo, t[i].kind = "entry", todo[k].kind = "entry"
      PROVE  (i - at + 1 \in 1 .. n /\ i - at + 1 = k) \/ ~Meet(t[i], todo[k])
  BY <1>1, <1>3 DEF TodoIsNew, IsNewIn
<1>4. ASSUME NEW i \in DOMAIN t, NEW j \in DOMAIN t, t[i].kind = "entry", t[j].kind = "entry", i # j
      PROVE  ~Meet(t[i], t[j])
  <2>1. CASE j - at + 1 \in 1 .. n /\ t[j] = todo[j - at + 1]
    <3>1. PICK k : k = j - at + 1 /\ k \in DOMAIN todo /\ t[j] = todo[k]
      BY <1>1, <2>1
    <3>2. i - at + 1 # k
      BY <1>4, <3>1
    <3> QED
      BY <1>3, <1>4, <3>1, <3>2
  <2>2. CASE i - at + 1 \in 1 .. n /\ t[i] = todo[i - at + 1]
    <3>1. PICK k : k = i - at + 1 /\ k \in DOMAIN todo /\ t[i] = todo[k]
      BY <1>1, <2>2
    <3>2. j - at + 1 # k
      BY <1>4, <3>1
    <3>3. ~Meet(t[j], t[i])
      BY <1>3, <1>4, <3>1, <3>2
    <3> QED
      BY <3>3 DEF Meet
  <2>3. CASE i \in DOMAIN s /\ t[i] = s[i] /\ j \in DOMAIN s /\ t[j] = s[j]
    BY <1>4, <2>3 DEF EntriesApart
  <2> QED
    BY <2>1, <2>2, <2>3
<1>5. ASSUME NEW k \in DOMAIN rest, rest[k].kind = "entry"
      PROVE  IsMade(rest[k]) /\ IsNewIn(t, rest[k])
  <2>1. n + k \in DOMAIN todo /\ todo[n + k].kind = "entry" /\ rest[k] = todo[n + k] /\ n + k > n
    BY <1>1, <1>5
  <2>2. ASSUME NEW i \in DOMAIN t, t[i].kind = "entry" PROVE ~Meet(t[i], rest[k])
    BY <1>1, <1>3, <2>1, <2>2
  <2> QED
    BY <2>1, <2>2 DEF TodoIsNew, IsNewIn
<1>6. ASSUME NEW k \in DOMAIN rest, NEW l \in DOMAIN rest, rest[k].kind = "entry", rest[l].kind = "entry"
      PROVE  k = l
  <2>1. n + k = n + l
    BY <1>1, <1>6 DEF TodoIsNew
  <2>2. k \in Nat /\ l \in Nat
    BY <1>1, <1>6
  <2> QED
    BY <2>1, <2>2
<1> QED
  BY <1>2, <1>4, <1>5, <1>6 DEF EntriesApart, TodoIsNew

(* CreateEntry and RenameEntry begin to write a new short name.            *)
LEMMA CreationIsNew ==
  ASSUME TailsAreMade, SlotsInv, ShortNamesInv, NEW n \in Names, NEW old \in Nat,
         WriteLFNSequenceAndClusterEntry(n, old), pc = "idle"
  PROVE  ShortNamesInv'
<1> DEFINE required == LfnSlots[n] + 2
           entry == ClusterEntry(n, ShortNameFor(n))
           written == CreateLFNSequenceForFilename(n) \o <<entry>>
<1>1. PICK block : block = FindEmptyBlockOfEntries(required)
  OBVIOUS
<1>2. required \in Nat \ {0} /\ LfnSlots[n] \in Nat
  BY SlotsAssumption
<1>3. GrownFrom(slots, block.slots)
  BY <1>1, <1>2, BlockFound DEF SlotsInv
<1>4. PICK w : w = written /\ IsWritten(n, w)
  BY WrittenFacts DEF SlotsInv
<1>5. PICK todo : /\ todo = w \/ todo = Append(w, UnusedAndEnd)
                  /\ slots' = block.slots
                  /\ \/ pc' = pc
                     \/ op'.todo = todo
  <2>1. PICK todo : todo = IF \E i \in {i \in DOMAIN block.slots : i \in block.start .. (block.start + LfnSlots[n])} :
                                block.slots[i].kind = "end"
                           THEN Append(w, UnusedAndEnd) ELSE w
    OBVIOUS
  <2>2. /\ slots' = block.slots
        /\ IF block.start = 0 THEN UNCHANGED <<pc, op>>
           ELSE /\ pc' = "writing"
                /\ op' = [at |-> block.start, todo |-> todo,
                          fits |-> block.start + LfnSlots[n] < Len(block.slots),
                          old |-> old, first_cluster_known |-> TRUE]
    BY <1>1, <1>4, <2>1 DEF WriteLFNSequenceAndClusterEntry
  <2> QED
    BY <2>1, <2>2
<1>6. EntriesMade(slots') /\ EntriesApart(slots') /\ \A e : IsNewIn(slots, e) => IsNewIn(slots', e)
  <2>1. \A i \in DOMAIN block.slots :
          block.slots[i].kind = "entry" => i \in DOMAIN slots /\ block.slots[i] = slots[i]
    BY <1>3, SlotFacts DEF GrownFrom
  <2> QED
    BY <1>5, <2>1, FewerEntries DEF ShortNamesInv
<1>7. /\ w \in Seq(SlotValues) /\ Len(w) \in Nat /\ DOMAIN w = 1 .. Len(w)
      /\ \A k \in 1 .. Len(w) : w[k].kind = "entry" => k = Len(w) /\ w[k] = entry
  BY <1>4 DEF IsWritten
<1>8. IsMade(entry) /\ IsNewIn(slots', entry)
  BY <1>6, MadeIsNew DEF SlotsInv, ShortNamesInv
<1> HIDE DEF entry, written, required
<1>9. \A k \in DOMAIN todo : todo[k].kind = "entry" => k = Len(w) /\ todo[k] = entry
  <2>1. CASE todo = w
    BY <1>7, <2>1
  <2>2. CASE todo = Append(w, UnusedAndEnd)
    <3>1. PICK u : u = UnusedAndEnd /\ u \in SlotValues /\ u.kind = "end"
      BY SlotFacts
    <3>2. Append(w, u) \in Seq(SlotValues) /\ Len(Append(w, u)) = Len(w) + 1
          /\ \A k \in 1 .. (Len(w) + 1) : Append(w, u)[k] = IF k = Len(w) + 1 THEN u ELSE w[k]
      BY <1>7, <3>1
    <3>3. PICK v : v = Append(w, u)
      OBVIOUS
    <3>4. v \in Seq(SlotValues) /\ Len(v) = Len(w) + 1
          /\ \A k \in 1 .. (Len(w) + 1) : v[k] = IF k = Len(w) + 1 THEN u ELSE w[k]
      BY <3>2, <3>3
    <3>5. todo = v
      BY <2>2, <3>1, <3>3
    <3>6. DOMAIN v = 1 .. (Len(w) + 1)
      BY <3>4
    <3> SUFFICES ASSUME NEW k \in 1 .. (Len(w) + 1), v[k].kind = "entry"
                 PROVE  k = Len(w) /\ v[k] = entry
      BY <3>5, <3>6
    <3>7. k # Len(w) + 1
      BY <3>1, <3>4
    <3>8. k \in 1 .. Len(w)
      <4>1. PICK c : c = Len(w) /\ c \in Nat
        BY <1>7
      <4>2. k \in 1 .. (c + 1) /\ k # c + 1
        BY <3>7, <4>1
      <4>3. k \in 1 .. c
        BY <4>1, <4>2
      <4> QED
        BY <4>1, <4>3
    <3>9. v[k] = w[k]
      BY <3>4, <3>7
    <3> QED
      BY <1>7, <3>8, <3>9
  <2> QED
    BY <1>5, <2>1, <2>2
<1>10. TodoIsNew(slots', todo)
  BY <1>8, <1>9 DEF TodoIsNew
<1> QED
  BY <1>5, <1>6, <1>10 DEF ShortNamesInv

(* One device write.                                                       *)
LEMMA WriteClusterApart ==
  ASSUME SlotsInv, ShortNamesInv, WriteCluster
  PROVE  ShortNamesInv'
<1>1. PICK s, at, todo : s = slots /\ at = op.at /\ todo = op.todo
  OBVIOUS
<1>2. /\ s \in Seq(SlotValues) /\ todo \in Seq(SlotValues) /\ at \in Nat /\ at \in 1 .. Len(s)
      /\ EntriesMade(s) /\ EntriesApart(s) /\ TodoIsNew(s, todo) /\ op \in Operations
  BY <1>1 DEF SlotsInv, ShortNamesInv, WriteCluster, Operations, IsDirectory, ToWrite
<1>3. PICK n : n = Min({LastSlot(op.at) - op.at + 1, Len(op.todo)})
  OBVIOUS
<1>4. n \in Nat /\ n <= Len(todo) /\ Len(todo) \in Nat /\ Len(s) \in Nat
  <2>1. PICK room : room = LastSlot(at) - at + 1 /\ room \in Nat
    <3>1. at \in Nat \ {0}
      BY <1>2
    <3>2. LastSlot(at) \in Nat /\ at <= LastSlot(at)
      BY <3>1, RoomIsPositive
    <3> QED
      BY <1>2, <3>2
  <2>2. {room, Len(todo)} \in SUBSET Nat /\ {room, Len(todo)} # {}
    BY <1>2, <2>1
  <2>3. n \in {room, Len(todo)} /\ n <= Len(todo)
    BY <1>1, <1>3, <2>1, <2>2, LeastNumber
  <2> QED
    BY <1>2, <2>2, <2>3
<1>5. PICK t : t = slots' /\ t = [i \in DOMAIN s |-> IF i \in at .. (at + n - 1)
                                                   THEN todo[i - at + 1] ELSE s[i]]
  BY <1>1, <1>3 DEF WriteCluster
<1>6. PICK rest : rest = SubSeq(todo, n + 1, Len(todo))
  OBVIOUS
<1>7. pc' = "writing" => op'.todo = rest
  <2>1. \/ pc' = pc /\ op' = [op EXCEPT !.at = op.at + n, !.todo = SubSeq(op.todo, n + 1, Len(op.todo))]
        \/ Return
        \/ BeginRemoval(op.old, TRUE)
    BY <1>1, <1>3 DEF WriteCluster
  <2> QED
    BY <1>1, <1>2, <1>6, <2>1 DEF Return, BeginRemoval, Operations
<1>8. /\ rest \in Seq(SlotValues)
      /\ \A k \in DOMAIN rest : n + k \in 1 .. Len(todo) /\ k \in 1 .. Len(todo) /\ rest[k] = todo[n + k]
  <2>1. n + 1 \in 1 .. (Len(todo) + 1) /\ Len(todo) \in ((n + 1) - 1) .. Len(todo)
    BY <1>4
  <2>2. /\ rest \in Seq(SlotValues) /\ Len(rest) = Len(todo) - (n + 1) + 1
        /\ \A k \in 1 .. (Len(todo) - (n + 1) + 1) : rest[k] = todo[(n + 1) + k - 1]
    BY <1>2, <1>6, <2>1, PartOf
  <2>3. DOMAIN rest = 1 .. (Len(todo) - n) /\ Len(todo) - (n + 1) + 1 = Len(todo) - n
    BY <1>4, <2>2
  <2>4. ASSUME NEW k \in 1 .. (Len(todo) - n)
        PROVE  n + k \in 1 .. Len(todo) /\ k \in 1 .. Len(todo) /\ rest[k] = todo[n + k]
    <3>1. (n + 1) + k - 1 = n + k
      BY <1>4
    <3> QED
      BY <1>4, <2>2, <2>3, <3>1
  <2> QED
    BY <2>2, <2>3, <2>4
<1>9. \A i \in DOMAIN t : /\ i \in Nat
                          /\ \/ i - at + 1 \in 1 .. n /\ t[i] = todo[i - at + 1]
                             \/ i \in DOMAIN s /\ t[i] = s[i]
  BY <1>2, <1>4, <1>5
<1>10. EntriesMade(t) /\ EntriesApart(t) /\ TodoIsNew(t, rest)
  <2>1. IsPartWritten(s, t, todo, rest, at, n)
    BY <1>2, <1>4, <1>8, <1>9 DEF IsPartWritten
  <2> QED
    BY <1>2, <2>1, PartWritten
<1> QED
  BY <1>5, <1>7, <1>10 DEF ShortNamesInv

(* Every step keeps the short names apart.                                 *)
LEMMA ShortNamesStep ==
  ASSUME TailsAreMade, SlotsInv, ShortNamesInv, [Next]_vars
  PROVE  ShortNamesInv'
<1>1. ASSUME NEW n \in Names, CreateEntry(n) PROVE ShortNamesInv'
  BY <1>1, CreationIsNew DEF CreateEntry
<1>2. ASSUME NEW n \in Names, NEW new \in Names, RenameEntry(n, new) PROVE ShortNamesInv'
  <2>1. PICK old \in Nat : pc = "idle" /\ WriteLFNSequenceAndClusterEntry(new, old)
    BY <1>2, FoundIsEntry DEF RenameEntry, SlotsInv
  <2> QED
    BY <2>1, CreationIsNew
<1>3. ASSUME NEW n \in Names, DeleteFile(n) PROVE ShortNamesInv'
  BY <1>3 DEF DeleteFile, BeginRemoval, ShortNamesInv
<1>4. CASE RemoveEntry
  <2>1. \E removed : slots' = MarkUnused(removed)
    BY <1>4 DEF RemoveEntry
  <2>2. \A i \in DOMAIN slots' : slots'[i].kind = "entry" => i \in DOMAIN slots /\ slots'[i] = slots[i]
    BY <2>1, SlotFacts DEF MarkUnused
  <2>3. EntriesMade(slots') /\ EntriesApart(slots')
    BY <2>2, FewerEntries DEF ShortNamesInv
  <2>4. pc' # "writing"
    BY <1>4 DEF RemoveEntry, Return
  <2> QED
    BY <2>3, <2>4 DEF ShortNamesInv
<1>5. CASE PowerLoss
  BY <1>5 DEF PowerLoss, Return, ShortNamesInv
<1>6. CASE UNCHANGED vars
  BY <1>6 DEF ShortNamesInv, vars
<1> QED
  BY <1>1, <1>2, <1>3, <1>4, <1>5, <1>6, WriteClusterApart DEF Next

-----------------------------------------------------------------------------
(* Fragments: an entry has all of its own, and the others fill the cluster *)
(* they are in.                                                            *)

(* A quotient is known by its bounds.                                      *)
LEMMA Quotient ==
  ASSUME NEW a \in Nat, NEW q \in Nat, NEW n \in Nat \ {0}, q * n <= a, a < (q + 1) * n
  PROVE  a \div n = q
<1>1. PICK r : r = a \div n
  OBVIOUS
<1>2. r \in Nat /\ r * n <= a /\ a < (r + 1) * n
  BY <1>1, SMTT(30)
<1>3. ASSUME NEW x \in Nat, NEW y \in Nat, x < y PROVE (x + 1) * n <= y * n
  <2>1. PICK d : d = y - (x + 1) /\ d \in Nat
    BY <1>3
  <2>2. y * n = (x + 1) * n + d * n /\ d * n \in Nat /\ (x + 1) * n \in Nat
    BY <2>1, <1>3, SMTT(30)
  <2> QED
    BY <2>2
<1>4. r * n \in Nat /\ (r + 1) * n \in Nat /\ q * n \in Nat /\ (q + 1) * n \in Nat
  BY <1>2
<1>5. ~(r < q)
  BY <1>2, <1>3, <1>4
<1>6. ~(q < r)
  BY <1>2, <1>3, <1>4
<1> QED
  BY <1>1, <1>2, <1>5, <1>6

(* Slots of one cluster, and the one before a cluster.                     *)
LEMMA ClusterFacts ==
  ASSUME NEW i \in Nat \ {0}
  PROVE  /\ \A j \in Nat : FirstSlot(i) <= j /\ j <= LastSlot(i) =>
              FirstSlot(j) = FirstSlot(i) /\ LastSlot(j) = LastSlot(i)
         /\ FirstSlot(i) > 1 => LastSlot(FirstSlot(i) - 1) = FirstSlot(i) - 1
         /\ FirstSlot(FirstSlot(i)) = FirstSlot(i)
<1>1. PICK n : n = SlotsPerCluster /\ n \in Nat \ {0}
  BY SlotsAssumption
<1>2. PICK a : a = i - 1 /\ a \in Nat
  OBVIOUS
<1>3. PICK q : q = a \div n
  OBVIOUS
<1>4. q \in Nat /\ q * n <= a /\ a < (q + 1) * n
  BY <1>1, <1>2, <1>3, SMTT(30)
<1>5. FirstSlot(i) = q * n + 1 /\ LastSlot(i) = (q + 1) * n /\ q * n \in Nat /\ (q + 1) * n \in Nat
  BY <1>1, <1>2, <1>3, <1>4 DEF FirstSlot, LastSlot, ClusterOf
<1>6. ASSUME NEW j \in Nat, FirstSlot(i) <= j, j <= LastSlot(i)
      PROVE  FirstSlot(j) = FirstSlot(i) /\ LastSlot(j) = LastSlot(i)
  <2>1. PICK b : b = j - 1 /\ b \in Nat /\ q * n <= b /\ b < (q + 1) * n
    BY <1>5, <1>6
  <2>2. b \div n = q
    BY <1>1, <1>4, <2>1, Quotient
  <2> QED
    BY <1>1, <1>5, <2>1, <2>2 DEF FirstSlot, LastSlot, ClusterOf
<1>7. ASSUME FirstSlot(i) > 1 PROVE LastSlot(FirstSlot(i) - 1) = FirstSlot(i) - 1
  <2>1. q # 0
    BY <1>1, <1>4, <1>5, <1>7
  <2>2. PICK p : p = q - 1 /\ p \in Nat /\ q = p + 1
    BY <1>4, <2>1
  <2>3. q * n = p * n + n /\ p * n \in Nat /\ (p + 1) * n = q * n
    BY <1>1, <1>4, <2>2, SMTT(30)
  <2>4. PICK b : b = q * n - 1 /\ b \in Nat /\ p * n <= b /\ b < (p + 1) * n
    BY <1>1, <1>5, <2>3
  <2>5. b \div n = p
    BY <1>1, <2>2, <2>4, Quotient
  <2>6. (FirstSlot(i) - 1) - 1 = b
    BY <1>5, <2>4
  <2> QED
    BY <1>1, <1>5, <2>3, <2>5, <2>6 DEF LastSlot, ClusterOf
<1>8. FirstSlot(FirstSlot(i)) = FirstSlot(i)
  <2>1. FirstSlot(i) \in Nat /\ FirstSlot(i) <= LastSlot(i)
    BY RoomIsPositive
  <2> QED
    BY <1>6, <2>1
<1> QED
  BY <1>6, <1>7, <1>8

(* A directory of whole clusters ends where its last cluster does.         *)
LEMMA LastSlotIsThere ==
  ASSUME NEW s, Len(s) \in Nat, IsWhole(s), NEW i \in 1 .. Len(s)
  PROVE  LastSlot(i) <= Len(s)
<1>1. PICK n : n = SlotsPerCluster /\ n \in Nat \ {0}
  BY SlotsAssumption
<1>2. PICK c \in Nat : Len(s) = c * n
  BY <1>1 DEF IsWhole
<1>3. PICK a : a = i - 1 /\ a \in Nat /\ a < c * n
  BY <1>2
<1>4. PICK q : q = a \div n
  OBVIOUS
<1>5. q \in Nat /\ q * n <= a /\ a < (q + 1) * n
  BY <1>1, <1>3, <1>4, SMTT(30)
<1>6. LastSlot(i) = (q + 1) * n
  BY <1>1, <1>3, <1>4 DEF LastSlot, ClusterOf
<1>7. ASSUME c < q + 1 PROVE FALSE
  <2>1. PICK d : d = q - c /\ d \in Nat
    BY <1>2, <1>5, <1>7
  <2>2. q * n = c * n + d * n /\ d * n \in Nat /\ c * n \in Nat /\ q * n \in Nat
    BY <1>1, <1>2, <1>5, <2>1, SMTT(30)
  <2> QED
    BY <1>3, <1>5, <2>2
<1>8. PICK d : d = c - (q + 1) /\ d \in Nat
  BY <1>2, <1>5, <1>7
<1>9. c * n = (q + 1) * n + d * n /\ d * n \in Nat /\ (q + 1) * n \in Nat /\ c * n \in Nat
  BY <1>1, <1>2, <1>5, <1>8, SMTT(30)
<1> QED
  BY <1>2, <1>6, <1>9

\* Slot j has a fragment of a name, and slot i an entry.
HasFragment(s, j) == j \in DOMAIN s /\ s[j].kind = "lfn"
Takes(s, i) == LfnSlots[s[i].name]

\* Fragment j is one of the entry in slot i.
IsFragmentOf(s, j, i) == IsEntry(s, i) /\ i - Takes(s, i) <= j /\ j < i
HasOwner(s, j) == \E i \in DOMAIN s : IsFragmentOf(s, j, i)

\* An entry has the whole of its name before it.
IsComplete(s, i) ==
  /\ s[i].name \in Names
  /\ \A k \in 1 .. Takes(s, i) : i - k \in DOMAIN s /\ s[i - k] = LFNEntry(s[i].name, k)
AllComplete(s) == \A i \in DOMAIN s : IsEntry(s, i) => IsComplete(s, i)

IsNumbered(e) == e.name \in Names /\ e.sequence_number \in 1 .. LfnSlots[e.name]
AllNumbered(s) == \A j \in DOMAIN s : HasFragment(s, j) => IsNumbered(s[j])

\* Fragments from slot j to slot k, in one cluster.
IsRun(s, j, k) == j <= k /\ k <= LastSlot(j) /\ \A l \in j .. k : HasFragment(s, l)

\* Fragments that follow each other in a cluster are of one name, in order.
RunsAreNames(s) ==
  \A j, k \in DOMAIN s : IsRun(s, j, k) =>
    s[k].name = s[j].name /\ s[j].sequence_number = s[k].sequence_number + (k - j)

\* What belongs to no entry fills the cluster.
IsLeftOver(s, j) == \A k \in j .. LastSlot(j) : HasFragment(s, k) /\ ~HasOwner(s, k)
OrphansFill(s) == \A j \in DOMAIN s : HasFragment(s, j) => HasOwner(s, j) \/ IsLeftOver(s, j)

FragmentsInv(s) ==
  /\ s \in Seq(SlotValues) /\ IsWhole(s)
  /\ AllComplete(s) /\ AllNumbered(s) /\ RunsAreNames(s) /\ OrphansFill(s)

\* Fragment k of the name whose entry comes as number m: still to be written, or written before.
FragmentIsThere(s, at, todo, m, k) ==
  IF k < m THEN todo[m - k] = LFNEntry(todo[m].name, k)
  ELSE at + m - 1 - k \in DOMAIN s /\ s[at + m - 1 - k] = LFNEntry(todo[m].name, k)

TodoComplete(s, at, todo) ==
  \A m \in DOMAIN todo : todo[m].kind = "entry" =>
    todo[m].name \in Names /\ \A k \in 1 .. LfnSlots[todo[m].name] : FragmentIsThere(s, at, todo, m, k)

\* The entry comes after its fragments.
EntryFollows(todo) ==
  \A m \in DOMAIN todo : todo[m].kind = "lfn" =>
    /\ IsNumbered(todo[m])
    /\ m + todo[m].sequence_number \in DOMAIN todo
    /\ todo[m + todo[m].sequence_number].kind = "entry"
    /\ todo[m + todo[m].sequence_number].name = todo[m].name

OrphansInv ==
  /\ FragmentsInv(slots)
  /\ pc = "writing" => TodoComplete(slots, op.at, op.todo) /\ EntryFollows(op.todo)
  /\ pc = "removing" => op.at = op.old \/ (FirstSlot(op.at) = op.at /\ op.at > 1)

(* A fragment of an entry is where its name says, and of no other entry.   *)
LEMMA OwnerFacts ==
  ASSUME NEW s, s \in Seq(SlotValues), AllComplete(s), NEW i, NEW j, j \in Nat, IsFragmentOf(s, j, i)
  PROVE  /\ HasFragment(s, j) /\ s[j] = LFNEntry(s[i].name, i - j) /\ i \in Nat /\ j < i
         /\ s[i].name \in Names /\ i - j \in 1 .. LfnSlots[s[i].name]
         /\ \A l \in j .. (i - 1) : IsFragmentOf(s, l, i) /\ HasFragment(s, l)
<1>1. DOMAIN s = 1 .. Len(s) /\ Len(s) \in Nat /\ i \in Nat /\ i \in DOMAIN s
  BY DEF IsFragmentOf, IsEntry
<1>2. /\ s[i].name \in Names
      /\ \A k \in 1 .. Takes(s, i) : i - k \in DOMAIN s /\ s[i - k] = LFNEntry(s[i].name, k)
  BY <1>1 DEF AllComplete, IsComplete, IsFragmentOf
<1>3. PICK c : c = Takes(s, i) /\ c = LfnSlots[s[i].name] /\ c \in Nat
  BY <1>2, SlotsAssumption DEF Takes
<1>4. ASSUME NEW l \in j .. (i - 1)
      PROVE  /\ IsFragmentOf(s, l, i) /\ HasFragment(s, l) /\ i - l \in 1 .. c
             /\ s[l] = LFNEntry(s[i].name, i - l)
  <2>1. PICK k : k = i - l /\ k \in 1 .. c /\ i - k = l
    BY <1>1, <1>3, <1>4 DEF IsFragmentOf
  <2>2. l \in DOMAIN s /\ s[l] = LFNEntry(s[i].name, k)
    BY <1>2, <1>3, <2>1
  <2>3. s[l].kind = "lfn"
    BY <1>2, <2>1, <2>2, SlotFacts
  <2>4. i - c <= l /\ l < i
    BY <1>1, <1>3, <2>1
  <2> QED
    BY <1>3, <2>1, <2>2, <2>3, <2>4 DEF HasFragment, IsFragmentOf
<1>5. j \in j .. (i - 1) /\ j < i
  BY <1>1 DEF IsFragmentOf
<1> QED
  BY <1>1, <1>2, <1>3, <1>4, <1>5

(* Slot at neither has a fragment nor is behind the end of a name: what    *)
(* owns a fragment before it is not behind it.                             *)
LEMMA OwnerIsNear ==
  ASSUME NEW s, s \in Seq(SlotValues), AllComplete(s), NEW i, NEW j, j \in Nat, IsFragmentOf(s, j, i),
         NEW at, at \in Nat, j <= at, ~HasFragment(s, at)
  PROVE  i <= at
<1>1. /\ i \in Nat /\ j < i /\ \A l \in j .. (i - 1) : HasFragment(s, l)
  BY OwnerFacts
<1> QED
  BY <1>1

(* A fragment has one owner at most.                                       *)
LEMMA OneOwner ==
  ASSUME NEW s, s \in Seq(SlotValues), AllComplete(s), NEW i, NEW h, NEW j, j \in Nat,
         IsFragmentOf(s, j, i), IsFragmentOf(s, j, h)
  PROVE  i = h
<1>1. i \in Nat /\ j < i /\ h \in Nat /\ j < h
  BY OwnerFacts
<1>2. ~HasFragment(s, i) /\ ~HasFragment(s, h)
  BY DEF IsFragmentOf, IsEntry, HasFragment
<1>3. i <= h /\ h <= i
  BY <1>1, <1>2, OwnerIsNear
<1> QED
  BY <1>1, <1>3

\* t is s without the slots of `removed'; at is where the walk is, at = old where it begins.
IsRemoval(s, t, removed, at, old, here) ==
  /\ s \in Seq(SlotValues) /\ at \in 1 .. Len(s) /\ ToRemove(s, at, old)
  /\ here = IF at = old THEN at ELSE at - 1
  /\ at = old \/ FirstSlot(at) = at
  /\ removed = ({at} \cap {old}) \cup
       {j \in FirstSlot(here) .. (at - 1) : /\ \A k \in j .. (at - 1) : HasFragment(s, k)
                                           /\ \A k \in (j + 1) .. (at - 1) :
                                                s[k].sequence_number # LfnSlots[s[k].name]}
  /\ t \in Seq(SlotValues) /\ Len(t) = Len(s)
  /\ \A i \in 1 .. Len(s) : t[i] = IF i \in removed THEN Unused ELSE s[i]

(* Removing takes fragments of the entry that goes, or of none, and of     *)
(* these all that are in the cluster.                                      *)
LEMMA RemovalLeaves ==
  ASSUME NEW s, NEW t, NEW removed, NEW at, NEW old, NEW here,
         IsRemoval(s, t, removed, at, old, here), FragmentsInv(s)
  PROVE  FragmentsInv(t)
<1>1. /\ s \in Seq(SlotValues) /\ Len(s) \in Nat /\ DOMAIN s = 1 .. Len(s) /\ DOMAIN t = 1 .. Len(s)
      /\ at \in 1 .. Len(s) /\ at \in Nat \ {0} /\ t \in Seq(SlotValues) /\ Len(t) = Len(s)
  BY DEF IsRemoval
<1>2. /\ AllComplete(s) /\ AllNumbered(s) /\ RunsAreNames(s) /\ OrphansFill(s) /\ IsWhole(s)
  BY DEF FragmentsInv
<1>3. ~HasFragment(s, at) /\ (at # old => s[at].kind = "unused") /\ (at = old => IsEntry(s, at))
  BY <1>1 DEF IsRemoval, ToRemove, HasFragment, IsEntry
<1>4. ASSUME NEW j \in 1 .. Len(s), j \in removed, HasFragment(s, j)
      PROVE  /\ j < at /\ FirstSlot(here) <= j /\ \A k \in j .. (at - 1) : HasFragment(s, k)
             /\ \A k \in (j + 1) .. (at - 1) : s[k].sequence_number # LfnSlots[s[k].name]
  <2>1. j # at
    BY <1>3, <1>4
  <2> QED
    BY <1>1, <1>4, <2>1 DEF IsRemoval
<1>5. ASSUME NEW i \in 1 .. Len(s) PROVE /\ IsEntry(t, i) => IsEntry(s, i) /\ t[i] = s[i] /\ i \notin removed
                                         /\ HasFragment(t, i) => HasFragment(s, i) /\ t[i] = s[i] /\ i \notin removed
  <2>1. t[i] = IF i \in removed THEN Unused ELSE s[i]
    BY <1>5 DEF IsRemoval
  <2> QED
    BY <1>1, <2>1, SlotFacts DEF IsEntry, HasFragment
<1>6. ASSUME NEW j \in 1 .. Len(s), NEW i \in 1 .. Len(s), j \in removed, IsFragmentOf(s, j, i)
      PROVE  i = at /\ at = old
  <2>1. HasFragment(s, j) /\ j < i
    BY <1>1, <1>2, <1>6, OwnerFacts
  <2>2. j < at /\ \A k \in j .. (at - 1) : HasFragment(s, k)
    BY <1>4, <1>6, <2>1
  <2>3. i <= at
    BY <1>1, <1>2, <1>3, <1>6, <2>2, OwnerIsNear
  <2>4. ~HasFragment(s, i) /\ s[i].kind = "entry"
    BY <1>6 DEF IsFragmentOf, IsEntry, HasFragment
  <2>5. i = at
    BY <1>1, <2>1, <2>2, <2>3, <2>4
  <2> QED
    BY <1>3, <2>4, <2>5
<1>7. ASSUME NEW i \in 1 .. Len(s), IsEntry(t, i) PROVE IsComplete(t, i)
  <2>1. IsEntry(s, i) /\ t[i] = s[i] /\ i \notin removed /\ IsComplete(s, i)
    BY <1>1, <1>2, <1>5, <1>7 DEF AllComplete
  <2>2. s[i].name \in Names
    BY <2>1 DEF IsComplete
  <2>3. PICK c : c = Takes(s, i) /\ c = Takes(t, i) /\ c \in Nat
    BY <2>1, <2>2, SlotsAssumption DEF Takes
  <2>4. ASSUME NEW k \in 1 .. c PROVE i - k \in DOMAIN t /\ t[i - k] = LFNEntry(t[i].name, k)
    <3>1. i - k \in DOMAIN s /\ s[i - k] = LFNEntry(s[i].name, k)
      BY <2>1, <2>3, <2>4 DEF IsComplete
    <3>2. PICK j : j = i - k /\ j \in 1 .. Len(s)
      BY <1>1, <3>1
    <3>3. IsFragmentOf(s, j, i)
      BY <1>1, <2>1, <2>3, <2>4, <3>2 DEF IsFragmentOf
    <3>4. j \notin removed
      <4> SUFFICES ASSUME j \in removed PROVE FALSE
        OBVIOUS
      <4>1. i = at /\ at = old
        BY <1>6, <3>2, <3>3
      <4>2. at \in removed
        BY <4>1 DEF IsRemoval
      <4> QED
        BY <2>1, <4>1, <4>2
    <3>5. t[j] = s[j]
      BY <3>2, <3>4 DEF IsRemoval
    <3> QED
      BY <1>1, <2>1, <3>1, <3>2, <3>5
  <2> QED
    BY <2>1, <2>2, <2>3, <2>4 DEF IsComplete
<1>8. AllComplete(t)
  BY <1>1, <1>7 DEF AllComplete
<1>9. AllNumbered(t)
  BY <1>1, <1>2, <1>5 DEF AllNumbered
<1>10. RunsAreNames(t)
  <2> SUFFICES ASSUME NEW j \in 1 .. Len(s), NEW k \in 1 .. Len(s), IsRun(t, j, k)
               PROVE  t[k].name = t[j].name /\ t[j].sequence_number = t[k].sequence_number + (k - j)
    BY <1>1 DEF RunsAreNames
  <2>1. j <= k /\ k <= LastSlot(j) /\ \A l \in j .. k : HasFragment(t, l)
    BY DEF IsRun
  <2>2. \A l \in j .. k : HasFragment(s, l) /\ t[l] = s[l]
    BY <1>1, <1>5, <2>1
  <2>3. IsRun(s, j, k)
    BY <2>1, <2>2 DEF IsRun
  <2>4. t[j] = s[j] /\ t[k] = s[k]
    BY <2>1, <2>2
  <2> QED
    BY <1>1, <1>2, <2>3, <2>4 DEF RunsAreNames
<1>11. ASSUME NEW k \in 1 .. Len(s), NEW i \in 1 .. Len(s), IsFragmentOf(t, k, i)
       PROVE  IsFragmentOf(s, k, i) /\ i \notin removed
  <2>1. IsEntry(t, i) /\ IsEntry(s, i) /\ t[i] = s[i] /\ i \notin removed
    BY <1>5, <1>11 DEF IsFragmentOf
  <2> QED
    BY <1>11, <2>1 DEF IsFragmentOf, Takes
<1>12. ASSUME NEW j \in 1 .. Len(s), HasFragment(t, j), ~HasOwner(t, j)
       PROVE  IsLeftOver(t, j)
  <2>1. HasFragment(s, j) /\ j \notin removed /\ j \in Nat \ {0}
    BY <1>5, <1>12
  <2> SUFFICES ASSUME NEW k \in j .. LastSlot(j) PROVE HasFragment(t, k) /\ ~HasOwner(t, k)
    BY DEF IsLeftOver
  <2>2. LastSlot(j) \in Nat /\ j <= LastSlot(j) /\ LastSlot(j) <= Len(s) /\ k \in 1 .. Len(s)
    BY <1>1, <1>2, <2>1, RoomIsPositive, LastSlotIsThere
  <2>3. FirstSlot(j) \in Nat \ {0} /\ FirstSlot(j) <= j /\ FirstSlot(k) = FirstSlot(j) /\ LastSlot(k) = LastSlot(j)
    <3>1. FirstSlot(j) \in Nat \ {0} /\ FirstSlot(j) <= j
      BY <2>1, RoomIsPositive
    <3>2. FirstSlot(j) <= k /\ k <= LastSlot(j) /\ k \in Nat
      BY <2>1, <2>2, <3>1
    <3> QED
      BY <2>1, <3>1, <3>2, ClusterFacts
  <2>4. CASE HasOwner(s, j)
    <3>1. PICK i \in 1 .. Len(s) : IsFragmentOf(s, j, i)
      BY <1>1, <2>4 DEF HasOwner
    <3>2. i = at /\ at = old
      <4> SUFFICES ASSUME ~(i = at /\ at = old) PROVE FALSE
        OBVIOUS
      <4>1. i \notin removed
        <5>1. s[i].kind = "entry"
          BY <3>1 DEF IsFragmentOf, IsEntry
        <5>2. i \in {at} \cap {old} \/ HasFragment(s, i)
          => i \in {at} \cap {old}
          BY <5>1 DEF HasFragment
        <5>3. ASSUME i \in removed PROVE i \in {at} \cap {old} \/ HasFragment(s, i)
          <6>1. i \in {at} \cap {old} \/ (i \in FirstSlot(here) .. (at - 1) /\ \A l \in i .. (at - 1) : HasFragment(s, l))
            BY <5>3 DEF IsRemoval
          <6>2. i <= at - 1 => i \in i .. (at - 1)
            BY <1>1
          <6> QED
            BY <1>1, <6>1, <6>2
        <5> QED
          BY <5>2, <5>3
      <4>2. t[i] = s[i]
        BY <4>1 DEF IsRemoval
      <4>3. IsFragmentOf(t, j, i)
        BY <1>1, <3>1, <4>2 DEF IsFragmentOf, IsEntry, Takes
      <4> QED
        BY <1>1, <1>12, <4>3 DEF HasOwner
    <3>3. /\ j < at /\ \A l \in j .. (at - 1) : IsFragmentOf(s, l, at) /\ HasFragment(s, l)
          /\ \A l \in j .. (at - 1) : s[l] = LFNEntry(s[at].name, at - l)
      <4>1. j < at /\ \A l \in j .. (at - 1) : IsFragmentOf(s, l, at) /\ HasFragment(s, l)
        BY <1>1, <1>2, <2>1, <3>1, <3>2, OwnerFacts
      <4>2. ASSUME NEW l \in j .. (at - 1) PROVE s[l] = LFNEntry(s[at].name, at - l)
        <5>1. l \in Nat /\ IsFragmentOf(s, l, at)
          BY <2>1, <4>1, <4>2
        <5> QED
          BY <1>1, <1>2, <5>1, OwnerFacts
      <4> QED
        BY <4>1, <4>2
    <3>4. here = at
      BY <3>2 DEF IsRemoval
    <3>5. \A l \in (j + 1) .. (at - 1) : s[l].sequence_number # LfnSlots[s[l].name]
      <4> SUFFICES ASSUME NEW l \in (j + 1) .. (at - 1) PROVE s[l].sequence_number # LfnSlots[s[l].name]
        OBVIOUS
      <4>1. l \in j .. (at - 1) /\ at - l < at - j /\ at - l \in Nat /\ at - j \in Nat
        <5>1. j \in Nat /\ at \in Nat /\ j < at /\ l \in (j + 1) .. (at - 1)
          BY <1>1, <2>1, <3>3
        <5>2. l \in Int /\ j + 1 <= l /\ l <= at - 1
          BY <5>1
        <5> QED
          BY <5>1, <5>2
      <4>2. s[l].sequence_number = at - l /\ s[l].name = s[at].name
        <5>1. s[l] = LFNEntry(s[at].name, at - l)
          BY <3>3, <4>1
        <5>2. PICK e, d, m : e = s[l] /\ d = at - l /\ m = s[at].name /\ e = LFNEntry(m, d)
          BY <5>1
        <5>3. e.sequence_number = d /\ e.name = m
          BY <5>2 DEF LFNEntry, Slot
        <5> QED
          BY <5>2, <5>3
      <4>3. at - j \in 1 .. LfnSlots[s[at].name]
        BY <1>1, <1>2, <2>1, <3>1, <3>2, OwnerFacts
      <4> QED
        BY <1>1, <2>1, <4>1, <4>2, <4>3
    <3>6. j < FirstSlot(at)
      <4>1. ASSUME FirstSlot(at) <= j PROVE j \in removed
        <5>1. FirstSlot(at) \in Nat
          BY <1>1, RoomIsPositive
        <5>2. j \in FirstSlot(here) .. (at - 1)
          BY <1>1, <2>1, <3>3, <3>4, <4>1, <5>1
        <5> QED
          BY <3>3, <3>5, <5>2 DEF IsRemoval
      <4>2. FirstSlot(at) \in Nat
        BY <1>1, RoomIsPositive
      <4> QED
        BY <2>1, <4>1, <4>2
    <3>7. LastSlot(j) < FirstSlot(at) /\ FirstSlot(at) <= at /\ FirstSlot(at) \in Nat
      <4>1. FirstSlot(at) \in Nat /\ FirstSlot(at) <= at
        BY <1>1, RoomIsPositive
      <4>2. ASSUME FirstSlot(at) <= LastSlot(j) PROVE FALSE
        <5>1. PICK f : f = FirstSlot(at) /\ f \in Nat /\ FirstSlot(j) <= f /\ f <= LastSlot(j)
          BY <2>1, <2>3, <3>6, <4>1, <4>2
        <5>2. FirstSlot(f) = FirstSlot(j)
          BY <2>1, <5>1, ClusterFacts
        <5>3. FirstSlot(f) = f
          BY <1>1, <5>1, ClusterFacts
        <5> QED
          BY <2>1, <2>3, <3>6, <5>1, <5>2, <5>3
      <4> QED
        BY <2>2, <4>1, <4>2
    <3>8. k \in j .. (at - 1) /\ k < FirstSlot(at)
      BY <1>1, <2>1, <2>2, <3>7
    <3>9. HasFragment(s, k) /\ IsFragmentOf(s, k, at)
      BY <3>3, <3>8
    <3>10. k \notin removed
      BY <1>1, <1>4, <2>2, <3>4, <3>7, <3>8, <3>9
    <3>11. HasFragment(t, k)
      BY <1>1, <2>2, <3>9, <3>10 DEF HasFragment, IsRemoval
    <3>12. ASSUME HasOwner(t, k) PROVE FALSE
      <4>1. PICK h \in 1 .. Len(s) : IsFragmentOf(t, k, h)
        BY <1>1, <3>12 DEF HasOwner
      <4>2. IsFragmentOf(s, k, h) /\ h \notin removed
        BY <1>11, <2>2, <4>1
      <4>3. h = at
        BY <1>1, <1>2, <2>2, <3>9, <4>2, OneOwner
      <4>4. at \in removed
        BY <3>2 DEF IsRemoval
      <4> QED
        BY <4>2, <4>3, <4>4
    <3> QED
      BY <3>11, <3>12
  <2>5. CASE ~HasOwner(s, j)
    <3>1. \A l \in j .. LastSlot(j) : HasFragment(s, l) /\ ~HasOwner(s, l)
      BY <1>1, <1>2, <2>1, <2>5 DEF OrphansFill, IsLeftOver
    <3>2. HasFragment(s, k) /\ ~HasOwner(s, k)
      BY <3>1
    <3>3. ASSUME k \in removed PROVE FALSE
      <4>1. /\ k < at /\ FirstSlot(here) <= k /\ \A l \in k .. (at - 1) : HasFragment(s, l)
            /\ \A l \in (k + 1) .. (at - 1) : s[l].sequence_number # LfnSlots[s[l].name]
        BY <1>4, <2>2, <3>2, <3>3
      <4>2. here \in Nat \ {0} /\ k <= here /\ here <= at
        BY <1>1, <2>2, <4>1 DEF IsRemoval
      <4>3. here <= LastSlot(here)
        BY <4>2, RoomIsPositive
      <4>4. LastSlot(here) = LastSlot(j) /\ FirstSlot(here) = FirstSlot(j)
        <5>1. FirstSlot(here) <= k /\ k <= LastSlot(here) /\ k \in Nat /\ LastSlot(here) \in Nat
          BY <2>2, <4>1, <4>2, <4>3, RoomIsPositive
        <5>2. FirstSlot(k) = FirstSlot(here) /\ LastSlot(k) = LastSlot(here)
          BY <4>2, <5>1, ClusterFacts
        <5> QED
          BY <2>3, <5>2
      <4>5. here \in j .. LastSlot(j)
        BY <2>1, <2>2, <4>2, <4>3, <4>4
      <4>6. at # old /\ here = at - 1 /\ FirstSlot(at) = at
        <5>1. HasFragment(s, here)
          BY <3>1, <4>5
        <5> QED
          BY <1>3, <5>1 DEF IsRemoval
      <4>7. at > 1 /\ LastSlot(here) = here
        <5>1. at > 1
          BY <1>1, <2>2, <4>1
        <5> QED
          BY <1>1, <4>6, <5>1, ClusterFacts
      <4>8. LastSlot(j) = at - 1 /\ j <= k
        BY <2>2, <4>4, <4>6, <4>7
      <4>9. \A l \in j .. (at - 1) : HasFragment(s, l)
        BY <3>1, <4>8
      <4>10. j \in FirstSlot(here) .. (at - 1)
        BY <1>1, <2>1, <2>2, <2>3, <4>4, <4>8
      <4>11. PICK f \in (j + 1) .. (at - 1) : s[f].sequence_number = LfnSlots[s[f].name]
        BY <2>1, <4>9, <4>10 DEF IsRemoval
      <4>12. f \in 1 .. Len(s) /\ j <= f /\ f <= LastSlot(j) /\ j < f
        BY <1>1, <2>1, <4>8, <4>11
      <4>13. IsRun(s, j, f)
        BY <1>1, <2>1, <4>8, <4>9, <4>12 DEF IsRun
      <4>14. s[f].name = s[j].name /\ s[j].sequence_number = s[f].sequence_number + (f - j)
        BY <1>1, <1>2, <4>12, <4>13 DEF RunsAreNames
      <4>15. /\ s[j].name \in Names /\ s[j].sequence_number \in 1 .. LfnSlots[s[j].name]
             /\ LfnSlots[s[j].name] \in Nat
        BY <1>1, <1>2, <2>1, SlotsAssumption DEF AllNumbered, IsNumbered
      <4> QED
        BY <2>1, <4>11, <4>12, <4>14, <4>15, SMTT(60)
    <3>4. HasFragment(t, k)
      BY <1>1, <2>2, <3>2, <3>3 DEF HasFragment, IsRemoval
    <3>5. ~HasOwner(t, k)
      BY <1>1, <1>11, <2>2, <3>2 DEF HasOwner
    <3> QED
      BY <3>4, <3>5
  <2> QED
    BY <2>4, <2>5
<1>13. OrphansFill(t)
  BY <1>1, <1>12 DEF OrphansFill
<1>14. IsWhole(t)
  BY <1>1, <1>2 DEF IsWhole
<1> QED
  BY <1>1, <1>8, <1>9, <1>10, <1>13, <1>14 DEF FragmentsInv

\* The first n slots to be written, which do not leave the cluster, go to free slots.
IsWriting(s, t, todo, rest, at, n) ==
  /\ s \in Seq(SlotValues) /\ t \in Seq(SlotValues) /\ Len(t) = Len(s) /\ at \in 1 .. Len(s)
  /\ todo \in Seq(SlotValues) /\ n \in 0 .. Len(todo) /\ (Len(todo) # 0 => n # 0)
  /\ at + n - 1 <= LastSlot(at) /\ (n < Len(todo) => at + n - 1 = LastSlot(at))
  /\ \A i \in 1 .. Len(s) : t[i] = IF at <= i /\ i < at + n THEN todo[i - at + 1] ELSE s[i]
  /\ \A i \in 1 .. Len(s) : at <= i /\ i < at + Len(todo) => s[i].kind \in FreeKinds
  /\ rest \in Seq(SlotValues) /\ DOMAIN rest = 1 .. (Len(todo) - n)
  /\ \A m \in 1 .. (Len(todo) - n) : rest[m] = todo[n + m]

\* Fragments from number m to number h are to be written, and are those of entry number e.
IsTodoRun(todo, m, h) ==
  m \in 1 .. Len(todo) /\ h \in 1 .. Len(todo) /\ m <= h /\ \A l \in m .. h : todo[l].kind = "lfn"
IsNameOf(todo, e, h) ==
  /\ e \in 1 .. Len(todo) /\ h < e /\ todo[e].kind = "entry"
  /\ todo[h].name = todo[e].name /\ todo[h].sequence_number = e - h

(* Fragments to be written are those of the entry after them, in order.    *)
LEMMA TodoRun ==
  ASSUME NEW s, NEW at, NEW todo, todo \in Seq(SlotValues), TodoComplete(s, at, todo), EntryFollows(todo),
         NEW m, NEW h, IsTodoRun(todo, m, h), NEW e, e = m + todo[m].sequence_number
  PROVE  IsNameOf(todo, e, h)
<1> USE DEF IsTodoRun
<1>1. Len(todo) \in Nat /\ DOMAIN todo = 1 .. Len(todo) /\ m \in Nat /\ h \in Nat
  OBVIOUS
<1>2. m \in m .. h
  BY <1>1
<1>3. /\ IsNumbered(todo[m]) /\ e \in 1 .. Len(todo) /\ todo[e].kind = "entry"
      /\ todo[e].name = todo[m].name
  BY <1>1, <1>2 DEF EntryFollows
<1>4. PICK c : c = LfnSlots[todo[m].name] /\ c \in Nat /\ todo[m].sequence_number \in 1 .. c
  BY <1>3, SlotsAssumption DEF IsNumbered
<1>5. h < e
  <2> SUFFICES ASSUME e <= h PROVE FALSE
    BY <1>1, <1>3
  <2>1. e \in m .. h
    BY <1>1, <1>3, <1>4
  <2> QED
    BY <1>3, <2>1
<1>6. PICK k : k = e - h /\ k \in 1 .. c /\ k < e /\ e - k = h
  <2>1. PICK d : d = todo[m].sequence_number /\ d \in 1 .. c /\ e = m + d
    BY <1>4
  <2>2. h \in Nat /\ m <= h /\ h >= 1 /\ m \in Nat /\ e \in Nat
    BY <1>1, <1>3
  <2>3. c \in Nat /\ d \in Nat /\ 1 <= d /\ d <= c /\ e = m + d
    BY <1>4, <2>1
  <2>4. e - h \in Int /\ 1 <= e - h /\ e - h <= c
    BY <1>5, <2>2, <2>3
  <2>5. e - h \in 1 .. c /\ e - h < e /\ e - (e - h) = h
    BY <2>2, <2>3, <2>4
  <2> QED
    BY <2>5
<1>7. FragmentIsThere(s, at, todo, e, k)
  <2>1. k \in 1 .. LfnSlots[todo[e].name]
    BY <1>3, <1>4, <1>6
  <2> QED
    BY <1>1, <1>3, <2>1 DEF TodoComplete
<1>8. todo[h] = LFNEntry(todo[e].name, k)
  BY <1>6, <1>7 DEF FragmentIsThere
<1>9. PICK f, name : f = todo[h] /\ name = todo[e].name /\ f = LFNEntry(name, k)
  BY <1>8
<1>10. f.name = name /\ f.sequence_number = k
  BY <1>9 DEF LFNEntry, Slot
<1> QED
  BY <1>3, <1>5, <1>6, <1>9, <1>10 DEF IsNameOf

(* What is written goes on from the fragments written before, at the       *)
(* beginning of the next cluster.                                          *)
LEMMA WritingCompletes ==
  ASSUME NEW s, NEW t, NEW todo, NEW rest, NEW at, NEW n, IsWriting(s, t, todo, rest, at, n),
         TodoComplete(s, at, todo), EntryFollows(todo), IsWhole(s)
  PROVE  TodoComplete(t, at + n, rest) /\ EntryFollows(rest)
<1>1. /\ Len(s) \in Nat /\ DOMAIN s = 1 .. Len(s) /\ DOMAIN t = 1 .. Len(s) /\ at \in 1 .. Len(s)
      /\ at \in Nat \ {0} /\ n \in Nat /\ Len(todo) \in Nat /\ DOMAIN todo = 1 .. Len(todo) /\ n <= Len(todo)
  BY DEF IsWriting
<1>2. ASSUME NEW k \in DOMAIN rest
      PROVE  /\ rest[k] = todo[n + k] /\ n + k \in 1 .. Len(todo) /\ k \in 1 .. (Len(todo) - n)
             /\ k \in Nat \ {0}
  <2>1. k \in 1 .. (Len(todo) - n)
    BY <1>2 DEF IsWriting
  <2>2. rest[k] = todo[n + k]
    BY <2>1 DEF IsWriting
  <2> QED
    BY <1>1, <2>1, <2>2
<1>3. ASSUME NEW m \in DOMAIN rest, rest[m].kind = "entry"
      PROVE  /\ rest[m].name \in Names
             /\ \A k \in 1 .. LfnSlots[rest[m].name] : FragmentIsThere(t, at + n, rest, m, k)
  <2>1. PICK e : e = n + m /\ rest[m] = todo[e] /\ e \in 1 .. Len(todo) /\ m \in Nat \ {0}
                 /\ m \in 1 .. (Len(todo) - n)
    BY <1>2
  <2>2. /\ todo[e].name \in Names
        /\ \A k \in 1 .. LfnSlots[todo[e].name] : FragmentIsThere(s, at, todo, e, k)
    BY <1>1, <1>3, <2>1 DEF TodoComplete
  <2>3. PICK c : c = LfnSlots[todo[e].name] /\ c \in Nat
    BY <2>2, SlotsAssumption
  <2>4. ASSUME NEW k \in 1 .. c PROVE FragmentIsThere(t, at + n, rest, m, k)
    <3>1. FragmentIsThere(s, at, todo, e, k) /\ k \in Nat /\ k > 0
      BY <2>2, <2>3, <2>4
    <3>2. CASE k < m
      <4>1. m - k \in 1 .. (Len(todo) - n) /\ n + (m - k) = e - k /\ k < e
        BY <1>1, <2>1, <3>1, <3>2
      <4>2. rest[m - k] = todo[n + (m - k)]
        BY <4>1 DEF IsWriting
      <4>3. todo[e - k] = LFNEntry(todo[e].name, k)
        BY <3>1, <4>1 DEF FragmentIsThere
      <4> QED
        BY <2>1, <3>2, <4>1, <4>2, <4>3 DEF FragmentIsThere
    <3>3. CASE ~(k < m)
      <4>1. PICK i : i = (at + n) + m - 1 - k /\ i = at + e - 1 - k /\ i < at + n
        BY <1>1, <2>1, <3>1, <3>3
      <4>2. i \in DOMAIN t /\ t[i] = LFNEntry(todo[e].name, k)
        <5>1. CASE k < e
          <6>1. todo[e - k] = LFNEntry(todo[e].name, k)
            BY <3>1, <5>1 DEF FragmentIsThere
          <6>2. at <= i /\ i - at + 1 = e - k
            <7>1. at \in Nat /\ e \in Nat /\ k \in Nat /\ k < e /\ i = at + e - 1 - k
              BY <1>1, <2>1, <3>1, <4>1, <5>1
            <7> QED
              BY <7>1
          <6>3. n < Len(todo)
            BY <1>1, <2>1
          <6>4. i \in 1 .. Len(s)
            <7>1. at + n - 1 = LastSlot(at)
              BY <6>3 DEF IsWriting
            <7>2. at + e - 1 - k \in Int
              BY <1>1, <2>1, <3>1
            <7>3. LastSlot(at) <= Len(s)
              BY <1>1, LastSlotIsThere
            <7> QED
              BY <1>1, <4>1, <6>2, <7>1, <7>2, <7>3
          <6>5. t[i] = todo[i - at + 1]
            BY <4>1, <6>2, <6>4 DEF IsWriting
          <6> QED
            BY <1>1, <6>1, <6>2, <6>4, <6>5
        <5>2. CASE ~(k < e)
          <6>1. i \in DOMAIN s /\ s[i] = LFNEntry(todo[e].name, k)
            BY <3>1, <4>1, <5>2 DEF FragmentIsThere
          <6>2. i < at
            BY <1>1, <2>1, <3>1, <4>1, <5>2, SMTT(60)
          <6>3. t[i] = s[i]
            <7>1. i \in 1 .. Len(s) /\ ~(at <= i)
              BY <1>1, <6>1, <6>2
            <7> QED
              BY <7>1 DEF IsWriting
          <6> QED
            BY <1>1, <6>1, <6>3
        <5> QED
          BY <5>1, <5>2
      <4> QED
        BY <2>1, <3>3, <4>1, <4>2 DEF FragmentIsThere
    <3> QED
      BY <3>2, <3>3
  <2> QED
    BY <2>1, <2>2, <2>3, <2>4
<1>4. ASSUME NEW m \in DOMAIN rest, rest[m].kind = "lfn"
      PROVE  /\ IsNumbered(rest[m])
             /\ m + rest[m].sequence_number \in DOMAIN rest
             /\ rest[m + rest[m].sequence_number].kind = "entry"
             /\ rest[m + rest[m].sequence_number].name = rest[m].name
  <2>1. /\ rest[m] = todo[n + m] /\ n + m \in 1 .. Len(todo) /\ m \in Nat \ {0}
    BY <1>2
  <2>2. PICK d : d = rest[m].sequence_number /\ d = todo[n + m].sequence_number
    BY <2>1
  <2>3. /\ IsNumbered(todo[n + m]) /\ (n + m) + d \in 1 .. Len(todo)
        /\ todo[(n + m) + d].kind = "entry" /\ todo[(n + m) + d].name = todo[n + m].name
    BY <1>1, <1>4, <2>1, <2>2 DEF EntryFollows
  <2>4. d \in Nat
    BY <2>2, <2>3, SlotsAssumption DEF IsNumbered
  <2>5. (n + m) + d = n + (m + d) /\ m + d \in 1 .. (Len(todo) - n)
    BY <1>1, <2>1, <2>3, <2>4
  <2>6. m + d \in DOMAIN rest /\ rest[m + d] = todo[n + (m + d)]
    BY <2>5 DEF IsWriting
  <2> QED
    BY <2>1, <2>2, <2>3, <2>5, <2>6
<1> QED
  BY <1>3, <1>4 DEF TodoComplete, EntryFollows

(* A cluster begins right behind fragments, and ends with them.            *)
LEMMA WritingIsApart ==
  ASSUME NEW s, NEW t, NEW todo, NEW rest, NEW at, NEW n, IsWriting(s, t, todo, rest, at, n),
         FragmentsInv(s), EntryFollows(todo), n # 0
  PROVE  /\ HasFragment(s, at - 1) => LastSlot(at - 1) = at - 1
         /\ HasFragment(t, at + n - 1) => LastSlot(at) = at + n - 1
<1>1. /\ Len(s) \in Nat /\ DOMAIN s = 1 .. Len(s) /\ DOMAIN t = 1 .. Len(s) /\ at \in 1 .. Len(s)
      /\ at \in Nat \ {0} /\ n \in Nat /\ Len(todo) \in Nat /\ DOMAIN todo = 1 .. Len(todo) /\ n <= Len(todo)
      /\ s \in Seq(SlotValues)
  BY DEF IsWriting
<1>2. AllComplete(s) /\ OrphansFill(s) /\ s[at].kind \in FreeKinds
  <2>1. at < at + Len(todo)
    BY <1>1
  <2> QED
    BY <1>1, <2>1 DEF FragmentsInv, IsWriting
<1>3. ~HasFragment(s, at) /\ ~IsEntry(s, at)
  BY <1>2 DEF HasFragment, IsEntry, FreeKinds
<1>4. ASSUME HasFragment(s, at - 1) PROVE LastSlot(at - 1) = at - 1
  <2>1. PICK j : j = at - 1 /\ j \in Nat \ {0} /\ j \in DOMAIN s /\ j < at /\ HasFragment(s, j)
    BY <1>1, <1>4 DEF HasFragment
  <2>2. ~HasOwner(s, j)
    <3> SUFFICES ASSUME NEW i \in DOMAIN s, IsFragmentOf(s, j, i) PROVE FALSE
      BY DEF HasOwner
    <3>1. i <= at
      BY <1>1, <1>2, <1>3, <2>1, OwnerIsNear
    <3>2. j < i /\ IsEntry(s, i)
      BY DEF IsFragmentOf
    <3>3. i = at
      BY <1>1, <2>1, <3>1, <3>2
    <3> QED
      BY <1>3, <3>2, <3>3
  <2>3. IsLeftOver(s, j)
    BY <1>2, <2>1, <2>2 DEF OrphansFill
  <2>4. LastSlot(j) \in Nat /\ j <= LastSlot(j)
    BY <2>1, RoomIsPositive
  <2>5. ASSUME at <= LastSlot(j) PROVE FALSE
    <3>1. at \in j .. LastSlot(j)
      BY <1>1, <2>1, <2>4, <2>5
    <3> QED
      BY <1>3, <2>3, <3>1 DEF IsLeftOver
  <2>6. LastSlot(j) = j
    BY <1>1, <2>1, <2>4, <2>5
  <2> QED
    BY <2>1, <2>6
<1>5. ASSUME HasFragment(t, at + n - 1) PROVE LastSlot(at) = at + n - 1
  <2>1. n # Len(todo)
    <3> SUFFICES ASSUME n = Len(todo) PROVE FALSE
      OBVIOUS
    <3>1. PICK i : i = at + n - 1 /\ i \in 1 .. Len(s) /\ t[i].kind = "lfn" /\ at <= i /\ i < at + n /\ i - at + 1 = n
      BY <1>1, <1>5 DEF HasFragment
    <3>2. t[i] = todo[n]
      BY <3>1 DEF IsWriting
    <3>3. n \in DOMAIN todo /\ todo[n].kind = "lfn"
      BY <1>1, <3>1, <3>2
    <3>4. IsNumbered(todo[n]) /\ n + todo[n].sequence_number \in 1 .. Len(todo)
      BY <1>1, <3>3 DEF EntryFollows
    <3>5. PICK d : d = todo[n].sequence_number /\ d \in Nat /\ d >= 1 /\ n + d <= Len(todo)
      BY <1>1, <3>4, SlotsAssumption DEF IsNumbered
    <3> QED
      BY <1>1, <3>5
  <2>2. n < Len(todo)
    <3>1. n \in Nat /\ Len(todo) \in Nat /\ n <= Len(todo)
      BY <1>1
    <3> QED
      BY <2>1, <3>1
  <2>3. at + n - 1 = LastSlot(at)
    BY <2>2 DEF IsWriting
  <2> QED
    BY <2>3
<1> QED
  BY <1>4, <1>5

(* One device write keeps names together.                                  *)
LEMMA WritingKeepsRuns ==
  ASSUME NEW s, NEW t, NEW todo, NEW rest, NEW at, NEW n, IsWriting(s, t, todo, rest, at, n),
         FragmentsInv(s), TodoComplete(s, at, todo), EntryFollows(todo)
  PROVE  RunsAreNames(t)
<1>1. /\ Len(s) \in Nat /\ DOMAIN s = 1 .. Len(s) /\ DOMAIN t = 1 .. Len(s) /\ at \in 1 .. Len(s)
      /\ at \in Nat \ {0} /\ n \in Nat /\ Len(todo) \in Nat /\ DOMAIN todo = 1 .. Len(todo) /\ n <= Len(todo)
      /\ todo \in Seq(SlotValues) /\ at + n - 1 <= LastSlot(at)
  BY DEF IsWriting
<1> SUFFICES ASSUME NEW j \in 1 .. Len(s), NEW k \in 1 .. Len(s), IsRun(t, j, k)
             PROVE  t[k].name = t[j].name /\ t[j].sequence_number = t[k].sequence_number + (k - j)
  BY <1>1 DEF RunsAreNames
<1>2. j <= k /\ k <= LastSlot(j) /\ (\A l \in j .. k : HasFragment(t, l)) /\ j \in Nat \ {0} /\ k \in Nat \ {0}
  BY DEF IsRun
<1>3. LastSlot(j) \in Nat /\ LastSlot(at) \in Nat /\ FirstSlot(j) \in Nat /\ FirstSlot(j) <= j
      /\ FirstSlot(at) \in Nat /\ FirstSlot(at) <= at
  BY <1>1, <1>2, RoomIsPositive
<1>4. CASE at <= j /\ k < at + n
  <2>1. PICK m, h : m = j - at + 1 /\ h = k - at + 1 /\ m \in 1 .. Len(todo) /\ h \in 1 .. Len(todo) /\ m <= h
                    /\ h - m = k - j
    BY <1>1, <1>2, <1>4
  <2>2. ASSUME NEW l \in m .. h PROVE todo[l].kind = "lfn"
    <3>1. PICK i : i = at + l - 1 /\ i \in j .. k /\ i \in 1 .. Len(s) /\ at <= i /\ i < at + n /\ i - at + 1 = l
      BY <1>1, <1>2, <1>4, <2>1
    <3>2. t[i] = todo[l]
      BY <3>1 DEF IsWriting
    <3> QED
      BY <1>2, <3>1, <3>2 DEF HasFragment
  <2>3. t[j] = todo[m] /\ t[k] = todo[h]
    <3>1. at <= j /\ j < at + n /\ at <= k /\ k < at + n
      BY <1>1, <1>2, <1>4
    <3> QED
      BY <2>1, <3>1 DEF IsWriting
  <2>4. PICK e : e = m + todo[m].sequence_number
    OBVIOUS
  <2>5. IsNameOf(todo, e, h)
    <3>1. IsTodoRun(todo, m, h)
      BY <2>1, <2>2 DEF IsTodoRun
    <3> QED
      BY <1>1, <2>4, <3>1, TodoRun
  <2>6. IsNameOf(todo, e, m)
    <3>1. m \in m .. h /\ m <= m
      BY <2>1
    <3>2. IsTodoRun(todo, m, m)
      BY <2>1, <2>2, <3>1 DEF IsTodoRun
    <3> QED
      BY <1>1, <2>4, <3>2, TodoRun
  <2>7. e - m = (e - h) + (k - j)
    <3>1. e \in Int /\ m \in Int /\ h \in Int /\ k - j = h - m
      BY <1>1, <1>2, <2>1, <2>5 DEF IsNameOf
    <3> QED
      BY <3>1
  <2> QED
    BY <2>3, <2>5, <2>6, <2>7 DEF IsNameOf
<1>5. ASSUME at <= j, j < at + n, at + n <= k PROVE FALSE
  <2>1. PICK i : i = at + n - 1 /\ i \in j .. k /\ n # 0
    BY <1>1, <1>2, <1>5
  <2>2. LastSlot(at) = i
    BY <1>2, <2>1, WritingIsApart
  <2>3. FirstSlot(at) <= j /\ j <= LastSlot(at)
    BY <1>1, <1>2, <1>3, <1>5, <2>1, <2>2
  <2>4. LastSlot(j) = LastSlot(at)
    BY <1>1, <1>2, <2>3, ClusterFacts
  <2> QED
    BY <1>1, <1>2, <1>5, <2>1, <2>2, <2>4
<1>6. ASSUME j < at, at <= k, n # 0 PROVE FALSE
  <2>1. PICK i : i = at - 1 /\ i \in j .. k /\ i \in 1 .. Len(s) /\ i < at /\ i \in Nat
    BY <1>1, <1>2, <1>6
  <2>2. t[i] = s[i]
    <3>1. ~(at <= i) /\ i \in 1 .. Len(s)
      BY <1>1, <2>1
    <3> QED
      BY <3>1 DEF IsWriting
  <2>3. HasFragment(s, i)
    BY <1>1, <1>2, <2>1, <2>2 DEF HasFragment
  <2>4. LastSlot(i) = i
    BY <1>6, <2>1, <2>3, WritingIsApart
  <2>5. FirstSlot(j) <= i /\ i <= LastSlot(j)
    BY <1>2, <1>3, <2>1
  <2>6. LastSlot(i) = LastSlot(j)
    BY <1>2, <2>1, <2>5, ClusterFacts
  <2> QED
    BY <1>1, <1>2, <1>6, <2>1, <2>4, <2>6
<1>7. CASE k < at \/ at + n <= j \/ n = 0
  <2>1. ASSUME NEW l \in j .. k PROVE t[l] = s[l] /\ HasFragment(s, l)
    <3>1. l \in 1 .. Len(s) /\ ~(at <= l /\ l < at + n)
      BY <1>1, <1>2, <1>7
    <3>2. t[l] = s[l]
      BY <3>1 DEF IsWriting
    <3> QED
      BY <1>1, <1>2, <3>1, <3>2 DEF HasFragment
  <2>2. IsRun(s, j, k)
    BY <1>2, <2>1 DEF IsRun
  <2>3. t[j] = s[j] /\ t[k] = s[k]
    BY <1>2, <2>1
  <2> QED
    BY <1>1, <2>2, <2>3 DEF FragmentsInv, RunsAreNames
<1> QED
  BY <1>1, <1>2, <1>4, <1>5, <1>6, <1>7

\* Entries and fragments of s are in t.
AllStay(s, t) == \A i \in 1 .. Len(s) : IsEntry(s, i) \/ HasFragment(s, i) => t[i] = s[i]

(* One device write leaves every entry complete.                           *)
LEMMA WritingKeepsNames ==
  ASSUME NEW s, NEW t, NEW todo, NEW rest, NEW at, NEW n, IsWriting(s, t, todo, rest, at, n),
         FragmentsInv(s), TodoComplete(s, at, todo), EntryFollows(todo)
  PROVE  AllComplete(t) /\ AllNumbered(t) /\ AllStay(s, t)
<1>1. /\ Len(s) \in Nat /\ DOMAIN s = 1 .. Len(s) /\ DOMAIN t = 1 .. Len(s) /\ at \in 1 .. Len(s)
      /\ at \in Nat \ {0} /\ n \in Nat /\ Len(todo) \in Nat /\ DOMAIN todo = 1 .. Len(todo) /\ n <= Len(todo)
      /\ todo \in Seq(SlotValues)
  BY DEF IsWriting
<1>2. AllComplete(s) /\ AllNumbered(s)
  BY DEF FragmentsInv
<1>3. ASSUME NEW i \in 1 .. Len(s) PROVE
        \/ /\ at <= i /\ i < at + n /\ i - at + 1 \in 1 .. Len(todo) /\ t[i] = todo[i - at + 1]
           /\ s[i].kind \in FreeKinds
        \/ ~(at <= i /\ i < at + n) /\ t[i] = s[i]
  <2>1. CASE at <= i /\ i < at + n
    <3>1. i - at + 1 \in 1 .. Len(todo) /\ i < at + Len(todo)
      BY <1>1, <2>1
    <3> QED
      BY <2>1, <3>1 DEF IsWriting
  <2> QED
    BY <2>1 DEF IsWriting
<1>4. \A i \in 1 .. Len(s) : IsEntry(s, i) \/ HasFragment(s, i) => t[i] = s[i]
  BY <1>3 DEF IsEntry, HasFragment, FreeKinds
<1>5. AllNumbered(t)
  <2> SUFFICES ASSUME NEW i \in 1 .. Len(s), t[i].kind = "lfn" PROVE IsNumbered(t[i])
    BY <1>1 DEF AllNumbered, HasFragment
  <2>1. CASE t[i] = s[i]
    BY <1>1, <1>2, <2>1 DEF AllNumbered, HasFragment
  <2>2. CASE i - at + 1 \in 1 .. Len(todo) /\ t[i] = todo[i - at + 1]
    BY <1>1, <2>2 DEF EntryFollows
  <2> QED
    BY <1>3, <2>1, <2>2
<1>6. ASSUME NEW i \in 1 .. Len(s), IsEntry(t, i) PROVE IsComplete(t, i)
  <2>1. CASE t[i] = s[i]
    <3>1. IsComplete(s, i) /\ Takes(s, i) = Takes(t, i)
      BY <1>1, <1>2, <1>6, <2>1 DEF AllComplete, IsEntry, Takes
    <3>2. ASSUME NEW k \in 1 .. Takes(t, i)
          PROVE  i - k \in DOMAIN t /\ t[i - k] = LFNEntry(t[i].name, k)
      <4>1. i - k \in DOMAIN s /\ s[i - k] = LFNEntry(s[i].name, k) /\ s[i].name \in Names
        BY <3>1, <3>2 DEF IsComplete
      <4>2. k \in Nat
        BY <2>1, <3>2, <4>1, SlotsAssumption DEF Takes
      <4>3. s[i - k].kind = "lfn"
        BY <4>1, <4>2, SlotFacts
      <4>4. t[i - k] = s[i - k]
        BY <1>1, <1>4, <4>1, <4>3 DEF HasFragment
      <4> QED
        BY <1>1, <2>1, <4>1, <4>4
    <3> QED
      BY <2>1, <3>1, <3>2 DEF IsComplete
  <2>2. CASE at <= i /\ i < at + n /\ i - at + 1 \in 1 .. Len(todo) /\ t[i] = todo[i - at + 1]
    <3>1. PICK m : m = i - at + 1 /\ m \in 1 .. Len(todo) /\ t[i] = todo[m] /\ i = at + m - 1 /\ m <= n
                   /\ m \in Nat
      BY <1>1, <2>2
    <3>2. /\ todo[m].name \in Names
          /\ \A k \in 1 .. LfnSlots[todo[m].name] : FragmentIsThere(s, at, todo, m, k)
      BY <1>1, <1>6, <3>1 DEF TodoComplete, IsEntry
    <3>3. PICK c : c = LfnSlots[todo[m].name] /\ c = Takes(t, i) /\ c \in Nat
      BY <3>1, <3>2, SlotsAssumption DEF Takes
    <3>4. ASSUME NEW k \in 1 .. c PROVE i - k \in DOMAIN t /\ t[i - k] = LFNEntry(todo[m].name, k)
      <4>1. FragmentIsThere(s, at, todo, m, k) /\ k \in Nat /\ k >= 1
        BY <3>2, <3>3, <3>4
      <4>2. CASE k < m
        <5>1. todo[m - k] = LFNEntry(todo[m].name, k)
          BY <4>1, <4>2 DEF FragmentIsThere
        <5>2. PICK h : h = i - k /\ h \in 1 .. Len(s) /\ at <= h /\ h < at + n /\ h - at + 1 = m - k
          <6>1. i - k = at + m - 1 - k /\ at \in Nat /\ m \in Nat /\ k \in Nat /\ k < m /\ k >= 1 /\ m <= n
            BY <3>1, <4>1, <4>2, <1>1
          <6>2. at <= i - k /\ i - k < at + n /\ (i - k) - at + 1 = m - k /\ i - k <= i
            BY <1>1, <3>1, <6>1
          <6>3. i - k \in 1 .. Len(s)
            BY <1>1, <6>1, <6>2
          <6> QED
            BY <6>2, <6>3
        <5>3. t[h] = todo[h - at + 1]
          BY <5>2 DEF IsWriting
        <5> QED
          BY <1>1, <5>1, <5>2, <5>3
      <4>3. CASE ~(k < m)
        <5>1. PICK h : h = at + m - 1 - k /\ h = i - k /\ h \in 1 .. Len(s) /\ s[h] = LFNEntry(todo[m].name, k)
          BY <1>1, <3>1, <4>1, <4>3 DEF FragmentIsThere
        <5>2. ~(at <= h)
          <6>1. at \in Nat /\ m \in Nat /\ k \in Nat /\ h = at + m - 1 - k
            BY <1>1, <3>1, <4>1, <5>1
          <6>2. m <= k
            BY <4>3, <6>1
          <6> QED
            BY <6>1, <6>2
        <5>3. t[h] = s[h]
          BY <5>1, <5>2 DEF IsWriting
        <5> QED
          BY <1>1, <5>1, <5>3
      <4> QED
        BY <4>2, <4>3
    <3> QED
      BY <3>1, <3>2, <3>3, <3>4 DEF IsComplete
  <2> QED
    BY <1>3, <2>1, <2>2
<1> QED
  BY <1>1, <1>4, <1>5, <1>6 DEF AllComplete, AllStay

(* What one device write leaves without an entry fills its cluster.        *)
LEMMA WritingFills ==
  ASSUME NEW s, NEW t, NEW todo, NEW rest, NEW at, NEW n, IsWriting(s, t, todo, rest, at, n),
         FragmentsInv(s), TodoComplete(s, at, todo), EntryFollows(todo),
         AllComplete(t), AllNumbered(t), RunsAreNames(t),
         AllStay(s, t)
  PROVE  OrphansFill(t)
<1>1. /\ Len(s) \in Nat /\ DOMAIN s = 1 .. Len(s) /\ DOMAIN t = 1 .. Len(s) /\ at \in 1 .. Len(s)
      /\ at \in Nat \ {0} /\ n \in Nat /\ Len(todo) \in Nat /\ DOMAIN todo = 1 .. Len(todo) /\ n <= Len(todo)
      /\ todo \in Seq(SlotValues) /\ t \in Seq(SlotValues) /\ s \in Seq(SlotValues)
      /\ Len(t) = Len(s) /\ IsWhole(t)
  BY DEF IsWriting, FragmentsInv, IsWhole
<1> SUFFICES ASSUME NEW j \in 1 .. Len(s), HasFragment(t, j), ~HasOwner(t, j)
             PROVE  IsLeftOver(t, j)
  BY <1>1 DEF OrphansFill
<1> SUFFICES ASSUME NEW k \in j .. LastSlot(j) PROVE HasFragment(t, k) /\ ~HasOwner(t, k)
  BY DEF IsLeftOver
<1>2. /\ j \in Nat \ {0} /\ LastSlot(j) \in Nat /\ LastSlot(j) <= Len(s) /\ k \in 1 .. Len(s) /\ j <= k
      /\ k <= LastSlot(j) /\ k \in Nat
  <2>1. j \in Nat \ {0} /\ LastSlot(j) \in Nat
    <3>1. j \in Nat \ {0}
      BY <1>1
    <3> QED
      BY <3>1, RoomIsPositive
  <2>2. LastSlot(j) <= Len(t)
    BY <1>1, LastSlotIsThere
  <2> QED
    BY <1>1, <2>1, <2>2
<1>3. CASE at <= j /\ j < at + n
  <2>1. PICK m : m = j - at + 1 /\ m \in 1 .. Len(todo) /\ t[j] = todo[m] /\ todo[m].kind = "lfn" /\ m <= n
                 /\ m \in Nat
    <3>1. j - at + 1 \in 1 .. Len(todo) /\ j - at + 1 <= n
      BY <1>1, <1>2, <1>3
    <3>2. t[j] = todo[j - at + 1]
      BY <1>3 DEF IsWriting
    <3>3. t[j].kind = "lfn"
      BY DEF HasFragment
    <3> QED
      BY <3>1, <3>2, <3>3
  <2>2. PICK e : e = m + todo[m].sequence_number
    OBVIOUS
  <2>3. IsNameOf(todo, e, m)
    <3>1. IsTodoRun(todo, m, m)
      BY <2>1 DEF IsTodoRun
    <3> QED
      BY <1>1, <2>2, <3>1, TodoRun
  <2>4. /\ e \in 1 .. Len(todo) /\ m < e /\ todo[e].kind = "entry" /\ todo[e].name \in Names
        /\ \A l \in 1 .. LfnSlots[todo[e].name] : FragmentIsThere(s, at, todo, e, l)
    BY <1>1, <2>3 DEF IsNameOf, TodoComplete
  <2>5. PICK c : c = LfnSlots[todo[e].name] /\ c \in Nat /\ e - m <= c
    <3>1. IsNumbered(todo[m]) /\ todo[m].sequence_number = e - m /\ todo[m].name = todo[e].name
      BY <1>1, <2>1, <2>3 DEF IsNameOf, EntryFollows
    <3>2. LfnSlots[todo[e].name] \in Nat /\ e - m \in 1 .. LfnSlots[todo[e].name]
      BY <2>4, <3>1, SlotsAssumption DEF IsNumbered
    <3> QED
      BY <3>2
  <2>6. n < e
    <3> SUFFICES ASSUME e <= n PROVE FALSE
      BY <1>1, <2>4
    <3>1. PICK i : i = at + e - 1 /\ at <= i /\ i < at + n /\ i - at + 1 = e /\ j < i /\ i - c <= j
      <4>1. /\ at \in Nat /\ e \in Nat /\ n \in Nat /\ c \in Nat /\ j \in Nat /\ m \in Nat /\ m = j - at + 1
            /\ m < e /\ e - m <= c /\ 1 <= e /\ e <= n
        BY <1>1, <1>2, <2>1, <2>4, <2>5
      <4>2. PICK i : i = at + e - 1
        OBVIOUS
      <4>3. at <= i /\ i < at + n /\ i - at + 1 = e
        BY <4>1, <4>2
      <4>4. j = m + at - 1
        BY <4>1
      <4>5. j < i /\ i - c <= j
        BY <4>1, <4>2, <4>4
      <4> QED
        BY <4>2, <4>3, <4>5
    <3>2. i \in 1 .. Len(s)
      <4>1. LastSlot(at) <= Len(s) /\ LastSlot(at) \in Nat /\ at + n - 1 <= LastSlot(at)
        BY <1>1, LastSlotIsThere, RoomIsPositive DEF IsWriting, FragmentsInv
      <4>2. i \in Nat /\ 1 <= i /\ i <= at + n - 1
        BY <1>1, <2>4, <3>1
      <4> QED
        BY <1>1, <4>1, <4>2
    <3>3. t[i] = todo[e]
      BY <3>1, <3>2 DEF IsWriting
    <3>4. IsFragmentOf(t, j, i)
      BY <1>1, <2>4, <2>5, <3>1, <3>2, <3>3 DEF IsFragmentOf, IsEntry, Takes
    <3> QED
      BY <1>1, <3>2, <3>4 DEF HasOwner
  <2>7. LastSlot(at) = at + n - 1 /\ LastSlot(j) = LastSlot(at)
    <3>1. n < Len(todo)
      BY <1>1, <2>4, <2>6
    <3>2. LastSlot(at) = at + n - 1
      BY <3>1 DEF IsWriting
    <3>3. FirstSlot(at) \in Nat /\ FirstSlot(at) <= at
      BY <1>1, RoomIsPositive
    <3>4. FirstSlot(at) <= j /\ j <= LastSlot(at)
      BY <1>1, <1>2, <1>3, <3>2, <3>3
    <3> QED
      BY <1>1, <1>2, <3>2, <3>4, ClusterFacts
  <2>8. PICK h : h = k - at + 1 /\ h \in 1 .. Len(todo) /\ m <= h /\ h <= n /\ at <= k /\ k < at + n
    <3>1. at \in Nat /\ j \in Nat /\ k \in Nat /\ n \in Nat /\ at <= j /\ j <= k /\ k <= at + n - 1
          /\ m = j - at + 1
      BY <1>1, <1>2, <1>3, <2>1, <2>7
    <3> QED
      BY <1>1, <3>1
  <2>9. t[k] = LFNEntry(todo[e].name, e - h) /\ e - h \in 1 .. c
    <3>1. e - h \in 1 .. c /\ e - h < e /\ e - (e - h) = h
      <4>1. e \in Nat /\ h \in Nat /\ m \in Nat /\ n \in Nat /\ c \in Nat /\ n < e /\ h <= n /\ m <= h /\ e - m <= c /\ 1 <= h
        BY <1>1, <2>1, <2>4, <2>5, <2>6, <2>8
      <4>2. e - h \in Int /\ 1 <= e - h /\ e - h <= c
        BY <4>1
      <4> QED
        BY <1>1, <4>1, <4>2
    <3>2. FragmentIsThere(s, at, todo, e, e - h)
      BY <2>4, <2>5, <3>1
    <3>3. todo[h] = LFNEntry(todo[e].name, e - h)
      BY <3>1, <3>2 DEF FragmentIsThere
    <3>4. t[k] = todo[h]
      BY <1>2, <2>8 DEF IsWriting
    <3> QED
      BY <3>1, <3>3, <3>4
  <2>10. HasFragment(t, k)
    <3>1. t[k].kind = "lfn"
      BY <2>4, <2>5, <2>9, SlotFacts
    <3> QED
      BY <1>1, <1>2, <3>1 DEF HasFragment
  <2>11. ASSUME NEW i \in DOMAIN t, IsFragmentOf(t, k, i) PROVE FALSE
    <3>1. t[k] = LFNEntry(t[i].name, i - k) /\ i \in Nat /\ t[i].kind = "entry"
      BY <1>1, <1>2, <2>11, OwnerFacts DEF IsFragmentOf, IsEntry
    <3>2. i - k = e - h
      <4>1. PICK x, y, f : x = i - k /\ y = e - h /\ f = t[k] /\ f.sequence_number = x /\ f.sequence_number = y
        BY <2>9, <3>1 DEF LFNEntry, Slot
      <4> QED
        BY <4>1
    <3>3. i = at + e - 1
      <4>1. i \in Int /\ k \in Int /\ e \in Int /\ at \in Int /\ h = k - at + 1 /\ i - k = e - h
        BY <1>1, <1>2, <2>4, <2>8, <3>1, <3>2
      <4> QED
        BY <4>1
    <3>4. at <= i /\ ~(i < at + n) /\ i < at + Len(todo) /\ i \in 1 .. Len(s)
      <4>1. at \in Nat /\ e \in Nat /\ n \in Nat /\ n < e /\ e <= Len(todo) /\ e >= 1
        BY <1>1, <2>4, <2>6
      <4>2. i \in 1 .. Len(s)
        BY <1>1, <2>11
      <4> QED
        BY <1>1, <3>3, <4>1, <4>2
    <3>5. t[i] = s[i] /\ s[i].kind \in FreeKinds
      BY <3>4 DEF IsWriting
    <3> QED
      BY <3>1, <3>5 DEF FreeKinds
  <2> QED
    BY <2>10, <2>11 DEF HasOwner
<1>4. CASE ~(at <= j /\ j < at + n)
  <2>1. t[j] = s[j] /\ HasFragment(s, j)
    <3>1. t[j] = s[j]
      BY <1>4 DEF IsWriting
    <3> QED
      BY <1>1, <3>1 DEF HasFragment
  <2>2. ~HasOwner(s, j)
    <3> SUFFICES ASSUME NEW i \in 1 .. Len(s), IsFragmentOf(s, j, i) PROVE FALSE
      BY <1>1 DEF HasOwner
    <3>1. IsEntry(s, i) /\ t[i] = s[i]
      BY DEF IsFragmentOf, AllStay
    <3>2. IsFragmentOf(t, j, i)
      BY <1>1, <3>1 DEF IsFragmentOf, IsEntry, Takes
    <3> QED
      BY <1>1, <3>2 DEF HasOwner
  <2>3. \A l \in j .. LastSlot(j) : HasFragment(s, l)
    BY <1>1, <2>1, <2>2 DEF FragmentsInv, OrphansFill, IsLeftOver
  <2>4. \A l \in j .. LastSlot(j) : HasFragment(t, l)
    <3> SUFFICES ASSUME NEW l \in j .. LastSlot(j) PROVE HasFragment(t, l)
      OBVIOUS
    <3>1. HasFragment(s, l) /\ l \in 1 .. Len(s)
      BY <1>1, <2>3 DEF HasFragment
    <3>2. t[l] = s[l]
      BY <3>1 DEF AllStay
    <3> QED
      BY <1>1, <3>1, <3>2 DEF HasFragment
  <2>5. HasFragment(t, k)
    BY <2>4
  <2>6. ASSUME NEW i \in DOMAIN t, IsFragmentOf(t, k, i) PROVE FALSE
    <3>1. t[k] = LFNEntry(t[i].name, i - k) /\ i \in Nat /\ k < i
      BY <1>1, <1>2, <2>6, OwnerFacts
    <3>2. t[k].sequence_number = i - k /\ t[k].name = t[i].name
      <4>1. PICK x, y, f : x = i - k /\ y = t[i].name /\ f = t[k] /\ f.sequence_number = x /\ f.name = y
        BY <3>1 DEF LFNEntry, Slot
      <4> QED
        BY <4>1
    <3>3. IsRun(t, j, k)
      <4>1. \A l \in j .. k : HasFragment(t, l)
        BY <1>2, <2>4
      <4> QED
        BY <1>2, <4>1 DEF IsRun
    <3>4. t[k].name = t[j].name /\ t[j].sequence_number = t[k].sequence_number + (k - j)
      BY <1>1, <1>2, <3>3 DEF RunsAreNames
    <3>5. IsNumbered(t[j])
      BY <1>1 DEF AllNumbered
    <3>6. PICK c : c = Takes(t, i) /\ c \in Nat /\ t[j].sequence_number <= c
      <4>1. LfnSlots[t[j].name] = Takes(t, i)
        BY <3>2, <3>4 DEF Takes
      <4>2. LfnSlots[t[j].name] \in Nat /\ t[j].sequence_number \in 1 .. LfnSlots[t[j].name]
        BY <3>5, SlotsAssumption DEF IsNumbered
      <4> QED
        BY <4>1, <4>2
    <3>7. t[j].sequence_number = i - j
      BY <1>2, <3>1, <3>2, <3>4
    <3>8. i - c <= j /\ j < i
      BY <1>2, <3>1, <3>6, <3>7
    <3>9. IsFragmentOf(t, j, i)
      BY <2>6, <3>6, <3>8 DEF IsFragmentOf
    <3> QED
      BY <2>6, <3>9 DEF HasOwner
  <2> QED
    BY <2>5, <2>6 DEF HasOwner
<1> QED
  BY <1>3, <1>4

(* A directory that grows.                                                 *)
LEMMA GrowingLeaves ==
  ASSUME NEW s, NEW t, s \in Seq(SlotValues), FragmentsInv(s), GrownFrom(s, t)
  PROVE  FragmentsInv(t)
<1>1. /\ DOMAIN s = 1 .. Len(s) /\ Len(s) \in Nat /\ t \in Seq(SlotValues) /\ IsWhole(t)
      /\ DOMAIN t = 1 .. Len(t) /\ Len(t) \in Nat
      /\ \A i \in DOMAIN s : i \in DOMAIN t /\ t[i] = s[i]
      /\ \A i \in DOMAIN t : i \notin DOMAIN s => t[i] = UnusedAndEnd
  BY DEF GrownFrom, FragmentsInv, IsDirectory
<1>2. /\ AllComplete(s) /\ AllNumbered(s) /\ RunsAreNames(s) /\ OrphansFill(s)
  BY DEF FragmentsInv
<1>3. \A i : /\ IsEntry(t, i) <=> IsEntry(s, i)
             /\ HasFragment(t, i) <=> HasFragment(s, i)
  BY <1>1, SlotFacts DEF IsEntry, HasFragment
<1>4. \A i : IsEntry(s, i) \/ HasFragment(s, i) => t[i] = s[i] /\ i \in DOMAIN s /\ i \in DOMAIN t
  BY <1>1 DEF IsEntry, HasFragment
<1>5. AllComplete(t)
  BY <1>1, <1>2, <1>3, <1>4 DEF AllComplete, IsComplete, Takes
<1>6. AllNumbered(t)
  BY <1>2, <1>3, <1>4 DEF AllNumbered
<1>7. RunsAreNames(t)
  <2> SUFFICES ASSUME NEW j \in DOMAIN t, NEW k \in DOMAIN t, IsRun(t, j, k)
               PROVE  t[k].name = t[j].name /\ t[j].sequence_number = t[k].sequence_number + (k - j)
    BY DEF RunsAreNames
  <2>1. IsRun(s, j, k) /\ j \in j .. k /\ k \in j .. k
    BY <1>1, <1>3 DEF IsRun
  <2>2. HasFragment(s, j) /\ HasFragment(s, k)
    BY <2>1 DEF IsRun
  <2>3. t[j] = s[j] /\ t[k] = s[k] /\ j \in DOMAIN s /\ k \in DOMAIN s
    BY <1>4, <2>2
  <2> QED
    BY <1>2, <2>1, <2>3 DEF RunsAreNames
<1>8. \A j, i : IsFragmentOf(t, j, i) <=> IsFragmentOf(s, j, i)
  BY <1>3, <1>4 DEF IsFragmentOf, Takes
<1>9. \A j : HasOwner(t, j) <=> HasOwner(s, j)
  BY <1>4, <1>8 DEF HasOwner, IsFragmentOf
<1>10. OrphansFill(t)
  BY <1>2, <1>3, <1>4, <1>9 DEF OrphansFill, IsLeftOver
<1> QED
  BY <1>1, <1>5, <1>6, <1>7, <1>10 DEF FragmentsInv

(* What is to be written for a name is complete.                           *)
LEMMA CreationIsComplete ==
  ASSUME SlotsInv, OrphansInv, NEW n \in Names, NEW old \in Nat,
         WriteLFNSequenceAndClusterEntry(n, old), pc = "idle"
  PROVE  OrphansInv'
<1> DEFINE required == LfnSlots[n] + 2
           entry == ClusterEntry(n, ShortNameFor(n))
           written == CreateLFNSequenceForFilename(n) \o <<entry>>
<1>1. PICK block : block = FindEmptyBlockOfEntries(required)
  OBVIOUS
<1>2. required \in Nat \ {0} /\ LfnSlots[n] \in Nat
  BY SlotsAssumption
<1>3. GrownFrom(slots, block.slots)
  BY <1>1, <1>2, BlockFound DEF SlotsInv
<1>4. PICK w : w = written /\ IsWritten(n, w)
  BY WrittenFacts DEF SlotsInv
<1>5. PICK todo : /\ todo = w \/ todo = Append(w, UnusedAndEnd)
                  /\ slots' = block.slots
                  /\ \/ pc' = pc
                     \/ pc' = "writing" /\ op'.todo = todo
  <2>1. PICK todo : todo = IF \E i \in {i \in DOMAIN block.slots : i \in block.start .. (block.start + LfnSlots[n])} :
                                block.slots[i].kind = "end"
                           THEN Append(w, UnusedAndEnd) ELSE w
    OBVIOUS
  <2>2. /\ slots' = block.slots
        /\ IF block.start = 0 THEN UNCHANGED <<pc, op>>
           ELSE /\ pc' = "writing"
                /\ op' = [at |-> block.start, todo |-> todo,
                          fits |-> block.start + LfnSlots[n] < Len(block.slots),
                          old |-> old, first_cluster_known |-> TRUE]
    BY <1>1, <1>4, <2>1 DEF WriteLFNSequenceAndClusterEntry
  <2> QED
    BY <2>1, <2>2
<1>6. FragmentsInv(slots')
  <2>1. slots \in Seq(SlotValues) /\ FragmentsInv(slots)
    BY DEF OrphansInv, FragmentsInv
  <2> QED
    BY <1>3, <1>5, <2>1, GrowingLeaves
<1>7. PICK c : c = LfnSlots[n] /\ c \in Nat
  BY <1>2
<1>8. PICK e : e = entry /\ e.name = n
  <2>1. entry.name = n
    BY DEF ClusterEntry, Slot
  <2> QED
    BY <2>1
<1>9. /\ w \in Seq(SlotValues) /\ Len(w) = c + 1
      /\ \A k \in 1 .. (c + 1) : IF k = c + 1 THEN w[k] = e /\ w[k].kind = "entry"
                                 ELSE w[k] = LFNEntry(n, c + 1 - k) /\ w[k].kind = "lfn"
  BY <1>4, <1>7, <1>8 DEF IsWritten
<1> HIDE DEF entry, written, required
<1>10. /\ c + 1 \in DOMAIN todo /\ todo[c + 1] = e /\ todo[c + 1].kind = "entry"
       /\ \A k \in DOMAIN todo : k \in Nat \ {0} /\ todo[k].kind \in {"entry", "lfn"} => k \in 1 .. (c + 1)
       /\ \A k \in 1 .. c : todo[k] = LFNEntry(n, c + 1 - k) /\ todo[k].kind = "lfn"
  <2>1. CASE todo = w
    <3>1. DOMAIN w = 1 .. (c + 1)
      BY <1>9
    <3>2. c + 1 \in 1 .. (c + 1) /\ \A k \in 1 .. c : k \in 1 .. (c + 1) /\ k # c + 1
      BY <1>7
    <3> QED
      BY <1>9, <2>1, <3>1, <3>2
  <2>2. CASE todo = Append(w, UnusedAndEnd)
    <3>1. PICK u : u = UnusedAndEnd /\ u \in SlotValues /\ u.kind = "end"
      BY SlotFacts
    <3>2. PICK v : v = Append(w, u)
      OBVIOUS
    <3>3. /\ v \in Seq(SlotValues) /\ Len(v) = Len(w) + 1
          /\ \A k \in 1 .. (Len(w) + 1) : v[k] = IF k = Len(w) + 1 THEN u ELSE w[k]
      BY <1>9, <3>1, <3>2
    <3>4. todo = v /\ DOMAIN v = 1 .. (Len(w) + 1)
      BY <2>2, <3>1, <3>2, <3>3
    <3>5. DOMAIN v = 1 .. (c + 2) /\ v[c + 2] = u /\ \A k \in 1 .. (c + 1) : v[k] = w[k]
      <4>1. Len(w) + 1 = c + 2 /\ c + 2 \in 1 .. (c + 2)
        BY <1>7, <1>9
      <4>2. \A k \in 1 .. (c + 1) : k \in 1 .. (c + 2) /\ k # c + 2
        BY <1>7
      <4> QED
        BY <3>3, <3>4, <4>1, <4>2
    <3>6. c + 1 \in 1 .. (c + 2) /\ c + 1 \in 1 .. (c + 1)
      BY <1>7
    <3>7. \A k \in 1 .. (c + 2) : k = c + 2 \/ k \in 1 .. (c + 1)
      BY <1>7
    <3>8. \A k \in 1 .. c : k \in 1 .. (c + 1) /\ k # c + 1
      BY <1>7
    <3> QED
      BY <1>9, <3>1, <3>4, <3>5, <3>6, <3>7, <3>8
  <2> QED
    BY <1>5, <2>1, <2>2
<1>11. DOMAIN todo \subseteq Nat \ {0}
  <2>1. w \in Seq(SlotValues) /\ UnusedAndEnd \in SlotValues
    BY <1>9, SlotFacts
  <2>2. todo \in Seq(SlotValues)
    BY <1>5, <2>1
  <2> QED
    BY <2>2
<1>12. \A k \in DOMAIN todo : /\ todo[k].kind = "entry" => k = c + 1
                              /\ todo[k].kind = "lfn" => k \in 1 .. c
  <2> SUFFICES ASSUME NEW k \in DOMAIN todo
               PROVE  /\ todo[k].kind = "entry" => k = c + 1
                      /\ todo[k].kind = "lfn" => k \in 1 .. c
    OBVIOUS
  <2>1. k \in 1 .. (c + 1) => k = c + 1 \/ k \in 1 .. c
    BY <1>7
  <2> QED
    BY <1>10, <1>11, <2>1
<1>13. TodoComplete(slots', op'.at, todo)
  <2> SUFFICES ASSUME NEW k \in 1 .. c PROVE FragmentIsThere(slots', op'.at, todo, c + 1, k)
    BY <1>7, <1>8, <1>10, <1>12 DEF TodoComplete
  <2>1. k < c + 1 /\ (c + 1) - k \in 1 .. c /\ c + 1 - ((c + 1) - k) = k
    BY <1>7
  <2>2. todo[(c + 1) - k] = LFNEntry(n, k)
    BY <1>10, <2>1
  <2> QED
    BY <1>8, <1>10, <2>1, <2>2 DEF FragmentIsThere
<1>14. EntryFollows(todo)
  <2> SUFFICES ASSUME NEW m \in DOMAIN todo, todo[m].kind = "lfn"
               PROVE  /\ IsNumbered(todo[m])
                      /\ m + todo[m].sequence_number \in DOMAIN todo
                      /\ todo[m + todo[m].sequence_number].kind = "entry"
                      /\ todo[m + todo[m].sequence_number].name = todo[m].name
    BY DEF EntryFollows
  <2>1. m \in 1 .. c /\ todo[m] = LFNEntry(n, c + 1 - m)
    BY <1>10, <1>12
  <2>2. PICK d : d = c + 1 - m /\ d \in 1 .. c /\ m + d = c + 1
    BY <1>7, <2>1
  <2>3. PICK f : f = todo[m] /\ f.name = n /\ f.sequence_number = d
    BY <2>1, <2>2 DEF LFNEntry, Slot
  <2>4. IsNumbered(f)
    BY <1>7, <2>2, <2>3 DEF IsNumbered
  <2> QED
    BY <1>8, <1>10, <2>2, <2>3, <2>4
<1> QED
  BY <1>5, <1>6, <1>13, <1>14 DEF OrphansInv

(* One device write.                                                       *)
LEMMA WriteClusterCompletes ==
  ASSUME SlotsInv, OrphansInv, WriteCluster
  PROVE  OrphansInv'
<1>1. PICK s, at, todo : s = slots /\ at = op.at /\ todo = op.todo
  OBVIOUS
<1>2. /\ s \in Seq(SlotValues) /\ todo \in Seq(SlotValues) /\ at \in Nat \ {0} /\ at \in 1 .. Len(s)
      /\ FragmentsInv(s) /\ TodoComplete(s, at, todo) /\ EntryFollows(todo) /\ ToWrite(s, at, todo)
      /\ op \in Operations
  <2>1. pc = "writing"
    BY DEF WriteCluster
  <2>2. ToWrite(s, at, todo) /\ IsDirectory(s) /\ todo \in Seq(SlotValues) /\ op \in Operations
    BY <1>1, <2>1 DEF SlotsInv, Operations
  <2>3. FragmentsInv(s) /\ TodoComplete(s, at, todo) /\ EntryFollows(todo)
    BY <1>1, <2>1 DEF OrphansInv
  <2> QED
    BY <2>2, <2>3 DEF ToWrite, IsDirectory
<1>3. PICK room : room = LastSlot(at) - at + 1 /\ room \in Nat \ {0}
  <2>1. LastSlot(at) \in Nat /\ at <= LastSlot(at)
    BY <1>2, RoomIsPositive
  <2> QED
    BY <1>2, <2>1
<1>4. PICK n : n = Min({LastSlot(op.at) - op.at + 1, Len(op.todo)})
  OBVIOUS
<1>5. /\ n \in 0 .. Len(todo) /\ (Len(todo) # 0 => n # 0) /\ n <= room
      /\ (n < Len(todo) => n = room) /\ n \in Nat /\ Len(todo) \in Nat /\ Len(s) \in Nat
  <2>1. {room, Len(todo)} \in SUBSET Nat /\ {room, Len(todo)} # {} /\ Len(todo) \in Nat
    BY <1>2, <1>3
  <2>2. n = Min({room, Len(todo)})
    BY <1>1, <1>3, <1>4
  <2>3. n \in {room, Len(todo)} /\ n <= Len(todo) /\ n <= room
    BY <2>1, <2>2, LeastNumber
  <2> QED
    BY <1>2, <1>3, <2>1, <2>3
<1>6. PICK t : t = slots' /\ t = [i \in DOMAIN s |-> IF i \in at .. (at + n - 1)
                                                   THEN todo[i - at + 1] ELSE s[i]]
  BY <1>1, <1>4 DEF WriteCluster
<1>7. PICK rest : rest = SubSeq(todo, n + 1, Len(todo))
  OBVIOUS
<1>8. \/ n < Len(todo) /\ pc' = "writing" /\ op'.todo = rest /\ op'.at = at + n
      \/ pc' = "idle"
      \/ pc' = "removing" /\ op'.at = op'.old
  <2>1. \/ /\ n < Len(todo) /\ pc' = "writing"
           /\ op' = [op EXCEPT !.at = op.at + n, !.todo = SubSeq(op.todo, n + 1, Len(op.todo))]
        \/ Return
        \/ BeginRemoval(op.old, TRUE)
    BY <1>1, <1>4 DEF WriteCluster
  <2>2. ASSUME op' = [op EXCEPT !.at = op.at + n, !.todo = SubSeq(op.todo, n + 1, Len(op.todo))]
        PROVE  op'.todo = rest /\ op'.at = at + n
    <3>1. PICK a, b : a = at + n /\ b = rest /\ op' = [op EXCEPT !.at = a, !.todo = b]
      BY <1>1, <1>7, <2>2
    <3> QED
      BY <1>2, <3>1 DEF Operations
  <2>3. Return => pc' = "idle"
    BY DEF Return
  <2>4. BeginRemoval(op.old, TRUE) => pc' = "removing" /\ op'.at = op'.old
    BY DEF BeginRemoval, NoOperation
  <2> QED
    BY <2>1, <2>2, <2>3, <2>4
<1>9. /\ rest \in Seq(SlotValues) /\ DOMAIN rest = 1 .. (Len(todo) - n)
      /\ \A k \in 1 .. (Len(todo) - n) : rest[k] = todo[n + k]
  <2>1. n + 1 \in 1 .. (Len(todo) + 1) /\ Len(todo) \in ((n + 1) - 1) .. Len(todo)
    BY <1>5
  <2>2. /\ rest \in Seq(SlotValues) /\ Len(rest) = Len(todo) - (n + 1) + 1
        /\ \A k \in 1 .. (Len(todo) - (n + 1) + 1) : rest[k] = todo[(n + 1) + k - 1]
    BY <1>2, <1>7, <2>1, PartOf
  <2>3. DOMAIN rest = 1 .. (Len(todo) - n) /\ Len(todo) - (n + 1) + 1 = Len(todo) - n
    BY <1>5, <2>2
  <2>4. ASSUME NEW k \in 1 .. (Len(todo) - n) PROVE rest[k] = todo[n + k]
    <3>1. (n + 1) + k - 1 = n + k
      BY <1>5
    <3> QED
      BY <1>5, <2>2, <2>3, <3>1
  <2> QED
    BY <2>2, <2>3, <2>4
<1>10. IsWriting(s, t, todo, rest, at, n)
  <2>1. /\ \A i \in 1 .. Len(s) : t[i] = IF at <= i /\ i < at + n THEN todo[i - at + 1] ELSE s[i]
        /\ DOMAIN t = 1 .. Len(s)
    BY <1>2, <1>5, <1>6
  <2>2. t \in Seq(SlotValues) /\ Len(t) = Len(s)
    <3>1. \A i \in 1 .. Len(s) : t[i] \in SlotValues
      <4> SUFFICES ASSUME NEW i \in 1 .. Len(s) PROVE t[i] \in SlotValues
        OBVIOUS
      <4>1. CASE at <= i /\ i < at + n
        <5>1. i - at + 1 \in 1 .. Len(todo)
          BY <1>2, <1>5, <4>1
        <5> QED
          BY <1>2, <2>1, <4>1, <5>1
      <4>2. CASE ~(at <= i /\ i < at + n)
        BY <1>2, <2>1, <4>2
      <4> QED
        BY <4>1, <4>2
    <3>2. t \in [1 .. Len(s) -> SlotValues]
      BY <1>2, <1>6, <2>1, <3>1
    <3> QED
      BY <1>5, <2>1, <3>2
  <2>3. at + n - 1 <= LastSlot(at) /\ (n < Len(todo) => at + n - 1 = LastSlot(at))
    <3>1. LastSlot(at) = at + room - 1
      BY <1>2, <1>3, RoomIsPositive, SMTT(60)
    <3> QED
      BY <1>2, <1>3, <1>5, <3>1
  <2>4. \A i \in 1 .. Len(s) : at <= i /\ i < at + Len(todo) => s[i].kind \in FreeKinds
    BY <1>2 DEF ToWrite
  <2> QED
    BY <1>2, <1>5, <1>9, <2>1, <2>2, <2>3, <2>4 DEF IsWriting
<1>11. AllComplete(t) /\ AllNumbered(t) /\ AllStay(s, t)
  BY <1>2, <1>10, WritingKeepsNames
<1>12. RunsAreNames(t)
  BY <1>2, <1>10, WritingKeepsRuns
<1>13. OrphansFill(t)
  BY <1>2, <1>10, <1>11, <1>12, WritingFills
<1>14. FragmentsInv(t)
  BY <1>2, <1>10, <1>11, <1>12, <1>13 DEF FragmentsInv, IsWriting, IsWhole
<1>15. TodoComplete(t, at + n, rest) /\ EntryFollows(rest)
  BY <1>2, <1>10, WritingCompletes DEF FragmentsInv
<1> QED
  BY <1>6, <1>8, <1>14, <1>15 DEF OrphansInv

(* The walk back over fragments.                                           *)
LEMMA RemoveEntryLeaves ==
  ASSUME SlotsInv, OrphansInv, RemoveEntry
  PROVE  OrphansInv'
<1>1. PICK s, at, old : s = slots /\ at = op.at /\ old = op.old
  OBVIOUS
<1>2. PICK here : here = IF at = old THEN at ELSE at - 1
  OBVIOUS
<1>3. PICK removed : removed = ({at} \cap {old}) \cup FragmentsBefore(at, here)
  OBVIOUS
<1>4. PICK start : start = FirstSlot(here)
  OBVIOUS
<1>5. /\ slots' = MarkUnused(removed)
      /\ \/ start > 1 /\ pc' = "removing" /\ op' = [op EXCEPT !.at = start, !.old = 0]
         \/ pc' = "idle"
  BY <1>1, <1>2, <1>3, <1>4 DEF RemoveEntry, Return
<1>6. /\ IsDirectory(s) /\ ToRemove(s, at, old) /\ op \in Operations /\ FragmentsInv(s)
      /\ at = old \/ (FirstSlot(at) = at /\ at > 1)
  <2>1. pc = "removing"
    BY DEF RemoveEntry
  <2> QED
    BY <1>1, <2>1 DEF SlotsInv, OrphansInv
<1>7. /\ Len(s) \in Nat /\ DOMAIN s = 1 .. Len(s) /\ s \in Seq(SlotValues) /\ at \in 1 .. Len(s)
      /\ at \in Nat \ {0} /\ here \in Nat \ {0} /\ here <= at
  <2>1. Len(s) \in Nat /\ DOMAIN s = 1 .. Len(s) /\ s \in Seq(SlotValues) /\ at \in 1 .. Len(s)
    BY <1>6 DEF IsDirectory, ToRemove
  <2> QED
    BY <1>2, <1>6, <2>1
<1>8. PICK t : t = slots' /\ t = [i \in DOMAIN s |-> IF i \in removed THEN Unused ELSE s[i]]
  BY <1>1, <1>5 DEF MarkUnused
<1>9. /\ t \in Seq(SlotValues) /\ Len(t) = Len(s)
      /\ \A i \in 1 .. Len(s) : t[i] = IF i \in removed THEN Unused ELSE s[i]
  <2>1. t \in [1 .. Len(s) -> SlotValues]
    BY <1>7, <1>8, SlotFacts
  <2> QED
    BY <1>7, <1>8, <2>1
<1>10. start \in Nat \ {0} /\ start <= here /\ FirstSlot(start) = start
  BY <1>4, <1>7, RoomIsPositive, ClusterFacts
<1>11. \A k \in start .. (at - 1) : k \in DOMAIN s
  BY <1>7, <1>10
<1>12. FragmentsBefore(at, here) =
         {j \in FirstSlot(here) .. (at - 1) : /\ \A k \in j .. (at - 1) : HasFragment(s, k)
                                             /\ \A k \in (j + 1) .. (at - 1) :
                                                  s[k].sequence_number # LfnSlots[s[k].name]}
  <2>1. ASSUME NEW j \in start .. (at - 1)
        PROVE  (/\ \A k \in j .. (at - 1) : IsLFN(k)
                /\ \A k \in (j + 1) .. (at - 1) : ~IsFirstLFNEntry(k))
               <=> (/\ \A k \in j .. (at - 1) : HasFragment(s, k)
                    /\ \A k \in (j + 1) .. (at - 1) : s[k].sequence_number # LfnSlots[s[k].name])
    <3>1. \A k \in j .. (at - 1) : k \in start .. (at - 1)
      BY <1>7, <1>10
    <3>2. \A k \in (j + 1) .. (at - 1) : k \in j .. (at - 1)
      BY <1>7, <1>10
    <3>3. (\A k \in j .. (at - 1) : IsLFN(k)) <=> (\A k \in j .. (at - 1) : HasFragment(s, k))
      <4>1. ASSUME NEW k \in j .. (at - 1) PROVE IsLFN(k) <=> HasFragment(s, k)
        <5>1. k \in DOMAIN s
          BY <1>11, <3>1, <4>1
        <5> QED
          BY <1>1, <5>1 DEF IsLFN, HasFragment
      <4> QED
        BY <4>1, Zenon
    <3>4. ASSUME \A k \in j .. (at - 1) : IsLFN(k)
          PROVE  (\A k \in (j + 1) .. (at - 1) : ~IsFirstLFNEntry(k))
                 <=> (\A k \in (j + 1) .. (at - 1) : s[k].sequence_number # LfnSlots[s[k].name])
      <4>1. ASSUME NEW k \in (j + 1) .. (at - 1)
            PROVE  IsFirstLFNEntry(k) <=> s[k].sequence_number = LfnSlots[s[k].name]
        <5>1. k \in j .. (at - 1)
          BY <3>2, <4>1
        <5>2. IsLFN(k)
          BY <3>4, <5>1
        <5> QED
          BY <1>1, <5>2 DEF IsFirstLFNEntry
      <4> QED
        BY <4>1, Zenon
    <3> QED
      BY <3>3, <3>4
  <2> QED
    BY <1>4, <2>1 DEF FragmentsBefore
<1>13. IsRemoval(s, t, removed, at, old, here)
  BY <1>2, <1>3, <1>6, <1>7, <1>9, <1>12 DEF IsRemoval
<1>14. FragmentsInv(t)
  BY <1>6, <1>13, RemovalLeaves
<1>15. pc' = "removing" => FirstSlot(op'.at) = op'.at /\ op'.at > 1
  <2> SUFFICES ASSUME start > 1, op' = [op EXCEPT !.at = start, !.old = 0]
               PROVE  FirstSlot(op'.at) = op'.at /\ op'.at > 1
    BY <1>5
  <2>1. op'.at = start
    BY <1>6 DEF Operations
  <2> QED
    BY <1>10, <2>1
<1> QED
  BY <1>5, <1>8, <1>14, <1>15 DEF OrphansInv

(* Every step keeps the fragments in order.                                *)
LEMMA OrphansStep ==
  ASSUME SlotsInv, OrphansInv, [Next]_vars
  PROVE  OrphansInv'
<1>1. ASSUME NEW n \in Names, CreateEntry(n) PROVE OrphansInv'
  BY <1>1, CreationIsComplete DEF CreateEntry
<1>2. ASSUME NEW n \in Names, NEW new \in Names, RenameEntry(n, new) PROVE OrphansInv'
  <2>1. PICK old \in Nat : pc = "idle" /\ WriteLFNSequenceAndClusterEntry(new, old)
    BY <1>2, FoundIsEntry DEF RenameEntry, SlotsInv
  <2> QED
    BY <2>1, CreationIsComplete
<1>3. ASSUME NEW n \in Names, DeleteFile(n) PROVE OrphansInv'
  <2>1. slots' = slots /\ pc' = "removing" /\ op'.at = op'.old
    BY <1>3 DEF DeleteFile, BeginRemoval, NoOperation
  <2> QED
    BY <2>1 DEF OrphansInv
<1>4. CASE PowerLoss
  BY <1>4 DEF PowerLoss, Return, OrphansInv
<1>5. CASE UNCHANGED vars
  BY <1>5 DEF OrphansInv, vars
<1> QED
  BY <1>1, <1>2, <1>3, <1>4, <1>5, WriteClusterCompletes, RemoveEntryLeaves DEF Next

(* An empty directory has no fragments.                                    *)
LEMMA OrphansInitially ==
  ASSUME Init
  PROVE  OrphansInv
<1>1. SlotsPerCluster \in Nat
  BY SlotsAssumption
<1>2. /\ slots \in Seq(SlotValues) /\ Len(slots) = SlotsPerCluster
      /\ \A i \in DOMAIN slots : slots[i].kind = "end"
  BY <1>1, SlotFacts DEF Init, EmptyCluster
<1>3. IsWhole(slots)
  <2>1. Len(slots) = 1 * SlotsPerCluster
    BY <1>1, <1>2
  <2> QED
    BY <2>1 DEF IsWhole
<1>4. \A i : ~IsEntry(slots, i) /\ ~HasFragment(slots, i)
  BY <1>2 DEF IsEntry, HasFragment
<1>5. RunsAreNames(slots)
  <2> SUFFICES ASSUME NEW j \in DOMAIN slots, NEW k \in DOMAIN slots, IsRun(slots, j, k) PROVE FALSE
    BY DEF RunsAreNames
  <2>1. j \in j .. k
    BY <1>2 DEF IsRun
  <2> QED
    BY <1>4, <2>1 DEF IsRun
<1> QED
  BY <1>2, <1>3, <1>4, <1>5 DEF Init, OrphansInv, FragmentsInv, AllComplete, AllNumbered, OrphansFill

(* What the invariant says of owners is what the property says.            *)
LEMMA OrphansAreTheRest ==
  ASSUME SlotsInv, OrphansInv
  PROVE  OrphansEndACluster
<1>1. /\ IsDirectory(slots) /\ NothingAfterEnd /\ op \in Operations /\ slots \in Seq(SlotValues)
      /\ Len(slots) \in Nat /\ DOMAIN slots = 1 .. Len(slots) /\ op.at \in Nat
      /\ AllComplete(slots) /\ OrphansFill(slots) /\ IsWhole(slots)
  BY DEF SlotsInv, OrphansInv, FragmentsInv, IsDirectory, Operations
<1>2. ASSUME NEW i, NEW j, j \in Nat, IsEntry(slots, i)
      PROVE  j \in OwnFragments(i) <=> IsFragmentOf(slots, j, i)
  <2>1. i \in Nat /\ LfnSlots[slots[i].name] \in Nat
    <3>1. slots[i].name \in Names /\ i \in Nat
      BY <1>1, <1>2 DEF AllComplete, IsComplete, IsEntry
    <3> QED
      BY <3>1, SlotsAssumption
  <2>2. j \in (i - LfnSlots[slots[i].name]) .. (i - 1) <=> i - LfnSlots[slots[i].name] <= j /\ j < i
    BY <1>2, <2>1
  <2> QED
    BY <1>2, <2>2 DEF OwnFragments, IsFragmentOf, Takes
<1>3. ASSUME NEW j, j \in Nat
      PROVE  (\E i \in Visible : j \in OwnFragments(i)) <=> HasOwner(slots, j)
  <2>1. ASSUME NEW i \in Visible, j \in OwnFragments(i) PROVE HasOwner(slots, j)
    <3>1. IsEntry(slots, i)
      BY <1>1, ListedFacts
    <3> QED
      BY <1>2, <1>3, <2>1, <3>1 DEF HasOwner, IsEntry
  <2>2. ASSUME NEW i \in DOMAIN slots, IsFragmentOf(slots, j, i)
        PROVE  \E h \in Visible : j \in OwnFragments(h)
    <3>1. IsEntry(slots, i)
      BY <2>2 DEF IsFragmentOf
    <3> QED
      BY <1>1, <1>2, <1>3, <2>2, <3>1, AllAreVisible
  <2> QED
    BY <2>1, <2>2 DEF HasOwner
<1> SUFFICES ASSUME NEW j \in DOMAIN slots, IsLFN(j), ~Owned(j), NEW k \in j .. LastSlot(j)
             PROVE  IsLFN(k) /\ ~Owned(k)
  BY DEF OrphansEndACluster
<1>4. /\ j \in Nat \ {0} /\ HasFragment(slots, j) /\ ~HasOwner(slots, j)
  BY <1>1, <1>3 DEF IsLFN, HasFragment, Owned
<1>5. IsLeftOver(slots, j)
  BY <1>1, <1>4 DEF OrphansFill
<1>6. HasFragment(slots, k) /\ ~HasOwner(slots, k) /\ k \in Nat /\ j <= k
  <2>1. LastSlot(j) \in Nat
    BY <1>4, RoomIsPositive
  <2> QED
    BY <1>4, <1>5, <2>1 DEF IsLeftOver
<1>7. ASSUME pc # "idle", k < op.at, \A l \in k .. (op.at - 1) : IsLFN(l) PROVE FALSE
  <2>1. \A l \in j .. (op.at - 1) : IsLFN(l)
    <3> SUFFICES ASSUME NEW l \in j .. (op.at - 1) PROVE IsLFN(l)
      OBVIOUS
    <3>1. CASE l <= k
      <4>1. LastSlot(j) \in Nat /\ k <= LastSlot(j)
        BY <1>4, RoomIsPositive
      <4>2. l \in j .. LastSlot(j)
        BY <1>1, <1>4, <1>6, <3>1, <4>1
      <4> QED
        BY <1>5, <4>2 DEF IsLeftOver, HasFragment, IsLFN
    <3>2. CASE ~(l <= k)
      <4>1. l \in k .. (op.at - 1)
        BY <1>1, <1>4, <1>6, <3>2
      <4> QED
        BY <1>7, <4>1
    <3> QED
      BY <3>1, <3>2
  <2>2. j < op.at
    BY <1>1, <1>4, <1>6, <1>7
  <2> QED
    BY <1>7, <2>1, <2>2 DEF Owned
<1> QED
  BY <1>3, <1>6, <1>7 DEF Owned, HasFragment, IsLFN

-----------------------------------------------------------------------------
(* The theorems.                                                           *)

(* Every step keeps the invariant, and touches no other entry.             *)
LEMMA SlotsStep ==
  ASSUME SlotsInv, [Next]_vars
  PROVE  SlotsInv' /\ (Next => OthersStay)
<1>1. ASSUME NEW n \in Names, CreateEntry(n) PROVE SlotsInv' /\ OthersStay
  BY <1>1, CreationKeeps DEF CreateEntry
<1>2. ASSUME NEW n \in Names, NEW new \in Names, RenameEntry(n, new) PROVE SlotsInv' /\ OthersStay
  BY <1>2, CreationKeeps, FoundIsEntry DEF RenameEntry, SlotsInv
<1>3. ASSUME NEW n \in Names, DeleteFile(n) PROVE SlotsInv' /\ OthersStay
  <2>1. PICK i : i = Min(FindDirectoryEntry(n)) /\ i \in Nat /\ IsEntry(slots, i)
    BY <1>3, FoundIsEntry DEF DeleteFile, SlotsInv
  <2>2. slots' = slots /\ pc' = "removing" /\ op' \in Operations /\ op'.at = i /\ op'.old = i
    BY <1>3, <2>1, OperationFacts DEF DeleteFile
  <2>3. OthersStay
    BY <2>2 DEF OthersStay
  <2>4. IsDirectory(slots)' /\ NothingAfterEnd'
    BY <2>2 DEF SlotsInv, IsDirectory, NothingAfterEnd
  <2> QED
    BY <2>1, <2>2, <2>3, <2>4 DEF SlotsInv, ToRemove, IsEntry
<1>4. CASE PowerLoss
  BY <1>4, OperationFacts DEF SlotsInv, PowerLoss, Return, OthersStay, IsDirectory, NothingAfterEnd
<1>5. CASE UNCHANGED vars
  BY <1>5 DEF SlotsInv, vars, IsDirectory, NothingAfterEnd, ToWrite, ToRemove, IsEntry, NoEndBefore,
              FreeFrom, OthersStay
<1> QED
  BY <1>1, <1>2, <1>3, <1>4, <1>5, WriteClusterKeeps, RemoveEntryKeeps DEF Next

(* A directory begins empty.                                               *)
LEMMA SlotsInitially ==
  ASSUME Init
  PROVE  SlotsInv
<1>1. SlotsPerCluster \in Nat
  BY SlotsAssumption
<1>2. IsDirectory(slots) /\ \A i \in DOMAIN slots : slots[i].kind = "end"
  BY <1>1, SlotFacts DEF Init, EmptyCluster, IsDirectory
<1> QED
  BY <1>2, OperationFacts DEF Init, SlotsInv, NothingAfterEnd, FreeKinds

(* Listing stops at no slot before one in use: wherever a search found     *)
(* room, though the count of free slots is carried from the end of the     *)
(* directory to its start, and wherever the power went between the writes  *)
(* of a long name.                                                         *)
THEOREM NothingLiesBeyondTheEnd == Spec => []NothingAfterEnd
<1>1. SlotsInv => NothingAfterEnd
  BY DEF SlotsInv
<1> QED
  BY <1>1, SlotsInitially, SlotsStep, PTL DEF Spec

(* No step changes an entry or a fragment of its name, but those of the    *)
(* entry that is being removed: what is written goes to free slots, and the*)
(* walk back over fragments never runs into another name.                  *)
THEOREM OthersAreUntouched == Spec => OthersUntouched
<1>1. SlotsInv /\ [Next]_vars => SlotsInv'
  BY SlotsStep
<1>2. SlotsInv /\ [Next]_vars => [OthersStay]_vars
  BY SlotsStep
<1>3. [][OthersStay]_vars => OthersUntouched
  BY PTL DEF OthersUntouched, OthersStay
<1> QED
  BY <1>1, <1>2, <1>3, SlotsInitially, PTL DEF Spec

(* Fragments that belong to no entry fill a cluster up to its end, however *)
(* many clusters a name crosses: those that a removal leaves behind, which *)
(* begins at the entry and goes on from the start of a cluster, and those  *)
(* that a loss of power leaves, between two writes of whole clusters.      *)
THEOREM OrphansAreAtTheEnd == Spec => []OrphansEndACluster
<1>1. SlotsInv /\ OrphansInv => OrphansEndACluster
  BY OrphansAreTheRest
<1>2. SlotsInv /\ OrphansInv /\ [Next]_vars => SlotsInv' /\ OrphansInv'
  BY SlotsStep, OrphansStep
<1>3. Init => SlotsInv /\ OrphansInv
  BY SlotsInitially, OrphansInitially
<1> QED
  BY <1>1, <1>2, <1>3, PTL DEF Spec

(* The short name made for a long one is that of no other entry, as long as*)
(* TailsAreMade: the numeric tail is one that no entry listed has, and     *)
(* every entry is listed.  Writing, removing and losses of power keep it   *)
(* so, though the tail is chosen before the entry is written.              *)
THEOREM ShortNamesStayUnique == TailsAreMade /\ Spec => []ShortNamesUnique
<1>1. ShortNamesInv /\ SlotsInv => ShortNamesUnique
  <2> SUFFICES ASSUME ShortNamesInv, SlotsInv, NEW i \in Visible, NEW j \in Visible,
                      slots[i].short = slots[j].short, LfnSlots[slots[i].name] > 0
               PROVE  i = j
    BY DEF ShortNamesUnique
  <2>1. IsEntry(slots, i) /\ IsEntry(slots, j)
    BY ListedFacts DEF SlotsInv
  <2> QED
    BY <2>1 DEF ShortNamesInv, EntriesApart, Meet, IsEntry
<1>2. Init => ShortNamesInv
  <2>1. SlotsPerCluster \in Nat
    BY SlotsAssumption
  <2>2. Init => \A i \in DOMAIN slots : slots[i].kind # "entry"
    BY <2>1, SlotFacts DEF Init, EmptyCluster
  <2> QED
    BY <2>2 DEF Init, ShortNamesInv, EntriesMade, EntriesApart
<1>3. TailsAreMade /\ SlotsInv /\ ShortNamesInv /\ [Next]_vars => SlotsInv' /\ ShortNamesInv'
  BY SlotsStep, ShortNamesStep
<1> SUFFICES ASSUME TailsAreMade PROVE Spec => []ShortNamesUnique
  OBVIOUS
<1>4. SlotsInv /\ ShortNamesInv /\ [Next]_vars => SlotsInv' /\ ShortNamesInv'
  BY <1>3
<1> QED
  BY <1>1, <1>2, <1>4, SlotsInitially, PTL DEF Spec

=============================================================================
