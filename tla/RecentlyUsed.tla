----------------------------- MODULE RecentlyUsed -----------------------------
(***************************************************************************)
(* What lru_cache promises: of the entries added it keeps the MaxEntries   *)
(* that were used last, in the order of their use, the last one first.     *)
(***************************************************************************)
EXTENDS Integers, Sequences, SequencesExt

CONSTANTS EntryKeys, EntryValues, MaxEntries

VARIABLE recent \* a sequence of <<key, value>>

Init == recent = << >>

Keys == {recent[i][1] : i \in DOMAIN recent}

Add(key, value) ==
  /\ key \notin Keys
  /\ recent' = <<<<key, value>>>> \o (IF Len(recent) = MaxEntries THEN Front(recent) ELSE recent)

Use(i) == recent' = <<recent[i]>> \o RemoveAt(recent, i)

Discard(i) == recent' = RemoveAt(recent, i)

Clear == recent' = << >>

Next ==
  \/ \E key \in EntryKeys, value \in EntryValues : Add(key, value)
  \/ \E i \in DOMAIN recent : Use(i) \/ Discard(i)
  \/ Clear

Spec == Init /\ [][Next]_recent

=============================================================================
