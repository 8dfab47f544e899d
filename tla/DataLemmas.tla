------------------------------- MODULE DataLemmas -------------------------------
(***************************************************************************)
(* Induction on the natural numbers, with the property to be proved given  *)
(* as the set of the numbers that have it, and what the operations on      *)
(* sequences yield, element by element.                                    *)
(***************************************************************************)
EXTENDS Integers, SequencesExt, FiniteSetTheorems, SequenceTheorems, TLAPS

(* A set that holds zero, and with a number the next one, holds them all.  *)
(* The numbers it lacked would each end an interval from zero, and strict  *)
(* inclusion is well-founded on finite sets: the shortest of the intervals *)
(* would end before a shorter one.                                         *)
LEMMA EveryNatural ==
  ASSUME NEW S, 0 \in S, \A n \in Nat : n \in S => n + 1 \in S
  PROVE  Nat \subseteq S
<1> DEFINE Missed == {0 .. n : n \in Nat \ S}
           Shorter == StrictSubsetOrdering(Nat)
           Finite == FiniteSubsetsOf(Nat)
<1>1. SUFFICES ASSUME Missed # {} PROVE FALSE
  OBVIOUS
<1>2. IsWellFoundedOn(Shorter, Finite)
  BY FS_StrictSubsetOrderingWellFounded
<1>3. Missed \subseteq Finite
  <2>1. ASSUME NEW n \in Nat PROVE 0 .. n \in Finite
    <3>1. IsFiniteSet(0 .. n)
      BY FS_Interval
    <3> QED
      BY <3>1 DEF FiniteSubsetsOf
  <2> QED
    BY <2>1
<1>4. PICK X \in Missed : \A Y \in Missed : ~ (<<Y, X>> \in Shorter)
  <2> HIDE DEF Missed, Shorter, Finite
  <2> QED
    BY <1>1, <1>2, <1>3, WFMin
<1>5. PICK x \in Nat \ S : X = 0 .. x
  OBVIOUS
<1>6. x # 0 /\ x - 1 \in Nat /\ x = (x - 1) + 1
  BY <1>5
<1>7. x - 1 \in Nat \ S
  BY <1>5, <1>6
<1>8. 0 .. (x - 1) \in Missed
  BY <1>7
<1>9. <<0 .. (x - 1), X>> \in Shorter
  <2>1. 0 .. (x - 1) \subseteq 0 .. x /\ x \in 0 .. x /\ x \notin 0 .. (x - 1)
    BY <1>6
  <2>2. 0 .. (x - 1) \in SUBSET Nat /\ 0 .. x \in SUBSET Nat
    OBVIOUS
  <2> QED
    BY <1>5, <2>1, <2>2 DEF StrictSubsetOrdering
<1> QED
  BY <1>4, <1>8, <1>9

(* The same as far as a bound.                                             *)
LEMMA EveryNumberTo ==
  ASSUME NEW N \in Nat, NEW S, 0 \in S, \A n \in 0 .. (N - 1) : n \in S => n + 1 \in S
  PROVE  0 .. N \subseteq S
<1> DEFINE T == S \cup {n \in Nat : n > N}
<1>1. 0 \in T /\ \A n \in Nat : n \in T => n + 1 \in T
  OBVIOUS
<1>2. Nat \subseteq T
  <2> HIDE DEF T
  <2> QED
    BY <1>1, EveryNatural
<1> QED
  BY <1>2

(* A set of numbers that is not empty has a least one.                     *)
LEMMA LeastNumber ==
  ASSUME NEW S \in SUBSET Nat, S # {}
  PROVE  Min(S) \in S /\ \A n \in S : Min(S) <= n
<1> DEFINE Below == {n \in Nat : \A m \in S : n <= m}
<1>1. 0 \in Below
  OBVIOUS
<1>2. PICK m \in S : TRUE
  OBVIOUS
<1>3. m + 1 \notin Below /\ m + 1 \in Nat
  BY <1>2
<1>4. PICK n \in Nat : n \in Below /\ n + 1 \notin Below
  <2> HIDE DEF Below
  <2> QED
    BY <1>1, <1>3, EveryNatural
<1>5. n \in S
  <2>1. PICK k \in S : ~(n + 1 <= k)
    BY <1>4
  <2> QED
    BY <1>4, <2>1
<1>6. \A k \in S : n <= k
  BY <1>4
<1> QED
  BY <1>5, <1>6 DEF Min

-----------------------------------------------------------------------------
(* Sequences, element by element.                                          *)

\* Sequences of one length with the same elements are the same.
LEMMA SameSequence ==
  ASSUME NEW S, NEW s \in Seq(S), NEW t \in Seq(S), Len(s) = Len(t),
         \A i \in 1 .. Len(s) : s[i] = t[i]
  PROVE  s = t
OBVIOUS

\* A sequence with one more element at its front.
LEMMA FrontAdded ==
  ASSUME NEW S, NEW s \in Seq(S), NEW e \in S
  PROVE  /\ <<e>> \o s \in Seq(S) /\ Len(<<e>> \o s) = Len(s) + 1
         /\ \A j \in 1 .. (Len(s) + 1) : (<<e>> \o s)[j] = IF j = 1 THEN e ELSE s[j - 1]
OBVIOUS

\* A part of a sequence; parts are empty where they begin after they end.
LEMMA PartOf ==
  ASSUME NEW S, NEW s \in Seq(S), NEW m \in 1 .. (Len(s) + 1), NEW n \in (m - 1) .. Len(s)
  PROVE  /\ SubSeq(s, m, n) \in Seq(S) /\ Len(SubSeq(s, m, n)) = n - m + 1
         /\ \A j \in 1 .. (n - m + 1) : SubSeq(s, m, n)[j] = s[m + j - 1]
BY SubSeqProperties

\* Two sequences, one after the other.
LEMMA Joined ==
  ASSUME NEW S, NEW s \in Seq(S), NEW t \in Seq(S)
  PROVE  /\ s \o t \in Seq(S) /\ Len(s \o t) = Len(s) + Len(t)
         /\ \A j \in 1 .. (Len(s) + Len(t)) :
              (s \o t)[j] = IF j <= Len(s) THEN s[j] ELSE t[j - Len(s)]
BY ConcatProperties

\* A sequence without its element number i.
LEMMA Removed ==
  ASSUME NEW S, NEW s \in Seq(S), NEW i \in 1 .. Len(s)
  PROVE  /\ RemoveAt(s, i) \in Seq(S) /\ Len(RemoveAt(s, i)) = Len(s) - 1
         /\ \A j \in 1 .. (Len(s) - 1) : RemoveAt(s, i)[j] = IF j < i THEN s[j] ELSE s[j + 1]
<1> DEFINE before == SubSeq(s, 1, i - 1)
           after == SubSeq(s, i + 1, Len(s))
<1>1. /\ before \in Seq(S) /\ Len(before) = i - 1
      /\ \A j \in 1 .. (i - 1) : before[j] = s[j]
  BY PartOf
<1>2. /\ after \in Seq(S) /\ Len(after) = Len(s) - i
      /\ \A j \in 1 .. (Len(s) - i) : after[j] = s[i + j]
  BY PartOf
<1>3. RemoveAt(s, i) = before \o after
  BY DEF RemoveAt
<1> HIDE DEF before, after
<1>4. /\ before \o after \in Seq(S) /\ Len(before \o after) = Len(s) - 1
      /\ \A j \in 1 .. (Len(s) - 1) :
           (before \o after)[j] = IF j <= i - 1 THEN before[j] ELSE after[j - (i - 1)]
  BY <1>1, <1>2, Joined
<1>5. ASSUME NEW j \in 1 .. (Len(s) - 1)
      PROVE  (before \o after)[j] = IF j < i THEN s[j] ELSE s[j + 1]
  BY <1>1, <1>2, <1>4
<1> QED
  BY <1>3, <1>4, <1>5

\* A sequence with an element more, as its number i.
LEMMA Inserted ==
  ASSUME NEW S, NEW s \in Seq(S), NEW i \in 1 .. (Len(s) + 1), NEW e \in S
  PROVE  /\ InsertAt(s, i, e) \in Seq(S) /\ Len(InsertAt(s, i, e)) = Len(s) + 1
         /\ \A j \in 1 .. (Len(s) + 1) :
              InsertAt(s, i, e)[j] = IF j < i THEN s[j] ELSE IF j = i THEN e ELSE s[j - 1]
<1> DEFINE before == SubSeq(s, 1, i - 1)
           after == SubSeq(s, i, Len(s))
<1>1. /\ before \in Seq(S) /\ Len(before) = i - 1
      /\ \A j \in 1 .. (i - 1) : before[j] = s[j]
  BY PartOf
<1>2. /\ after \in Seq(S) /\ Len(after) = Len(s) - i + 1
      /\ \A j \in 1 .. (Len(s) - i + 1) : after[j] = s[i + j - 1]
  BY PartOf
<1>3. InsertAt(s, i, e) = before \o <<e>> \o after
  BY DEF InsertAt
<1> HIDE DEF before, after
<1>4. <<e>> \in Seq(S) /\ Len(<<e>>) = 1 /\ <<e>>[1] = e
  OBVIOUS
<1>5. /\ before \o <<e>> \in Seq(S) /\ Len(before \o <<e>>) = i
      /\ \A j \in 1 .. i : (before \o <<e>>)[j] = IF j <= i - 1 THEN before[j] ELSE e
  BY <1>1, <1>4, Joined
<1>6. /\ before \o <<e>> \o after \in Seq(S) /\ Len(before \o <<e>> \o after) = Len(s) + 1
      /\ \A j \in 1 .. (Len(s) + 1) :
           (before \o <<e>> \o after)[j] = IF j <= i THEN (before \o <<e>>)[j] ELSE after[j - i]
  <2> DEFINE front == before \o <<e>>
  <2>1. front \in Seq(S) /\ Len(front) = i
    BY <1>5
  <2> HIDE DEF front
  <2>2. /\ front \o after \in Seq(S) /\ Len(front \o after) = i + (Len(s) - i + 1)
        /\ \A j \in 1 .. (i + (Len(s) - i + 1)) :
             (front \o after)[j] = IF j <= i THEN front[j] ELSE after[j - i]
    BY <1>2, <2>1, Joined
  <2>3. i + (Len(s) - i + 1) = Len(s) + 1
    OBVIOUS
  <2>4. \A j \in 1 .. (Len(s) + 1) : (front \o after)[j] = IF j <= i THEN front[j] ELSE after[j - i]
    BY <2>2, <2>3
  <2>5. front \o after \in Seq(S) /\ Len(front \o after) = Len(s) + 1
    BY <2>2, <2>3
  <2> QED
    BY <2>4, <2>5, Zenon DEF front
<1>7. ASSUME NEW j \in 1 .. (Len(s) + 1)
      PROVE  (before \o <<e>> \o after)[j] = IF j < i THEN s[j] ELSE IF j = i THEN e ELSE s[j - 1]
  BY <1>1, <1>2, <1>5, <1>6
<1> QED
  BY <1>3, <1>6, <1>7

InsertIs(S, s, i, e, t) ==
  /\ t \in Seq(S) /\ Len(t) = Len(s) + 1
  /\ \A j \in 1 .. (Len(s) + 1) : t[j] = IF j < i THEN s[j] ELSE IF j = i THEN e ELSE s[j - 1]

\* The same, in one word.
LEMMA InsertedIs ==
  ASSUME NEW S, NEW s, NEW i, NEW e, s \in Seq(S), i \in 1 .. (Len(s) + 1), e \in S
  PROVE  InsertIs(S, s, i, e, InsertAt(s, i, e))
<1>1. s \in Seq(S) /\ e \in S /\ i \in 1 .. (Len(s) + 1)
  OBVIOUS
<1>2. /\ InsertAt(s, i, e) \in Seq(S) /\ Len(InsertAt(s, i, e)) = Len(s) + 1
      /\ \A j \in 1 .. (Len(s) + 1) :
           InsertAt(s, i, e)[j] = IF j < i THEN s[j] ELSE IF j = i THEN e ELSE s[j - 1]
  BY <1>1, Inserted
<1> QED
  BY <1>2, Zenon DEF InsertIs

\* A sequence with one more element at its end.
LEMMA Appended ==
  ASSUME NEW S, NEW s \in Seq(S), NEW e \in S
  PROVE  /\ Append(s, e) \in Seq(S) /\ Len(Append(s, e)) = Len(s) + 1
         /\ \A j \in 1 .. Len(s) : Append(s, e)[j] = s[j]
         /\ Append(s, e)[Len(s) + 1] = e
OBVIOUS

\* A sequence without its last element, and without its first.
LEMMA EndsRemoved ==
  ASSUME NEW S, NEW s \in Seq(S), s # << >>
  PROVE  /\ Front(s) \in Seq(S) /\ Len(Front(s)) = Len(s) - 1
         /\ \A j \in 1 .. (Len(s) - 1) : Front(s)[j] = s[j]
         /\ Tail(s) \in Seq(S) /\ Len(Tail(s)) = Len(s) - 1
         /\ \A j \in 1 .. (Len(s) - 1) : Tail(s)[j] = s[j + 1]
<1>1. Len(s) \in Nat /\ Len(s) > 0
  OBVIOUS
<1>2. /\ Front(s) \in Seq(S) /\ Len(Front(s)) = Len(s) - 1
      /\ \A j \in 1 .. (Len(s) - 1) : Front(s)[j] = s[j]
  <2>0. Len(s) - 1 \in 0 .. Len(s)
    BY <1>1
  <2>1. PICK n \in 0 .. Len(s) : n = Len(s) - 1
    BY <2>0, Zenon
  <2>2. /\ SubSeq(s, 1, n) \in Seq(S) /\ Len(SubSeq(s, 1, n)) = n
        /\ \A j \in 1 .. n : SubSeq(s, 1, n)[j] = s[j]
    <3>1. \A i \in 1 .. n : s[i] \in S
      BY <2>1
    <3>2. /\ SubSeq(s, 1, n) \in Seq(S)
          /\ Len(SubSeq(s, 1, n)) = IF 1 <= n THEN n - 1 + 1 ELSE 0
          /\ \A i \in 1 .. (n - 1 + 1) : SubSeq(s, 1, n)[i] = s[1 + i - 1]
      BY <3>1, SubSeqProperties
    <3>3. n - 1 + 1 = n /\ n \in Nat
      OBVIOUS
    <3> QED
      BY <3>2, <3>3
  <2>3. Front(s) = SubSeq(s, 1, n)
    BY <2>1 DEF Front
  <2> HIDE DEF Front
  <2> QED
    BY <1>1, <2>1, <2>2, <2>3
<1>3. /\ Tail(s) \in Seq(S) /\ Len(Tail(s)) = Len(s) - 1
      /\ \A j \in 1 .. (Len(s) - 1) : Tail(s)[j] = s[j + 1]
  BY HeadTailProperties
<1> QED
  BY <1>2, <1>3

\* A sequence read backward.
LEMMA Reversed ==
  ASSUME NEW S, NEW s \in Seq(S)
  PROVE  /\ Reverse(s) \in Seq(S) /\ Len(Reverse(s)) = Len(s)
         /\ \A j \in 1 .. Len(s) : Reverse(s)[j] = s[Len(s) - j + 1]
BY DEF Reverse

=============================================================================
