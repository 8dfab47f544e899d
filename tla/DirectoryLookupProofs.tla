------------------------- MODULE DirectoryLookupProofs -------------------------
(***************************************************************************)
(* Theorems about DirectoryLookup, for any names, clusters and depths: the *)
(* list and the map of the directory cache agree; and, for a user who is   *)
(* careful, what is cached is true, so that every lookup leads where the   *)
(* volume alone would.                                                     *)
(***************************************************************************)
EXTENDS DirectoryLookup, DataLemmas

Addresses == Clusters \X Indices
SlotValues == [name : Components \cup {NoName}, first : Clusters]
CacheEntries == [cluster : Clusters, address : Addresses, path : Seq(Components)]

Knows(c) == {c.list[i] : i \in 1 .. Len(c.list)}

\* The list of a cache and the keys of its map, on any values of its index.
CacheSound(c) ==
  /\ c = [list |-> c.list, keys |-> c.keys, index |-> c.index]
  /\ c.list \in Seq(CacheEntries) /\ Len(c.list) <= MaxCached
  /\ \A i, j \in 1 .. Len(c.list) : c.list[i].cluster = c.list[j].cluster => i = j
  /\ c.keys = {c.list[i].cluster : i \in 1 .. Len(c.list)}

\* A sound cache that knows nothing but what c knew, and more.
Kept(c, r, more) == CacheSound(r) /\ Knows(r) \subseteq Knows(c) \cup more

-----------------------------------------------------------------------------
(* The methods of the cache.                                               *)

(* A cache is sound if its list and keys are, whatever its index.          *)
LEMMA SoundIf ==
  ASSUME NEW c, c = [list |-> c.list, keys |-> c.keys, index |-> c.index],
         NEW s \in Seq(CacheEntries), s = c.list, Len(s) <= MaxCached,
         \A i, j \in 1 .. Len(s) : s[i].cluster = s[j].cluster => i = j,
         \A i \in 1 .. Len(s) : s[i].cluster \in c.keys,
         \A k \in c.keys : \E i \in 1 .. Len(s) : s[i].cluster = k
  PROVE  CacheSound(c)
BY DEF CacheSound

(* The empty cache.                                                        *)
LEMMA EmptyIsSound == CacheSound(EmptyCache) /\ Knows(EmptyCache) = {}
BY CacheAssumption DEF CacheSound, EmptyCache, Knows

(* What a sound cache says.                                                *)
LEMMA SoundFacts ==
  ASSUME NEW c, CacheSound(c)
  PROVE  /\ c = [list |-> c.list, keys |-> c.keys, index |-> c.index]
         /\ c.list \in Seq(CacheEntries) /\ Len(c.list) \in Nat /\ Len(c.list) <= MaxCached
         /\ DOMAIN c.list = 1 .. Len(c.list)
         /\ \A i, j \in 1 .. Len(c.list) : c.list[i].cluster = c.list[j].cluster => i = j
         /\ \A i \in 1 .. Len(c.list) : c.list[i].cluster \in c.keys
         /\ \A k \in c.keys : Position(c, k) \in 1 .. Len(c.list)
                              /\ c.list[Position(c, k)].cluster = k
BY DEF CacheSound, Position

\* Where the element number j of a list was before its element number p moved to the front.
Before(p, j) == IF j = 1 THEN p ELSE IF j <= p THEN j - 1 ELSE j
After(p, i) == IF i = p THEN 1 ELSE IF i < p THEN i + 1 ELSE i

Places(n, p) ==
  /\ \A j \in 1 .. n : Before(p, j) \in 1 .. n
  /\ \A i, j \in 1 .. n : Before(p, i) = Before(p, j) => i = j
  /\ \A i \in 1 .. n : After(p, i) \in 1 .. n /\ Before(p, After(p, i)) = i

(* Moving an element keeps them all, once each.                            *)
LEMMA PlacesMoved ==
  ASSUME NEW n \in Nat, NEW p \in 1 .. n
  PROVE  Places(n, p)
BY DEF Places, Before, After

\* The list with its element number p in front.
Moved(s, p) == <<s[p]>> \o RemoveAt(s, p)
IsMoved(S, s, n, p, t) ==
  t \in Seq(S) /\ Len(t) = n /\ \A j \in 1 .. n : t[j] = s[Before(p, j)]

(* It has the elements in the order of Before.                             *)
LEMMA ElementMoved ==
  ASSUME NEW S, NEW s \in Seq(S), NEW n \in Nat, n = Len(s), NEW p \in 1 .. n
  PROVE  IsMoved(S, s, n, p, Moved(s, p))
<1>0. PICK t : t = <<s[p]>> \o RemoveAt(s, p)
  OBVIOUS
<1>1. PICK rest : rest = RemoveAt(s, p)
  OBVIOUS
<1>2. /\ rest \in Seq(S) /\ Len(rest) = n - 1
      /\ \A j \in 1 .. (n - 1) : rest[j] = IF j < p THEN s[j] ELSE s[j + 1]
  BY <1>1, Removed
<1>3. s[p] \in S /\ (n - 1) + 1 = n
  OBVIOUS
<1>4. /\ t \in Seq(S) /\ Len(t) = n
      /\ \A j \in 1 .. n : t[j] = IF j = 1 THEN s[p] ELSE rest[j - 1]
  BY <1>0, <1>1, <1>2, <1>3, FrontAdded
<1>5. ASSUME NEW j \in 1 .. n
      PROVE  t[j] = s[Before(p, j)]
  <2>1. CASE j = 1
    BY <1>4, <2>1 DEF Before
  <2>2. CASE j # 1
    <3>1. j - 1 \in 1 .. (n - 1) /\ (j - 1 < p <=> j <= p) /\ (j - 1) + 1 = j
      BY <2>2
    <3> QED
      BY <1>2, <1>4, <2>2, <3>1 DEF Before
  <2> QED
    BY <2>1, <2>2
<1> QED
  BY <1>0, <1>4, <1>5 DEF IsMoved, Moved

(* Finding a cluster moves its entry to the front.                         *)
LEMMA MoveFrontKeeps ==
  ASSUME NEW c, CacheSound(c), NEW k \in c.keys
  PROVE  /\ Kept(c, MoveFront(c, k), {})
         /\ MoveFront(c, k).keys = c.keys /\ MoveFront(c, k).index = c.index
         /\ Head(MoveFront(c, k).list) \in Knows(MoveFront(c, k))
         /\ Head(MoveFront(c, k).list).cluster = k
<1>1. PICK s, n, p : s = c.list /\ n = Len(s) /\ p = Position(c, k)
  OBVIOUS
<1>2. /\ s \in Seq(CacheEntries) /\ n \in Nat /\ n = Len(s) /\ n <= MaxCached
      /\ p \in 1 .. n /\ s[p].cluster = k
  BY <1>1, SoundFacts
<1>3. \A i, j \in 1 .. n : s[i].cluster = s[j].cluster => i = j
  BY <1>1, SoundFacts
<1>4. \A i \in 1 .. n : s[i].cluster \in c.keys
  BY <1>1, SoundFacts
<1>5. \A l \in c.keys : \E i \in 1 .. n : s[i].cluster = l
  BY <1>1, SoundFacts
<1>6. PICK t : t = Moved(s, p)
  OBVIOUS
<1>7. IsMoved(CacheEntries, s, n, p, t)
  BY <1>2, <1>6, ElementMoved
<1>8. t \in Seq(CacheEntries) /\ Len(t) = n
  BY <1>7 DEF IsMoved
<1>9. \A j \in 1 .. n : t[j] = s[Before(p, j)]
  BY <1>7 DEF IsMoved
<1>10. /\ \A j \in 1 .. n : Before(p, j) \in 1 .. n
       /\ \A i, j \in 1 .. n : Before(p, i) = Before(p, j) => i = j
       /\ \A i \in 1 .. n : After(p, i) \in 1 .. n /\ Before(p, After(p, i)) = i
  <2>1. Places(n, p)
    BY <1>2, PlacesMoved
  <2> QED
    BY <2>1 DEF Places
<1>11. PICK r : r = MoveFront(c, k)
  OBVIOUS
<1>12. r = [c EXCEPT !.list = t]
  <2>1. MoveFront(c, k) = [c EXCEPT !.list = Moved(c.list, Position(c, k))]
    BY DEF MoveFront, Moved
  <2> QED
    BY <1>1, <1>6, <1>11, <2>1
<1>13. /\ r = [list |-> r.list, keys |-> r.keys, index |-> r.index]
       /\ r.list = t /\ r.keys = c.keys /\ r.index = c.index
  <2>1. c = [list |-> c.list, keys |-> c.keys, index |-> c.index]
    BY SoundFacts
  <2> QED
    BY <1>12, <2>1
<1>14. CacheSound(r)
  <2>1. ASSUME NEW i \in 1 .. n
        PROVE  t[i].cluster \in r.keys
    BY <1>4, <1>9, <1>10, <1>13, <2>1
  <2>2. ASSUME NEW l \in r.keys
        PROVE  \E i \in 1 .. n : t[i].cluster = l
    <3>1. PICK i \in 1 .. n : s[i].cluster = l
      BY <1>5, <1>13, <2>2
    <3> QED
      BY <1>9, <1>10, <3>1
  <2>3. ASSUME NEW i \in 1 .. n, NEW j \in 1 .. n, t[i].cluster = t[j].cluster
        PROVE  i = j
    <3>1. s[Before(p, i)].cluster = s[Before(p, j)].cluster
      BY <1>9, <2>3
    <3>2. Before(p, i) \in 1 .. n /\ Before(p, j) \in 1 .. n
      BY <1>10
    <3> QED
      BY <1>3, <1>10, <3>1, <3>2
  <2>4. Len(t) <= MaxCached
    BY <1>2, <1>8
  <2> QED
    BY <1>8, <1>13, <2>1, <2>2, <2>3, <2>4, SoundIf, SMTT(60)
<1>15. Knows(r) = {t[i] : i \in 1 .. n} /\ Knows(c) = {s[i] : i \in 1 .. n}
  BY <1>1, <1>8, <1>13 DEF Knows
<1>16. Knows(r) \subseteq Knows(c)
  <2>1. ASSUME NEW i \in 1 .. n
        PROVE  t[i] \in Knows(c)
    BY <1>9, <1>10, <1>15
  <2> QED
    BY <1>15, <2>1
<1>17. 1 \in 1 .. n /\ Before(p, 1) = p
  BY <1>2 DEF Before
<1>18. Head(t) = t[1] /\ t[1] = s[p]
  BY <1>8, <1>9, <1>17
<1>19. Head(t) \in Knows(r) /\ Head(t).cluster = k
  BY <1>2, <1>15, <1>17, <1>18
<1> QED
  BY <1>11, <1>13, <1>14, <1>16, <1>19 DEF Kept

\* A list without its last entry, and with one more in front.
LEMMA EvictLastKeeps ==
  ASSUME NEW c, CacheSound(c), c.list # << >>
  PROVE  Kept(c, EvictLast(c), {}) /\ Len(EvictLast(c).list) < MaxCached
         /\ EvictLast(c).keys \subseteq c.keys
<1>1. PICK s, n : s = c.list /\ n = Len(s)
  OBVIOUS
<1>2. /\ s \in Seq(CacheEntries) /\ n \in Nat \ {0} /\ n = Len(s) /\ n <= MaxCached /\ MaxCached \in Nat
  BY <1>1, SoundFacts, CacheAssumption
<1>3. \A i, j \in 1 .. n : s[i].cluster = s[j].cluster => i = j
  BY <1>1, SoundFacts
<1>4. \A i \in 1 .. n : s[i].cluster \in c.keys
  BY <1>1, SoundFacts
<1>5. \A l \in c.keys : \E i \in 1 .. n : s[i].cluster = l
  BY <1>1, SoundFacts
<1>6. PICK t : t = Front(s)
  OBVIOUS
<1>7. t \in Seq(CacheEntries) /\ Len(t) = n - 1 /\ \A j \in 1 .. (n - 1) : t[j] = s[j]
  BY <1>1, <1>2, <1>6, EndsRemoved
<1>8. Last(s) = s[n]
  BY <1>2 DEF Last
<1>9. PICK r : r = EvictLast(c)
  OBVIOUS
<1>10. /\ r = [list |-> r.list, keys |-> r.keys, index |-> r.index]
       /\ r.list = t /\ r.keys = c.keys \ {s[n].cluster}
  <2>1. EvictLast(c) = [c EXCEPT !.list = Front(c.list), !.keys = c.keys \ {Last(c.list).cluster}]
    BY DEF EvictLast
  <2>2. c = [list |-> c.list, keys |-> c.keys, index |-> c.index]
    BY SoundFacts
  <2> QED
    BY <1>1, <1>6, <1>8, <1>9, <2>1, <2>2
<1>11. CacheSound(r)
  <2>1. ASSUME NEW i \in 1 .. (n - 1)
        PROVE  t[i].cluster \in r.keys
    <3>1. i \in 1 .. n /\ n \in 1 .. n /\ i # n
      BY <1>2
    <3> QED
      BY <1>3, <1>4, <1>7, <1>10, <3>1
  <2>2. ASSUME NEW l \in r.keys
        PROVE  \E i \in 1 .. (n - 1) : t[i].cluster = l
    <3>1. PICK i \in 1 .. n : s[i].cluster = l
      BY <1>5, <1>10, <2>2
    <3>2. i \in 1 .. (n - 1)
      BY <1>2, <1>10, <2>2, <3>1
    <3> QED
      BY <1>7, <3>1, <3>2
  <2>3. ASSUME NEW i \in 1 .. (n - 1), NEW j \in 1 .. (n - 1), t[i].cluster = t[j].cluster
        PROVE  i = j
    <3>1. i \in 1 .. n /\ j \in 1 .. n
      BY <1>2
    <3> QED
      BY <1>3, <1>7, <2>3, <3>1
  <2>4. Len(t) <= MaxCached
    BY <1>2, <1>7
  <2> QED
    BY <1>7, <1>10, <2>1, <2>2, <2>3, <2>4, SoundIf
<1>12. Knows(r) = {t[i] : i \in 1 .. (n - 1)} /\ Knows(c) = {s[i] : i \in 1 .. n}
  BY <1>1, <1>7, <1>10 DEF Knows
<1>13. Knows(r) \subseteq Knows(c)
  <2>1. ASSUME NEW i \in 1 .. (n - 1)
        PROVE  t[i] \in Knows(c)
    <3>1. i \in 1 .. n
      BY <1>2
    <3> QED
      BY <1>7, <1>12, <3>1
  <2> QED
    BY <1>12, <2>1
<1>14. Len(t) < MaxCached
  BY <1>2, <1>7
<1> QED
  BY <1>9, <1>10, <1>11, <1>13, <1>14 DEF Kept

(* Adding an entry of a cluster that is not known.                         *)
LEMMA LruAddKeeps ==
  ASSUME NEW c, CacheSound(c), NEW e \in CacheEntries, e.cluster \notin c.keys
  PROVE  Kept(c, LruAdd(c, e), {e})
<1>1. PICK room : room = InsureSpaceExists(c)
  OBVIOUS
<1>2. Kept(c, room, {}) /\ Len(room.list) < MaxCached /\ room.keys \subseteq c.keys
  <2>1. CASE Len(c.list) >= MaxCached
    <3>1. c.list # << >>
      BY <2>1, CacheAssumption
    <3> QED
      BY <1>1, <2>1, <3>1, EvictLastKeeps DEF InsureSpaceExists
  <2>2. CASE ~(Len(c.list) >= MaxCached)
    <3>1. Len(c.list) < MaxCached
      BY <2>2, SoundFacts, CacheAssumption
    <3> QED
      BY <1>1, <2>2, <3>1 DEF InsureSpaceExists, Kept
  <2> QED
    BY <2>1, <2>2
<1>3. PICK s, n : s = room.list /\ n = Len(s)
  OBVIOUS
<1>4. CacheSound(room)
  BY <1>2 DEF Kept
<1>5. s \in Seq(CacheEntries) /\ n \in Nat /\ n = Len(s) /\ n < MaxCached /\ MaxCached \in Nat
  BY <1>2, <1>3, <1>4, SoundFacts, CacheAssumption
<1>6. \A i, j \in 1 .. n : s[i].cluster = s[j].cluster => i = j
  BY <1>3, <1>4, SoundFacts
<1>7. \A i \in 1 .. n : s[i].cluster \in room.keys
  BY <1>3, <1>4, SoundFacts
<1>8. \A l \in room.keys : \E i \in 1 .. n : s[i].cluster = l
  BY <1>3, <1>4, SoundFacts
<1>9. PICK t : t = <<e>> \o s
  OBVIOUS
<1>10. /\ t \in Seq(CacheEntries) /\ Len(t) = n + 1
       /\ \A j \in 1 .. (n + 1) : t[j] = IF j = 1 THEN e ELSE s[j - 1]
  BY <1>5, <1>9, FrontAdded
<1>11. PICK r : r = LruAdd(c, e)
  OBVIOUS
<1>12. /\ r = [list |-> r.list, keys |-> r.keys, index |-> r.index]
       /\ r.list = t /\ r.keys = room.keys \cup {e.cluster}
  <2>1. LruAdd(c, e) = [room EXCEPT !.list = <<e>> \o room.list, !.keys = room.keys \cup {e.cluster}]
    BY <1>1 DEF LruAdd
  <2>2. room = [list |-> room.list, keys |-> room.keys, index |-> room.index]
    BY <1>4, SoundFacts
  <2> QED
    BY <1>3, <1>9, <1>11, <2>1, <2>2
<1>13. CacheSound(r)
  <2>1. ASSUME NEW i \in 1 .. (n + 1)
        PROVE  t[i].cluster \in r.keys
    <3>1. i = 1 \/ i - 1 \in 1 .. n
      BY <1>5
    <3> QED
      BY <1>7, <1>10, <1>12, <3>1
  <2>2. ASSUME NEW l \in r.keys
        PROVE  \E i \in 1 .. (n + 1) : t[i].cluster = l
    <3>1. CASE l = e.cluster
      <4>1. 1 \in 1 .. (n + 1)
        BY <1>5
      <4> QED
        BY <1>10, <3>1, <4>1
    <3>2. CASE l # e.cluster
      <4>1. PICK i \in 1 .. n : s[i].cluster = l
        BY <1>8, <1>12, <2>2, <3>2
      <4>2. i + 1 \in 1 .. (n + 1) /\ i + 1 # 1 /\ (i + 1) - 1 = i
        BY <1>5
      <4> QED
        BY <1>10, <4>1, <4>2
    <3> QED
      BY <3>1, <3>2
  <2>3. ASSUME NEW i \in 1 .. (n + 1), NEW j \in 1 .. (n + 1), t[i].cluster = t[j].cluster
        PROVE  i = j
    <3>1. /\ i # 1 => i - 1 \in 1 .. n /\ t[i] = s[i - 1]
          /\ j # 1 => j - 1 \in 1 .. n /\ t[j] = s[j - 1]
          /\ i = 1 => t[i] = e
          /\ j = 1 => t[j] = e
      BY <1>5, <1>10
    <3>2. \A k \in 1 .. n : s[k].cluster # e.cluster
      BY <1>2, <1>7
    <3>3. (i = 1) <=> (j = 1)
      BY <2>3, <3>1, <3>2
    <3>4. CASE i # 1
      <4>1. i - 1 = j - 1
        BY <1>6, <2>3, <3>1, <3>3, <3>4
      <4> QED
        BY <4>1
    <3> QED
      BY <3>3, <3>4
  <2>4. Len(t) <= MaxCached
    BY <1>5, <1>10
  <2> QED
    BY <1>10, <1>12, <2>1, <2>2, <2>3, <2>4, SoundIf
<1>14. Knows(r) = {t[i] : i \in 1 .. (n + 1)} /\ Knows(room) = {s[i] : i \in 1 .. n}
  BY <1>3, <1>10, <1>12 DEF Knows
<1>15. Knows(r) \subseteq Knows(room) \cup {e}
  <2>1. ASSUME NEW i \in 1 .. (n + 1)
        PROVE  t[i] \in Knows(room) \cup {e}
    <3>1. i = 1 \/ i - 1 \in 1 .. n
      BY <1>5
    <3> QED
      BY <1>10, <1>14, <3>1
  <2> QED
    BY <1>14, <2>1
<1> QED
  BY <1>2, <1>11, <1>13, <1>15 DEF Kept

(* Removing what is known of a cluster.                                    *)
LEMMA LruRemoveKeeps ==
  ASSUME NEW c, CacheSound(c), NEW k \in c.keys
  PROVE  /\ Kept(c, LruRemove(c, k), {})
         /\ \A e \in Knows(LruRemove(c, k)) : e.cluster # k
<1>1. PICK s, n, p : s = c.list /\ n = Len(s) /\ p = Position(c, k)
  OBVIOUS
<1>2. /\ s \in Seq(CacheEntries) /\ n \in Nat /\ n = Len(s) /\ n <= MaxCached /\ MaxCached \in Nat
      /\ p \in 1 .. n /\ s[p].cluster = k
  BY <1>1, SoundFacts, CacheAssumption
<1>3. \A i, j \in 1 .. n : s[i].cluster = s[j].cluster => i = j
  BY <1>1, SoundFacts
<1>4. \A i \in 1 .. n : s[i].cluster \in c.keys
  BY <1>1, SoundFacts
<1>5. \A l \in c.keys : \E i \in 1 .. n : s[i].cluster = l
  BY <1>1, SoundFacts
<1>6. PICK t : t = RemoveAt(s, p)
  OBVIOUS
<1>7. /\ t \in Seq(CacheEntries) /\ Len(t) = n - 1
      /\ \A j \in 1 .. (n - 1) : t[j] = IF j < p THEN s[j] ELSE s[j + 1]
  BY <1>2, <1>6, Removed
<1>8. PICK r : r = LruRemove(c, k)
  OBVIOUS
<1>9. /\ r = [list |-> r.list, keys |-> r.keys, index |-> r.index]
      /\ r.list = t /\ r.keys = c.keys \ {k}
  <2>1. LruRemove(c, k) = [c EXCEPT !.list = RemoveAt(c.list, Position(c, k)), !.keys = c.keys \ {k}]
    BY DEF LruRemove
  <2>2. c = [list |-> c.list, keys |-> c.keys, index |-> c.index]
    BY SoundFacts
  <2> QED
    BY <1>1, <1>6, <1>8, <2>1, <2>2
<1>10. ASSUME NEW i \in 1 .. (n - 1)
       PROVE  \E j \in 1 .. n : j # p /\ t[i] = s[j] /\ j = IF i < p THEN i ELSE i + 1
  <2>1. CASE i < p
    BY <1>2, <1>7, <2>1
  <2>2. CASE ~(i < p)
    <3>1. i + 1 \in 1 .. n /\ i + 1 # p
      BY <1>2, <2>2
    <3> QED
      BY <1>7, <2>2, <3>1
  <2> QED
    BY <2>1, <2>2
<1>11. CacheSound(r)
  <2>1. ASSUME NEW i \in 1 .. (n - 1)
        PROVE  t[i].cluster \in r.keys
    <3>1. PICK j \in 1 .. n : j # p /\ t[i] = s[j]
      BY <1>10
    <3>2. s[j].cluster # k /\ s[j].cluster \in c.keys
      BY <1>2, <1>3, <1>4, <3>1
    <3> QED
      BY <1>9, <3>1, <3>2
  <2>2. ASSUME NEW l \in r.keys
        PROVE  \E i \in 1 .. (n - 1) : t[i].cluster = l
    <3>1. PICK i \in 1 .. n : s[i].cluster = l
      BY <1>5, <1>9, <2>2
    <3>2. i # p
      BY <1>2, <1>9, <2>2, <3>1
    <3>3. CASE i < p
      <4>1. i \in 1 .. (n - 1)
        BY <1>2, <3>3
      <4> QED
        BY <1>7, <3>1, <3>3, <4>1
    <3>4. CASE i > p
      <4>1. i - 1 \in 1 .. (n - 1) /\ ~(i - 1 < p) /\ (i - 1) + 1 = i
        BY <1>2, <3>4
      <4> QED
        BY <1>7, <3>1, <4>1
    <3> QED
      BY <1>2, <3>2, <3>3, <3>4
  <2>3. ASSUME NEW i \in 1 .. (n - 1), NEW j \in 1 .. (n - 1), t[i].cluster = t[j].cluster
        PROVE  i = j
    <3>1. PICK i2 \in 1 .. n : t[i] = s[i2] /\ i2 = IF i < p THEN i ELSE i + 1
      BY <1>10
    <3>2. PICK j2 \in 1 .. n : t[j] = s[j2] /\ j2 = IF j < p THEN j ELSE j + 1
      BY <1>10
    <3>3. i2 = j2
      BY <1>3, <2>3, <3>1, <3>2
    <3> QED
      BY <1>2, <3>1, <3>2, <3>3
  <2>4. Len(t) <= MaxCached
    BY <1>2, <1>7
  <2> QED
    BY <1>7, <1>9, <2>1, <2>2, <2>3, <2>4, SoundIf
<1>12. Knows(r) = {t[i] : i \in 1 .. (n - 1)} /\ Knows(c) = {s[i] : i \in 1 .. n}
  BY <1>1, <1>7, <1>9 DEF Knows
<1>13. ASSUME NEW e \in Knows(r)
       PROVE  e \in Knows(c) /\ e.cluster # k
  <2>1. PICK i \in 1 .. (n - 1) : e = t[i]
    BY <1>12
  <2>2. PICK j \in 1 .. n : j # p /\ t[i] = s[j]
    BY <1>10
  <2>3. s[j].cluster # k
    BY <1>2, <1>3, <2>2
  <2> QED
    BY <1>12, <2>1, <2>2, <2>3
<1> QED
  BY <1>8, <1>11, <1>13 DEF Kept

(* The index is nothing that a sound cache speaks of.                      *)
LEMMA IndexIsFree ==
  ASSUME NEW c, NEW d, NEW more, Kept(c, d, more), NEW index
  PROVE  Kept(c, [d EXCEPT !.index = index], more)
<1>1. PICK r : r = [d EXCEPT !.index = index]
  OBVIOUS
<1>2. d = [list |-> d.list, keys |-> d.keys, index |-> d.index]
  BY SoundFacts DEF Kept
<1>3. r = [list |-> r.list, keys |-> r.keys, index |-> r.index] /\ r.list = d.list /\ r.keys = d.keys
  BY <1>1, <1>2
<1> QED
  BY <1>1, <1>3 DEF Kept, CacheSound, Knows

(* Adding an entry.                                                        *)
LEMMA AddEntryKeeps ==
  ASSUME NEW c, CacheSound(c), NEW e \in CacheEntries
  PROVE  Kept(c, AddEntry(c, e), {e})
<1>1. CASE e.cluster \in c.keys
  BY <1>1, MoveFrontKeeps DEF AddEntry, Kept
<1>2. CASE e.cluster \notin c.keys /\ e.path \in DOMAIN c.index
  BY <1>2 DEF AddEntry, Kept
<1>3. CASE e.cluster \notin c.keys /\ e.path \notin DOMAIN c.index
  <2>1. PICK d, index : d = LruAdd(c, e) /\ index = d.index @@ (e.path :> e.cluster)
    OBVIOUS
  <2>2. AddEntry(c, e) = [d EXCEPT !.index = index]
    BY <1>3, <2>1 DEF AddEntry
  <2> QED
    BY <1>3, <2>1, <2>2, LruAddKeeps, IndexIsFree
<1> QED
  BY <1>1, <1>2, <1>3

(* Removing what is known of a cluster, if anything is.                    *)
LEMMA RemoveEntryKeeps ==
  ASSUME NEW c, CacheSound(c), NEW k
  PROVE  /\ Kept(c, RemoveEntry(c, k), {})
         /\ \A e \in Knows(RemoveEntry(c, k)) : e.cluster # k
<1>1. CASE k \in c.keys
  <2>1. PICK d, path : d = LruRemove(c, k) /\ path = c.list[Position(c, k)].path
    OBVIOUS
  <2>2. PICK index : index = Restrict(d.index, DOMAIN d.index \ {path})
    OBVIOUS
  <2>3. RemoveEntry(c, k) = [d EXCEPT !.index = index]
    BY <1>1, <2>1, <2>2 DEF RemoveEntry
  <2>4. Kept(c, d, {}) /\ \A e \in Knows(d) : e.cluster # k
    BY <1>1, <2>1, LruRemoveKeeps
  <2>5. [d EXCEPT !.index = index].list = d.list
    BY <2>4, SoundFacts DEF Kept
  <2> QED
    BY <2>3, <2>4, <2>5, IndexIsFree DEF Knows
<1>2. CASE k \notin c.keys
  <2>1. RemoveEntry(c, k) = c
    BY <1>2 DEF RemoveEntry
  <2>2. \A e \in Knows(c) : e.cluster \in c.keys
    BY SoundFacts DEF Knows
  <2> QED
    BY <1>2, <2>1, <2>2 DEF Kept
<1> QED
  BY <1>1, <1>2

(* Finding a path: what is found is known, under that path.                *)
LEMMA FindEntryKeeps ==
  ASSUME NEW c, CacheSound(c), NEW path
  PROVE  /\ Kept(c, FindEntry(c, path).cache, {})
         /\ FindEntry(c, path).outcome \in Outcomes
         /\ FindEntry(c, path).outcome = "found" =>
              /\ Head(FindEntry(c, path).cache.list) \in Knows(c)
              /\ Head(FindEntry(c, path).cache.list).path = path
<1>1. CASE path \notin DOMAIN c.index
  BY <1>1 DEF FindEntry, Kept, Outcomes
<1>2. CASE path \in DOMAIN c.index /\ c.index[path] \notin c.keys
  BY <1>2, EmptyIsSound DEF FindEntry, Kept, Outcomes
<1>3. CASE path \in DOMAIN c.index /\ c.index[path] \in c.keys
  <2>1. PICK k, r : k = c.index[path] /\ r = MoveFront(c, k)
    OBVIOUS
  <2>2. Kept(c, r, {}) /\ Head(r.list) \in Knows(r)
    BY <1>3, <2>1, MoveFrontKeeps
  <2>3. FindEntry(c, path) =
          [outcome |-> IF Head(r.list).path = path THEN "found" ELSE "missed", cache |-> r]
    BY <1>3, <2>1 DEF FindEntry
  <2> QED
    BY <2>2, <2>3 DEF Kept, Outcomes
<1> QED
  BY <1>1, <1>2, <1>3

-----------------------------------------------------------------------------
(* The lookups.  They know, and reach, nothing but what is in a set T of   *)
(* entries that contains, with a directory, every entry of it whose name   *)
(* is in a set N.                                                          *)

In(d, T) ==
  d = RootDirectory \/ ( /\ d = Directory(d.path, d.address, d.first)
                         /\ CacheEntry(d.first, d.address, d.path) \in T)

Below(d, name) ==
  LET a == First(FindDirectoryEntry(d.first, name))
  IN CacheEntry(EntryAt(a).first, a, Append(d.path, name))

Closed(T, N) ==
  /\ T \subseteq CacheEntries /\ N \subseteq Components
  /\ \A d, name : In(d, T) /\ name \in N /\ FindDirectoryEntry(d.first, name) # {}
                    => Below(d, name) \in T

Good(l, T) ==
  /\ l = Lookup(l.outcome, l.cache, l.directory)
  /\ l.outcome \in Outcomes \cup {"not_found"}
  /\ CacheSound(l.cache) /\ Knows(l.cache) \subseteq T
  /\ In(l.directory, T)

(* A lookup is good if its parts are.                                      *)
LEMMA GoodIf ==
  ASSUME NEW T, NEW l, NEW o \in Outcomes \cup {"not_found"}, NEW c, NEW d, l = Lookup(o, c, d),
         CacheSound(c), Knows(c) \subseteq T, In(d, T)
  PROVE  Good(l, T) /\ l.outcome = o /\ l.cache = c /\ l.directory = d
BY DEF Good, Lookup

(* The directory of an entry.                                              *)
LEMMA EntryIsIn ==
  ASSUME NEW T \in SUBSET CacheEntries, NEW e \in T
  PROVE  /\ In(Directory(e.path, e.address, e.cluster), T)
         /\ Directory(e.path, e.address, e.cluster).path = e.path
BY DEF In, Directory, CacheEntry, CacheEntries

(* A directory that is reached is one.                                     *)
LEMMA InFacts ==
  ASSUME NEW T \in SUBSET CacheEntries, NEW d, In(d, T)
  PROVE  d.first \in Clusters /\ d.path \in Seq(Components)
         /\ d = Directory(d.path, d.address, d.first)
<1>1. CASE d = RootDirectory
  BY <1>1, LookupAssumption DEF RootDirectory, Directory
<1>2. CASE d # RootDirectory
  <2>1. CacheEntry(d.first, d.address, d.path) \in CacheEntries
    BY <1>2 DEF In
  <2> QED
    BY <1>2, <2>1 DEF In, CacheEntry, CacheEntries
<1> QED
  BY <1>1, <1>2

\* What a lookup one name further is.
Deeper(l, r, name, T) ==
  /\ Good(r, T)
  /\ l.outcome # "found" => r = l
  /\ r.outcome = "found" => l.outcome = "found" /\ r.directory.path = Append(l.directory.path, name)
  /\ l.outcome # "missed" => r.outcome # "missed"

(* One name further.                                                       *)
LEMMA DescendKeeps ==
  ASSUME NEW T, NEW N, Closed(T, N), NEW l, Good(l, T), NEW name \in N
  PROVE  Deeper(l, Descend(l, name), name, T)
<1>1. PICK r, found : r = Descend(l, name) /\ found = FindDirectoryEntry(l.directory.first, name)
  OBVIOUS
<1>2. CASE l.outcome # "found"
  BY <1>1, <1>2 DEF Descend, Deeper
<1>3. CASE l.outcome = "found" /\ found = {}
  <2>1. r = [l EXCEPT !.outcome = "not_found"]
    BY <1>1, <1>3 DEF Descend
  <2>2. l = Lookup(l.outcome, l.cache, l.directory)
    BY DEF Good
  <2>3. r = Lookup("not_found", l.cache, l.directory)
    BY <2>1, <2>2 DEF Lookup
  <2>4. Good(r, T) /\ r.outcome = "not_found"
    BY <2>3, GoodIf DEF Good
  <2> QED
    BY <1>1, <1>3, <2>4 DEF Deeper
<1>4. CASE l.outcome = "found" /\ found # {}
  <2>1. PICK e : e = Below(l.directory, name)
    OBVIOUS
  <2>2. e \in T /\ T \in SUBSET CacheEntries
    BY <1>1, <1>4, <2>1 DEF Closed, Good
  <2>3. r = Lookup("found", AddEntry(l.cache, e), Directory(e.path, e.address, e.cluster))
        /\ e.path = Append(l.directory.path, name)
    BY <1>1, <1>4, <2>1 DEF Descend, Below, CacheEntry
  <2>4. PICK c, d : c = AddEntry(l.cache, e) /\ d = Directory(e.path, e.address, e.cluster)
    OBVIOUS
  <2>5. CacheSound(c) /\ Knows(c) \subseteq T
    <3>1. Kept(l.cache, c, {e})
      BY <2>2, <2>4, AddEntryKeeps DEF Good
    <3> QED
      BY <2>2, <3>1 DEF Kept, Good
  <2>6. In(d, T) /\ d.path = Append(l.directory.path, name)
    BY <2>2, <2>3, <2>4, EntryIsIn
  <2>7. Good(r, T) /\ r.outcome = "found" /\ r.directory = d
    BY <2>3, <2>4, <2>5, <2>6, GoodIf DEF Outcomes
  <2> QED
    BY <1>1, <1>4, <2>6, <2>7 DEF Deeper
<1> QED
  BY <1>2, <1>3, <1>4

\* A part of a path was found in the cache, or nothing.
PartFound(l, path) ==
  /\ l.outcome \in Outcomes
  /\ l.outcome = "found" => \E k \in 0 .. Len(path) : l.directory.path = SubSeq(path, 1, k)
  /\ l.outcome # "found" => l.directory = RootDirectory

(* One part of the path is tried.                                          *)
LEMMA TryPrefixKeeps ==
  ASSUME NEW T \in SUBSET CacheEntries, NEW l, Good(l, T), NEW path, PartFound(l, path),
         NEW k \in 0 .. Len(path)
  PROVE  /\ Good(TryPrefix(l, SubSeq(path, 1, k)), T)
         /\ PartFound(TryPrefix(l, SubSeq(path, 1, k)), path)
<1>1. PICK prefix, r, f :
        prefix = SubSeq(path, 1, k) /\ r = TryPrefix(l, prefix) /\ f = FindEntry(l.cache, prefix)
  OBVIOUS
<1>2. CASE l.outcome # "missed"
  BY <1>1, <1>2 DEF TryPrefix
<1>3. CASE l.outcome = "missed"
  <2>1. PICK e, d : /\ e = Head(f.cache.list)
                    /\ d = IF f.outcome = "found" THEN Directory(prefix, e.address, e.cluster)
                           ELSE l.directory
    OBVIOUS
  <2>2. r = Lookup(f.outcome, f.cache, d)
    BY <1>1, <1>3, <2>1 DEF TryPrefix
  <2>3. /\ Kept(l.cache, f.cache, {}) /\ f.outcome \in Outcomes
        /\ f.outcome = "found" => e \in Knows(l.cache) /\ e.path = prefix
    BY <1>1, <2>1, FindEntryKeeps, ZenonT(60) DEF Good
  <2>4. CacheSound(f.cache) /\ Knows(f.cache) \subseteq T
    BY <2>3 DEF Kept, Good
  <2>5. CASE f.outcome = "found"
    <3>1. e \in T /\ e.path = prefix
      BY <2>3, <2>5 DEF Good
    <3>2. In(d, T) /\ d.path = prefix
      BY <2>1, <2>5, <3>1, EntryIsIn
    <3>3. Good(r, T) /\ r.outcome = "found" /\ r.directory = d
      BY <2>2, <2>3, <2>4, <2>5, <3>2, GoodIf
    <3> QED
      BY <1>1, <3>2, <3>3 DEF PartFound, Outcomes
  <2>6. CASE f.outcome # "found"
    <3>0. l.directory = RootDirectory
      BY <1>3 DEF PartFound
    <3>3. d = RootDirectory
      BY <2>1, <2>6, <3>0
    <3>1. d = RootDirectory /\ In(d, T)
      BY <3>3 DEF In
    <3>4. PICK o, c : o = f.outcome /\ c = f.cache
      OBVIOUS
    <3>5. o \in Outcomes \cup {"not_found"} /\ r = Lookup(o, c, d)
      BY <2>2, <2>3, <3>4
    <3>8. CacheSound(c) /\ Knows(c) \subseteq T
      BY <2>4, <3>4
    <3>6. In(d, T)
      BY <3>1
    <3>7. Good(r, T) /\ r.outcome = o /\ r.directory = d
      BY <3>5, <3>6, <3>8, GoodIf
    <3>2. Good(r, T) /\ r.outcome = f.outcome /\ r.directory = d
      BY <3>4, <3>7
    <3> QED
      BY <1>1, <2>3, <2>6, <3>1, <3>2 DEF PartFound
  <2> QED
    BY <2>5, <2>6
<1> QED
  BY <1>2, <1>3

IsTried(f, c, path, m) ==
  f = [i \in 0 .. m |-> IF i = 0 THEN Lookup("missed", c, RootDirectory)
                        ELSE TryPrefix(f[i - 1], SubSeq(path, 1, Len(path) - i))]

(* The parts of a path can be tried one after the other.                   *)
LEMMA TriedExists ==
  ASSUME NEW c, NEW path
  PROVE  \A m \in Nat : \E f : IsTried(f, c, path, m)
<1> DEFINE S == {m \in Nat : \E f : IsTried(f, c, path, m)}
<1>1. 0 \in S
  <2>1. IsTried([i \in 0 .. 0 |-> Lookup("missed", c, RootDirectory)], c, path, 0)
    BY DEF IsTried
  <2> QED
    BY <2>1
<1>2. ASSUME NEW m \in Nat, m \in S
      PROVE  m + 1 \in S
  <2>1. PICK f : IsTried(f, c, path, m)
    BY <1>2
  <2> DEFINE g == [i \in 0 .. (m + 1) |->
               IF i = m + 1 THEN TryPrefix(f[m], SubSeq(path, 1, Len(path) - (m + 1))) ELSE f[i]]
  <2>2. \A i \in 0 .. m : f[i] = IF i = 0 THEN Lookup("missed", c, RootDirectory)
                                 ELSE TryPrefix(f[i - 1], SubSeq(path, 1, Len(path) - i))
    BY <2>1 DEF IsTried
  <2>3. \A i \in 0 .. (m + 1) : g[i] = IF i = 0 THEN Lookup("missed", c, RootDirectory)
                                       ELSE TryPrefix(g[i - 1], SubSeq(path, 1, Len(path) - i))
    BY <2>2
  <2>4. IsTried(g, c, path, m + 1)
    BY <2>3 DEF IsTried
  <2> QED
    BY <2>4
<1>3. Nat \subseteq S
  <2> HIDE DEF S
  <2> QED
    BY <1>1, <1>2, EveryNatural
<1> QED
  BY <1>3

IsReached(f, from, path, known, m) ==
  f = [i \in known .. m |-> IF i = known THEN from ELSE Descend(f[i - 1], path[i])]

(* The names of a path can be looked up one after the other.               *)
LEMMA ReachedExists ==
  ASSUME NEW from, NEW path, NEW known \in Nat
  PROVE  \A n \in Nat : \E f : IsReached(f, from, path, known, known + n)
<1> DEFINE S == {n \in Nat : \E f : IsReached(f, from, path, known, known + n)}
<1>1. 0 \in S
  <2>1. IsReached([i \in known .. (known + 0) |-> from], from, path, known, known + 0)
    BY DEF IsReached
  <2> QED
    BY <2>1
<1>2. ASSUME NEW n \in Nat, n \in S
      PROVE  n + 1 \in S
  <2>0. PICK m \in Nat : m = known + n /\ m >= known
    OBVIOUS
  <2>1. PICK f : IsReached(f, from, path, known, m)
    BY <1>2, <2>0
  <2> DEFINE g == [i \in known .. (m + 1) |-> IF i = m + 1 THEN Descend(f[m], path[m + 1]) ELSE f[i]]
  <2>2. \A i \in known .. m : f[i] = IF i = known THEN from ELSE Descend(f[i - 1], path[i])
    BY <2>1 DEF IsReached
  <2>3. \A i \in known .. (m + 1) : g[i] = IF i = known THEN from ELSE Descend(g[i - 1], path[i])
    BY <2>0, <2>2, SMTT(60)
  <2>4. IsReached(g, from, path, known, m + 1)
    BY <2>3 DEF IsReached
  <2>5. m + 1 = known + (n + 1)
    BY <2>0
  <2> QED
    BY <2>4, <2>5
<1>3. Nat \subseteq S
  <2> HIDE DEF S
  <2> QED
    BY <1>1, <1>2, EveryNatural
<1> QED
  BY <1>3

(* The longest part of a path that the cache knows.                        *)
LEMMA LongestKeeps ==
  ASSUME NEW T \in SUBSET CacheEntries, NEW c, CacheSound(c), Knows(c) \subseteq T,
         NEW path \in Seq(Components), path # << >>
  PROVE  /\ Good(LongestCachedPrefix(c, path), T)
         /\ PartFound(LongestCachedPrefix(c, path), path)
<1>1. PICK n : n = Len(path) - 1
  OBVIOUS
<1>2. n \in Nat /\ Len(path) = n + 1
  BY <1>1
<1>3. PICK f : f = CHOOSE g : IsTried(g, c, path, n)
  OBVIOUS
<1>4. IsTried(f, c, path, n)
  BY <1>2, <1>3, TriedExists
<1>5. LongestCachedPrefix(c, path) = f[n]
  BY <1>1, <1>3 DEF LongestCachedPrefix, IsTried
<1> DEFINE S == {i \in 0 .. n : Good(f[i], T) /\ PartFound(f[i], path)}
<1>6. 0 \in S
  <2>1. f[0] = Lookup("missed", c, RootDirectory) /\ 0 \in 0 .. n
    BY <1>2, <1>4 DEF IsTried
  <2>2. In(RootDirectory, T) /\ "missed" \in Outcomes
    BY DEF In, Outcomes
  <2>3. Good(f[0], T) /\ f[0].outcome = "missed" /\ f[0].directory = RootDirectory
    BY <2>1, <2>2, GoodIf
  <2> QED
    BY <2>1, <2>2, <2>3 DEF PartFound
<1>7. ASSUME NEW i \in 0 .. (n - 1), i \in S
      PROVE  i + 1 \in S
  <2>1. i + 1 \in 0 .. n /\ i + 1 # 0 /\ (i + 1) - 1 = i
    BY <1>2
  <2>2. PICK k : k = Len(path) - (i + 1)
    OBVIOUS
  <2>3. k \in 0 .. Len(path)
    BY <1>2, <2>2
  <2>4. f[i + 1] = TryPrefix(f[i], SubSeq(path, 1, k))
    BY <1>4, <2>1, <2>2 DEF IsTried
  <2>5. Good(f[i], T) /\ PartFound(f[i], path)
    BY <1>7
  <2> QED
    BY <2>1, <2>3, <2>4, <2>5, TryPrefixKeeps
<1>8. 0 .. n \subseteq S
  <2> HIDE DEF S
  <2> QED
    BY <1>2, <1>6, <1>7, EveryNumberTo
<1> QED
  BY <1>2, <1>5, <1>8

(* A part of a path with its next name, and the whole of it.               *)
LEMMA PrefixGrows ==
  ASSUME NEW S, NEW path \in Seq(S)
  PROVE  /\ \A i \in 1 .. Len(path) : Append(SubSeq(path, 1, i - 1), path[i]) = SubSeq(path, 1, i)
         /\ SubSeq(path, 1, Len(path)) = path /\ SubSeq(path, 1, 0) = << >>
         /\ \A i \in 0 .. Len(path) : Len(SubSeq(path, 1, i)) = i
<1>1. ASSUME NEW i \in 0 .. Len(path)
      PROVE  /\ SubSeq(path, 1, i) \in Seq(S) /\ Len(SubSeq(path, 1, i)) = i
             /\ \A j \in 1 .. i : SubSeq(path, 1, i)[j] = path[j]
  <2>1. 1 \in 1 .. (Len(path) + 1) /\ i \in (1 - 1) .. Len(path) /\ i - 1 + 1 = i
    OBVIOUS
  <2>2. /\ SubSeq(path, 1, i) \in Seq(S) /\ Len(SubSeq(path, 1, i)) = i - 1 + 1
        /\ \A j \in 1 .. (i - 1 + 1) : SubSeq(path, 1, i)[j] = path[1 + j - 1]
    BY <2>1, PartOf
  <2> QED
    BY <2>1, <2>2
<1>2. ASSUME NEW i \in 1 .. Len(path)
      PROVE  Append(SubSeq(path, 1, i - 1), path[i]) = SubSeq(path, 1, i)
  <2>1. PICK s, t : s = SubSeq(path, 1, i - 1) /\ t = SubSeq(path, 1, i)
    OBVIOUS
  <2>2. s \in Seq(S) /\ Len(s) = i - 1 /\ \A j \in 1 .. (i - 1) : s[j] = path[j]
    <3>1. i - 1 \in 0 .. Len(path)
      OBVIOUS
    <3> QED
      BY <1>1, <2>1, <3>1
  <2>3. t \in Seq(S) /\ Len(t) = i /\ \A j \in 1 .. i : t[j] = path[j]
    BY <1>1, <2>1
  <2>4. path[i] \in S
    OBVIOUS
  <2>5. Append(s, path[i]) \in Seq(S) /\ Len(Append(s, path[i])) = i
    BY <2>2, <2>4
  <2>6. \A j \in 1 .. i : Append(s, path[i])[j] = t[j]
    BY <2>2, <2>3, <2>4
  <2> QED
    BY <2>1, <2>3, <2>5, <2>6, SameSequence
<1>3. SubSeq(path, 1, Len(path)) = path
  BY <1>1, SameSequence
<1>4. SubSeq(path, 1, 0) = << >>
  BY <1>1
<1> QED
  BY <1>1, <1>2, <1>3, <1>4

(* Walking on from what was found, or from the root.                       *)
LEMMA WalkFromKeeps ==
  ASSUME NEW T, NEW N, Closed(T, N), NEW l, Good(l, T),
         NEW path \in Seq(N), PartFound(l, path)
  PROVE  /\ Good(WalkFrom(l, path), T)
         /\ WalkFrom(l, path).outcome # "missed"
         /\ WalkFrom(l, path).outcome = "found" => WalkFrom(l, path).directory.path = path
<1>1. PICK from, known, n :
        /\ from = IF l.outcome = "missed" THEN Lookup("found", l.cache, RootDirectory) ELSE l
        /\ known = Len(from.directory.path) /\ n = Len(path)
  OBVIOUS
<1>2. /\ Good(from, T) /\ from.outcome # "missed" /\ known \in 0 .. n /\ n \in Nat /\ n = Len(path)
      /\ from.outcome = "found" => from.directory.path = SubSeq(path, 1, known)
  <2>1. RootDirectory.path = << >> /\ In(RootDirectory, T) /\ n \in Nat
    BY <1>1 DEF RootDirectory, Directory, In
  <2>2. /\ SubSeq(path, 1, 0) = << >>
        /\ \A i \in 0 .. Len(path) : Len(SubSeq(path, 1, i)) = i
    BY PrefixGrows
  <2>3. CASE l.outcome = "missed"
    <3>0. PICK c : c = l.cache
      OBVIOUS
    <3>1. CacheSound(c) /\ Knows(c) \subseteq T
      BY <3>0 DEF Good
    <3>3. "found" \in Outcomes \cup {"not_found"}
      BY DEF Outcomes
    <3>4. from = Lookup("found", c, RootDirectory)
      BY <1>1, <2>3, <3>0
    <3>5. PICK d : d = RootDirectory /\ In(d, T) /\ from = Lookup("found", c, d)
      BY <2>1, <3>4
    <3>6. Good(from, T) /\ from.outcome = "found" /\ from.directory = d
      BY <3>1, <3>3, <3>5, GoodIf
    <3>2. Good(from, T) /\ from.outcome = "found" /\ from.directory = RootDirectory
      BY <3>5, <3>6
    <3>7. from.directory.path = << >> /\ Len(<< >>) = 0
      BY <2>1, <3>2
    <3>8. known = 0 /\ n = Len(path) /\ 0 \in 0 .. n
      BY <1>1, <2>1, <3>7
    <3> QED
      BY <2>1, <2>2, <3>2, <3>7, <3>8
  <2>4. CASE l.outcome = "found"
    <3>1. PICK k \in 0 .. Len(path) : l.directory.path = SubSeq(path, 1, k)
      BY <2>4 DEF PartFound
    <3>2. from = l
      BY <1>1, <2>4
    <3> QED
      BY <1>1, <2>1, <2>2, <2>4, <3>1, <3>2
  <2>5. CASE l.outcome \notin {"missed", "found"}
    <3>1. from = l /\ l.directory = RootDirectory
      BY <1>1, <2>5 DEF PartFound
    <3> QED
      BY <1>1, <2>1, <2>5, <3>1
  <2> QED
    BY <2>3, <2>4, <2>5
<1>3. PICK f : f = CHOOSE g : IsReached(g, from, path, known, n)
  OBVIOUS
<1>4. IsReached(f, from, path, known, n)
  <2>1. PICK m \in Nat : n = known + m
    <3>1. n - known \in Nat /\ n = known + (n - known)
      BY <1>2
    <3> QED
      BY <3>1
  <2>2. known \in Nat
    BY <1>2
  <2> QED
    BY <1>3, <2>1, <2>2, ReachedExists
<1>5. WalkFrom(l, path) = f[n]
  BY <1>1, <1>3 DEF WalkFrom, IsReached
<1>6. f[known] = from /\ \A i \in (known + 1) .. n : f[i] = Descend(f[i - 1], path[i])
  BY <1>2, <1>4 DEF IsReached
<1> DEFINE S == {j \in 0 .. (n - known) :
                   /\ Good(f[known + j], T) /\ f[known + j].outcome # "missed"
                   /\ f[known + j].outcome = "found" =>
                        f[known + j].directory.path = SubSeq(path, 1, known + j)}
<1>7. 0 \in S
  <2>1. known + 0 = known /\ 0 \in 0 .. (n - known)
    BY <1>2
  <2> QED
    BY <1>2, <1>6, <2>1
<1>8. ASSUME NEW j \in 0 .. ((n - known) - 1), j \in S
      PROVE  j + 1 \in S
  <2>1. PICK i : i = known + (j + 1)
    OBVIOUS
  <2>2. /\ i \in (known + 1) .. n /\ i \in 1 .. n /\ i - 1 = known + j
        /\ j + 1 \in 0 .. (n - known)
    BY <1>2, <2>1
  <2>3. path[i] \in N
    BY <1>2, <2>2
  <2>4. Good(f[i - 1], T) /\ f[i - 1].outcome # "missed"
        /\ (f[i - 1].outcome = "found" => f[i - 1].directory.path = SubSeq(path, 1, i - 1))
    BY <1>8, <2>2
  <2>5. Deeper(f[i - 1], f[i], path[i], T)
    BY <1>6, <2>2, <2>3, <2>4, DescendKeeps
  <2>6. Append(SubSeq(path, 1, i - 1), path[i]) = SubSeq(path, 1, i)
    BY <1>2, <2>2, PrefixGrows
  <2>7. /\ Good(f[i], T) /\ f[i].outcome # "missed"
        /\ f[i].outcome = "found" => f[i].directory.path = SubSeq(path, 1, i)
    BY <2>4, <2>5, <2>6 DEF Deeper
  <2> QED
    BY <2>1, <2>2, <2>7
<1>9. 0 .. (n - known) \subseteq S
  <2> HIDE DEF S
  <2>1. n - known \in Nat
    BY <1>2
  <2> QED
    BY <1>7, <1>8, <2>1, EveryNumberTo
<1>10. n - known \in S /\ known + (n - known) = n
  <2> HIDE DEF S
  <2> QED
    BY <1>2, <1>9
<1>11. SubSeq(path, 1, n) = path
  BY <1>2, PrefixGrows
<1> QED
  BY <1>5, <1>10, <1>11

\* What the lookup of a path comes to.
Looked(l, path, T) ==
  /\ Good(l, T) /\ l.outcome # "missed"
  /\ l.outcome = "found" => l.directory.path = path

(* FAT32Filesystem::GetDirectory.                                          *)
LEMMA GetDirectoryKeeps ==
  ASSUME NEW T, NEW N, Closed(T, N), CacheSound(cache), Knows(cache) \subseteq T,
         NEW path \in Seq(N)
  PROVE  Looked(GetDirectory(path), path, T)
<1>1. PICK l, f, e : l = GetDirectory(path) /\ f = FindEntry(cache, path) /\ e = Head(f.cache.list)
  OBVIOUS
<1>2. /\ T \in SUBSET CacheEntries /\ path \in Seq(Components)
      /\ In(RootDirectory, T) /\ RootDirectory.path = << >>
  <2>1. N \subseteq Components /\ T \in SUBSET CacheEntries
    BY DEF Closed
  <2> QED
    BY <2>1 DEF In, RootDirectory, Directory
<1>3. /\ Kept(cache, f.cache, {}) /\ f.outcome \in Outcomes
      /\ f.outcome = "found" => e \in Knows(cache) /\ e.path = path
  BY <1>1, FindEntryKeeps
<1>4. CacheSound(f.cache) /\ Knows(f.cache) \subseteq T
  BY <1>3 DEF Kept
<1>5. CASE path = << >>
  <2>1. l = Lookup("found", cache, RootDirectory) /\ "found" \in Outcomes
    BY <1>1, <1>5 DEF GetDirectory, Outcomes
  <2>2. Good(l, T) /\ l.outcome = "found" /\ l.directory = RootDirectory
    BY <1>2, <2>1, GoodIf
  <2> QED
    BY <1>1, <1>2, <1>5, <2>2 DEF Looked
<1>6. CASE path # << >> /\ f.outcome = "found"
  <2>1. PICK d : d = Directory(path, e.address, e.cluster)
    OBVIOUS
  <2>2. l = Lookup("found", f.cache, d)
    BY <1>1, <1>6, <2>1 DEF GetDirectory
  <2>3. e \in T /\ e.path = path
    BY <1>3, <1>6
  <2>4. In(d, T) /\ d.path = path
    BY <1>2, <2>1, <2>3, EntryIsIn
  <2>5. Good(l, T) /\ l.outcome = "found" /\ l.directory = d
    BY <1>3, <1>4, <1>6, <2>2, <2>4, GoodIf
  <2> QED
    BY <1>1, <2>4, <2>5 DEF Looked
<1>7. CASE path # << >> /\ f.outcome = "undefined"
  <2>1. l = Lookup("undefined", f.cache, RootDirectory)
    BY <1>1, <1>7 DEF GetDirectory
  <2>2. Good(l, T) /\ l.outcome = "undefined"
    BY <1>2, <1>3, <1>4, <1>7, <2>1, GoodIf
  <2> QED
    BY <1>1, <2>2 DEF Looked
<1>8. CASE path # << >> /\ f.outcome = "missed"
  <2>1. PICK p : p = LongestCachedPrefix(f.cache, path)
    OBVIOUS
  <2>2. l = WalkFrom(p, path)
    BY <1>1, <1>8, <2>1 DEF GetDirectory
  <2>3. Good(p, T) /\ PartFound(p, path)
    BY <1>2, <1>4, <1>8, <2>1, LongestKeeps
  <2>4. /\ Good(l, T) /\ l.outcome # "missed"
        /\ l.outcome = "found" => l.directory.path = path
    BY <2>2, <2>3, WalkFromKeeps
  <2> QED
    BY <1>1, <2>4 DEF Looked
<1> QED
  BY <1>3, <1>5, <1>6, <1>7, <1>8 DEF Outcomes

-----------------------------------------------------------------------------
(* The cache is whole: what the actions do to it, on any volume.           *)

LookupTypeOK ==
  /\ volume \in [Clusters -> [Indices -> SlotValues]]
  /\ allocated \subseteq Clusters
  /\ CacheSound(cache)
  /\ current_directory_path \in Seq(NamesGiven)
  /\ halted \in BOOLEAN

(* The numbers of slots, and the values of slots.                          *)
LEMMA SlotFacts ==
  /\ Indices \subseteq Nat /\ 0 \in Indices /\ 1 \in Indices
  /\ RootDirectoryCluster \in Clusters
  /\ NoEntry \in SlotValues /\ NoEntry.name = NoName
  /\ \A name \in Components, c \in Clusters :
       EntryFor(name, c) \in SlotValues /\ EntryFor(name, c).name = name /\ EntryFor(name, c).first = c
  /\ \A c, parent \in Clusters : EmptyDirectory(c, parent) \in [Indices -> SlotValues]
  /\ NoName \notin Names /\ Dot \notin Names /\ DotDot \notin Names
  /\ Names \subseteq Components /\ NamesGiven \subseteq Components
<1>1. /\ Indices \subseteq Nat /\ 0 \in Indices /\ 1 \in Indices /\ RootDirectoryCluster \in Clusters
      /\ NoName \notin Names /\ Dot \notin Names /\ DotDot \notin Names
  BY LookupAssumption DEF Indices
<1>2. NoEntry \in SlotValues /\ NoEntry.name = NoName
  BY <1>1 DEF NoEntry, SlotValues
<1>3. ASSUME NEW name \in Components, NEW c \in Clusters
      PROVE  EntryFor(name, c) \in SlotValues /\ EntryFor(name, c).name = name
             /\ EntryFor(name, c).first = c
  BY DEF EntryFor, SlotValues
<1>4. ASSUME NEW c \in Clusters, NEW parent \in Clusters
      PROVE  EmptyDirectory(c, parent) \in [Indices -> SlotValues]
  <2>1. Dot \in Components /\ DotDot \in Components
    BY DEF Components
  <2>2. EntryFor(Dot, c) \in SlotValues /\ EntryFor(DotDot, parent) \in SlotValues
    BY <1>3, <2>1
  <2> QED
    BY <1>2, <2>2 DEF EmptyDirectory
<1>5. Names \subseteq Components /\ NamesGiven \subseteq Components
  BY DEF Components, NamesGiven
<1> QED
  BY <1>1, <1>2, <1>3, <1>4, <1>5

(* The first of some slots of a directory is one of them.                  *)
LEMMA FirstIs ==
  ASSUME NEW c, NEW S \in SUBSET ({c} \X Indices), S # {}
  PROVE  First(S) \in S
<1>1. PICK numbers : numbers = {a[2] : a \in S}
  OBVIOUS
<1>2. numbers \in SUBSET Nat /\ numbers # {}
  <2>1. \A a \in S : a[2] \in Nat
    BY DEF Indices
  <2>2. \E a \in S : a[2] \in numbers
    BY <1>1
  <2> QED
    BY <1>1, <2>1, <2>2
<1>3. PICK n \in numbers : \A m \in numbers : n <= m
  BY <1>2, LeastNumber
<1>4. PICK a \in S : a[2] = n
  BY <1>1, <1>3
<1>5. \A b \in S : a[2] <= b[2]
  BY <1>1, <1>3, <1>4
<1> QED
  BY <1>4, <1>5 DEF First

(* What is found in a directory is an address in it.                       *)
LEMMA FoundIsThere ==
  ASSUME NEW c, NEW name, FindDirectoryEntry(c, name) # {}
  PROVE  /\ First(FindDirectoryEntry(c, name)) \in {c} \X Indices
         /\ EntryAt(First(FindDirectoryEntry(c, name))).name = name
<1>1. PICK S : S = FindDirectoryEntry(c, name)
  OBVIOUS
<1>2. S \in SUBSET ({c} \X Indices) /\ S # {}
  BY <1>1 DEF FindDirectoryEntry
<1>3. First(S) \in S
  BY <1>2, FirstIs
<1>4. PICK a : a = First(S)
  OBVIOUS
<1>5. a \in {c} \X Indices /\ volume[c][a[2]].name = name
  BY <1>1, <1>3, <1>4 DEF FindDirectoryEntry
<1> QED
  BY <1>1, <1>4, <1>5 DEF EntryAt

(* A free slot of a directory.                                             *)
LEMMA FreeIsThere ==
  ASSUME NEW c, FreeSlots(c) # {}
  PROVE  /\ First(FreeSlots(c))[2] \in Indices
         /\ volume[c][First(FreeSlots(c))[2]] = NoEntry
<1>1. PICK S : S = FreeSlots(c)
  OBVIOUS
<1>2. S \in SUBSET ({c} \X Indices) /\ S # {}
  BY <1>1 DEF FreeSlots
<1>3. PICK a : a = First(S) /\ a \in S
  BY <1>2, FirstIs
<1>4. a[2] \in Indices /\ volume[c][a[2]] = NoEntry
  BY <1>1, <1>3 DEF FreeSlots
<1> QED
  BY <1>1, <1>3, <1>4

(* Any entries of any directories are a closed set.                        *)
LEMMA AllIsClosed ==
  ASSUME LookupTypeOK
  PROVE  Closed(CacheEntries, Components)
<1>1. ASSUME NEW d, NEW name, In(d, CacheEntries), name \in Components,
             FindDirectoryEntry(d.first, name) # {}
      PROVE  Below(d, name) \in CacheEntries
  <2>1. d.first \in Clusters /\ d.path \in Seq(Components)
    BY <1>1, InFacts
  <2>2. PICK a : a = First(FindDirectoryEntry(d.first, name)) /\ a \in {d.first} \X Indices
    BY <1>1, FoundIsThere
  <2>3. a \in Addresses /\ a[1] \in Clusters /\ a[2] \in Indices
    BY <2>1, <2>2 DEF Addresses
  <2>4. EntryAt(a) \in SlotValues
    BY <2>3 DEF EntryAt, LookupTypeOK
  <2>5. EntryAt(a).first \in Clusters
    BY <2>4 DEF SlotValues
  <2>6. Append(d.path, name) \in Seq(Components)
    BY <1>1, <2>1
  <2> QED
    BY <2>2, <2>3, <2>5, <2>6 DEF Below, CacheEntry, CacheEntries
<1> QED
  BY <1>1 DEF Closed

(* A path that is given, and a name more.                                  *)
LEMMA PathFacts ==
  ASSUME LookupTypeOK
  PROVE  /\ current_directory_path \in Seq(Components)
         /\ \A name \in NamesGiven : Append(current_directory_path, name) \in Seq(NamesGiven)
         /\ \A name \in NamesGiven : Append(current_directory_path, name) \in Seq(Components)
<1>1. NamesGiven \subseteq Components
  BY SlotFacts
<1>2. current_directory_path \in Seq(NamesGiven)
  BY DEF LookupTypeOK
<1>3. current_directory_path \in Seq(Components)
  BY <1>1, <1>2
<1>4. ASSUME NEW name \in NamesGiven
      PROVE  /\ Append(current_directory_path, name) \in Seq(NamesGiven)
             /\ Append(current_directory_path, name) \in Seq(Components)
  BY <1>1, <1>2, <1>3
<1> QED
  BY <1>3, <1>4

(* What a sound cache knows are entries.                                   *)
LEMMA KnownAreEntries ==
  ASSUME NEW c, CacheSound(c)
  PROVE  Knows(c) \subseteq CacheEntries
BY SoundFacts DEF Knows

(* A lookup on whatever the cache holds.                                   *)
LEMMA LookupIsGood ==
  ASSUME LookupTypeOK, NEW path \in Seq(Components)
  PROVE  /\ Good(GetDirectory(path), CacheEntries)
         /\ CacheSound(GetDirectory(path).cache)
         /\ GetDirectory(path).directory.first \in Clusters
<1>1. CacheSound(cache)
  BY DEF LookupTypeOK
<1>2. Looked(GetDirectory(path), path, CacheEntries)
  BY <1>1, AllIsClosed, KnownAreEntries, GetDirectoryKeeps
<1>3. PICK l : l = GetDirectory(path) /\ Good(l, CacheEntries)
  BY <1>2 DEF Looked
<1>4. CacheSound(l.cache) /\ In(l.directory, CacheEntries)
  BY <1>3 DEF Good
<1>5. l.directory.first \in Clusters
  BY <1>4, InFacts
<1> QED
  BY <1>3, <1>4, <1>5

(* Changing and listing directories only look them up.                     *)
LEMMA ChangeDirectoryKeepsType ==
  ASSUME LookupTypeOK, NEW name \in NamesGiven, ChangeDirectory(name)
  PROVE  LookupTypeOK'
<1>1. PICK path, l : path = Append(current_directory_path, name) /\ l = GetDirectory(path)
  OBVIOUS
<1>2. CacheSound(l.cache)
  BY <1>1, PathFacts, LookupIsGood
<1>3. /\ cache' = l.cache /\ UNCHANGED <<volume, allocated>> /\ halted' \in BOOLEAN
      /\ current_directory_path' \in {path, current_directory_path}
  BY <1>1 DEF ChangeDirectory, UseLookup
<1>4. path \in Seq(NamesGiven)
  BY <1>1, PathFacts
<1> QED
  BY <1>2, <1>3, <1>4 DEF LookupTypeOK

\* The same for listing the current directory.
LEMMA ListDirectoryKeepsType ==
  ASSUME LookupTypeOK, ListDirectory
  PROVE  LookupTypeOK'
<1>1. PICK l : l = GetDirectory(current_directory_path)
  OBVIOUS
<1>2. CacheSound(l.cache)
  BY <1>1, PathFacts, LookupIsGood
<1>3. /\ cache' = l.cache /\ UNCHANGED <<volume, allocated, current_directory_path>>
      /\ halted' \in BOOLEAN
  BY <1>1 DEF ListDirectory, UseLookup
<1> QED
  BY <1>2, <1>3 DEF LookupTypeOK

\* What GetSubdirectory of a lookup comes to.
Subdirectory(lookup, name) ==
  LET path == Append(current_directory_path, name)
      r == FindEntry(lookup.cache, path)
  IN IF lookup.outcome # "found" THEN lookup
     ELSE IF r.outcome = "missed" THEN Descend([lookup EXCEPT !.cache = r.cache], name)
     ELSE Lookup(r.outcome, r.cache, RootDirectory)

(* It knows nothing but what is in a closed set.                           *)
LEMMA SubdirectoryKeeps ==
  ASSUME NEW T, NEW N, Closed(T, N), NEW l, Good(l, T), NEW name \in N
  PROVE  CacheSound(Subdirectory(l, name).cache) /\ Knows(Subdirectory(l, name).cache) \subseteq T
<1>1. PICK path, f, r : /\ path = Append(current_directory_path, name)
                        /\ f = FindEntry(l.cache, path) /\ r = Subdirectory(l, name)
  OBVIOUS
<1>2. Kept(l.cache, f.cache, {}) /\ f.outcome \in Outcomes
  BY <1>1, FindEntryKeeps DEF Good
<1>3. CacheSound(f.cache) /\ Knows(f.cache) \subseteq T
  BY <1>2 DEF Kept, Good
<1>4. CASE l.outcome # "found"
  BY <1>4 DEF Subdirectory, Good
<1>5. CASE l.outcome = "found" /\ f.outcome = "missed"
  <2>1. PICK m, c : m = [l EXCEPT !.cache = c] /\ c = f.cache
    OBVIOUS
  <2>2. r = Descend(m, name)
    BY <1>1, <1>5, <2>1 DEF Subdirectory
  <2>3. m = Lookup("found", c, l.directory)
    <3>1. l = Lookup(l.outcome, l.cache, l.directory)
      BY DEF Good
    <3> QED
      BY <1>5, <2>1, <3>1 DEF Lookup
  <2>4. PICK d : d = l.directory /\ In(d, T)
    BY DEF Good
  <2>5. CacheSound(c) /\ Knows(c) \subseteq T /\ "found" \in Outcomes \cup {"not_found"}
    BY <1>3, <2>1 DEF Outcomes
  <2>6. Good(m, T)
    BY <2>3, <2>4, <2>5, GoodIf
  <2>7. Good(r, T)
    BY <2>2, <2>6, DescendKeeps DEF Deeper
  <2> QED
    BY <1>1, <2>7 DEF Good
<1>6. CASE l.outcome = "found" /\ f.outcome # "missed"
  <2>1. r = Lookup(f.outcome, f.cache, RootDirectory)
    BY <1>1, <1>6 DEF Subdirectory
  <2> QED
    BY <1>1, <1>3, <2>1 DEF Lookup
<1> QED
  BY <1>4, <1>5, <1>6

\* So a program may look for a subdirectory.
LEMMA GetSubdirectoryKeepsType ==
  ASSUME LookupTypeOK, NEW name \in NamesGiven, GetSubdirectory(name)
  PROVE  LookupTypeOK'
<1>1. PICK l, r : l = GetDirectory(current_directory_path) /\ r = Subdirectory(l, name)
  OBVIOUS
<1>2. Good(l, CacheEntries) /\ name \in Components
  BY <1>1, PathFacts, LookupIsGood, SlotFacts
<1>3. CacheSound(r.cache)
  BY <1>1, <1>2, AllIsClosed, SubdirectoryKeeps
<1>4. /\ cache' = r.cache /\ UNCHANGED <<volume, allocated, current_directory_path>>
      /\ halted' \in BOOLEAN
  BY <1>1 DEF GetSubdirectory, UseLookup, Subdirectory
<1> QED
  BY <1>3, <1>4 DEF LookupTypeOK

\* A directory is made in a slot of another.
Made(d, name, c, free) ==
  [volume EXCEPT ![c] = EmptyDirectory(c, d), ![d][free] = EntryFor(name, c)]

(* Creating a directory.                                                   *)
LEMMA CreateDirectoryKeepsType ==
  ASSUME LookupTypeOK, NEW name \in Names, CreateDirectory(name)
  PROVE  LookupTypeOK'
<1>1. PICK l, d : l = GetDirectory(current_directory_path) /\ d = l.directory.first
  OBVIOUS
<1>2. CacheSound(l.cache) /\ d \in Clusters /\ name \in Components
  BY <1>1, PathFacts, LookupIsGood, SlotFacts
<1>3. cache' = l.cache /\ UNCHANGED current_directory_path /\ halted' \in BOOLEAN
  BY <1>1 DEF CreateDirectory, UseLookup
<1>4. volume' \in [Clusters -> [Indices -> SlotValues]] /\ allocated' \subseteq Clusters
  <2>1. CASE UNCHANGED <<volume, allocated>>
    BY <2>1 DEF LookupTypeOK
  <2>2. CASE ~ UNCHANGED <<volume, allocated>>
    <3>1. PICK c \in Clusters \ allocated :
            /\ allocated' = allocated \cup {c}
            /\ volume' = Made(d, name, c, First(FreeSlots(d))[2])
      BY <1>1, <2>2 DEF CreateDirectory, Made
    <3>2. EmptyDirectory(c, d) \in [Indices -> SlotValues] /\ EntryFor(name, c) \in SlotValues
      BY <1>2, SlotFacts
    <3> QED
      BY <1>2, <3>1, <3>2 DEF LookupTypeOK, Made
  <2> QED
    BY <2>1, <2>2
<1> QED
  BY <1>2, <1>3, <1>4 DEF LookupTypeOK

\* Deleting one.
LEMMA DeleteDirectoryKeepsType ==
  ASSUME LookupTypeOK, NEW name \in NamesGiven, DeleteDirectory(name)
  PROVE  LookupTypeOK'
<1>1. PICK l, d : /\ l = GetDirectory(Append(current_directory_path, name))
                  /\ d = l.directory
  OBVIOUS
<1>2. CacheSound(l.cache)
  BY <1>1, PathFacts, LookupIsGood
<1>3. CacheSound(RemoveEntry(l.cache, d.first))
  BY <1>2, RemoveEntryKeeps DEF Kept
<1>4. UNCHANGED current_directory_path /\ halted' \in BOOLEAN
      /\ cache' \in {l.cache, RemoveEntry(l.cache, d.first)}
  BY <1>1 DEF DeleteDirectory, UseLookup
<1>5. volume' \in [Clusters -> [Indices -> SlotValues]] /\ allocated' \subseteq Clusters
  <2>1. CASE UNCHANGED <<volume, allocated>>
    BY <2>1 DEF LookupTypeOK
  <2>2. CASE ~ UNCHANGED <<volume, allocated>>
    <3>1. /\ volume' = [volume EXCEPT ![d.address[1]][d.address[2]] = NoEntry]
          /\ allocated' = allocated \ {EntryAt(d.address).first}
      BY <1>1, <2>2 DEF DeleteDirectory
    <3> QED
      BY <3>1, SlotFacts DEF LookupTypeOK
  <2> QED
    BY <2>1, <2>2
<1> QED
  BY <1>2, <1>3, <1>4, <1>5 DEF LookupTypeOK

\* An entry is made again in another slot under another name.
Renamed(d, new, first, free, old) ==
  [volume EXCEPT ![d][free] = EntryFor(new, first), ![d][old] = NoEntry]

(* Renaming one.                                                           *)
LEMMA RenameDirectoryKeepsType ==
  ASSUME LookupTypeOK, NEW name \in Names, NEW new \in Names, RenameDirectory(name, new)
  PROVE  LookupTypeOK'
<1>1. PICK l, d, old : /\ l = GetDirectory(current_directory_path) /\ d = l.directory.first
                       /\ old = FindDirectoryEntry(d, name)
  OBVIOUS
<1>2. CacheSound(l.cache) /\ d \in Clusters /\ new \in Components
  BY <1>1, PathFacts, LookupIsGood, SlotFacts
<1>3. UNCHANGED <<allocated, current_directory_path>> /\ halted' \in BOOLEAN
  BY DEF RenameDirectory, UseLookup
<1>4. CASE \/ l.outcome # "found" \/ old = {}
           \/ FindDirectoryEntry(d, new) # {} \/ FreeSlots(d) = {}
  <2>1. cache' = l.cache /\ UNCHANGED volume
    BY <1>1, <1>4 DEF RenameDirectory
  <2> QED
    BY <1>2, <1>3, <2>1 DEF LookupTypeOK
<1>5. CASE ~ \/ l.outcome # "found" \/ old = {}
             \/ FindDirectoryEntry(d, new) # {} \/ FreeSlots(d) = {}
  <2>1. PICK a : a = First(old)
    OBVIOUS
  <2>2. /\ volume' = Renamed(d, new, EntryAt(a).first, First(FreeSlots(d))[2], a[2])
        /\ cache' = RemoveEntry(l.cache, EntryAt(a).first)
    BY <1>1, <1>5, <2>1 DEF RenameDirectory, Renamed, ForgetRenamed
  <2>3. CacheSound(cache')
    BY <1>2, <2>2, RemoveEntryKeeps DEF Kept
  <2>4. a \in {d} \X Indices
    BY <1>1, <1>5, <2>1, FoundIsThere
  <2>5. EntryAt(a) \in SlotValues
    BY <1>2, <2>4 DEF EntryAt, LookupTypeOK
  <2>6. EntryAt(a).first \in Clusters
    BY <2>5 DEF SlotValues
  <2>7. PICK e : e = EntryFor(new, EntryAt(a).first) /\ e \in SlotValues
    BY <1>2, <2>6, SlotFacts
  <2>8. volume' \in [Clusters -> [Indices -> SlotValues]]
    BY <1>2, <2>2, <2>7, SlotFacts DEF LookupTypeOK, Renamed
  <2> QED
    BY <1>3, <2>3, <2>8 DEF LookupTypeOK
<1> QED
  BY <1>4, <1>5

(* Every step keeps the types and a sound cache.                           *)
LEMMA StepKeepsType ==
  ASSUME LookupTypeOK, [Next]_vars
  PROVE  LookupTypeOK'
<1>1. ASSUME NEW name \in Names, CreateDirectory(name)
      PROVE  LookupTypeOK'
  BY <1>1, CreateDirectoryKeepsType
<1>2. ASSUME NEW name \in Names, NEW new \in Names, RenameDirectory(name, new)
      PROVE  LookupTypeOK'
  BY <1>2, RenameDirectoryKeepsType
<1>3. ASSUME NEW name \in NamesGiven, ChangeDirectory(name)
      PROVE  LookupTypeOK'
  BY <1>3, ChangeDirectoryKeepsType
<1>4. ASSUME NEW name \in NamesGiven, DeleteDirectory(name)
      PROVE  LookupTypeOK'
  BY <1>4, DeleteDirectoryKeepsType
<1>5. ASSUME NEW name \in NamesGiven, GetSubdirectory(name)
      PROVE  LookupTypeOK'
  BY <1>5, GetSubdirectoryKeepsType
<1>6. CASE ChangeFilesystem
  BY <1>6 DEF ChangeFilesystem, LookupTypeOK
<1>7. CASE ListDirectory
  BY <1>7, ListDirectoryKeepsType
<1>8. CASE UNCHANGED vars
  BY <1>8 DEF vars, LookupTypeOK
<1> QED
  BY <1>1, <1>2, <1>3, <1>4, <1>5, <1>6, <1>7, <1>8 DEF Next

(* So they are kept for ever.                                              *)
LEMMA TypeIsKept == Spec => []LookupTypeOK
<1>1. Init => LookupTypeOK
  <2> SUFFICES ASSUME Init
               PROVE  LookupTypeOK
    OBVIOUS
  <2>1. NoEntry \in SlotValues /\ RootDirectoryCluster \in Clusters
    BY SlotFacts
  <2>5. allocated \subseteq Clusters
    BY <2>1 DEF Init
  <2>2. volume \in [Clusters -> [Indices -> SlotValues]]
    BY <2>1 DEF Init
  <2>6. halted \in BOOLEAN
    BY DEF Init
  <2>7. current_directory_path = << >> /\ << >> \in Seq(NamesGiven)
    BY DEF Init
  <2>3. current_directory_path \in Seq(NamesGiven)
    BY <2>7
  <2>4. CacheSound(cache)
    BY EmptyIsSound DEF Init
  <2> QED
    BY <2>2, <2>3, <2>4, <2>5, <2>6 DEF LookupTypeOK
<1>2. LookupTypeOK /\ [Next]_vars => LookupTypeOK'
  BY StepKeepsType
<1> QED
  BY <1>1, <1>2, PTL DEF Spec

(* A sound cache names the same directories in its list and in its map,    *)
(* each once: the list counts the keys.                                    *)
LEMMA SoundIsWhole ==
  ASSUME NEW c, CacheSound(c)
  PROVE  ListAndMapAgree(c)
<1>1. PICK s, n, keys, f : /\ s = c.list /\ n = Len(s) /\ keys = c.keys
                           /\ f = [i \in 1 .. n |-> s[i].cluster]
  OBVIOUS
<1>2. n \in Nat /\ DOMAIN s = 1 .. n /\ n <= MaxCached
  BY <1>1, SoundFacts
<1>3. keys = {s[i].cluster : i \in DOMAIN s}
  BY <1>1, <1>2 DEF CacheSound
<1>4. f \in Bijection(1 .. n, keys)
  <2>1. \A i, j \in 1 .. n : f[i] = f[j] => i = j
    BY <1>1, SoundFacts
  <2>2. f \in [1 .. n -> keys]
    BY <1>1, <1>2, <1>3
  <2>3. \A k \in keys : \E i \in 1 .. n : f[i] = k
    BY <1>1, <1>2, <1>3
  <2>4. f \in Injection(1 .. n, keys)
    BY <2>1, <2>2 DEF Injection, IsInjective
  <2>5. f \in Surjection(1 .. n, keys)
    BY <2>2, <2>3 DEF Surjection
  <2> QED
    BY <2>4, <2>5 DEF Bijection
<1>5. Cardinality(keys) = n
  <2>1. ExistsBijection(1 .. n, keys)
    BY <1>4 DEF ExistsBijection
  <2> QED
    BY <1>2, <2>1, FS_CountingElements
<1> QED
  BY <1>1, <1>2, <1>3, <1>5 DEF ListAndMapAgree

(* Whatever is created, renamed, deleted and looked up, under any names,   *)
(* the list of the cache and its map name the same directories, each once, *)
(* and no more than there is room for.                                     *)
THEOREM TheCacheIsWhole == Spec => []CacheIsWhole
<1>1. LookupTypeOK => CacheIsWhole
  BY SoundIsWhole DEF LookupTypeOK, CacheIsWhole
<1> QED
  BY <1>1, TypeIsKept, PTL

-----------------------------------------------------------------------------
(* Where a path leads on a volume v: a lookup without its cache.           *)

Place(outcome, d) == [outcome |-> outcome, directory |-> d]
Where(l) == Place(l.outcome, l.directory)

FoundIn(v, c, name) == {a \in {c} \X Indices : v[c][a[2]].name = name}
Reached(v, d, name) ==
  LET a == First(FoundIn(v, d.first, name))
  IN Directory(Append(d.path, name), a, v[a[1]][a[2]].first)

Step(v, place, name) ==
  IF place.outcome # "found" THEN place
  ELSE IF FoundIn(v, place.directory.first, name) = {} THEN Place("not_found", place.directory)
  ELSE Place("found", Reached(v, place.directory, name))

AtRoot == Place("found", RootDirectory)

IsWalk(w, v, path, m) ==
  w = [i \in 0 .. m |-> IF i = 0 THEN AtRoot ELSE Step(v, w[i - 1], path[i])]

Walk(v, path) == (CHOOSE w : IsWalk(w, v, path, Len(path)))[Len(path)]

(* There is a walk along every path.                                       *)
LEMMA WalkExists ==
  ASSUME NEW v, NEW path
  PROVE  \A m \in Nat : \E w : IsWalk(w, v, path, m)
<1> DEFINE S == {m \in Nat : \E w : IsWalk(w, v, path, m)}
<1>1. 0 \in S
  <2>1. IsWalk([i \in 0 .. 0 |-> AtRoot], v, path, 0)
    BY DEF IsWalk
  <2> QED
    BY <2>1
<1>2. ASSUME NEW m \in Nat, m \in S
      PROVE  m + 1 \in S
  <2>1. PICK f : IsWalk(f, v, path, m)
    BY <1>2
  <2> DEFINE g == [i \in 0 .. (m + 1) |-> IF i = m + 1 THEN Step(v, f[m], path[m + 1]) ELSE f[i]]
  <2>2. \A i \in 0 .. m : f[i] = IF i = 0 THEN AtRoot ELSE Step(v, f[i - 1], path[i])
    BY <2>1 DEF IsWalk
  <2>3. \A i \in 0 .. (m + 1) : g[i] = IF i = 0 THEN AtRoot ELSE Step(v, g[i - 1], path[i])
    BY <2>2
  <2>4. IsWalk(g, v, path, m + 1)
    BY <2>3 DEF IsWalk
  <2> QED
    BY <2>4
<1>3. Nat \subseteq S
  <2> HIDE DEF S
  <2> QED
    BY <1>1, <1>2, EveryNatural
<1> QED
  BY <1>3

\* The places it leads through.
Along(w, v, path, m) == w[0] = AtRoot /\ \A i \in 1 .. m : w[i] = Step(v, w[i - 1], path[i])

(* The places of one: the whole of the path leads to the last of them.     *)
LEMMA WalkIs ==
  ASSUME NEW v, NEW path, NEW m \in Nat, m = Len(path)
  PROVE  \E w : Along(w, v, path, m) /\ Walk(v, path) = w[m]
<1>1. PICK w : w = CHOOSE f : IsWalk(f, v, path, m)
  OBVIOUS
<1>2. IsWalk(w, v, path, m)
  BY <1>1, WalkExists
<1>3. \A i \in 0 .. m : w[i] = IF i = 0 THEN AtRoot ELSE Step(v, w[i - 1], path[i])
  BY <1>2 DEF IsWalk
<1>4. w[0] = AtRoot
  BY <1>3
<1>5. \A i \in 1 .. m : w[i] = Step(v, w[i - 1], path[i])
  BY <1>3
<1>6. Walk(v, path) = w[m]
  BY <1>1 DEF Walk
<1>7. Along(w, v, path, m)
  BY <1>4, <1>5 DEF Along
<1> QED
  BY <1>6, <1>7

(* No name leads to the root, and a name more one step on.                 *)
LEMMA WalkGoesOn ==
  ASSUME NEW v, NEW S
  PROVE  /\ Walk(v, << >>) = AtRoot
         /\ \A path \in Seq(S), name \in S : Walk(v, Append(path, name)) = Step(v, Walk(v, path), name)
<1>1. Walk(v, << >>) = AtRoot
  <2>1. 0 \in Nat /\ 0 = Len(<< >>)
    OBVIOUS
  <2> QED
    BY <2>1, WalkIs DEF Along
<1>2. ASSUME NEW path \in Seq(S), NEW name \in S
      PROVE  Walk(v, Append(path, name)) = Step(v, Walk(v, path), name)
  <2>1. PICK n, longer : n = Len(path) /\ longer = Append(path, name)
    OBVIOUS
  <2>2. /\ n \in Nat /\ Len(longer) = n + 1 /\ longer[n + 1] = name
        /\ \A i \in 1 .. n : longer[i] = path[i]
    BY <2>1
  <2>3. PICK w : /\ w[0] = AtRoot /\ \A i \in 1 .. n : w[i] = Step(v, w[i - 1], path[i])
                 /\ Walk(v, path) = w[n]
    <3>1. \E w : Along(w, v, path, n) /\ Walk(v, path) = w[n]
      BY <2>1, <2>2, WalkIs
    <3> QED
      BY <3>1 DEF Along
  <2>4. PICK u : /\ u[0] = AtRoot /\ \A i \in 1 .. (n + 1) : u[i] = Step(v, u[i - 1], longer[i])
                 /\ Walk(v, longer) = u[n + 1]
    <3>1. PICK m \in Nat : m = n + 1 /\ m = Len(longer)
      BY <2>2
    <3>2. PICK u : Along(u, v, longer, m) /\ Walk(v, longer) = u[m]
      BY <3>1, WalkIs
    <3>3. u[0] = AtRoot /\ \A i \in 1 .. m : u[i] = Step(v, u[i - 1], longer[i])
      BY <3>2 DEF Along
    <3>4. \A i \in 1 .. (n + 1) : u[i] = Step(v, u[i - 1], longer[i])
      BY <3>1, <3>3
    <3> QED
      BY <3>1, <3>2, <3>3, <3>4
  <2> DEFINE Same == {i \in 0 .. n : u[i] = w[i]}
  <2>5. 0 \in Same
    BY <2>2, <2>3, <2>4
  <2>6. ASSUME NEW i \in 0 .. (n - 1), i \in Same
        PROVE  i + 1 \in Same
    <3>1. i + 1 \in 1 .. n /\ i + 1 \in 1 .. (n + 1) /\ (i + 1) - 1 = i /\ i + 1 \in 0 .. n
      BY <2>2
    <3>2. PICK k : k = i + 1
      OBVIOUS
    <3>3. k \in 1 .. n /\ k \in 1 .. (n + 1) /\ k - 1 = i /\ k \in 0 .. n
      BY <3>1, <3>2
    <3>4. w[k] = Step(v, w[i], path[k]) /\ u[k] = Step(v, u[i], longer[k])
      BY <2>3, <2>4, <3>3
    <3>5. longer[k] = path[k] /\ u[i] = w[i]
      BY <2>2, <2>6, <3>3
    <3> QED
      BY <3>2, <3>3, <3>4, <3>5
  <2>7. n \in Same
    <3>1. 0 .. n \subseteq Same
      <4> HIDE DEF Same
      <4> QED
        BY <2>2, <2>5, <2>6, EveryNumberTo
    <3> QED
      BY <2>2, <3>1
  <2>8. n + 1 \in 1 .. (n + 1) /\ (n + 1) - 1 = n
    BY <2>2
  <2>9. u[n + 1] = Step(v, u[n], name)
    BY <2>2, <2>4, <2>8
  <2> QED
    BY <2>1, <2>3, <2>4, <2>7, <2>9
<1> QED
  BY <1>1, <1>2

(* The parts of a path: each leads one step further than the one before.   *)
LEMMA WalkByParts ==
  ASSUME NEW v, NEW S, NEW path \in Seq(S)
  PROVE  /\ Walk(v, SubSeq(path, 1, 0)) = AtRoot
         /\ \A i \in 1 .. Len(path) :
              Walk(v, SubSeq(path, 1, i)) = Step(v, Walk(v, SubSeq(path, 1, i - 1)), path[i])
         /\ Walk(v, SubSeq(path, 1, Len(path))) = Walk(v, path)
<1>1. /\ SubSeq(path, 1, Len(path)) = path /\ SubSeq(path, 1, 0) = << >>
      /\ \A i \in 1 .. Len(path) : Append(SubSeq(path, 1, i - 1), path[i]) = SubSeq(path, 1, i)
  BY PrefixGrows
<1>2. ASSUME NEW i \in 1 .. Len(path)
      PROVE  Walk(v, SubSeq(path, 1, i)) = Step(v, Walk(v, SubSeq(path, 1, i - 1)), path[i])
  <2>1. PICK p, name : p = SubSeq(path, 1, i - 1) /\ name = path[i]
    OBVIOUS
  <2>2. p \in Seq(S) /\ name \in S
    <3>1. 1 \in 1 .. (Len(path) + 1) /\ i - 1 \in (1 - 1) .. Len(path)
      OBVIOUS
    <3> QED
      BY <2>1, <3>1, PartOf
  <2>3. Walk(v, Append(p, name)) = Step(v, Walk(v, p), name)
    BY <2>2, WalkGoesOn
  <2> QED
    BY <1>1, <2>1, <2>3
<1>3. Walk(v, << >>) = AtRoot
  BY WalkGoesOn
<1> QED
  BY <1>1, <1>2, <1>3

-----------------------------------------------------------------------------
(* The lookups of the code lead where the walk leads.                      *)

IsLookup(l) == l = Lookup(l.outcome, l.cache, l.directory)

(* One name further.                                                       *)
LEMMA DescendSteps ==
  ASSUME NEW l, IsLookup(l), NEW name
  PROVE  /\ IsLookup(Descend(l, name))
         /\ Where(Descend(l, name)) = Step(volume, Where(l), name)
<1>1. PICK d, found, r : /\ d = l.directory /\ found = FindDirectoryEntry(d.first, name)
                         /\ r = Descend(l, name)
  OBVIOUS
<1>2. found = FoundIn(volume, d.first, name)
  BY <1>1 DEF FindDirectoryEntry, FoundIn
<1>3. Where(l).outcome = l.outcome /\ Where(l).directory = d
  BY <1>1 DEF Where, Place
<1>4. CASE l.outcome # "found"
  BY <1>3, <1>4 DEF Descend, Step
<1>5. CASE l.outcome = "found" /\ found = {}
  <2>1. r = [l EXCEPT !.outcome = "not_found"]
    BY <1>1, <1>5 DEF Descend
  <2>2. r = Lookup("not_found", l.cache, d)
    BY <1>1, <2>1 DEF IsLookup, Lookup
  <2>3. Step(volume, Where(l), name) = Place("not_found", d)
    BY <1>2, <1>3, <1>5 DEF Step
  <2> QED
    BY <1>1, <2>2, <2>3 DEF Where, Place, IsLookup, Lookup
<1>6. CASE l.outcome = "found" /\ found # {}
  <2>1. PICK a : a = First(found)
    OBVIOUS
  <2>2. PICK n, c : /\ n = Directory(Append(d.path, name), a, EntryAt(a).first)
                    /\ c = AddEntry(l.cache, CacheEntry(EntryAt(a).first, a, Append(d.path, name)))
    OBVIOUS
  <2>3. r = Lookup("found", c, n)
    BY <1>1, <1>6, <2>1, <2>2 DEF Descend
  <2>4. n = Reached(volume, d, name)
    BY <1>2, <2>1, <2>2 DEF Reached, EntryAt
  <2>5. Step(volume, Where(l), name) = Place("found", n)
    BY <1>2, <1>3, <1>6, <2>4 DEF Step
  <2> QED
    BY <1>1, <2>3, <2>5 DEF Where, Place, IsLookup, Lookup
<1> QED
  BY <1>4, <1>5, <1>6

\* A lookup that knows nothing of the path, or the place a part of it leads to.
StartsRight(l, path) ==
  /\ IsLookup(l)
  /\ l.outcome \in {"missed", "found"}
  /\ l.outcome = "found" =>
       /\ \E k \in 0 .. Len(path) : l.directory.path = SubSeq(path, 1, k)
       /\ Walk(volume, l.directory.path) = Where(l)

(* From there it goes where the path leads.                                *)
LEMMA WalkFromWalks ==
  ASSUME NEW S, NEW path \in Seq(S), NEW l, StartsRight(l, path)
  PROVE  Where(WalkFrom(l, path)) = Walk(volume, path)
<1>1. PICK from, known, n :
        /\ from = IF l.outcome = "missed" THEN Lookup("found", l.cache, RootDirectory) ELSE l
        /\ known = Len(from.directory.path) /\ n = Len(path)
  OBVIOUS
<1>2. /\ IsLookup(from) /\ known \in 0 .. n /\ n \in Nat /\ n = Len(path)
      /\ Where(from) = Walk(volume, SubSeq(path, 1, known))
  <2>1. RootDirectory.path = << >> /\ n \in Nat
    BY <1>1 DEF RootDirectory, Directory
  <2>2. /\ SubSeq(path, 1, 0) = << >> /\ Walk(volume, << >>) = AtRoot
        /\ \A i \in 0 .. Len(path) : Len(SubSeq(path, 1, i)) = i
    BY PrefixGrows, WalkGoesOn
  <2>3. CASE l.outcome = "missed"
    <3>1. PICK c, d : c = l.cache /\ d = RootDirectory
      OBVIOUS
    <3>2. from = Lookup("found", c, d)
      BY <1>1, <2>3, <3>1
    <3>3. IsLookup(from) /\ from.directory = d /\ Where(from) = Place("found", d)
      BY <3>2 DEF IsLookup, Lookup, Where
    <3>4. Where(from) = AtRoot
      BY <3>1, <3>3 DEF AtRoot
    <3>5. d.path = << >> /\ Len(<< >>) = 0
      BY <2>1, <3>1
    <3>6. known = 0 /\ 0 \in 0 .. n
      BY <1>1, <2>1, <3>3, <3>5
    <3> QED
      BY <1>1, <2>1, <2>2, <3>3, <3>4, <3>6
  <2>4. CASE l.outcome = "found"
    <3>1. PICK k \in 0 .. Len(path) : l.directory.path = SubSeq(path, 1, k)
      BY <2>4 DEF StartsRight
    <3>2. from = l /\ IsLookup(l) /\ Walk(volume, l.directory.path) = Where(l)
      BY <1>1, <2>4 DEF StartsRight
    <3>3. known = k
      BY <1>1, <2>2, <3>1, <3>2
    <3> QED
      BY <1>1, <2>1, <3>1, <3>2, <3>3
  <2> QED
    BY <2>3, <2>4 DEF StartsRight
<1>3. PICK f : f = CHOOSE g : IsReached(g, from, path, known, n)
  OBVIOUS
<1>4. IsReached(f, from, path, known, n)
  <2>1. PICK m \in Nat : n = known + m
    <3>1. n - known \in Nat /\ n = known + (n - known)
      BY <1>2
    <3> QED
      BY <3>1
  <2>2. known \in Nat
    BY <1>2
  <2> QED
    BY <1>3, <2>1, <2>2, ReachedExists
<1>5. WalkFrom(l, path) = f[n]
  BY <1>1, <1>3 DEF WalkFrom, IsReached
<1>6. f[known] = from /\ \A i \in (known + 1) .. n : f[i] = Descend(f[i - 1], path[i])
  BY <1>2, <1>4 DEF IsReached
<1> DEFINE Right == {j \in 0 .. (n - known) :
                       IsLookup(f[known + j]) /\ Where(f[known + j]) = Walk(volume, SubSeq(path, 1, known + j))}
<1>7. 0 \in Right
  <2>1. known + 0 = known /\ 0 \in 0 .. (n - known)
    BY <1>2
  <2> QED
    BY <1>2, <1>6, <2>1
<1>8. ASSUME NEW j \in 0 .. ((n - known) - 1), j \in Right
      PROVE  j + 1 \in Right
  <2>1. PICK i : i = known + (j + 1)
    OBVIOUS
  <2>2. /\ i \in (known + 1) .. n /\ i \in 1 .. n /\ i - 1 = known + j
        /\ j + 1 \in 0 .. (n - known)
    BY <1>2, <2>1
  <2>3. IsLookup(f[i - 1]) /\ Where(f[i - 1]) = Walk(volume, SubSeq(path, 1, i - 1))
    BY <1>8, <2>2
  <2>4. PICK before : before = f[i - 1]
    OBVIOUS
  <2>5. f[i] = Descend(before, path[i])
    BY <1>6, <2>2, <2>4
  <2>6. IsLookup(f[i]) /\ Where(f[i]) = Step(volume, Where(before), path[i])
    BY <2>3, <2>4, <2>5, DescendSteps
  <2>7. Walk(volume, SubSeq(path, 1, i)) = Step(volume, Walk(volume, SubSeq(path, 1, i - 1)), path[i])
    BY <1>2, <2>2, WalkByParts
  <2>8. IsLookup(f[i]) /\ Where(f[i]) = Walk(volume, SubSeq(path, 1, i))
    BY <2>3, <2>4, <2>6, <2>7
  <2> QED
    BY <2>1, <2>2, <2>8
<1>9. 0 .. (n - known) \subseteq Right
  <2> HIDE DEF Right
  <2>1. n - known \in Nat
    BY <1>2
  <2> QED
    BY <1>7, <1>8, <2>1, EveryNumberTo
<1>10. n - known \in Right /\ known + (n - known) = n
  <2> HIDE DEF Right
  <2> QED
    BY <1>2, <1>9
<1>11. Walk(volume, SubSeq(path, 1, n)) = Walk(volume, path)
  BY <1>2, WalkByParts
<1> QED
  BY <1>5, <1>10, <1>11

(* WalkTree does.                                                          *)
LEMMA WalkTreeWalks ==
  ASSUME NEW S, NEW path \in Seq(S)
  PROVE  Where(WalkTree(path)) = Walk(volume, path)
<1>1. PICK l : l = Lookup("missed", EmptyCache, RootDirectory)
  OBVIOUS
<1>2. StartsRight(l, path)
  BY <1>1 DEF StartsRight, IsLookup, Lookup
<1> QED
  BY <1>1, <1>2, WalkFromWalks DEF WalkTree

-----------------------------------------------------------------------------
(* True entries: what a lookup of them would find on the volume.           *)

TrueTo(v) ==
  {e \in CacheEntries : /\ e.path \in Seq(Names) /\ e.path # << >>
                        /\ Walk(v, e.path) = Place("found", Directory(e.path, e.address, e.cluster))}

(* The directories that a true cache leads to are where it says.           *)
LEMMA InTrue ==
  ASSUME NEW v, NEW d, In(d, TrueTo(v))
  PROVE  /\ d.path \in Seq(Names) /\ Walk(v, d.path) = Place("found", d)
         /\ d.first \in Clusters
         /\ d.path # << >> => CacheEntry(d.first, d.address, d.path) \in TrueTo(v)
<1>1. CASE d = RootDirectory
  <2>1. d.path = << >> /\ d.first = RootDirectoryCluster /\ << >> \in Seq(Names)
    BY <1>1 DEF RootDirectory, Directory
  <2>2. Walk(v, << >>) = AtRoot
    BY WalkGoesOn
  <2> QED
    BY <1>1, <2>1, <2>2, LookupAssumption DEF AtRoot
<1>2. CASE d # RootDirectory
  <2>1. PICK e : e = CacheEntry(d.first, d.address, d.path) /\ e \in TrueTo(v)
                 /\ d = Directory(d.path, d.address, d.first)
    BY <1>2 DEF In
  <2>2. e.path = d.path /\ e.address = d.address /\ e.cluster = d.first
    BY <2>1 DEF CacheEntry
  <2>3. /\ e.path \in Seq(Names) /\ e.cluster \in Clusters
        /\ Walk(v, e.path) = Place("found", Directory(e.path, e.address, e.cluster))
    BY <2>1 DEF TrueTo, CacheEntries
  <2> QED
    BY <2>1, <2>2, <2>3
<1> QED
  BY <1>1, <1>2

(* What is found in a directory that is where it says is there, too.       *)
LEMMA TrueIsClosed ==
  ASSUME LookupTypeOK
  PROVE  Closed(TrueTo(volume), Names)
<1>1. TrueTo(volume) \subseteq CacheEntries /\ Names \subseteq Components
  BY SlotFacts DEF TrueTo
<1>2. ASSUME NEW d, NEW name, In(d, TrueTo(volume)), name \in Names,
             FindDirectoryEntry(d.first, name) # {}
      PROVE  Below(d, name) \in TrueTo(volume)
  <2>1. d.path \in Seq(Names) /\ Walk(volume, d.path) = Place("found", d) /\ In(d, CacheEntries)
    BY <1>1, <1>2, InTrue DEF In
  <2>2. PICK a, e : /\ a = First(FindDirectoryEntry(d.first, name)) /\ e = Below(d, name)
                    /\ e = CacheEntry(EntryAt(a).first, a, Append(d.path, name))
    BY DEF Below
  <2>3. e \in CacheEntries
    BY <1>1, <1>2, <2>1, <2>2, AllIsClosed DEF Closed
  <2>4. e.path = Append(d.path, name) /\ e.address = a /\ e.cluster = EntryAt(a).first
    BY <2>2 DEF CacheEntry
  <2>5. e.path \in Seq(Names) /\ e.path # << >>
    BY <1>2, <2>1, <2>4
  <2>6. Walk(volume, e.path) = Step(volume, Place("found", d), name)
    <3>1. PICK p, longer : p = d.path /\ longer = Append(p, name)
      OBVIOUS
    <3>2. Walk(volume, Append(p, name)) = Step(volume, Walk(volume, p), name)
      BY <1>2, <2>1, <3>1, WalkGoesOn
    <3> QED
      BY <2>1, <2>4, <3>1, <3>2
  <2>7. FoundIn(volume, d.first, name) = FindDirectoryEntry(d.first, name)
    BY DEF FoundIn, FindDirectoryEntry
  <2>8. Reached(volume, d, name) = Directory(e.path, e.address, e.cluster)
    BY <2>2, <2>4, <2>7 DEF Reached, EntryAt
  <2>9. Step(volume, Place("found", d), name) = Place("found", Reached(volume, d, name))
    BY <1>2, <2>7 DEF Step, Place
  <2> QED
    BY <2>2, <2>3, <2>5, <2>6, <2>8, <2>9 DEF TrueTo
<1> QED
  BY <1>1, <1>2 DEF Closed

(* A lookup that has used an entry that is not there stays undefined.      *)
LEMMA UndefinedStays ==
  ASSUME NEW S, NEW path \in Seq(S), NEW l, l.outcome = "undefined", l.directory = RootDirectory
  PROVE  WalkFrom(l, path).outcome = "undefined"
<1>1. PICK n : n = Len(path)
  OBVIOUS
<1>2. n \in Nat /\ Len(RootDirectory.path) = 0
  BY <1>1 DEF RootDirectory, Directory
<1>3. PICK f : f = CHOOSE g : IsReached(g, l, path, 0, n)
  OBVIOUS
<1>4. IsReached(f, l, path, 0, n)
  <2>1. PICK k, m : k \in Nat /\ k = 0 /\ m = k + n
    OBVIOUS
  <2>2. \E g : IsReached(g, l, path, k, m)
    BY <1>2, <2>1, ReachedExists
  <2>3. k = 0 /\ m = n
    BY <1>2, <2>1
  <2> QED
    BY <1>3, <2>2, <2>3
<1>5. WalkFrom(l, path) = f[n]
  BY <1>1, <1>2, <1>3, ZenonT(60) DEF WalkFrom, IsReached
<1>6. f[0] = l /\ \A i \in 1 .. n : f[i] = Descend(f[i - 1], path[i])
  BY <1>2, <1>4 DEF IsReached
<1> DEFINE S0 == {i \in 0 .. n : f[i] = l}
<1>7. 0 \in S0
  BY <1>2, <1>6
<1>8. ASSUME NEW i \in 0 .. (n - 1), i \in S0
      PROVE  i + 1 \in S0
  <2>1. PICK k \in 1 .. n : k = i + 1 /\ k - 1 = i /\ k \in 0 .. n
    BY <1>2
  <2>2. f[k] = Descend(l, path[k])
    BY <1>6, <1>8, <2>1
  <2>3. Descend(l, path[k]) = l
    BY DEF Descend
  <2> QED
    BY <2>1, <2>2, <2>3
<1>9. n \in S0
  <2>1. 0 .. n \subseteq S0
    <3> HIDE DEF S0
    <3> QED
      BY <1>2, <1>7, <1>8, EveryNumberTo
  <2> QED
    BY <1>2, <2>1
<1> QED
  BY <1>5, <1>9

\* What a true cache knows is so.
CacheTrue == Knows(cache) \subseteq TrueTo(volume)

(* With a true cache a lookup leads where the walk leads, and the cache    *)
(* stays true.                                                             *)
LEMMA GetDirectoryIsTrue ==
  ASSUME LookupTypeOK, CacheTrue, NEW path \in Seq(Names)
  PROVE  /\ Looked(GetDirectory(path), path, TrueTo(volume))
         /\ GetDirectory(path).outcome # "undefined" =>
              Where(GetDirectory(path)) = Walk(volume, path)
<1>1. PICK T, l, f, e : /\ T = TrueTo(volume) /\ l = GetDirectory(path)
                        /\ f = FindEntry(cache, path) /\ e = Head(f.cache.list)
  OBVIOUS
<1>2. CacheSound(cache) /\ Knows(cache) \subseteq T /\ Closed(T, Names)
  BY <1>1, TrueIsClosed DEF LookupTypeOK, CacheTrue
<1>3. Looked(l, path, T)
  BY <1>1, <1>2, GetDirectoryKeeps
<1>4. /\ Kept(cache, f.cache, {}) /\ f.outcome \in Outcomes
      /\ f.outcome = "found" => e \in Knows(cache) /\ e.path = path
  BY <1>1, <1>2, FindEntryKeeps
<1>5. CASE path = << >>
  <2>1. l = Lookup("found", cache, RootDirectory)
    BY <1>1, <1>5 DEF GetDirectory
  <2>2. Where(l) = AtRoot
    BY <2>1 DEF Where, Lookup, AtRoot
  <2> QED
    BY <1>1, <1>3, <1>5, <2>2, WalkGoesOn
<1>6. CASE path # << >> /\ f.outcome = "found"
  <2>1. l = Lookup("found", f.cache, Directory(path, e.address, e.cluster))
    BY <1>1, <1>6 DEF GetDirectory
  <2>2. Where(l) = Place("found", Directory(path, e.address, e.cluster))
    BY <2>1 DEF Where, Lookup
  <2>3. e \in TrueTo(volume) /\ e.path = path
    BY <1>1, <1>2, <1>4, <1>6
  <2>4. Walk(volume, path) = Place("found", Directory(path, e.address, e.cluster))
    BY <2>3 DEF TrueTo
  <2> QED
    BY <1>1, <1>3, <2>2, <2>4
<1>7. CASE path # << >> /\ f.outcome = "undefined"
  <2>1. l = Lookup("undefined", f.cache, RootDirectory)
    BY <1>1, <1>7 DEF GetDirectory
  <2> QED
    BY <1>1, <1>3, <2>1 DEF Lookup
<1>8. CASE path # << >> /\ f.outcome = "missed"
  <2>1. PICK p : p = LongestCachedPrefix(f.cache, path)
    OBVIOUS
  <2>2. l = WalkFrom(p, path)
    BY <1>1, <1>8, <2>1 DEF GetDirectory
  <2>3. Good(p, T) /\ PartFound(p, path)
    <3>1. CacheSound(f.cache) /\ Knows(f.cache) \subseteq T
      BY <1>2, <1>4 DEF Kept
    <3>2. T \in SUBSET CacheEntries /\ path \in Seq(Components)
      BY <1>2 DEF Closed
    <3> QED
      BY <1>8, <2>1, <3>1, <3>2, LongestKeeps
  <2>4. CASE p.outcome = "undefined"
    <3>1. p.directory = RootDirectory
      BY <2>3, <2>4 DEF PartFound
    <3>2. l.outcome = "undefined"
      BY <2>2, <2>4, <3>1, UndefinedStays
    <3> QED
      BY <1>1, <1>3, <3>2
  <2>5. CASE p.outcome # "undefined"
    <3>1. p.outcome \in {"missed", "found"} /\ IsLookup(p)
      BY <2>3, <2>5 DEF PartFound, Outcomes, Good, IsLookup
    <3>2. Walk(volume, p.directory.path) = Place("found", p.directory)
      <4>1. In(p.directory, TrueTo(volume))
        BY <1>1, <2>3 DEF Good
      <4> QED
        BY <4>1, InTrue
    <3>3. StartsRight(p, path)
      BY <2>3, <3>1, <3>2 DEF StartsRight, PartFound, Where
    <3>4. Where(l) = Walk(volume, path)
      BY <2>2, <3>3, WalkFromWalks
    <3> QED
      BY <1>1, <1>3, <3>4
  <2> QED
    BY <2>4, <2>5
<1> QED
  BY <1>4, <1>5, <1>6, <1>7, <1>8 DEF Outcomes

(* So the properties follow from a true cache.                             *)
LEMMA TrueCacheIsTrue ==
  ASSUME LookupTypeOK, CacheTrue, Careful
  PROVE  CacheIsTrue /\ LookupsAreTrue
<1>1. ASSUME NEW i \in DOMAIN cache.list
      PROVE  IsTrue(cache.list[i])
  <2>1. PICK e : e = cache.list[i] /\ e \in TrueTo(volume)
    BY <1>1, SoundFacts DEF CacheTrue, Knows, LookupTypeOK
  <2>2. Walk(volume, e.path) = Place("found", Directory(e.path, e.address, e.cluster))
        /\ e.path \in Seq(Names)
    BY <2>1 DEF TrueTo
  <2>3. Where(WalkTree(e.path)) = Place("found", Directory(e.path, e.address, e.cluster))
    BY <2>2, WalkTreeWalks
  <2>4. /\ WalkTree(e.path).outcome = "found"
        /\ WalkTree(e.path).directory = Directory(e.path, e.address, e.cluster)
    BY <2>3 DEF Where, Place
  <2> QED
    BY <2>1, <2>4 DEF IsTrue, Directory
<1>2. ASSUME NEW path \in PathsGiven, GetDirectory(path).outcome # "undefined"
      PROVE  /\ GetDirectory(path).outcome = WalkTree(path).outcome
             /\ GetDirectory(path).directory = WalkTree(path).directory
  <2>1. path \in Seq(Names)
    BY LookupAssumption DEF PathsGiven, NamesGiven
  <2>2. Where(GetDirectory(path)) = Walk(volume, path)
    BY <1>2, <2>1, GetDirectoryIsTrue
  <2>3. Where(WalkTree(path)) = Walk(volume, path)
    BY <2>1, WalkTreeWalks
  <2> QED
    BY <2>2, <2>3 DEF Where, Place
<1> QED
  BY <1>1, <1>2 DEF CacheIsTrue, LookupsAreTrue

-----------------------------------------------------------------------------
(* What holds of no names, and of one name more, holds of every path.      *)
LEMMA EveryPath ==
  ASSUME NEW S, NEW P \in SUBSET Seq(S), << >> \in P,
         \A p \in P, name \in S : Append(p, name) \in P
  PROVE  Seq(S) \subseteq P
<1>1. ASSUME NEW path \in Seq(S)
      PROVE  path \in P
  <2>1. PICK n \in Nat : n = Len(path)
    OBVIOUS
  <2>2. /\ SubSeq(path, 1, n) = path /\ SubSeq(path, 1, 0) = << >>
        /\ \A i \in 1 .. n : Append(SubSeq(path, 1, i - 1), path[i]) = SubSeq(path, 1, i)
    <3>1. /\ SubSeq(path, 1, Len(path)) = path /\ SubSeq(path, 1, 0) = << >>
          /\ \A i \in 1 .. Len(path) :
               Append(SubSeq(path, 1, i - 1), path[i]) = SubSeq(path, 1, i)
      BY PrefixGrows
    <3> QED
      BY <2>1, <3>1
  <2>7. \A i \in 0 .. (n - 1) : i + 1 \in 1 .. n /\ (i + 1) - 1 = i /\ i + 1 \in 0 .. n
    OBVIOUS
  <2>8. SubSeq(path, 1, 0) \in P /\ 0 \in 0 .. n
    <3>1. SubSeq(path, 1, 0) = << >>
      BY <2>2
    <3>2. SubSeq(path, 1, 0) \in P
      BY <3>1, Zenon
    <3> QED
      BY <3>2
  <2> DEFINE Q == {i \in 0 .. n : SubSeq(path, 1, i) \in P}
  <2>3. 0 \in Q
    BY <2>8
  <2>4. ASSUME NEW i \in 0 .. (n - 1), i \in Q
        PROVE  i + 1 \in Q
    <3>1. PICK k : k = i + 1 /\ k \in 1 .. n /\ k - 1 = i /\ k \in 0 .. n
      BY <2>7
    <3>2. PICK p, name : p = SubSeq(path, 1, i) /\ name = path[k]
      OBVIOUS
    <3>3. p \in P /\ name \in S
      BY <2>1, <2>4, <3>1, <3>2
    <3>4. Append(p, name) = SubSeq(path, 1, k)
      BY <2>2, <3>1, <3>2
    <3>5. SubSeq(path, 1, k) \in P
      BY <3>3, <3>4
    <3> QED
      BY <3>1, <3>5
  <2>5. 0 .. n \subseteq Q
    <3> HIDE DEF Q
    <3> QED
      BY <2>1, <2>3, <2>4, EveryNumberTo
  <2>6. n \in Q
    BY <2>1, <2>5, SMTT(60)
  <2> QED
    BY <2>2, <2>6
<1> QED
  BY <1>1

-----------------------------------------------------------------------------
(* The directories are a tree: the named slots of the clusters in use lead *)
(* to clusters in use other than the root, no two to the same one, and no  *)
(* two slots of a directory have the same name.                            *)

Named(v, c, i) == v[c][i].name \in Names

Tree(v, A) ==
  /\ RootDirectoryCluster \in A /\ A \subseteq Clusters
  /\ \A c \in A, i \in Indices : Named(v, c, i) => v[c][i].first \in A \ {RootDirectoryCluster}
  /\ \A c \in A \ {RootDirectoryCluster} : v[c][0].name = Dot /\ v[c][1].name = DotDot
  /\ \A c, d \in A, i, j \in Indices :
       Named(v, c, i) /\ Named(v, d, j) /\ v[c][i].first = v[d][j].first => c = d /\ i = j
  /\ \A c \in A, i, j \in Indices : Named(v, c, i) /\ v[c][i].name = v[c][j].name => i = j

(* One of the entries with the same name is found, where it is.            *)
LEMMA FirstFound ==
  ASSUME NEW v, NEW c, NEW name, FoundIn(v, c, name) # {}
  PROVE  LET a == First(FoundIn(v, c, name))
         IN /\ a \in FoundIn(v, c, name) /\ a \in {c} \X Indices /\ a[1] = c /\ a[2] \in Indices
            /\ v[c][a[2]].name = name
<1>1. PICK S, a : S = FoundIn(v, c, name) /\ a = First(S)
  OBVIOUS
<1>2. S \in SUBSET ({c} \X Indices) /\ S # {}
  BY <1>1 DEF FoundIn
<1>3. a \in S
  BY <1>1, <1>2, FirstIs
<1>4. a \in {c} \X Indices /\ v[c][a[2]].name = name
  BY <1>1, <1>3 DEF FoundIn
<1>5. a[1] = c /\ a[2] \in Indices
  BY <1>4
<1> QED
  BY <1>1, <1>3, <1>4, <1>5

\* Where a walk ends that finds the directory of a path.
EndsAt(v, A, path, d) ==
  /\ d.path = path /\ d.first \in A
  /\ path = << >> => d = RootDirectory
  /\ path # << >> =>
       /\ d.first # RootDirectoryCluster
       /\ d.address[1] \in A /\ d.address[2] \in Indices
       /\ Named(v, d.address[1], d.address[2])
       /\ v[d.address[1]][d.address[2]].first = d.first

(* What is found one name further is in the directory before.              *)
LEMMA FurtherOn ==
  ASSUME NEW v, NEW path \in Seq(Names), NEW name \in Names,
         Walk(v, Append(path, name)).outcome = "found"
  PROVE  LET d == Walk(v, path).directory
         IN /\ Walk(v, path).outcome = "found"
            /\ FoundIn(v, d.first, name) # {}
            /\ Walk(v, Append(path, name)) = Place("found", Reached(v, d, name))
<1>1. PICK p, q : p = Walk(v, path) /\ q = Walk(v, Append(path, name))
  OBVIOUS
<1>2. q = Step(v, p, name) /\ q.outcome = "found"
  BY <1>1, WalkGoesOn
<1>3. p.outcome = "found" /\ FoundIn(v, p.directory.first, name) # {}
      /\ q = Place("found", Reached(v, p.directory, name))
  BY <1>2 DEF Step, Place
<1> QED
  BY <1>1, <1>3

(* In a tree a walk ends at a cluster in use, and at the slot that leads   *)
(* to it.                                                                  *)
LEMMA WalkEnds ==
  ASSUME NEW v, NEW A, Tree(v, A)
  PROVE  \A path \in Seq(Names) :
           Walk(v, path).outcome = "found" => EndsAt(v, A, path, Walk(v, path).directory)
<1> DEFINE P == {path \in Seq(Names) :
                   Walk(v, path).outcome = "found" => EndsAt(v, A, path, Walk(v, path).directory)}
<1>1. << >> \in P
  <2>1. Walk(v, << >>) = AtRoot /\ AtRoot.directory = RootDirectory
    BY WalkGoesOn DEF AtRoot, Place
  <2>2. RootDirectory.path = << >> /\ RootDirectory.first = RootDirectoryCluster
    BY DEF RootDirectory, Directory
  <2>3. EndsAt(v, A, << >>, RootDirectory)
    BY <2>2 DEF EndsAt, Tree
  <2> QED
    BY <2>1, <2>3
<1>2. ASSUME NEW path \in P, NEW name \in Names
      PROVE  Append(path, name) \in P
  <2>1. PICK longer : longer = Append(path, name)
    OBVIOUS
  <2>2. longer \in Seq(Names) /\ longer # << >> /\ path \in Seq(Names)
    BY <2>1
  <2>3. CASE Walk(v, longer).outcome # "found"
    BY <2>1, <2>2, <2>3
  <2>4. CASE Walk(v, longer).outcome = "found"
    <3>1. PICK d : d = Walk(v, path).directory
      OBVIOUS
    <3>2. PICK e : e = Reached(v, d, name)
      OBVIOUS
    <3>3. /\ Walk(v, path).outcome = "found" /\ FoundIn(v, d.first, name) # {}
          /\ Walk(v, longer) = Place("found", e)
      BY <2>1, <2>2, <2>4, <3>1, <3>2, FurtherOn
    <3>4. EndsAt(v, A, path, d)
      BY <1>2, <3>1, <3>3
    <3>5. d.path = path /\ d.first \in A
      BY <3>4 DEF EndsAt
    <3>6. PICK a : a = First(FoundIn(v, d.first, name))
      OBVIOUS
    <3>7. a[1] = d.first /\ a[2] \in Indices /\ v[d.first][a[2]].name = name
      BY <3>3, <3>6, FirstFound
    <3>8. e = Directory(longer, a, v[a[1]][a[2]].first)
      BY <2>1, <3>2, <3>5, <3>6 DEF Reached
    <3>9. e.path = longer /\ e.address = a /\ e.first = v[a[1]][a[2]].first
      BY <3>8 DEF Directory
    <3>10. Named(v, a[1], a[2]) /\ a[1] \in A
      BY <3>5, <3>7 DEF Named
    <3>11. e.first \in A \ {RootDirectoryCluster}
      BY <3>7, <3>9, <3>10 DEF Tree
    <3>12. EndsAt(v, A, longer, e)
      BY <2>2, <3>7, <3>9, <3>10, <3>11 DEF EndsAt
    <3>13. Walk(v, longer).directory = e
      BY <3>3 DEF Place
    <3> QED
      BY <2>1, <2>2, <3>12, <3>13
  <2> QED
    BY <2>3, <2>4
<1>3. Seq(Names) \subseteq P
  <2>1. P \in SUBSET Seq(Names)
    OBVIOUS
  <2> HIDE DEF P
  <2> QED
    BY <1>1, <1>2, <2>1, EveryPath
<1> QED
  BY <1>3

-----------------------------------------------------------------------------
(* What a change of the slots leaves as it was.                            *)

\* v and w find the same, but for what leads to the cluster k; nothing is below k.
AlikeBut(v, w, A, k) ==
  /\ \A c \in A, name \in Names :
       LET a == First(FoundIn(v, c, name))
       IN FoundIn(v, c, name) # {} /\ v[a[1]][a[2]].first # k =>
            FoundIn(w, c, name) = FoundIn(v, c, name) /\ w[a[1]][a[2]] = v[a[1]][a[2]]
  /\ k \in A => \A name \in Names : FoundIn(v, k, name) = {}

(* What is found somewhere else is found there still.                      *)
LEMMA SamePlaces ==
  ASSUME NEW v, NEW w, NEW A, NEW k, Tree(v, A), AlikeBut(v, w, A, k)
  PROVE  \A path \in Seq(Names) :
           Walk(v, path).outcome = "found" /\ Walk(v, path).directory.first # k =>
             Walk(w, path) = Walk(v, path)
<1> DEFINE P == {path \in Seq(Names) :
                   Walk(v, path).outcome = "found" /\ Walk(v, path).directory.first # k =>
                     Walk(w, path) = Walk(v, path)}
<1>1. << >> \in P
  <2>1. Walk(v, << >>) = AtRoot /\ Walk(w, << >>) = AtRoot
    BY WalkGoesOn
  <2> QED
    BY <2>1
<1>2. ASSUME NEW path \in P, NEW name \in Names
      PROVE  Append(path, name) \in P
  <2>1. PICK longer : longer = Append(path, name)
    OBVIOUS
  <2>2. longer \in Seq(Names) /\ path \in Seq(Names)
    BY <2>1
  <2>3. CASE ~ (Walk(v, longer).outcome = "found" /\ Walk(v, longer).directory.first # k)
    BY <2>1, <2>2, <2>3
  <2>4. CASE Walk(v, longer).outcome = "found" /\ Walk(v, longer).directory.first # k
    <3>1. PICK d : d = Walk(v, path).directory
      OBVIOUS
    <3>2. PICK e : e = Reached(v, d, name)
      OBVIOUS
    <3>3. /\ Walk(v, path).outcome = "found" /\ FoundIn(v, d.first, name) # {}
          /\ Walk(v, longer) = Place("found", e)
      BY <2>1, <2>2, <2>4, <3>1, <3>2, FurtherOn
    <3>4. d.first \in A
      <4>1. EndsAt(v, A, path, d)
        BY <2>2, <3>1, <3>3, WalkEnds
      <4> QED
        BY <4>1 DEF EndsAt
    <3>5. d.first # k
      BY <3>3, <3>4 DEF AlikeBut
    <3>6. Walk(w, path) = Walk(v, path)
      BY <1>2, <3>1, <3>3, <3>5
    <3>7. PICK a : a = First(FoundIn(v, d.first, name))
      OBVIOUS
    <3>8. e = Directory(Append(d.path, name), a, v[a[1]][a[2]].first)
      BY <3>2, <3>7 DEF Reached
    <3>9. v[a[1]][a[2]].first # k
      BY <2>4, <3>3, <3>8 DEF Directory, Place
    <3>10. FoundIn(w, d.first, name) = FoundIn(v, d.first, name) /\ w[a[1]][a[2]] = v[a[1]][a[2]]
      BY <3>3, <3>4, <3>7, <3>9 DEF AlikeBut
    <3>11. Reached(w, d, name) = e
      BY <3>7, <3>8, <3>10 DEF Reached
    <3>12. Walk(w, longer) = Step(w, Walk(v, path), name)
      <4>1. Walk(w, Append(path, name)) = Step(w, Walk(w, path), name)
        BY <2>2, WalkGoesOn, ZenonT(60)
      <4> QED
        BY <2>1, <3>6, <4>1
    <3>13. Step(w, Walk(v, path), name) = Place("found", Reached(w, d, name))
      BY <3>1, <3>3, <3>10 DEF Step
    <3>14. Walk(w, longer) = Walk(v, longer)
      BY <3>3, <3>11, <3>12, <3>13
    <3> QED
      BY <2>1, <2>2, <3>14
  <2> QED
    BY <2>3, <2>4
<1>3. Seq(Names) \subseteq P
  <2>1. P \in SUBSET Seq(Names)
    OBVIOUS
  <2> HIDE DEF P
  <2> QED
    BY <1>1, <1>2, <2>1, EveryPath
<1> QED
  BY <1>3

(* So what is true and leads somewhere else stays true.                    *)
LEMMA StaysTrue ==
  ASSUME NEW v, NEW w, NEW A, NEW k, Tree(v, A), AlikeBut(v, w, A, k),
         NEW e \in TrueTo(v), e.cluster # k
  PROVE  e \in TrueTo(w)
<1>1. /\ e \in CacheEntries /\ e.path \in Seq(Names) /\ e.path # << >>
      /\ Walk(v, e.path) = Place("found", Directory(e.path, e.address, e.cluster))
  BY DEF TrueTo
<1>2. Walk(v, e.path).outcome = "found" /\ Walk(v, e.path).directory.first # k
  BY <1>1 DEF Place, Directory
<1>3. Walk(w, e.path) = Walk(v, e.path)
  BY <1>1, <1>2, SamePlaces
<1> QED
  BY <1>1, <1>3 DEF TrueTo

-----------------------------------------------------------------------------
(* What the commands do to the tree.  Each changes slots so that, of those *)
(* with names, one at most is new: the slot number f of the directory d.   *)

NewSlot(c, i, d, f) == c = d /\ i = f

\* What is named in w and is not the new slot was so in v, and still leads to a cluster in use.
OldSlots(v, w, A, B, d, f) ==
  \A c \in B, i \in Indices : Named(w, c, i) /\ ~NewSlot(c, i, d, f) =>
    /\ c \in A /\ w[c][i] = v[c][i] /\ v[c][i].first \in B
    /\ Named(w, d, f) => v[c][i].first # w[d][f].first

(* So w is a tree, on the clusters B, if v is one on A.                    *)
LEMMA TreeKept ==
  ASSUME NEW v, NEW w, NEW A, NEW B \in SUBSET Clusters, Tree(v, A), RootDirectoryCluster \in B,
         NEW d \in B, NEW f \in Indices, OldSlots(v, w, A, B, d, f),
         Named(w, d, f) => /\ w[d][f].first \in B \ {RootDirectoryCluster}
                           /\ \A i \in Indices : w[d][i].name = w[d][f].name => i = f,
         \A c \in B \ {RootDirectoryCluster} : w[c][0].name = Dot /\ w[c][1].name = DotDot
  PROVE  Tree(w, B)
<1>1. ASSUME NEW c \in B, NEW i \in Indices, Named(w, c, i), ~NewSlot(c, i, d, f)
      PROVE  /\ c \in A /\ w[c][i] = v[c][i] /\ v[c][i].first \in B /\ Named(v, c, i)
             /\ Named(w, d, f) => v[c][i].first # w[d][f].first
  BY <1>1 DEF OldSlots, Named
<1>2. ASSUME NEW c \in B, NEW i \in Indices, Named(w, c, i)
      PROVE  w[c][i].first \in B \ {RootDirectoryCluster}
  <2>1. CASE NewSlot(c, i, d, f)
    BY <1>2, <2>1 DEF NewSlot
  <2>2. CASE ~NewSlot(c, i, d, f)
    BY <1>1, <1>2, <2>2 DEF Tree
  <2> QED
    BY <2>1, <2>2
<1>3. ASSUME NEW c \in B, NEW e \in B, NEW i \in Indices, NEW j \in Indices,
             Named(w, c, i), Named(w, e, j), w[c][i].first = w[e][j].first
      PROVE  c = e /\ i = j
  <2>1. CASE NewSlot(c, i, d, f) /\ NewSlot(e, j, d, f)
    BY <2>1 DEF NewSlot
  <2>2. CASE NewSlot(c, i, d, f) /\ ~NewSlot(e, j, d, f)
    BY <1>1, <1>3, <2>2 DEF NewSlot
  <2>3. CASE ~NewSlot(c, i, d, f) /\ NewSlot(e, j, d, f)
    BY <1>1, <1>3, <2>3 DEF NewSlot
  <2>4. CASE ~NewSlot(c, i, d, f) /\ ~NewSlot(e, j, d, f)
    BY <1>1, <1>3, <2>4, SMTT(60) DEF Tree
  <2> QED
    BY <2>1, <2>2, <2>3, <2>4
<1>4. ASSUME NEW c \in B, NEW i \in Indices, NEW j \in Indices,
             Named(w, c, i), w[c][i].name = w[c][j].name
      PROVE  i = j
  <2>1. Named(w, c, j)
    BY <1>4 DEF Named
  <2>2. CASE NewSlot(c, i, d, f) \/ NewSlot(c, j, d, f)
    BY <1>4, <2>1, <2>2 DEF NewSlot
  <2>3. CASE ~NewSlot(c, i, d, f) /\ ~NewSlot(c, j, d, f)
    BY <1>1, <1>4, <2>1, <2>3 DEF Tree
  <2> QED
    BY <2>2, <2>3
<1> QED
  BY <1>2, <1>3, <1>4 DEF Tree

(* Volumes are alike if, in each directory, a name is that of the same     *)
(* slots, and they lead to the same.                                       *)
LEMMA AlikeIf ==
  ASSUME NEW v, NEW w, NEW A, NEW k,
         \A c \in A, name \in Names, i \in Indices :
           \/ v[c][i].name = name /\ w[c][i] = v[c][i]
           \/ v[c][i].name # name /\ w[c][i].name # name
           \/ FoundIn(v, c, name) = {}
           \/ \A j \in Indices : v[c][j].name = name => v[c][j].first = k,
         k \in A => \A name \in Names : FoundIn(v, k, name) = {}
  PROVE  AlikeBut(v, w, A, k)
<1>1. ASSUME NEW c \in A, NEW name \in Names, NEW a, a = First(FoundIn(v, c, name)),
             FoundIn(v, c, name) # {}, v[a[1]][a[2]].first # k
      PROVE  FoundIn(w, c, name) = FoundIn(v, c, name) /\ w[a[1]][a[2]] = v[a[1]][a[2]]
  <2>1. a[1] = c /\ a[2] \in Indices /\ v[c][a[2]].name = name
    BY <1>1, FirstFound
  <2>2. \A i \in Indices : \/ v[c][i].name = name /\ w[c][i] = v[c][i]
                           \/ v[c][i].name # name /\ w[c][i].name # name
    BY <1>1, <2>1
  <2>3. w[c][a[2]] = v[c][a[2]]
    BY <2>1, <2>2
  <2>4. \A b \in {c} \X Indices : w[c][b[2]].name = name <=> v[c][b[2]].name = name
    BY <2>2
  <2>5. FoundIn(w, c, name) = FoundIn(v, c, name)
    BY <2>4 DEF FoundIn
  <2> QED
    BY <2>1, <2>3, <2>5
<1> QED
  BY <1>1 DEF AlikeBut

(* A directory without directories has no slot with a name.                *)
LEMMA NothingBelow ==
  ASSUME NEW A, Tree(volume, A), NEW k \in A \ {RootDirectoryCluster}, ~HasDirectories(k)
  PROVE  \A name \in Names : FoundIn(volume, k, name) = {}
<1>1. ASSUME NEW i \in Indices
      PROVE  volume[k][i].name \notin Names
  <2>1. i = 0 \/ i = 1 \/ i \in 2 .. (NamedSlots + 1)
    BY <1>1, LookupAssumption DEF Indices
  <2>2. volume[k][0].name = Dot /\ volume[k][1].name = DotDot
    BY DEF Tree
  <2>3. \A j \in 2 .. (NamedSlots + 1) : volume[k][j] = NoEntry
    BY DEF HasDirectories
  <2> QED
    BY <2>1, <2>2, <2>3, SlotFacts
<1>2. \A a \in {k} \X Indices : volume[k][a[2]].name \notin Names
  BY <1>1
<1> QED
  BY <1>2 DEF FoundIn

TreeInv == Tree(volume, allocated)

(* A free slot is neither that of '.' nor that of '..'.                    *)
LEMMA DotsAreNames == NoEntry.name # Dot /\ NoEntry.name # DotDot
<1>1. ASSUME NEW a, NEW b
      PROVE  Cardinality({a, b}) # 3
  <2>1. Cardinality({a}) = 1 /\ IsFiniteSet({a}) /\ {a, b} = {a} \cup {b}
    BY FS_Singleton
  <2>2. CASE b = a
    <3>1. {a, b} = {a}
      BY <2>2
    <3> QED
      BY <2>1, <3>1
  <2>3. CASE b # a
    <3>1. Cardinality({a} \cup {b}) = Cardinality({a}) + 1
      BY <2>1, <2>3, FS_AddElement
    <3> QED
      BY <2>1, <3>1
  <2> QED
    BY <2>2, <2>3
<1>2. Cardinality({Dot, DotDot, NoName}) = 3
  BY LookupAssumption
<1>3. NoName # Dot
  <2>1. NoName = Dot => {Dot, DotDot, NoName} = {Dot, DotDot}
    OBVIOUS
  <2> QED
    BY <1>1, <1>2, <2>1
<1>4. NoName # DotDot
  <2>1. NoName = DotDot => {Dot, DotDot, NoName} = {Dot, DotDot}
    OBVIOUS
  <2> QED
    BY <1>1, <1>2, <2>1
<1> QED
  BY <1>3, <1>4, SlotFacts

(* A name that is not found is the name of no slot.                        *)
LEMMA NotFound ==
  ASSUME NEW c, NEW name, FoundIn(volume, c, name) = {}
  PROVE  \A i \in Indices : volume[c][i].name # name
<1>1. ASSUME NEW i \in Indices, volume[c][i].name = name
      PROVE  FALSE
  <2>1. PICK a : a = <<c, i>>
    OBVIOUS
  <2>2. a \in {c} \X Indices /\ a[2] = i
    BY <2>1
  <2>3. a \in FoundIn(volume, c, name)
    BY <1>1, <2>2 DEF FoundIn
  <2> QED
    BY <2>3
<1> QED
  BY <1>1

(* Creating: the new slot leads to a cluster that was not in use.          *)
LEMMA MadeIsTree ==
  ASSUME LookupTypeOK, TreeInv, NEW d \in allocated, NEW name \in Names, NEW f \in Indices,
         volume[d][f] = NoEntry, FoundIn(volume, d, name) = {}, NEW c \in Clusters \ allocated,
         NEW w, w = Made(d, name, c, f)
  PROVE  Tree(w, allocated \cup {c}) /\ AlikeBut(volume, w, allocated, c)
<1>1. /\ allocated \subseteq Clusters /\ d \in Clusters /\ c # d
      /\ volume \in [Clusters -> [Indices -> SlotValues]]
  BY DEF LookupTypeOK
<1>2. /\ w[c] = EmptyDirectory(c, d) /\ \A b \in allocated \ {d} : w[b] = volume[b]
      /\ w[d] = [volume[d] EXCEPT ![f] = EntryFor(name, c)]
  BY <1>1 DEF Made
<1>3. /\ w[d][f] = EntryFor(name, c) /\ \A i \in Indices \ {f} : w[d][i] = volume[d][i]
      /\ EntryFor(name, c).name = name /\ EntryFor(name, c).first = c
      /\ NoEntry.name \notin Names
  <2>1. volume[d] \in [Indices -> SlotValues]
    BY <1>1
  <2> QED
    BY <1>2, <2>1, SlotFacts
<1>4. ASSUME NEW i \in Indices
      PROVE  ~Named(w, c, i)
  <2>1. w[c][i] \in {EntryFor(Dot, c), EntryFor(DotDot, d), NoEntry}
    BY <1>2 DEF EmptyDirectory
  <2>2. EntryFor(Dot, c).name = Dot /\ EntryFor(DotDot, d).name = DotDot
    BY DEF EntryFor
  <2> QED
    BY <1>3, <2>1, <2>2, SlotFacts DEF Named
<1>5. w[c][0].name = Dot /\ w[c][1].name = DotDot
  <2>1. w[c][0] = EntryFor(Dot, c) /\ w[c][1] = EntryFor(DotDot, d)
    BY <1>2, SlotFacts DEF EmptyDirectory
  <2> QED
    BY <2>1 DEF EntryFor
<1>6. \A i \in Indices : volume[d][i].name # name
  BY NotFound
<1> DEFINE B == allocated \cup {c}
<1>7. OldSlots(volume, w, allocated, B, d, f)
  <2>1. ASSUME NEW b \in B, NEW i \in Indices, Named(w, b, i), ~NewSlot(b, i, d, f)
        PROVE  b \in allocated /\ w[b][i] = volume[b][i]
    BY <1>2, <1>3, <1>4, <2>1 DEF NewSlot
  <2>2. ASSUME NEW b \in B, NEW i \in Indices, Named(w, b, i), ~NewSlot(b, i, d, f)
        PROVE  volume[b][i].first \in allocated
    <3>1. b \in allocated /\ Named(volume, b, i)
      BY <2>1, <2>2 DEF Named
    <3> QED
      BY <3>1 DEF TreeInv, Tree
  <2> QED
    BY <1>3, <2>1, <2>2 DEF OldSlots
<1>8. Tree(w, B)
  <2>1. B \in SUBSET Clusters /\ RootDirectoryCluster \in B /\ d \in B /\ RootDirectoryCluster # c
    BY <1>1 DEF TreeInv, Tree
  <2>2. w[d][f].first \in B \ {RootDirectoryCluster}
    BY <1>3, <2>1
  <2>3. \A i \in Indices : w[d][i].name = w[d][f].name => i = f
    BY <1>3, <1>6
  <2>4. ASSUME NEW b \in B \ {RootDirectoryCluster}
        PROVE  w[b][0].name = Dot /\ w[b][1].name = DotDot
    <3>1. CASE b = c
      BY <1>5, <3>1
    <3>2. CASE b # c /\ b # d
      BY <1>2, <3>2 DEF TreeInv, Tree
    <3>3. CASE b = d
      <4>1. volume[d][0].name = Dot /\ volume[d][1].name = DotDot
        BY <2>4, <3>3 DEF TreeInv, Tree
      <4>2. f # 0 /\ f # 1
        BY <4>1, DotsAreNames
      <4> QED
        BY <1>3, <3>3, <4>1, <4>2, SlotFacts
    <3> QED
      BY <3>1, <3>2, <3>3
  <2> HIDE DEF B
  <2> QED
    BY <1>7, <2>1, <2>2, <2>3, <2>4, TreeKept DEF TreeInv
<1>9. AlikeBut(volume, w, allocated, c)
  <2>1. ASSUME NEW b \in allocated, NEW n \in Names, NEW i \in Indices
        PROVE  \/ volume[b][i].name = n /\ w[b][i] = volume[b][i]
               \/ volume[b][i].name # n /\ w[b][i].name # n
               \/ FoundIn(volume, b, n) = {}
    <3>1. CASE b = d /\ i = f
      BY <1>3, <3>1
    <3>2. CASE ~(b = d /\ i = f)
      BY <1>2, <1>3, <3>2
    <3> QED
      BY <3>1, <3>2
  <2> QED
    BY <2>1, AlikeIf
<1> QED
  BY <1>8, <1>9

\* A slot is free again.
Freed(d, f) == [volume EXCEPT ![d][f] = NoEntry]

(* Deleting: the slot that led to the cluster is free, and it is not used. *)
LEMMA DeletedIsTree ==
  ASSUME LookupTypeOK, TreeInv, NEW d \in allocated, NEW f \in Indices, Named(volume, d, f),
         NEW k, k = volume[d][f].first, ~HasDirectories(k),
         NEW w, w = Freed(d, f)
  PROVE  Tree(w, allocated \ {k}) /\ AlikeBut(volume, w, allocated, k)
<1>1. allocated \subseteq Clusters /\ d \in Clusters /\ k \in allocated \ {RootDirectoryCluster}
  BY DEF LookupTypeOK, TreeInv, Tree
<1>2. \A name \in Names : FoundIn(volume, k, name) = {}
  BY <1>1, NothingBelow DEF TreeInv
<1>3. k # d
  <2>1. volume[d][f].name \in Names /\ \A i \in Indices, name \in Names : d = k => volume[d][i].name # name
    BY <1>2, NotFound DEF Named
  <2> QED
    BY <2>1
<1>4. /\ w[d][f] = NoEntry /\ \A i \in Indices \ {f} : w[d][i] = volume[d][i]
      /\ \A b \in allocated \ {d} : w[b] = volume[b]
      /\ NoEntry.name \notin Names
  <2>1. volume[d] \in [Indices -> SlotValues] /\ volume \in [Clusters -> [Indices -> SlotValues]]
    BY <1>1 DEF LookupTypeOK
  <2> QED
    BY <1>1, <2>1, SlotFacts DEF Freed
<1>5. ~Named(w, d, f)
  BY <1>4 DEF Named
<1> DEFINE B == allocated \ {k}
<1>6. OldSlots(volume, w, allocated, B, d, f)
  <2>1. ASSUME NEW b \in B, NEW i \in Indices, Named(w, b, i), ~NewSlot(b, i, d, f)
        PROVE  b \in allocated /\ w[b][i] = volume[b][i]
    BY <1>4, <2>1 DEF NewSlot
  <2>2. ASSUME NEW b \in B, NEW i \in Indices, Named(w, b, i), ~NewSlot(b, i, d, f)
        PROVE  volume[b][i].first \in B
    <3>1. b \in allocated /\ Named(volume, b, i)
      BY <2>1, <2>2 DEF Named
    <3>2. volume[b][i].first # k
      BY <2>2, <3>1 DEF TreeInv, Tree, NewSlot
    <3> QED
      BY <3>1, <3>2 DEF TreeInv, Tree
  <2> QED
    BY <1>5, <2>1, <2>2 DEF OldSlots
<1>7. Tree(w, B)
  <2>1. B \in SUBSET Clusters /\ RootDirectoryCluster \in B /\ d \in B
    BY <1>1, <1>3 DEF TreeInv, Tree
  <2>2. ASSUME NEW b \in B \ {RootDirectoryCluster}
        PROVE  w[b][0].name = Dot /\ w[b][1].name = DotDot
    <3>1. volume[b][0].name = Dot /\ volume[b][1].name = DotDot
      BY <2>2 DEF TreeInv, Tree
    <3>2. CASE b = d
      <4>1. f # 0 /\ f # 1
        BY <3>1, <3>2, SlotFacts DEF Named
      <4> QED
        BY <1>4, <3>1, <3>2, <4>1, SlotFacts
    <3> QED
      BY <1>4, <3>1, <3>2
  <2> HIDE DEF B
  <2> QED
    BY <1>5, <1>6, <2>1, <2>2, TreeKept DEF TreeInv
<1>8. AlikeBut(volume, w, allocated, k)
  <2>1. ASSUME NEW b \in allocated, NEW n \in Names, NEW i \in Indices
        PROVE  \/ volume[b][i].name = n /\ w[b][i] = volume[b][i]
               \/ volume[b][i].name # n /\ w[b][i].name # n
               \/ FoundIn(volume, b, n) = {}
               \/ \A m \in Indices : volume[b][m].name = n => volume[b][m].first = k
    <3>1. CASE b = d /\ i = f
      <4>1. CASE volume[d][f].name = n
        BY <3>1, <4>1 DEF TreeInv, Tree
      <4>2. CASE volume[d][f].name # n
        BY <1>4, <3>1, <4>2
      <4> QED
        BY <4>1, <4>2
    <3>2. CASE ~(b = d /\ i = f)
      BY <1>4, <3>2
    <3> QED
      BY <3>1, <3>2
  <2>2. k \in allocated => \A name \in Names : FoundIn(volume, k, name) = {}
    BY <1>2
  <2> QED
    BY <2>1, <2>2, AlikeIf
<1> QED
  BY <1>7, <1>8

(* Renaming: the new slot leads where the one did that is free now.        *)
LEMMA RenamedIsTree ==
  ASSUME LookupTypeOK, TreeInv, NEW d \in allocated, NEW j \in Indices, Named(volume, d, j),
         NEW k, k = volume[d][j].first, ~HasDirectories(k),
         NEW f \in Indices, volume[d][f] = NoEntry, NEW new \in Names,
         FoundIn(volume, d, new) = {}, NEW w, w = Renamed(d, new, k, f, j)
  PROVE  Tree(w, allocated) /\ AlikeBut(volume, w, allocated, k)
<1>1. allocated \subseteq Clusters /\ d \in Clusters /\ k \in allocated \ {RootDirectoryCluster}
  BY DEF LookupTypeOK, TreeInv, Tree
<1>2. \A name \in Names : FoundIn(volume, k, name) = {}
  BY <1>1, NothingBelow DEF TreeInv
<1>3. /\ NoEntry.name \notin Names /\ EntryFor(new, k).name = new /\ EntryFor(new, k).first = k
      /\ j # f
  BY <1>1, SlotFacts DEF Named
<1>4. /\ w[d][f] = EntryFor(new, k) /\ w[d][j] = NoEntry
      /\ \A i \in Indices \ {f, j} : w[d][i] = volume[d][i]
      /\ \A b \in allocated \ {d} : w[b] = volume[b]
  <2>1. volume[d] \in [Indices -> SlotValues] /\ volume \in [Clusters -> [Indices -> SlotValues]]
    BY <1>1 DEF LookupTypeOK
  <2> QED
    BY <1>1, <1>3, <2>1 DEF Renamed
<1>5. ~Named(w, d, j)
  BY <1>3, <1>4 DEF Named
<1>6. \A i \in Indices : volume[d][i].name # new
  BY NotFound
<1>7. OldSlots(volume, w, allocated, allocated, d, f)
  <2>1. ASSUME NEW b \in allocated, NEW i \in Indices, Named(w, b, i), ~NewSlot(b, i, d, f)
        PROVE  w[b][i] = volume[b][i] /\ ~NewSlot(b, i, d, j)
    BY <1>4, <1>5, <2>1 DEF NewSlot
  <2>2. ASSUME NEW b \in allocated, NEW i \in Indices, Named(w, b, i), ~NewSlot(b, i, d, f)
        PROVE  volume[b][i].first \in allocated /\ volume[b][i].first # k
    <3>1. Named(volume, b, i) /\ ~NewSlot(b, i, d, j)
      BY <2>1, <2>2 DEF Named
    <3> QED
      BY <3>1 DEF TreeInv, Tree, NewSlot
  <2> QED
    BY <1>3, <1>4, <2>1, <2>2 DEF OldSlots
<1>8. Tree(w, allocated)
  <2>1. RootDirectoryCluster \in allocated
    BY DEF TreeInv, Tree
  <2>2. w[d][f].first \in allocated \ {RootDirectoryCluster}
    BY <1>1, <1>3, <1>4
  <2>3. \A i \in Indices : w[d][i].name = w[d][f].name => i = f
    BY <1>3, <1>4, <1>6
  <2>4. ASSUME NEW b \in allocated \ {RootDirectoryCluster}
        PROVE  w[b][0].name = Dot /\ w[b][1].name = DotDot
    <3>1. volume[b][0].name = Dot /\ volume[b][1].name = DotDot
      BY <2>4 DEF TreeInv, Tree
    <3>2. CASE b = d
      <4>1. f # 0 /\ f # 1 /\ j # 0 /\ j # 1
        BY <3>1, <3>2, DotsAreNames, SlotFacts DEF Named
      <4> QED
        BY <1>4, <3>1, <3>2, <4>1, SlotFacts
    <3> QED
      BY <1>4, <3>1, <3>2
  <2> QED
    BY <1>1, <1>7, <2>1, <2>2, <2>3, <2>4, TreeKept, SMTT(60) DEF TreeInv
<1>9. AlikeBut(volume, w, allocated, k)
  <2>1. ASSUME NEW b \in allocated, NEW n \in Names, NEW i \in Indices
        PROVE  \/ volume[b][i].name = n /\ w[b][i] = volume[b][i]
               \/ volume[b][i].name # n /\ w[b][i].name # n
               \/ FoundIn(volume, b, n) = {}
               \/ \A m \in Indices : volume[b][m].name = n => volume[b][m].first = k
    <3>1. CASE b = d /\ i = f
      BY <1>3, <1>4, <3>1
    <3>2. CASE b = d /\ i = j
      <4>1. CASE volume[d][j].name = n
        BY <3>2, <4>1 DEF TreeInv, Tree
      <4>2. CASE volume[d][j].name # n
        BY <1>3, <1>4, <3>2, <4>2
      <4> QED
        BY <4>1, <4>2
    <3>3. CASE ~(b = d /\ i = f) /\ ~(b = d /\ i = j)
      BY <1>4, <3>3
    <3> QED
      BY <3>1, <3>2, <3>3
  <2> QED
    BY <1>2, <2>1, AlikeIf
<1> QED
  BY <1>8, <1>9

-----------------------------------------------------------------------------
(* A true cache on a tree, and what the commands of a careful user do.     *)

(* What a lookup reaches, and what the cache knows after it.               *)
LEMMA TrueLookup ==
  ASSUME LookupTypeOK, TreeInv, CacheTrue, NEW path \in Seq(Names)
  PROVE  LET l == GetDirectory(path)
         IN /\ Good(l, TrueTo(volume)) /\ CacheSound(l.cache) /\ Knows(l.cache) \subseteq TrueTo(volume)
            /\ l.outcome = "found" => EndsAt(volume, allocated, path, l.directory)
<1>1. PICK l : l = GetDirectory(path)
  OBVIOUS
<1>2. Looked(l, path, TrueTo(volume))
  BY <1>1, GetDirectoryIsTrue
<1>5. l.outcome # "undefined" => Where(l) = Walk(volume, path)
  BY <1>1, GetDirectoryIsTrue
<1>3. Good(l, TrueTo(volume)) /\ CacheSound(l.cache) /\ Knows(l.cache) \subseteq TrueTo(volume)
  BY <1>2 DEF Looked, Good
<1>4. ASSUME l.outcome = "found"
      PROVE  EndsAt(volume, allocated, path, l.directory)
  <2>1. Where(l) = Walk(volume, path)
    BY <1>4, <1>5
  <2>2. Walk(volume, path).outcome = "found" /\ Walk(volume, path).directory = l.directory
    BY <1>4, <2>1 DEF Where, Place
  <2> QED
    BY <2>2, WalkEnds DEF TreeInv
<1> QED
  BY <1>1, <1>3, <1>4

(* What is true leads to clusters in use.                                  *)
LEMMA TrueAreInUse ==
  ASSUME TreeInv, NEW e \in TrueTo(volume)
  PROVE  e.cluster \in allocated
<1>1. e.path \in Seq(Names)
      /\ Walk(volume, e.path) = Place("found", Directory(e.path, e.address, e.cluster))
  BY DEF TrueTo
<1>2. PICK d : d = Directory(e.path, e.address, e.cluster)
  OBVIOUS
<1>3. Walk(volume, e.path).outcome = "found" /\ Walk(volume, e.path).directory = d
  BY <1>1, <1>2 DEF Place
<1>4. EndsAt(volume, allocated, e.path, d)
  BY <1>1, <1>3, WalkEnds DEF TreeInv
<1> QED
  BY <1>2, <1>4 DEF EndsAt, Directory

(* After a change around the cluster k a cache that knows nothing of k is  *)
(* as true as before.                                                      *)
LEMMA CacheStaysTrue ==
  ASSUME TreeInv, NEW w, NEW k, AlikeBut(volume, w, allocated, k),
         NEW c, Knows(c) \subseteq TrueTo(volume), \A e \in Knows(c) : e.cluster # k
  PROVE  Knows(c) \subseteq TrueTo(w)
BY StaysTrue DEF TreeInv

KnownTrue == TreeInv /\ CacheTrue

(* Lookups change no slot.                                                 *)
LEMMA ReadsKeepTrue ==
  ASSUME KnownTrue, UNCHANGED <<volume, allocated>>, Knows(cache') \subseteq TrueTo(volume)
  PROVE  KnownTrue'
<1>1. volume' = volume /\ allocated' = allocated
  OBVIOUS
<1>2. Knows(cache') \subseteq TrueTo(volume')
  BY <1>1
<1>3. Tree(volume', allocated')
  BY <1>1 DEF KnownTrue, TreeInv
<1> QED
  BY <1>2, <1>3 DEF KnownTrue, TreeInv, CacheTrue

(* The paths a careful user gives.                                         *)
LEMMA CarefulPaths ==
  ASSUME LookupTypeOK, Careful
  PROVE  /\ NamesGiven = Names /\ current_directory_path \in Seq(Names)
         /\ \A name \in Names : Append(current_directory_path, name) \in Seq(Names)
<1>1. NamesGiven = Names
  BY DEF NamesGiven
<1>2. current_directory_path \in Seq(Names)
  BY <1>1 DEF LookupTypeOK
<1> QED
  BY <1>1, <1>2

(* Changing and listing directories, and looking for one in another.       *)
LEMMA LookupsKeepTrue ==
  ASSUME LookupTypeOK, KnownTrue, Careful,
         \/ \E name \in NamesGiven : ChangeDirectory(name) \/ GetSubdirectory(name)
         \/ ListDirectory \/ ChangeFilesystem
  PROVE  KnownTrue'
<1>1. ASSUME NEW name \in Names, ChangeDirectory(name)
      PROVE  KnownTrue'
  <2>1. PICK path, l : path = Append(current_directory_path, name) /\ l = GetDirectory(path)
    OBVIOUS
  <2>2. Knows(l.cache) \subseteq TrueTo(volume)
    BY <2>1, CarefulPaths, TrueLookup DEF KnownTrue
  <2>3. cache' = l.cache /\ UNCHANGED <<volume, allocated>>
    BY <1>1, <2>1 DEF ChangeDirectory
  <2> QED
    BY <2>2, <2>3, ReadsKeepTrue
<1>2. ASSUME NEW name \in Names, GetSubdirectory(name)
      PROVE  KnownTrue'
  <2>1. PICK l, r : l = GetDirectory(current_directory_path) /\ r = Subdirectory(l, name)
    OBVIOUS
  <2>2. Good(l, TrueTo(volume))
    BY <2>1, CarefulPaths, TrueLookup DEF KnownTrue
  <2>3. Knows(r.cache) \subseteq TrueTo(volume)
    BY <2>1, <2>2, TrueIsClosed, SubdirectoryKeeps
  <2>4. cache' = r.cache /\ UNCHANGED <<volume, allocated>>
    BY <1>2, <2>1 DEF GetSubdirectory, Subdirectory
  <2> QED
    BY <2>3, <2>4, ReadsKeepTrue
<1>3. CASE ListDirectory
  <2>1. PICK l : l = GetDirectory(current_directory_path)
    OBVIOUS
  <2>2. Knows(l.cache) \subseteq TrueTo(volume)
    BY <2>1, CarefulPaths, TrueLookup DEF KnownTrue
  <2>3. cache' = l.cache /\ UNCHANGED <<volume, allocated>>
    BY <1>3, <2>1 DEF ListDirectory
  <2> QED
    BY <2>2, <2>3, ReadsKeepTrue
<1>4. CASE ChangeFilesystem
  <2>1. UNCHANGED <<volume, allocated, cache>>
    BY <1>4 DEF ChangeFilesystem
  <2> QED
    BY <2>1, ReadsKeepTrue DEF KnownTrue, CacheTrue
<1> QED
  BY <1>1, <1>2, <1>3, <1>4, CarefulPaths

(* Creating a directory.                                                   *)
LEMMA CreateKeepsTrue ==
  ASSUME LookupTypeOK, KnownTrue, Careful, NEW name \in Names, CreateDirectory(name)
  PROVE  KnownTrue'
<1>1. PICK l, d : l = GetDirectory(current_directory_path) /\ d = l.directory.first
  OBVIOUS
<1>2. /\ Knows(l.cache) \subseteq TrueTo(volume)
      /\ l.outcome = "found" => EndsAt(volume, allocated, current_directory_path, l.directory)
  BY <1>1, CarefulPaths, TrueLookup DEF KnownTrue
<1>3. cache' = l.cache
  BY <1>1 DEF CreateDirectory
<1>4. CASE UNCHANGED <<volume, allocated>>
  BY <1>2, <1>3, <1>4, ReadsKeepTrue
<1>5. CASE ~ UNCHANGED <<volume, allocated>>
  <2>1. l.outcome = "found" /\ FindDirectoryEntry(d, name) = {} /\ FreeSlots(d) # {}
    BY <1>1, <1>5 DEF CreateDirectory
  <2>2. PICK f : f = First(FreeSlots(d))[2]
    OBVIOUS
  <2>3. PICK c \in Clusters \ allocated :
          allocated' = allocated \cup {c} /\ volume' = Made(d, name, c, f)
    BY <1>1, <1>5, <2>2 DEF CreateDirectory, Made
  <2>4. PICK w : w = Made(d, name, c, f)
    OBVIOUS
  <2>5. d \in allocated
    BY <1>1, <1>2, <2>1 DEF EndsAt
  <2>6. f \in Indices /\ volume[d][f] = NoEntry
    BY <2>1, <2>2, FreeIsThere
  <2>7. FoundIn(volume, d, name) = {}
    BY <2>1 DEF FoundIn, FindDirectoryEntry
  <2>8. Tree(w, allocated \cup {c}) /\ AlikeBut(volume, w, allocated, c)
    BY <2>4, <2>5, <2>6, <2>7, MadeIsTree DEF KnownTrue
  <2>9. \A e \in Knows(l.cache) : e.cluster # c
    BY <1>2, TrueAreInUse DEF KnownTrue
  <2>10. Knows(l.cache) \subseteq TrueTo(w)
    BY <1>2, <2>8, <2>9, CacheStaysTrue DEF KnownTrue
  <2> QED
    BY <1>3, <2>3, <2>4, <2>8, <2>10 DEF KnownTrue, TreeInv, CacheTrue
<1> QED
  BY <1>4, <1>5

(* Deleting one: nothing is known any more of its cluster.                 *)
LEMMA DeleteKeepsTrue ==
  ASSUME LookupTypeOK, KnownTrue, Careful, NEW name \in Names, DeleteDirectory(name)
  PROVE  KnownTrue'
<1>1. PICK path, l, d : /\ path = Append(current_directory_path, name)
                        /\ l = GetDirectory(path) /\ d = l.directory
  OBVIOUS
<1>2. path \in Seq(Names) /\ path # << >>
  BY <1>1, CarefulPaths
<1>3. /\ CacheSound(l.cache) /\ Knows(l.cache) \subseteq TrueTo(volume)
      /\ l.outcome = "found" => EndsAt(volume, allocated, path, d)
  BY <1>1, <1>2, TrueLookup DEF KnownTrue
<1>4. CASE l.outcome # "found"
  <2>1. cache' = l.cache /\ UNCHANGED <<volume, allocated>>
    BY <1>1, <1>4 DEF DeleteDirectory
  <2> QED
    BY <1>3, <2>1, ReadsKeepTrue
<1>5. CASE l.outcome = "found"
  <2>1. PICK k, c, f, r : k = d.first /\ c = d.address[1] /\ f = d.address[2]
                          /\ r = RemoveEntry(l.cache, k)
    OBVIOUS
  <2>2. /\ c \in allocated /\ f \in Indices /\ Named(volume, c, f) /\ volume[c][f].first = k
    BY <1>2, <1>3, <1>5, <2>1 DEF EndsAt
  <2>3. EntryAt(d.address) = volume[c][f] /\ volume[c][f] # NoEntry
    BY <2>1, <2>2, SlotFacts DEF EntryAt, Named
  <2>4. /\ ~HasDirectories(k) /\ cache' = r
        /\ volume' = Freed(c, f) /\ allocated' = allocated \ {k}
    BY <1>1, <1>5, <2>1, <2>2, <2>3 DEF DeleteDirectory, Freed
  <2>5. PICK w : w = Freed(c, f)
    OBVIOUS
  <2>6. Tree(w, allocated \ {k}) /\ AlikeBut(volume, w, allocated, k)
    BY <2>2, <2>4, <2>5, DeletedIsTree DEF KnownTrue
  <2>7. Knows(r) \subseteq TrueTo(volume) /\ \A e \in Knows(r) : e.cluster # k
    BY <1>3, <2>1, RemoveEntryKeeps DEF Kept
  <2>8. Knows(r) \subseteq TrueTo(w)
    BY <2>6, <2>7, CacheStaysTrue DEF KnownTrue
  <2> QED
    BY <2>4, <2>5, <2>6, <2>8 DEF KnownTrue, TreeInv, CacheTrue
<1> QED
  BY <1>4, <1>5

(* Renaming one: nothing is known any more of the cluster it leads to.     *)
LEMMA RenameKeepsTrue ==
  ASSUME LookupTypeOK, KnownTrue, Careful, NEW name \in Names, NEW new \in Names,
         RenameDirectory(name, new)
  PROVE  KnownTrue'
<1>1. PICK l, d, old : /\ l = GetDirectory(current_directory_path) /\ d = l.directory.first
                       /\ old = FindDirectoryEntry(d, name)
  OBVIOUS
<1>2. /\ CacheSound(l.cache) /\ Knows(l.cache) \subseteq TrueTo(volume)
      /\ l.outcome = "found" => EndsAt(volume, allocated, current_directory_path, l.directory)
  BY <1>1, CarefulPaths, TrueLookup DEF KnownTrue
<1>3. UNCHANGED allocated
  BY DEF RenameDirectory
<1>4. CASE \/ l.outcome # "found" \/ old = {}
           \/ FindDirectoryEntry(d, new) # {} \/ FreeSlots(d) = {}
  <2>1. cache' = l.cache /\ UNCHANGED volume
    BY <1>1, <1>4 DEF RenameDirectory
  <2> QED
    BY <1>2, <1>3, <2>1, ReadsKeepTrue
<1>5. CASE ~ \/ l.outcome # "found" \/ old = {}
             \/ FindDirectoryEntry(d, new) # {} \/ FreeSlots(d) = {}
  <2>1. PICK a : a = First(old)
    OBVIOUS
  <2>2. PICK k, f, j, r : /\ k = EntryAt(a).first /\ f = First(FreeSlots(d))[2] /\ j = a[2]
                          /\ r = RemoveEntry(l.cache, k)
    OBVIOUS
  <2>3. /\ ~HasDirectories(k) /\ cache' = r /\ volume' = Renamed(d, new, k, f, j)
    BY <1>1, <1>5, <2>1, <2>2 DEF RenameDirectory, Renamed, ForgetRenamed
  <2>4. d \in allocated
    BY <1>1, <1>2, <1>5 DEF EndsAt
  <2>5. a \in {d} \X Indices /\ EntryAt(a).name = name
    BY <1>1, <1>5, <2>1, FoundIsThere
  <2>6. j \in Indices /\ Named(volume, d, j) /\ k = volume[d][j].first
    BY <2>2, <2>5 DEF EntryAt, Named
  <2>7. f \in Indices /\ volume[d][f] = NoEntry
    BY <1>5, <2>2, FreeIsThere
  <2>8. FoundIn(volume, d, new) = {}
    BY <1>5 DEF FoundIn, FindDirectoryEntry
  <2>9. PICK w : w = Renamed(d, new, k, f, j)
    OBVIOUS
  <2>10. Tree(w, allocated) /\ AlikeBut(volume, w, allocated, k)
    BY <2>3, <2>4, <2>6, <2>7, <2>8, <2>9, RenamedIsTree DEF KnownTrue
  <2>11. Knows(r) \subseteq TrueTo(volume) /\ \A e \in Knows(r) : e.cluster # k
    BY <1>2, <2>2, RemoveEntryKeeps DEF Kept
  <2>12. Knows(r) \subseteq TrueTo(w)
    BY <2>10, <2>11, CacheStaysTrue DEF KnownTrue
  <2> QED
    BY <1>3, <2>3, <2>9, <2>10, <2>12 DEF KnownTrue, TreeInv, CacheTrue
<1> QED
  BY <1>4, <1>5

(* Every step of a careful user keeps the tree, and the cache true.        *)
LEMMA StepKeepsTrue ==
  ASSUME LookupTypeOK, KnownTrue, Careful, [Next]_vars
  PROVE  KnownTrue'
<1>1. ASSUME NEW name \in Names, CreateDirectory(name)
      PROVE  KnownTrue'
  BY <1>1, CreateKeepsTrue
<1>2. ASSUME NEW name \in Names, NEW new \in Names, RenameDirectory(name, new)
      PROVE  KnownTrue'
  BY <1>2, RenameKeepsTrue
<1>3. ASSUME NEW name \in NamesGiven, DeleteDirectory(name)
      PROVE  KnownTrue'
  BY <1>3, CarefulPaths, DeleteKeepsTrue
<1>4. CASE UNCHANGED vars
  <2>1. UNCHANGED <<volume, allocated, cache>>
    BY <1>4 DEF vars
  <2> QED
    BY <2>1, ReadsKeepTrue DEF KnownTrue, CacheTrue
<1> QED
  BY <1>1, <1>2, <1>3, <1>4, LookupsKeepTrue DEF Next

(* At first there is the root, and nothing in it or in the cache.          *)
LEMMA StartsTrue ==
  ASSUME Init
  PROVE  KnownTrue
<1>1. \A c \in Clusters, i \in Indices : ~Named(volume, c, i)
  BY SlotFacts DEF Init, Named
<1>2. RootDirectoryCluster \in Clusters /\ allocated = {RootDirectoryCluster}
  BY SlotFacts DEF Init
<1>3. Knows(cache) = {}
  BY EmptyIsSound DEF Init
<1> QED
  BY <1>1, <1>2, <1>3 DEF KnownTrue, TreeInv, Tree, CacheTrue

(* What a careful user's cache knows is always so.                         *)
LEMMA TrueIsKept == Careful => (Spec => [](LookupTypeOK /\ KnownTrue))
<1> SUFFICES ASSUME Careful
             PROVE  Spec => [](LookupTypeOK /\ KnownTrue)
  OBVIOUS
<1>1. Init => KnownTrue
  BY StartsTrue
<1>2. LookupTypeOK /\ KnownTrue /\ [Next]_vars => KnownTrue'
  BY StepKeepsTrue
<1> QED
  BY <1>1, <1>2, TypeIsKept, PTL DEF Spec

(* Every entry of the cache is the one its path leads to on the volume:    *)
(* the commands of a user who gives no dots for names, and deletes and     *)
(* renames only directories without directories in them, leave nothing in  *)
(* the cache that is not so any more.                                      *)
THEOREM TheCacheIsTrue == Careful => (Spec => []CacheIsTrue)
<1> SUFFICES ASSUME Careful
             PROVE  Spec => []CacheIsTrue
  OBVIOUS
<1>1. LookupTypeOK /\ KnownTrue => CacheIsTrue
  BY TrueCacheIsTrue DEF KnownTrue
<1> QED
  BY <1>1, TrueIsKept, PTL

(* For the same user FAT32Filesystem::GetDirectory finds the directory a   *)
(* lookup of every name of the path on the volume would find, or fails     *)
(* where that would fail, whatever the cache holds.                        *)
THEOREM LookupsLeadRight == Careful => (Spec => []LookupsAreTrue)
<1> SUFFICES ASSUME Careful
             PROVE  Spec => []LookupsAreTrue
  OBVIOUS
<1>1. LookupTypeOK /\ KnownTrue => LookupsAreTrue
  BY TrueCacheIsTrue DEF KnownTrue
<1> QED
  BY <1>1, TrueIsKept, PTL

=============================================================================
