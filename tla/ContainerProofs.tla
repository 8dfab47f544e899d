---------------------------- MODULE ContainerProofs ----------------------------
(***************************************************************************)
(* Theorems about LinkedList, LRUCache, Vector, ForwardList and the heap   *)
(* they live in, MemoryHeap: whatever is done to a container, its          *)
(* iterators read the sequence it should be, the LRU cache does what       *)
(* RecentlyUsed says, and the blocks of the heap share no byte and lose    *)
(* none, for any elements and any size.                                    *)
(***************************************************************************)
EXTENDS ListOperations, LRUCache, Vector, ForwardList, MemoryHeap, DataLemmas

-----------------------------------------------------------------------------
(* The nodes of a list, and the sequence that their links make of them.    *)

ListElements == Nat \ {NoNode}
ListNodes == [next : Nat, prev : Nat]

ElementsOf(s) == {s[i] : i \in 1 .. Len(s)}

HoldsEachOnce(s) == \A i, j \in 1 .. Len(s) : s[i] = s[j] => i = j

NextIn(s, i) == IF i = Len(s) THEN NoNode ELSE s[i + 1]
PrevIn(s, i) == IF i = 1 THEN NoNode ELSE s[i - 1]

FirstOf(s) == IF s = << >> THEN NoNode ELSE s[1]
LastOf(s) == IF s = << >> THEN NoNode ELSE s[Len(s)]

LinksFollow(nodes, s) ==
  \A i \in 1 .. Len(s) : nodes[s[i]].next = NextIn(s, i) /\ nodes[s[i]].prev = PrevIn(s, i)

\* The list is the sequence: its nodes are linked in the order of it, in both directions,
\* and its ends and its size are those of it.
Holds(l, s) ==
  /\ s \in Seq(ListElements) /\ HoldsEachOnce(s)
  /\ l \in [nodes : [ElementsOf(s) -> ListNodes], front : Nat, back : Nat, size : Nat]
  /\ LinksFollow(l.nodes, s)
  /\ l.front = FirstOf(s) /\ l.back = LastOf(s) /\ l.size = Len(s)

NodesOver(D, nodes) == nodes \in [D -> ListNodes]

\* Writing one link changes one field of one node.
NextWritten(D, nodes, n, m, result) ==
  /\ NodesOver(D, result)
  /\ \A x \in D : /\ result[x].next = IF x = n THEN m ELSE nodes[x].next
                  /\ result[x].prev = nodes[x].prev

PrevWritten(D, nodes, n, m, result) ==
  /\ NodesOver(D, result)
  /\ \A x \in D : /\ result[x].prev = IF x = n THEN m ELSE nodes[x].prev
                  /\ result[x].next = nodes[x].next

\* Writing the next or the prev of a node, or of no node, is what it should be.
LEMMA LinkWritten ==
  ASSUME NEW D \in SUBSET ListElements, NEW nodes, NodesOver(D, nodes),
         NEW n \in D \cup {NoNode}, NEW m \in Nat
  PROVE  /\ NextWritten(D, nodes, n, m, LinkNext(nodes, n, m))
         /\ PrevWritten(D, nodes, n, m, LinkPrev(nodes, n, m))
BY DEF LinkNext, LinkPrev, ListNodes, ListElements, NextWritten, PrevWritten, NodesOver

\* A node more, and one less.
WithNode(D, nodes, e, next, prev, result) ==
  /\ NodesOver(D \cup {e}, result)
  /\ result[e].next = next /\ result[e].prev = prev
  /\ \A x \in D \ {e} : result[x].next = nodes[x].next /\ result[x].prev = nodes[x].prev

\* A node more leaves the others as they are.
LEMMA NodeAdded ==
  ASSUME NEW D, NEW nodes, NodesOver(D, nodes), NEW e, NEW next \in Nat, NEW prev \in Nat
  PROVE  WithNode(D, nodes, e, next, prev, Extended(nodes, e, ListNode(next, prev)))
BY DEF Extended, ListNode, ListNodes, NodesOver, WithNode

WithoutNode(D, nodes, e, result) ==
  /\ NodesOver(D \ {e}, result)
  /\ \A x \in D \ {e} : result[x].next = nodes[x].next /\ result[x].prev = nodes[x].prev

\* So does a node less.
LEMMA NodeFreed ==
  ASSUME NEW D, NEW nodes, NodesOver(D, nodes), NEW e
  PROVE  WithoutNode(D, nodes, e, FreeNode(nodes, e))
BY DEF FreeNode, Restrict, ListNodes, NodesOver, WithoutNode

\* What holds of a list and its sequence, with the set of their elements.
InOrder(s, D) ==
  /\ Len(s) \in Nat
  /\ \A i \in 1 .. Len(s) : s[i] \in D
  /\ \A i, j \in 1 .. Len(s) : s[i] = s[j] => i = j

LinkedAs(nodes, s) ==
  \A i \in 1 .. Len(s) : /\ nodes[s[i]].next = IF i = Len(s) THEN NoNode ELSE s[i + 1]
                         /\ nodes[s[i]].prev = IF i = 1 THEN NoNode ELSE s[i - 1]

EndsAs(l, s) ==
  /\ Len(s) = 0 => l.front = NoNode /\ l.back = NoNode
  /\ Len(s) > 0 => l.front = s[1] /\ l.back = s[Len(s)]

NodeNames(D) == D \in SUBSET ListElements /\ NoNode \notin D /\ \A x \in D : x \in Nat

ListFacts(l, s, D) ==
  /\ s \in Seq(ListElements) /\ (s = << >> <=> Len(s) = 0) /\ InOrder(s, D)
  /\ \A x \in D : \E i \in 1 .. Len(s) : x = s[i]
  /\ NodeNames(D) /\ NodesOver(D, l.nodes)
  /\ LinkedAs(l.nodes, s) /\ EndsAs(l, s) /\ l.size = Len(s)
  /\ l.front \in D \cup {NoNode} /\ l.back \in D \cup {NoNode}

\* What a list that holds a sequence says of its nodes, ends and size.
LEMMA HoldsFacts ==
  ASSUME NEW l, NEW s, Holds(l, s)
  PROVE  \E D : D = ElementsOf(s) /\ ListFacts(l, s, D)
<1>1. s \in Seq(ListElements) /\ Len(s) \in Nat
  BY DEF Holds
<1>2. PICK D : D = ElementsOf(s)
  OBVIOUS
<1>3. /\ \A i \in 1 .. Len(s) : s[i] \in D /\ s[i] \in ListElements
      /\ \A x \in D : \E i \in 1 .. Len(s) : x = s[i]
  BY <1>1, <1>2 DEF ElementsOf
<1>4. NodeNames(D)
  BY <1>3 DEF ListElements, NodeNames
<1>5. (s = << >> <=> Len(s) = 0) /\ (s # << >> <=> Len(s) > 0)
  BY <1>1
<1>6. InOrder(s, D) /\ LinkedAs(l.nodes, s)
  BY <1>1, <1>3 DEF Holds, HoldsEachOnce, LinksFollow, NextIn, PrevIn, InOrder, LinkedAs
<1>7. NodesOver(D, l.nodes) /\ l.size = Len(s)
  BY <1>2 DEF Holds, NodesOver
<1>8. EndsAs(l, s)
  BY <1>5 DEF Holds, EndsAs, FirstOf, LastOf
<1>9. l.front \in D \cup {NoNode} /\ l.back \in D \cup {NoNode}
  BY <1>1, <1>3, <1>5, <1>8 DEF EndsAs
<1> QED
  BY <1>1, <1>2, <1>3, <1>4, <1>5, <1>6, <1>7, <1>8, <1>9 DEF ListFacts

\* What makes a record of nodes, ends and size hold a sequence.
LEMMA HoldsIf ==
  ASSUME NEW t \in Seq(ListElements), HoldsEachOnce(t),
         NEW nodes, NodesOver(ElementsOf(t), nodes), LinksFollow(nodes, t)
  PROVE  Holds([nodes |-> nodes, front |-> FirstOf(t), back |-> LastOf(t), size |-> Len(t)], t)
<1>1. Len(t) \in Nat /\ (t # << >> => Len(t) > 0) /\ \A i \in 1 .. Len(t) : t[i] \in Nat
  BY DEF ListElements
<1>2. FirstOf(t) \in Nat /\ LastOf(t) \in Nat
  BY <1>1 DEF FirstOf, LastOf, NoNode
<1> QED
  BY <1>1, <1>2 DEF Holds, NodesOver

\* The empty list.
LEMMA EmptyListHolds == Holds(EmptyList, << >>)
<1>1. Len(<< >>) = 0 /\ << >> \in Seq(ListElements) /\ ElementsOf(<< >>) = {}
  BY DEF ElementsOf
<1>2. << >> \in [{} -> ListNodes]
  OBVIOUS
<1> QED
  BY <1>1, <1>2 DEF Holds, HoldsEachOnce, LinksFollow, EmptyList, NoNode, FirstOf, LastOf

-----------------------------------------------------------------------------
(* A node linked into a list that holds a sequence, and one linked out.    *)

\* The node e linked into the list as its number p.
LinkedIn(l, s, p, e, nodes) ==
  /\ NodesOver(ElementsOf(s) \cup {e}, nodes)
  /\ nodes[e].next = IF p = Len(s) + 1 THEN NoNode ELSE s[p]
  /\ nodes[e].prev = IF p = 1 THEN NoNode ELSE s[p - 1]
  /\ \A i \in 1 .. Len(s) :
       /\ nodes[s[i]].next = IF i = p - 1 THEN e ELSE l.nodes[s[i]].next
       /\ nodes[s[i]].prev = IF i = p THEN e ELSE l.nodes[s[i]].prev

\* A node linked in before place p makes the list hold the sequence with the
\* new element at p, at both ends and between them.
LEMMA InsertionHolds ==
  ASSUME NEW l, NEW s, Holds(l, s), NEW p \in 1 .. (Len(s) + 1),
         NEW e \in ListElements \ ElementsOf(s), NEW nodes, LinkedIn(l, s, p, e, nodes)
  PROVE  Holds([nodes |-> nodes, front |-> IF p = 1 THEN e ELSE s[1],
                back |-> IF p = Len(s) + 1 THEN e ELSE s[Len(s)], size |-> Len(s) + 1],
               InsertAt(s, p, e))
<1>1. PICK D : D = ElementsOf(s) /\ ListFacts(l, s, D)
  BY HoldsFacts
<1>2. InOrder(s, D) /\ LinkedAs(l.nodes, s) /\ Len(s) \in Nat /\ p \in Nat
  BY <1>1 DEF ListFacts, InOrder
<1>3. e \notin D /\ e \in ListElements
  BY <1>1
<1>4. PICK t : t = InsertAt(s, p, e)
  OBVIOUS
<1>5. /\ t \in Seq(ListElements) /\ Len(t) = Len(s) + 1 /\ t # << >>
      /\ \A j \in 1 .. (Len(s) + 1) :
           t[j] = IF j < p THEN s[j] ELSE IF j = p THEN e ELSE s[j - 1]
  <2>1. /\ t \in Seq(ListElements) /\ Len(t) = Len(s) + 1
        /\ \A j \in 1 .. (Len(s) + 1) :
             t[j] = IF j < p THEN s[j] ELSE IF j = p THEN e ELSE s[j - 1]
    <3>1. s \in Seq(ListElements)
      BY <1>1 DEF ListFacts
    <3>2. PICK S : S = ListElements
      OBVIOUS
    <3>3. s \in Seq(S) /\ e \in S /\ p \in 1 .. (Len(s) + 1)
      BY <1>3, <3>1, <3>2, Zenon
    <3>4. InsertIs(S, s, p, e, InsertAt(s, p, e))
      BY <3>3, InsertedIs, Zenon
    <3> QED
      BY <1>4, <3>2, <3>4, Zenon DEF InsertIs
  <2> QED
    BY <1>2, <2>1
<1>6. ElementsOf(t) = D \cup {e}
  <2>1. ElementsOf(t) \subseteq D \cup {e}
    BY <1>2, <1>5 DEF ElementsOf, InOrder
  <2>2. t[p] = e /\ p \in 1 .. Len(t)
    BY <1>2, <1>5
  <2>3. ASSUME NEW i \in 1 .. Len(s) PROVE s[i] \in ElementsOf(t)
    <3>1. i < p => t[i] = s[i] /\ i \in 1 .. Len(t)
      BY <1>2, <1>5
    <3>2. ~(i < p) => t[i + 1] = s[i] /\ i + 1 \in 1 .. Len(t)
      BY <1>2, <1>5
    <3> QED
      BY <3>1, <3>2 DEF ElementsOf
  <2> QED
    BY <1>1, <2>1, <2>2, <2>3 DEF ElementsOf
<1>7. \A i \in 1 .. Len(s) : s[i] # e
  BY <1>2, <1>3 DEF InOrder
<1>8. HoldsEachOnce(t)
  <2>1. ASSUME NEW i \in 1 .. Len(t), NEW j \in 1 .. Len(t), t[i] = t[j], i < j
        PROVE  FALSE
    <3>1. CASE i < p /\ j < p
      BY <1>2, <1>5, <2>1, <3>1 DEF InOrder
    <3>2. CASE i < p /\ j > p
      BY <1>2, <1>5, <2>1, <3>2 DEF InOrder
    <3>3. CASE i = p \/ j = p
      BY <1>2, <1>5, <1>7, <2>1, <3>3
    <3>4. CASE i > p
      BY <1>2, <1>5, <2>1, <3>4 DEF InOrder
    <3> QED
      BY <1>2, <1>5, <2>1, <3>1, <3>2, <3>3, <3>4
  <2> QED
    BY <2>1, <1>2, <1>5 DEF HoldsEachOnce
<1>9. LinksFollow(nodes, t)
  <2>1. ASSUME NEW j \in 1 .. Len(t)
        PROVE  nodes[t[j]].next = NextIn(t, j) /\ nodes[t[j]].prev = PrevIn(t, j)
    <3>1. CASE j = p
      <4>1. p < Len(t) => t[p + 1] = s[p]
        BY <1>2, <1>5
      <4>2. p > 1 => t[p - 1] = s[p - 1]
        BY <1>2, <1>5
      <4> QED
        BY <1>2, <1>5, <3>1, <4>1, <4>2 DEF LinkedIn, NextIn, PrevIn
    <3>2. CASE j < p
      <4>1. j \in 1 .. Len(s) /\ t[j] = s[j] /\ j # Len(t)
        BY <1>2, <1>5, <3>2
      <4>2. t[j + 1] = IF j = p - 1 THEN e ELSE s[j + 1]
        BY <1>2, <1>5, <3>2
      <4>3. j > 1 => t[j - 1] = s[j - 1]
        BY <1>2, <1>5, <3>2
      <4>4. /\ nodes[t[j]].next = IF j = p - 1 THEN e ELSE l.nodes[s[j]].next
            /\ nodes[t[j]].prev = l.nodes[s[j]].prev
        BY <1>2, <3>2, <4>1 DEF LinkedIn
      <4>5. j # p - 1 => l.nodes[s[j]].next = s[j + 1]
        BY <1>2, <3>2, <4>1 DEF LinkedAs
      <4>6. l.nodes[s[j]].prev = IF j = 1 THEN NoNode ELSE s[j - 1]
        BY <1>2, <4>1 DEF LinkedAs
      <4>7. nodes[t[j]].next = t[j + 1]
        BY <4>2, <4>4, <4>5
      <4>8. nodes[t[j]].prev = IF j = 1 THEN NoNode ELSE t[j - 1]
        BY <4>1, <4>3, <4>4, <4>6
      <4> QED
        BY <4>1, <4>7, <4>8 DEF NextIn, PrevIn
    <3>3. CASE j > p
      <4>1. j - 1 \in 1 .. Len(s) /\ t[j] = s[j - 1] /\ j # 1
        BY <1>2, <1>5, <3>3
      <4>2. ASSUME j # Len(t) PROVE t[j + 1] = s[j]
        <5>1. j + 1 \in 1 .. (Len(s) + 1) /\ ~(j + 1 < p) /\ j + 1 # p /\ (j + 1) - 1 = j
          <6>1. Len(t) = Len(s) + 1 /\ Len(s) \in Nat /\ p \in Nat
            BY <1>2, <1>5
          <6> QED
            BY <3>3, <4>2, <6>1
        <5> QED
          BY <1>5, <5>1
      <4>3. t[j - 1] = IF j - 1 = p THEN e ELSE s[j - 2]
        <5>1. j - 1 \in 1 .. (Len(s) + 1) /\ ~(j - 1 < p) /\ (j - 1) - 1 = j - 2
          BY <1>2, <1>5, <3>3
        <5> QED
          BY <1>5, <5>1
      <4>4. /\ nodes[t[j]].next = l.nodes[s[j - 1]].next
            /\ nodes[t[j]].prev = IF j - 1 = p THEN e ELSE l.nodes[s[j - 1]].prev
        <5>1. j - 1 # p - 1
          BY <1>2, <3>3, <4>1
        <5> QED
          BY <4>1, <5>1 DEF LinkedIn
      <4>5. l.nodes[s[j - 1]].next = IF j = Len(t) THEN NoNode ELSE s[j]
        <5>1. (j - 1) + 1 = j /\ (j - 1 = Len(s) <=> j = Len(t))
          BY <1>2, <1>5, <4>1
        <5> QED
          BY <1>2, <4>1, <5>1 DEF LinkedAs
      <4>6. j - 1 # p => l.nodes[s[j - 1]].prev = s[j - 2]
        BY <1>2, <3>3, <4>1 DEF LinkedAs
      <4>7. nodes[t[j]].next = IF j = Len(t) THEN NoNode ELSE t[j + 1]
        BY <4>2, <4>4, <4>5
      <4>8. nodes[t[j]].prev = t[j - 1]
        BY <4>3, <4>4, <4>6
      <4> QED
        BY <4>1, <4>7, <4>8 DEF NextIn, PrevIn
    <3> QED
      BY <1>2, <1>5, <3>1, <3>2, <3>3
  <2> QED
    BY <2>1 DEF LinksFollow
<1>10. t[1] = (IF p = 1 THEN e ELSE s[1]) /\ t[Len(t)] = IF p = Len(s) + 1 THEN e ELSE s[Len(s)]
  BY <1>2, <1>5
<1>11. NodesOver(ElementsOf(t), nodes)
  BY <1>1, <1>6 DEF LinkedIn
<1>12. FirstOf(t) = (IF p = 1 THEN e ELSE s[1])
       /\ LastOf(t) = IF p = Len(s) + 1 THEN e ELSE s[Len(s)]
  BY <1>5, <1>10 DEF FirstOf, LastOf
<1>13. Holds([nodes |-> nodes, front |-> FirstOf(t), back |-> LastOf(t), size |-> Len(t)], t)
  BY <1>5, <1>8, <1>9, <1>11, HoldsIf
<1> QED
  BY <1>4, <1>5, <1>12, <1>13

\* The elements of a sequence without one, and with one more at the front.
LEMMA ElementsRemoved ==
  ASSUME NEW s \in Seq(ListElements), HoldsEachOnce(s), NEW p \in 1 .. Len(s)
  PROVE  ElementsOf(RemoveAt(s, p)) = ElementsOf(s) \ {s[p]}
<1>1. PICK t : t = RemoveAt(s, p)
  OBVIOUS
<1>2. /\ t \in Seq(ListElements) /\ Len(t) = Len(s) - 1
      /\ \A j \in 1 .. (Len(s) - 1) : t[j] = IF j < p THEN s[j] ELSE s[j + 1]
  BY <1>1, Removed
<1>3. Len(s) \in Nat /\ p \in Nat /\ Len(t) \in Nat /\ p <= Len(s) /\ p >= 1
  BY <1>2
<1>4. ASSUME NEW j \in 1 .. Len(t) PROVE t[j] \in ElementsOf(s) \ {s[p]}
  <2>1. j \in 1 .. Len(s) /\ j + 1 \in 1 .. Len(s)
    BY <1>2, <1>3
  <2>2. j < p => t[j] = s[j] /\ j # p
    BY <1>2, <1>3
  <2>3. ~(j < p) => t[j] = s[j + 1] /\ j + 1 # p
    BY <1>2, <1>3
  <2> QED
    BY <2>1, <2>2, <2>3 DEF HoldsEachOnce, ElementsOf
<1>5. ASSUME NEW i \in 1 .. Len(s), i # p PROVE s[i] \in ElementsOf(t)
  <2>1. i < p => i \in 1 .. Len(t) /\ t[i] = s[i]
    BY <1>2, <1>3
  <2>2. i > p => i - 1 \in 1 .. Len(t) /\ t[i - 1] = s[i]
    <3>1. ASSUME i > p PROVE i - 1 \in 1 .. (Len(s) - 1) /\ ~(i - 1 < p) /\ (i - 1) + 1 = i
      BY <1>3, <3>1
    <3> QED
      BY <1>2, <3>1
  <2> QED
    BY <1>3, <1>5, <2>1, <2>2 DEF ElementsOf
<1>6. \A x \in ElementsOf(t) : x \in ElementsOf(s) \ {s[p]}
  BY <1>4 DEF ElementsOf
<1>7. \A x \in ElementsOf(s) \ {s[p]} : x \in ElementsOf(t)
  BY <1>5 DEF ElementsOf
<1> QED
  BY <1>1, <1>6, <1>7

\* With one more at the front.
LEMMA ElementsAdded ==
  ASSUME NEW s \in Seq(ListElements), NEW e \in ListElements
  PROVE  ElementsOf(<<e>> \o s) = ElementsOf(s) \cup {e}
<1>1. PICK t : t = <<e>> \o s
  OBVIOUS
<1>2. /\ t \in Seq(ListElements) /\ Len(t) = Len(s) + 1 /\ Len(s) \in Nat
      /\ \A j \in 1 .. (Len(s) + 1) : t[j] = IF j = 1 THEN e ELSE s[j - 1]
  BY <1>1, FrontAdded
<1>3. ASSUME NEW j \in 1 .. Len(t) PROVE t[j] \in ElementsOf(s) \cup {e}
  <2>1. j # 1 => j - 1 \in 1 .. Len(s)
    BY <1>2
  <2> QED
    BY <1>2, <2>1 DEF ElementsOf
<1>4. e \in ElementsOf(t)
  <2>1. 1 \in 1 .. Len(t) /\ t[1] = e
    BY <1>2
  <2> QED
    BY <2>1 DEF ElementsOf
<1>5. ASSUME NEW i \in 1 .. Len(s) PROVE s[i] \in ElementsOf(t)
  <2>1. PICK h \in 1 .. Len(t) : h = i + 1 /\ h # 1 /\ h - 1 = i
    BY <1>2
  <2>2. t[h] = s[i]
    BY <1>2, <2>1
  <2> QED
    BY <2>2 DEF ElementsOf
<1>6. \A x \in ElementsOf(t) : x \in ElementsOf(s) \cup {e}
  BY <1>3 DEF ElementsOf
<1>7. \A x \in ElementsOf(s) : x \in ElementsOf(t)
  BY <1>5 DEF ElementsOf
<1> QED
  BY <1>1, <1>4, <1>6, <1>7

\* The node of element number p linked out of the list.
LinkedOut(l, s, p, nodes) ==
  /\ NodesOver(ElementsOf(s) \ {s[p]}, nodes)
  /\ \A i \in (1 .. Len(s)) \ {p} :
       /\ nodes[s[i]].next = l.nodes[IF i = p - 1 THEN s[p] ELSE s[i]].next
       /\ nodes[s[i]].prev = l.nodes[IF i = p + 1 THEN s[p] ELSE s[i]].prev

\* A node linked out makes the list hold the sequence without it, at both ends
\* and between them.
LEMMA RemovalHolds ==
  ASSUME NEW l, NEW s, Holds(l, s), NEW p \in 1 .. Len(s), NEW nodes, LinkedOut(l, s, p, nodes)
  PROVE  Holds([nodes |-> nodes, front |-> IF p = 1 THEN l.nodes[s[p]].next ELSE l.front,
                back |-> IF p = Len(s) THEN l.nodes[s[p]].prev ELSE l.back, size |-> l.size - 1],
               RemoveAt(s, p))
<1>1. PICK D : D = ElementsOf(s) /\ ListFacts(l, s, D)
  BY HoldsFacts
<1>2. /\ InOrder(s, D) /\ LinkedAs(l.nodes, s) /\ Len(s) \in Nat /\ p \in Nat
      /\ EndsAs(l, s) /\ l.size = Len(s)
  BY <1>1 DEF ListFacts, InOrder
<1>3. PICK t : t = RemoveAt(s, p)
  OBVIOUS
<1>4. /\ t \in Seq(ListElements) /\ Len(t) = Len(s) - 1
      /\ \A j \in 1 .. (Len(s) - 1) : t[j] = IF j < p THEN s[j] ELSE s[j + 1]
  <2>1. s \in Seq(ListElements)
    BY <1>1 DEF ListFacts
  <2> QED
    BY <1>3, <2>1, Removed
<1>5. Len(t) = Len(s) - 1 /\ Len(s) \in Nat /\ p \in Nat /\ Len(t) \in Nat /\ p <= Len(s) /\ p >= 1
  BY <1>2, <1>4
<1>6. ElementsOf(t) = D \ {s[p]}
  BY <1>1, <1>3, ElementsRemoved DEF ListFacts, Holds
<1>7. HoldsEachOnce(t)
  <2>1. ASSUME NEW i \in 1 .. Len(t), NEW j \in 1 .. Len(t), t[i] = t[j], i < j
        PROVE  FALSE
    <3>1. /\ i \in 1 .. Len(s) /\ j \in 1 .. Len(s) /\ i + 1 \in 1 .. Len(s) /\ j + 1 \in 1 .. Len(s)
          /\ i # j /\ i # j + 1 /\ i + 1 # j + 1
      BY <1>5, <2>1
    <3>2. t[i] = (IF i < p THEN s[i] ELSE s[i + 1]) /\ t[j] = IF j < p THEN s[j] ELSE s[j + 1]
      BY <1>4, <1>5
    <3>3. ~(i < p) => ~(j < p)
      BY <1>5, <2>1
    <3> QED
      BY <1>2, <2>1, <3>1, <3>2, <3>3 DEF InOrder
  <2> QED
    BY <1>5, <2>1 DEF HoldsEachOnce
<1>8. LinksFollow(nodes, t)
  <2>1. ASSUME NEW j \in 1 .. Len(t)
        PROVE  nodes[t[j]].next = NextIn(t, j) /\ nodes[t[j]].prev = PrevIn(t, j)
    <3>1. CASE j < p
      <4>1. j \in 1 .. Len(s) /\ j # p /\ j # p + 1 /\ j + 1 \in 1 .. Len(s) /\ (j = 1 \/ j - 1 \in 1 .. Len(t))
        BY <1>5, <3>1
      <4>2. t[j] = s[j] /\ (j # 1 => t[j - 1] = s[j - 1])
        BY <1>4, <1>5, <3>1, <4>1
      <4>3. j # Len(t) => t[j + 1] = IF j = p - 1 THEN s[p + 1] ELSE s[j + 1]
        <5>1. ASSUME j # Len(t)
              PROVE  j + 1 \in 1 .. (Len(s) - 1) /\ (j + 1 < p <=> j # p - 1) /\ (j = p - 1 => j + 1 = p)
          BY <1>5, <3>1, <5>1
        <5> QED
          BY <1>4, <5>1
      <4>4. /\ nodes[t[j]].next = l.nodes[IF j = p - 1 THEN s[p] ELSE s[j]].next
            /\ nodes[t[j]].prev = l.nodes[s[j]].prev
        BY <4>1, <4>2 DEF LinkedOut
      <4>5. /\ l.nodes[s[p]].next = IF p = Len(s) THEN NoNode ELSE s[p + 1]
            /\ l.nodes[s[j]].next = s[j + 1]
            /\ l.nodes[s[j]].prev = IF j = 1 THEN NoNode ELSE s[j - 1]
        <5>1. j # Len(s)
          BY <1>5
        <5> QED
          BY <1>2, <4>1, <5>1 DEF LinkedAs
      <4>6. p = Len(s) /\ j = p - 1 <=> j = Len(t)
        BY <1>5, <3>1
      <4>7. nodes[t[j]].next = IF j = Len(t) THEN NoNode ELSE t[j + 1]
        BY <4>3, <4>4, <4>5, <4>6
      <4>8. nodes[t[j]].prev = IF j = 1 THEN NoNode ELSE t[j - 1]
        BY <4>2, <4>4, <4>5
      <4> QED
        BY <4>7, <4>8 DEF NextIn, PrevIn
    <3>2. CASE j >= p
      <4>1. j + 1 \in 1 .. Len(s) /\ j + 1 # p /\ j + 1 # p - 1 /\ j \in 1 .. Len(s)
        BY <1>5, <3>2
      <4>2. t[j] = s[j + 1]
        BY <1>4, <1>5, <3>2
      <4>3. j # Len(t) => t[j + 1] = s[j + 2]
        <5>1. ASSUME j # Len(t) PROVE j + 1 \in 1 .. (Len(s) - 1) /\ ~(j + 1 < p) /\ (j + 1) + 1 = j + 2
          BY <1>5, <3>2, <5>1
        <5> QED
          BY <1>4, <5>1
      <4>4. j # 1 => t[j - 1] = IF j = p THEN s[p - 1] ELSE s[j]
        <5>1. ASSUME j # 1 PROVE j - 1 \in 1 .. (Len(s) - 1) /\ (j - 1 < p <=> j = p) /\ (j - 1) + 1 = j
          BY <1>5, <3>2, <5>1
        <5> QED
          BY <1>4, <5>1
      <4>5. /\ nodes[t[j]].next = l.nodes[s[j + 1]].next
            /\ nodes[t[j]].prev = l.nodes[IF j = p THEN s[p] ELSE s[j + 1]].prev
        <5>1. j + 1 = p + 1 <=> j = p
          BY <1>5
        <5> QED
          BY <4>1, <4>2, <5>1 DEF LinkedOut
      <4>6. /\ l.nodes[s[j + 1]].next = IF j = Len(t) THEN NoNode ELSE s[j + 2]
            /\ l.nodes[s[p]].prev = IF p = 1 THEN NoNode ELSE s[p - 1]
            /\ l.nodes[s[j + 1]].prev = s[j]
        <5>1. (j + 1 = Len(s) <=> j = Len(t)) /\ (j + 1) + 1 = j + 2 /\ j + 1 # 1 /\ (j + 1) - 1 = j
          BY <1>5
        <5> QED
          BY <1>2, <4>1, <5>1 DEF LinkedAs
      <4>7. j = p => (j = 1 <=> p = 1)
        OBVIOUS
      <4>8. j # p => j # 1
        BY <1>5, <3>2
      <4>9. nodes[t[j]].next = IF j = Len(t) THEN NoNode ELSE t[j + 1]
        BY <4>3, <4>5, <4>6
      <4>10. nodes[t[j]].prev = IF j = 1 THEN NoNode ELSE t[j - 1]
        BY <4>4, <4>5, <4>6, <4>7, <4>8
      <4> QED
        BY <4>9, <4>10 DEF NextIn, PrevIn
    <3> QED
      BY <1>5, <3>1, <3>2
  <2> QED
    BY <2>1 DEF LinksFollow
<1>9. FirstOf(t) = IF p = 1 THEN l.nodes[s[p]].next ELSE l.front
  <2>1. t = << >> <=> Len(s) = 1
    BY <1>4, <1>5
  <2>2. Len(s) # 1 => t[1] = IF p = 1 THEN s[2] ELSE s[1]
    BY <1>4, <1>5
  <2>3. l.nodes[s[p]].next = (IF p = Len(s) THEN NoNode ELSE s[p + 1]) /\ l.front = s[1]
    BY <1>2, <1>5 DEF LinkedAs, EndsAs
  <2> QED
    BY <1>5, <2>1, <2>2, <2>3 DEF FirstOf
<1>10. LastOf(t) = IF p = Len(s) THEN l.nodes[s[p]].prev ELSE l.back
  <2>1. t = << >> <=> Len(s) = 1
    BY <1>4, <1>5
  <2>2. Len(s) # 1 => t[Len(t)] = IF p = Len(s) THEN s[p - 1] ELSE s[Len(s)]
    <3>1. ASSUME Len(s) # 1
          PROVE  /\ Len(t) \in 1 .. (Len(s) - 1) /\ (Len(t) < p <=> p = Len(s)) /\ Len(t) + 1 = Len(s)
                 /\ (p = Len(s) => Len(t) = p - 1)
      BY <1>5, <3>1
    <3> QED
      BY <1>4, <3>1
  <2>3. l.nodes[s[p]].prev = (IF p = 1 THEN NoNode ELSE s[p - 1]) /\ l.back = s[Len(s)]
    BY <1>2, <1>5 DEF LinkedAs, EndsAs
  <2> QED
    BY <1>5, <2>1, <2>2, <2>3 DEF LastOf
<1>11. NodesOver(ElementsOf(t), nodes)
  BY <1>1, <1>6 DEF LinkedOut
<1>12. Holds([nodes |-> nodes, front |-> FirstOf(t), back |-> LastOf(t), size |-> Len(t)], t)
  BY <1>4, <1>7, <1>8, <1>11, HoldsIf
<1> QED
  BY <1>2, <1>3, <1>5, <1>9, <1>10, <1>12

-----------------------------------------------------------------------------
(* The operations on a list do to its sequence what they should.           *)

\* Where a node is in the sequence, by its links and by the ends of the list.
Places(l, s, D, p) ==
  /\ \A i \in 1 .. Len(s) : s[i] = l.nodes[s[p]].next <=> i = p + 1
  /\ \A i \in 1 .. Len(s) : s[i] = l.nodes[s[p]].prev <=> i = p - 1
  /\ l.nodes[s[p]].next = NoNode <=> p = Len(s)
  /\ l.nodes[s[p]].prev = NoNode <=> p = 1
  /\ l.nodes[s[p]].next \in D \cup {NoNode} /\ l.nodes[s[p]].next \in Nat
  /\ l.nodes[s[p]].prev \in D \cup {NoNode} /\ l.nodes[s[p]].prev \in Nat
  /\ s[p] \in D /\ s[p] \in Nat /\ s[p] # NoNode
  /\ s[p] = l.front <=> p = 1
  /\ s[p] = l.back <=> p = Len(s)

\* What the links of the node at any place are, and when it is an end of the
\* list.
LEMMA EveryPlace ==
  ASSUME NEW l, NEW s, NEW D, ListFacts(l, s, D), NEW p \in 1 .. Len(s)
  PROVE  Places(l, s, D, p)
<1>1. /\ InOrder(s, D) /\ LinkedAs(l.nodes, s) /\ Len(s) \in Nat /\ EndsAs(l, s) /\ NodeNames(D)
  BY DEF ListFacts, InOrder
<1>2. Len(s) \in Nat /\ p \in Nat /\ p >= 1 /\ p <= Len(s)
  BY <1>1
<1>3. \A i \in 1 .. Len(s) : s[i] \in D /\ s[i] # NoNode /\ s[i] \in Nat
  BY <1>1 DEF InOrder, NodeNames
<1>4. \A i, j \in 1 .. Len(s) : s[i] = s[j] => i = j
  BY <1>1 DEF InOrder
<1>5. /\ l.nodes[s[p]].next = IF p = Len(s) THEN NoNode ELSE s[p + 1]
      /\ l.nodes[s[p]].prev = IF p = 1 THEN NoNode ELSE s[p - 1]
  BY <1>1 DEF LinkedAs
<1>6. l.front = s[1] /\ l.back = s[Len(s)] /\ 1 \in 1 .. Len(s) /\ Len(s) \in 1 .. Len(s)
  BY <1>1, <1>2 DEF EndsAs
<1>7. /\ p # Len(s) => p + 1 \in 1 .. Len(s)
      /\ p # 1 => p - 1 \in 1 .. Len(s)
  BY <1>2
<1>8. ASSUME NEW i \in 1 .. Len(s) PROVE s[i] = l.nodes[s[p]].next <=> i = p + 1
  <2>1. CASE p = Len(s)
    BY <1>2, <1>3, <1>5, <2>1
  <2>2. CASE p # Len(s)
    BY <1>4, <1>5, <1>7, <2>2
  <2> QED
    BY <2>1, <2>2
<1>9. ASSUME NEW i \in 1 .. Len(s) PROVE s[i] = l.nodes[s[p]].prev <=> i = p - 1
  <2>1. CASE p = 1
    BY <1>2, <1>3, <1>5, <2>1
  <2>2. CASE p # 1
    BY <1>4, <1>5, <1>7, <2>2
  <2> QED
    BY <2>1, <2>2
<1>10. (l.nodes[s[p]].next = NoNode <=> p = Len(s)) /\ (l.nodes[s[p]].prev = NoNode <=> p = 1)
  BY <1>3, <1>5, <1>7
<1>11. /\ l.nodes[s[p]].next \in D \cup {NoNode} /\ l.nodes[s[p]].next \in Nat
       /\ l.nodes[s[p]].prev \in D \cup {NoNode} /\ l.nodes[s[p]].prev \in Nat
  BY <1>3, <1>5, <1>7 DEF NoNode
<1>12. (s[p] = l.front <=> p = 1) /\ (s[p] = l.back <=> p = Len(s))
  BY <1>4, <1>6
<1> QED
  BY <1>3, <1>8, <1>9, <1>10, <1>11, <1>12 DEF Places

\* The places where the operations of sequences put and take an element.
LEMMA EndsAreInserted ==
  ASSUME NEW s \in Seq(ListElements), NEW e \in ListElements
  PROVE  <<e>> \o s = InsertAt(s, 1, e) /\ Append(s, e) = InsertAt(s, Len(s) + 1, e)
<1>1. Len(s) \in Nat
  OBVIOUS
<1>2. <<e>> \o s = InsertAt(s, 1, e)
  <2>1. /\ <<e>> \o s \in Seq(ListElements) /\ Len(<<e>> \o s) = Len(s) + 1
        /\ \A j \in 1 .. (Len(s) + 1) : (<<e>> \o s)[j] = IF j = 1 THEN e ELSE s[j - 1]
    BY FrontAdded
  <2>2. /\ InsertAt(s, 1, e) \in Seq(ListElements) /\ Len(InsertAt(s, 1, e)) = Len(s) + 1
        /\ \A j \in 1 .. (Len(s) + 1) :
             InsertAt(s, 1, e)[j] = IF j < 1 THEN s[j] ELSE IF j = 1 THEN e ELSE s[j - 1]
    <3>1. s \in Seq(ListElements) /\ e \in ListElements /\ 1 \in 1 .. (Len(s) + 1)
      BY <1>1
    <3>2. InsertIs(ListElements, s, 1, e, InsertAt(s, 1, e))
      BY <3>1, InsertedIs, Zenon
    <3> QED
      BY <3>2, Zenon DEF InsertIs
  <2>3. \A j \in 1 .. (Len(s) + 1) : (<<e>> \o s)[j] = InsertAt(s, 1, e)[j]
    BY <1>1, <2>1, <2>2
  <2> QED
    BY <2>1, <2>2, <2>3, SameSequence
<1>3. Append(s, e) = InsertAt(s, Len(s) + 1, e)
  <2>1. /\ Append(s, e) \in Seq(ListElements) /\ Len(Append(s, e)) = Len(s) + 1
        /\ \A j \in 1 .. (Len(s) + 1) : Append(s, e)[j] = IF j = Len(s) + 1 THEN e ELSE s[j]
    BY <1>1, AppendProperties
  <2>2. PICK p \in 1 .. (Len(s) + 1) : p = Len(s) + 1
    <3>1. Len(s) + 1 \in 1 .. (Len(s) + 1)
      BY <1>1
    <3> QED
      BY <3>1, Zenon
  <2>3. PICK t : t = InsertAt(s, p, e)
    OBVIOUS
  <2>4. /\ t \in Seq(ListElements) /\ Len(t) = Len(s) + 1
        /\ \A j \in 1 .. (Len(s) + 1) :
             t[j] = IF j < p THEN s[j] ELSE IF j = p THEN e ELSE s[j - 1]
    <3>1. s \in Seq(ListElements) /\ e \in ListElements
      OBVIOUS
    <3>2. InsertIs(ListElements, s, p, e, InsertAt(s, p, e))
      BY <2>2, <3>1, InsertedIs, Zenon
    <3> QED
      BY <2>3, <3>2, Zenon DEF InsertIs
  <2>5. \A j \in 1 .. (Len(s) + 1) : Append(s, e)[j] = t[j]
    BY <1>1, <2>1, <2>2, <2>4
  <2>6. Append(s, e) = t
    BY <2>1, <2>4, <2>5, SameSequence
  <2> QED
    BY <2>2, <2>3, <2>6, Zenon
<1> QED
  BY <1>2, <1>3

\* And the same of what they take away.
LEMMA EndsAreRemoved ==
  ASSUME NEW S, NEW s \in Seq(S), s # << >>
  PROVE  /\ Tail(s) = RemoveAt(s, 1) /\ Front(s) = RemoveAt(s, Len(s))
         /\ <<s[1]>> \o RemoveAt(s, 1) = s
<1>1. Len(s) \in Nat /\ Len(s) > 0 /\ 1 \in 1 .. Len(s) /\ Len(s) \in 1 .. Len(s)
  OBVIOUS
<1>2. /\ Front(s) \in Seq(S) /\ Len(Front(s)) = Len(s) - 1
      /\ \A j \in 1 .. (Len(s) - 1) : Front(s)[j] = s[j]
      /\ Tail(s) \in Seq(S) /\ Len(Tail(s)) = Len(s) - 1
      /\ \A j \in 1 .. (Len(s) - 1) : Tail(s)[j] = s[j + 1]
  BY EndsRemoved
<1>3. /\ RemoveAt(s, 1) \in Seq(S) /\ Len(RemoveAt(s, 1)) = Len(s) - 1
      /\ \A j \in 1 .. (Len(s) - 1) : RemoveAt(s, 1)[j] = IF j < 1 THEN s[j] ELSE s[j + 1]
  BY <1>1, Removed
<1>4. /\ RemoveAt(s, Len(s)) \in Seq(S) /\ Len(RemoveAt(s, Len(s))) = Len(s) - 1
      /\ \A j \in 1 .. (Len(s) - 1) :
           RemoveAt(s, Len(s))[j] = IF j < Len(s) THEN s[j] ELSE s[j + 1]
  BY <1>1, Removed
<1>5. Tail(s) = RemoveAt(s, 1)
  <2>1. \A j \in 1 .. (Len(s) - 1) : Tail(s)[j] = RemoveAt(s, 1)[j]
    BY <1>1, <1>2, <1>3
  <2> QED
    BY <1>2, <1>3, <2>1, SameSequence
<1>6. Front(s) = RemoveAt(s, Len(s))
  <2>1. \A j \in 1 .. (Len(s) - 1) : Front(s)[j] = RemoveAt(s, Len(s))[j]
    BY <1>1, <1>2, <1>4
  <2> QED
    BY <1>2, <1>4, <2>1, SameSequence
<1>7. <<s[1]>> \o RemoveAt(s, 1) = s
  <2>1. PICK r : r = RemoveAt(s, 1)
    OBVIOUS
  <2>2. /\ <<s[1]>> \o r \in Seq(S) /\ Len(<<s[1]>> \o r) = Len(r) + 1
        /\ \A j \in 1 .. (Len(r) + 1) : (<<s[1]>> \o r)[j] = IF j = 1 THEN s[1] ELSE r[j - 1]
    <3>1. s[1] \in S /\ r \in Seq(S)
      BY <1>1, <1>3, <2>1
    <3> QED
      BY <3>1, FrontAdded
  <2>3. Len(r) = Len(s) - 1 /\ \A j \in 1 .. (Len(s) - 1) : r[j] = s[j + 1]
    BY <1>1, <1>3, <2>1
  <2>4. ASSUME NEW j \in 1 .. Len(s) PROVE (<<s[1]>> \o r)[j] = s[j]
    <3>1. j \in 1 .. (Len(r) + 1) /\ (j # 1 => j - 1 \in 1 .. (Len(s) - 1) /\ (j - 1) + 1 = j)
      BY <1>1, <2>3
    <3> QED
      BY <2>2, <2>3, <3>1
  <2>5. PICK u : u = <<s[1]>> \o r
    OBVIOUS
  <2>6. u \in Seq(S) /\ Len(u) = Len(s) /\ \A j \in 1 .. Len(s) : u[j] = s[j]
    BY <1>1, <2>2, <2>3, <2>4, <2>5
  <2>7. u = s
    BY <2>6, SameSequence
  <2> QED
    BY <2>1, <2>5, <2>7
<1> QED
  BY <1>5, <1>6, <1>7

-----------------------------------------------------------------------------
(* What each operation makes of the sequence a list holds.                 *)

\* push_front: one element more before all others.
LEMMA PushFrontHolds ==
  ASSUME NEW l, NEW s, Holds(l, s), NEW e \in ListElements \ ElementsOf(s)
  PROVE  Holds(PushFront(l, e), <<e>> \o s)
<1>1. PICK D : D = ElementsOf(s) /\ ListFacts(l, s, D)
  BY HoldsFacts
<1>2. /\ InOrder(s, D) /\ Len(s) \in Nat /\ EndsAs(l, s) /\ l.size = Len(s) /\ NodeNames(D)
      /\ l.front \in D \cup {NoNode} /\ l.front \in Nat /\ NodesOver(D, l.nodes)
      /\ s \in Seq(ListElements)
  BY <1>1 DEF ListFacts, InOrder, NodeNames, NoNode
<1>3. PICK linked : linked = LinkPrev(l.nodes, l.front, e)
  OBVIOUS
<1>4. PICK nodes : nodes = Extended(linked, e, ListNode(l.front, NoNode))
  OBVIOUS
<1>5. PrevWritten(D, l.nodes, l.front, e, linked)
  BY <1>2, <1>3, LinkWritten DEF NodeNames, ListElements
<1>6. WithNode(D, linked, e, l.front, NoNode, nodes)
  <2>1. NodesOver(D, linked) /\ NoNode \in Nat
    BY <1>5 DEF PrevWritten, NoNode
  <2> QED
    BY <1>2, <1>4, <2>1, NodeAdded
<1>7. \A i \in 1 .. Len(s) : s[i] \in D \ {e} /\ (s[i] = l.front <=> i = 1)
  <2>1. ASSUME NEW i \in 1 .. Len(s) PROVE s[i] \in D \ {e} /\ (s[i] = l.front <=> i = 1)
    <3>1. Places(l, s, D, i)
      BY <1>1, EveryPlace
    <3> QED
      BY <1>1, <3>1 DEF Places
  <2> QED
    BY <2>1
<1>8. LinkedIn(l, s, 1, e, nodes)
  <2>1. l.front = IF 1 = Len(s) + 1 THEN NoNode ELSE s[1]
    BY <1>2 DEF EndsAs
  <2>2. nodes[e].next = l.front /\ nodes[e].prev = NoNode /\ NodesOver(D \cup {e}, nodes)
    BY <1>6 DEF WithNode
  <2>3. ASSUME NEW i \in 1 .. Len(s)
        PROVE  /\ nodes[s[i]].next = l.nodes[s[i]].next
               /\ nodes[s[i]].prev = IF i = 1 THEN e ELSE l.nodes[s[i]].prev
    BY <1>5, <1>6, <1>7 DEF PrevWritten, WithNode
  <2>4. \A i \in 1 .. Len(s) : i # 1 - 1
    OBVIOUS
  <2> QED
    BY <1>1, <2>1, <2>2, <2>3, <2>4 DEF LinkedIn
<1>9. PushFront(l, e) = [nodes |-> nodes, front |-> e,
                         back |-> IF 1 = Len(s) + 1 THEN e ELSE s[Len(s)], size |-> Len(s) + 1]
  <2>1. (IF l.back = NoNode THEN e ELSE l.back) = IF 1 = Len(s) + 1 THEN e ELSE s[Len(s)]
    <3>1. CASE Len(s) = 0
      BY <1>2, <3>1 DEF EndsAs
    <3>2. CASE Len(s) > 0
      <4>1. Len(s) \in 1 .. Len(s)
        BY <1>2, <3>2
      <4>2. s[Len(s)] # NoNode /\ 1 # Len(s) + 1
        BY <1>2, <3>2, <4>1 DEF InOrder, NodeNames
      <4> QED
        BY <1>2, <3>2, <4>2 DEF EndsAs
    <3> QED
      BY <1>2, <3>1, <3>2
  <2> QED
    BY <1>2, <1>3, <1>4, <2>1 DEF PushFront
<1>10. Holds(PushFront(l, e), InsertAt(s, 1, e))
  <2>1. 1 \in 1 .. (Len(s) + 1)
    BY <1>2
  <2> QED
    BY <1>8, <1>9, <2>1, InsertionHolds
<1> QED
  BY <1>2, <1>10, EndsAreInserted

\* push_back: one more after all others.
LEMMA PushBackHolds ==
  ASSUME NEW l, NEW s, Holds(l, s), NEW e \in ListElements \ ElementsOf(s)
  PROVE  Holds(PushBack(l, e), Append(s, e))
<1>1. PICK D : D = ElementsOf(s) /\ ListFacts(l, s, D)
  BY HoldsFacts
<1>2. /\ InOrder(s, D) /\ Len(s) \in Nat /\ EndsAs(l, s) /\ l.size = Len(s) /\ NodeNames(D)
      /\ l.back \in D \cup {NoNode} /\ l.back \in Nat /\ NodesOver(D, l.nodes)
      /\ s \in Seq(ListElements)
  BY <1>1 DEF ListFacts, InOrder, NodeNames, NoNode
<1>3. PICK linked : linked = LinkNext(l.nodes, l.back, e)
  OBVIOUS
<1>4. PICK nodes : nodes = Extended(linked, e, ListNode(NoNode, l.back))
  OBVIOUS
<1>5. NextWritten(D, l.nodes, l.back, e, linked)
  BY <1>2, <1>3, LinkWritten DEF NodeNames, ListElements
<1>6. WithNode(D, linked, e, NoNode, l.back, nodes)
  <2>1. NodesOver(D, linked) /\ NoNode \in Nat
    BY <1>5 DEF NextWritten, NoNode
  <2> QED
    BY <1>2, <1>4, <2>1, NodeAdded
<1>7. \A i \in 1 .. Len(s) : s[i] \in D \ {e} /\ (s[i] = l.back <=> i = Len(s))
  <2>1. ASSUME NEW i \in 1 .. Len(s) PROVE s[i] \in D \ {e} /\ (s[i] = l.back <=> i = Len(s))
    <3>1. Places(l, s, D, i)
      BY <1>1, EveryPlace
    <3> QED
      BY <1>1, <3>1 DEF Places
  <2> QED
    BY <2>1
<1>8. PICK p \in 1 .. (Len(s) + 1) : p = Len(s) + 1
  <2>1. Len(s) + 1 \in 1 .. (Len(s) + 1)
    BY <1>2
  <2> QED
    BY <2>1, Zenon
<1>9. LinkedIn(l, s, p, e, nodes)
  <2>1. l.back = IF p = 1 THEN NoNode ELSE s[p - 1]
    BY <1>2, <1>8 DEF EndsAs
  <2>2. nodes[e].next = NoNode /\ nodes[e].prev = l.back /\ NodesOver(D \cup {e}, nodes)
    BY <1>6 DEF WithNode
  <2>3. ASSUME NEW i \in 1 .. Len(s)
        PROVE  /\ nodes[s[i]].next = IF i = Len(s) THEN e ELSE l.nodes[s[i]].next
               /\ nodes[s[i]].prev = l.nodes[s[i]].prev
    BY <1>5, <1>6, <1>7 DEF NextWritten, WithNode
  <2>4. \A i \in 1 .. Len(s) : i # p /\ (i = p - 1 <=> i = Len(s))
    BY <1>2, <1>8
  <2> QED
    BY <1>1, <1>8, <2>1, <2>2, <2>3, <2>4 DEF LinkedIn
<1>10. PushBack(l, e) = [nodes |-> nodes, front |-> IF p = 1 THEN e ELSE s[1],
                         back |-> IF p = Len(s) + 1 THEN e ELSE s[Len(s)], size |-> Len(s) + 1]
  <2>1. (IF l.front = NoNode THEN e ELSE l.front) = IF p = 1 THEN e ELSE s[1]
    <3>1. CASE Len(s) = 0
      BY <1>2, <1>8, <3>1 DEF EndsAs
    <3>2. CASE Len(s) > 0
      <4>1. 1 \in 1 .. Len(s)
        BY <1>2, <3>2
      <4>2. s[1] # NoNode /\ p # 1
        BY <1>2, <1>8, <3>2, <4>1 DEF InOrder, NodeNames
      <4> QED
        BY <1>2, <3>2, <4>2 DEF EndsAs
    <3> QED
      BY <1>2, <3>1, <3>2
  <2> QED
    BY <1>2, <1>3, <1>4, <1>8, <2>1 DEF PushBack
<1>11. Holds(PushBack(l, e), InsertAt(s, p, e))
  BY <1>9, <1>10, InsertionHolds
<1>12. InsertAt(s, p, e) = Append(s, e)
  BY <1>2, <1>8, EndsAreInserted, Zenon
<1> QED
  BY <1>11, <1>12

\* insert_after: one more behind the one at the iterator.
LEMMA InsertAfterHolds ==
  ASSUME NEW l, NEW s, Holds(l, s), NEW k \in 1 .. Len(s), NEW e \in ListElements \ ElementsOf(s)
  PROVE  Holds(InsertAfter(l, s[k], e), InsertAt(s, k + 1, e))
<1>1. PICK D : D = ElementsOf(s) /\ ListFacts(l, s, D)
  BY HoldsFacts
<1>2. /\ InOrder(s, D) /\ Len(s) \in Nat /\ EndsAs(l, s) /\ l.size = Len(s) /\ NodeNames(D)
      /\ NodesOver(D, l.nodes) /\ s \in Seq(ListElements) /\ k \in Nat
  BY <1>1 DEF ListFacts, InOrder
<1>3. PICK n : n = s[k]
  OBVIOUS
<1>4. PICK next : next = l.nodes[n].next
  OBVIOUS
<1>5. /\ n \in D /\ n \in Nat /\ next \in D \cup {NoNode} /\ next \in Nat
      /\ (next = NoNode <=> k = Len(s))
      /\ \A i \in 1 .. Len(s) : s[i] = next <=> i = k + 1
  <2>1. Places(l, s, D, k)
    BY <1>1, EveryPlace
  <2> QED
    BY <1>3, <1>4, <2>1 DEF Places
<1>6. PICK a : a = LinkNext(l.nodes, n, e)
  OBVIOUS
<1>7. PICK b : b = LinkPrev(a, next, e)
  OBVIOUS
<1>8. PICK nodes : nodes = Extended(b, e, ListNode(next, n))
  OBVIOUS
<1>9. D \in SUBSET ListElements /\ e \in Nat
  BY <1>2 DEF NodeNames, ListElements
<1>10. NextWritten(D, l.nodes, n, e, a)
  BY <1>2, <1>5, <1>6, <1>9, LinkWritten
<1>11. PrevWritten(D, a, next, e, b)
  <2>1. NodesOver(D, a)
    BY <1>10 DEF NextWritten
  <2> QED
    BY <1>5, <1>7, <1>9, <2>1, LinkWritten
<1>12. WithNode(D, b, e, next, n, nodes)
  <2>1. NodesOver(D, b)
    BY <1>11 DEF PrevWritten
  <2> QED
    BY <1>5, <1>8, <2>1, NodeAdded
<1>13. PICK p \in 1 .. (Len(s) + 1) : p = k + 1
  <2>1. k + 1 \in 1 .. (Len(s) + 1)
    BY <1>2
  <2> QED
    BY <2>1, Zenon
<1>14. LinkedIn(l, s, p, e, nodes)
  <2>1. next = IF p = Len(s) + 1 THEN NoNode ELSE s[p]
    <3>1. CASE k = Len(s)
      BY <1>2, <1>5, <1>13, <3>1
    <3>2. CASE k # Len(s)
      <4>1. k + 1 \in 1 .. Len(s) /\ p # Len(s) + 1
        BY <1>2, <1>13, <3>2
      <4> QED
        BY <1>5, <1>13, <4>1
    <3> QED
      BY <3>1, <3>2
  <2>2. n = IF p = 1 THEN NoNode ELSE s[p - 1]
    BY <1>2, <1>3, <1>13
  <2>3. nodes[e].next = next /\ nodes[e].prev = n /\ NodesOver(D \cup {e}, nodes)
    BY <1>12 DEF WithNode
  <2>4. ASSUME NEW i \in 1 .. Len(s)
        PROVE  /\ nodes[s[i]].next = IF i = p - 1 THEN e ELSE l.nodes[s[i]].next
               /\ nodes[s[i]].prev = IF i = p THEN e ELSE l.nodes[s[i]].prev
    <3>1. s[i] \in D \ {e} /\ (s[i] = n <=> i = k)
      BY <1>1, <1>2, <1>3 DEF InOrder
    <3>2. p - 1 = k
      BY <1>2, <1>13
    <3>3. nodes[s[i]].next = a[s[i]].next /\ nodes[s[i]].prev = b[s[i]].prev
      BY <1>11, <1>12, <3>1 DEF PrevWritten, WithNode
    <3>4. /\ a[s[i]].next = IF s[i] = n THEN e ELSE l.nodes[s[i]].next
          /\ b[s[i]].prev = IF s[i] = next THEN e ELSE l.nodes[s[i]].prev
      BY <1>10, <1>11, <3>1 DEF PrevWritten, NextWritten
    <3> QED
      BY <1>5, <1>13, <3>1, <3>2, <3>3, <3>4
  <2> QED
    BY <1>1, <2>1, <2>2, <2>3, <2>4 DEF LinkedIn
<1>15. InsertAfter(l, n, e) = [nodes |-> nodes, front |-> IF p = 1 THEN e ELSE s[1],
                               back |-> IF p = Len(s) + 1 THEN e ELSE s[Len(s)],
                               size |-> Len(s) + 1]
  <2>1. l.front = IF p = 1 THEN e ELSE s[1]
    BY <1>2, <1>13 DEF EndsAs
  <2>2. (IF next = NoNode THEN e ELSE l.back) = IF p = Len(s) + 1 THEN e ELSE s[Len(s)]
    <3>1. l.back = s[Len(s)] /\ (p = Len(s) + 1 <=> k = Len(s))
      BY <1>2, <1>13 DEF EndsAs
    <3> QED
      BY <1>5, <3>1
  <2> QED
    BY <1>2, <1>4, <1>6, <1>7, <1>8, <2>1, <2>2 DEF InsertAfter
<1>16. Holds(InsertAfter(l, n, e), InsertAt(s, p, e))
  BY <1>14, <1>15, InsertionHolds
<1> QED
  BY <1>3, <1>13, <1>16, Zenon

\* erase of the one at an iterator.
LEMMA EraseNodeHolds ==
  ASSUME NEW l, NEW s, Holds(l, s), NEW p \in 1 .. Len(s)
  PROVE  Holds(EraseNode(l, s[p]), RemoveAt(s, p))
<1>1. PICK D : D = ElementsOf(s) /\ ListFacts(l, s, D)
  BY HoldsFacts
<1>2. InOrder(s, D) /\ NodeNames(D) /\ NodesOver(D, l.nodes)
  BY <1>1 DEF ListFacts
<1>3. PICK n : n = s[p]
  OBVIOUS
<1>4. PICK next : next = l.nodes[n].next
  OBVIOUS
<1>5. PICK prev : prev = l.nodes[n].prev
  OBVIOUS
<1>6. /\ next \in D \cup {NoNode} /\ next \in Nat /\ prev \in D \cup {NoNode} /\ prev \in Nat
      /\ (next = NoNode <=> p = Len(s)) /\ (prev = NoNode <=> p = 1)
      /\ \A i \in 1 .. Len(s) : s[i] = next <=> i = p + 1
      /\ \A i \in 1 .. Len(s) : s[i] = prev <=> i = p - 1
  <2>1. Places(l, s, D, p)
    BY <1>1, EveryPlace
  <2> QED
    BY <1>3, <1>4, <1>5, <2>1 DEF Places
<1>7. PICK a : a = LinkNext(l.nodes, prev, next)
  OBVIOUS
<1>8. PICK b : b = LinkPrev(a, next, prev)
  OBVIOUS
<1>9. PICK nodes : nodes = FreeNode(b, n)
  OBVIOUS
<1>10. D \in SUBSET ListElements
  BY <1>2 DEF NodeNames
<1>11. NextWritten(D, l.nodes, prev, next, a)
  BY <1>2, <1>6, <1>7, <1>10, LinkWritten
<1>12. PrevWritten(D, a, next, prev, b)
  <2>1. NodesOver(D, a)
    BY <1>11 DEF NextWritten
  <2> QED
    BY <1>6, <1>8, <1>10, <2>1, LinkWritten
<1>13. WithoutNode(D, b, n, nodes)
  <2>1. NodesOver(D, b)
    BY <1>12 DEF PrevWritten
  <2> QED
    BY <1>9, <2>1, NodeFreed
<1>14. LinkedOut(l, s, p, nodes)
  <2>1. ASSUME NEW i \in (1 .. Len(s)) \ {p}
        PROVE  /\ nodes[s[i]].next = l.nodes[IF i = p - 1 THEN s[p] ELSE s[i]].next
               /\ nodes[s[i]].prev = l.nodes[IF i = p + 1 THEN s[p] ELSE s[i]].prev
    <3>1. s[i] \in D \ {n}
      BY <1>2, <1>3 DEF InOrder
    <3>2. nodes[s[i]].next = a[s[i]].next /\ nodes[s[i]].prev = b[s[i]].prev
      BY <1>12, <1>13, <3>1 DEF PrevWritten, WithoutNode
    <3>3. /\ a[s[i]].next = IF s[i] = prev THEN next ELSE l.nodes[s[i]].next
          /\ b[s[i]].prev = IF s[i] = next THEN prev ELSE l.nodes[s[i]].prev
      BY <1>11, <1>12, <3>1 DEF PrevWritten, NextWritten
    <3> QED
      BY <1>3, <1>4, <1>5, <1>6, <3>2, <3>3
  <2>2. NodesOver(D \ {n}, nodes)
    BY <1>13 DEF WithoutNode
  <2> QED
    BY <1>1, <1>3, <2>1, <2>2 DEF LinkedOut
<1>15. EraseNode(l, n) = [nodes |-> nodes, front |-> IF p = 1 THEN l.nodes[s[p]].next ELSE l.front,
                          back |-> IF p = Len(s) THEN l.nodes[s[p]].prev ELSE l.back,
                          size |-> l.size - 1]
  BY <1>3, <1>4, <1>5, <1>6, <1>7, <1>8, <1>9 DEF EraseNode, Unlinked
<1> QED
  BY <1>3, <1>14, <1>15, RemovalHolds

\* erase_after: the one behind the iterator, if there is one.
LEMMA EraseAfterHolds ==
  ASSUME NEW l, NEW s, Holds(l, s), NEW k \in 1 .. Len(s)
  PROVE  /\ k = Len(s) => EraseAfter(l, s[k]) = l
         /\ k # Len(s) => Holds(EraseAfter(l, s[k]), RemoveAt(s, k + 1))
<1>1. PICK D : D = ElementsOf(s) /\ ListFacts(l, s, D)
  BY HoldsFacts
<1>2. Places(l, s, D, k)
  BY <1>1, EveryPlace
<1>3. k = Len(s) => EraseAfter(l, s[k]) = l
  BY <1>2 DEF Places, EraseAfter
<1>4. ASSUME k # Len(s) PROVE EraseAfter(l, s[k]) = EraseNode(l, s[k + 1])
  <2>1. k + 1 \in 1 .. Len(s) /\ k \in Nat /\ (k + 1) - 1 = k /\ k + 1 # 1
    BY <1>4
  <2>2. PICK p \in 1 .. Len(s) : p = k + 1
    BY <2>1, Zenon
  <2>3. Places(l, s, D, p)
    BY <1>1, EveryPlace
  <2>4. l.nodes[s[k]].next = s[p] /\ l.nodes[s[p]].prev = s[k] /\ s[p] # NoNode /\ s[k] # NoNode
    <3>1. p - 1 = k
      BY <2>1, <2>2
    <3> QED
      BY <1>2, <2>2, <2>3, <3>1 DEF Places
  <2> QED
    BY <2>2, <2>4 DEF EraseAfter, EraseNode, Unlinked
<1>5. ASSUME k # Len(s) PROVE Holds(EraseNode(l, s[k + 1]), RemoveAt(s, k + 1))
  <2>1. k + 1 \in 1 .. Len(s)
    BY <1>5
  <2> QED
    BY <2>1, EraseNodeHolds
<1> QED
  BY <1>3, <1>4, <1>5, Zenon

\* pop_front and pop_back: one less at an end, and nothing from an empty list.
LEMMA PopsHold ==
  ASSUME NEW l, NEW s, Holds(l, s)
  PROVE  /\ s = << >> => PopFront(l) = l /\ PopBack(l) = l
         /\ s # << >> => Holds(PopFront(l), Tail(s)) /\ Holds(PopBack(l), Front(s))
<1>1. PICK D : D = ElementsOf(s) /\ ListFacts(l, s, D)
  BY HoldsFacts
<1>2. /\ Len(s) \in Nat /\ EndsAs(l, s) /\ s \in Seq(ListElements) /\ (s = << >> <=> Len(s) = 0)
  BY <1>1 DEF ListFacts, InOrder
<1>3. s = << >> => PopFront(l) = l /\ PopBack(l) = l
  BY <1>2 DEF EndsAs, PopFront, PopBack
<1>4. SUFFICES ASSUME s # << >> PROVE Holds(PopFront(l), Tail(s)) /\ Holds(PopBack(l), Front(s))
  BY <1>3
<1>5. PICK m \in 1 .. Len(s) : m = Len(s)
  <2>1. Len(s) \in 1 .. Len(s)
    BY <1>2, <1>4
  <2> QED
    BY <2>1, Zenon
<1>6. 1 \in 1 .. Len(s) /\ l.front = s[1] /\ l.back = s[m]
  BY <1>2, <1>4, <1>5 DEF EndsAs
<1>7. Places(l, s, D, 1) /\ Places(l, s, D, m)
  BY <1>1, <1>6, EveryPlace
<1>8. PopFront(l) = EraseNode(l, s[1])
  <2>1. l.nodes[s[1]].prev = NoNode /\ s[1] # NoNode
    BY <1>7 DEF Places
  <2> QED
    BY <1>6, <2>1 DEF PopFront, EraseNode, Unlinked, LinkNext
<1>9. PopBack(l) = EraseNode(l, s[m])
  <2>1. l.nodes[s[m]].next = NoNode /\ s[m] # NoNode
    BY <1>5, <1>7 DEF Places
  <2> QED
    BY <1>6, <2>1 DEF PopBack, EraseNode, Unlinked, LinkPrev
<1>10. Holds(EraseNode(l, s[1]), RemoveAt(s, 1)) /\ Holds(EraseNode(l, s[m]), RemoveAt(s, m))
  BY <1>6, EraseNodeHolds
<1>11. Tail(s) = RemoveAt(s, 1) /\ Front(s) = RemoveAt(s, m)
  BY <1>2, <1>4, <1>5, EndsAreRemoved
<1> QED
  BY <1>8, <1>9, <1>10, <1>11, Zenon

\* move_front of the one at an iterator: it is unlinked and linked in again at the front.
LEMMA MoveFrontHolds ==
  ASSUME NEW l, NEW s, Holds(l, s), NEW p \in 1 .. Len(s)
  PROVE  Holds(ListMoveFront(l, s[p]), <<s[p]>> \o RemoveAt(s, p))
<1>1. PICK D : D = ElementsOf(s) /\ ListFacts(l, s, D)
  BY HoldsFacts
<1>2. /\ InOrder(s, D) /\ NodeNames(D) /\ NodesOver(D, l.nodes) /\ Len(s) \in Nat
      /\ s \in Seq(ListElements) /\ EndsAs(l, s) /\ l.size = Len(s)
      /\ l.front \in D \cup {NoNode} /\ l.back \in D \cup {NoNode}
  BY <1>1 DEF ListFacts, InOrder
<1>3. Places(l, s, D, p)
  BY <1>1, EveryPlace
<1>4. CASE p = 1
  <2>1. ListMoveFront(l, s[p]) = l
    BY <1>3, <1>4 DEF Places, ListMoveFront
  <2>2. <<s[p]>> \o RemoveAt(s, p) = s
    <3>1. s # << >>
      BY <1>2
    <3> QED
      BY <1>2, <1>4, <3>1, EndsAreRemoved
  <2> QED
    BY <2>1, <2>2
<1>5. CASE p # 1
  <2>1. PICK n : n = s[p]
    OBVIOUS
  <2>2. PICK u : u = Unlinked(l, n)
    OBVIOUS
  <2>3. PICK rest : rest = EraseNode(l, n)
    OBVIOUS
  <2>4. /\ n \in D /\ n \in Nat /\ n # NoNode /\ n # l.front
        /\ l.nodes[n].prev # NoNode /\ l.nodes[n].prev \in Nat /\ l.nodes[n].next \in Nat
        /\ l.nodes[n].prev \in D \cup {NoNode} /\ l.nodes[n].next \in D \cup {NoNode}
    BY <1>3, <1>5, <2>1 DEF Places
  <2>5. NodesOver(D, u)
    <3>1. D \in SUBSET ListElements
      BY <1>2 DEF NodeNames
    <3>2. PICK a : a = LinkNext(l.nodes, l.nodes[n].prev, l.nodes[n].next)
      OBVIOUS
    <3>3. NodesOver(D, a)
      BY <1>2, <2>4, <3>1, <3>2, LinkWritten DEF NextWritten
    <3>4. NodesOver(D, LinkPrev(a, l.nodes[n].next, l.nodes[n].prev))
      BY <2>4, <3>1, <3>3, LinkWritten DEF PrevWritten
    <3> QED
      BY <2>2, <3>2, <3>4 DEF Unlinked
  <2>6. /\ rest.nodes = FreeNode(u, n) /\ rest.front = l.front /\ rest.size = l.size - 1
        /\ rest.back = BackAfterMove(l, n)
    BY <2>2, <2>3, <2>4 DEF EraseNode, BackAfterMove
  <2>7. l.back # NoNode /\ l.front # NoNode /\ l.front \in Nat /\ l.front \in D
    <3>1. 1 \in 1 .. Len(s) /\ Len(s) \in 1 .. Len(s) /\ Len(s) > 0
      BY <1>2
    <3> QED
      BY <1>2, <3>1 DEF EndsAs, InOrder, NodeNames
  <2>8. [LinkPrev(u, l.front, n) EXCEPT ![n] = ListNode(l.front, NoNode)]
        = Extended(LinkPrev(FreeNode(u, n), l.front, n), n, ListNode(l.front, NoNode))
    <3>1. LinkPrev(u, l.front, n) = [x \in D |-> IF x = l.front THEN [u[x] EXCEPT !.prev = n] ELSE u[x]]
      BY <2>5, <2>7 DEF LinkPrev, NodesOver
    <3>2. FreeNode(u, n) = [x \in D \ {n} |-> u[x]]
      BY <2>5 DEF FreeNode, Restrict, NodesOver
    <3>3. LinkPrev(FreeNode(u, n), l.front, n)
          = [x \in D \ {n} |-> IF x = l.front THEN [u[x] EXCEPT !.prev = n] ELSE u[x]]
      BY <2>4, <2>7, <3>2 DEF LinkPrev
    <3>4. PICK v : v = ListNode(l.front, NoNode)
      OBVIOUS
    <3>5. [LinkPrev(u, l.front, n) EXCEPT ![n] = v]
          = [x \in D |-> IF x = n THEN v
                         ELSE IF x = l.front THEN [u[x] EXCEPT !.prev = n] ELSE u[x]]
      BY <2>4, <3>1
    <3>6. Extended(LinkPrev(FreeNode(u, n), l.front, n), n, v)
          = [x \in D |-> IF x = n THEN v
                         ELSE IF x = l.front THEN [u[x] EXCEPT !.prev = n] ELSE u[x]]
      BY <2>4, <3>3 DEF Extended
    <3> QED
      BY <3>4, <3>5, <3>6
  <2>9. ListMoveFront(l, n) = PushFront(rest, n)
    <3>1. rest.size + 1 = l.size
      BY <1>2, <2>6
    <3>2. BackAfterMove(l, n) # NoNode
      BY <2>4, <2>7 DEF BackAfterMove
    <3> QED
      BY <2>2, <2>4, <2>6, <2>8, <3>1, <3>2 DEF ListMoveFront, PushFront
  <2>10. Holds(rest, RemoveAt(s, p))
    BY <2>1, <2>3, EraseNodeHolds
  <2>11. n \in ListElements \ ElementsOf(RemoveAt(s, p))
    <3>1. n \in ListElements
      BY <1>2, <2>4 DEF NodeNames
    <3>2. ElementsOf(RemoveAt(s, p)) = DOMAIN rest.nodes
      BY <2>10 DEF Holds
    <3>3. n \notin DOMAIN rest.nodes
      BY <2>6 DEF FreeNode, Restrict
    <3> QED
      BY <3>1, <3>2, <3>3
  <2> QED
    BY <2>1, <2>9, <2>10, <2>11, PushFrontHolds
<1> QED
  BY <1>4, <1>5

-----------------------------------------------------------------------------
(* What an iterator reads.                                                 *)

\* The links of one direction lead through the sequence r.
LinksLead(nodes, link, r) ==
  /\ r \in Seq(ListElements) /\ HoldsEachOnce(r) /\ DOMAIN nodes = ElementsOf(r)
  /\ \A i \in 1 .. Len(r) : nodes[r[i]][link] = NextIn(r, i)

\* Where an iterator is after some steps: the recursive function of Traversal.
Walks(nodes, start, link, n, at) ==
  at = [k \in 1 .. n |->
          IF k = 1 THEN start
          ELSE IF at[k - 1] \in DOMAIN nodes THEN nodes[at[k - 1]][link] ELSE NoNode]

\* Any such function comes to the elements of r in their order, and then to the end.
LEMMA WalkIsSequence ==
  ASSUME NEW r, NEW nodes, NEW link, LinksLead(nodes, link, r),
         NEW at, Walks(nodes, FirstOf(r), link, Len(r) + 1, at)
  PROVE  at = [k \in 1 .. (Len(r) + 1) |-> IF k <= Len(r) THEN r[k] ELSE NoNode]
<1>1. /\ r \in Seq(ListElements) /\ Len(r) \in Nat /\ DOMAIN nodes = ElementsOf(r)
      /\ \A i \in 1 .. Len(r) : nodes[r[i]][link] = NextIn(r, i)
  BY DEF LinksLead
<1>2. /\ DOMAIN at = 1 .. (Len(r) + 1) /\ at = [k \in 1 .. (Len(r) + 1) |-> at[k]]
      /\ at[1] = FirstOf(r)
      /\ \A k \in 1 .. (Len(r) + 1) : k # 1 =>
           at[k] = IF at[k - 1] \in DOMAIN nodes THEN nodes[at[k - 1]][link] ELSE NoNode
  <2>1. 1 \in 1 .. (Len(r) + 1)
    BY <1>1
  <2> QED
    BY <2>1 DEF Walks
<1>3. PICK S : S = {k \in 0 .. Len(r) : at[k + 1] = IF k + 1 <= Len(r) THEN r[k + 1] ELSE NoNode}
  OBVIOUS
<1>4. 0 \in S
  <2>1. 0 \in 0 .. Len(r) /\ 0 + 1 = 1 /\ (r = << >> <=> ~(1 <= Len(r)))
    BY <1>1
  <2> QED
    BY <1>2, <1>3, <2>1 DEF FirstOf
<1>5. ASSUME NEW k \in 0 .. (Len(r) - 1), k \in S PROVE k + 1 \in S
  <2>1. /\ k + 1 \in 1 .. Len(r) /\ k + 1 \in 0 .. Len(r) /\ (k + 1) + 1 \in 1 .. (Len(r) + 1)
        /\ (k + 1) + 1 # 1 /\ ((k + 1) + 1) - 1 = k + 1
    BY <1>1
  <2>2. PICK i \in 1 .. Len(r) : i = k + 1
    BY <2>1
  <2>3. at[i] = r[i] /\ r[i] \in DOMAIN nodes
    <3>1. at[i] = r[i]
      BY <1>3, <1>5, <2>1, <2>2
    <3> QED
      BY <1>1, <3>1 DEF ElementsOf
  <2>4. at[i + 1] = NextIn(r, i)
    <3>1. PICK h \in 1 .. (Len(r) + 1) : h = i + 1 /\ h # 1 /\ h - 1 = i
      BY <1>1
    <3>2. at[h] = IF at[h - 1] \in DOMAIN nodes THEN nodes[at[h - 1]][link] ELSE NoNode
      BY <1>2, <3>1
    <3> QED
      BY <1>1, <2>3, <3>1, <3>2
  <2>5. NextIn(r, i) = IF i + 1 <= Len(r) THEN r[i + 1] ELSE NoNode
    <3>1. i = Len(r) <=> ~(i + 1 <= Len(r))
      BY <1>1
    <3> QED
      BY <3>1 DEF NextIn
  <2> QED
    BY <1>3, <2>1, <2>2, <2>4, <2>5
<1>6. 0 .. Len(r) \subseteq S
  BY <1>1, <1>4, <1>5, EveryNumberTo
<1>7. ASSUME NEW k \in 1 .. (Len(r) + 1) PROVE at[k] = IF k <= Len(r) THEN r[k] ELSE NoNode
  <2>1. k - 1 \in 0 .. Len(r) /\ (k - 1) + 1 = k
    BY <1>1
  <2>2. at[(k - 1) + 1] = IF (k - 1) + 1 <= Len(r) THEN r[(k - 1) + 1] ELSE NoNode
    BY <1>3, <1>6, <2>1
  <2> QED
    BY <2>1, <2>2
<1> QED
  BY <1>2, <1>7

\* And there is one.
LEMMA WalkExists ==
  ASSUME NEW r, NEW nodes, NEW link, LinksLead(nodes, link, r)
  PROVE  \E at : Walks(nodes, FirstOf(r), link, Len(r) + 1, at)
<1>1. /\ r \in Seq(ListElements) /\ Len(r) \in Nat /\ DOMAIN nodes = ElementsOf(r)
      /\ \A i \in 1 .. Len(r) : nodes[r[i]][link] = NextIn(r, i)
  BY DEF LinksLead
<1>2. PICK at : at = [k \in 1 .. (Len(r) + 1) |-> IF k <= Len(r) THEN r[k] ELSE NoNode]
  OBVIOUS
<1>3. at[1] = FirstOf(r)
  <2>1. 1 \in 1 .. (Len(r) + 1) /\ (r = << >> <=> ~(1 <= Len(r)))
    BY <1>1
  <2> QED
    BY <1>2, <2>1 DEF FirstOf
<1>4. ASSUME NEW k \in 1 .. (Len(r) + 1), k # 1
      PROVE  at[k] = IF at[k - 1] \in DOMAIN nodes THEN nodes[at[k - 1]][link] ELSE NoNode
  <2>1. PICK i \in 1 .. Len(r) : i = k - 1 /\ i + 1 = k
    BY <1>1, <1>4
  <2>2. at[i] = r[i] /\ r[i] \in DOMAIN nodes
    <3>1. i \in 1 .. (Len(r) + 1) /\ i <= Len(r)
      BY <1>1
    <3> QED
      BY <1>1, <1>2, <3>1 DEF ElementsOf
  <2>3. at[k] = NextIn(r, i)
    <3>1. i = Len(r) <=> ~(k <= Len(r))
      BY <1>1, <2>1
    <3>2. at[k] = IF k <= Len(r) THEN r[k] ELSE NoNode
      BY <1>2
    <3> QED
      BY <2>1, <3>1, <3>2 DEF NextIn
  <2> QED
    BY <1>1, <2>1, <2>2, <2>3
<1>5. \A k \in 1 .. (Len(r) + 1) :
        at[k] = IF k = 1 THEN FirstOf(r)
                ELSE IF at[k - 1] \in DOMAIN nodes THEN nodes[at[k - 1]][link] ELSE NoNode
  BY <1>3, <1>4
<1>6. Walks(nodes, FirstOf(r), link, Len(r) + 1, at)
  BY <1>2, <1>5 DEF Walks
<1> QED
  BY <1>6

\* So an iterator reads the sequence that the links lead through.
LEMMA TraversalReads ==
  ASSUME NEW l, NEW r, NEW link, LinksLead(l.nodes, link, r), l.size = Len(r)
  PROVE  Traversal(l, FirstOf(r), link) = r
<1>1. r \in Seq(ListElements) /\ Len(r) \in Nat
  BY DEF LinksLead
<1>2. PICK at : at = CHOOSE walk : Walks(l.nodes, FirstOf(r), link, Len(r) + 1, walk)
  OBVIOUS
<1>3. Walks(l.nodes, FirstOf(r), link, Len(r) + 1, at)
  BY <1>2, WalkExists
<1>4. at = [k \in 1 .. (Len(r) + 1) |-> IF k <= Len(r) THEN r[k] ELSE NoNode]
  BY <1>3, WalkIsSequence
<1>5. Traversal(l, FirstOf(r), link)
      = [k \in {j \in 1 .. (Len(r) + 1) : at[j] # NoNode} |-> at[k]]
  BY <1>2 DEF Traversal, Walks
<1>6. \A j \in 1 .. (Len(r) + 1) : at[j] # NoNode <=> j <= Len(r)
  <2>1. \A j \in 1 .. (Len(r) + 1) : j <= Len(r) => r[j] # NoNode
    BY <1>1 DEF ListElements
  <2> QED
    BY <1>4, <2>1
<1>7. {j \in 1 .. (Len(r) + 1) : at[j] # NoNode} = 1 .. Len(r)
  BY <1>1, <1>6
<1>8. \A j \in 1 .. Len(r) : at[j] = r[j]
  BY <1>1, <1>4
<1>9. r = [j \in 1 .. Len(r) |-> r[j]]
  BY <1>1
<1> QED
  BY <1>5, <1>7, <1>8, <1>9

\* Both iterators of a list read the sequence it holds.
LEMMA ReadBothWays ==
  ASSUME NEW l, NEW s, Holds(l, s)
  PROVE  Forward(l) = s /\ Backward(l) = Reverse(s) /\ l.size = Len(s)
<1>1. /\ s \in Seq(ListElements) /\ HoldsEachOnce(s) /\ LinksFollow(l.nodes, s)
      /\ Len(s) \in Nat /\ DOMAIN l.nodes = ElementsOf(s)
      /\ l.front = FirstOf(s) /\ l.back = LastOf(s) /\ l.size = Len(s)
  BY DEF Holds
<1>2. Forward(l) = s
  <2>1. LinksLead(l.nodes, "next", s)
    BY <1>1 DEF LinksLead, LinksFollow
  <2> QED
    BY <1>1, <2>1, TraversalReads DEF Forward
<1>3. Backward(l) = Reverse(s)
  <2>1. PICK r : r = Reverse(s)
    OBVIOUS
  <2>2. /\ r \in Seq(ListElements) /\ Len(r) = Len(s)
        /\ \A j \in 1 .. Len(s) : r[j] = s[Len(s) - j + 1]
    BY <1>1, <2>1, Reversed
  <2>3. \A j \in 1 .. Len(s) : Len(s) - j + 1 \in 1 .. Len(s) /\ Len(s) - (Len(s) - j + 1) + 1 = j
    BY <1>1
  <2>4. ElementsOf(r) = ElementsOf(s)
    <3>1. ASSUME NEW j \in 1 .. Len(s) PROVE s[j] \in ElementsOf(r)
      <4>1. PICK k \in 1 .. Len(s) : k = Len(s) - j + 1 /\ Len(s) - k + 1 = j
        BY <1>1, SMTT(60)
      <4>2. r[k] = s[j]
        BY <2>2, <4>1
      <4> QED
        BY <2>2, <4>2 DEF ElementsOf
    <3>2. ASSUME NEW j \in 1 .. Len(s) PROVE r[j] \in ElementsOf(s)
      BY <2>2, <2>3 DEF ElementsOf
    <3> QED
      BY <2>2, <3>1, <3>2 DEF ElementsOf
  <2>5. HoldsEachOnce(r)
    <3>1. ASSUME NEW i \in 1 .. Len(s), NEW j \in 1 .. Len(s), r[i] = r[j] PROVE i = j
      <4>1. Len(s) - i + 1 = Len(s) - j + 1
        BY <1>1, <2>2, <2>3, <3>1 DEF HoldsEachOnce
      <4> QED
        BY <1>1, <4>1
    <3> QED
      BY <2>2, <3>1 DEF HoldsEachOnce
  <2>6. ASSUME NEW j \in 1 .. Len(r) PROVE l.nodes[r[j]]["prev"] = NextIn(r, j)
    <3>1. PICK k \in 1 .. Len(s) : k = Len(s) - j + 1
      BY <2>2, <2>3
    <3>2. r[j] = s[k] /\ l.nodes[s[k]].prev = PrevIn(s, k)
      BY <1>1, <2>2, <3>1 DEF LinksFollow
    <3>3. PrevIn(s, k) = NextIn(r, j)
      <4>1. CASE j = Len(r)
        <5>1. k = 1
          BY <1>1, <2>2, <3>1, <4>1
        <5> QED
          BY <4>1, <5>1 DEF PrevIn, NextIn
      <4>2. CASE j # Len(r)
        <5>1. PICK h \in 1 .. Len(s) : h = j + 1
          BY <1>1, <2>2, <4>2
        <5>2. Len(s) - h + 1 = k - 1 /\ k # 1
          BY <1>1, <2>2, <3>1, <4>2, <5>1
        <5>3. r[h] = s[k - 1]
          BY <2>2, <5>2
        <5> QED
          BY <4>2, <5>1, <5>2, <5>3 DEF PrevIn, NextIn
      <4> QED
        BY <4>1, <4>2
    <3> QED
      BY <3>2, <3>3
  <2>7. LinksLead(l.nodes, "prev", r)
    BY <1>1, <2>2, <2>4, <2>5, <2>6 DEF LinksLead
  <2>8. l.back = FirstOf(r)
    <3>1. CASE s = << >>
      BY <1>1, <2>2, <3>1 DEF FirstOf, LastOf
    <3>2. CASE s # << >>
      <4>1. Len(s) > 0 /\ 1 \in 1 .. Len(s) /\ Len(s) - 1 + 1 = Len(s)
        BY <1>1, <3>2
      <4>2. r # << >> /\ r[1] = s[Len(s)]
        <5>1. r[1] = s[Len(s) - 1 + 1]
          BY <2>2, <4>1
        <5> QED
          BY <2>2, <4>1, <5>1
      <4> QED
        BY <1>1, <3>2, <4>2 DEF FirstOf, LastOf
    <3> QED
      BY <3>1, <3>2
  <2>9. l.size = Len(r)
    BY <1>1, <2>2
  <2> QED
    BY <2>1, <2>7, <2>8, <2>9, TraversalReads DEF Backward
<1> QED
  BY <1>1, <1>2, <1>3

-----------------------------------------------------------------------------
(* ListOperations: the list is the sequence it should be.                  *)

ListInv == Holds(list, contents)

\* The place of a node in the sequence.
LEMMA AtIsPlace ==
  ASSUME ListInv, NEW n \in DOMAIN list.nodes
  PROVE  \E p \in 1 .. Len(contents) : p = At(n) /\ n = contents[p]
<1>1. contents \in Seq(ListElements) /\ DOMAIN list.nodes = ElementsOf(contents)
  BY DEF ListInv, Holds
<1>2. PICK i \in DOMAIN contents : contents[i] = n
  BY <1>1 DEF ElementsOf
<1>3. At(n) \in DOMAIN contents /\ contents[At(n)] = n
  BY <1>2 DEF At
<1> QED
  BY <1>1, <1>3

\* An element added at an end or behind an iterator keeps the list the
\* sequence.
LEMMA AddKeepsListInv ==
  ASSUME ListInv, NEW e \in Elements \ DOMAIN list.nodes, Add(e)
  PROVE  ListInv'
<1>1. Holds(list, contents)
  BY DEF ListInv
<1>2. e \in ListElements \ ElementsOf(contents)
  BY <1>1, ElementsAssumption DEF Holds, ListElements
<1>3. CASE Becomes(PushFront(list, e), <<e>> \o contents)
  BY <1>1, <1>2, <1>3, PushFrontHolds DEF Becomes, ListInv
<1>4. CASE Becomes(PushBack(list, e), Append(contents, e))
  BY <1>1, <1>2, <1>4, PushBackHolds DEF Becomes, ListInv
<1>5. ASSUME NEW n \in DOMAIN list.nodes,
             Becomes(InsertAfter(list, n, e), InsertAt(contents, At(n) + 1, e))
      PROVE  ListInv'
  <2>1. PICK p \in 1 .. Len(contents) : p = At(n) /\ n = contents[p]
    BY AtIsPlace
  <2>2. Holds(InsertAfter(list, contents[p], e), InsertAt(contents, p + 1, e))
    BY <1>1, <1>2, InsertAfterHolds
  <2> QED
    BY <1>5, <2>1, <2>2 DEF Becomes, ListInv
<1> QED
  BY <1>3, <1>4, <1>5 DEF Add

\* So does one taken off an end.
LEMMA PopKeepsListInv ==
  ASSUME ListInv, Pop
  PROVE  ListInv'
<1>1. Holds(list, contents)
  BY DEF ListInv
<1>2. CASE Becomes(PopFront(list), IF contents = << >> THEN contents ELSE Tail(contents))
  BY <1>1, <1>2, PopsHold DEF Becomes, ListInv
<1>3. CASE Becomes(PopBack(list), IF contents = << >> THEN contents ELSE Front(contents))
  BY <1>1, <1>3, PopsHold DEF Becomes, ListInv
<1> QED
  BY <1>2, <1>3 DEF Pop

\* So does what is done at an iterator.
LEMMA ChangeKeepsListInv ==
  ASSUME ListInv, NEW n \in DOMAIN list.nodes, ChangeAt(n)
  PROVE  ListInv'
<1>1. Holds(list, contents)
  BY DEF ListInv
<1>2. PICK p \in 1 .. Len(contents) : p = At(n) /\ n = contents[p]
  BY AtIsPlace
<1>3. CASE Becomes(EraseNode(list, n), RemoveAt(contents, At(n)))
  BY <1>1, <1>2, <1>3, EraseNodeHolds DEF Becomes, ListInv
<1>4. CASE Becomes(EraseAfter(list, n),
                   IF n = Last(contents) THEN contents ELSE RemoveAt(contents, At(n) + 1))
  <2>1. n = Last(contents) <=> p = Len(contents)
    <3>1. Len(contents) \in 1 .. Len(contents) /\ HoldsEachOnce(contents)
      BY <1>1 DEF Holds
    <3> QED
      BY <1>2, <3>1 DEF HoldsEachOnce, Last
  <2>2. /\ p = Len(contents) => EraseAfter(list, contents[p]) = list
        /\ p # Len(contents) => Holds(EraseAfter(list, contents[p]), RemoveAt(contents, p + 1))
    BY <1>1, EraseAfterHolds
  <2> QED
    BY <1>1, <1>2, <1>4, <2>1, <2>2 DEF Becomes, ListInv
<1>5. CASE Becomes(ListMoveFront(list, n), <<n>> \o RemoveAt(contents, At(n)))
  BY <1>1, <1>2, <1>5, MoveFrontHolds DEF Becomes, ListInv
<1> QED
  BY <1>3, <1>4, <1>5 DEF ChangeAt

\* A list is the sequence it should be, read forward and backward, after any number of
\* operations at its ends, at iterators into it and on the whole of it.
THEOREM ListIsASequence == ListSpec => []ListIsSequence
<1>1. ListInit => ListInv
  BY EmptyListHolds DEF ListInit, ListInv
<1>2. ListInv /\ [ListNext]_listVars => ListInv'
  <2> SUFFICES ASSUME ListInv, [ListNext]_listVars PROVE ListInv'
    OBVIOUS
  <2>1. ASSUME NEW e \in Elements \ DOMAIN list.nodes, Add(e) PROVE ListInv'
    BY <2>1, AddKeepsListInv
  <2>2. CASE Pop
    BY <2>2, PopKeepsListInv
  <2>3. ASSUME NEW n \in DOMAIN list.nodes, ChangeAt(n) PROVE ListInv'
    BY <2>3, ChangeKeepsListInv
  <2>4. CASE Becomes(EmptyList, << >>)
    BY <2>4, EmptyListHolds DEF Becomes, ListInv
  <2>5. CASE UNCHANGED listVars
    BY <2>5 DEF listVars, ListInv
  <2> QED
    BY <2>1, <2>2, <2>3, <2>4, <2>5 DEF ListNext
<1>3. ListInv => ListIsSequence
  BY ReadBothWays DEF ListInv, ListIsSequence
<1> QED
  BY <1>1, <1>2, <1>3, PTL DEF ListSpec

-----------------------------------------------------------------------------
(* LRUCache: the list, the values and the map do what RecentlyUsed says.   *)

\* The entries of a sequence of keys.
Pairs(s, values) == [i \in DOMAIN s |-> <<s[i], values[s[i]]>>]

PairsOver == ListElements \X EntryValues

ValuesOf(s, values) == values \in [ElementsOf(s) -> EntryValues]

\* The values of the keys of t are the same in both.
SameValues(t, values, others) == \A i \in 1 .. Len(t) : others[t[i]] = values[t[i]]

\* The entries are as many as the keys, in the order of the keys.
LEMMA PairsFacts ==
  ASSUME NEW s \in Seq(ListElements), NEW values, ValuesOf(s, values)
  PROVE  /\ Pairs(s, values) \in Seq(PairsOver) /\ Len(Pairs(s, values)) = Len(s)
         /\ \A i \in 1 .. Len(s) : Pairs(s, values)[i] = <<s[i], values[s[i]]>>
<1>1. Len(s) \in Nat /\ DOMAIN s = 1 .. Len(s)
  OBVIOUS
<1>2. \A i \in 1 .. Len(s) : <<s[i], values[s[i]]>> \in PairsOver
  BY DEF ValuesOf, ElementsOf, PairsOver
<1>3. Pairs(s, values) = [i \in 1 .. Len(s) |-> <<s[i], values[s[i]]>>]
  BY <1>1 DEF Pairs
<1>4. PICK t : t = [i \in 1 .. Len(s) |-> <<s[i], values[s[i]]>>]
  OBVIOUS
<1>5. t \in [1 .. Len(s) -> PairsOver] /\ \A i \in 1 .. Len(s) : t[i] = <<s[i], values[s[i]]>>
  BY <1>2, <1>4
<1>6. t \in Seq(PairsOver) /\ Len(t) = Len(s)
  BY <1>1, <1>5
<1> QED
  BY <1>3, <1>4, <1>5, <1>6

\* The entries without one.
LEMMA PairsRemoved ==
  ASSUME NEW s \in Seq(ListElements), NEW values, ValuesOf(s, values), NEW p \in 1 .. Len(s),
         NEW others, ValuesOf(RemoveAt(s, p), others), SameValues(RemoveAt(s, p), values, others)
  PROVE  Pairs(RemoveAt(s, p), others) = RemoveAt(Pairs(s, values), p)
<1>1. PICK t : t = RemoveAt(s, p)
  OBVIOUS
<1>2. /\ t \in Seq(ListElements) /\ Len(t) = Len(s) - 1
      /\ \A j \in 1 .. (Len(s) - 1) : t[j] = IF j < p THEN s[j] ELSE s[j + 1]
  BY <1>1, Removed
<1>3. PICK u : u = Pairs(s, values)
  OBVIOUS
<1>4. u \in Seq(PairsOver) /\ Len(u) = Len(s) /\ \A i \in 1 .. Len(s) : u[i] = <<s[i], values[s[i]]>>
  BY <1>3, PairsFacts
<1>5. PICK v : v = Pairs(t, others)
  OBVIOUS
<1>6. v \in Seq(PairsOver) /\ Len(v) = Len(t) /\ \A i \in 1 .. Len(t) : v[i] = <<t[i], others[t[i]]>>
  BY <1>1, <1>2, <1>5, PairsFacts
<1>7. PICK w : w = RemoveAt(u, p)
  OBVIOUS
<1>8. /\ w \in Seq(PairsOver) /\ Len(w) = Len(s) - 1
      /\ \A j \in 1 .. (Len(s) - 1) : w[j] = IF j < p THEN u[j] ELSE u[j + 1]
  BY <1>4, <1>7, Removed
<1>9. ASSUME NEW j \in 1 .. Len(v) PROVE v[j] = w[j]
  <2>1. j \in 1 .. (Len(s) - 1) /\ j \in 1 .. Len(s) /\ j + 1 \in 1 .. Len(s) /\ j \in 1 .. Len(t)
    BY <1>2, <1>6
  <2>2. v[j] = <<t[j], values[t[j]]>>
    BY <1>1, <1>6, <2>1 DEF SameValues
  <2> QED
    BY <1>2, <1>4, <1>8, <2>1, <2>2
<1>10. v = w
  BY <1>2, <1>6, <1>8, <1>9, SameSequence
<1> QED
  BY <1>1, <1>3, <1>5, <1>7, <1>10

\* The entries with one more at the front.
LEMMA PairsAdded ==
  ASSUME NEW s \in Seq(ListElements), NEW values, ValuesOf(s, values), NEW e \in ListElements,
         NEW others, ValuesOf(<<e>> \o s, others), SameValues(s, values, others)
  PROVE  Pairs(<<e>> \o s, others) = <<<<e, others[e]>>>> \o Pairs(s, values)
<1>1. PICK t : t = <<e>> \o s
  OBVIOUS
<1>2. /\ t \in Seq(ListElements) /\ Len(t) = Len(s) + 1 /\ Len(s) \in Nat
      /\ \A j \in 1 .. (Len(s) + 1) : t[j] = IF j = 1 THEN e ELSE s[j - 1]
  BY <1>1, FrontAdded
<1>3. PICK u : u = Pairs(s, values)
  OBVIOUS
<1>4. u \in Seq(PairsOver) /\ Len(u) = Len(s) /\ \A i \in 1 .. Len(s) : u[i] = <<s[i], values[s[i]]>>
  BY <1>3, PairsFacts
<1>5. PICK v : v = Pairs(t, others)
  OBVIOUS
<1>6. v \in Seq(PairsOver) /\ Len(v) = Len(t) /\ \A i \in 1 .. Len(t) : v[i] = <<t[i], others[t[i]]>>
  BY <1>1, <1>2, <1>5, PairsFacts
<1>7. PICK d : d = <<e, others[e]>>
  OBVIOUS
<1>8. d \in PairsOver
  <2>1. 1 \in 1 .. Len(v) /\ 1 \in 1 .. Len(t) /\ t[1] = e
    BY <1>2, <1>6
  <2> QED
    BY <1>6, <1>7, <2>1
<1>9. PICK w : w = <<d>> \o u
  OBVIOUS
<1>10. /\ w \in Seq(PairsOver) /\ Len(w) = Len(s) + 1
       /\ \A j \in 1 .. (Len(s) + 1) : w[j] = IF j = 1 THEN d ELSE u[j - 1]
  BY <1>4, <1>8, <1>9, FrontAdded
<1>11. ASSUME NEW j \in 1 .. Len(v) PROVE v[j] = w[j]
  <2>1. j \in 1 .. (Len(s) + 1) /\ j \in 1 .. Len(t) /\ (j # 1 => j - 1 \in 1 .. Len(s))
    BY <1>2, <1>6
  <2>2. v[j] = <<t[j], others[t[j]]>>
    BY <1>6, <2>1
  <2>3. CASE j = 1
    BY <1>2, <1>7, <1>10, <2>1, <2>2, <2>3
  <2>4. CASE j # 1
    <3>1. t[j] = s[j - 1] /\ w[j] = u[j - 1]
      BY <1>2, <1>10, <2>1, <2>4
    <3>2. u[j - 1] = <<s[j - 1], values[s[j - 1]]>> /\ others[s[j - 1]] = values[s[j - 1]]
      BY <1>4, <2>1, <2>4 DEF SameValues
    <3> QED
      BY <2>2, <3>1, <3>2
  <2> QED
    BY <2>3, <2>4
<1>12. v = w
  BY <1>2, <1>6, <1>10, <1>11, SameSequence
<1> QED
  BY <1>1, <1>3, <1>5, <1>7, <1>9, <1>12

\* The list holds the keys, and the values and the map are over them.
CacheHolds(keys) ==
  /\ Holds(cache_entries, keys) /\ Len(keys) <= MaxEntries
  /\ ValuesOf(keys, entry_values)
  /\ cache_entry_map = [key \in ElementsOf(keys) |-> key]

LRUInv == \E keys : CacheHolds(keys)

\* The entries of the cache are those of the keys its list holds.
LEMMA EntriesArePairs ==
  ASSUME NEW keys, CacheHolds(keys)
  PROVE  Entries = Pairs(keys, entry_values) /\ keys \in Seq(ListElements)
<1>1. Forward(cache_entries) = keys
  BY ReadBothWays DEF CacheHolds
<1> QED
  BY <1>1 DEF Entries, Pairs, CacheHolds, Holds

\* In the next state: the same of the primed variables.
LEMMA EntriesArePairsNext ==
  ASSUME NEW keys, CacheHolds(keys)'
  PROVE  Entries' = Pairs(keys, entry_values')
<1>1. Forward(cache_entries') = keys
  BY ReadBothWays DEF CacheHolds
<1> QED
  BY <1>1 DEF Entries, Pairs

\* insure_space_exists: when the cache is full its last entry goes, from the list and the map.
LEMMA RoomIsMade ==
  ASSUME NEW keys, CacheHolds(keys)
  PROVE  \E kept, values :
           /\ Holds(InsureSpaceExists.list, kept) /\ Len(kept) < MaxEntries
           /\ InsureSpaceExists.map = [key \in ElementsOf(kept) |-> key]
           /\ ElementsOf(kept) \subseteq ElementsOf(keys)
           /\ values = Restrict(entry_values, DOMAIN InsureSpaceExists.map)
           /\ ValuesOf(kept, values)
           /\ Pairs(kept, values) = IF Len(Entries) = MaxEntries THEN Front(Entries) ELSE Entries
<1>1. /\ Holds(cache_entries, keys) /\ Len(keys) <= MaxEntries /\ ValuesOf(keys, entry_values)
      /\ cache_entry_map = [key \in ElementsOf(keys) |-> key]
      /\ keys \in Seq(ListElements) /\ Len(keys) \in Nat /\ cache_entries.size = Len(keys)
      /\ HoldsEachOnce(keys) /\ cache_entries.back = LastOf(keys)
  BY DEF CacheHolds, Holds
<1>2. PICK entries : entries = Entries
  OBVIOUS
<1>3. entries = Pairs(keys, entry_values) /\ entries \in Seq(PairsOver) /\ Len(entries) = Len(keys)
  BY <1>1, <1>2, EntriesArePairs, PairsFacts
<1>4. MaxEntries \in Nat /\ MaxEntries > 0
  BY LRUAssumption
<1>5. CASE cache_entries.size >= MaxEntries
  <2>1. Len(keys) = MaxEntries /\ keys # << >> /\ entries # << >>
    BY <1>1, <1>3, <1>4, <1>5
  <2>2. PICK p \in 1 .. Len(keys) : p = Len(keys)
    <3>1. Len(keys) \in 1 .. Len(keys)
      BY <1>1, <1>4, <2>1
    <3> QED
      BY <3>1, Zenon
  <2>3. PICK kept : kept = RemoveAt(keys, p)
    OBVIOUS
  <2>4. kept = Front(keys) /\ Front(entries) = RemoveAt(entries, p)
    BY <1>1, <1>3, <2>1, <2>2, <2>3, EndsAreRemoved
  <2>5. Holds(InsureSpaceExists.list, kept)
    BY <1>1, <1>5, <2>1, <2>4, PopsHold DEF InsureSpaceExists
  <2>6. kept \in Seq(ListElements) /\ Len(kept) = Len(keys) - 1
    BY <1>1, <2>3, Removed
  <2>7. ElementsOf(kept) = ElementsOf(keys) \ {keys[p]}
    BY <1>1, <2>3, ElementsRemoved
  <2>8. InsureSpaceExists.map = [key \in ElementsOf(kept) |-> key]
    <3>1. cache_entries.back = keys[p]
      BY <1>1, <2>1, <2>2 DEF LastOf
    <3>2. InsureSpaceExists.map = Erased(cache_entry_map, keys[p])
      BY <1>5, <3>1 DEF InsureSpaceExists
    <3> QED
      BY <1>1, <2>7, <3>2 DEF Erased, Restrict
  <2>9. PICK values : values = Restrict(entry_values, ElementsOf(kept))
    OBVIOUS
  <2>10. ValuesOf(kept, values) /\ SameValues(kept, entry_values, values)
    <3>1. \A i \in 1 .. Len(kept) : kept[i] \in ElementsOf(kept)
      BY DEF ElementsOf
    <3> QED
      BY <1>1, <2>7, <2>9, <3>1 DEF ValuesOf, SameValues, Restrict
  <2>11. Pairs(kept, values) = RemoveAt(entries, p)
    BY <1>1, <1>3, <2>3, <2>10, PairsRemoved
  <2>12. DOMAIN InsureSpaceExists.map = ElementsOf(kept)
    BY <2>8
  <2>13. Len(kept) < MaxEntries
    BY <1>1, <2>1, <2>6
  <2>14. Pairs(kept, values) = IF Len(entries) = MaxEntries THEN Front(entries) ELSE entries
    BY <1>3, <2>1, <2>4, <2>11
  <2>15. ElementsOf(kept) \subseteq ElementsOf(keys)
    BY <2>7
  <2> QED
    BY <1>2, <2>5, <2>8, <2>9, <2>10, <2>12, <2>13, <2>14, <2>15
<1>6. CASE ~(cache_entries.size >= MaxEntries)
  <2>1. Len(keys) < MaxEntries /\ Len(entries) # MaxEntries
    BY <1>1, <1>3, <1>4, <1>6
  <2>2. InsureSpaceExists.list = cache_entries /\ InsureSpaceExists.map = cache_entry_map
    BY <1>6 DEF InsureSpaceExists
  <2>3. DOMAIN InsureSpaceExists.map = ElementsOf(keys)
    BY <1>1, <2>2
  <2>4. Restrict(entry_values, ElementsOf(keys)) = entry_values
    BY <1>1 DEF ValuesOf, Restrict
  <2> QED
    BY <1>1, <1>2, <1>3, <2>1, <2>2, <2>3, <2>4
<1> QED
  BY <1>5, <1>6

\* add: the new entry is the first, and one that there was no room for is gone.
LEMMA AddIsAdd ==
  ASSUME NEW keys, CacheHolds(keys), NEW key \in EntryKeys, NEW value \in EntryValues,
         LRUAdd(key, value)
  PROVE  (\E news : CacheHolds(news)') /\ RU!Add(key, value)
<1>1. PICK kept, values :
           /\ Holds(InsureSpaceExists.list, kept) /\ Len(kept) < MaxEntries
           /\ InsureSpaceExists.map = [k \in ElementsOf(kept) |-> k]
           /\ ElementsOf(kept) \subseteq ElementsOf(keys)
           /\ values = Restrict(entry_values, DOMAIN InsureSpaceExists.map)
           /\ ValuesOf(kept, values)
           /\ Pairs(kept, values) = IF Len(Entries) = MaxEntries THEN Front(Entries) ELSE Entries
  BY RoomIsMade
<1>2. /\ key \notin ElementsOf(keys) /\ key \in ListElements
      /\ cache_entries' = PushFront(InsureSpaceExists.list, key)
      /\ cache_entry_map' = Extended(InsureSpaceExists.map, key, key)
      /\ entry_values' = Extended(values, key, value)
  BY <1>1, LRUAssumption DEF LRUAdd, CacheHolds, ListElements, PushFront
<1>3. kept \in Seq(ListElements) /\ Len(kept) \in Nat /\ key \notin ElementsOf(kept)
  BY <1>1, <1>2 DEF Holds
<1>4. PICK news : news = <<key>> \o kept
  OBVIOUS
<1>5. Holds(cache_entries', news)
  BY <1>1, <1>2, <1>3, <1>4, PushFrontHolds
<1>6. ElementsOf(news) = ElementsOf(kept) \cup {key} /\ Len(news) = Len(kept) + 1
  BY <1>2, <1>3, <1>4, ElementsAdded, FrontAdded
<1>7. ValuesOf(news, entry_values')
  BY <1>1, <1>2, <1>6 DEF ValuesOf, Extended
<1>8. cache_entry_map' = [k \in ElementsOf(news) |-> k]
  BY <1>1, <1>2, <1>6 DEF Extended
<1>9. Len(news) <= MaxEntries
  BY <1>1, <1>3, <1>6, LRUAssumption
<1>10. CacheHolds(news)'
  BY <1>5, <1>7, <1>8, <1>9 DEF CacheHolds
<1>11. Entries' = <<<<key, value>>>> \o Pairs(kept, values)
  <2>1. Entries' = Pairs(news, entry_values')
    BY <1>10, EntriesArePairsNext
  <2>2. SameValues(kept, values, entry_values')
    <3>1. \A i \in 1 .. Len(kept) : kept[i] \in ElementsOf(kept)
      BY DEF ElementsOf
    <3> QED
      BY <1>1, <1>2, <1>3, <3>1 DEF SameValues, ValuesOf, Extended
  <2>3. Pairs(<<key>> \o kept, entry_values') = <<<<key, entry_values'[key]>>>> \o Pairs(kept, values)
    <3>1. PICK others : others = entry_values'
      OBVIOUS
    <3>2. ValuesOf(<<key>> \o kept, others) /\ SameValues(kept, values, others)
      BY <1>4, <1>7, <2>2, <3>1
    <3>3. key \in ListElements /\ kept \in Seq(ListElements) /\ ValuesOf(kept, values)
      BY <1>1, <1>2, <1>3
    <3>4. Pairs(<<key>> \o kept, others) = <<<<key, others[key]>>>> \o Pairs(kept, values)
      BY <3>2, <3>3, PairsAdded
    <3> QED
      BY <3>1, <3>4, Zenon
  <2>4. entry_values'[key] = value
    BY <1>2 DEF Extended
  <2> QED
    BY <1>4, <2>1, <2>3, <2>4
<1>12. key \notin RU!Keys
  <2>1. keys \in Seq(ListElements) /\ ValuesOf(keys, entry_values)
    BY DEF CacheHolds, Holds
  <2>2. PICK u : u = Entries
    OBVIOUS
  <2>3. /\ u \in Seq(PairsOver) /\ Len(u) = Len(keys)
        /\ \A i \in 1 .. Len(keys) : u[i] = <<keys[i], entry_values[keys[i]]>>
    BY <2>1, <2>2, EntriesArePairs, PairsFacts
  <2>4. \A i \in DOMAIN u : u[i][1] \in ElementsOf(keys)
    BY <2>1, <2>3 DEF ElementsOf
  <2> QED
    BY <1>2, <2>2, <2>4 DEF RU!Keys
<1>13. RU!Add(key, value)
  BY <1>1, <1>11, <1>12 DEF RU!Add, RU!Front, Front
<1> QED
  BY <1>10, <1>13

\* find of an entry that is there moves it to the front.
LEMMA FindIsUse ==
  ASSUME NEW keys, CacheHolds(keys), NEW key, LRUFind(key)
  PROVE  (\E news : CacheHolds(news)') /\ \E i \in DOMAIN Entries : RU!Use(i)
<1>1. /\ Holds(cache_entries, keys) /\ Len(keys) <= MaxEntries /\ ValuesOf(keys, entry_values)
      /\ cache_entry_map = [k \in ElementsOf(keys) |-> k]
      /\ keys \in Seq(ListElements) /\ Len(keys) \in Nat /\ HoldsEachOnce(keys)
  BY DEF CacheHolds, Holds
<1>2. PICK entries : entries = Entries
  OBVIOUS
<1>3. /\ entries = Pairs(keys, entry_values) /\ entries \in Seq(PairsOver)
      /\ Len(entries) = Len(keys)
      /\ \A i \in 1 .. Len(keys) : entries[i] = <<keys[i], entry_values[keys[i]]>>
  BY <1>1, <1>2, EntriesArePairs, PairsFacts
<1>4. PICK p \in 1 .. Len(keys) : key = keys[p] /\ cache_entry_map[key] = key
  BY <1>1 DEF LRUFind, ElementsOf
<1>5. PICK rest : rest = RemoveAt(keys, p)
  OBVIOUS
<1>6. PICK news : news = <<key>> \o rest
  OBVIOUS
<1>7. Holds(cache_entries', news)
  <2>1. cache_entries' = ListMoveFront(cache_entries, keys[p])
    BY <1>4 DEF LRUFind
  <2> QED
    BY <1>1, <1>4, <1>5, <1>6, <2>1, MoveFrontHolds
<1>8. rest \in Seq(ListElements) /\ Len(rest) = Len(keys) - 1 /\ key \in ListElements
  <2>1. key \in ListElements
    BY <1>1, <1>4
  <2>2. rest \in Seq(ListElements) /\ Len(rest) = Len(keys) - 1
    BY <1>1, <1>5, Removed
  <2> QED
    BY <2>1, <2>2
<1>9. ElementsOf(rest) = ElementsOf(keys) \ {key} /\ key \in ElementsOf(keys)
  <2>1. ElementsOf(rest) = ElementsOf(keys) \ {keys[p]}
    BY <1>1, <1>5, ElementsRemoved
  <2>2. keys[p] \in ElementsOf(keys)
    BY DEF ElementsOf
  <2> QED
    BY <1>4, <2>1, <2>2
<1>10. ElementsOf(news) = ElementsOf(keys) /\ Len(news) = Len(keys)
  <2>1. ElementsOf(news) = ElementsOf(rest) \cup {key} /\ Len(news) = Len(rest) + 1
    BY <1>6, <1>8, ElementsAdded, FrontAdded
  <2> QED
    BY <1>1, <1>8, <1>9, <2>1
<1>11. cache_entries'.front = key
  <2>1. news # << >> /\ news[1] = key
    <3>1. Len(news) > 0 /\ 1 \in 1 .. (Len(rest) + 1)
      BY <1>1, <1>8, <1>10
    <3> QED
      BY <1>6, <1>8, <3>1, FrontAdded
  <2> QED
    BY <1>7, <2>1 DEF Holds, FirstOf
<1>12. cache_entry_map' = [k \in ElementsOf(news) |-> k]
  <2>1. cache_entry_map' = Extended(Erased(cache_entry_map, key), key, key)
    BY <1>11 DEF LRUFind
  <2> QED
    BY <1>1, <1>9, <1>10, <2>1 DEF Extended, Erased, Restrict
<1>13. entry_values' = entry_values
  BY DEF LRUFind
<1>14. CacheHolds(news)'
  BY <1>1, <1>7, <1>10, <1>12, <1>13 DEF CacheHolds, ValuesOf
<1>15. Entries' = Pairs(news, entry_values)
  BY <1>13, <1>14, EntriesArePairsNext
<1>16. PICK values : values = Restrict(entry_values, ElementsOf(rest))
  OBVIOUS
<1>17. /\ ValuesOf(rest, values) /\ SameValues(rest, entry_values, values)
       /\ SameValues(rest, values, entry_values)
  <2>1. \A i \in 1 .. Len(rest) : rest[i] \in ElementsOf(rest)
    BY DEF ElementsOf
  <2> QED
    BY <1>1, <1>9, <1>16, <2>1 DEF ValuesOf, SameValues, Restrict
<1>18. Pairs(rest, values) = RemoveAt(entries, p)
  BY <1>1, <1>3, <1>5, <1>17, PairsRemoved
<1>19. Pairs(news, entry_values) = <<<<key, entry_values[key]>>>> \o Pairs(rest, values)
  <2>1. ValuesOf(<<key>> \o rest, entry_values)
    BY <1>1, <1>6, <1>10 DEF ValuesOf
  <2> QED
    BY <1>6, <1>8, <1>17, <2>1, PairsAdded
<1>20. entries[p] = <<key, entry_values[key]>> /\ p \in DOMAIN entries
  BY <1>3, <1>4
<1>21. RU!Use(p)
  BY <1>2, <1>15, <1>18, <1>19, <1>20 DEF RU!Use, RU!RemoveAt, RemoveAt
<1> QED
  BY <1>2, <1>14, <1>20, <1>21

\* remove takes one entry out, wherever it is.
LEMMA RemoveIsDiscard ==
  ASSUME NEW keys, CacheHolds(keys), NEW key, LRURemove(key)
  PROVE  (\E news : CacheHolds(news)') /\ \E i \in DOMAIN Entries : RU!Discard(i)
<1>1. /\ Holds(cache_entries, keys) /\ Len(keys) <= MaxEntries /\ ValuesOf(keys, entry_values)
      /\ cache_entry_map = [k \in ElementsOf(keys) |-> k]
      /\ keys \in Seq(ListElements) /\ Len(keys) \in Nat /\ HoldsEachOnce(keys)
  BY DEF CacheHolds, Holds
<1>2. PICK entries : entries = Entries
  OBVIOUS
<1>3. /\ entries = Pairs(keys, entry_values) /\ entries \in Seq(PairsOver)
      /\ Len(entries) = Len(keys)
  BY <1>1, <1>2, EntriesArePairs, PairsFacts
<1>4. PICK p \in 1 .. Len(keys) : key = keys[p] /\ cache_entry_map[key] = key
  BY <1>1 DEF LRURemove, ElementsOf
<1>5. PICK rest : rest = RemoveAt(keys, p)
  OBVIOUS
<1>6. Holds(cache_entries', rest)
  BY <1>1, <1>4, <1>5, EraseNodeHolds DEF LRURemove
<1>7. rest \in Seq(ListElements) /\ Len(rest) = Len(keys) - 1
  BY <1>1, <1>5, Removed
<1>8. ElementsOf(rest) = ElementsOf(keys) \ {key}
  BY <1>1, <1>4, <1>5, ElementsRemoved
<1>9. cache_entry_map' = [k \in ElementsOf(rest) |-> k]
  BY <1>1, <1>8 DEF LRURemove, Erased, Restrict
<1>10. PICK values : values = entry_values'
  OBVIOUS
<1>11. ValuesOf(rest, values) /\ SameValues(rest, entry_values, values)
  <2>1. \A i \in 1 .. Len(rest) : rest[i] \in ElementsOf(rest)
    BY DEF ElementsOf
  <2> QED
    BY <1>1, <1>8, <1>10, <2>1 DEF LRURemove, Erased, ValuesOf, SameValues, Restrict
<1>12. CacheHolds(rest)'
  <2>1. Len(rest) <= MaxEntries
    BY <1>1, <1>7, LRUAssumption
  <2> QED
    BY <1>6, <1>9, <1>10, <1>11, <2>1 DEF CacheHolds
<1>13. Entries' = Pairs(rest, values)
  BY <1>10, <1>12, EntriesArePairsNext
<1>14. Pairs(rest, values) = RemoveAt(entries, p)
  BY <1>1, <1>3, <1>5, <1>11, PairsRemoved
<1>15. p \in DOMAIN entries /\ RU!Discard(p)
  BY <1>2, <1>3, <1>13, <1>14 DEF RU!Discard, RU!RemoveAt, RemoveAt
<1> QED
  BY <1>2, <1>12, <1>15

\* An empty cache holds no key, at the start and after clear.
LEMMA EmptyCache ==
  /\ Holds(EmptyList, << >>) /\ Len(<< >>) <= MaxEntries /\ ValuesOf(<< >>, << >>)
  /\ << >> = [key \in ElementsOf(<< >>) |-> key] /\ Pairs(<< >>, << >>) = << >>
<1>1. Len(<< >>) = 0 /\ ElementsOf(<< >>) = {} /\ << >> \in Seq(ListElements)
  BY DEF ElementsOf
<1>2. << >> = [key \in {} |-> key] /\ << >> \in [{} -> EntryValues]
  OBVIOUS
<1>3. ValuesOf(<< >>, << >>)
  BY <1>1, <1>2 DEF ValuesOf
<1>4. Pairs(<< >>, << >>) = << >>
  <2>1. PICK u : u = Pairs(<< >>, << >>)
    OBVIOUS
  <2>2. u \in Seq(PairsOver) /\ Len(u) = 0
    BY <1>1, <1>3, <2>1, PairsFacts
  <2> QED
    BY <2>1, <2>2
<1> QED
  BY <1>1, <1>2, <1>3, <1>4, EmptyListHolds, LRUAssumption

\* The cache begins empty, as RecentlyUsed does.
LEMMA EmptyCacheHolds ==
  ASSUME LRUInit
  PROVE  CacheHolds(<< >>) /\ Entries = << >>
<1>1. CacheHolds(<< >>)
  BY EmptyCache DEF LRUInit, CacheHolds
<1> QED
  BY <1>1, EmptyCache, EntriesArePairs DEF LRUInit

\* clear leaves the cache empty, as Clear does.
LEMMA ClearIsClear ==
  ASSUME LRUClear
  PROVE  CacheHolds(<< >>)' /\ RU!Clear
<1>1. CacheHolds(<< >>)'
  BY EmptyCache DEF LRUClear, CacheHolds
<1>2. Entries' = << >>
  BY <1>1, EmptyCache, EntriesArePairsNext DEF LRUClear
<1> QED
  BY <1>1, <1>2 DEF RU!Clear

\* The cache keeps the entries used last, in the order of their use: each of its steps is
\* one that RecentlyUsed allows, through the list, the values and the map of iterators.
THEOREM CacheIsRecentlyUsed == LRUSpec => ImplementsRecentlyUsed
<1>1. LRUInit => LRUInv /\ RU!Init
  BY EmptyCacheHolds DEF LRUInv, RU!Init
<1>2. LRUInv /\ [LRUNext]_lruVars => LRUInv' /\ [RU!Next]_Entries
  <2> SUFFICES ASSUME LRUInv, [LRUNext]_lruVars PROVE LRUInv' /\ [RU!Next]_Entries
    OBVIOUS
  <2>1. PICK keys : CacheHolds(keys)
    BY DEF LRUInv
  <2>2. ASSUME NEW key \in EntryKeys, NEW value \in EntryValues, LRUAdd(key, value)
        PROVE  LRUInv' /\ RU!Next
    BY <2>1, <2>2, AddIsAdd DEF LRUInv, RU!Next
  <2>3. ASSUME NEW key \in EntryKeys, LRUFind(key) PROVE LRUInv' /\ RU!Next
    BY <2>1, <2>3, FindIsUse DEF LRUInv, RU!Next
  <2>4. ASSUME NEW key \in EntryKeys, LRURemove(key) PROVE LRUInv' /\ RU!Next
    BY <2>1, <2>4, RemoveIsDiscard DEF LRUInv, RU!Next
  <2>5. CASE LRUClear
    BY <2>5, ClearIsClear DEF LRUInv, RU!Next
  <2>6. CASE UNCHANGED lruVars
    BY <2>6 DEF lruVars, LRUInv, CacheHolds, Entries, Forward
  <2> QED
    BY <2>2, <2>3, <2>4, <2>5, <2>6 DEF LRUNext
<1> QED
  BY <1>1, <1>2, PTL DEF LRUSpec, ImplementsRecentlyUsed, RU!Spec

-----------------------------------------------------------------------------
(* The cells of a vector, and the sequence that they hold.                 *)

VectorTypeOK ==
  /\ cells \in [1 .. VectorCapacity -> VectorElements \cup {Dead}]
  /\ vector_end \in 1 .. (VectorCapacity + 1)
  /\ vector_iterator \in 1 .. vector_end
  /\ vector_sequence \in Seq(VectorElements)
  /\ still_to_read \in Seq(VectorElements)

\* The cells before end() hold the sequence, and the others nothing.
CellsHold ==
  /\ Len(vector_sequence) = vector_end - 1
  /\ \A i \in 1 .. (vector_end - 1) : cells[i] = vector_sequence[i]
  /\ \A c \in vector_end .. VectorCapacity : cells[c] = Dead

\* What is still to be read is the end of the sequence, from the iterator on.
IteratorIsAt ==
  /\ Len(still_to_read) = vector_end - vector_iterator
  /\ \A i \in 1 .. (vector_end - vector_iterator) :
       still_to_read[i] = vector_sequence[vector_iterator + i - 1]

VectorInv == VectorTypeOK /\ CellsHold /\ IteratorIsAt

\* An iterator with n elements still to read, each of them the element at its place.
LEMMA IteratorReads ==
  ASSUME NEW n, vector_end' - vector_iterator' = n, Len(still_to_read') = n,
         \A i \in 1 .. n : still_to_read'[i] = vector_sequence'[vector_iterator' + i - 1]
  PROVE  IteratorIsAt'
BY Zenon DEF IteratorIsAt

\* A vector begins empty.
LEMMA EmptyVector ==
  ASSUME VectorInit
  PROVE  VectorInv
<1>1. VectorCapacity \in Nat
  BY VectorAssumption
<1>2. << >> \in Seq(VectorElements) /\ Len(<< >>) = 0
  OBVIOUS
<1> QED
  BY <1>1, <1>2 DEF VectorInit, VectorBegin, VectorInv, VectorTypeOK, CellsHold, IteratorIsAt

\* What is read from a place on is the end of the sequence that begins there.
LEMMA RestIs ==
  ASSUME VectorInv, NEW location \in 1 .. vector_end, NEW t \in Seq(VectorElements),
         Len(t) = vector_end - location,
         \A i \in 1 .. (vector_end - location) : t[i] = vector_sequence[location + i - 1]
  PROVE  Rest(location) = t
<1>1. VectorCapacity \in Nat
  BY VectorAssumption
<1>2. vector_end \in Nat /\ location \in Nat /\ location <= vector_end
  BY <1>1 DEF VectorInv, VectorTypeOK
<1>3. Rest(location) = [i \in 1 .. (vector_end - location) |-> cells[location + i - 1]]
  BY <1>2 DEF Rest
<1>4. \A i \in 1 .. (vector_end - location) : cells[location + i - 1] = t[i]
  BY <1>2 DEF VectorInv, CellsHold
<1>5. t = [i \in 1 .. (vector_end - location) |-> t[i]]
  BY <1>2
<1> QED
  BY <1>3, <1>4, <1>5

\* push_back, with an iterator that stays where it is.
LEMMA ElementPushedBack ==
  ASSUME VectorInv, HasRoom, NEW e \in VectorElements, PushBackElement(e),
         vector_sequence' = Append(vector_sequence, e)
  PROVE  /\ cells' \in [1 .. VectorCapacity -> VectorElements \cup {Dead}]
         /\ vector_end' \in 1 .. (VectorCapacity + 1) /\ vector_end' = vector_end + 1
         /\ vector_sequence' \in Seq(VectorElements) /\ CellsHold'
<1>1. VectorCapacity \in Nat /\ vector_end \in Nat /\ vector_end >= 1
      /\ vector_end <= VectorCapacity
  BY VectorAssumption DEF VectorInv, VectorTypeOK, HasRoom, VectorBegin
<1>2. /\ vector_sequence' \in Seq(VectorElements)
      /\ Len(vector_sequence') = vector_end
      /\ \A i \in 1 .. (vector_end - 1) : vector_sequence'[i] = vector_sequence[i]
      /\ vector_sequence'[vector_end] = e
  BY <1>1 DEF VectorInv, VectorTypeOK, CellsHold
<1>3. cells' \in [1 .. VectorCapacity -> VectorElements \cup {Dead}]
  BY <1>1 DEF VectorInv, VectorTypeOK, PushBackElement
<1>4. \A c \in 1 .. VectorCapacity : cells'[c] = IF c = vector_end THEN e ELSE cells[c]
  BY DEF VectorInv, VectorTypeOK, PushBackElement
<1>5. vector_end' = vector_end + 1
  BY DEF PushBackElement
<1>6. CellsHold'
  BY <1>1, <1>2, <1>4, <1>5 DEF VectorInv, CellsHold
<1> QED
  BY <1>1, <1>2, <1>3, <1>5, <1>6

\* insert before an element: the sequence has one more, at the same place.
LEMMA ElementInserted ==
  ASSUME VectorInv, HasRoom, NEW e \in VectorElements, NEW at \in 1 .. vector_end, at # vector_end,
         InsertElement(at, e), vector_sequence' = InsertAt(vector_sequence, at, e)
  PROVE  /\ cells' \in [1 .. VectorCapacity -> VectorElements \cup {Dead}]
         /\ vector_end' \in 1 .. (VectorCapacity + 1) /\ vector_end' = vector_end + 1
         /\ vector_sequence' \in Seq(VectorElements) /\ CellsHold'
<1>1. VectorCapacity \in Nat /\ vector_end \in Nat /\ at \in Nat /\ 1 <= at /\ at < vector_end
      /\ vector_end <= VectorCapacity
  BY VectorAssumption DEF VectorInv, VectorTypeOK, HasRoom, VectorBegin
<1>2. /\ vector_sequence \in Seq(VectorElements) /\ Len(vector_sequence) = vector_end - 1
      /\ at \in 1 .. (Len(vector_sequence) + 1)
  BY <1>1 DEF VectorInv, VectorTypeOK, CellsHold
<1>3. /\ vector_sequence' \in Seq(VectorElements) /\ Len(vector_sequence') = vector_end
      /\ \A j \in 1 .. vector_end :
           vector_sequence'[j] = IF j < at THEN vector_sequence[j]
                                 ELSE IF j = at THEN e ELSE vector_sequence[j - 1]
  <2>1. PICK s : s = vector_sequence
    OBVIOUS
  <2>2. s \in Seq(VectorElements) /\ e \in VectorElements /\ at \in 1 .. (Len(s) + 1)
    BY <1>2, <2>1
  <2>3. /\ InsertAt(s, at, e) \in Seq(VectorElements) /\ Len(InsertAt(s, at, e)) = Len(s) + 1
        /\ \A j \in 1 .. (Len(s) + 1) :
             InsertAt(s, at, e)[j] = IF j < at THEN s[j] ELSE IF j = at THEN e ELSE s[j - 1]
    <3>1. InsertIs(VectorElements, s, at, e, InsertAt(s, at, e))
      BY <2>2, InsertedIs, Zenon
    <3> QED
      BY <3>1, Zenon DEF InsertIs
  <2>4. PICK t : t = InsertAt(s, at, e)
    OBVIOUS
  <2>5. /\ t \in Seq(VectorElements) /\ Len(t) = Len(s) + 1
        /\ \A j \in 1 .. (Len(s) + 1) :
             t[j] = IF j < at THEN s[j] ELSE IF j = at THEN e ELSE s[j - 1]
    BY <2>3, <2>4, Zenon
  <2>6. vector_sequence' = t /\ Len(s) + 1 = vector_end
    BY <1>1, <1>2, <2>1, <2>4
  <2> QED
    BY <2>1, <2>5, <2>6
<1>4. /\ MovedBack(at) \in [1 .. VectorCapacity -> VectorElements \cup {Dead}]
      /\ \A c \in 1 .. VectorCapacity :
           MovedBack(at)[c] = IF at < c /\ c <= vector_end THEN cells[c - 1] ELSE cells[c]
  BY <1>1 DEF VectorInv, VectorTypeOK, MovedBack
<1>5. PICK moved : moved = MovedBack(at)
  OBVIOUS
<1>6. cells' = [moved EXCEPT ![at] = e] /\ vector_end' = vector_end + 1
  BY <1>5 DEF InsertElement
<1>7. /\ cells' \in [1 .. VectorCapacity -> VectorElements \cup {Dead}]
      /\ \A c \in 1 .. VectorCapacity : cells'[c] = IF c = at THEN e ELSE moved[c]
  BY <1>1, <1>4, <1>5, <1>6
<1>8. ASSUME NEW i \in 1 .. vector_end PROVE cells'[i] = vector_sequence'[i]
  <2>1. \A j \in 1 .. (vector_end - 1) : cells[j] = vector_sequence[j]
    BY DEF VectorInv, CellsHold
  <2>2. i \in 1 .. VectorCapacity /\ i \in Nat
    BY <1>1
  <2>3. CASE i < at
    BY <1>1, <1>3, <1>4, <1>5, <1>7, <2>1, <2>2, <2>3
  <2>4. CASE i = at
    BY <1>1, <1>3, <1>7, <2>2, <2>4
  <2>5. CASE i > at
    <3>1. cells'[i] = cells[i - 1] /\ vector_sequence'[i] = vector_sequence[i - 1]
      BY <1>1, <1>3, <1>4, <1>5, <1>7, <2>2, <2>5
    <3> QED
      BY <1>1, <2>1, <2>2, <2>5, <3>1
  <2> QED
    BY <1>1, <2>2, <2>3, <2>4, <2>5
<1>9. \A c \in (vector_end + 1) .. VectorCapacity : cells'[c] = Dead
  BY <1>1, <1>4, <1>5, <1>7 DEF VectorInv, CellsHold
<1> QED
  BY <1>1, <1>3, <1>6, <1>7, <1>8, <1>9 DEF CellsHold

\* Adding an element, at the end or before another.
LEMMA AddedElementHolds ==
  ASSUME VectorInv, HasRoom, NEW e \in VectorElements, AddElement(e)
  PROVE  VectorInv'
<1>1. VectorCapacity \in Nat /\ vector_end \in Nat /\ vector_iterator \in Nat /\ vector_end >= 1
      /\ vector_iterator >= 1 /\ vector_iterator <= vector_end /\ vector_end <= VectorCapacity
  BY VectorAssumption DEF VectorInv, VectorTypeOK, HasRoom, VectorBegin
<1>2. CASE /\ PushBackElement(e)
           /\ vector_sequence' = Append(vector_sequence, e)
           /\ still_to_read' = Append(still_to_read, e)
           /\ UNCHANGED vector_iterator
  <2>1. /\ still_to_read' \in Seq(VectorElements)
        /\ Len(still_to_read') = vector_end + 1 - vector_iterator
        /\ \A i \in 1 .. (vector_end - vector_iterator) : still_to_read'[i] = still_to_read[i]
        /\ still_to_read'[vector_end + 1 - vector_iterator] = e
    <3>1. still_to_read \in Seq(VectorElements) /\ still_to_read' = Append(still_to_read, e)
          /\ Len(still_to_read) = vector_end - vector_iterator
      BY <1>2 DEF VectorInv, VectorTypeOK, IteratorIsAt
    <3> QED
      BY <1>1, <3>1, Appended
  <2>2. /\ \A i \in 1 .. (vector_end - 1) : vector_sequence'[i] = vector_sequence[i]
        /\ vector_sequence'[vector_end] = e
    BY <1>1, <1>2 DEF VectorInv, VectorTypeOK, CellsHold
  <2>3. VectorTypeOK' /\ CellsHold' /\ vector_end' = vector_end + 1
    BY <1>1, <1>2, <2>1, ElementPushedBack DEF VectorTypeOK
  <2>4. \A i \in 1 .. (vector_end - vector_iterator) :
           still_to_read[i] = vector_sequence[vector_iterator + i - 1]
    BY DEF VectorInv, IteratorIsAt
  <2>5. vector_end' = vector_end + 1 /\ vector_iterator' = vector_iterator
    BY <1>2, <2>3
  <2>6. ASSUME NEW i \in 1 .. (vector_end + 1 - vector_iterator)
        PROVE  still_to_read'[i] = vector_sequence'[vector_iterator + i - 1]
    <3>1. CASE i = vector_end + 1 - vector_iterator
      BY <1>1, <2>1, <2>2, <3>1
    <3>2. CASE i # vector_end + 1 - vector_iterator
      <4>1. i \in 1 .. (vector_end - vector_iterator)
            /\ vector_iterator + i - 1 \in 1 .. (vector_end - 1)
        BY <1>1, <3>2
      <4> QED
        BY <2>1, <2>2, <2>4, <4>1
    <3> QED
      BY <3>1, <3>2
  <2>7. IteratorIsAt'
    <3>1. PICK n : n = vector_end + 1 - vector_iterator
      OBVIOUS
    <3>2. vector_end' - vector_iterator' = n /\ Len(still_to_read') = n
      BY <1>1, <2>1, <2>2, <2>5, <3>1
    <3>3. \A i \in 1 .. n : still_to_read'[i] = vector_sequence'[vector_iterator' + i - 1]
      BY <2>5, <2>6, <3>1, Zenon
    <3> QED
      BY <3>2, <3>3, IteratorReads
  <2> QED
    BY <2>3, <2>7 DEF VectorInv
<1>3. CASE \E at \in VectorBegin .. vector_end :
             /\ InsertElement(at, e)
             /\ vector_sequence' = InsertAt(vector_sequence, at, e)
             /\ still_to_read' = SubSeq(vector_sequence', at, Len(vector_sequence'))
  <2>1. PICK at \in 1 .. vector_end :
             /\ InsertElement(at, e)
             /\ vector_sequence' = InsertAt(vector_sequence, at, e)
             /\ still_to_read' = SubSeq(vector_sequence', at, Len(vector_sequence'))
    BY <1>3 DEF VectorBegin
  <2>2. /\ cells' \in [1 .. VectorCapacity -> VectorElements \cup {Dead}]
        /\ vector_end' \in 1 .. (VectorCapacity + 1) /\ vector_end' = vector_end + 1
        /\ vector_sequence' \in Seq(VectorElements) /\ CellsHold' /\ vector_iterator' = at
    <3>1. CASE at = vector_end
      <4>1. PushBackElement(e) /\ vector_iterator' = vector_end' - 1
        BY <2>1, <3>1 DEF InsertElement
      <4>2. PICK s : s = vector_sequence
        OBVIOUS
      <4>3. /\ e \in VectorElements /\ s \in Seq(VectorElements)
            /\ at = Len(s) + 1 /\ at \in 1 .. (Len(s) + 1)
        BY <1>1, <3>1, <4>2 DEF VectorInv, VectorTypeOK, CellsHold
      <4>4. PICK t : t = InsertAt(s, at, e)
        OBVIOUS
      <4>5. /\ t \in Seq(VectorElements) /\ Len(t) = Len(s) + 1
            /\ \A j \in 1 .. (Len(s) + 1) :
                 t[j] = IF j < at THEN s[j] ELSE IF j = at THEN e ELSE s[j - 1]
        <5>1. /\ InsertAt(s, at, e) \in Seq(VectorElements)
              /\ Len(InsertAt(s, at, e)) = Len(s) + 1
              /\ \A j \in 1 .. (Len(s) + 1) :
                   InsertAt(s, at, e)[j] = IF j < at THEN s[j]
                                           ELSE IF j = at THEN e ELSE s[j - 1]
          <6>1. e \in VectorElements /\ s \in Seq(VectorElements) /\ at \in 1 .. (Len(s) + 1)
            BY <4>3
          <6>2. InsertIs(VectorElements, s, at, e, InsertAt(s, at, e))
            BY <6>1, InsertedIs, Zenon
          <6> QED
            BY <6>2, Zenon DEF InsertIs
        <5> QED
          BY <4>4, <5>1, Zenon
      <4>6. PICK u : u = Append(s, e)
        OBVIOUS
      <4>7. /\ u \in Seq(VectorElements) /\ Len(u) = Len(s) + 1 /\ u[Len(s) + 1] = e
            /\ \A j \in 1 .. Len(s) : u[j] = s[j]
        BY <4>3, <4>6, Appended
      <4>8. t = u
        BY <4>3, <4>5, <4>7, SameSequence
      <4>9. vector_sequence' = Append(vector_sequence, e)
        BY <2>1, <4>2, <4>4, <4>6, <4>8, Zenon
      <4> QED
        BY <1>1, <3>1, <4>1, <4>9, ElementPushedBack
    <3>2. CASE at # vector_end
      BY <2>1, <3>2, ElementInserted DEF InsertElement
    <3> QED
      BY <3>1, <3>2
  <2>3. at \in 1 .. vector_end' /\ Len(vector_sequence') = vector_end
    BY <1>1, <2>2 DEF CellsHold
  <2>4. PICK t : t = vector_sequence'
    OBVIOUS
  <2>5. /\ SubSeq(t, at, Len(t)) \in Seq(VectorElements)
        /\ Len(SubSeq(t, at, Len(t))) = Len(t) - at + 1
        /\ \A j \in 1 .. (Len(t) - at + 1) : SubSeq(t, at, Len(t))[j] = t[at + j - 1]
    BY <1>1, <2>2, <2>3, <2>4, PartOf
  <2>6. PICK r : r = SubSeq(t, at, Len(t))
    OBVIOUS
  <2>7. /\ r \in Seq(VectorElements) /\ Len(r) = vector_end - at + 1
        /\ \A j \in 1 .. (vector_end - at + 1) : r[j] = t[at + j - 1]
    BY <1>1, <2>3, <2>4, <2>5, <2>6
  <2>8. still_to_read' = r
    BY <2>1, <2>4, <2>6
  <2>9. IteratorIsAt'
    <3>1. PICK n : n = vector_end - at + 1
      OBVIOUS
    <3>2. vector_end' - vector_iterator' = n /\ Len(still_to_read') = n
      <4>1. vector_end' = vector_end + 1 /\ vector_iterator' = at /\ at \in 1 .. vector_end
        BY <2>2
      <4>2. vector_end' - vector_iterator' = n
        BY <1>1, <3>1, <4>1
      <4> QED
        BY <2>7, <2>8, <3>1, <4>2, Zenon
    <3>3. \A i \in 1 .. n : still_to_read'[i] = vector_sequence'[vector_iterator' + i - 1]
      BY <2>2, <2>4, <2>7, <2>8, <3>1, Zenon
    <3> QED
      BY <3>2, <3>3, IteratorReads
  <2> QED
    BY <2>2, <2>3, <2>7, <2>8, <2>9 DEF VectorInv, VectorTypeOK
<1> QED
  BY <1>2, <1>3 DEF AddElement

\* pop_back of the last element, or of none.
LEMMA ElementPoppedHolds ==
  ASSUME VectorInv, PopBackElement
  PROVE  VectorInv'
<1>1. VectorCapacity \in Nat /\ vector_end \in Nat /\ vector_iterator \in Nat /\ vector_end >= 1
      /\ vector_iterator >= 1 /\ vector_iterator <= vector_end /\ vector_end <= VectorCapacity + 1
  BY VectorAssumption DEF VectorInv, VectorTypeOK
<1>2. /\ vector_sequence \in Seq(VectorElements) /\ Len(vector_sequence) = vector_end - 1
      /\ still_to_read \in Seq(VectorElements)
      /\ Len(still_to_read) = vector_end - vector_iterator
  BY DEF VectorInv, VectorTypeOK, CellsHold, IteratorIsAt
<1>3. CASE vector_end = 1
  <2>1. vector_sequence = << >> /\ still_to_read = << >>
    BY <1>1, <1>2, <1>3
  <2> QED
    BY <1>1, <1>3, <2>1
    DEF PopBackElement, VectorBegin, VectorInv, VectorTypeOK, CellsHold, IteratorIsAt
<1>4. CASE vector_end # 1
  <2>1. vector_end' = vector_end - 1 /\ vector_end > 1
    BY <1>1, <1>4 DEF PopBackElement, VectorBegin
  <2>2. /\ vector_sequence # << >> /\ vector_sequence' = Front(vector_sequence)
        /\ vector_sequence' \in Seq(VectorElements) /\ Len(vector_sequence') = vector_end - 2
        /\ \A j \in 1 .. (vector_end - 2) : vector_sequence'[j] = vector_sequence[j]
    <3>1. vector_sequence # << >>
      BY <1>1, <1>2, <1>4
    <3>2. vector_sequence' = Front(vector_sequence)
      BY <3>1 DEF PopBackElement
    <3> QED
      BY <1>1, <1>2, <3>1, <3>2, EndsRemoved
  <2>3. /\ cells' \in [1 .. VectorCapacity -> VectorElements \cup {Dead}]
        /\ \A c \in 1 .. VectorCapacity : cells'[c] = IF c = vector_end - 1 THEN Dead ELSE cells[c]
    BY <1>1, <1>4 DEF PopBackElement, VectorBegin, VectorInv, VectorTypeOK
  <2>4. CellsHold'
    BY <1>1, <2>1, <2>2, <2>3, SMTT(60) DEF VectorInv, CellsHold
  <2>5. vector_iterator' \in 1 .. vector_end' /\ still_to_read' \in Seq(VectorElements)
        /\ IteratorIsAt'
    <3>1. CASE vector_iterator = vector_end
      <4>1. still_to_read = << >>
        BY <1>1, <1>2, <3>1
      <4>2. still_to_read' = << >> /\ vector_iterator' = vector_end'
        BY <1>1, <2>1, <3>1, <4>1 DEF PopBackElement
      <4> QED
        BY <1>1, <2>1, <4>2 DEF IteratorIsAt
    <3>2. CASE vector_iterator # vector_end
      <4>1. still_to_read # << >>
        BY <1>1, <1>2, <3>2
      <4>2. still_to_read' = Front(still_to_read) /\ vector_iterator' = vector_iterator
        BY <1>1, <2>1, <3>2, <4>1 DEF PopBackElement
      <4>3. /\ still_to_read' \in Seq(VectorElements)
            /\ Len(still_to_read') = vector_end - 1 - vector_iterator
            /\ \A j \in 1 .. (vector_end - 1 - vector_iterator) :
                 still_to_read'[j] = still_to_read[j]
        <5>1. PICK r : r = Front(still_to_read)
          OBVIOUS
        <5>2. /\ r \in Seq(VectorElements) /\ Len(r) = Len(still_to_read) - 1
              /\ \A j \in 1 .. (Len(still_to_read) - 1) : r[j] = still_to_read[j]
          BY <1>2, <4>1, <5>1, EndsRemoved
        <5>3. Len(still_to_read) - 1 = vector_end - 1 - vector_iterator
          BY <1>1, <1>2
        <5> QED
          BY <4>2, <5>1, <5>2, <5>3
      <4>4. \A i \in 1 .. (vector_end - vector_iterator) :
              still_to_read[i] = vector_sequence[vector_iterator + i - 1]
        BY DEF VectorInv, IteratorIsAt
      <4>5. \A i \in 1 .. (vector_end - 1 - vector_iterator) :
              still_to_read'[i] = vector_sequence'[vector_iterator + i - 1]
        BY <1>1, <2>2, <4>3, <4>4
      <4> QED
        BY <1>1, <2>1, <3>2, <4>2, <4>3, <4>5 DEF IteratorIsAt
    <3> QED
      BY <3>1, <3>2
  <2> QED
    BY <1>1, <2>1, <2>2, <2>3, <2>4, <2>5 DEF VectorInv, VectorTypeOK
<1> QED
  BY <1>3, <1>4

\* clear destroys every element.
LEMMA ClearElementsHolds ==
  ASSUME VectorInv, ClearElements
  PROVE  VectorInv'
<1>1. VectorCapacity \in Nat /\ vector_end \in Nat /\ vector_end >= 1
  BY VectorAssumption DEF VectorInv, VectorTypeOK
<1>2. << >> \in Seq(VectorElements) /\ Len(<< >>) = 0
  OBVIOUS
<1>3. /\ cells' \in [1 .. VectorCapacity -> VectorElements \cup {Dead}]
      /\ \A c \in 1 .. VectorCapacity : cells'[c] = Dead
  BY <1>1 DEF ClearElements, VectorInv, VectorTypeOK, CellsHold
<1> QED
  BY <1>1, <1>2, <1>3
  DEF ClearElements, VectorBegin, VectorInv, VectorTypeOK, CellsHold, IteratorIsAt

\* An iterator one element on, or at end().
LEMMA IncrementHolds ==
  ASSUME VectorInv, IncrementIterator, UNCHANGED <<cells, vector_end, vector_sequence>>
  PROVE  VectorInv'
<1>1. VectorCapacity \in Nat /\ vector_end \in Nat /\ vector_iterator \in Nat /\ vector_end >= 1
      /\ vector_iterator >= 1 /\ vector_iterator <= vector_end
  BY VectorAssumption DEF VectorInv, VectorTypeOK
<1>2. still_to_read \in Seq(VectorElements) /\ Len(still_to_read) = vector_end - vector_iterator
  BY DEF VectorInv, VectorTypeOK, IteratorIsAt
<1>3. vector_iterator' \in 1 .. vector_end /\ still_to_read' \in Seq(VectorElements)
      /\ IteratorIsAt'
  <2>1. CASE vector_iterator = vector_end
    <3>1. still_to_read = << >>
      BY <1>1, <1>2, <2>1
    <3>2. vector_iterator' = vector_end /\ still_to_read' = << >>
      BY <1>1, <2>1, <3>1 DEF IncrementIterator
    <3> QED
      BY <1>1, <3>2 DEF IteratorIsAt
  <2>2. CASE vector_iterator # vector_end
    <3>1. still_to_read # << >>
      BY <1>1, <1>2, <2>2
    <3>2. vector_iterator' = vector_iterator + 1 /\ still_to_read' = Tail(still_to_read)
      BY <1>1, <2>2, <3>1 DEF IncrementIterator
    <3>3. /\ still_to_read' \in Seq(VectorElements)
          /\ Len(still_to_read') = vector_end - vector_iterator - 1
          /\ \A j \in 1 .. (vector_end - vector_iterator - 1) :
               still_to_read'[j] = still_to_read[j + 1]
      BY <1>1, <1>2, <3>1, <3>2, EndsRemoved
    <3>4. \A i \in 1 .. (vector_end - vector_iterator) :
            still_to_read[i] = vector_sequence[vector_iterator + i - 1]
      BY DEF VectorInv, IteratorIsAt
    <3>5. \A j \in 1 .. (vector_end - vector_iterator - 1) :
            still_to_read'[j] = vector_sequence[vector_iterator + 1 + j - 1]
      BY <1>1, <3>3, <3>4
    <3> QED
      <4>1. PICK n : n = vector_end - vector_iterator - 1
        OBVIOUS
      <4>2. vector_end' - vector_iterator' = n
        BY <1>1, <3>2, <4>1
      <4>3. Len(still_to_read') = n
        BY <3>3, <4>1, Zenon
      <4>4. \A i \in 1 .. n : still_to_read'[i] = vector_sequence'[vector_iterator' + i - 1]
        BY <3>2, <3>5, <4>1, Zenon
      <4> QED
        BY <3>3, <4>2, <4>3, <4>4, <2>2, <1>1, <3>2, IteratorReads
  <2> QED
    BY <2>1, <2>2
<1> QED
  BY <1>3 DEF VectorInv, VectorTypeOK, CellsHold

\* An iterator one element back, or at begin().
LEMMA DecrementHolds ==
  ASSUME VectorInv, DecrementIterator, UNCHANGED <<cells, vector_end, vector_sequence>>
  PROVE  VectorInv'
<1>1. VectorCapacity \in Nat /\ vector_end \in Nat /\ vector_iterator \in Nat /\ vector_end >= 1
      /\ vector_iterator >= 1 /\ vector_iterator <= vector_end
  BY VectorAssumption DEF VectorInv, VectorTypeOK
<1>2. /\ still_to_read \in Seq(VectorElements) /\ Len(still_to_read) = vector_end - vector_iterator
      /\ vector_sequence \in Seq(VectorElements) /\ Len(vector_sequence) = vector_end - 1
  BY DEF VectorInv, VectorTypeOK, CellsHold, IteratorIsAt
<1>3. vector_iterator' \in 1 .. vector_end /\ still_to_read' \in Seq(VectorElements)
      /\ IteratorIsAt'
  <2>1. CASE vector_iterator = 1
    BY <1>1, <1>2, <2>1 DEF DecrementIterator, VectorBegin, VectorInv, VectorTypeOK, IteratorIsAt
  <2>2. CASE vector_iterator # 1
    <3>1. PICK e : e = vector_sequence[vector_iterator - 1]
      OBVIOUS
    <3>2. e \in VectorElements
      BY <1>1, <1>2, <2>2, <3>1
    <3>3. vector_iterator' = vector_iterator - 1 /\ still_to_read' = <<e>> \o still_to_read
      <4>1. Len(vector_sequence) - Len(still_to_read) = vector_iterator - 1
        BY <1>1, <1>2
      <4>2. Len(still_to_read) # Len(vector_sequence)
        BY <1>1, <1>2, <2>2
      <4> QED
        BY <1>1, <2>2, <3>1, <4>1, <4>2 DEF DecrementIterator, VectorBegin
    <3>4. /\ still_to_read' \in Seq(VectorElements)
          /\ Len(still_to_read') = vector_end - vector_iterator + 1
          /\ \A j \in 1 .. (vector_end - vector_iterator + 1) :
               still_to_read'[j] = IF j = 1 THEN e ELSE still_to_read[j - 1]
      <4>1. PICK r : r = <<e>> \o still_to_read
        OBVIOUS
      <4>2. PICK n : n = vector_end - vector_iterator + 1
        OBVIOUS
      <4>3. n = Len(still_to_read) + 1
        BY <1>1, <1>2, <4>2
      <4>4. /\ r \in Seq(VectorElements) /\ Len(r) = Len(still_to_read) + 1
            /\ \A j \in 1 .. (Len(still_to_read) + 1) :
                 r[j] = IF j = 1 THEN e ELSE still_to_read[j - 1]
        BY <1>2, <3>2, <4>1, FrontAdded
      <4> QED
        BY <3>3, <4>1, <4>2, <4>3, <4>4, Zenon
    <3>5. \A i \in 1 .. (vector_end - vector_iterator) :
            still_to_read[i] = vector_sequence[vector_iterator + i - 1]
      BY DEF VectorInv, IteratorIsAt
    <3>6. \A j \in 1 .. (vector_end - vector_iterator + 1) :
            still_to_read'[j] = vector_sequence[vector_iterator - 1 + j - 1]
      BY <1>1, <3>1, <3>4, <3>5
    <3> QED
      <4>1. PICK n : n = vector_end - vector_iterator + 1
        OBVIOUS
      <4>2. vector_end' - vector_iterator' = n
        BY <1>1, <3>3, <4>1
      <4>3. Len(still_to_read') = n
        BY <3>4, <4>1, Zenon
      <4>4. \A i \in 1 .. n : still_to_read'[i] = vector_sequence'[vector_iterator' + i - 1]
        BY <3>3, <3>6, <4>1, Zenon
      <4> QED
        BY <1>1, <2>2, <3>3, <3>4, <4>2, <4>3, <4>4, IteratorReads
  <2> QED
    BY <2>1, <2>2
<1> QED
  BY <1>3 DEF VectorInv, VectorTypeOK, CellsHold

\* Through whatever is added, taken and destroyed, the cells of a vector hold the sequence
\* it should be, in its order, and its iterator reads on in it, for any capacity.
THEOREM TheVectorIsItsSequence == VectorSpec => []VectorIsSequence
<1>1. VectorInit => VectorInv
  BY EmptyVector
<1>2. VectorInv /\ [VectorNext]_vectorVars => VectorInv'
  <2> SUFFICES ASSUME VectorInv, [VectorNext]_vectorVars PROVE VectorInv'
    OBVIOUS
  <2>1. CASE HasRoom /\ \E e \in VectorElements : AddElement(e)
    BY <2>1, AddedElementHolds
  <2>2. CASE PopBackElement
    BY <2>2, ElementPoppedHolds
  <2>3. CASE ClearElements
    BY <2>3, ClearElementsHolds
  <2>4. CASE (IncrementIterator \/ DecrementIterator) /\ UNCHANGED <<cells, vector_end, vector_sequence>>
    BY <2>4, IncrementHolds, DecrementHolds
  <2>5. CASE UNCHANGED vectorVars
    BY <2>5 DEF vectorVars, VectorInv, VectorTypeOK, CellsHold, IteratorIsAt
  <2> QED
    BY <2>1, <2>2, <2>3, <2>4, <2>5 DEF VectorNext
<1>3. VectorInv => VectorIsSequence
  <2> SUFFICES ASSUME VectorInv PROVE VectorIsSequence
    OBVIOUS
  <2>1. /\ VectorCapacity \in Nat /\ vector_end \in Nat /\ vector_end >= 1
        /\ vector_sequence \in Seq(VectorElements) /\ Len(vector_sequence) = vector_end - 1
    BY VectorAssumption DEF VectorInv, VectorTypeOK, CellsHold
  <2>2. Rest(VectorBegin) = vector_sequence
    BY <2>1, RestIs DEF VectorBegin
  <2>3. Rest(vector_iterator) = still_to_read
    BY RestIs DEF VectorInv, VectorTypeOK, IteratorIsAt
  <2> QED
    BY <2>2, <2>3 DEF VectorIsSequence, VectorInv, CellsHold
<1> QED
  BY <1>1, <1>2, <1>3, PTL DEF VectorSpec

-----------------------------------------------------------------------------
(* The nodes of a forward list, and the sequence that their links make.    *)

\* t is s with e as its number p; and s without its number p.
IsMore(s, p, e, t) ==
  /\ Len(t) = Len(s) + 1
  /\ \A j \in 1 .. (Len(s) + 1) : t[j] = IF j < p THEN s[j] ELSE IF j = p THEN e ELSE s[j - 1]

IsLess(s, p, t) ==
  /\ Len(t) = Len(s) - 1
  /\ \A j \in 1 .. (Len(s) - 1) : t[j] = IF j < p THEN s[j] ELSE s[j + 1]

\* A sequence that holds each element once goes on doing so with one it does not hold.
LEMMA OneMore ==
  ASSUME NEW S, NEW s \in Seq(S), HoldsEachOnce(s), NEW p \in 1 .. (Len(s) + 1),
         NEW e \in S, e \notin ElementsOf(s), NEW t \in Seq(S), IsMore(s, p, e, t)
  PROVE  HoldsEachOnce(t) /\ ElementsOf(t) = ElementsOf(s) \cup {e}
<1>1. Len(s) \in Nat /\ p \in Nat /\ 1 <= p /\ p <= Len(s) + 1
  OBVIOUS
<1>2. \A i \in 1 .. Len(s) : s[i] \in ElementsOf(s) /\ s[i] # e
  BY DEF ElementsOf
<1>3. \A i, j \in 1 .. Len(s) : s[i] = s[j] => i = j
  BY DEF HoldsEachOnce
<1>4. /\ Len(t) = Len(s) + 1
      /\ \A j \in 1 .. Len(t) : j < p => t[j] = s[j] /\ j \in 1 .. Len(s)
      /\ \A j \in 1 .. Len(t) : j > p => t[j] = s[j - 1] /\ j - 1 \in 1 .. Len(s)
      /\ t[p] = e
  BY <1>1 DEF IsMore
<1>5. ASSUME NEW i \in 1 .. Len(t), NEW j \in 1 .. Len(t), t[i] = t[j], i < j PROVE FALSE
  <2>1. CASE i < p
    <3>1. t[i] = s[i] /\ i \in 1 .. Len(s)
      BY <1>1, <1>4, <1>5, <2>1
    <3>2. CASE j < p
      <4>1. t[j] = s[j] /\ j \in 1 .. Len(s)
        BY <1>4, <3>2
      <4>2. i = j
        BY <1>3, <1>5, <3>1, <4>1
      <4> QED
        BY <1>1, <1>5, <4>2
    <3>3. CASE j = p
      BY <1>1, <1>4, <1>2, <1>5, <3>1, <3>3
    <3>4. CASE j > p
      <4>1. t[j] = s[j - 1] /\ j - 1 \in 1 .. Len(s)
        BY <1>1, <1>4, <1>5, <3>4
      <4> QED
        <5>1. i = j - 1
          BY <1>3, <1>5, <3>1, <4>1
        <5> QED
          BY <1>1, <2>1, <3>4, <4>1, <5>1
    <3> QED
      BY <1>1, <1>4, <3>2, <3>3, <3>4
  <2>2. CASE i >= p
    <3>1. t[j] = s[j - 1] /\ j - 1 \in 1 .. Len(s)
      BY <1>1, <1>4, <1>5, <2>2
    <3>2. CASE i = p
      BY <1>1, <1>4, <1>2, <1>5, <3>1, <3>2
    <3>3. CASE i > p
      <4>1. t[i] = s[i - 1] /\ i - 1 \in 1 .. Len(s)
        BY <1>1, <1>4, <1>5, <3>3
      <4> QED
        BY <1>1, <1>4, <1>3, <1>5, <3>1, <4>1
    <3> QED
      BY <1>1, <1>4, <2>2, <3>2, <3>3
  <2> QED
    BY <1>1, <2>1, <2>2
<1>6. HoldsEachOnce(t)
  <2>1. Len(t) \in Nat
    OBVIOUS
  <2>2. ASSUME NEW i \in 1 .. Len(t), NEW j \in 1 .. Len(t), t[i] = t[j] PROVE i = j
    BY <1>5, <2>1, <2>2
  <2> QED
    BY <2>2 DEF HoldsEachOnce
<1>7. ASSUME NEW x \in ElementsOf(s) PROVE x \in ElementsOf(t)
  <2>1. PICK i \in 1 .. Len(s) : x = s[i]
    BY DEF ElementsOf
  <2>2. i < p => t[i] = x /\ i \in 1 .. Len(t)
    BY <1>1, <2>1 DEF IsMore
  <2>3. i >= p => t[i + 1] = x /\ i + 1 \in 1 .. Len(t)
    BY <1>1, <2>1 DEF IsMore
  <2> QED
    BY <1>1, <2>2, <2>3 DEF ElementsOf
<1>8. e \in ElementsOf(t)
  <2>1. t[p] = e /\ p \in 1 .. Len(t)
    BY <1>1 DEF IsMore
  <2> QED
    BY <2>1 DEF ElementsOf
<1>9. ASSUME NEW j \in 1 .. Len(t) PROVE t[j] \in ElementsOf(s) \cup {e}
  <2>1. CASE j < p
    BY <1>1, <1>2, <2>1 DEF IsMore
  <2>2. CASE j = p
    BY <1>1, <2>2 DEF IsMore
  <2>3. CASE j > p
    <3>1. t[j] = s[j - 1] /\ j - 1 \in 1 .. Len(s)
      BY <1>1, <2>3 DEF IsMore
    <3> QED
      BY <1>2, <3>1
  <2> QED
    BY <1>1, <2>1, <2>2, <2>3
<1>10. ElementsOf(t) \subseteq ElementsOf(s) \cup {e}
  BY <1>9 DEF ElementsOf
<1> QED
  BY <1>6, <1>7, <1>8, <1>10

\* And with one less.
LEMMA OneLess ==
  ASSUME NEW S, NEW s \in Seq(S), HoldsEachOnce(s), NEW p \in 1 .. Len(s),
         NEW t \in Seq(S), IsLess(s, p, t)
  PROVE  HoldsEachOnce(t) /\ ElementsOf(t) = ElementsOf(s) \ {s[p]}
<1>1. Len(s) \in Nat /\ p \in Nat /\ 1 <= p /\ p <= Len(s)
  OBVIOUS
<1>2. \A i \in 1 .. Len(s) : s[i] \in ElementsOf(s)
  BY DEF ElementsOf
<1>3. \A i, j \in 1 .. Len(s) : s[i] = s[j] => i = j
  BY DEF HoldsEachOnce
<1>4. ASSUME NEW j \in 1 .. Len(t)
      PROVE  \E i \in 1 .. Len(s) : t[j] = s[i] /\ i # p /\ i = IF j < p THEN j ELSE j + 1
  <2>1. j < p => t[j] = s[j] /\ j \in 1 .. Len(s) /\ j # p
    BY <1>1 DEF IsLess
  <2>2. j >= p => t[j] = s[j + 1] /\ j + 1 \in 1 .. Len(s) /\ j + 1 # p
    BY <1>1 DEF IsLess
  <2> QED
    BY <1>1, <2>1, <2>2
<1>5. ASSUME NEW i \in 1 .. Len(t), NEW j \in 1 .. Len(t), t[i] = t[j] PROVE i = j
  <2>1. PICK k \in 1 .. Len(s) : t[i] = s[k] /\ k = IF i < p THEN i ELSE i + 1
    BY <1>4
  <2>2. PICK m \in 1 .. Len(s) : t[j] = s[m] /\ m = IF j < p THEN j ELSE j + 1
    BY <1>4
  <2>3. k = m
    BY <1>3, <1>5, <2>1, <2>2
  <2> QED
    BY <1>1, <2>1, <2>2, <2>3
<1>6. ASSUME NEW x \in ElementsOf(s), x # s[p] PROVE x \in ElementsOf(t)
  <2>1. PICK i \in 1 .. Len(s) : x = s[i]
    BY DEF ElementsOf
  <2>2. i < p => t[i] = x /\ i \in 1 .. Len(t)
    BY <1>1, <2>1 DEF IsLess
  <2>3. i > p => t[i - 1] = x /\ i - 1 \in 1 .. Len(t)
    BY <1>1, <2>1 DEF IsLess
  <2>4. i # p
    BY <1>6, <2>1
  <2> QED
    BY <1>1, <2>2, <2>3, <2>4 DEF ElementsOf
<1>7. ASSUME NEW j \in 1 .. Len(t) PROVE t[j] \in ElementsOf(s) \ {s[p]}
  BY <1>2, <1>3, <1>4
<1>8. ElementsOf(t) \subseteq ElementsOf(s) \ {s[p]}
  BY <1>7 DEF ElementsOf
<1> QED
  BY <1>5, <1>6, <1>8 DEF HoldsEachOnce

ForwardLinks == ForwardElements \cup {NoForwardNode}

\* The list is the sequence: its nodes are linked in the order of it.
ForwardHolds(nodes, front, s) ==
  /\ s \in Seq(ForwardElements) /\ HoldsEachOnce(s)
  /\ nodes \in [ElementsOf(s) -> ForwardLinks]
  /\ \A i \in 1 .. Len(s) : nodes[s[i]] = IF i = Len(s) THEN NoForwardNode ELSE s[i + 1]
  /\ front = IF Len(s) = 0 THEN NoForwardNode ELSE s[1]

IsLinkedIn(s, p, e, nodes, result) ==
  /\ result \in [ElementsOf(s) \cup {e} -> ForwardLinks]
  /\ result[e] = IF p = Len(s) + 1 THEN NoForwardNode ELSE s[p]
  /\ \A i \in 1 .. Len(s) : result[s[i]] = IF i = p - 1 THEN e ELSE nodes[s[i]]

IsLinkedOut(s, p, nodes, result) ==
  /\ result \in [ElementsOf(s) \ {s[p]} -> ForwardLinks]
  /\ \A i \in 1 .. Len(s) :
       i # p => result[s[i]] = IF i = p - 1 THEN nodes[s[p]] ELSE nodes[s[i]]

\* A node linked in: from the one before its place, and to the one that was there.
LEMMA ForwardLinkedIn ==
  ASSUME NEW nodes, NEW front, NEW s, ForwardHolds(nodes, front, s),
         NEW p \in 1 .. (Len(s) + 1), NEW e \in ForwardElements, e \notin ElementsOf(s),
         NEW t \in Seq(ForwardElements), IsMore(s, p, e, t),
         NEW result, IsLinkedIn(s, p, e, nodes, result),
         NEW first, first = IF p = 1 THEN e ELSE front
  PROVE  ForwardHolds(result, first, t)
<1>1. s \in Seq(ForwardElements) /\ HoldsEachOnce(s) /\ Len(s) \in Nat /\ p \in Nat
  BY DEF ForwardHolds
<1>2. HoldsEachOnce(t) /\ ElementsOf(t) = ElementsOf(s) \cup {e}
  BY <1>1, OneMore
<1>3. Len(t) = Len(s) + 1
  BY DEF IsMore
<1>4. ASSUME NEW j \in 1 .. Len(t)
      PROVE  result[t[j]] = IF j = Len(t) THEN NoForwardNode ELSE t[j + 1]
  <2>1. CASE j < p
    <3>1. t[j] = s[j] /\ j \in 1 .. Len(s)
      BY <1>1, <1>3, <2>1 DEF IsMore
    <3>2. CASE j = p - 1
      <4>1. result[t[j]] = e /\ t[j + 1] = e
        BY <1>1, <1>3, <2>1, <3>1, <3>2 DEF IsMore, IsLinkedIn
      <4> QED
        BY <1>1, <1>3, <3>1, <4>1
    <3>3. CASE j # p - 1
      <4>1. result[t[j]] = nodes[s[j]]
        BY <3>1, <3>3 DEF IsLinkedIn
      <4>2. t[j + 1] = s[j + 1] /\ j # Len(s)
        BY <1>1, <1>3, <2>1, <3>1, <3>3 DEF IsMore
      <4>3. nodes[s[j]] = s[j + 1]
        BY <3>1, <4>2 DEF ForwardHolds
      <4> QED
        BY <1>1, <1>3, <3>1, <4>1, <4>2, <4>3
    <3> QED
      BY <3>2, <3>3
  <2>2. CASE j = p
    <3>1. t[j] = e
      BY <1>1, <1>3, <2>2 DEF IsMore
    <3>2. j # Len(t) => t[j + 1] = s[p]
      BY <1>1, <1>3, <2>2 DEF IsMore
    <3> QED
      BY <1>1, <1>3, <2>2, <3>1, <3>2 DEF IsLinkedIn
  <2>3. CASE j > p
    <3>1. t[j] = s[j - 1] /\ j - 1 \in 1 .. Len(s) /\ j - 1 # p - 1
      BY <1>1, <1>3, <2>3 DEF IsMore
    <3>2. result[t[j]] = IF j - 1 = Len(s) THEN NoForwardNode ELSE s[j]
      BY <1>1, <3>1 DEF ForwardHolds, IsLinkedIn
    <3>3. j # Len(t) => t[j + 1] = s[j]
      BY <1>1, <1>3, <2>3 DEF IsMore
    <3> QED
      BY <1>1, <1>3, <3>2, <3>3
  <2> QED
    BY <1>1, <1>3, <2>1, <2>2, <2>3
<1>5. first = IF Len(t) = 0 THEN NoForwardNode ELSE t[1]
  <2>1. p = 1 => t[1] = e
    BY <1>1, <1>3 DEF IsMore
  <2>2. p # 1 => t[1] = s[1] /\ Len(s) # 0
    BY <1>1, <1>3 DEF IsMore
  <2> QED
    BY <1>1, <1>3, <2>1, <2>2 DEF ForwardHolds
<1> QED
  BY <1>2, <1>4, <1>5 DEF ForwardHolds, IsLinkedIn

\* A node linked out: the one before it leads where it led.
LEMMA ForwardLinkedOut ==
  ASSUME NEW nodes, NEW front, NEW s, ForwardHolds(nodes, front, s), NEW p \in 1 .. Len(s),
         NEW t \in Seq(ForwardElements), IsLess(s, p, t),
         NEW result, IsLinkedOut(s, p, nodes, result),
         NEW first, first = IF p = 1 THEN nodes[s[1]] ELSE front
  PROVE  ForwardHolds(result, first, t)
<1>1. s \in Seq(ForwardElements) /\ HoldsEachOnce(s) /\ Len(s) \in Nat /\ p \in Nat
  BY DEF ForwardHolds
<1>2. HoldsEachOnce(t) /\ ElementsOf(t) = ElementsOf(s) \ {s[p]}
  BY <1>1, OneLess
<1>3. Len(t) = Len(s) - 1
  BY DEF IsLess
<1>4. \A i \in 1 .. Len(s) : nodes[s[i]] = IF i = Len(s) THEN NoForwardNode ELSE s[i + 1]
  BY DEF ForwardHolds
<1>5. ASSUME NEW j \in 1 .. Len(t)
      PROVE  result[t[j]] = IF j = Len(t) THEN NoForwardNode ELSE t[j + 1]
  <2>1. CASE j < p
    <3>1. t[j] = s[j] /\ j \in 1 .. Len(s) /\ j # p
      BY <1>1, <1>3, <2>1 DEF IsLess
    <3>2. CASE j = p - 1
      <4>1. result[t[j]] = nodes[s[p]]
        BY <3>1, <3>2 DEF IsLinkedOut
      <4>2. nodes[s[p]] = IF p = Len(s) THEN NoForwardNode ELSE s[p + 1]
        BY <1>4
      <4>3. j # Len(t) => t[j + 1] = s[p + 1]
        BY <1>1, <1>3, <3>2 DEF IsLess
      <4> QED
        BY <1>1, <1>3, <3>2, <4>1, <4>2, <4>3
    <3>3. CASE j # p - 1
      <4>1. result[t[j]] = nodes[s[j]]
        BY <3>1, <3>3 DEF IsLinkedOut
      <4>2. nodes[s[j]] = s[j + 1]
        BY <1>1, <1>4, <2>1, <3>1
      <4>3. t[j + 1] = s[j + 1] /\ j # Len(t)
        BY <1>1, <1>3, <2>1, <3>3 DEF IsLess
      <4> QED
        BY <4>1, <4>2, <4>3
    <3> QED
      BY <3>2, <3>3
  <2>2. CASE j >= p
    <3>1. t[j] = s[j + 1] /\ j + 1 \in 1 .. Len(s) /\ j + 1 # p /\ j + 1 # p - 1
      BY <1>1, <1>3, <2>2 DEF IsLess
    <3>2. result[t[j]] = nodes[s[j + 1]]
      BY <3>1 DEF IsLinkedOut
    <3>3. nodes[s[j + 1]] = IF j + 1 = Len(s) THEN NoForwardNode ELSE s[j + 2]
      BY <1>1, <1>4, <3>1
    <3>4. j # Len(t) => t[j + 1] = s[j + 2]
      BY <1>1, <1>3, <2>2 DEF IsLess
    <3> QED
      BY <1>1, <1>3, <3>2, <3>3, <3>4
  <2> QED
    BY <1>1, <1>3, <2>1, <2>2
<1>6. first = IF Len(t) = 0 THEN NoForwardNode ELSE t[1]
  <2>1. CASE p = 1
    <3>1. Len(t) # 0 => t[1] = s[2]
      BY <1>1, <1>3, <2>1 DEF IsLess
    <3> QED
      BY <1>1, <1>3, <1>4, <2>1, <3>1
  <2>2. CASE p # 1
    <3>1. t[1] = s[1] /\ Len(t) # 0
      BY <1>1, <1>3, <2>2 DEF IsLess
    <3> QED
      BY <1>1, <2>2, <3>1 DEF ForwardHolds
  <2> QED
    BY <2>1, <2>2
<1> QED
  BY <1>2, <1>5, <1>6 DEF ForwardHolds, IsLinkedOut

ForwardInv == ForwardHolds(next_node, front_node, forward_sequence)

\* push_front: the new node leads to the one that was the first.
LEMMA NodePushedHolds ==
  ASSUME ForwardInv, NEW e \in ForwardElements \ DOMAIN next_node, PushFrontNode(e)
  PROVE  ForwardInv'
<1>1. PICK nodes, front, s :
        nodes = next_node /\ front = front_node /\ s = forward_sequence
  OBVIOUS
<1>2. ForwardHolds(nodes, front, s)
  BY <1>1 DEF ForwardInv
<1>3. e \in ForwardElements /\ s \in Seq(ForwardElements) /\ Len(s) \in Nat
  BY <1>2 DEF ForwardHolds
<1>4. DOMAIN nodes = ElementsOf(s) /\ e \notin ElementsOf(s)
  BY <1>1, <1>2 DEF ForwardHolds
<1>5. PICK t : t = <<e>> \o s
  OBVIOUS
<1>6. t \in Seq(ForwardElements) /\ IsMore(s, 1, e, t)
  <2>1. /\ t \in Seq(ForwardElements) /\ Len(t) = Len(s) + 1
        /\ \A j \in 1 .. (Len(s) + 1) : t[j] = IF j = 1 THEN e ELSE s[j - 1]
    BY <1>3, <1>5, FrontAdded
  <2> QED
    BY <1>3, <2>1 DEF IsMore
<1>7. PICK result : result = next_node'
  OBVIOUS
<1>8. result = [n \in ElementsOf(s) \cup {e} |-> IF n = e THEN front ELSE nodes[n]]
  BY <1>1, <1>4, <1>7 DEF PushFrontNode, Allocated
<1>9. front \in ForwardLinks /\ front = IF Len(s) = 0 THEN NoForwardNode ELSE s[1]
  BY <1>2, <1>3 DEF ForwardHolds, ForwardLinks
<1>10. /\ result \in [ElementsOf(s) \cup {e} -> ForwardLinks]
       /\ result[e] = front
       /\ \A i \in 1 .. Len(s) : result[s[i]] = nodes[s[i]]
  <2>1. \A i \in 1 .. Len(s) : s[i] \in ElementsOf(s)
    BY DEF ElementsOf
  <2> QED
    BY <1>2, <1>4, <1>8, <1>9, <2>1 DEF ForwardHolds
<1>11. ForwardHolds(result, e, t)
  <2>1. \A i \in 1 .. Len(s) : i # 1 - 1
    OBVIOUS
  <2>2. result[e] = IF 1 = Len(s) + 1 THEN NoForwardNode ELSE s[1]
    BY <1>3, <1>9, <1>10
  <2>3. \A i \in 1 .. Len(s) : result[s[i]] = IF i = 1 - 1 THEN e ELSE nodes[s[i]]
    BY <1>10, <2>1
  <2>4. 1 \in 1 .. (Len(s) + 1)
    BY <1>3
  <2>5. IsLinkedIn(s, 1, e, nodes, result)
    BY <1>10, <2>2, <2>3 DEF IsLinkedIn
  <2> QED
    BY <1>2, <1>3, <1>4, <1>6, <2>4, <2>5, ForwardLinkedIn
<1> QED
  BY <1>1, <1>5, <1>7, <1>11 DEF ForwardInv, PushFrontNode

\* pop_front, of a list with nodes and of one without.
LEMMA NodePoppedHolds ==
  ASSUME ForwardInv, PopFrontNode
  PROVE  ForwardInv'
<1>1. PICK nodes, front, s :
        nodes = next_node /\ front = front_node /\ s = forward_sequence
  OBVIOUS
<1>2. ForwardHolds(nodes, front, s)
  BY <1>1 DEF ForwardInv
<1>3. s \in Seq(ForwardElements) /\ Len(s) \in Nat /\ (s = << >> <=> Len(s) = 0)
  BY <1>2 DEF ForwardHolds
<1>4. CASE Len(s) = 0
  <2>1. front = NoForwardNode /\ s = << >>
    BY <1>2, <1>3, <1>4 DEF ForwardHolds
  <2> QED
    BY <1>1, <1>2, <2>1 DEF PopFrontNode, ForwardInv
<1>5. CASE Len(s) # 0
  <2>1. front = s[1] /\ s[1] \in ForwardElements /\ 1 \in 1 .. Len(s) /\ s # << >>
    BY <1>2, <1>3, <1>5 DEF ForwardHolds
  <2>2. front # NoForwardNode
    BY <2>1, ForwardAssumption
  <2>3. DOMAIN nodes = ElementsOf(s) /\ nodes \in [ElementsOf(s) -> ForwardLinks]
    BY <1>2 DEF ForwardHolds
  <2>4. PICK t : t = Tail(s)
    OBVIOUS
  <2>5. t \in Seq(ForwardElements) /\ IsLess(s, 1, t)
    <3>1. /\ t \in Seq(ForwardElements) /\ Len(t) = Len(s) - 1
          /\ \A j \in 1 .. (Len(s) - 1) : t[j] = s[j + 1]
      BY <1>3, <2>1, <2>4, EndsRemoved
    <3> QED
      BY <1>3, <3>1 DEF IsLess
  <2>6. PICK result : result = next_node'
    OBVIOUS
  <2>7. result = [n \in ElementsOf(s) \ {s[1]} |-> nodes[n]]
    BY <1>1, <2>1, <2>2, <2>3, <2>6 DEF PopFrontNode, Deallocated, Restrict
  <2>8. /\ result \in [ElementsOf(s) \ {s[1]} -> ForwardLinks]
        /\ \A i \in 1 .. Len(s) : i # 1 => result[s[i]] = nodes[s[i]]
    <3>1. \A i \in 1 .. Len(s) : s[i] \in ElementsOf(s)
      BY DEF ElementsOf
    <3>2. \A i \in 1 .. Len(s) : i # 1 => s[i] # s[1]
      BY <1>2, <2>1 DEF ForwardHolds, HoldsEachOnce
    <3> QED
      BY <2>3, <2>7, <3>1, <3>2
  <2>9. ForwardHolds(result, nodes[s[1]], t)
    <3>1. \A i \in 1 .. Len(s) :
            i # 1 => result[s[i]] = IF i = 1 - 1 THEN nodes[s[1]] ELSE nodes[s[i]]
      BY <2>8
    <3>2. IsLinkedOut(s, 1, nodes, result)
      BY <2>8, <3>1 DEF IsLinkedOut
    <3> QED
      BY <1>2, <2>1, <2>5, <3>2, ForwardLinkedOut
  <2>10. front_node' = nodes[s[1]] /\ forward_sequence' = t
    BY <1>1, <2>1, <2>2, <2>4 DEF PopFrontNode
  <2> QED
    BY <2>6, <2>9, <2>10 DEF ForwardInv
<1> QED
  BY <1>4, <1>5

\* Where a node is in the sequence.
LEMMA PlaceFound ==
  ASSUME ForwardInv, NEW n \in DOMAIN next_node
  PROVE  /\ PlaceOf(n) \in 1 .. Len(forward_sequence)
         /\ forward_sequence[PlaceOf(n)] = n
<1>1. /\ forward_sequence \in Seq(ForwardElements)
      /\ DOMAIN next_node = ElementsOf(forward_sequence)
  BY DEF ForwardInv, ForwardHolds
<1>2. \E i \in 1 .. Len(forward_sequence) : forward_sequence[i] = n
  BY <1>1 DEF ElementsOf
<1>3. DOMAIN forward_sequence = 1 .. Len(forward_sequence)
  BY <1>1
<1>4. \E i \in DOMAIN forward_sequence : forward_sequence[i] = n
  BY <1>2, <1>3
<1>5. /\ PlaceOf(n) \in DOMAIN forward_sequence
      /\ forward_sequence[PlaceOf(n)] = n
  BY <1>4 DEF PlaceOf
<1> QED
  BY <1>3, <1>5

\* insert_after: the new node leads where the one before it led.
LEMMA NodeInsertedHolds ==
  ASSUME ForwardInv, NEW n \in DOMAIN next_node, NEW e \in ForwardElements \ DOMAIN next_node,
         InsertAfterNode(n, e)
  PROVE  ForwardInv'
<1>1. PICK nodes, front, s, k :
        nodes = next_node /\ front = front_node /\ s = forward_sequence /\ k = PlaceOf(n)
  OBVIOUS
<1>2. ForwardHolds(nodes, front, s) /\ k \in 1 .. Len(s) /\ s[k] = n
  BY <1>1, PlaceFound DEF ForwardInv
<1>3. e \in ForwardElements /\ s \in Seq(ForwardElements) /\ Len(s) \in Nat /\ k \in Nat
  BY <1>2 DEF ForwardHolds
<1>4. /\ DOMAIN nodes = ElementsOf(s) /\ e \notin ElementsOf(s) /\ n \in ElementsOf(s)
      /\ nodes \in [ElementsOf(s) -> ForwardLinks]
  BY <1>1, <1>2 DEF ForwardHolds
<1>5. PICK p : p = k + 1
  OBVIOUS
<1>6. p \in 1 .. (Len(s) + 1) /\ p # 1 /\ \A i \in 1 .. Len(s) : i = p - 1 <=> i = k
  BY <1>2, <1>3, <1>5
<1>7. PICK t : t = InsertAt(s, p, e)
  OBVIOUS
<1>8. t \in Seq(ForwardElements) /\ IsMore(s, p, e, t)
  <2>1. /\ InsertAt(s, p, e) \in Seq(ForwardElements) /\ Len(InsertAt(s, p, e)) = Len(s) + 1
        /\ \A j \in 1 .. (Len(s) + 1) :
             InsertAt(s, p, e)[j] = IF j < p THEN s[j] ELSE IF j = p THEN e ELSE s[j - 1]
    <3>1. s \in Seq(ForwardElements) /\ e \in ForwardElements /\ p \in 1 .. (Len(s) + 1)
      BY <1>3, <1>6
    <3>2. InsertIs(ForwardElements, s, p, e, InsertAt(s, p, e))
      BY <3>1, InsertedIs, Zenon
    <3> QED
      BY <3>2, Zenon DEF InsertIs
  <2> QED
    BY <1>7, <2>1, Zenon DEF IsMore
<1>9. PICK more : more = [m \in ElementsOf(s) \cup {e} |-> IF m = e THEN nodes[n] ELSE nodes[m]]
  OBVIOUS
<1>10. PICK result : result = next_node'
  OBVIOUS
<1>11. result = [more EXCEPT ![n] = e]
  BY <1>1, <1>4, <1>9, <1>10 DEF InsertAfterNode, Allocated
<1>12. /\ result \in [ElementsOf(s) \cup {e} -> ForwardLinks]
       /\ result[e] = nodes[n] /\ result[n] = e
       /\ \A m \in ElementsOf(s) : m # n => result[m] = nodes[m]
  <2>1. e \in ForwardLinks /\ nodes[n] \in ForwardLinks
    BY <1>3, <1>4 DEF ForwardLinks
  <2>2. more \in [ElementsOf(s) \cup {e} -> ForwardLinks]
    BY <1>4, <1>9, <2>1
  <2> QED
    BY <1>4, <1>9, <1>11, <2>1, <2>2
<1>13. result[e] = IF p = Len(s) + 1 THEN NoForwardNode ELSE s[p]
  <2>1. nodes[s[k]] = IF k = Len(s) THEN NoForwardNode ELSE s[k + 1]
    BY <1>2 DEF ForwardHolds
  <2> QED
    BY <1>2, <1>3, <1>5, <1>12, <2>1
<1>14. \A i \in 1 .. Len(s) : result[s[i]] = IF i = p - 1 THEN e ELSE nodes[s[i]]
  <2>1. \A i \in 1 .. Len(s) : s[i] \in ElementsOf(s)
    BY DEF ElementsOf
  <2>2. \A i \in 1 .. Len(s) : i # k => s[i] # n
    BY <1>2 DEF ForwardHolds, HoldsEachOnce
  <2> QED
    BY <1>2, <1>6, <1>12, <2>1, <2>2
<1>15. IsLinkedIn(s, p, e, nodes, result)
  BY <1>12, <1>13, <1>14 DEF IsLinkedIn
<1>16. ForwardHolds(result, front, t)
  BY <1>2, <1>3, <1>4, <1>6, <1>8, <1>15, ForwardLinkedIn
<1>17. front_node' = front /\ forward_sequence' = t
  BY <1>1, <1>5, <1>7 DEF InsertAfterNode
<1> QED
  BY <1>10, <1>16, <1>17 DEF ForwardInv

\* erase_after, of a node and of the end.
LEMMA NodeErasedHolds ==
  ASSUME ForwardInv, NEW n \in DOMAIN next_node, EraseAfterNode(n)
  PROVE  ForwardInv'
<1>1. PICK nodes, front, s, k :
        nodes = next_node /\ front = front_node /\ s = forward_sequence /\ k = PlaceOf(n)
  OBVIOUS
<1>2. ForwardHolds(nodes, front, s) /\ k \in 1 .. Len(s) /\ s[k] = n
  BY <1>1, PlaceFound DEF ForwardInv
<1>3. s \in Seq(ForwardElements) /\ Len(s) \in Nat /\ k \in Nat
  BY <1>2 DEF ForwardHolds
<1>4. /\ DOMAIN nodes = ElementsOf(s) /\ n \in ElementsOf(s)
      /\ nodes \in [ElementsOf(s) -> ForwardLinks]
  BY <1>1, <1>2 DEF ForwardHolds
<1>5. nodes[n] = IF k = Len(s) THEN NoForwardNode ELSE s[k + 1]
  BY <1>2 DEF ForwardHolds
<1>6. \A i, j \in 1 .. Len(s) : s[i] = s[j] => i = j
  BY <1>2 DEF ForwardHolds, HoldsEachOnce
<1>7. Last(s) = s[Len(s)]
  BY DEF Last
<1>8. CASE k = Len(s)
  <2>1. nodes[n] = NoForwardNode /\ n = Last(s)
    BY <1>2, <1>5, <1>7, <1>8
  <2> QED
    BY <1>1, <1>2, <2>1 DEF EraseAfterNode, ForwardInv
<1>9. CASE k # Len(s)
  <2>1. PICK p : p = k + 1
    OBVIOUS
  <2>2. p \in 1 .. Len(s) /\ p # 1 /\ Len(s) \in 1 .. Len(s)
        /\ \A i \in 1 .. Len(s) : i = p - 1 <=> i = k
    BY <1>2, <1>3, <1>9, <2>1
  <2>3. PICK x : x = s[p]
    OBVIOUS
  <2>4. x \in ForwardElements /\ x \in ElementsOf(s) /\ nodes[n] = x /\ x # n
    <3>1. x # n
      BY <1>2, <1>3, <1>6, <2>1, <2>2, <2>3
    <3> QED
      BY <1>3, <1>5, <1>9, <2>1, <2>2, <2>3, <3>1 DEF ElementsOf
  <2>5. x # NoForwardNode /\ n # Last(s)
    BY <1>2, <1>6, <1>7, <1>9, <2>2, <2>4, ForwardAssumption
  <2>6. PICK t : t = RemoveAt(s, p)
    OBVIOUS
  <2>7. t \in Seq(ForwardElements) /\ IsLess(s, p, t)
    <3>1. /\ RemoveAt(s, p) \in Seq(ForwardElements) /\ Len(RemoveAt(s, p)) = Len(s) - 1
          /\ \A j \in 1 .. (Len(s) - 1) :
               RemoveAt(s, p)[j] = IF j < p THEN s[j] ELSE s[j + 1]
      BY <1>3, <2>2, Removed
    <3> QED
      BY <2>6, <3>1, Zenon DEF IsLess
  <2>8. PICK over : over = [nodes EXCEPT ![n] = nodes[x]]
    OBVIOUS
  <2>9. PICK result : result = next_node'
    OBVIOUS
  <2>10. DOMAIN over = ElementsOf(s)
    BY <1>4, <2>8
  <2>11. result = [m \in ElementsOf(s) \ {x} |-> over[m]]
    <3>1. next_node' = Deallocated(LinkedOver(n), x)
      BY <1>1, <2>4, <2>5 DEF EraseAfterNode
    <3>2. LinkedOver(n) = over
      BY <1>1, <2>4, <2>8 DEF LinkedOver
    <3> QED
      BY <2>9, <2>10, <3>1, <3>2 DEF Deallocated, Restrict
  <2>12. /\ result \in [ElementsOf(s) \ {x} -> ForwardLinks]
         /\ result[n] = nodes[x] /\ \A m \in ElementsOf(s) \ {x} : m # n => result[m] = nodes[m]
    BY <1>4, <2>4, <2>8, <2>11
  <2>13. \A i \in 1 .. Len(s) :
           i # p => result[s[i]] = IF i = p - 1 THEN nodes[s[p]] ELSE nodes[s[i]]
    <3>1. \A i \in 1 .. Len(s) : s[i] \in ElementsOf(s)
      BY DEF ElementsOf
    <3>2. \A i \in 1 .. Len(s) : (i # k => s[i] # n) /\ (i # p => s[i] # x)
      BY <1>2, <1>6, <2>2, <2>3
    <3> QED
      BY <1>2, <2>2, <2>3, <2>12, <3>1, <3>2
  <2>14. IsLinkedOut(s, p, nodes, result)
    BY <2>3, <2>12, <2>13 DEF IsLinkedOut
  <2>15. ForwardHolds(result, front, t)
    BY <1>2, <2>2, <2>7, <2>14, ForwardLinkedOut
  <2>16. front_node' = front /\ forward_sequence' = t
    BY <1>1, <2>1, <2>5, <2>6 DEF EraseAfterNode
  <2> QED
    BY <2>9, <2>15, <2>16 DEF ForwardInv
<1> QED
  BY <1>8, <1>9

\* Whatever is put in and erased at the front or behind a node, the links of a forward list
\* make the sequence it should be, and no other node stays allocated.
THEOREM TheForwardListIsItsSequence == ForwardSpec => []ForwardListIsSequence
<1>1. ForwardInit => ForwardInv
  <2>1. << >> \in Seq(ForwardElements) /\ Len(<< >>) = 0 /\ ElementsOf(<< >>) = {}
    BY DEF ElementsOf
  <2>2. << >> \in [{} -> ForwardLinks]
    OBVIOUS
  <2> QED
    BY <2>1, <2>2 DEF ForwardInit, ForwardInv, ForwardHolds, HoldsEachOnce
<1>2. ForwardInv /\ [ForwardNext]_forwardVars => ForwardInv'
  <2> SUFFICES ASSUME ForwardInv, [ForwardNext]_forwardVars PROVE ForwardInv'
    OBVIOUS
  <2>1. ASSUME NEW e \in ForwardElements \ DOMAIN next_node, PushFrontNode(e) PROVE ForwardInv'
    BY <2>1, NodePushedHolds
  <2>2. ASSUME NEW e \in ForwardElements \ DOMAIN next_node, NEW n \in DOMAIN next_node,
               InsertAfterNode(n, e)
        PROVE  ForwardInv'
    BY <2>2, NodeInsertedHolds
  <2>3. CASE PopFrontNode
    BY <2>3, NodePoppedHolds
  <2>4. ASSUME NEW n \in DOMAIN next_node, EraseAfterNode(n) PROVE ForwardInv'
    BY <2>4, NodeErasedHolds
  <2>5. CASE UNCHANGED forwardVars
    BY <2>5 DEF forwardVars, ForwardInv
  <2> QED
    BY <2>1, <2>2, <2>3, <2>4, <2>5 DEF ForwardNext
<1>3. ForwardInv => ForwardListIsSequence
  <2> SUFFICES ASSUME ForwardInv PROVE ForwardListIsSequence
    OBVIOUS
  <2>1. /\ forward_sequence \in Seq(ForwardElements)
        /\ DOMAIN forward_sequence = 1 .. Len(forward_sequence)
        /\ (forward_sequence = << >> <=> Len(forward_sequence) = 0)
    BY DEF ForwardInv, ForwardHolds
  <2>2. DOMAIN next_node = {forward_sequence[i] : i \in DOMAIN forward_sequence}
    BY <2>1 DEF ForwardInv, ForwardHolds, ElementsOf
  <2> QED
    BY <2>1, <2>2 DEF ForwardInv, ForwardHolds, ForwardListIsSequence, FollowedBy
<1> QED
  BY <1>1, <1>2, <1>3, PTL DEF ForwardSpec

-----------------------------------------------------------------------------
(* The sum of the sizes of blocks.                                         *)

\* SizeOf, of any headers.
SummedUp(h, blocks) ==
  LET sum[s \in SUBSET blocks] ==
        IF s = {} THEN 0
        ELSE LET at == CHOOSE x \in s : TRUE IN h[at].block_size + sum[s \ {at}]
  IN sum[blocks]

SizesAreNumbers(h, blocks) == \A at \in blocks : h[at].block_size \in Nat

\* The bytes of blocks, each with the block it is in: there are as many as their sizes add up to.
BytesOf(h, blocks) == {b \in blocks \X Nat : b[2] \in 1 .. h[b[1]].block_size}

\* One block more has as many bytes more as its size.
LEMMA BytesOfOneMore ==
  ASSUME NEW h, NEW blocks, NEW at, at \notin blocks, h[at].block_size \in Nat,
         IsFiniteSet(BytesOf(h, blocks))
  PROVE  /\ IsFiniteSet(BytesOf(h, blocks \cup {at}))
         /\ Cardinality(BytesOf(h, blocks \cup {at})) =
              Cardinality(BytesOf(h, blocks)) + h[at].block_size
<1> DEFINE size == h[at].block_size
           own == {at} \X (1 .. size)
<1>1. IsFiniteSet(1 .. size) /\ Cardinality(1 .. size) = size
  <2>1. size \in Nat /\ 1 \in Int /\ size \in Int
    OBVIOUS
  <2> HIDE DEF size
  <2>2. IsFiniteSet(1 .. size) /\ Cardinality(1 .. size) = IF 1 > size THEN 0 ELSE size - 1 + 1
    BY <2>1, FS_Interval
  <2> QED
    BY <2>1, <2>2
<1>2. IsFiniteSet(own) /\ Cardinality(own) = size
  <2> DEFINE T == 1 .. size
             f == [i \in T |-> <<at, i>>]
  <2>1. f \in Bijection(T, own)
    BY DEF Bijection, Injection, Surjection, IsInjective
  <2>2. ExistsBijection(T, own)
    BY <2>1 DEF ExistsBijection
  <2>3. IsFiniteSet(T) /\ Cardinality(T) = size
    BY <1>1
  <2> HIDE DEF T, own
  <2> QED
    BY <2>2, <2>3, FS_Bijection
<1>3. BytesOf(h, blocks \cup {at}) = BytesOf(h, blocks) \cup own
  BY DEF BytesOf
<1>4. BytesOf(h, blocks) \cap own = {}
  BY DEF BytesOf
<1>5. Cardinality(BytesOf(h, blocks)) \in Nat
  BY FS_CardinalityType
<1> HIDE DEF own
<1>6. Cardinality(BytesOf(h, blocks) \cap own) = 0
  BY <1>4, FS_EmptySet
<1> DEFINE before == BytesOf(h, blocks)
<1>7. IsFiniteSet(before)
  OBVIOUS
<1> HIDE DEF before
<1>8. IsFiniteSet(before \cup own)
      /\ Cardinality(before \cup own) = Cardinality(before) + Cardinality(own) - Cardinality(before \cap own)
  BY <1>2, <1>7, FS_Union
<1>9. size \in Nat /\ Cardinality(before) \in Nat
  BY <1>5 DEF before
<1>10. Cardinality(before \cap own) = 0
  BY <1>6 DEF before
<1> HIDE DEF size
<1>11. Cardinality(before \cup own) = Cardinality(before) + size
  BY <1>2, <1>8, <1>9, <1>10
<1> QED
  BY <1>3, <1>8, <1>11 DEF before, size

\* The bytes of finitely many blocks are finitely many.
LEMMA BytesAreFinite ==
  ASSUME NEW h, NEW blocks, IsFiniteSet(blocks), SizesAreNumbers(h, blocks)
  PROVE  IsFiniteSet(BytesOf(h, blocks))
<1> DEFINE Finite(s) == IsFiniteSet(BytesOf(h, s))
           S == {n \in Nat : \A s \in SUBSET blocks : Cardinality(s) = n => Finite(s)}
<1>1. 0 \in S
  <2>1. ASSUME NEW s \in SUBSET blocks, Cardinality(s) = 0 PROVE Finite(s)
    <3>1. s = {}
      BY <2>1, FS_Subset, FS_EmptySet
    <3>2. BytesOf(h, s) = {}
      BY <3>1 DEF BytesOf
    <3> QED
      BY <3>2, FS_EmptySet
  <2> QED
    BY <2>1
<1>2. ASSUME NEW n \in Nat, n \in S PROVE n + 1 \in S
  <2>1. ASSUME NEW s \in SUBSET blocks, Cardinality(s) = n + 1 PROVE Finite(s)
    <3>1. IsFiniteSet(s)
      BY FS_Subset
    <3>2. PICK at \in s : TRUE
      BY <2>1, FS_EmptySet
    <3>3. Cardinality(s \ {at}) = n
      BY <2>1, <3>1, <3>2, FS_RemoveElement
    <3>4. Finite(s \ {at}) /\ s \ {at} \in SUBSET blocks
      BY <1>2, <3>3
    <3>5. h[at].block_size \in Nat /\ at \notin s \ {at}
      BY <3>2 DEF SizesAreNumbers
    <3>6. (s \ {at}) \cup {at} = s
      BY <3>2
    <3> QED
      BY <3>4, <3>5, <3>6, BytesOfOneMore
  <2> QED
    BY <2>1
<1>3. Nat \subseteq S
  <2> HIDE DEF S
  <2> QED
    BY <1>1, <1>2, EveryNatural
<1>4. Cardinality(blocks) \in Nat /\ blocks \in SUBSET blocks
  BY FS_CardinalityType
<1> QED
  BY <1>3, <1>4

\* The sum is the number of bytes.
LEMMA SumIsBytes ==
  ASSUME NEW h, NEW blocks, IsFiniteSet(blocks), SizesAreNumbers(h, blocks)
  PROVE  SummedUp(h, blocks) = Cardinality(BytesOf(h, blocks))
<1> DEFINE IsSum(f) ==
             f = [s \in SUBSET blocks |->
                    IF s = {} THEN 0
                    ELSE LET at == CHOOSE x \in s : TRUE IN h[at].block_size + f[s \ {at}]]
           count == [s \in SUBSET blocks |-> Cardinality(BytesOf(h, s))]
           sum == CHOOSE f : IsSum(f)
           Same(s) == sum[s] = count[s]
           S == {n \in Nat : \A s \in SUBSET blocks : Cardinality(s) = n => Same(s)}
<1>1. ASSUME NEW s \in SUBSET blocks, NEW at \in s
      PROVE  count[s] = h[at].block_size + count[s \ {at}]
  <2>1. /\ IsFiniteSet(s \ {at}) /\ SizesAreNumbers(h, s \ {at})
        /\ h[at].block_size \in Nat /\ (s \ {at}) \cup {at} = s /\ s \ {at} \in SUBSET blocks
    BY FS_Subset, FS_RemoveElement DEF SizesAreNumbers
  <2>2. IsFiniteSet(BytesOf(h, s \ {at}))
    BY <2>1, BytesAreFinite
  <2>3. Cardinality(BytesOf(h, s \ {at})) \in Nat
    BY <2>2, FS_CardinalityType
  <2>4. Cardinality(BytesOf(h, s)) = Cardinality(BytesOf(h, s \ {at})) + h[at].block_size
    BY <2>1, <2>2, BytesOfOneMore
  <2> QED
    BY <2>1, <2>3, <2>4
<1>2. BytesOf(h, {}) = {}
  BY DEF BytesOf
<1>3. count[{}] = 0
  BY <1>2, FS_EmptySet
<1>4. IsSum(count)
  <2>1. ASSUME NEW s \in SUBSET blocks, s # {}
        PROVE  count[s] = LET at == CHOOSE x \in s : TRUE IN h[at].block_size + count[s \ {at}]
    <3>1. (CHOOSE x \in s : TRUE) \in s
      BY <2>1
    <3> HIDE DEF count
    <3> QED
      BY <1>1, <3>1
  <2> DEFINE right == [s \in SUBSET blocks |->
                    IF s = {} THEN 0
                    ELSE LET at == CHOOSE x \in s : TRUE IN h[at].block_size + count[s \ {at}]]
  <2>2. ASSUME NEW s \in SUBSET blocks PROVE count[s] = right[s]
    <3> HIDE DEF count
    <3> QED
      BY <1>3, <2>1
  <2>3. count = [s \in SUBSET blocks |-> count[s]]
    OBVIOUS
  <2>4. right = [s \in SUBSET blocks |-> right[s]]
    OBVIOUS
  <2>5. count = right
    <3> HIDE DEF count, right
    <3> QED
      BY <2>2, <2>3, <2>4
  <2> QED
    BY <2>5
<1>5. IsSum(sum)
  <2> HIDE DEF IsSum, count
  <2> QED
    BY <1>4
<1>6. ASSUME NEW s \in SUBSET blocks
      PROVE  sum[s] = IF s = {} THEN 0
                      ELSE LET at == CHOOSE x \in s : TRUE IN h[at].block_size + sum[s \ {at}]
  <2> HIDE DEF sum
  <2> QED
    BY <1>5
<1> HIDE DEF sum, count
<1>7. 0 \in S
  <2>1. ASSUME NEW s \in SUBSET blocks, Cardinality(s) = 0 PROVE Same(s)
    <3>1. s = {}
      BY <2>1, FS_Subset, FS_EmptySet
    <3> QED
      BY <1>3, <1>6, <3>1
  <2> QED
    BY <2>1
<1>8. ASSUME NEW n \in Nat, n \in S PROVE n + 1 \in S
  <2>1. ASSUME NEW s \in SUBSET blocks, Cardinality(s) = n + 1 PROVE Same(s)
    <3> DEFINE at == CHOOSE x \in s : TRUE
    <3>1. IsFiniteSet(s) /\ s # {}
      BY <2>1, FS_Subset, FS_EmptySet
    <3>2. at \in s
      BY <3>1
    <3>3. sum[s] = h[at].block_size + sum[s \ {at}]
      BY <1>6, <3>1
    <3> HIDE DEF at
    <3>4. Cardinality(s \ {at}) = n /\ s \ {at} \in SUBSET blocks
      <4>1. Cardinality(s \ {at}) = Cardinality(s) - 1
        BY <3>1, <3>2, FS_RemoveElement
      <4> QED
        BY <2>1, <4>1
    <3>5. Same(s \ {at})
      BY <1>8, <3>4
    <3> QED
      BY <1>1, <3>2, <3>3, <3>5
  <2> QED
    BY <2>1
<1>9. Nat \subseteq S
  <2> HIDE DEF S
  <2> QED
    BY <1>7, <1>8, EveryNatural
<1>10. Cardinality(blocks) \in Nat /\ blocks \in SUBSET blocks
  BY FS_CardinalityType
<1>11. sum[blocks] = count[blocks]
  BY <1>9, <1>10
<1>12. SummedUp(h, blocks) = sum[blocks]
  BY DEF SummedUp, sum
<1> QED
  BY <1>11, <1>12 DEF count

\* The sum is a number.
LEMMA SumIsNumber ==
  ASSUME NEW h, NEW blocks, IsFiniteSet(blocks), SizesAreNumbers(h, blocks)
  PROVE  SummedUp(h, blocks) \in Nat
BY SumIsBytes, BytesAreFinite, FS_CardinalityType

\* One block more adds its size to the sum.
LEMMA SumOfOneMore ==
  ASSUME NEW h, NEW blocks, IsFiniteSet(blocks), SizesAreNumbers(h, blocks),
         NEW at, at \notin blocks, h[at].block_size \in Nat
  PROVE  SummedUp(h, blocks \cup {at}) = SummedUp(h, blocks) + h[at].block_size
<1>1. IsFiniteSet(blocks \cup {at}) /\ SizesAreNumbers(h, blocks \cup {at})
  BY FS_AddElement DEF SizesAreNumbers
<1>2. IsFiniteSet(BytesOf(h, blocks))
  BY BytesAreFinite
<1>3. SummedUp(h, blocks \cup {at}) = Cardinality(BytesOf(h, blocks \cup {at}))
  BY <1>1, SumIsBytes
<1>4. SummedUp(h, blocks) = Cardinality(BytesOf(h, blocks))
  BY SumIsBytes
<1> QED
  BY <1>2, <1>3, <1>4, BytesOfOneMore

\* The sum is the same in other headers that give the blocks the same sizes.
LEMMA SumIsSame ==
  ASSUME NEW h, NEW g, NEW blocks, IsFiniteSet(blocks), SizesAreNumbers(h, blocks),
         \A at \in blocks : g[at].block_size = h[at].block_size
  PROVE  SummedUp(g, blocks) = SummedUp(h, blocks)
<1>1. BytesOf(g, blocks) = BytesOf(h, blocks)
  BY DEF BytesOf
<1>2. SizesAreNumbers(g, blocks)
  BY DEF SizesAreNumbers
<1> QED
  BY <1>1, <1>2, SumIsBytes

-----------------------------------------------------------------------------
(* Headers, and one of them written.                                       *)

HeaderRecords == [in_use : BOOLEAN, block_size : Nat]

AreHeaders(h) == IsFiniteSet(DOMAIN h) /\ h \in [DOMAIN h -> HeaderRecords]

FreeIn(h) == {at \in DOMAIN h : ~h[at].in_use}

NewHeader(h, at, r) == [o \in DOMAIN h \cup {at} |-> IF o = at THEN r ELSE h[o]]

UsedHeader(size) == Header(TRUE, size)
FreeHeader(size) == Header(FALSE, size)

UsedWritten(h, at, size) == WriteHeader(at, TRUE, size, h)
FreeWritten(h, at, size) == WriteHeader(at, FALSE, size, h)

\* A header holds what it is made from.
LEMMA HeaderHolds ==
  ASSUME NEW size \in Nat
  PROVE  /\ UsedHeader(size) \in HeaderRecords /\ FreeHeader(size) \in HeaderRecords
         /\ UsedHeader(size).in_use /\ UsedHeader(size).block_size = size
         /\ ~FreeHeader(size).in_use /\ FreeHeader(size).block_size = size
BY DEF UsedHeader, FreeHeader, Header, HeaderRecords

\* The unused blocks can be counted, and their sizes be summed up.
LEMMA FreeIsCounted ==
  ASSUME NEW h, AreHeaders(h)
  PROVE  /\ IsFiniteSet(FreeIn(h)) /\ Cardinality(FreeIn(h)) \in Nat
         /\ SummedUp(h, FreeIn(h)) \in Nat
<1>1. IsFiniteSet(DOMAIN h) /\ FreeIn(h) \in SUBSET DOMAIN h
  BY DEF AreHeaders, FreeIn
<1>2. IsFiniteSet(FreeIn(h))
  BY <1>1, FS_Subset
<1>3. SizesAreNumbers(h, FreeIn(h))
  BY <1>1 DEF AreHeaders, HeaderRecords, SizesAreNumbers
<1> QED
  BY <1>2, <1>3, SumIsNumber, FS_CardinalityType

HasOneMore(g, h, at, r) ==
  /\ AreHeaders(g) /\ DOMAIN g = DOMAIN h \cup {at}
  /\ SummedUp(g, DOMAIN g) = SummedUp(h, DOMAIN h) + r.block_size
  /\ SummedUp(g, FreeIn(g)) = SummedUp(h, FreeIn(h)) + (IF r.in_use THEN 0 ELSE r.block_size)
  /\ Cardinality(DOMAIN g) = Cardinality(DOMAIN h) + 1
  /\ Cardinality(FreeIn(g)) = Cardinality(FreeIn(h)) + (IF r.in_use THEN 0 ELSE 1)

\* One block more: what it adds to the sums and the numbers.
LEMMA BlockAdded ==
  ASSUME NEW h, AreHeaders(h), NEW at, at \notin DOMAIN h, NEW r \in HeaderRecords,
         NEW g, g = NewHeader(h, at, r)
  PROVE  HasOneMore(g, h, at, r)
<1> DEFINE D == DOMAIN h
           F == FreeIn(h)
<1>1. /\ DOMAIN g = D \cup {at} /\ g[at] = r
      /\ \A o \in D : g[o] = h[o]
  BY DEF NewHeader
<1>2. g = [o \in DOMAIN g |-> g[o]]
  BY DEF NewHeader
<1>3. IsFiniteSet(D) /\ h \in [D -> HeaderRecords] /\ F \in SUBSET D
  BY DEF AreHeaders, FreeIn
<1>4. IsFiniteSet(F)
  BY <1>3, FS_Subset
<1>5. r.block_size \in Nat /\ r.in_use \in BOOLEAN
  BY DEF HeaderRecords
<1>6. \A o \in DOMAIN g : g[o] \in HeaderRecords
  BY <1>1, <1>3, <1>5
<1>7. AreHeaders(g)
  BY <1>1, <1>2, <1>3, <1>6, FS_AddElement DEF AreHeaders
<1>8. FreeIn(g) = IF r.in_use THEN F ELSE F \cup {at}
  BY <1>1, <1>5 DEF FreeIn
<1>9. /\ SizesAreNumbers(h, D) /\ SizesAreNumbers(h, F)
      /\ SizesAreNumbers(g, D) /\ SizesAreNumbers(g, F)
      /\ g[at].block_size = r.block_size /\ at \notin F /\ at \notin D
      /\ (\A o \in D : g[o].block_size = h[o].block_size)
      /\ \A o \in F : g[o].block_size = h[o].block_size
  BY <1>1, <1>3, <1>5 DEF SizesAreNumbers, HeaderRecords
<1> HIDE DEF D, F
<1>10. SummedUp(g, D) = SummedUp(h, D) /\ SummedUp(g, F) = SummedUp(h, F)
  BY <1>3, <1>4, <1>9, SumIsSame
<1>11. SummedUp(g, D \cup {at}) = SummedUp(h, D) + r.block_size
  BY <1>3, <1>5, <1>9, <1>10, SumOfOneMore
<1>12. SummedUp(g, F \cup {at}) = SummedUp(h, F) + r.block_size
  BY <1>4, <1>5, <1>9, <1>10, SumOfOneMore
<1>13. SummedUp(h, F) \in Nat
  BY <1>4, <1>9, SumIsNumber
<1>14. Cardinality(F) \in Nat /\ Cardinality(F \cup {at}) = Cardinality(F) + 1
  BY <1>4, <1>9, FS_AddElement, FS_CardinalityType
<1>15. Cardinality(D \cup {at}) = Cardinality(D) + 1
  BY <1>3, <1>9, FS_AddElement
<1>16. SummedUp(g, FreeIn(g)) = SummedUp(h, F) + (IF r.in_use THEN 0 ELSE r.block_size)
  <2>1. CASE r.in_use
    BY <1>8, <1>10, <1>13, <2>1
  <2>2. CASE ~r.in_use
    <3>1. FreeIn(g) = F \cup {at}
      BY <1>8, <2>2
    <3> QED
      BY <1>12, <2>2, <3>1
  <2> QED
    BY <2>1, <2>2
<1>17. Cardinality(FreeIn(g)) = Cardinality(F) + (IF r.in_use THEN 0 ELSE 1)
  BY <1>8, <1>14
<1> QED
  BY <1>1, <1>7, <1>11, <1>15, <1>16, <1>17 DEF D, F, HasOneMore

HasChanged(g, h, at, r) ==
  /\ AreHeaders(g) /\ DOMAIN g = DOMAIN h
  /\ SummedUp(g, DOMAIN g) = SummedUp(h, DOMAIN h) - h[at].block_size + r.block_size
  /\ SummedUp(g, FreeIn(g)) =
       SummedUp(h, FreeIn(h)) - (IF h[at].in_use THEN 0 ELSE h[at].block_size)
                              + (IF r.in_use THEN 0 ELSE r.block_size)
  /\ Cardinality(DOMAIN g) = Cardinality(DOMAIN h)
  /\ Cardinality(FreeIn(g)) =
       Cardinality(FreeIn(h)) - (IF h[at].in_use THEN 0 ELSE 1) + (IF r.in_use THEN 0 ELSE 1)

\* One block changed.
LEMMA BlockChanged ==
  ASSUME NEW h, AreHeaders(h), NEW at \in DOMAIN h, NEW r \in HeaderRecords,
         NEW g, g = NewHeader(h, at, r)
  PROVE  HasChanged(g, h, at, r)
<1> DEFINE others == [o \in DOMAIN h \ {at} |-> h[o]]
           was == h[at]
<1>1. was \in HeaderRecords
  BY DEF AreHeaders
<1>2. was.in_use \in BOOLEAN /\ was.block_size \in Nat /\ r.block_size \in Nat
  BY <1>1 DEF HeaderRecords
<1>3. DOMAIN others = DOMAIN h \ {at} /\ at \notin DOMAIN others
  OBVIOUS
<1>4. AreHeaders(others)
  BY FS_RemoveElement DEF AreHeaders
<1>5. h = [o \in DOMAIN h |-> h[o]]
  BY DEF AreHeaders
<1>6. h = NewHeader(others, at, was)
  <2>1. DOMAIN others \cup {at} = DOMAIN h
    OBVIOUS
  <2>2. \A o \in DOMAIN h : h[o] = IF o = at THEN was ELSE others[o]
    OBVIOUS
  <2> HIDE DEF others
  <2> QED
    BY <1>5, <2>1, <2>2 DEF NewHeader
<1>7. g = NewHeader(others, at, r)
  BY DEF NewHeader
<1>8. Cardinality(FreeIn(others)) \in Nat /\ SummedUp(others, FreeIn(others)) \in Nat
      /\ Cardinality(DOMAIN others) \in Nat /\ SummedUp(others, DOMAIN others) \in Nat
  <2>1. FreeIn(others) \in SUBSET DOMAIN others /\ IsFiniteSet(DOMAIN others)
    BY <1>4 DEF AreHeaders, FreeIn
  <2>2. IsFiniteSet(FreeIn(others))
    BY <2>1, FS_Subset
  <2>3. SizesAreNumbers(others, DOMAIN others) /\ SizesAreNumbers(others, FreeIn(others))
    BY <1>4, <2>1 DEF SizesAreNumbers, AreHeaders, HeaderRecords
  <2> HIDE DEF others
  <2> QED
    BY <2>1, <2>2, <2>3, SumIsNumber, FS_CardinalityType
<1> HIDE DEF others, was
<1>9. /\ SummedUp(h, DOMAIN h) = SummedUp(others, DOMAIN others) + was.block_size
      /\ SummedUp(h, FreeIn(h)) =
           SummedUp(others, FreeIn(others)) + (IF was.in_use THEN 0 ELSE was.block_size)
      /\ Cardinality(DOMAIN h) = Cardinality(DOMAIN others) + 1
      /\ Cardinality(FreeIn(h)) = Cardinality(FreeIn(others)) + (IF was.in_use THEN 0 ELSE 1)
  <2>1. HasOneMore(h, others, at, was)
    BY <1>1, <1>3, <1>4, <1>6, BlockAdded
  <2> QED
    BY <2>1 DEF HasOneMore
<1>10. /\ AreHeaders(g) /\ DOMAIN g = DOMAIN others \cup {at}
       /\ SummedUp(g, DOMAIN g) = SummedUp(others, DOMAIN others) + r.block_size
       /\ SummedUp(g, FreeIn(g)) = SummedUp(others, FreeIn(others)) + (IF r.in_use THEN 0 ELSE r.block_size)
       /\ Cardinality(DOMAIN g) = Cardinality(DOMAIN others) + 1
       /\ Cardinality(FreeIn(g)) = Cardinality(FreeIn(others)) + (IF r.in_use THEN 0 ELSE 1)
  <2>1. HasOneMore(g, others, at, r)
    BY <1>3, <1>4, <1>7, BlockAdded
  <2> QED
    BY <2>1 DEF HasOneMore
<1>11. SummedUp(g, DOMAIN g) = SummedUp(h, DOMAIN h) - was.block_size + r.block_size
  BY <1>2, <1>8, <1>9, <1>10
<1>12. SummedUp(g, FreeIn(g)) =
         SummedUp(h, FreeIn(h)) - (IF was.in_use THEN 0 ELSE was.block_size)
                                + (IF r.in_use THEN 0 ELSE r.block_size)
  BY <1>2, <1>8, <1>9, <1>10
<1>13. Cardinality(FreeIn(g)) =
         Cardinality(FreeIn(h)) - (IF was.in_use THEN 0 ELSE 1) + (IF r.in_use THEN 0 ELSE 1)
  BY <1>2, <1>8, <1>9, <1>10
<1>14. DOMAIN g = DOMAIN h
  BY DEF NewHeader
<1> QED
  BY <1>9, <1>10, <1>11, <1>12, <1>13, <1>14 DEF was, HasChanged

-----------------------------------------------------------------------------
(* The blocks lie one behind the other.                                    *)

\* Each block ends where the next one begins or where the memory in use ends, the first begins
\* at 0, and no two have a byte in common.
Tiles(h, end) ==
  /\ \A at \in DOMAIN h :
       /\ at \in Nat /\ at < end /\ h[at].block_size >= HeaderSize
       /\ at + h[at].block_size \in DOMAIN h \cup {end}
  /\ 0 \in DOMAIN h \cup {end}
  /\ \A at, other \in DOMAIN h : at < other => at + h[at].block_size <= other

\* Walk, of any headers.
WalkOver(h, end) ==
  LET blocks[at \in Nat] ==
        IF at >= end \/ at \notin DOMAIN h THEN {}
        ELSE {at} \cup blocks[at + h[at].block_size]
  IN blocks[0]

\* What is aligned is a number, and not less than a byte.
LEMMA AlignedIsANumber ==
  ASSUME NEW bytes \in Nat
  PROVE  AlignedSize(bytes) \in Nat /\ (bytes > 0 => AlignedSize(bytes) > 0)
BY HeapAssumption DEF AlignedSize

\* A header takes at least a byte, and a block at least its header.
LEMMA SizesArePositive ==
  /\ HeaderSize \in Nat /\ HeaderSize > 0
  /\ MinimumSizeForSplit \in Nat /\ MinimumSizeForSplit >= HeaderSize
  /\ \A bytes \in Nat : BlockSize(bytes) \in Nat /\ BlockSize(bytes) >= HeaderSize
<1>1. HeaderBytes \in Nat /\ HeaderBytes > 0 /\ CounterBytes \in Nat
  BY HeapAssumption
<1>2. AlignedSize(HeaderBytes) \in Nat /\ AlignedSize(HeaderBytes) > 0
      /\ AlignedSize(CounterBytes) \in Nat
  BY <1>1, AlignedIsANumber
<1>3. \A bytes \in Nat : AlignedSize(bytes) \in Nat
  BY AlignedIsANumber
<1> QED
  BY <1>2, <1>3 DEF HeaderSize, MinimumSizeForSplit, BlockSize

\* The walk from header to header meets all of them.
LEMMA WalkMeetsAll ==
  ASSUME NEW h, NEW end \in Nat, AreHeaders(h), Tiles(h, end)
  PROVE  WalkOver(h, end) = DOMAIN h
<1> DEFINE IsWalk(f) ==
             f = [at \in Nat |->
                    IF at >= end \/ at \notin DOMAIN h THEN {}
                    ELSE {at} \cup f[at + h[at].block_size]]
           From(at) == {o \in DOMAIN h : o >= at}
           walk == [at \in Nat |-> IF at >= end \/ at \notin DOMAIN h THEN {} ELSE From(at)]
           blocks == CHOOSE f : IsWalk(f)
           S == {n \in Nat : \A at \in DOMAIN h \cup {end} : end - at <= n => blocks[at] = From(at)}
<1>1. /\ HeaderSize \in Nat /\ HeaderSize > 0
      /\ \A at \in DOMAIN h : h[at].block_size \in Nat
  BY SizesArePositive DEF AreHeaders, HeaderRecords
<1>2. ASSUME NEW at \in DOMAIN h
      PROVE  /\ at \in Nat /\ at < end /\ at + h[at].block_size \in Nat
             /\ at + h[at].block_size \in DOMAIN h \cup {end} /\ h[at].block_size > 0
             /\ From(at) = {at} \cup From(at + h[at].block_size)
  <2> DEFINE next == at + h[at].block_size
  <2>1. at \in Nat /\ h[at].block_size \in Nat /\ h[at].block_size > 0 /\ at < end
    BY <1>1, <1>2, SMTT(60) DEF Tiles
  <2>2. next \in Nat /\ at < next
    BY <2>1
  <2>3. next \in DOMAIN h \cup {end}
    BY <1>2, SMTT(60) DEF Tiles
  <2>4. \A o \in DOMAIN h : o \in Nat /\ (o <= at \/ o >= next)
    BY <1>1, <1>2, <2>1, SMTT(60) DEF Tiles
  <2> HIDE DEF next
  <2>5. From(at) = {at} \cup From(next)
    BY <1>2, <2>1, <2>2, <2>4, SMTT(60)
  <2> QED
    BY <2>1, <2>2, <2>3, <2>5 DEF next
<1>3. From(end) = {}
  <2>1. \A o \in DOMAIN h : o \in Nat /\ o < end
    BY DEF Tiles
  <2> QED
    BY <2>1
<1>4. IsWalk(walk)
  <2> DEFINE right == [at \in Nat |->
                         IF at >= end \/ at \notin DOMAIN h THEN {}
                         ELSE {at} \cup walk[at + h[at].block_size]]
  <2>1. ASSUME NEW at \in Nat PROVE walk[at] = right[at]
    <3>1. CASE at >= end \/ at \notin DOMAIN h
      BY <3>1
    <3>2. CASE at < end /\ at \in DOMAIN h
      <4> DEFINE next == at + h[at].block_size
      <4>1. next \in Nat /\ next \in DOMAIN h \cup {end} /\ From(at) = {at} \cup From(next)
        BY <1>2, <3>2
      <4>2. walk[next] = From(next)
        <5>1. CASE next \in DOMAIN h
          BY <1>2, <4>1, <5>1
        <5>2. CASE next = end
          BY <1>3, <4>1, <5>2
        <5> QED
          BY <4>1, <5>1, <5>2
      <4>3. walk[at] = From(at) /\ right[at] = {at} \cup walk[next]
        BY <3>2
      <4> QED
        BY <4>1, <4>2, <4>3
    <3> QED
      BY <3>1, <3>2
  <2>2. walk = [at \in Nat |-> walk[at]] /\ right = [at \in Nat |-> right[at]]
    OBVIOUS
  <2>3. walk = right
    <3> HIDE DEF walk, right
    <3> QED
      BY <2>1, <2>2
  <2> QED
    BY <2>3
<1> HIDE DEF From
<1>5. IsWalk(blocks)
  <2> HIDE DEF IsWalk, walk
  <2> QED
    BY <1>4
<1>6. \A at \in Nat : blocks[at] = IF at >= end \/ at \notin DOMAIN h THEN {}
                                   ELSE {at} \cup blocks[at + h[at].block_size]
  <2> HIDE DEF blocks
  <2> QED
    BY <1>5
<1> HIDE DEF blocks
<1>7. blocks[end] = From(end)
  <2>1. \A at \in Nat : at >= end => blocks[at] = {}
    BY <1>6
  <2>2. end >= end
    OBVIOUS
  <2> QED
    BY <1>3, <2>1, <2>2
<1>8. 0 \in S
  <2>1. ASSUME NEW at \in DOMAIN h \cup {end}, end - at <= 0 PROVE blocks[at] = From(at)
    <3>1. at = end
      <4>1. at \in DOMAIN h => at \in Nat /\ at < end
        BY <1>2
      <4> QED
        BY <2>1, <4>1
    <3> QED
      BY <1>7, <3>1
  <2> QED
    BY <2>1
<1>9. ASSUME NEW n \in Nat, n \in S PROVE n + 1 \in S
  <2>1. ASSUME NEW at \in DOMAIN h \cup {end}, end - at <= n + 1 PROVE blocks[at] = From(at)
    <3>1. CASE at = end
      BY <1>7, <3>1
    <3>2. CASE at \in DOMAIN h
      <4> DEFINE next == at + h[at].block_size
      <4>1. /\ at \in Nat /\ at < end /\ next \in Nat /\ next \in DOMAIN h \cup {end}
            /\ From(at) = {at} \cup From(next) /\ next > at
        BY <1>1, <1>2, <3>2
      <4>2. end - next <= n
        <5> HIDE DEF next
        <5> QED
          BY <2>1, <4>1
      <4>3. blocks[next] = From(next)
        BY <1>9, <4>1, <4>2
      <4>4. blocks[at] = {at} \cup blocks[next]
        <5>1. at \in Nat /\ ~(at >= end) /\ at \in DOMAIN h
          BY <3>2, <4>1
        <5> QED
          BY <1>6, <5>1
      <4> QED
        BY <4>1, <4>3, <4>4
    <3> QED
      BY <3>1, <3>2
  <2> QED
    BY <2>1
<1>10. Nat \subseteq S
  <2> HIDE DEF S
  <2> QED
    BY <1>8, <1>9, EveryNatural
<1>11. blocks[0] = From(0)
  <2>1. 0 \in DOMAIN h \cup {end} /\ end - 0 <= end /\ end \in S
    BY <1>10 DEF Tiles
  <2> QED
    BY <2>1
<1>12. From(0) = DOMAIN h
  BY <1>2 DEF From
<1>13. WalkOver(h, end) = blocks[0]
  BY DEF WalkOver, blocks
<1> QED
  BY <1>11, <1>12, <1>13

\* A header written where nothing is yet, or into a block that it belongs to, overwrites no other.
LEMMA WrittenAtEnd ==
  ASSUME NEW h, NEW end \in Nat, AreHeaders(h), Tiles(h, end), NEW size \in Nat, size >= HeaderSize,
         NEW g, g = UsedWritten(h, end, size)
  PROVE  g = NewHeader(h, end, UsedHeader(size)) /\ Tiles(g, end + size) /\ end \notin DOMAIN h
<1>1. HeaderSize \in Nat /\ HeaderSize > 0
  BY SizesArePositive
<1>2. \A at \in DOMAIN h : h[at].block_size \in Nat
  BY DEF AreHeaders, HeaderRecords
<1>3. ASSUME NEW o \in DOMAIN h
      PROVE  o \in Nat /\ o < end /\ o <= end - HeaderSize /\ o + h[o].block_size <= end
  BY <1>1, <1>2 DEF Tiles
<1> DEFINE Below(o) == o \in Nat /\ o < end
<1>3a. \A o \in DOMAIN h : Below(o)
  BY <1>3
<1>4. {o \in DOMAIN h : o <= end - HeaderSize \/ o >= end + size} = DOMAIN h
  BY <1>3
<1>5. g = NewHeader(h, end, UsedHeader(size))
  BY <1>4 DEF UsedWritten, WriteHeader, NewHeader, UsedHeader
<1>6. end \notin DOMAIN h
  BY <1>3
<1>7. /\ DOMAIN g = DOMAIN h \cup {end} /\ g[end].block_size = size
      /\ \A o \in DOMAIN h : g[o] = h[o]
  <2> DEFINE used == UsedHeader(size)
  <2>1. used.block_size = size
    BY HeaderHolds
  <2>2. g = NewHeader(h, end, used)
    BY <1>5
  <2> HIDE DEF used
  <2>3. DOMAIN g = DOMAIN h \cup {end} /\ g[end] = used /\ \A o \in DOMAIN h : o # end => g[o] = h[o]
    BY <2>2 DEF NewHeader
  <2> QED
    BY <1>6, <2>1, <2>3
<1>8. Tiles(g, end + size)
  <2>1. ASSUME NEW at \in DOMAIN g
        PROVE  /\ at \in Nat /\ at < end + size /\ g[at].block_size >= HeaderSize
               /\ at + g[at].block_size \in DOMAIN g \cup {end + size}
    <3>1. CASE at = end
      BY <1>1, <1>7, <3>1
    <3>2. CASE at \in DOMAIN h
      <4>1. at + h[at].block_size \in DOMAIN h \cup {end} /\ h[at].block_size >= HeaderSize
        BY <3>2 DEF Tiles
      <4>2. at \in Nat /\ at < end /\ g[at] = h[at]
        BY <1>3, <1>7, <3>2
      <4>3. at < end + size
        BY <4>2
      <4> QED
        BY <1>7, <4>1, <4>2, <4>3
    <3> QED
      BY <1>7, <3>1, <3>2
  <2>2. 0 \in DOMAIN g \cup {end + size}
    BY <1>7 DEF Tiles
  <2>3. ASSUME NEW at \in DOMAIN g, NEW other \in DOMAIN g, at < other
        PROVE  at + g[at].block_size <= other
    <3>1. at \in DOMAIN h
      <4>1. at \in DOMAIN h \cup {end} /\ other \in DOMAIN h \cup {end}
        BY <1>7
      <4>2. at # end
        BY <1>3a, <2>3, <4>1
      <4> QED
        BY <4>1, <4>2
    <3>2. at + h[at].block_size <= end /\ g[at] = h[at]
      BY <1>3, <1>7, <3>1
    <3>3. CASE other = end
      BY <3>2, <3>3
    <3>4. CASE other \in DOMAIN h
      BY <2>3, <3>1, <3>2, <3>4 DEF Tiles
    <3> QED
      BY <1>7, <3>3, <3>4
  <2> QED
    BY <2>1, <2>2, <2>3 DEF Tiles
<1> QED
  BY <1>5, <1>6, <1>8

\* A header that keeps the size of its block leaves the row of blocks as it is.
LEMMA WrittenWhole ==
  ASSUME NEW h, NEW end \in Nat, AreHeaders(h), Tiles(h, end), NEW at \in DOMAIN h,
         NEW r, r.block_size = h[at].block_size,
         NEW g, g = NewHeader(h, at, r)
  PROVE  Tiles(g, end)
<1>1. DOMAIN g = DOMAIN h /\ \A o \in DOMAIN h : g[o].block_size = h[o].block_size
  BY DEF NewHeader
<1> QED
  BY <1>1 DEF Tiles

\* A block that is given away whole has its header rewritten and nothing else.
LEMMA TakenWhole ==
  ASSUME NEW h, NEW end \in Nat, AreHeaders(h), Tiles(h, end), NEW at \in DOMAIN h
  PROVE  UsedWritten(h, at, h[at].block_size) = NewHeader(h, at, UsedHeader(h[at].block_size))
<1> DEFINE kept == {o \in DOMAIN h : o <= at - HeaderSize \/ o >= at + h[at].block_size}
<1>1. HeaderSize \in Nat /\ HeaderSize > 0
  BY SizesArePositive
<1>2. \A o \in DOMAIN h : h[o].block_size \in Nat
  BY DEF AreHeaders, HeaderRecords
<1>3. ASSUME NEW o \in DOMAIN h, o # at PROVE o \in kept
  <2>1. /\ o \in Nat /\ at \in Nat /\ h[o].block_size >= HeaderSize
        /\ (o < at => o + h[o].block_size <= at) /\ (at < o => at + h[at].block_size <= o)
    BY DEF Tiles
  <2> QED
    BY <1>1, <1>2, <1>3, <2>1
<1>4. at \notin kept
  <2>1. at \in Nat /\ h[at].block_size >= HeaderSize
    BY DEF Tiles
  <2> QED
    BY <1>1, <1>2, <2>1
<1>5. kept \cup {at} = DOMAIN h \cup {at}
  BY <1>3
<1>6. UsedWritten(h, at, h[at].block_size) =
        [o \in kept \cup {at} |-> IF o = at THEN UsedHeader(h[at].block_size) ELSE h[o]]
  BY DEF UsedWritten, WriteHeader, UsedHeader
<1> HIDE DEF kept
<1> QED
  BY <1>5, <1>6 DEF NewHeader

\* A block that is split becomes two that fill the same place.
LEMMA TakenInPart ==
  ASSUME NEW h, NEW end \in Nat, AreHeaders(h), Tiles(h, end), NEW at \in DOMAIN h,
         NEW size \in Nat, size >= HeaderSize, WorthSplitting(h[at].block_size, size),
         NEW g, g = NewHeader(h, at, UsedHeader(size)),
         NEW split, split = FreeWritten(h, at + size, h[at].block_size - size),
         NEW f, f = UsedWritten(split, at, size)
  PROVE  /\ f = NewHeader(g, at + size, FreeHeader(h[at].block_size - size))
         /\ Tiles(f, end) /\ at + size \notin DOMAIN h
<1> DEFINE rest == at + size
           left == h[at].block_size - size
<1>1. HeaderSize \in Nat /\ HeaderSize > 0 /\ MinimumSizeForSplit >= HeaderSize
      /\ MinimumSizeForSplit \in Nat
  BY SizesArePositive
<1>2. \A o \in DOMAIN h : h[o].block_size \in Nat
  BY DEF AreHeaders, HeaderRecords
<1>3. left \in Nat /\ left >= HeaderSize /\ at \in Nat /\ rest \in Nat /\ rest > at
      /\ rest + left = at + h[at].block_size
  BY <1>1, <1>2 DEF WorthSplitting, Tiles
<1>4. ASSUME NEW o \in DOMAIN h, o # at
      PROVE  /\ o \in Nat
             /\ (o < at /\ o + h[o].block_size <= at /\ o <= at - HeaderSize) \/ o >= rest + left
  <2>1. /\ o \in Nat /\ at \in Nat /\ h[o].block_size >= HeaderSize
        /\ (o < at => o + h[o].block_size <= at) /\ (at < o => at + h[at].block_size <= o)
    BY DEF Tiles
  <2> QED
    BY <1>1, <1>2, <1>3, <1>4, <2>1
<1> HIDE DEF rest, left
<1>5. split = NewHeader(h, rest, FreeHeader(left))
  <2> DEFINE kept == {o \in DOMAIN h : o <= rest - HeaderSize \/ o >= rest + HeaderSize}
  <2>1. rest = at + size
    BY DEF rest
  <2>2. ASSUME NEW o \in DOMAIN h PROVE o \in kept
    BY <1>1, <1>3, <1>4, <2>1
  <2>3. kept = DOMAIN h
    BY <2>2
  <2>4. split = [o \in kept \cup {rest} |-> IF o = rest THEN FreeHeader(left) ELSE h[o]]
    BY DEF FreeWritten, WriteHeader, FreeHeader, rest, left
  <2> HIDE DEF kept
  <2> QED
    BY <2>3, <2>4 DEF NewHeader
<1>6. rest \notin DOMAIN h
  BY <1>1, <1>3, <1>4
<1>7. DOMAIN split = DOMAIN h \cup {rest}
  BY <1>5 DEF NewHeader
<1>8. f = [o \in DOMAIN h \cup {rest} |-> IF o = at THEN UsedHeader(size) ELSE split[o]]
  <2> DEFINE kept == {o \in DOMAIN split : o <= at - HeaderSize \/ o >= at + size}
  <2>1. rest = at + size
    BY DEF rest
  <2>2. ASSUME NEW o \in DOMAIN split, o # at PROVE o \in kept
    <3>1. CASE o = rest
      BY <1>1, <1>3, <2>1, <3>1
    <3>2. CASE o \in DOMAIN h
      <4>1. o \in Nat /\ (o <= at - HeaderSize \/ o >= rest + left)
        BY <1>4, <2>2, <3>2
      <4>2. rest + left >= at + size
        BY <1>3, <2>1
      <4> QED
        BY <1>1, <1>3, <2>1, <4>1, <4>2
    <3> QED
      BY <1>7, <3>1, <3>2
  <2>3. kept \cup {at} = DOMAIN h \cup {rest}
    BY <1>7, <2>2
  <2>4. f = [o \in kept \cup {at} |-> IF o = at THEN UsedHeader(size) ELSE split[o]]
    BY DEF UsedWritten, WriteHeader, UsedHeader
  <2> HIDE DEF kept
  <2> QED
    BY <2>3, <2>4
<1>9. f = NewHeader(g, rest, FreeHeader(left))
  <2>1. DOMAIN g = DOMAIN h
    BY DEF NewHeader
  <2>2. ASSUME NEW o \in DOMAIN h \cup {rest}
        PROVE  f[o] = IF o = rest THEN FreeHeader(left) ELSE g[o]
    BY <1>3, <1>5, <1>6, <1>8 DEF NewHeader
  <2>3. f = [o \in DOMAIN h \cup {rest} |-> f[o]]
    BY <1>8
  <2> HIDE DEF NewHeader
  <2> QED
    BY <2>1, <2>2, <2>3 DEF NewHeader
<1>10. /\ DOMAIN f = DOMAIN h \cup {rest}
       /\ f[rest].block_size = left /\ f[at].block_size = size
       /\ \A o \in DOMAIN h : o # at => f[o] = h[o]
  <2> DEFINE used == UsedHeader(size)
             free == FreeHeader(left)
  <2>1. used.block_size = size /\ free.block_size = left
    BY <1>3, HeaderHolds
  <2>2. g = NewHeader(h, at, used) /\ f = NewHeader(g, rest, free)
    BY <1>9
  <2>3. at # rest
    BY <1>3
  <2> HIDE DEF used, free
  <2>4. /\ DOMAIN g = DOMAIN h \cup {at} /\ g[at] = used
        /\ \A o \in DOMAIN h : o # at => g[o] = h[o]
    BY <2>2 DEF NewHeader
  <2>5. /\ DOMAIN f = DOMAIN g \cup {rest} /\ f[rest] = free
        /\ \A o \in DOMAIN g : o # rest => f[o] = g[o]
    BY <2>2 DEF NewHeader
  <2> QED
    BY <1>6, <2>1, <2>3, <2>4, <2>5
<1>11. Tiles(f, end)
  <2>1. rest = at + size /\ at + h[at].block_size = rest + left
    BY <1>3 DEF rest
  <2>2. /\ at < end /\ rest + left \in DOMAIN h \cup {end}
        /\ \A o \in DOMAIN h : o \in Nat /\ o < end /\ h[o].block_size >= HeaderSize
                               /\ o + h[o].block_size \in DOMAIN h \cup {end}
    BY <2>1 DEF Tiles
  <2>3. rest < end
    <3>1. rest + left <= end
      <4>1. PICK e \in DOMAIN h \cup {end} : e = rest + left
        BY <2>2
      <4>2. e = end \/ (e \in Nat /\ e < end)
        BY <2>2, <4>1
      <4> QED
        BY <4>1, <4>2
    <3> QED
      BY <1>1, <1>3, <3>1
  <2>4. ASSUME NEW o \in DOMAIN f
        PROVE  /\ o \in Nat /\ o < end /\ f[o].block_size >= HeaderSize
               /\ o + f[o].block_size \in DOMAIN f \cup {end}
    <3>1. CASE o = at
      BY <1>10, <2>1, <2>2, <3>1
    <3>2. CASE o = rest
      BY <1>3, <1>10, <2>2, <2>3, <3>2
    <3>3. CASE o \in DOMAIN h /\ o # at
      BY <1>10, <2>2, <3>3
    <3> QED
      BY <1>10, <3>1, <3>2, <3>3
  <2>5. 0 \in DOMAIN f \cup {end}
    BY <1>10 DEF Tiles
  <2>6. ASSUME NEW o \in DOMAIN f, NEW other \in DOMAIN f, o < other
        PROVE  o + f[o].block_size <= other
    <3>1. CASE o = at
      <4>1. CASE other = rest
        BY <1>3, <1>10, <2>1, <3>1, <4>1
      <4>2. CASE other \in DOMAIN h
        <5>1. other \in Nat /\ other >= rest + left
          BY <1>3, <1>4, <2>6, <3>1, <4>2
        <5>2. rest <= other
          BY <1>3, <5>1
        <5> QED
          BY <1>10, <2>1, <3>1, <5>2
      <4> QED
        BY <1>10, <4>1, <4>2
    <3>2. CASE o = rest
      <4>1. other \in DOMAIN h /\ other # at
        BY <1>3, <1>10, <2>6, <3>2
      <4>2. other \in Nat /\ (other < at \/ other >= rest + left)
        BY <1>4, <4>1
      <4>3. other >= rest + left
        BY <1>3, <2>6, <3>2, <4>2
      <4> QED
        BY <1>3, <1>10, <3>2, <4>2, <4>3
    <3>3. CASE o \in DOMAIN h /\ o # at
      <4>1. CASE other \in DOMAIN h
        BY <1>10, <2>6, <3>3, <4>1 DEF Tiles
      <4>2. CASE other = rest
        <5>1. o \in Nat /\ ((o < at /\ o + h[o].block_size <= at) \/ o >= rest + left)
          BY <1>4, <3>3
        <5>2. o + h[o].block_size <= at
          BY <1>3, <2>6, <4>2, <5>1
        <5>3. h[o].block_size \in Nat /\ f[o] = h[o]
          BY <1>2, <1>10, <3>3
        <5> QED
          BY <1>3, <4>2, <5>1, <5>2, <5>3
      <4> QED
        BY <1>10, <4>1, <4>2
    <3> QED
      BY <1>10, <3>1, <3>2, <3>3
  <2> QED
    BY <2>4, <2>5, <2>6 DEF Tiles
<1> QED
  BY <1>6, <1>9, <1>11 DEF rest, left

-----------------------------------------------------------------------------
(* The heap is what its headers and its counters say.                      *)

BlocksLie ==
  /\ AreHeaders(headers)
  /\ bytes_allocated \in Nat /\ bytes_allocated <= MaxSize
  /\ Tiles(headers, bytes_allocated)

BlocksCounted ==
  /\ SummedUp(headers, DOMAIN headers) = bytes_allocated
  /\ blocks_allocated = Cardinality(DOMAIN headers)
  /\ blocks_allocated_but_unused = Cardinality(FreeIn(headers))
  /\ bytes_allocated_but_unused \in Int
  /\ bytes_allocated_but_unused >= SummedUp(headers, FreeIn(headers))

BlocksHandedOut ==
  /\ handed_out \in [DOMAIN headers \ FreeIn(headers) -> Nat]
  /\ \A at \in DOMAIN handed_out : headers[at].block_size >= BlockSize(handed_out[at])

HeapInv == BlocksLie /\ BlocksCounted /\ BlocksHandedOut

\* The walk and the unused blocks it meets.
LEMMA WalkIsHeaders ==
  ASSUME BlocksLie
  PROVE  Walk = DOMAIN headers /\ Unused = FreeIn(headers)
<1>1. Walk = WalkOver(headers, bytes_allocated)
  BY DEF Walk, WalkOver
<1>2. Walk = DOMAIN headers
  BY <1>1, WalkMeetsAll DEF BlocksLie
<1> QED
  BY <1>2 DEF Unused, FreeIn

\* The invariant implies what the runs check.
LEMMA InvariantIsSound ==
  ASSUME HeapInv
  PROVE  HeapIsSound
<1>1. Walk = DOMAIN headers /\ Unused = FreeIn(headers)
  BY WalkIsHeaders DEF HeapInv
<1>2. SizeOf(Walk) = SummedUp(headers, Walk) /\ SizeOf(Unused) = SummedUp(headers, Unused)
  BY DEF SizeOf, MapThenSumSet, MapThenFoldSet, SummedUp
<1>3. SummedUp(headers, FreeIn(headers)) \in Nat
  BY FreeIsCounted DEF HeapInv, BlocksLie
<1>4. BlocksTile
  <2>1. SizeOf(Walk) = bytes_allocated /\ bytes_allocated <= MaxSize
    BY <1>1, <1>2 DEF HeapInv, BlocksLie, BlocksCounted
  <2>2. Walk \ Unused = DOMAIN handed_out
    BY <1>1 DEF HeapInv, BlocksHandedOut
  <2> QED
    BY <2>1, <2>2 DEF BlocksTile, HeapInv, BlocksHandedOut
<1>5. BlocksAreCounted
  <2>1. Surplus >= 0
    BY <1>1, <1>2, <1>3 DEF Surplus, HeapInv, BlocksCounted
  <2> QED
    BY <1>1, <2>1 DEF BlocksAreCounted, HeapInv, BlocksCounted
<1> QED
  BY <1>4, <1>5 DEF HeapIsSound

\* A heap that nothing was taken from yet.
LEMMA HeapBegins ==
  ASSUME HeapInit
  PROVE  HeapInv
<1>1. DOMAIN headers = {} /\ DOMAIN handed_out = {} /\ FreeIn(headers) = {}
      /\ headers \in [{} -> HeaderRecords] /\ handed_out \in [{} -> Nat]
  BY DEF HeapInit, EmptyFunction, FreeIn
<1>2. SummedUp(headers, {}) = 0 /\ Cardinality({}) = 0 /\ IsFiniteSet({})
  <2>1. IsFiniteSet({}) /\ SizesAreNumbers(headers, {}) /\ BytesOf(headers, {}) = {}
    BY FS_EmptySet DEF SizesAreNumbers, BytesOf
  <2> QED
    BY <2>1, FS_EmptySet, SumIsBytes
<1>3. BlocksLie
  BY <1>1, <1>2, HeapAssumption DEF HeapInit, BlocksLie, AreHeaders, Tiles
<1>4. BlocksCounted
  BY <1>1, <1>2 DEF HeapInit, BlocksCounted
<1>5. BlocksHandedOut
  BY <1>1 DEF BlocksHandedOut
<1> QED
  BY <1>3, <1>4, <1>5 DEF HeapInv

\* One block more is handed out.
LEMMA HandingOut ==
  ASSUME NEW at, NEW bytes \in Nat, HandOut(at, bytes), NEW D, handed_out \in [D -> Nat]
  PROVE  /\ handed_out' \in [D \cup {at} -> Nat] /\ handed_out'[at] = bytes
         /\ \A o \in D : o # at => handed_out'[o] = handed_out[o]
BY DEF HandOut

\* What is asked for takes at least a header.
LEMMA RequestsAreNumbers ==
  ASSUME NEW bytes \in RequestSizes
  PROVE  bytes \in Nat /\ BlockSize(bytes) \in Nat /\ BlockSize(bytes) >= HeaderSize
BY HeapAssumption, SizesArePositive

\* A block from the end of the memory in use.
LEMMA TakingFromEnd ==
  ASSUME HeapInv, NEW bytes \in RequestSizes, TakeFromEnd(bytes)
  PROVE  HeapInv'
<1> DEFINE size == BlockSize(bytes)
           end == bytes_allocated
           used == UsedHeader(size)
<1>1. bytes \in Nat /\ size \in Nat /\ size >= HeaderSize
  BY RequestsAreNumbers
<1>2. AreHeaders(headers) /\ end \in Nat /\ Tiles(headers, end)
  BY DEF HeapInv, BlocksLie
<1>3. /\ headers' = UsedWritten(headers, end, size)
      /\ bytes_allocated' = end + size /\ blocks_allocated' = blocks_allocated + 1
      /\ bytes_allocated_but_unused' = bytes_allocated_but_unused
      /\ blocks_allocated_but_unused' = blocks_allocated_but_unused
      /\ HandOut(end, bytes) /\ end + size <= MaxSize
  BY <1>1, <1>2, HeapAssumption DEF TakeFromEnd, UsedWritten, Exhausted
<1>4. used \in HeaderRecords /\ used.in_use /\ used.block_size = size
  BY <1>1, HeaderHolds
<1> HIDE DEF size, end
<1>5. headers' = NewHeader(headers, end, used) /\ Tiles(headers', end + size) /\ end \notin DOMAIN headers
  BY <1>1, <1>2, <1>3, WrittenAtEnd
<1> HIDE DEF used
<1>6. /\ AreHeaders(headers') /\ DOMAIN headers' = DOMAIN headers \cup {end}
      /\ SummedUp(headers', DOMAIN headers') = SummedUp(headers, DOMAIN headers) + used.block_size
      /\ SummedUp(headers', FreeIn(headers')) =
           SummedUp(headers, FreeIn(headers)) + (IF used.in_use THEN 0 ELSE used.block_size)
      /\ Cardinality(DOMAIN headers') = Cardinality(DOMAIN headers) + 1
      /\ Cardinality(FreeIn(headers')) = Cardinality(FreeIn(headers)) + (IF used.in_use THEN 0 ELSE 1)
  <2>1. HasOneMore(headers', headers, end, used)
    BY <1>2, <1>4, <1>5, BlockAdded
  <2> QED
    BY <2>1 DEF HasOneMore
<1>7. /\ headers'[end] = used /\ \A o \in DOMAIN headers : headers'[o] = headers[o]
  BY <1>5 DEF NewHeader
<1>8. BlocksLie'
  BY <1>1, <1>2, <1>3, <1>5, <1>6 DEF BlocksLie
<1>9. BlocksCounted'
  <2>1. /\ SummedUp(headers, DOMAIN headers) = end /\ blocks_allocated = Cardinality(DOMAIN headers)
        /\ blocks_allocated_but_unused = Cardinality(FreeIn(headers))
        /\ bytes_allocated_but_unused \in Int
        /\ bytes_allocated_but_unused >= SummedUp(headers, FreeIn(headers))
    BY DEF HeapInv, BlocksCounted, end
  <2>2. Cardinality(FreeIn(headers)) \in Nat /\ SummedUp(headers, FreeIn(headers)) \in Nat
    BY <1>2, FreeIsCounted
  <2> QED
    BY <1>3, <1>4, <1>6, <2>1, <2>2 DEF BlocksCounted
<1>10. BlocksHandedOut'
  <2> DEFINE D == DOMAIN headers \ FreeIn(headers)
  <2>1. handed_out \in [D -> Nat]
        /\ \A at \in D : headers[at].block_size >= BlockSize(handed_out[at])
    BY DEF HeapInv, BlocksHandedOut
  <2>2. DOMAIN headers' \ FreeIn(headers') = D \cup {end}
    BY <1>4, <1>5, <1>6, <1>7 DEF FreeIn
  <2> HIDE DEF D
  <2>3. /\ handed_out' \in [D \cup {end} -> Nat] /\ handed_out'[end] = bytes
        /\ \A o \in D : o # end => handed_out'[o] = handed_out[o]
    BY <1>1, <1>3, <2>1, HandingOut
  <2>4. ASSUME NEW at \in D \cup {end} PROVE headers'[at].block_size >= BlockSize(handed_out'[at])
    <3>1. CASE at = end
      BY <1>1, <1>4, <1>7, <2>3, <3>1 DEF size
    <3>2. CASE at \in D /\ at # end
      BY <1>7, <2>1, <2>3, <3>2 DEF D
    <3> QED
      BY <3>1, <3>2
  <2> QED
    BY <2>2, <2>3, <2>4 DEF BlocksHandedOut
<1> QED
  BY <1>8, <1>9, <1>10 DEF HeapInv

\* The search finds an unused block that is large enough, if there is one.
LEMMA BestFitFits ==
  ASSUME BlocksLie, NEW size \in Nat, \E a \in Walk : Fits(a, size)
  PROVE  BestFit(size) \in DOMAIN headers /\ Fits(BestFit(size), size)
<1> DEFINE fitting == {at \in Walk : Fits(at, size)}
           exact == {at \in fitting : headers[at].block_size = size}
           largest == {at \in fitting : \A o \in fitting : headers[o].block_size <= headers[at].block_size}
           sizes == {n \in Nat : \E at \in fitting : n = bytes_allocated - headers[at].block_size}
<1>1. Walk = DOMAIN headers
  BY WalkIsHeaders
<1>2. fitting # {} /\ fitting \in SUBSET Nat
  BY <1>1 DEF BlocksLie, Tiles
<1>3. exact \in SUBSET Nat /\ largest \in SUBSET Nat
  BY <1>2
<1>4. largest # {}
  <2>1. ASSUME NEW at \in fitting
        PROVE  bytes_allocated - headers[at].block_size \in Nat /\ headers[at].block_size \in Nat
    <3>1. /\ at \in Nat /\ headers[at].block_size \in Nat /\ bytes_allocated \in Nat
          /\ at + headers[at].block_size \in DOMAIN headers \cup {bytes_allocated}
          /\ \A o \in DOMAIN headers : o \in Nat /\ o < bytes_allocated
      BY <1>1 DEF BlocksLie, Tiles, AreHeaders, HeaderRecords
    <3>2. at + headers[at].block_size <= bytes_allocated
      BY <3>1
    <3> QED
      BY <3>1, <3>2
  <2>2. sizes \in SUBSET Nat /\ sizes # {}
    BY <1>2, <2>1
  <2>3. Min(sizes) \in sizes /\ \A n \in sizes : Min(sizes) <= n
    <3> HIDE DEF sizes
    <3> QED
      BY <2>2, LeastNumber
  <2>4. PICK at \in fitting : Min(sizes) = bytes_allocated - headers[at].block_size
    BY <2>3
  <2>5. bytes_allocated \in Nat
    BY DEF BlocksLie
  <2>6. ASSUME NEW o \in fitting PROVE headers[o].block_size <= headers[at].block_size
    <3>1. bytes_allocated - headers[o].block_size \in sizes
      BY <2>1
    <3>2. Min(sizes) <= bytes_allocated - headers[o].block_size
      BY <2>3, <3>1
    <3>3. headers[o].block_size \in Nat /\ headers[at].block_size \in Nat
      BY <2>1
    <3> QED
      BY <2>4, <2>5, <3>2, <3>3
  <2> QED
    BY <2>6
<1> HIDE DEF exact, largest
<1>5. (exact # {} => Min(exact) \in exact) /\ Min(largest) \in largest
  BY <1>3, <1>4, LeastNumber
<1>6. BestFit(size) = IF exact # {} THEN Min(exact) ELSE Min(largest)
  BY DEF BestFit, exact, largest
<1>7. BestFit(size) \in fitting
  BY <1>5, <1>6 DEF exact, largest
<1> QED
  BY <1>1, <1>7

\* What is handed out stays so, when one block more is handed out that is large enough.
LEMMA OneMoreHandedOut ==
  ASSUME BlocksHandedOut, NEW at, NEW bytes \in Nat, HandOut(at, bytes),
         DOMAIN headers' \ FreeIn(headers') = (DOMAIN headers \ FreeIn(headers)) \cup {at},
         headers'[at].block_size >= BlockSize(bytes),
         \A o \in DOMAIN headers \ FreeIn(headers) : o # at => headers'[o] = headers[o]
  PROVE  BlocksHandedOut'
<1> DEFINE D == DOMAIN headers \ FreeIn(headers)
<1>1. handed_out \in [D -> Nat]
      /\ \A o \in D : headers[o].block_size >= BlockSize(handed_out[o])
  BY DEF BlocksHandedOut
<1>2. DOMAIN headers' \ FreeIn(headers') = D \cup {at}
      /\ \A o \in D : o # at => headers'[o] = headers[o]
  OBVIOUS
<1> HIDE DEF D
<1>3. /\ handed_out' \in [D \cup {at} -> Nat] /\ handed_out'[at] = bytes
      /\ \A o \in D : o # at => handed_out'[o] = handed_out[o]
  BY <1>1, HandingOut
<1>4. ASSUME NEW o \in D \cup {at} PROVE headers'[o].block_size >= BlockSize(handed_out'[o])
  <2>1. CASE o = at
    BY <1>3, <2>1
  <2>2. CASE o \in D /\ o # at
    BY <1>1, <1>2, <1>3, <2>2
  <2> QED
    BY <2>1, <2>2
<1> QED
  BY <1>2, <1>3, <1>4 DEF BlocksHandedOut

\* An unused block, given away whole.
LEMMA GivingAway ==
  ASSUME HeapInv, NEW bytes \in Nat, NEW at \in DOMAIN headers, NEW size \in Nat,
         size = BlockSize(bytes), Fits(at, size),
         headers' = UsedWritten(headers, at, headers[at].block_size),
         blocks_allocated_but_unused' = blocks_allocated_but_unused - 1,
         blocks_allocated' = blocks_allocated,
         bytes_allocated_but_unused' = bytes_allocated_but_unused - size,
         HandOut(at, bytes), bytes_allocated' = bytes_allocated
  PROVE  HeapInv'
<1> DEFINE block_size == headers[at].block_size
           used == UsedHeader(block_size)
           end == bytes_allocated
<1>1. AreHeaders(headers) /\ end \in Nat /\ end <= MaxSize /\ Tiles(headers, end)
  BY DEF HeapInv, BlocksLie
<1>2. block_size \in Nat /\ block_size >= size /\ ~headers[at].in_use
  BY <1>1 DEF Fits, AreHeaders, HeaderRecords
<1>3. used \in HeaderRecords /\ used.in_use /\ used.block_size = block_size
  BY <1>2, HeaderHolds
<1>4. headers' = NewHeader(headers, at, used)
  BY <1>1, TakenWhole
<1> HIDE DEF used
<1>5. Tiles(headers', end)
  BY <1>1, <1>3, <1>4, WrittenWhole
<1>6. HasChanged(headers', headers, at, used)
  BY <1>1, <1>3, <1>4, BlockChanged
<1>7. headers'[at] = used /\ \A o \in DOMAIN headers : o # at => headers'[o] = headers[o]
  BY <1>4 DEF NewHeader
<1>8. BlocksLie'
  BY <1>1, <1>5, <1>6 DEF BlocksLie, HasChanged
<1>9. BlocksCounted'
  <2>1. /\ SummedUp(headers, DOMAIN headers) = end /\ blocks_allocated = Cardinality(DOMAIN headers)
        /\ blocks_allocated_but_unused = Cardinality(FreeIn(headers))
        /\ bytes_allocated_but_unused \in Int
        /\ bytes_allocated_but_unused >= SummedUp(headers, FreeIn(headers))
    BY DEF HeapInv, BlocksCounted
  <2>2. Cardinality(FreeIn(headers)) \in Nat /\ SummedUp(headers, FreeIn(headers)) \in Nat
    BY <1>1, FreeIsCounted
  <2>3. /\ SummedUp(headers', DOMAIN headers') = SummedUp(headers, DOMAIN headers) - block_size + block_size
        /\ SummedUp(headers', FreeIn(headers')) = SummedUp(headers, FreeIn(headers)) - block_size + 0
        /\ Cardinality(DOMAIN headers') = Cardinality(DOMAIN headers)
        /\ Cardinality(FreeIn(headers')) = Cardinality(FreeIn(headers)) - 1 + 0
    BY <1>2, <1>3, <1>6 DEF HasChanged
  <2> HIDE DEF block_size
  <2> QED
    BY <1>1, <1>2, <2>1, <2>2, <2>3 DEF BlocksCounted
<1>10. BlocksHandedOut'
  <2>1. DOMAIN headers' = DOMAIN headers
    BY <1>6 DEF HasChanged
  <2>2. DOMAIN headers' \ FreeIn(headers') = (DOMAIN headers \ FreeIn(headers)) \cup {at}
    BY <1>2, <1>3, <1>7, <2>1 DEF FreeIn
  <2>3. headers'[at].block_size >= BlockSize(bytes)
    BY <1>2, <1>3, <1>7
  <2>4. BlocksHandedOut
    BY DEF HeapInv
  <2> QED
    BY <1>7, <2>2, <2>3, <2>4, OneMoreHandedOut
<1> QED
  BY <1>8, <1>9, <1>10 DEF HeapInv

\* An unused block, split in two.
LEMMA Splitting ==
  ASSUME HeapInv, NEW bytes \in Nat, NEW at \in DOMAIN headers, NEW size \in Nat,
         size = BlockSize(bytes), size >= HeaderSize, Fits(at, size),
         WorthSplitting(headers[at].block_size, size),
         headers' = UsedWritten(FreeWritten(headers, at + size, headers[at].block_size - size), at, size),
         blocks_allocated_but_unused' = blocks_allocated_but_unused,
         blocks_allocated' = blocks_allocated + 1,
         bytes_allocated_but_unused' = bytes_allocated_but_unused - size,
         HandOut(at, bytes), bytes_allocated' = bytes_allocated
  PROVE  HeapInv'
<1> DEFINE block_size == headers[at].block_size
           left == block_size - size
           rest == at + size
           used == UsedHeader(size)
           free == FreeHeader(left)
           end == bytes_allocated
           g == NewHeader(headers, at, used)
           split == FreeWritten(headers, rest, left)
<1>1. AreHeaders(headers) /\ end \in Nat /\ end <= MaxSize /\ Tiles(headers, end)
  BY DEF HeapInv, BlocksLie
<1>2. block_size \in Nat /\ ~headers[at].in_use /\ left \in Nat
  <2>1. block_size \in Nat /\ block_size >= size /\ ~headers[at].in_use
    BY <1>1 DEF Fits, AreHeaders, HeaderRecords
  <2> HIDE DEF block_size
  <2> QED
    BY <2>1
<1>3. /\ used \in HeaderRecords /\ used.in_use /\ used.block_size = size
      /\ free \in HeaderRecords /\ ~free.in_use /\ free.block_size = left
  <2> HIDE DEF left
  <2> QED
    BY <1>2, HeaderHolds
<1>4. headers' = NewHeader(g, rest, free) /\ Tiles(headers', end) /\ rest \notin DOMAIN headers
  <2>1. headers' = UsedWritten(split, at, size)
    OBVIOUS
  <2> QED
    BY <1>1, <2>1, TakenInPart
<1> HIDE DEF used, free
<1>5. HasChanged(g, headers, at, used)
  BY <1>1, <1>3, BlockChanged
<1>6. AreHeaders(g) /\ rest \notin DOMAIN g
  BY <1>4, <1>5 DEF HasChanged
<1>7. /\ g[at] = used /\ (\A o \in DOMAIN headers : o # at => g[o] = headers[o])
      /\ headers'[rest] = free /\ \A o \in DOMAIN headers : headers'[o] = g[o]
  BY <1>4 DEF NewHeader
<1> HIDE DEF g, rest
<1>8. HasOneMore(headers', g, rest, free)
  BY <1>3, <1>4, <1>6, BlockAdded
<1>9. BlocksLie'
  BY <1>1, <1>4, <1>8 DEF BlocksLie, HasOneMore
<1>10. BlocksCounted'
  <2>1. /\ SummedUp(headers, DOMAIN headers) = end /\ blocks_allocated = Cardinality(DOMAIN headers)
        /\ blocks_allocated_but_unused = Cardinality(FreeIn(headers))
        /\ bytes_allocated_but_unused \in Int
        /\ bytes_allocated_but_unused >= SummedUp(headers, FreeIn(headers))
    BY DEF HeapInv, BlocksCounted
  <2>2. Cardinality(FreeIn(headers)) \in Nat /\ SummedUp(headers, FreeIn(headers)) \in Nat
    BY <1>1, FreeIsCounted
  <2>3. /\ SummedUp(g, DOMAIN g) = SummedUp(headers, DOMAIN headers) - block_size + size
        /\ SummedUp(g, FreeIn(g)) = SummedUp(headers, FreeIn(headers)) - block_size + 0
        /\ Cardinality(DOMAIN g) = Cardinality(DOMAIN headers)
        /\ Cardinality(FreeIn(g)) = Cardinality(FreeIn(headers)) - 1 + 0
    BY <1>2, <1>3, <1>5 DEF HasChanged
  <2>4. /\ SummedUp(headers', DOMAIN headers') = SummedUp(g, DOMAIN g) + left
        /\ SummedUp(headers', FreeIn(headers')) = SummedUp(g, FreeIn(g)) + left
        /\ Cardinality(DOMAIN headers') = Cardinality(DOMAIN g) + 1
        /\ Cardinality(FreeIn(headers')) = Cardinality(FreeIn(g)) + 1
    BY <1>3, <1>8 DEF HasOneMore
  <2> HIDE DEF block_size
  <2>5. Cardinality(DOMAIN headers) \in Nat
    BY <1>1, FS_CardinalityType DEF AreHeaders
  <2>6. /\ SummedUp(headers', DOMAIN headers') = end
        /\ SummedUp(headers', FreeIn(headers')) = SummedUp(headers, FreeIn(headers)) - size
        /\ Cardinality(DOMAIN headers') = Cardinality(DOMAIN headers) + 1
        /\ Cardinality(FreeIn(headers')) = Cardinality(FreeIn(headers))
    BY <1>1, <1>2, <2>1, <2>2, <2>3, <2>4, <2>5
  <2> QED
    BY <1>1, <2>1, <2>2, <2>6 DEF BlocksCounted
<1>11. BlocksHandedOut'
  <2>1. DOMAIN headers' = DOMAIN headers \cup {rest}
    BY <1>5, <1>8 DEF HasChanged, HasOneMore
  <2>2. DOMAIN headers' \ FreeIn(headers') = (DOMAIN headers \ FreeIn(headers)) \cup {at}
    BY <1>2, <1>3, <1>4, <1>7, <2>1 DEF FreeIn
  <2>3. headers'[at].block_size >= BlockSize(bytes)
    BY <1>3, <1>7
  <2>4. BlocksHandedOut
    BY DEF HeapInv
  <2>5. \A o \in DOMAIN headers \ FreeIn(headers) : o # at => headers'[o] = headers[o]
    BY <1>7
  <2> QED
    BY <2>2, <2>3, <2>4, <2>5, OneMoreHandedOut
<1> QED
  BY <1>9, <1>10, <1>11 DEF HeapInv

\* The search for an unused block and what is done with the one it finds.
LEMMA Searching ==
  ASSUME HeapInv, NEW bytes \in RequestSizes, SearchForUnusedBlock(bytes)
  PROVE  HeapInv'
<1> DEFINE size == BlockSize(bytes)
           at == BestFit(size)
<1>1. bytes \in Nat /\ size \in Nat /\ size >= HeaderSize
  BY RequestsAreNumbers
<1>2. \E a \in Walk : Fits(a, size)
  BY DEF SearchForUnusedBlock
<1>3. at \in DOMAIN headers /\ Fits(at, size)
  <2> HIDE DEF size
  <2> QED
    BY <1>1, <1>2, BestFitFits DEF HeapInv
<1>4. /\ bytes_allocated_but_unused' = bytes_allocated_but_unused - size
      /\ HandOut(at, bytes) /\ bytes_allocated' = bytes_allocated
  BY DEF SearchForUnusedBlock
<1>5. \/ /\ WorthSplitting(headers[at].block_size, size)
         /\ headers' = UsedWritten(FreeWritten(headers, at + size, headers[at].block_size - size), at, size)
         /\ blocks_allocated' = blocks_allocated + 1
         /\ blocks_allocated_but_unused' = blocks_allocated_but_unused
      \/ /\ headers' = UsedWritten(headers, at, headers[at].block_size)
         /\ blocks_allocated_but_unused' = blocks_allocated_but_unused - 1
         /\ blocks_allocated' = blocks_allocated
  BY DEF SearchForUnusedBlock, UsedWritten, FreeWritten
<1>6. size = BlockSize(bytes)
  OBVIOUS
<1> HIDE DEF size, at
<1> QED
  BY <1>1, <1>3, <1>4, <1>5, <1>6, GivingAway, Splitting

\* A block returned, once or twice.
LEMMA Deallocating ==
  ASSUME HeapInv, NEW at \in Walk, Deallocate(at)
  PROVE  HeapInv'
<1> DEFINE block_size == headers[at].block_size
           free == FreeHeader(block_size)
           end == bytes_allocated
           D == DOMAIN headers \ FreeIn(headers)
<1>1. AreHeaders(headers) /\ end \in Nat /\ end <= MaxSize /\ Tiles(headers, end)
  BY DEF HeapInv, BlocksLie
<1>2. at \in DOMAIN headers
  BY WalkIsHeaders DEF HeapInv
<1>3. block_size \in Nat /\ headers[at] \in HeaderRecords
  BY <1>1, <1>2 DEF AreHeaders, HeaderRecords
<1>4. handed_out \in [D -> Nat] /\ \A o \in D : headers[o].block_size >= BlockSize(handed_out[o])
  BY DEF HeapInv, BlocksHandedOut
<1>5. /\ handed_out' = [o \in DOMAIN handed_out \ {at} |-> handed_out[o]]
      /\ bytes_allocated' = end /\ blocks_allocated' = blocks_allocated
  BY DEF Deallocate, Restrict
<1>6. handed_out' \in [D \ {at} -> Nat] /\ \A o \in D \ {at} : handed_out'[o] = handed_out[o]
  BY <1>4, <1>5
<1>7. CASE headers[at].in_use
  <2>1. free \in HeaderRecords /\ ~free.in_use /\ free.block_size = block_size
    BY <1>3, HeaderHolds
  <2>2. headers' = NewHeader(headers, at, free)
    <3>1. headers' = [headers EXCEPT ![at] = free]
      BY <1>7, Zenon DEF Deallocate, MayDeallocate, FreeHeader
    <3> HIDE DEF free
    <3>2. headers' = [o \in DOMAIN headers |-> IF o = at THEN free ELSE headers[o]]
      BY <1>1, <3>1 DEF AreHeaders
    <3>3. DOMAIN headers \cup {at} = DOMAIN headers
      BY <1>2
    <3> QED
      BY <3>2, <3>3 DEF NewHeader
  <2>3. /\ bytes_allocated_but_unused' = bytes_allocated_but_unused + block_size
        /\ blocks_allocated_but_unused' = blocks_allocated_but_unused + 1
    BY <1>7 DEF Deallocate, MayDeallocate
  <2> HIDE DEF free
  <2>4. Tiles(headers', end)
    BY <1>1, <1>2, <2>1, <2>2, WrittenWhole
  <2>5. HasChanged(headers', headers, at, free)
    BY <1>1, <1>2, <2>1, <2>2, BlockChanged
  <2>6. headers'[at] = free /\ \A o \in DOMAIN headers : o # at => headers'[o] = headers[o]
    BY <2>2 DEF NewHeader
  <2>7. BlocksLie'
    BY <1>1, <1>5, <2>4, <2>5 DEF BlocksLie, HasChanged
  <2>8. BlocksCounted'
    <3>1. /\ SummedUp(headers, DOMAIN headers) = end /\ blocks_allocated = Cardinality(DOMAIN headers)
          /\ blocks_allocated_but_unused = Cardinality(FreeIn(headers))
          /\ bytes_allocated_but_unused \in Int
          /\ bytes_allocated_but_unused >= SummedUp(headers, FreeIn(headers))
      BY DEF HeapInv, BlocksCounted
    <3>2. Cardinality(FreeIn(headers)) \in Nat /\ SummedUp(headers, FreeIn(headers)) \in Nat
      BY <1>1, FreeIsCounted
    <3>3. /\ SummedUp(headers', DOMAIN headers') = SummedUp(headers, DOMAIN headers) - block_size + block_size
          /\ SummedUp(headers', FreeIn(headers')) = SummedUp(headers, FreeIn(headers)) - 0 + block_size
          /\ Cardinality(DOMAIN headers') = Cardinality(DOMAIN headers)
          /\ Cardinality(FreeIn(headers')) = Cardinality(FreeIn(headers)) - 0 + 1
      BY <1>7, <2>1, <2>5 DEF HasChanged
    <3> HIDE DEF block_size
    <3> QED
      BY <1>1, <1>3, <1>5, <2>3, <3>1, <3>2, <3>3 DEF BlocksCounted
  <2>9. BlocksHandedOut'
    <3>1. DOMAIN headers' = DOMAIN headers
      BY <2>5 DEF HasChanged
    <3>2. DOMAIN headers' \ FreeIn(headers') = D \ {at}
      BY <1>2, <2>1, <2>6, <3>1 DEF FreeIn
    <3>3. \A o \in D \ {at} : headers'[o] = headers[o]
      BY <2>6
    <3> HIDE DEF D
    <3> QED
      BY <1>4, <1>6, <3>2, <3>3 DEF BlocksHandedOut
  <2> QED
    BY <2>7, <2>8, <2>9 DEF HeapInv
<1>8. CASE ~headers[at].in_use
  <2>1. /\ headers' = headers /\ bytes_allocated_but_unused' = bytes_allocated_but_unused
        /\ blocks_allocated_but_unused' = blocks_allocated_but_unused
    BY <1>8 DEF Deallocate, MayDeallocate
  <2>2. at \notin D
    BY <1>2, <1>8 DEF FreeIn
  <2>3. BlocksHandedOut'
    BY <1>4, <1>6, <2>1, <2>2 DEF BlocksHandedOut
  <2> QED
    BY <1>5, <2>1, <2>3 DEF HeapInv, BlocksLie, BlocksCounted
<1> QED
  BY <1>7, <1>8

\* Every operation keeps the invariant.
LEMMA HeapStep ==
  ASSUME HeapInv, [HeapNext]_heapVars
  PROVE  HeapInv'
<1>1. ASSUME NEW bytes \in RequestSizes, TakeFromEnd(bytes) PROVE HeapInv'
  BY <1>1, TakingFromEnd
<1>2. ASSUME NEW bytes \in RequestSizes, SearchForUnusedBlock(bytes) PROVE HeapInv'
  BY <1>2, Searching
<1>3. ASSUME NEW at \in Walk, Deallocate(at) PROVE HeapInv'
  BY <1>3, Deallocating
<1>4. ASSUME UNCHANGED heapVars PROVE HeapInv'
  BY <1>4 DEF heapVars, HeapInv, BlocksLie, BlocksCounted, BlocksHandedOut
<1>5. ASSUME NEW bytes \in RequestSizes, Refuse(bytes) PROVE HeapInv'
  BY <1>4, <1>5 DEF Refuse
<1> QED
  BY <1>1, <1>2, <1>3, <1>4, <1>5 DEF HeapNext

\* For any size of the memory, any alignment and any requests: the blocks lie one behind the
\* other and fill the memory in use, those in use are those handed out, each with room for what
\* was asked for, and the counters say how many blocks there are and never too few bytes.
THEOREM TheHeapIsSound == HeapSpec => []HeapIsSound
<1>1. HeapInit => HeapInv
  BY HeapBegins
<1>2. HeapInv /\ [HeapNext]_heapVars => HeapInv'
  BY HeapStep
<1>3. HeapInv => HeapIsSound
  BY InvariantIsSound
<1> QED
  BY <1>1, <1>2, <1>3, PTL DEF HeapSpec

=============================================================================
