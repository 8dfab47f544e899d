------------------------------ MODULE LinkedList ------------------------------
(***************************************************************************)
(* minstd::list: nodes linked in both directions, with pointers to the     *)
(* first and the last and a count.  The node of an element is called by    *)
(* the element: no list here holds one twice.                              *)
(***************************************************************************)
EXTENDS Integers, Sequences, SequencesExt, Functions

NoNode == 0

EmptyList == [nodes |-> << >>, front |-> NoNode, back |-> NoNode, size |-> 0]

ListNode(next, prev) == [next |-> next, prev |-> prev]

\* A function that has one more argument.
Extended(f, x, y) == [z \in DOMAIN f \cup {x} |-> IF z = x THEN y ELSE f[z]]

\* A link of a node, if it is one: the code looks before it writes through a pointer.
LinkNext(nodes, n, next) == IF n = NoNode THEN nodes ELSE [nodes EXCEPT ![n].next = next]
LinkPrev(nodes, n, prev) == IF n = NoNode THEN nodes ELSE [nodes EXCEPT ![n].prev = prev]

PushFront(list, e) ==
  [nodes |-> Extended(LinkPrev(list.nodes, list.front, e), e, ListNode(list.front, NoNode)),
   front |-> e, back |-> IF list.back = NoNode THEN e ELSE list.back, size |-> list.size + 1]

PushBack(list, e) ==
  [nodes |-> Extended(LinkNext(list.nodes, list.back, e), e, ListNode(NoNode, list.back)),
   front |-> IF list.front = NoNode THEN e ELSE list.front, back |-> e, size |-> list.size + 1]

FreeNode(nodes, n) == Restrict(nodes, DOMAIN nodes \ {n})

PopFront(list) ==
  IF list.front = NoNode THEN list
  ELSE LET next == list.nodes[list.front].next
       IN [nodes |-> FreeNode(LinkPrev(list.nodes, next, NoNode), list.front),
           front |-> next, back |-> IF next = NoNode THEN NoNode ELSE list.back,
           size |-> list.size - 1]

PopBack(list) ==
  IF list.back = NoNode THEN list
  ELSE LET prev == list.nodes[list.back].prev
       IN [nodes |-> FreeNode(LinkNext(list.nodes, prev, NoNode), list.back),
           front |-> IF prev = NoNode THEN NoNode ELSE list.front, back |-> prev,
           size |-> list.size - 1]

\* The neighbours of a node linked to each other.
Unlinked(list, n) ==
  LET node == list.nodes[n] IN LinkPrev(LinkNext(list.nodes, node.prev, node.next), node.next, node.prev)

BackAfterMove(list, n) == IF list.nodes[n].next = NoNode THEN list.nodes[n].prev ELSE list.back

\* move_front of the node at an iterator; nothing at the front or at end().
ListMoveFront(list, n) ==
  IF n = NoNode \/ list.nodes[n].prev = NoNode THEN list
  ELSE LET nodes == LinkPrev(Unlinked(list, n), list.front, n)
       IN [nodes |-> [nodes EXCEPT ![n] = ListNode(list.front, NoNode)],
           front |-> n, back |-> BackAfterMove(list, n), size |-> list.size]

InsertAfter(list, n, e) ==
  LET next == list.nodes[n].next
      linked == LinkPrev(LinkNext(list.nodes, n, e), next, e)
  IN [nodes |-> Extended(linked, e, ListNode(next, n)),
      front |-> list.front, back |-> IF next = NoNode THEN e ELSE list.back, size |-> list.size + 1]

EraseNode(list, n) ==
  LET node == list.nodes[n]
  IN [nodes |-> FreeNode(Unlinked(list, n), n),
      front |-> IF node.prev = NoNode THEN node.next ELSE list.front,
      back |-> IF node.next = NoNode THEN node.prev ELSE list.back,
      size |-> list.size - 1]

\* Mutant: what follows the erased node still leads back to it.
EraseAfterOneWay(list, n) ==
  LET erased == list.nodes[n].next
  IN IF erased = NoNode THEN list
     ELSE LET next == list.nodes[erased].next
          IN [nodes |-> FreeNode(LinkNext(list.nodes, n, next), erased), front |-> list.front,
              back |-> IF next = NoNode THEN n ELSE list.back, size |-> list.size - 1]

EraseAfter(list, n) ==
  LET erased == list.nodes[n].next
  IN IF erased = NoNode THEN list
     ELSE LET next == list.nodes[erased].next
              linked == LinkPrev(LinkNext(list.nodes, n, next), next, n)
          IN [nodes |-> FreeNode(linked, erased), front |-> list.front,
              back |-> IF next = NoNode THEN n ELSE list.back, size |-> list.size - 1]

\* The elements as an iterator comes to them: from begin() on, and from the last one back.
\* It stops at a node that has been deallocated, and after one element too many.
Traversal(list, start, link) ==
  LET at[k \in 1 .. list.size + 1] ==
        IF k = 1 THEN start
        ELSE IF at[k - 1] \in DOMAIN list.nodes THEN list.nodes[at[k - 1]][link] ELSE NoNode
  IN [k \in {j \in 1 .. list.size + 1 : at[j] # NoNode} |-> at[k]]

Forward(list) == Traversal(list, list.front, "next")
Backward(list) == Traversal(list, list.back, "prev")

=============================================================================
