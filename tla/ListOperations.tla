---------------------------- MODULE ListOperations ----------------------------
(***************************************************************************)
(* A minstd::list and all that may be done with it, beside the sequence it *)
(* should be.                                                              *)
(***************************************************************************)
EXTENDS LinkedList

CONSTANT Elements

ASSUME ElementsAssumption == Elements \subseteq Nat \ {NoNode}

VARIABLES
  list,
  contents \* history: the sequence

listVars == <<list, contents>>

ListInit == list = EmptyList /\ contents = << >>

At(n) == CHOOSE i \in DOMAIN contents : contents[i] = n

Becomes(l, sequence) == list' = l /\ contents' = sequence

Add(e) ==
  \/ Becomes(PushFront(list, e), <<e>> \o contents)
  \/ Becomes(PushBack(list, e), Append(contents, e))
  \/ \E n \in DOMAIN list.nodes : Becomes(InsertAfter(list, n, e), InsertAt(contents, At(n) + 1, e))

Pop ==
  \/ Becomes(PopFront(list), IF contents = << >> THEN contents ELSE Tail(contents))
  \/ Becomes(PopBack(list), IF contents = << >> THEN contents ELSE Front(contents))

ChangeAt(n) ==
  \/ Becomes(EraseNode(list, n), RemoveAt(contents, At(n)))
  \/ Becomes(EraseAfter(list, n), IF n = Last(contents) THEN contents ELSE RemoveAt(contents, At(n) + 1))
  \/ Becomes(ListMoveFront(list, n), <<n>> \o RemoveAt(contents, At(n)))

\* The last one is clear, which frees each node before it reads its link to the next: a
\* freed node keeps its links until its memory is handed out again.
ListNext ==
  \/ \E e \in Elements \ DOMAIN list.nodes : Add(e)
  \/ Pop
  \/ \E n \in DOMAIN list.nodes : ChangeAt(n)
  \/ Becomes(EmptyList, << >>)

ListSpec == ListInit /\ [][ListNext]_listVars

\* Whatever is done to it at its ends or in its middle, an iterator reads the list forward
\* and backward as the same sequence, and it knows its size.
ListIsSequence ==
  /\ Forward(list) = contents /\ Backward(list) = Reverse(contents)
  /\ list.size = Len(contents)

=============================================================================
