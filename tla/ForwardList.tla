----------------------------- MODULE ForwardList ------------------------------
(***************************************************************************)
(* A minstd::forward_list and all that may be done with it, beside the     *)
(* sequence it should be: nodes linked in one direction.  The node of an   *)
(* element is called by the element: the list holds none twice.            *)
(***************************************************************************)
EXTENDS Integers, Sequences, SequencesExt, Functions

CONSTANTS
  ForwardElements,
  NoForwardNode  \* nullptr

ASSUME ForwardAssumption == NoForwardNode \notin ForwardElements

VARIABLES
  next_node,        \* next_ of each node that is allocated
  front_node,       \* front_
  forward_sequence  \* history: the sequence

forwardVars == <<next_node, front_node, forward_sequence>>

ForwardInit == next_node = << >> /\ front_node = NoForwardNode /\ forward_sequence = << >>

Allocated(e, next) == [n \in DOMAIN next_node \cup {e} |-> IF n = e THEN next ELSE next_node[n]]

Deallocated(nodes, e) == Restrict(nodes, DOMAIN nodes \ {e})

\* push_front and emplace_front.
PushFrontNode(e) ==
  /\ next_node' = Allocated(e, front_node)
  /\ front_node' = e
  /\ forward_sequence' = <<e>> \o forward_sequence

PopFrontNode ==
  /\ IF front_node = NoForwardNode THEN UNCHANGED <<next_node, front_node>>
     ELSE /\ front_node' = next_node[front_node]
          /\ next_node' = Deallocated(next_node, front_node)
  /\ forward_sequence' = IF forward_sequence = << >> THEN << >> ELSE Tail(forward_sequence)

PlaceOf(n) == CHOOSE i \in DOMAIN forward_sequence : forward_sequence[i] = n

\* insert_after and emplace_after.
InsertAfterNode(n, e) ==
  /\ next_node' = [Allocated(e, next_node[n]) EXCEPT ![n] = e]
  /\ forward_sequence' = InsertAt(forward_sequence, PlaceOf(n) + 1, e)
  /\ UNCHANGED front_node

\* The link over the node that follows.
LinkedOver(n) == [next_node EXCEPT ![n] = next_node[next_node[n]]]

EraseAfterNode(n) ==
  /\ IF next_node[n] = NoForwardNode THEN UNCHANGED next_node
     ELSE next_node' = Deallocated(LinkedOver(n), next_node[n])
  /\ forward_sequence' = IF n = Last(forward_sequence) THEN forward_sequence
                         ELSE RemoveAt(forward_sequence, PlaceOf(n) + 1)
  /\ UNCHANGED front_node

ForwardNext ==
  \/ \E e \in ForwardElements \ DOMAIN next_node :
       PushFrontNode(e) \/ \E n \in DOMAIN next_node : InsertAfterNode(n, e)
  \/ PopFrontNode
  \/ \E n \in DOMAIN next_node : EraseAfterNode(n)

ForwardSpec == ForwardInit /\ [][ForwardNext]_forwardVars

\* The link an iterator follows from the i-th element of the sequence.
FollowedBy(i) ==
  IF i = Len(forward_sequence) THEN NoForwardNode ELSE forward_sequence[i + 1]

\* Whatever is added and erased at the front or behind an element, begin() leads to the first
\* element of the sequence, the iterator from each one to the next and from the last to
\* end(), and no other node stays allocated.
ForwardListIsSequence ==
  /\ front_node = IF forward_sequence = << >> THEN NoForwardNode ELSE forward_sequence[1]
  /\ \A i \in DOMAIN forward_sequence : next_node[forward_sequence[i]] = FollowedBy(i)
  /\ DOMAIN next_node = {forward_sequence[i] : i \in DOMAIN forward_sequence}

=============================================================================
