-------------------------------- MODULE Vector --------------------------------
(***************************************************************************)
(* A minstd::vector and all that may be done with it, beside the sequence  *)
(* it should be: a block of cells that is allocated once, the first of     *)
(* which, before end(), hold its elements.  A pointer is the number of a   *)
(* cell.                                                                   *)
(*                                                                         *)
(* It does not grow.  insert and emplace assert that there is room;        *)
(* push_back and emplace_back leave that to the caller, as `HasRoom' does  *)
(* here.  What is inserted is no element of the vector itself.  An element *)
(* is a value: that insert and push_back assign it to a cell where emplace *)
(* and emplace_back construct it makes no difference here.                 *)
(***************************************************************************)
EXTENDS Integers, Sequences, SequencesExt

CONSTANTS
  VectorCapacity,  \* current_allocated_size_
  VectorElements,
  Dead             \* what is in a cell that holds no element

ASSUME VectorAssumption == VectorCapacity \in Nat /\ Dead \notin VectorElements

VARIABLES
  cells,
  vector_end,      \* end_
  vector_iterator, \* current_location_ of an iterator
  vector_sequence, \* history: the sequence
  still_to_read    \* history: what the iterator has before it

vectorVars == <<cells, vector_end, vector_iterator, vector_sequence, still_to_read>>

VectorBegin == 1

VectorInit ==
  /\ cells = [c \in 1 .. VectorCapacity |-> Dead]
  /\ vector_end = VectorBegin /\ vector_iterator = VectorBegin
  /\ vector_sequence = << >> /\ still_to_read = << >>

HasRoom == vector_end - VectorBegin < VectorCapacity

\* What an iterator comes to until it is end().
Rest(location) ==
  LET count == IF location < vector_end THEN vector_end - location ELSE 0
  IN [i \in 1 .. count |-> cells[location + i - 1]]

PushBackElement(e) ==
  /\ cells' = [cells EXCEPT ![vector_end] = e]
  /\ vector_end' = vector_end + 1

\* Mutant: as memcpy does it, from the first cell on: it reads what it has written.
CopiedBack(at) ==
  [c \in DOMAIN cells |-> IF at < c /\ c <= vector_end THEN cells[at] ELSE cells[c]]

\* memmove of the elements from a cell on, one cell further.
MovedBack(at) ==
  [c \in DOMAIN cells |-> IF at < c /\ c <= vector_end THEN cells[c - 1] ELSE cells[c]]

\* insert and emplace, which return where the new element is.
InsertElement(at, e) ==
  \/ /\ at = vector_end
     /\ PushBackElement(e)
     /\ vector_iterator' = vector_end' - 1
  \/ /\ at # vector_end
     /\ cells' = [MovedBack(at) EXCEPT ![at] = e]
     /\ vector_end' = vector_end + 1
     /\ vector_iterator' = at

AddElement(e) ==
  \/ /\ PushBackElement(e)
     /\ vector_sequence' = Append(vector_sequence, e)
     /\ still_to_read' = Append(still_to_read, e)
     /\ UNCHANGED vector_iterator
  \/ \E at \in VectorBegin .. vector_end :
       /\ InsertElement(at, e)
       /\ vector_sequence' = InsertAt(vector_sequence, at, e)
       /\ still_to_read' = SubSeq(vector_sequence', at, Len(vector_sequence'))

\* Of elements with a destructor; a vector of others may not be empty.  An iterator that was
\* at the last element, or at end(), is one of end() from then on.
PopBackElement ==
  /\ IF vector_end > VectorBegin
     THEN cells' = [cells EXCEPT ![vector_end - 1] = Dead] /\ vector_end' = vector_end - 1
     ELSE UNCHANGED <<cells, vector_end>>
  /\ vector_iterator' = IF vector_iterator < vector_end' THEN vector_iterator ELSE vector_end'
  /\ vector_sequence' = IF vector_sequence = << >> THEN << >> ELSE Front(vector_sequence)
  /\ still_to_read' = IF still_to_read = << >> THEN << >> ELSE Front(still_to_read)

ClearElements ==
  /\ cells' = [c \in DOMAIN cells |-> IF c < vector_end THEN Dead ELSE cells[c]]
  /\ vector_end' = VectorBegin /\ vector_iterator' = VectorBegin
  /\ vector_sequence' = << >> /\ still_to_read' = << >>

\* operator++, prefix and postfix, of iterator and of const_iterator; then operator--.
IncrementIterator ==
  /\ vector_iterator' = IF vector_iterator >= vector_end THEN vector_end ELSE vector_iterator + 1
  /\ still_to_read' = IF still_to_read = << >> THEN << >> ELSE Tail(still_to_read)

DecrementIterator ==
  /\ vector_iterator' = IF vector_iterator <= VectorBegin THEN VectorBegin ELSE vector_iterator - 1
  /\ still_to_read' = IF Len(still_to_read) = Len(vector_sequence) THEN still_to_read
                      ELSE <<vector_sequence[Len(vector_sequence) - Len(still_to_read)]>>
                             \o still_to_read

VectorNext ==
  \/ HasRoom /\ \E e \in VectorElements : AddElement(e)
  \/ PopBackElement
  \/ ClearElements
  \/ (IncrementIterator \/ DecrementIterator) /\ UNCHANGED <<cells, vector_end, vector_sequence>>

VectorSpec == VectorInit /\ [][VectorNext]_vectorVars

\* Whatever is added at the end or in the middle and taken from the end, begin() leads to
\* the elements of the sequence, each once and in order, and no cell behind them holds one
\* that was not destroyed; an iterator, moved in either direction or returned by an
\* insertion, has the same elements before it as it would have in the sequence.
VectorIsSequence ==
  /\ Rest(VectorBegin) = vector_sequence
  /\ Rest(vector_iterator) = still_to_read
  /\ \A c \in vector_end .. VectorCapacity : cells[c] = Dead

=============================================================================
