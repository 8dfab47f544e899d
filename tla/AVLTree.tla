-------------------------------- MODULE AVLTree --------------------------------
(***************************************************************************)
(* The balanced search tree behind minstd::map (avl_tree): insertion and   *)
(* removal with their rotations, and the iterators, which find their way   *)
(* up by the reverse links of the nodes.                                   *)
(*                                                                         *)
(* Nodes lie in memory, linked by their addresses.  A key moves from one   *)
(* node to another when an element is removed; between two operations the  *)
(* address of a node is called by the key it holds, so that trees in other *)
(* places are the same tree.  The value that goes with a key is left out.  *)
(***************************************************************************)
EXTENDS Integers, Sequences, FiniteSets, TLC

Null == 0
Dangling == -1  \* a link to a node that has been freed
Sides == {"left", "right"}
Other(side) == IF side = "left" THEN "right" ELSE "left"

NoLinks == [side \in Sides |-> Null]

\* reverse[s]: the node whose child on side s this one is.
NewNode(key) == [key |-> key, child |-> NoLinks, reverse |-> NoLinks, depth |-> 1]
Freed == [NewNode(Null) EXCEPT !.depth = 0]

\* A tree: its nodes by address, the root and the size it keeps.
EmptyTree == [nodes |-> << >>, root |-> Null, size |-> 0]

\* A subtree as the recursive functions return it.
Subtree(nodes, root) == [nodes |-> nodes, root |-> root]

-----------------------------------------------------------------------------
(* Links, depths and rotations.                                            *)

\* Mutant: the reverse link of the other side stays.
SetChildKeepsOther(m, n, side, c) ==
  IF c # Null THEN [m EXCEPT ![n].child[side] = c, ![c].reverse[side] = n]
  ELSE IF m[n].child[side] # Null
  THEN [m EXCEPT ![m[n].child[side]].reverse[side] = Null, ![n].child[side] = Null]
  ELSE m

\* set_left and set_right.  When the child is taken away it is written to once more,
\* though it may have been freed.
SetChild(m, n, side, c) ==
  IF c # Null
  THEN [m EXCEPT ![n].child[side] = c, ![c].reverse = [NoLinks EXCEPT ![side] = n]]
  ELSE IF m[n].child[side] # Null
  THEN [m EXCEPT ![m[n].child[side]].reverse[side] = Null, ![n].child[side] = Null]
  ELSE m

Depth(m, n) == IF n = Null THEN 0 ELSE m[n].depth
Balance(m, n) == IF n = Null THEN 0 ELSE Depth(m, m[n].child["left"]) - Depth(m, m[n].child["right"])

SetDepth(m, n) ==
  LET l == Depth(m, m[n].child["left"])
      r == Depth(m, m[n].child["right"])
  IN [m EXCEPT ![n].depth = 1 + IF l > r THEN l ELSE r]

\* left_rotate and right_rotate.
Rotate(m, n, to) ==
  LET pivot == m[n].child[Other(to)]
      middle == m[pivot].child[to]
      linked == SetChild(SetChild(m, pivot, to, n), n, Other(to), middle)
  IN Subtree(SetDepth(SetDepth(linked, n), pivot), pivot)

Heavy(balance) == IF balance > 1 THEN "left" ELSE "right"

\* The subtree of n, whose child on one side is deeper by two, with one rotation or two.
Rotated(m, n, heavy, outer) ==
  IF outer THEN Rotate(m, n, Other(heavy))
  ELSE LET inner == Rotate(m, m[n].child[heavy], heavy)
       IN Rotate(SetChild(inner.nodes, n, heavy, inner.root), n, Other(heavy))

\* Where the key went, or the deeper of the grandchildren, tells which.
RebalanceAfterInsert(nodes, n, key) ==
  LET m == SetDepth(nodes, n)
      balance == Balance(m, n)
      heavy == Heavy(balance)
  IN IF balance \in -1 .. 1 THEN Subtree(m, n)
     ELSE Rotated(m, n, heavy, (heavy = "left") = (key < m[m[n].child[heavy]].key))

\* Mutant: the depth is set, nothing is rotated.
DepthAfterErase(nodes, n) == Subtree(SetDepth(nodes, n), n)

RebalanceAfterErase(nodes, n) ==
  LET m == SetDepth(nodes, n)
      balance == Balance(m, n)
      heavy == Heavy(balance)
      below == Balance(m, m[n].child[heavy])
  IN IF balance \in -1 .. 1 THEN Subtree(m, n)
     ELSE Rotated(m, n, heavy, IF heavy = "left" THEN below >= 0 ELSE below <= 0)

-----------------------------------------------------------------------------
(* Insertion and removal.                                                  *)

SideOf(m, n, key) == IF key < m[n].key THEN "left" ELSE "right"

RECURSIVE FindNode(_, _, _)
FindNode(m, n, key) ==
  IF n = Null \/ m[n].key = key THEN n ELSE FindNode(m, m[n].child[SideOf(m, n, key)], key)

Find(tree, key) == FindNode(tree.nodes, tree.root, key)

RECURSIVE InsertRecursive(_, _, _)
InsertRecursive(m, n, key) ==
  IF n = Null THEN Subtree(m @@ (key :> NewNode(key)), key)
  ELSE LET side == SideOf(m, n, key)
           below == InsertRecursive(m, m[n].child[side], key)
       IN RebalanceAfterInsert(SetChild(below.nodes, n, side, below.root), n, key)

RECURSIVE Farthest(_, _, _)
Farthest(m, n, side) ==
  IF n = Null \/ m[n].child[side] = Null THEN n ELSE Farthest(m, m[n].child[side], side)

\* The value of the child replaces that of the node, and the child is freed.
MoveUp(m, n, child) ==
  [i \in DOMAIN m |->
     IF i = n THEN [m[n] EXCEPT !.key = m[child].key, !.child = m[child].child]
     ELSE IF i = child THEN Freed
     ELSE LET side == {s \in Sides : m[child].child[s] = i}
          IN IF side = {} THEN m[i] ELSE [m[i] EXCEPT !.reverse = [s \in Sides |-> IF s \in side THEN n ELSE @[s]]]]

SuccessorOf(m, n) == Farthest(m, m[n].child["right"], "left")

\* With two branches, the element takes the value of its successor, which is removed
\* below; the child is then assigned without its reverse links.
RECURSIVE EraseRecursive(_, _, _)
EraseRecursive(m, n, key) ==
  IF n = Null THEN Subtree(m, Null)
  ELSE LET children == {m[n].child[s] : s \in Sides} \ {Null}
       IN IF key # m[n].key
          THEN LET side == SideOf(m, n, key)
                   below == EraseRecursive(m, m[n].child[side], key)
               IN RebalanceAfterErase(SetChild(below.nodes, n, side, below.root), n)
          ELSE IF children = {} THEN Subtree([m EXCEPT ![n] = Freed], Null)
          ELSE IF Cardinality(children) = 1
          THEN RebalanceAfterErase(MoveUp(m, n, CHOOSE c \in children : TRUE), n)
          ELSE LET successor == m[SuccessorOf(m, n)].key
                   below == EraseRecursive([m EXCEPT ![n].key = successor], m[n].child["right"], successor)
               IN RebalanceAfterErase([below.nodes EXCEPT ![n].child["right"] = below.root], n)

\* The nodes in use, each by its key.
Renamed(m) ==
  LET name(n) == IF n \in {Null, Dangling} THEN n ELSE IF m[n].depth = 0 THEN Dangling ELSE m[n].key
      links(l) == [s \in Sides |-> name(l[s])]
      used == {n \in DOMAIN m : m[n].depth > 0}
  IN [key \in {m[n].key : n \in used} |->
        LET node == m[CHOOSE n \in used : m[n].key = key]
        IN [node EXCEPT !.child = links(@), !.reverse = links(@)]]

Tree(subtree, size) ==
  LET m == subtree.nodes
      root == subtree.root
  IN IF root = Null THEN EmptyTree
     ELSE [nodes |-> Renamed([m EXCEPT ![root].reverse = NoLinks]), root |-> m[root].key, size |-> size]

\* insert and erase.
Insert(tree, key) ==
  IF Find(tree, key) # Null THEN tree
  ELSE Tree(InsertRecursive(tree.nodes, tree.root, key), tree.size + 1)

Erase(tree, key) ==
  Tree(EraseRecursive(tree.nodes, tree.root, key),
       IF Find(tree, key) # Null THEN tree.size - 1 ELSE tree.size)

HasTwoBranches(tree, key) ==
  key \in DOMAIN tree.nodes /\ \A s \in Sides : tree.nodes[key].child[s] # Null

-----------------------------------------------------------------------------
(* Iterators.                                                              *)

\* Up by the reverse links of one side, to the first node that has one of the other: the
\* way forward looks for that one first, the way back goes on as long as it can.  After more
\* steps than there are nodes the loop never ends: the result is a node visited before.
RECURSIVE Climb(_, _, _, _)
Climb(tree, n, side, steps) ==
  IF n = Dangling \/ steps = 0 THEN n
  ELSE LET up == tree.nodes[n].reverse[side]
           across == tree.nodes[n].reverse[Other(side)]
       IN IF (side = "right" /\ across # Null) \/ up = Null THEN across
          ELSE Climb(tree, up, side, steps - 1)

\* move_forward and move_backward, from an element towards a side.
Move(tree, n, side) ==
  LET node == tree.nodes[n]
      other == Other(side)
  IN IF node.child[side] # Null THEN Farthest(tree.nodes, node.child[side], other)
     ELSE IF node.reverse[other] # Null THEN node.reverse[other]
     ELSE IF node.reverse[side] # Null THEN Climb(tree, node.reverse[side], side, tree.size)
     ELSE Null

RECURSIVE VisitFrom(_, _, _, _)
VisitFrom(tree, n, side, steps) ==
  IF n = Null \/ steps = 0 THEN << >>
  ELSE IF n = Dangling THEN <<n>>
  ELSE <<n>> \o VisitFrom(tree, Move(tree, n, side), side, steps - 1)

\* The elements from begin() on, or from the last one back; one too many where the
\* iteration does not end.
Visit(tree, side) ==
  VisitFrom(tree, Farthest(tree.nodes, tree.root, Other(side)), side, tree.size + 1)

-----------------------------------------------------------------------------
(* What a tree should be.                                                  *)

RECURSIVE InOrder(_, _)
InOrder(m, n) ==
  IF n = Null THEN << >>
  ELSE InOrder(m, m[n].child["left"]) \o <<m[n].key>> \o InOrder(m, m[n].child["right"])

IsSearchTree(tree, keys) ==
  LET visited == InOrder(tree.nodes, tree.root)
  IN /\ \A i \in 1 .. Len(visited) - 1 : visited[i] < visited[i + 1]
     /\ {visited[i] : i \in DOMAIN visited} = keys
     /\ DOMAIN tree.nodes = keys /\ tree.size = Cardinality(keys)

IsBalanced(tree) ==
  \A n \in DOMAIN tree.nodes :
    /\ Balance(tree.nodes, n) \in -1 .. 1
    /\ tree.nodes[n].depth = SetDepth(tree.nodes, n)[n].depth

=============================================================================
