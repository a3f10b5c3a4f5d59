----------------------------- MODULE BinaryTree -----------------------------
(***************************************************************************)
(* glcr::BinaryTree: an unbalanced search tree with parent pointers.       *)
(*                                                                         *)
(* A node is named by its key; a tree is the record of root_ and of the    *)
(* nodes' left, right and parent pointers.  Nodes that Delete cuts off     *)
(* without unlinking keep their entries, as they keep their memory.        *)
(***************************************************************************)
EXTENDS Integers, FiniteSets

None == -1                 \* a null RefPtr, or an empty Optional

EmptyTree(Key) ==
  LET none == [k \in Key |-> None]
  IN  [root |-> None, left |-> none, right |-> none, parent |-> none]

RECURSIVE Descend(_, _, _), Leftmost(_, _), Rightmost(_, _)
RECURSIVE UpWhileLeft(_, _), UpWhileRight(_, _), Below(_, _)

\* The loop of FindOrInsertionParent from node n on.
Descend(t, n, key) ==
  LET next == IF key < n THEN t.left[n] ELSE t.right[n]
  IN  IF key = n \/ next = None THEN n ELSE Descend(t, next, key)

FindOrInsertionParent(t, key) ==
  IF t.root = None THEN None ELSE Descend(t, t.root, key)

Leftmost(t, n) == IF t.left[n] = None THEN n ELSE Leftmost(t, t.left[n])
Rightmost(t, n) == IF t.right[n] = None THEN n ELSE Rightmost(t, t.right[n])

\* Up from n while it is a left (right) child: the ancestor reached, or None.
UpWhileLeft(t, n) ==
  LET p == t.parent[n]
  IN  IF p # None /\ t.left[p] = n THEN UpWhileLeft(t, p) ELSE p
UpWhileRight(t, n) ==
  LET p == t.parent[n]
  IN  IF p # None /\ t.right[p] = n THEN UpWhileRight(t, p) ELSE p

Insert(t, key) ==
  LET p == FindOrInsertionParent(t, key)
      new == [t EXCEPT !.left[key] = None, !.right[key] = None, !.parent[key] = p]
  IN  IF p = key THEN t
      ELSE IF p = None THEN [new EXCEPT !.root = key]
      ELSE IF key < p THEN [new EXCEPT !.left[p] = key]
      ELSE [new EXCEPT !.right[p] = key]

Find(t, key) == FindOrInsertionParent(t, key) = key /\ t.root # None

\* Mutant: a node without a right child leaves nothing in its place.
NewChildRightOnly(t, n) ==
  IF t.right[n] = None THEN None ELSE Leftmost(t, t.right[n])

\* What takes the place of node n.
NewChild(t, n) ==
  CASE t.left[n] = None -> t.right[n]
    [] t.left[n] # None /\ t.right[n] = None -> t.left[n]
    [] OTHER -> Leftmost(t, t.right[n])

\* The links to node n lead to c.
PutInPlace(t, n, c) ==
  LET p == t.parent[n]
      up == IF c = None THEN t ELSE [t EXCEPT !.parent[c] = p]
  IN  IF n = t.root THEN [up EXCEPT !.root = c]
      ELSE IF t.right[p] = n THEN [up EXCEPT !.right[p] = c]
      ELSE [up EXCEPT !.left[p] = c]

\* The successor that takes the place of a node with two children is taken
\* off its own parent, but does not get the node's children.
TakeOff(t, n, c) ==
  IF t.left[n] # None /\ t.right[n] # None /\ c # t.right[n]
  THEN [t EXCEPT !.left[t.parent[c]] = t.right[c]] ELSE t

Delete(t, key) ==
  LET Replace(c) == PutInPlace(TakeOff(t, key, c), key, c)
  IN  IF Find(t, key) THEN Replace(NewChild(t, key)) ELSE t

Predecessor(t, key) ==
  LET n == FindOrInsertionParent(t, key)
  IN  IF n = None THEN None
      ELSE IF n < key THEN n
      ELSE IF t.left[n] # None THEN Rightmost(t, t.left[n])
      ELSE UpWhileLeft(t, n)

Successor(t, key) ==
  LET n == FindOrInsertionParent(t, key)
  IN  IF n = None THEN None
      ELSE IF n > key THEN n
      ELSE IF t.right[n] # None THEN Leftmost(t, t.right[n])
      ELSE UpWhileRight(t, n)

\* The nodes that are still reachable from node n.
Below(t, n) ==
  IF n = None THEN {} ELSE {n} \cup Below(t, t.left[n]) \cup Below(t, t.right[n])

Nodes(t) == Below(t, t.root)
=============================================================================
