------------------------- MODULE MemoryMappingTree --------------------------
(***************************************************************************)
(* MemoryMappingTree: the mappings of an address space, in a BinaryTree    *)
(* under their base address.  Addresses and sizes are in pages.  m is the  *)
(* record of the tree and, per node, the limit and the memory object; the  *)
(* entries of keys that are not in the tree mean nothing.                  *)
(***************************************************************************)
EXTENDS BinaryTree, Sequences

NoMappings(Addr) ==
  [tree |-> EmptyTree(Addr), pinned |-> {},
   limit |-> [a \in Addr |-> 0], obj |-> [a \in Addr |-> 0]]

Ends(m, n) == IF n = None THEN None ELSE m.limit[n]

\* Mutant: what begins behind the address is not looked at.
CanAddInNoSuccessor(m, vaddr, size) ==
  Ends(m, Predecessor(m.tree, vaddr)) <= vaddr /\ ~Find(m.tree, vaddr)

\* The checks of AddInMemoryObject: ALREADY_EXISTS unless they hold.
CanAddIn(m, vaddr, size) ==
  LET s == Successor(m.tree, vaddr)
  IN  /\ Ends(m, Predecessor(m.tree, vaddr)) <= vaddr
      /\ ~Find(m.tree, vaddr)
      /\ s = None \/ s >= vaddr + size

AddInMemoryObject(m, vaddr, size, o) ==
  [m EXCEPT !.tree = Insert(@, vaddr), !.limit[vaddr] = vaddr + size, !.obj[vaddr] = o]

\* FAILED_PRECONDITION or INVALID_ARGUMENT unless the range cuts no mapping.
CanFree(m, base, limit) ==
  /\ base < limit
  /\ Ends(m, Predecessor(m.tree, base)) <= base
  /\ Ends(m, Predecessor(m.tree, limit)) <= limit

\* Deletes key from the record f of the tree, of the nodes freed so far and
\* of the pinned ones: nodes in the tree that a cut-off node still refers to.
\* A node with two children is kept alive by its left child's parent pointer,
\* and keeps its right child; a pinned node keeps its children; and both keep
\* their parent.
DeleteNode(f, key) ==
  LET t == f.tree
      two == t.left[key] # None /\ t.right[key] # None
      c == NewChild(t, key)
      alive == two \/ key \in f.pinned
      child == IF two /\ c # t.right[key] THEN t.right[c] ELSE c
      kept == IF alive THEN {child, t.parent[key]} ELSE {}
      Leave(tree) ==
        [tree |-> tree,
         pinned |-> (f.pinned \cup kept) \cap Nodes(tree),
         freed |-> IF alive THEN f.freed ELSE Append(f.freed, key)]
  IN  Leave(Delete(t, key))

RECURSIVE DeleteSuccessors(_, _, _)

DeleteSuccessors(f, base, limit) ==
  LET s == Successor(f.tree, base)
  IN  IF s = None \/ s >= limit THEN f
      ELSE DeleteSuccessors(DeleteNode(f, s), base, limit)

\* FreeMemoryRange: the tree left and, in order, the nodes freed.
FreeMemoryRange(m, base, limit) ==
  LET f == [tree |-> m.tree, pinned |-> m.pinned, freed |-> <<>>]
  IN  DeleteSuccessors(IF Find(m.tree, base) THEN DeleteNode(f, base) ELSE f, base, limit)

GetMemoryMappingForAddr(m, vaddr) ==
  LET n == Predecessor(m.tree, vaddr + 1)
  IN  IF n = None \/ m.limit[n] <= vaddr THEN None ELSE n
=============================================================================
