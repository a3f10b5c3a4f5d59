--------------------------- MODULE IntrusiveList ---------------------------
(***************************************************************************)
(* glcr::IntrusiveList<T> (lib/glacier/container/intrusive_list.h).        *)
(*                                                                         *)
(* The links next_ and prev_ live in the node and not in the list, so one  *)
(* node has a single pair of links however many lists it was pushed on.    *)
(* The operators below therefore act on a heap h, a record with at least   *)
(* the fields                                                              *)
(*    list   the list headers (front_, back_, size_), by list              *)
(*    next, prev   the links of every node                                 *)
(*    panic  TRUE once the kernel has halted                               *)
(* and return the heap after the call.  Nothing here forbids a node from   *)
(* being on two lists: the code does not check it either.                  *)
(*                                                                         *)
(* size_ is a uint64_t that the code only ever compares with 0, so an      *)
(* integer that may become negative stands for its wrapped value.          *)
(***************************************************************************)
EXTENDS Integers

CONSTANTS
  Node,     \* the objects that can be linked
  ListId,   \* the lists
  Null      \* nullptr

ASSUME NullAssumption == Null \notin Node

Pointer == Node \cup {Null}

Header == [front: Pointer, back: Pointer, size: Int]

EmptyHeader == [front |-> Null, back |-> Null, size |-> 0]

(* panic() disables interrupts and halts.  Reading through a null RefPtr   *)
(* faults in kernel mode, and the page fault handler panics.               *)
Panic(h) == [h EXCEPT !.panic = TRUE]

PeekFront(h, q) == h.list[q].front

PushFront(h, q, x) ==
  LET l == h.list[q] IN
  IF l.front = Null
  THEN [h EXCEPT !.list[q] = [front |-> x, back |-> x, size |-> l.size + 1],
                 !.next[x] = Null,
                 !.prev[x] = Null]
  ELSE [h EXCEPT !.list[q] =
                   [front |-> x, back |-> l.back, size |-> l.size + 1],
                 !.next[x] = l.front,
                 !.prev = [[@ EXCEPT ![x] = Null] EXCEPT ![l.front] = x]]

PushBack(h, q, x) ==
  LET l == h.list[q] IN
  IF l.front = Null
  THEN PushFront(h, q, x)
  ELSE IF l.back = Null
       THEN Panic(h)
       ELSE [h EXCEPT !.list[q] =
                        [front |-> l.front, back |-> x, size |-> l.size + 1],
                      !.next = [[@ EXCEPT ![l.back] = x] EXCEPT ![x] = Null],
                      !.prev[x] = l.back]

(* The value PopFront returns is PeekFront of the heap before the call. *)
PopFront(h, q) ==
  LET l == h.list[q] IN
  IF l.front = Null
  THEN h
  ELSE IF l.front = l.back
       THEN [h EXCEPT !.list[q] =
               [front |-> Null, back |-> Null, size |-> l.size - 1]]
       ELSE LET n == h.next[l.front] IN
            IF n = Null
            THEN Panic(h)
            ELSE [h EXCEPT !.list[q] =
                             [front |-> n, back |-> l.back, size |-> l.size - 1],
                           !.prev[n] = Null,
                           !.next[l.front] = Null]

(* The value PopBack returns is the back_ of the heap before the call. *)
PopBack(h, q) ==
  LET l == h.list[q] IN
  IF l.back = Null
  THEN h
  ELSE IF l.front = l.back
       THEN PopFront(h, q)
       ELSE LET p == h.prev[l.back] IN
            IF p = Null
            THEN Panic(h)
            ELSE [h EXCEPT !.list[q] =
                             [front |-> l.front, back |-> p, size |-> l.size - 1],
                           !.next[p] = Null,
                           !.prev[l.back] = Null]

(* The neighbours are joined before the links of x are cleared, and x is   *)
(* not required to be on the list.                                         *)
Remove(h, q, x) ==
  LET l == h.list[q]
      n == h.next[x]
      p == h.prev[x]
      nexts == IF p = Null THEN h.next ELSE [h.next EXCEPT ![p] = n]
      prevs == IF n = Null THEN h.prev ELSE [h.prev EXCEPT ![n] = p]
  IN [h EXCEPT !.list[q] = [front |-> IF l.front = x THEN n ELSE l.front,
                            back  |-> IF l.back = x THEN p ELSE l.back,
                            size  |-> l.size - 1],
               !.next = [nexts EXCEPT ![x] = Null],
               !.prev = [prevs EXCEPT ![x] = Null]]

-----------------------------------------------------------------------------
(* The list read off its links: the size_ nodes reached from front_ by     *)
(* next_ (Null once the chain is broken).                                  *)
Chain(h, q) ==
  LET l == h.list[q]
      node[i \in 1 .. l.size] ==
        IF i = 1 THEN l.front
        ELSE IF node[i - 1] = Null THEN Null
        ELSE h.next[node[i - 1]]
  IN [i \in 1 .. l.size |-> node[i]]

On(h, q) == {Chain(h, q)[i] : i \in 1 .. h.list[q].size}

(* What every operation relies on: the chain has size_ distinct nodes,     *)
(* ends in back_, and prev_ mirrors next_.                                 *)
WellFormed(h, q) ==
  LET l == h.list[q]
      c == Chain(h, q)
  IN IF l.size = 0
     THEN l.front = Null /\ l.back = Null
     ELSE /\ l.size > 0
          /\ \A i \in 1 .. l.size : c[i] \in Node
          /\ \A i, j \in 1 .. l.size : c[i] = c[j] => i = j
          /\ c[l.size] = l.back
          /\ h.next[l.back] = Null
          /\ h.prev[l.front] = Null
          /\ \A i \in 2 .. l.size : h.prev[c[i]] = c[i - 1]
=============================================================================
