--------------------------- MODULE ListInvariants ---------------------------
(***************************************************************************)
(* What it means that the intrusive lists of threads are intact, and what  *)
(* the operations of IntrusiveList make of intact lists.                   *)
(***************************************************************************)
EXTENDS Scheduler

(* The nodes c are list q, spelled out: its header and the links of its    *)
(* nodes say so, and no node is on it twice.                               *)
Spells(h, q, c) ==
  LET n == h.list[q].size IN
  /\ n \in Nat
  /\ c \in [1 .. n -> Node]
  /\ h.list[q].front = IF n = 0 THEN Null ELSE c[1]
  /\ h.list[q].back = IF n = 0 THEN Null ELSE c[n]
  /\ \A i, j \in 1 .. n : c[i] = c[j] => i = j
  /\ \A i \in 1 .. n : h.next[c[i]] = IF i = n THEN Null ELSE c[i + 1]
  /\ \A i \in 1 .. n : h.prev[c[i]] = IF i = 1 THEN Null ELSE c[i - 1]

(* List q spells some nodes. *)
Linked(h, q) == \E c : Spells(h, q, c)

(* All lists are, and no node is on two of them. *)
Intact(h) ==
  /\ \A q \in ListId : Linked(h, q)
  /\ \A q, r \in ListId : q # r => On(h, q) \cap On(h, r) = {}

(* What an operation on a list leaves alone. *)
Keeps(g, h) ==
  /\ g.state = h.state /\ g.ticks = h.ticks /\ g.current = h.current
  /\ g.panic = h.panic

(* g is h after x was linked at the end of list q, ... *)
AfterPushBack(g, h, q, x) ==
  LET empty == h.list[q].front = Null IN
  /\ g \in Sched /\ Keeps(g, h)
  /\ g.list[q] = [front |-> IF empty THEN x ELSE h.list[q].front, back |-> x,
                  size |-> h.list[q].size + 1]
  /\ \A r \in ListId \ {q} : g.list[r] = h.list[r]
  /\ \A y \in Node :
       g.next[y] = IF y = x THEN Null
                   ELSE IF ~empty /\ y = h.list[q].back THEN x ELSE h.next[y]
  /\ \A y \in Node :
       g.prev[y] = IF y = x THEN IF empty THEN Null ELSE h.list[q].back ELSE h.prev[y]

(* ... after the first node of list q was unlinked, ... *)
AfterPopFront(g, h, q) ==
  LET l == h.list[q]
      n == h.next[l.front]
      last == l.front = l.back IN
  /\ g \in Sched /\ Keeps(g, h)
  /\ g.list[q] = [front |-> IF last THEN Null ELSE n,
                  back |-> IF last THEN Null ELSE l.back, size |-> l.size - 1]
  /\ \A r \in ListId \ {q} : g.list[r] = h.list[r]
  /\ \A y \in Node :
       g.next[y] = IF ~last /\ y = l.front THEN Null ELSE h.next[y]
  /\ \A y \in Node :
       g.prev[y] = IF ~last /\ y = n THEN Null ELSE h.prev[y]

(* ... and after x was unlinked from list q. *)
AfterRemove(g, h, q, x) ==
  LET l == h.list[q]
      n == h.next[x]
      p == h.prev[x] IN
  /\ g \in Sched /\ Keeps(g, h)
  /\ g.list[q] = [front |-> IF l.front = x THEN n ELSE l.front,
                  back |-> IF l.back = x THEN p ELSE l.back, size |-> l.size - 1]
  /\ \A r \in ListId \ {q} : g.list[r] = h.list[r]
  /\ \A y \in Node :
       g.next[y] = IF y = x THEN Null ELSE IF y = p THEN n ELSE h.next[y]
  /\ \A y \in Node :
       g.prev[y] = IF y = x THEN Null ELSE IF y = n THEN p ELSE h.prev[y]

(* The scheduler between two statements: its lists are intact and          *)
(* disjoint, what waits for the CPU is RUNNABLE, and so is the sleep       *)
(* thread when it does not have it.                                        *)
Sane(s) ==
  /\ s \in Sched /\ Intact(s) /\ ~s.panic /\ s.current \in Node
  /\ \A t \in Node : ~IsDying(s, t)
  /\ \A t \in On(s, "runnable") : s.state[t] = "RUNNABLE"
  /\ s.current # Idle => s.state[Idle] = "RUNNABLE"
  /\ \A q \in ListId \ {"runnable"} : Idle \notin On(s, q)
  /\ s.current \notin On(s, "runnable")

(* A thread that is on no list. *)
Off(s, u) == \A q \in ListId : u \notin On(s, q)

(* The lists have the same nodes. *)
SameOn(g, h) == \A q \in ListId : On(g, q) = On(h, q)

(* What the proofs about the kernel use of the lists.  size_ is 0 exactly  *)
(* when the list is empty and front_ null, front_ is on the list, and      *)
(* next_ leads to another node of the list or nowhere; ...                 *)
FrontPromise ==
  \A h \in Sched, q \in ListId :
    Intact(h) =>
      /\ h.list[q].size \in Nat
      /\ On(h, q) \subseteq Node
      /\ h.list[q].size = 0 <=> On(h, q) = {}
      /\ h.list[q].size = 0 <=> h.list[q].front = Null
      /\ h.list[q].size # 0 => h.list[q].front \in On(h, q)
      /\ \A x \in On(h, q) : h.next[x] \in (On(h, q) \ {x}) \cup {Null}
      /\ WellFormed(h, q)

(* ... a list is where its header and its links say; ... *)
SamePromise ==
  \A h, g \in Sched :
    Intact(h) /\ g.list = h.list /\ g.next = h.next /\ g.prev = h.prev
      => Intact(g) /\ \A q \in ListId : On(g, q) = On(h, q)

(* ... PushBack of a node that is on no list adds it to the one, ... *)
PushBackPromise ==
  \A h \in Sched, q \in ListId, x \in Node :
    Intact(h) /\ (\A r \in ListId : x \notin On(h, r)) =>
      LET g == PushBack(h, q, x)
      IN /\ g \in Sched /\ Keeps(g, h) /\ Intact(g)
         /\ On(g, q) = On(h, q) \cup {x}
         /\ \A r \in ListId \ {q} : On(g, r) = On(h, r)

(* ... PopFront of a list that is not empty takes its first node off, ... *)
PopFrontPromise ==
  \A h \in Sched, q \in ListId :
    Intact(h) /\ On(h, q) # {} =>
      LET g == PopFront(h, q)
      IN /\ g \in Sched /\ Keeps(g, h) /\ Intact(g)
         /\ On(g, q) = On(h, q) \ {h.list[q].front}
         /\ \A r \in ListId \ {q} : On(g, r) = On(h, r)

(* ... and Remove a node that is on the list.                              *)
RemovePromise ==
  \A h \in Sched, q \in ListId, x \in Node :
    Intact(h) /\ x \in On(h, q) =>
      LET g == Remove(h, q, x)
      IN /\ g \in Sched /\ Keeps(g, h) /\ Intact(g)
         /\ On(g, q) = On(h, q) \ {x}
         /\ \A r \in ListId \ {q} : On(g, r) = On(h, r)

(* What they use of the scheduler: SetState of a living thread changes the *)
(* state only, ...                                                         *)
StatePromise ==
  \A h \in Sched, x \in Node, st \in ThreadState :
    Intact(h) /\ ~IsDying(h, x) =>
      LET g == SetState(h, x, st)
      IN /\ g \in Sched /\ Intact(g) /\ SameOn(g, h)
         /\ g.state = [h.state EXCEPT ![x] = st]
         /\ g.list = h.list /\ g.ticks = h.ticks /\ g.current = h.current
         /\ g.panic = h.panic

(* ... there is no dead thread to clear, ... *)
DeadPromise == \A s : Sane(s) => ~DeadFront(s)

(* ... Preempt gives the CPU to a runnable thread or to nobody else, ... *)
PreemptPromise ==
  \A s : Sane(s) /\ Off(s, s.current) =>
    LET g == PreemptSwap(s)
    IN /\ Sane(g)
       /\ g.current \in On(s, "runnable") \cup {s.current}
       /\ On(g, "runnable") = (On(s, "runnable") \cup {s.current}) \ {g.current}
       /\ \A r \in ListId \ {"runnable"} : On(g, r) = On(s, r)
       /\ \A u \in Node \ {s.current, g.current} : g.state[u] = s.state[u]

(* ... Yield to a runnable thread or to the sleep thread, ... *)
YieldPromise ==
  \A s : Sane(s) /\ (s.current # Idle \/ On(s, "runnable") # {}) =>
    LET g == YieldSwap(s)
    IN /\ Sane(g) /\ g.current # s.current
       /\ g.current \in On(s, "runnable") \/ (g.current = Idle /\ On(s, "runnable") = {})
       /\ On(g, "runnable") = On(s, "runnable") \ {g.current}
       /\ \A r \in ListId \ {"runnable"} : On(g, r) = On(s, r)
       /\ \A u \in Node \ {s.current, g.current} : g.state[u] = s.state[u]

(* ... and the kernel boots with the sleep thread and no dead one.         *)
BootPromise ==
  /\ BootSched \in Sched /\ BootSched.current = Idle
  /\ \A t \in Node : ~IsDying(BootSched, t)

(* All of it; ListProofs proves it. *)
ListsWork ==
  /\ FrontPromise /\ SamePromise /\ PushBackPromise /\ PopFrontPromise /\ RemovePromise
  /\ StatePromise /\ DeadPromise /\ PreemptPromise /\ YieldPromise /\ BootPromise

=============================================================================
