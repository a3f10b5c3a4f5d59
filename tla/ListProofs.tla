----------------------------- MODULE ListProofs -----------------------------
(***************************************************************************)
(* What the operations of the intrusive lists and the scheduler's swaps do *)
(* to the lists of threads, for every set of threads.  The code never      *)
(* checks that a list is intact: the lemmas say which operations keep it   *)
(* so, and what they read and change when it is.                           *)
(***************************************************************************)
EXTENDS ListInvariants, TLAPS, WellFoundedInduction

(* A panic keeps the scheduler typed.                                      *)
LEMMA PanicType ==
  ASSUME NEW s \in Sched
  PROVE  Panic(s) \in Sched
BY Zenon DEF Panic, Sched

(* So does setting the ends and the size of a list.                        *)
LEMMA HeaderType ==
  ASSUME NEW s \in Sched, NEW q \in ListId
  PROVE  /\ s.list[q] \in Header
         /\ s.list[q].front \in Pointer
         /\ s.list[q].back \in Pointer
         /\ s.list[q].size \in Int
BY DEF Sched, Header

(* IntrusiveList::PushFront keeps the scheduler typed.                     *)
LEMMA PushFrontType ==
  ASSUME NEW s \in Sched, NEW q \in ListId, NEW x \in Node
  PROVE  PushFront(s, q, x) \in Sched
<1>. DEFINE l == s.list[q]
<1>1. l.front \in Pointer /\ l.back \in Pointer /\ l.size \in Int
  BY HeaderType
<1>2. CASE l.front = Null
  <2>. DEFINE hd == [front |-> x, back |-> x, size |-> l.size + 1]
              lists == [s.list EXCEPT ![q] = hd]
              nexts == [s.next EXCEPT ![x] = Null]
              prevs == [s.prev EXCEPT ![x] = Null]
  <2>1. hd \in Header
    BY <1>1 DEF Header, Pointer
  <2>2. lists \in [ListId -> Header]
    BY <2>1 DEF Sched
  <2>3. nexts \in [Node -> Pointer] /\ prevs \in [Node -> Pointer]
    BY DEF Sched, Pointer
  <2>4. PushFront(s, q, x)
          = [s EXCEPT !.list = lists, !.next = nexts, !.prev = prevs]
    BY <1>2 DEF PushFront
  <2>. HIDE DEF lists, nexts, prevs
  <2>. QED
    BY <2>2, <2>3, <2>4, Zenon DEF Sched
<1>3. CASE l.front # Null
  <2>. DEFINE hd == [front |-> x, back |-> l.back, size |-> l.size + 1]
              lists == [s.list EXCEPT ![q] = hd]
              nexts == [s.next EXCEPT ![x] = l.front]
              prevs == [[s.prev EXCEPT ![x] = Null] EXCEPT ![l.front] = x]
  <2>1. hd \in Header
    BY <1>1 DEF Header, Pointer
  <2>2. lists \in [ListId -> Header]
    BY <2>1 DEF Sched
  <2>3. nexts \in [Node -> Pointer] /\ prevs \in [Node -> Pointer]
    BY <1>1, <1>3 DEF Sched, Pointer
  <2>4. PushFront(s, q, x)
          = [s EXCEPT !.list = lists, !.next = nexts, !.prev = prevs]
    BY <1>3 DEF PushFront
  <2>. HIDE DEF lists, nexts, prevs
  <2>. QED
    BY <2>2, <2>3, <2>4, Zenon DEF Sched
<1>. QED
  BY <1>2, <1>3

(* IntrusiveList::PushBack keeps the scheduler typed.                      *)
LEMMA PushBackType ==
  ASSUME NEW s \in Sched, NEW q \in ListId, NEW x \in Node
  PROVE  PushBack(s, q, x) \in Sched
<1>. DEFINE l == s.list[q]
<1>1. l.front \in Pointer /\ l.back \in Pointer /\ l.size \in Int
  BY HeaderType
<1>2. CASE l.front = Null
  BY <1>2, PushFrontType DEF PushBack
<1>3. CASE l.front # Null /\ l.back = Null
  BY <1>3, PanicType DEF PushBack
<1>4. CASE l.front # Null /\ l.back # Null
  <2>. DEFINE hd == [front |-> l.front, back |-> x, size |-> l.size + 1]
              lists == [s.list EXCEPT ![q] = hd]
              nexts == [[s.next EXCEPT ![l.back] = x] EXCEPT ![x] = Null]
              prevs == [s.prev EXCEPT ![x] = l.back]
  <2>1. hd \in Header
    BY <1>1 DEF Header, Pointer
  <2>2. lists \in [ListId -> Header]
    BY <2>1 DEF Sched
  <2>3. nexts \in [Node -> Pointer] /\ prevs \in [Node -> Pointer]
    BY <1>1, <1>4 DEF Sched, Pointer
  <2>4. PushBack(s, q, x)
          = [s EXCEPT !.list = lists, !.next = nexts, !.prev = prevs]
    BY <1>4 DEF PushBack
  <2>. HIDE DEF lists, nexts, prevs
  <2>. QED
    BY <2>2, <2>3, <2>4, Zenon DEF Sched
<1>. QED
  BY <1>2, <1>3, <1>4

(* IntrusiveList::PopFront keeps the scheduler typed.                      *)
LEMMA PopFrontType ==
  ASSUME NEW s \in Sched, NEW q \in ListId
  PROVE  PopFront(s, q) \in Sched
<1>. DEFINE l == s.list[q]
            n == s.next[l.front]
<1>1. l.front \in Pointer /\ l.back \in Pointer /\ l.size \in Int
  BY HeaderType
<1>2. CASE l.front = Null
  BY <1>2 DEF PopFront
<1>3. CASE l.front # Null /\ l.front = l.back
  <2>. DEFINE hd == [front |-> Null, back |-> Null, size |-> l.size - 1]
              lists == [s.list EXCEPT ![q] = hd]
  <2>1. hd \in Header
    BY <1>1 DEF Header, Pointer
  <2>2. lists \in [ListId -> Header]
    BY <2>1 DEF Sched
  <2>3. PopFront(s, q) = [s EXCEPT !.list = lists]
    BY <1>3 DEF PopFront
  <2>. HIDE DEF lists
  <2>. QED
    BY <2>2, <2>3 DEF Sched
<1>4. CASE l.front # Null /\ l.front # l.back /\ n = Null
  BY <1>4, PanicType DEF PopFront
<1>5. CASE l.front # Null /\ l.front # l.back /\ n # Null
  <2>. DEFINE hd == [front |-> n, back |-> l.back, size |-> l.size - 1]
              lists == [s.list EXCEPT ![q] = hd]
              nexts == [s.next EXCEPT ![l.front] = Null]
              prevs == [s.prev EXCEPT ![n] = Null]
  <2>1. n \in Node
    BY <1>1, <1>5 DEF Sched, Pointer
  <2>2. hd \in Header
    BY <1>1, <2>1 DEF Header, Pointer
  <2>3. lists \in [ListId -> Header]
    BY <2>2 DEF Sched
  <2>4. nexts \in [Node -> Pointer] /\ prevs \in [Node -> Pointer]
    BY <1>1, <1>5, <2>1 DEF Sched, Pointer
  <2>5. PopFront(s, q)
          = [s EXCEPT !.list = lists, !.next = nexts, !.prev = prevs]
    BY <1>5, Zenon DEF PopFront
  <2>. HIDE DEF lists, nexts, prevs
  <2>. QED
    BY <2>3, <2>4, <2>5, Zenon DEF Sched
<1>. QED
  BY <1>2, <1>3, <1>4, <1>5

(* IntrusiveList::Remove keeps the scheduler typed.                        *)
LEMMA RemoveType ==
  ASSUME NEW s \in Sched, NEW q \in ListId, NEW x \in Node
  PROVE  Remove(s, q, x) \in Sched
<1>. DEFINE l == s.list[q]
            n == s.next[x]
            p == s.prev[x]
            ns == IF p = Null THEN s.next ELSE [s.next EXCEPT ![p] = n]
            ps == IF n = Null THEN s.prev ELSE [s.prev EXCEPT ![n] = p]
            hd == [front |-> IF l.front = x THEN n ELSE l.front,
                   back  |-> IF l.back = x THEN p ELSE l.back,
                   size  |-> l.size - 1]
            lists == [s.list EXCEPT ![q] = hd]
            nexts == [ns EXCEPT ![x] = Null]
            prevs == [ps EXCEPT ![x] = Null]
<1>1. l.front \in Pointer /\ l.back \in Pointer /\ l.size \in Int
  BY HeaderType
<1>2. n \in Pointer /\ p \in Pointer
  BY DEF Sched
<1>3. ns \in [Node -> Pointer] /\ ps \in [Node -> Pointer]
  BY <1>2 DEF Sched, Pointer
<1>4. nexts \in [Node -> Pointer] /\ prevs \in [Node -> Pointer]
  <2>. HIDE DEF ns, ps
  <2>. QED
    BY <1>3 DEF Pointer
<1>5. hd \in Header
  BY <1>1, <1>2 DEF Header
<1>6. lists \in [ListId -> Header]
  BY <1>5 DEF Sched
<1>7. Remove(s, q, x)
        = [s EXCEPT !.list = lists, !.next = nexts, !.prev = prevs]
  BY DEF Remove
<1>. HIDE DEF lists, nexts, prevs
<1>. QED
  BY <1>4, <1>6, <1>7, Zenon DEF Sched

(* The scheduler that boot builds is typed.                                *)
LEMMA BootSchedType ==
  /\ BootSched \in Sched
  /\ BootSched.current = Idle
  /\ \A t \in Node : ~IsDying(BootSched, t)
<1>. DEFINE lists == [q \in ListId |-> EmptyHeader]
            nulls == [t \in Node |-> Null]
            states == [t \in Node |-> "CREATED"]
            zeros == [t \in Node |-> 0]
<1>1. lists \in [ListId -> Header]
  BY DEF EmptyHeader, Header, Pointer
<1>2. nulls \in [Node -> Pointer]
  BY DEF Pointer
<1>3. states \in [Node -> ThreadState]
  BY DEF ThreadState
<1>4. zeros \in [Node -> Nat]
  OBVIOUS
<1>5. BootSched = [list |-> lists, next |-> nulls, prev |-> nulls,
                   state |-> states, ticks |-> zeros, current |-> Idle,
                   panic |-> FALSE]
  BY DEF BootSched
<1>6. BootSched \in Sched /\ BootSched.current = Idle
  <2>. HIDE DEF lists, nulls, states, zeros
  <2>. QED
    BY <1>1, <1>2, <1>3, <1>4, <1>5, SchedulerAssumption DEF Sched, Pointer
<1>7. BootSched.state = states
  <2>. HIDE DEF lists, nulls, states, zeros
  <2>. QED
    BY <1>5
<1>. QED
  BY <1>6, <1>7 DEF IsDying

(* A set of numbers has a least element when some member has none below it *)
(* in a relation that contains <.                                          *)
LEMMA LeastOf ==
  ASSUME NEW R, NEW F, F \subseteq Nat,
         \E s \in F : \A t \in F : ~(<<t, s>> \in R),
         \A x, y \in Nat : x < y => <<x, y>> \in R
  PROVE  \E s \in F : \A t \in F : s <= t
<1>1. PICK s \in F : \A t \in F : ~(<<t, s>> \in R)
  OBVIOUS
<1>2. \A t \in F : ~(t < s)
  BY <1>1, Zenon
<1>. QED
  BY <1>1, <1>2

(* Every nonempty set of natural numbers has a least element: what stands  *)
(* in for induction below.                                                 *)
LEMMA LeastNat ==
  ASSUME NEW F, F \subseteq Nat, F # {}
  PROVE  \E s \in F : \A t \in F : s <= t
<1>1. \A x, y \in Nat : x < y => <<x, y>> \in OpToRel(<, Nat)
  BY Zenon DEF OpToRel
<1>2. \E s \in F : \A t \in F : ~(<<t, s>> \in OpToRel(<, Nat))
  BY WFMin, NatLessThanWellFounded, Zenon
<1>. QED
  BY <1>1, <1>2, LeastOf, Zenon

(* The nodes reached from front_ by next_ are the ones the list spells: a  *)
(* least position at which they differed would follow one at which they    *)
(* agree.                                                                  *)
LEMMA ChainIs ==
  ASSUME NEW h \in Sched, NEW q \in ListId, NEW c, Spells(h, q, c)
  PROVE  Chain(h, q) = c
<1>. DEFINE l == h.list[q]
            n == l.size
            Eq(g) == [i \in 1 .. n |-> IF i = 1 THEN l.front
                                       ELSE IF g[i - 1] = Null THEN Null
                                       ELSE h.next[g[i - 1]]]
            nd == CHOOSE g : g = Eq(g)
<1>1. n \in Nat /\ c \in [1 .. n -> Node] /\ Null \notin Node
  BY NullAssumption DEF Spells
<1>2. \A i \in 1 .. n : i = 1 => c[i] = l.front
  BY <1>1 DEF Spells
<1>3. \A i \in 1 .. n : i # 1 => /\ i - 1 \in 1 .. n /\ c[i - 1] # Null
                                /\ c[i] = h.next[c[i - 1]]
  BY <1>1 DEF Spells
<1>4. c = Eq(c)
  BY <1>1, <1>2, <1>3
<1>5. nd = Eq(nd)
  <2>. HIDE DEF Eq
  <2>. QED
    BY <1>4, Zenon
<1>6. Chain(h, q) = [i \in 1 .. n |-> nd[i]]
  BY Zenon DEF Chain
<1>. HIDE DEF nd
<1>7. \A i \in 1 .. n : nd[i] = IF i = 1 THEN l.front
                               ELSE IF nd[i - 1] = Null THEN Null
                               ELSE h.next[nd[i - 1]]
  BY <1>5, Zenon
<1>8. \A i \in 1 .. n : nd[i] = c[i]
  <2>. DEFINE F == {i \in 1 .. n : nd[i] # c[i]}
  <2>. SUFFICES ASSUME F # {} PROVE FALSE
    OBVIOUS
  <2>1. F \subseteq Nat
    BY <1>1
  <2>2. PICK s \in F : \A t \in F : s <= t
    BY <2>1, LeastNat, Zenon
  <2>3. s \in 1 .. n /\ nd[s] # c[s]
    OBVIOUS
  <2>4. s # 1
    BY <1>2, <1>7, <2>3
  <2>5. nd[s - 1] = c[s - 1]
    BY <1>3, <2>2, <2>3, <2>4
  <2>. HIDE DEF F
  <2>. QED
    BY <1>3, <1>7, <2>3, <2>4, <2>5
<1>. QED
  BY <1>1, <1>6, <1>8

(* Such a list is well formed, and On gives its nodes. *)
LEMMA SpelledOut ==
  ASSUME NEW h \in Sched, NEW q \in ListId, NEW c, Spells(h, q, c)
  PROVE  /\ WellFormed(h, q)
         /\ On(h, q) = {c[i] : i \in 1 .. h.list[q].size}
<1>1. Chain(h, q) = c
  BY ChainIs
<1>2. On(h, q) = {c[i] : i \in 1 .. h.list[q].size}
  BY <1>1 DEF On
<1>. DEFINE l == h.list[q]
            n == l.size
<1>3. CASE n = 0
  <2>1. h.list[q].size = 0 /\ h.list[q].front = Null /\ h.list[q].back = Null
    BY <1>3 DEF Spells
  <2>. QED
    BY <1>2, <2>1, Zenon DEF WellFormed
<1>4. CASE n # 0
  <2>1. /\ n \in Nat /\ n > 0 /\ n \in 1 .. n /\ 1 \in 1 .. n
        /\ c \in [1 .. n -> Node]
    BY <1>4 DEF Spells
  <2>2. l.front = c[1] /\ l.back = c[n] /\ h.next[l.back] = Null /\ h.prev[l.front] = Null
    BY <2>1, <1>4, Zenon DEF Spells
  <2>3. \A i \in 2 .. n : h.prev[c[i]] = c[i - 1]
    BY <2>1 DEF Spells
  <2>4. \A i, j \in 1 .. n : c[i] = c[j] => i = j
    BY DEF Spells
  <2>5. \A i \in 1 .. n : c[i] \in Node
    BY <2>1
  <2>. QED
    BY <1>1, <1>2, <1>4, <2>1, <2>2, <2>3, <2>4, <2>5, Zenon DEF WellFormed
<1>. QED
  BY <1>2, <1>3, <1>4

(* What the scheduler reads of an intact list: size_ is 0 exactly when the *)
(* list is empty and front_ null, front_ is on the list, and next_ leads   *)
(* to another node of the list or nowhere.                                 *)
LEMMA FrontIs ==
  ASSUME NEW h \in Sched, Intact(h), NEW q \in ListId
  PROVE  /\ h.list[q].size \in Nat
         /\ On(h, q) \subseteq Node
         /\ h.list[q].size = 0 <=> On(h, q) = {}
         /\ h.list[q].size = 0 <=> h.list[q].front = Null
         /\ h.list[q].size # 0 => h.list[q].front \in On(h, q)
         /\ \A x \in On(h, q) : h.next[x] \in (On(h, q) \ {x}) \cup {Null}
         /\ WellFormed(h, q)
<1>1. PICK c : Spells(h, q, c)
  BY DEF Intact, Linked
<1>. DEFINE n == h.list[q].size
<1>2. n \in Nat /\ c \in [1 .. n -> Node] /\ Null \notin Node
  BY <1>1, NullAssumption DEF Spells
<1>3. On(h, q) = {c[i] : i \in 1 .. n} /\ WellFormed(h, q)
  BY <1>1, SpelledOut
<1>4. n = 0 => On(h, q) = {}
  BY <1>2, <1>3
<1>5. n # 0 => 1 \in 1 .. n /\ c[1] \in On(h, q)
  BY <1>2, <1>3
<1>6. h.list[q].front = IF n = 0 THEN Null ELSE c[1]
  BY <1>1 DEF Spells
<1>7. On(h, q) \subseteq Node
  BY <1>2, <1>3
<1>8. ASSUME NEW x \in On(h, q)
      PROVE  h.next[x] \in (On(h, q) \ {x}) \cup {Null}
  <2>1. PICK i \in 1 .. n : x = c[i]
    BY <1>3
  <2>2. h.next[c[i]] = IF i = n THEN Null ELSE c[i + 1]
    BY <1>1 DEF Spells
  <2>3. i # n => i + 1 \in 1 .. n
    BY <1>2
  <2>4. i # n => c[i + 1] \in On(h, q)
    BY <1>3, <2>3
  <2>5. \A j, k \in 1 .. n : c[j] = c[k] => j = k
    BY <1>1, Zenon DEF Spells
  <2>6. i # n => c[i + 1] # c[i]
    BY <1>2, <2>3, <2>5
  <2>. QED
    BY <2>1, <2>2, <2>4, <2>6
<1>. HIDE DEF n
<1>. QED
  BY <1>2, <1>3, <1>4, <1>5, <1>6, <1>7, <1>8, Zenon DEF n

(* A list none of whose links changes is the same list. *)
LEMMA SameList ==
  ASSUME NEW h \in Sched, NEW g \in Sched, NEW q \in ListId, Linked(h, q),
         g.list[q] = h.list[q],
         \A x \in On(h, q) : g.next[x] = h.next[x] /\ g.prev[x] = h.prev[x]
  PROVE  Linked(g, q) /\ On(g, q) = On(h, q)
<1>1. PICK c : Spells(h, q, c)
  BY DEF Linked
<1>2. On(h, q) = {c[i] : i \in 1 .. h.list[q].size}
  BY <1>1, SpelledOut
<1>3. \A i \in 1 .. h.list[q].size : g.next[c[i]] = h.next[c[i]] /\ g.prev[c[i]] = h.prev[c[i]]
  BY <1>2
<1>4. Spells(g, q, c)
  <2>. DEFINE n == h.list[q].size
  <2>1. \A i \in 1 .. n : /\ h.next[c[i]] = IF i = n THEN Null ELSE c[i + 1]
                          /\ h.prev[c[i]] = IF i = 1 THEN Null ELSE c[i - 1]
    BY <1>1, Zenon DEF Spells
  <2>2. g.list[q].size = n
    OBVIOUS
  <2>3. \A i \in 1 .. n : /\ g.next[c[i]] = IF i = n THEN Null ELSE c[i + 1]
                          /\ g.prev[c[i]] = IF i = 1 THEN Null ELSE c[i - 1]
    BY <1>3, <2>1
  <2>. QED
    BY <1>1, <2>2, <2>3, ZenonT(40) DEF Spells
<1>. QED
  BY <1>2, <1>4, SpelledOut DEF Linked

(* Nothing but the links and the headers matters. *)
LEMMA SameLists ==
  ASSUME NEW h \in Sched, NEW g \in Sched, Intact(h),
         g.list = h.list, g.next = h.next, g.prev = h.prev
  PROVE  Intact(g) /\ \A q \in ListId : On(g, q) = On(h, q)
<1>1. ASSUME NEW q \in ListId
      PROVE  Linked(g, q) /\ On(g, q) = On(h, q)
  BY SameList DEF Intact
<1>. QED
  BY <1>1 DEF Intact

(* An operation on one list that touches no node of the others. *)
LEMMA OneListChanges ==
  ASSUME NEW h \in Sched, NEW g \in Sched, Intact(h), NEW q \in ListId, NEW c,
         Spells(g, q, c),
         \A r \in ListId \ {q} : g.list[r] = h.list[r],
         \A r \in ListId \ {q} : \A x \in On(h, r) : g.next[x] = h.next[x] /\ g.prev[x] = h.prev[x],
         \A r \in ListId \ {q} : \A i \in 1 .. g.list[q].size : c[i] \notin On(h, r)
  PROVE  /\ Intact(g)
         /\ On(g, q) = {c[i] : i \in 1 .. g.list[q].size}
         /\ \A r \in ListId \ {q} : On(g, r) = On(h, r)
<1>1. On(g, q) = {c[i] : i \in 1 .. g.list[q].size} /\ Linked(g, q)
  BY SpelledOut DEF Linked
<1>2. ASSUME NEW r \in ListId \ {q}
      PROVE  Linked(g, r) /\ On(g, r) = On(h, r)
  BY SameList DEF Intact
<1>3. ASSUME NEW r \in ListId \ {q}
      PROVE  On(g, r) \cap On(g, q) = {}
  BY <1>1, <1>2
<1>4. ASSUME NEW r \in ListId, NEW s \in ListId, r # s
      PROVE  On(g, r) \cap On(g, s) = {}
  <2>1. CASE r = q
    BY <1>3, <1>4, <2>1
  <2>2. CASE s = q
    BY <1>3, <1>4, <2>2
  <2>3. CASE r # q /\ s # q
    BY <1>2, <1>4, <2>3 DEF Intact
  <2>. QED
    BY <2>1, <2>2, <2>3
<1>. QED
  BY <1>1, <1>2, <1>4 DEF Intact

(* PushBack, field by field. *)
LEMMA PushBackLinks ==
  ASSUME NEW h \in Sched, NEW q \in ListId, NEW x \in Node,
         h.list[q].front = Null \/ h.list[q].back # Null
  PROVE  AfterPushBack(PushBack(h, q, x), h, q, x)
<1>. DEFINE g == PushBack(h, q, x)
            l == h.list[q]
<1>1. g \in Sched
  BY PushBackType
<1>2. l.front \in Pointer /\ l.back \in Pointer /\ l.size \in Int
  BY HeaderType
<1>3. CASE l.front = Null
  <2>. DEFINE hd == [front |-> x, back |-> x, size |-> l.size + 1]
  <2>1. g = [h EXCEPT !.list[q] = hd, !.next[x] = Null, !.prev[x] = Null]
    BY <1>3 DEF PushBack, PushFront
  <2>. HIDE DEF hd, g, AfterPushBack
  <2>2. /\ g.list = [h.list EXCEPT ![q] = hd] /\ g.next = [h.next EXCEPT ![x] = Null]
        /\ g.prev = [h.prev EXCEPT ![x] = Null] /\ Keeps(g, h)
    BY <2>1 DEF Sched, Keeps
  <2>3. g.list[q] = hd /\ \A r \in ListId \ {q} : g.list[r] = h.list[r]
    BY <2>2 DEF Sched
  <2>4. \A y \in Node : g.next[y] = IF y = x THEN Null ELSE h.next[y]
    BY <2>2 DEF Sched
  <2>5. \A y \in Node : g.prev[y] = IF y = x THEN Null ELSE h.prev[y]
    BY <2>2 DEF Sched
  <2>. QED
    BY <1>1, <1>3, <2>2, <2>3, <2>4, <2>5 DEF hd, g, AfterPushBack
<1>4. CASE l.front # Null
  <2>. DEFINE hd == [front |-> l.front, back |-> x, size |-> l.size + 1]
  <2>1. g = [h EXCEPT !.list[q] = hd,
                      !.next = [[@ EXCEPT ![l.back] = x] EXCEPT ![x] = Null],
                      !.prev[x] = l.back]
    BY <1>4 DEF PushBack
  <2>. HIDE DEF hd, g, AfterPushBack
  <2>2. /\ g.list = [h.list EXCEPT ![q] = hd]
        /\ g.next = [[h.next EXCEPT ![l.back] = x] EXCEPT ![x] = Null]
        /\ g.prev = [h.prev EXCEPT ![x] = l.back] /\ Keeps(g, h)
    BY <2>1 DEF Sched, Keeps
  <2>3. g.list[q] = hd /\ \A r \in ListId \ {q} : g.list[r] = h.list[r]
    BY <2>2 DEF Sched
  <2>4. \A y \in Node : g.next[y] = IF y = x THEN Null ELSE IF y = l.back THEN x ELSE h.next[y]
    BY <2>2 DEF Sched
  <2>5. \A y \in Node : g.prev[y] = IF y = x THEN l.back ELSE h.prev[y]
    BY <2>2 DEF Sched
  <2>. QED
    BY <1>1, <1>4, <2>2, <2>3, <2>4, <2>5, Zenon DEF hd, g, AfterPushBack
<1>. QED
  BY <1>3, <1>4, Zenon

(* PushBack of a node that is on no list adds it to the one, and leaves    *)
(* all lists intact.                                                       *)
LEMMA PushBackIntact ==
  ASSUME NEW h \in Sched, Intact(h), NEW q \in ListId, NEW x \in Node,
         \A r \in ListId : x \notin On(h, r)
  PROVE  LET g == PushBack(h, q, x)
         IN /\ g \in Sched /\ Keeps(g, h) /\ Intact(g)
            /\ On(g, q) = On(h, q) \cup {x}
            /\ \A r \in ListId \ {q} : On(g, r) = On(h, r)
<1>. DEFINE g == PushBack(h, q, x)
            l == h.list[q]
            n == l.size
<1>1. PICK c : Spells(h, q, c)
  BY DEF Intact, Linked
<1>2. On(h, q) = {c[i] : i \in 1 .. n}
  BY <1>1, SpelledOut
<1>3. /\ n \in Nat /\ c \in [1 .. n -> Node] /\ Null \notin Node
      /\ l.front = (IF n = 0 THEN Null ELSE c[1]) /\ l.back = (IF n = 0 THEN Null ELSE c[n])
  BY <1>1, NullAssumption, Zenon DEF Spells
<1>4. l.front = Null \/ l.back # Null
  BY <1>3
<1>5. l.front = Null <=> n = 0
  BY <1>3
<1>6. /\ g \in Sched /\ Keeps(g, h)
      /\ g.list[q] = [front |-> IF n = 0 THEN x ELSE l.front, back |-> x, size |-> n + 1]
      /\ \A r \in ListId \ {q} : g.list[r] = h.list[r]
      /\ \A y \in Node : g.next[y] = IF y = x THEN Null
                                     ELSE IF n # 0 /\ y = l.back THEN x ELSE h.next[y]
      /\ \A y \in Node : g.prev[y] = IF y = x THEN IF n = 0 THEN Null ELSE l.back ELSE h.prev[y]
  <2>1. AfterPushBack(g, h, q, x)
    BY <1>4, PushBackLinks, Zenon
  <2>. HIDE DEF g
  <2>. QED
    BY <1>5, <2>1, Zenon DEF AfterPushBack
<1>. HIDE DEF g, l, n
<1>. DEFINE d == [i \in 1 .. n + 1 |-> IF i = n + 1 THEN x ELSE c[i]]
<1>7. g.list[q].size = n + 1 /\ g.list[q].back = x /\ g.list[q].front = IF n = 0 THEN x ELSE l.front
  BY <1>6
<1>8. \A i \in 1 .. n : c[i] # x
  BY <1>2
<1>9. Spells(g, q, d)
  <2>1. /\ n + 1 \in Nat /\ d \in [1 .. n + 1 -> Node]
        /\ d[n + 1] = x /\ \A i \in 1 .. n : d[i] = c[i]
    BY <1>3
  <2>2. g.list[q].front = d[1] /\ g.list[q].back = d[n + 1]
    BY <1>3, <1>7
  <2>3. /\ \A i, j \in 1 .. n : c[i] = c[j] => i = j
        /\ \A i \in 1 .. n : c[i] \in Node
    BY <1>1, <1>3, Zenon DEF Spells, l, n
  <2>4. \A i \in 1 .. n : /\ h.next[c[i]] = IF i = n THEN Null ELSE c[i + 1]
                          /\ h.prev[c[i]] = IF i = 1 THEN Null ELSE c[i - 1]
    BY <1>1, Zenon DEF Spells, l, n
  <2>5. n # 0 => l.back = c[n] /\ n \in 1 .. n
    BY <1>3
  <2>6. n \in Nat /\ x \in Node
    BY <1>3
  <2>. HIDE DEF d
  <2>7. /\ g.next[x] = Null
        /\ \A i \in 1 .. n : g.next[c[i]] = IF i = n THEN x ELSE h.next[c[i]]
    <3>1. \A y \in Node : /\ y = x => g.next[y] = Null
                          /\ y # x /\ n # 0 /\ y = l.back => g.next[y] = x
                          /\ y # x /\ ~(n # 0 /\ y = l.back) => g.next[y] = h.next[y]
      BY <1>6, Zenon
    <3>2. \A i \in 1 .. n : n # 0 /\ (c[i] = c[n] <=> i = n)
      BY <2>3, <2>5, <2>6
    <3>. QED
      BY <1>8, <2>3, <2>5, <2>6, <3>1, <3>2
  <2>8. /\ g.prev[x] = IF n = 0 THEN Null ELSE c[n]
        /\ \A i \in 1 .. n : g.prev[c[i]] = h.prev[c[i]]
    <3>1. \A y \in Node : /\ y = x /\ n = 0 => g.prev[y] = Null
                          /\ y = x /\ n # 0 => g.prev[y] = l.back
                          /\ y # x => g.prev[y] = h.prev[y]
      BY <1>6, Zenon
    <3>. QED
      BY <1>8, <2>3, <2>5, <2>6, <3>1, Zenon
  <2>9. ASSUME NEW i \in 1 .. n + 1
        PROVE  /\ g.next[d[i]] = IF i = n + 1 THEN Null ELSE d[i + 1]
               /\ g.prev[d[i]] = IF i = 1 THEN Null ELSE d[i - 1]
    <3>1. CASE i = n + 1
      BY <2>1, <2>6, <2>7, <2>8, <3>1
    <3>2. CASE i \in 1 .. n
      BY <2>1, <2>4, <2>6, <2>7, <2>8, <3>2, SMTT(30)
    <3>. QED
      BY <2>6, <3>1, <3>2
  <2>10. \A i, j \in 1 .. n + 1 : d[i] = d[j] => i = j
    BY <1>8, <2>1, <2>3, <2>6
  <2>11. g.list[q].size = n + 1 /\ n + 1 # 0
    BY <1>7, <2>6
  <2>. QED
    <3>. DEFINE m == n + 1
    <3>1. /\ m \in Nat /\ m # 0 /\ d \in [1 .. m -> Node] /\ g.list[q].size = m
          /\ g.list[q].front = d[1] /\ g.list[q].back = d[m]
          /\ \A i, j \in 1 .. m : d[i] = d[j] => i = j
          /\ \A i \in 1 .. m : /\ g.next[d[i]] = IF i = m THEN Null ELSE d[i + 1]
                               /\ g.prev[d[i]] = IF i = 1 THEN Null ELSE d[i - 1]
      BY <2>1, <2>2, <2>9, <2>10, <2>11, Zenon
    <3>. HIDE DEF m
    <3>. QED
      BY <3>1, Zenon DEF Spells
<1>10. ASSUME NEW r \in ListId \ {q}
       PROVE  /\ \A y \in On(h, r) : g.next[y] = h.next[y] /\ g.prev[y] = h.prev[y]
              /\ \A i \in 1 .. n + 1 : d[i] \notin On(h, r)
  <2>1. On(h, r) \cap On(h, q) = {} /\ On(h, r) \subseteq Node /\ x \notin On(h, r)
    BY FrontIs DEF Intact
  <2>2. \A i \in 1 .. n : c[i] \notin On(h, r)
    BY <1>2, <2>1
  <2>3. n # 0 => l.back \notin On(h, r)
    BY <1>3, <2>2
  <2>4. \A y \in On(h, r) : y # x /\ ~(n # 0 /\ y = l.back)
    BY <2>1, <2>3
  <2>5. \A y \in On(h, r) : g.next[y] = h.next[y] /\ g.prev[y] = h.prev[y]
    BY <1>6, <2>1, <2>4, Zenon
  <2>6. \A i \in 1 .. n + 1 : d[i] \notin On(h, r)
    BY <1>3, <2>1, <2>2
  <2>. QED
    BY <2>5, <2>6
<1>11. {d[i] : i \in 1 .. n + 1} = On(h, q) \cup {x}
  <2>1. d[n + 1] = x /\ n + 1 \in 1 .. n + 1
    BY <1>3
  <2>2. \A i \in 1 .. n : i \in 1 .. n + 1 /\ d[i] = c[i]
    BY <1>3
  <2>3. \A i \in 1 .. n + 1 : i = n + 1 \/ i \in 1 .. n
    BY <1>3
  <2>. HIDE DEF d
  <2>. QED
    BY <1>2, <2>1, <2>2, <2>3
<1>. HIDE DEF d
<1>12. /\ Intact(g)
       /\ On(g, q) = {d[i] : i \in 1 .. n + 1}
       /\ \A r \in ListId \ {q} : On(g, r) = On(h, r)
  <2>1. /\ g \in Sched /\ \A r \in ListId \ {q} : g.list[r] = h.list[r]
        /\ g.list[q].size = n + 1
    BY <1>6, <1>7, Zenon
  <2>2. \A r \in ListId \ {q} : \A y \in On(h, r) : g.next[y] = h.next[y] /\ g.prev[y] = h.prev[y]
    BY <1>10, Zenon
  <2>3. \A r \in ListId \ {q} : \A i \in 1 .. g.list[q].size : d[i] \notin On(h, r)
    BY <1>10, <2>1, Zenon
  <2>4. /\ Intact(g)
        /\ On(g, q) = {d[i] : i \in 1 .. g.list[q].size}
        /\ \A r \in ListId \ {q} : On(g, r) = On(h, r)
    BY <1>9, <2>1, <2>2, <2>3, OneListChanges, Zenon
  <2>. QED
    BY <2>1, <2>4, Zenon
<1>. QED
  BY <1>6, <1>11, <1>12, Zenon DEF g

(* PopFront, field by field. *)
LEMMA PopFrontLinks ==
  ASSUME NEW h \in Sched, NEW q \in ListId, h.list[q].front # Null,
         h.list[q].front = h.list[q].back \/ h.next[h.list[q].front] # Null
  PROVE  AfterPopFront(PopFront(h, q), h, q)
<1>. DEFINE g == PopFront(h, q)
            l == h.list[q]
            n == h.next[l.front]
<1>1. g \in Sched
  BY PopFrontType
<1>2. l.front \in Node /\ l.back \in Pointer /\ l.size \in Int
  BY HeaderType DEF Pointer
<1>3. CASE l.front = l.back
  <2>. DEFINE hd == [front |-> Null, back |-> Null, size |-> l.size - 1]
  <2>1. g = [h EXCEPT !.list[q] = hd]
    BY <1>3 DEF PopFront
  <2>. HIDE DEF hd, g, AfterPopFront
  <2>2. g.list = [h.list EXCEPT ![q] = hd] /\ g.next = h.next /\ g.prev = h.prev /\ Keeps(g, h)
    BY <2>1 DEF Sched, Keeps
  <2>3. g.list[q] = hd /\ \A r \in ListId \ {q} : g.list[r] = h.list[r]
    BY <2>2 DEF Sched
  <2>. QED
    BY <1>1, <1>3, <2>2, <2>3, Zenon DEF hd, g, AfterPopFront
<1>4. CASE l.front # l.back
  <2>. DEFINE hd == [front |-> n, back |-> l.back, size |-> l.size - 1]
  <2>1. g = [h EXCEPT !.list[q] = hd, !.prev[n] = Null, !.next[l.front] = Null]
    BY <1>4 DEF PopFront
  <2>. HIDE DEF hd, g, AfterPopFront
  <2>2. /\ g.list = [h.list EXCEPT ![q] = hd]
        /\ g.next = [h.next EXCEPT ![l.front] = Null]
        /\ g.prev = [h.prev EXCEPT ![n] = Null] /\ Keeps(g, h)
    BY <2>1 DEF Sched, Keeps
  <2>3. g.list[q] = hd /\ \A r \in ListId \ {q} : g.list[r] = h.list[r]
    BY <2>2, Zenon DEF Sched
  <2>4. \A y \in Node : g.next[y] = IF y = l.front THEN Null ELSE h.next[y]
    BY <2>2 DEF Sched
  <2>5. \A y \in Node : g.prev[y] = IF y = n THEN Null ELSE h.prev[y]
    BY <2>2 DEF Sched
  <2>. QED
    BY <1>1, <1>4, <2>2, <2>3, <2>4, <2>5, Zenon DEF hd, g, AfterPopFront
<1>. QED
  BY <1>3, <1>4, Zenon

(* PopFront of a list that is not empty takes its first node off. *)
LEMMA PopFrontIntact ==
  ASSUME NEW h \in Sched, Intact(h), NEW q \in ListId, On(h, q) # {}
  PROVE  LET g == PopFront(h, q)
         IN /\ g \in Sched /\ Keeps(g, h) /\ Intact(g)
            /\ On(g, q) = On(h, q) \ {h.list[q].front}
            /\ \A r \in ListId \ {q} : On(g, r) = On(h, r)
<1>. DEFINE g == PopFront(h, q)
            l == h.list[q]
            n == l.size
            x == l.front
<1>1. PICK c : Spells(h, q, c)
  BY DEF Intact, Linked
<1>2. On(h, q) = {c[i] : i \in 1 .. n}
  BY <1>1, SpelledOut
<1>3. /\ n \in Nat /\ n # 0 /\ c \in [1 .. n -> Node] /\ Null \notin Node
      /\ x = c[1] /\ l.back = c[n] /\ 1 \in 1 .. n /\ n \in 1 .. n
  <2>1. /\ n \in Nat /\ c \in [1 .. n -> Node] /\ l.front = (IF n = 0 THEN Null ELSE c[1])
        /\ l.back = (IF n = 0 THEN Null ELSE c[n])
    BY <1>1, Zenon DEF Spells
  <2>. HIDE DEF l, n
  <2>2. n # 0
    BY <1>2, <2>1
  <2>3. 1 \in 1 .. n /\ n \in 1 .. n
    BY <2>1, <2>2
  <2>. QED
    BY <2>1, <2>2, <2>3, NullAssumption, Zenon
<1>4. \A i, j \in 1 .. n : c[i] = c[j] => i = j
  BY <1>1, Zenon DEF Spells
<1>5. \A i \in 1 .. n : /\ h.next[c[i]] = IF i = n THEN Null ELSE c[i + 1]
                        /\ h.prev[c[i]] = IF i = 1 THEN Null ELSE c[i - 1]
  BY <1>1, Zenon DEF Spells
<1>6. /\ x = l.back <=> n = 1
      /\ n # 1 => 2 \in 1 .. n /\ h.next[x] = c[2] /\ c[2] # Null
      /\ x # Null
  <2>. HIDE DEF l, n, x
  <2>1. n # 1 => 2 \in 1 .. n /\ 1 + 1 = 2
    BY <1>3
  <2>2. x = l.back <=> n = 1
    BY <1>3, <1>4, Zenon
  <2>3. n # 1 => h.next[x] = c[2] /\ c[2] # Null
    <3>1. n # 1 => h.next[x] = c[1 + 1]
      BY <1>3, <1>5, Zenon
    <3>2. n # 1 => c[2] \in Node
      BY <1>3, <2>1, Zenon
    <3>. QED
      BY <1>3, <2>1, <3>1, <3>2, Zenon
  <2>4. x # Null
    BY <1>3, Zenon
  <2>. QED
    BY <2>1, <2>2, <2>3, <2>4, Zenon
<1>7. /\ g \in Sched /\ Keeps(g, h)
      /\ g.list[q] = [front |-> IF n = 1 THEN Null ELSE h.next[x],
                      back |-> IF n = 1 THEN Null ELSE l.back, size |-> n - 1]
      /\ \A r \in ListId \ {q} : g.list[r] = h.list[r]
      /\ \A y \in Node : g.next[y] = IF n # 1 /\ y = x THEN Null ELSE h.next[y]
      /\ \A y \in Node : g.prev[y] = IF n # 1 /\ y = h.next[x] THEN Null ELSE h.prev[y]
  <2>1. AfterPopFront(g, h, q)
    BY <1>6, PopFrontLinks, Zenon
  <2>. HIDE DEF g
  <2>. QED
    BY <1>6, <2>1, Zenon DEF AfterPopFront
<1>. HIDE DEF g, l, n, x
<1>. DEFINE d == [i \in 1 .. n - 1 |-> c[i + 1]]
<1>8. /\ g.list[q].size = n - 1
      /\ g.list[q].front = (IF n = 1 THEN Null ELSE c[2])
      /\ g.list[q].back = (IF n = 1 THEN Null ELSE c[n])
  BY <1>3, <1>6, <1>7
<1>9. Spells(g, q, d)
  <2>1. n - 1 \in Nat /\ d \in [1 .. n - 1 -> Node]
    BY <1>3
  <2>2. /\ g.list[q].front = IF n - 1 = 0 THEN Null ELSE d[1]
        /\ g.list[q].back = IF n - 1 = 0 THEN Null ELSE d[n - 1]
    BY <1>3, <1>8
  <2>3. \A i, j \in 1 .. n - 1 : d[i] = d[j] => i = j
    BY <1>3, <1>4
  <2>4. ASSUME NEW i \in 1 .. n - 1
        PROVE  /\ g.next[d[i]] = IF i = n - 1 THEN Null ELSE d[i + 1]
               /\ g.prev[d[i]] = IF i = 1 THEN Null ELSE d[i - 1]
    <3>1. /\ i + 1 \in 1 .. n /\ d[i] = c[i + 1] /\ c[i + 1] \in Node /\ n # 1
          /\ i # n - 1 => d[i + 1] = c[i + 2]
          /\ i # 1 => d[i - 1] = c[i]
      BY <1>3
    <3>2. c[i + 1] # x /\ (c[i + 1] = h.next[x] <=> i = 1)
      BY <1>3, <1>4, <1>6, <3>1
    <3>3. /\ h.next[c[i + 1]] = IF i + 1 = n THEN Null ELSE c[i + 2]
          /\ h.prev[c[i + 1]] = c[i]
      BY <1>5, <3>1
    <3>4. g.next[d[i]] = h.next[c[i + 1]]
      BY <1>7, <3>1, <3>2, Zenon
    <3>5. g.prev[d[i]] = IF i = 1 THEN Null ELSE h.prev[c[i + 1]]
      BY <1>7, <3>1, <3>2, Zenon
    <3>. HIDE DEF d
    <3>. QED
      BY <1>3, <3>1, <3>3, <3>4, <3>5
  <2>. HIDE DEF d
  <2>. QED
    BY <1>8, <2>1, <2>2, <2>3, <2>4, ZenonT(40) DEF Spells
<1>10. ASSUME NEW r \in ListId \ {q}
       PROVE  /\ \A y \in On(h, r) : g.next[y] = h.next[y] /\ g.prev[y] = h.prev[y]
              /\ \A i \in 1 .. n - 1 : d[i] \notin On(h, r)
  <2>1. On(h, r) \cap On(h, q) = {} /\ On(h, r) \subseteq Node
    BY FrontIs DEF Intact
  <2>2. \A i \in 1 .. n : c[i] \notin On(h, r)
    BY <1>2, <2>1
  <2>3. x \notin On(h, r) /\ (n # 1 => h.next[x] \notin On(h, r))
    BY <1>3, <1>6, <2>2
  <2>4. \A y \in On(h, r) : g.next[y] = h.next[y] /\ g.prev[y] = h.prev[y]
    BY <1>7, <2>1, <2>3, Zenon
  <2>5. \A i \in 1 .. n - 1 : d[i] \notin On(h, r)
    BY <1>3, <2>2
  <2>. QED
    BY <2>4, <2>5, Zenon
<1>11. {d[i] : i \in 1 .. n - 1} = On(h, q) \ {x}
  <2>1. \A i \in 1 .. n - 1 : i + 1 \in 1 .. n /\ d[i] = c[i + 1] /\ c[i + 1] # x
    BY <1>3, <1>4
  <2>2. \A i \in 1 .. n : c[i] # x => i - 1 \in 1 .. n - 1 /\ d[i - 1] = c[i]
    BY <1>3
  <2>. HIDE DEF d
  <2>. QED
    BY <1>2, <2>1, <2>2
<1>. HIDE DEF d
<1>12. /\ Intact(g)
       /\ On(g, q) = {d[i] : i \in 1 .. n - 1}
       /\ \A r \in ListId \ {q} : On(g, r) = On(h, r)
  <2>1. g \in Sched /\ \A r \in ListId \ {q} : g.list[r] = h.list[r]
    BY <1>7, Zenon
  <2>2. \A r \in ListId \ {q} : \A y \in On(h, r) : g.next[y] = h.next[y] /\ g.prev[y] = h.prev[y]
    BY <1>10
  <2>3. \A r \in ListId \ {q} : \A i \in 1 .. g.list[q].size : d[i] \notin On(h, r)
    BY <1>8, <1>10, Zenon
  <2>4. g.list[q].size = n - 1
    BY <1>8
  <2>. QED
    BY <1>9, <2>1, <2>2, <2>3, <2>4, OneListChanges
<1>. QED
  BY <1>7, <1>11, <1>12, Zenon DEF g, l, x

(* Remove of a node that has a link to each side or is at an end. *)
LEMMA RemoveLinks ==
  ASSUME NEW h \in Sched, NEW q \in ListId, NEW x \in Node
  PROVE  AfterRemove(Remove(h, q, x), h, q, x)
<1>. DEFINE g == Remove(h, q, x)
            l == h.list[q]
            n == h.next[x]
            p == h.prev[x]
            nexts == IF p = Null THEN h.next ELSE [h.next EXCEPT ![p] = n]
            prevs == IF n = Null THEN h.prev ELSE [h.prev EXCEPT ![n] = p]
            hd == [front |-> IF l.front = x THEN n ELSE l.front,
                   back |-> IF l.back = x THEN p ELSE l.back, size |-> l.size - 1]
<1>1. g \in Sched
  BY RemoveType
<1>2. g = [h EXCEPT !.list[q] = hd, !.next = [nexts EXCEPT ![x] = Null],
                    !.prev = [prevs EXCEPT ![x] = Null]]
  BY Zenon DEF Remove
<1>3. nexts \in [Node -> Pointer] /\ prevs \in [Node -> Pointer]
  BY DEF Sched, Pointer
<1>4. /\ \A y \in Node : nexts[y] = IF y = p THEN n ELSE h.next[y]
      /\ \A y \in Node : prevs[y] = IF y = n THEN p ELSE h.prev[y]
  BY NullAssumption DEF Sched, Pointer
<1>. HIDE DEF hd, nexts, prevs, g
<1>5. /\ g.list = [h.list EXCEPT ![q] = hd] /\ g.next = [nexts EXCEPT ![x] = Null]
      /\ g.prev = [prevs EXCEPT ![x] = Null] /\ Keeps(g, h)
  BY <1>2 DEF Sched, Keeps
<1>6. g.list[q] = hd /\ \A r \in ListId \ {q} : g.list[r] = h.list[r]
  BY <1>5 DEF Sched
<1>7. \A y \in Node : g.next[y] = IF y = x THEN Null ELSE nexts[y]
  BY <1>3, <1>5
<1>8. \A y \in Node : g.prev[y] = IF y = x THEN Null ELSE prevs[y]
  BY <1>3, <1>5
<1>. QED
  BY <1>1, <1>4, <1>5, <1>6, <1>7, <1>8, ZenonT(40) DEF hd, g, AfterRemove

(* Remove of a node that is on the list takes it off. *)
LEMMA RemoveIntact ==
  ASSUME NEW h \in Sched, Intact(h), NEW q \in ListId, NEW x \in On(h, q)
  PROVE  LET g == Remove(h, q, x)
         IN /\ g \in Sched /\ Keeps(g, h) /\ Intact(g)
            /\ On(g, q) = On(h, q) \ {x}
            /\ \A r \in ListId \ {q} : On(g, r) = On(h, r)
<1>. DEFINE g == Remove(h, q, x)
            l == h.list[q]
            n == l.size
<1>1. PICK c : Spells(h, q, c)
  BY DEF Intact, Linked
<1>2. On(h, q) = {c[i] : i \in 1 .. n}
  BY <1>1, SpelledOut
<1>3. PICK k \in 1 .. n : x = c[k]
  BY <1>2
<1>4. /\ n \in Nat /\ n # 0 /\ c \in [1 .. n -> Node] /\ Null \notin Node
      /\ l.front = c[1] /\ l.back = c[n] /\ 1 \in 1 .. n /\ n \in 1 .. n /\ x \in Node
  <2>1. /\ n \in Nat /\ c \in [1 .. n -> Node] /\ l.front = (IF n = 0 THEN Null ELSE c[1])
        /\ l.back = (IF n = 0 THEN Null ELSE c[n])
    BY <1>1, Zenon DEF Spells
  <2>. HIDE DEF l, n
  <2>2. n # 0 /\ 1 \in 1 .. n /\ n \in 1 .. n
    BY <1>3, <2>1
  <2>. QED
    BY <1>3, <2>1, <2>2, NullAssumption, Zenon
<1>5. \A i, j \in 1 .. n : c[i] = c[j] => i = j
  BY <1>1, Zenon DEF Spells
<1>6. \A i \in 1 .. n : /\ h.next[c[i]] = IF i = n THEN Null ELSE c[i + 1]
                        /\ h.prev[c[i]] = IF i = 1 THEN Null ELSE c[i - 1]
  BY <1>1, Zenon DEF Spells
<1>7. /\ h.next[x] = IF k = n THEN Null ELSE c[k + 1]
      /\ h.prev[x] = IF k = 1 THEN Null ELSE c[k - 1]
  BY <1>3, <1>6
<1>8. /\ g \in Sched /\ Keeps(g, h)
      /\ g.list[q] = [front |-> IF l.front = x THEN h.next[x] ELSE l.front,
                      back |-> IF l.back = x THEN h.prev[x] ELSE l.back, size |-> n - 1]
      /\ \A r \in ListId \ {q} : g.list[r] = h.list[r]
      /\ \A y \in Node :
           g.next[y] = IF y = x THEN Null ELSE IF y = h.prev[x] THEN h.next[x] ELSE h.next[y]
      /\ \A y \in Node :
           g.prev[y] = IF y = x THEN Null ELSE IF y = h.next[x] THEN h.prev[x] ELSE h.prev[y]
  <2>1. AfterRemove(g, h, q, x)
    BY <1>4, RemoveLinks, Zenon
  <2>. HIDE DEF g
  <2>. QED
    BY <2>1, Zenon DEF AfterRemove
<1>. HIDE DEF g, l, n
<1>. DEFINE d == [i \in 1 .. n - 1 |-> IF i < k THEN c[i] ELSE c[i + 1]]
<1>9. /\ g.list[q].size = n - 1
      /\ g.list[q].front = IF k = 1 THEN IF n = 1 THEN Null ELSE c[2] ELSE c[1]
      /\ g.list[q].back = IF k = n THEN IF n = 1 THEN Null ELSE c[n - 1] ELSE c[n]
  <2>1. (l.front = x <=> k = 1) /\ (l.back = x <=> k = n)
    BY <1>3, <1>4, <1>5, Zenon
  <2>. QED
    BY <1>4, <1>7, <1>8, <2>1
<1>10. Spells(g, q, d)
  <2>1. n - 1 \in Nat /\ d \in [1 .. n - 1 -> Node]
    BY <1>4
  <2>2. /\ g.list[q].front = IF n - 1 = 0 THEN Null ELSE d[1]
        /\ g.list[q].back = IF n - 1 = 0 THEN Null ELSE d[n - 1]
    BY <1>4, <1>9
  <2>3. \A i, j \in 1 .. n - 1 : d[i] = d[j] => i = j
    <3>1. ASSUME NEW i \in 1 .. n - 1, NEW j \in 1 .. n - 1, d[i] = d[j]
          PROVE  i = j
      <4>1. /\ (IF i < k THEN i ELSE i + 1) \in 1 .. n /\ (IF j < k THEN j ELSE j + 1) \in 1 .. n
            /\ d[i] = c[IF i < k THEN i ELSE i + 1] /\ d[j] = c[IF j < k THEN j ELSE j + 1]
        BY <1>4
      <4>2. (IF i < k THEN i ELSE i + 1) = (IF j < k THEN j ELSE j + 1)
        BY <1>5, <3>1, <4>1, Zenon
      <4>. QED
        BY <4>2
    <3>. QED
      BY <3>1
  <2>4. ASSUME NEW i \in 1 .. n - 1
        PROVE  g.next[d[i]] = IF i = n - 1 THEN Null ELSE d[i + 1]
    <3>. DEFINE m == IF i < k THEN i ELSE i + 1
    <3>0. m \in 1 .. n /\ m # k /\ d[i] = c[m]
      BY <1>4
    <3>1. /\ m \in 1 .. n /\ m # k /\ d[i] = c[m] /\ c[m] \in Node /\ c[m] # x
          /\ i # n - 1 => d[i + 1] = IF i + 1 < k THEN c[i + 1] ELSE c[i + 2]
      <4>1. c[m] \in Node /\ c[m] # x
        <5>. HIDE DEF m
        <5>. QED
          BY <1>3, <1>4, <1>5, <3>0
      <4>2. i # n - 1 => d[i + 1] = IF i + 1 < k THEN c[i + 1] ELSE c[i + 2]
        <5>1. i # n - 1 => i + 1 \in 1 .. n - 1 /\ (i + 1) + 1 = i + 2
          BY <1>4
        <5>. QED
          BY <5>1
      <4>. QED
        BY <3>0, <4>1, <4>2
    <3>2. c[m] = h.prev[x] <=> m + 1 = k
      BY <1>3, <1>4, <1>5, <1>7, <3>1
    <3>3. h.next[c[m]] = IF m = n THEN Null ELSE c[m + 1]
      BY <1>6, <3>1, Zenon
    <3>4. g.next[d[i]] = IF m + 1 = k THEN IF k = n THEN Null ELSE c[k + 1]
                         ELSE IF m = n THEN Null ELSE c[m + 1]
      BY <1>7, <1>8, <3>1, <3>2, <3>3, Zenon
    <3>. HIDE DEF d
    <3>. QED
      BY <1>4, <3>1, <3>4
  <2>5. ASSUME NEW i \in 1 .. n - 1
        PROVE  g.prev[d[i]] = IF i = 1 THEN Null ELSE d[i - 1]
    <3>. DEFINE m == IF i < k THEN i ELSE i + 1
    <3>1. /\ m \in 1 .. n /\ m # k /\ d[i] = c[m] /\ c[m] \in Node /\ c[m] # x
          /\ i # 1 => d[i - 1] = IF i - 1 < k THEN c[i - 1] ELSE c[i]
      BY <1>3, <1>4, <1>5
    <3>2. c[m] = h.next[x] <=> m = k + 1
      BY <1>3, <1>4, <1>5, <1>7, <3>1
    <3>3. h.prev[c[m]] = IF m = 1 THEN Null ELSE c[m - 1]
      BY <1>6, <3>1, Zenon
    <3>4. g.prev[d[i]] = IF m = k + 1 THEN IF k = 1 THEN Null ELSE c[k - 1]
                         ELSE IF m = 1 THEN Null ELSE c[m - 1]
      BY <1>7, <1>8, <3>1, <3>2, <3>3, Zenon
    <3>. HIDE DEF d
    <3>. QED
      BY <1>4, <3>1, <3>4
  <2>. HIDE DEF d
  <2>. QED
    BY <1>9, <2>1, <2>2, <2>3, <2>4, <2>5, ZenonT(40) DEF Spells
<1>11. ASSUME NEW r \in ListId \ {q}
       PROVE  /\ \A y \in On(h, r) : g.next[y] = h.next[y] /\ g.prev[y] = h.prev[y]
              /\ \A i \in 1 .. n - 1 : d[i] \notin On(h, r)
  <2>1. On(h, r) \cap On(h, q) = {} /\ On(h, r) \subseteq Node
    BY FrontIs, Zenon DEF Intact
  <2>2. \A i \in 1 .. n : c[i] \notin On(h, r)
    BY <1>2, <2>1
  <2>3. x \notin On(h, r) /\ h.next[x] \notin On(h, r) /\ h.prev[x] \notin On(h, r)
    <3>1. k # n => k + 1 \in 1 .. n
      BY <1>4
    <3>2. k # 1 => k - 1 \in 1 .. n
      BY <1>4
    <3>. QED
      BY <1>3, <1>4, <1>7, <2>1, <2>2, <3>1, <3>2
  <2>4. \A y \in On(h, r) : g.next[y] = h.next[y] /\ g.prev[y] = h.prev[y]
    BY <1>8, <2>1, <2>3, ZenonT(40)
  <2>5. \A i \in 1 .. n - 1 : d[i] \notin On(h, r)
    BY <1>4, <2>2
  <2>. QED
    BY <2>4, <2>5, Zenon
<1>12. {d[i] : i \in 1 .. n - 1} = On(h, q) \ {x}
  <2>1. ASSUME NEW i \in 1 .. n - 1
        PROVE  \E j \in 1 .. n : d[i] = c[j] /\ c[j] # x
    <3>1. PICK j \in 1 .. n : d[i] = c[j] /\ j # k
      <4>1. CASE i < k
        BY <1>4, <4>1
      <4>2. CASE ~(i < k)
        <5>1. i + 1 \in 1 .. n /\ d[i] = c[i + 1] /\ i + 1 # k
          BY <1>4, <4>2
        <5>. QED
          BY <5>1, Zenon
      <4>. QED
        BY <4>1, <4>2
    <3>. QED
      BY <1>3, <1>5, <3>1
  <2>2. \A j \in 1 .. n : c[j] # x => \E i \in 1 .. n - 1 : d[i] = c[j]
    <3>1. ASSUME NEW j \in 1 .. n, c[j] # x
          PROVE  \E i \in 1 .. n - 1 : d[i] = c[j]
      <4>1. CASE j < k
        <5>1. j \in 1 .. n - 1 /\ d[j] = c[j]
          BY <1>4, <4>1
        <5>. QED
          BY <5>1, Zenon
      <4>2. CASE j > k
        <5>1. j - 1 \in 1 .. n - 1 /\ d[j - 1] = c[j]
          BY <1>4, <4>2
        <5>. QED
          BY <5>1, Zenon
      <4>. QED
        BY <1>3, <3>1, <4>1, <4>2
    <3>. QED
      BY <3>1
  <2>. HIDE DEF d
  <2>. QED
    BY <1>2, <2>1, <2>2
<1>. HIDE DEF d
<1>13. /\ Intact(g)
       /\ On(g, q) = {d[i] : i \in 1 .. n - 1}
       /\ \A r \in ListId \ {q} : On(g, r) = On(h, r)
  <2>1. g \in Sched /\ \A r \in ListId \ {q} : g.list[r] = h.list[r]
    BY <1>8, Zenon
  <2>2. \A r \in ListId \ {q} : \A y \in On(h, r) : g.next[y] = h.next[y] /\ g.prev[y] = h.prev[y]
    BY <1>11
  <2>3. \A r \in ListId \ {q} : \A i \in 1 .. g.list[q].size : d[i] \notin On(h, r)
    BY <1>9, <1>11, Zenon
  <2>4. g.list[q].size = n - 1
    BY <1>9
  <2>. QED
    BY <1>10, <2>1, <2>2, <2>3, <2>4, OneListChanges
<1>. QED
  BY <1>8, <1>12, <1>13, Zenon DEF g

(* The scheduler's own lists. *)
LEMMA ListNames == {"runnable", "sleeping"} \subseteq ListId
  BY SchedulerAssumption

(* Thread::SetState. *)
LEMMA SetStateIs ==
  ASSUME NEW h \in Sched, Intact(h), NEW x \in Node, ~IsDying(h, x), NEW st \in ThreadState
  PROVE  LET g == SetState(h, x, st)
         IN /\ g \in Sched /\ Intact(g) /\ SameOn(g, h)
            /\ g.state = [h.state EXCEPT ![x] = st]
            /\ g.list = h.list /\ g.ticks = h.ticks /\ g.current = h.current
            /\ g.panic = h.panic
<1>. DEFINE g == SetState(h, x, st)
<1>1. x # Null
  BY NullAssumption
<1>2. g = [h EXCEPT !.state[x] = st]
  BY <1>1 DEF SetState
<1>3. g \in Sched
  BY <1>2, SMTT(30) DEF Sched
<1>. HIDE DEF g
<1>4. /\ g.state = [h.state EXCEPT ![x] = st] /\ g.ticks = h.ticks
      /\ g.current = h.current
      /\ g.panic = h.panic /\ g.list = h.list /\ g.next = h.next /\ g.prev = h.prev
  BY <1>2 DEF Sched
<1>5. Intact(g) /\ SameOn(g, h)
  BY <1>3, <1>4, SameLists, Zenon DEF SameOn
<1>. QED
  BY <1>3, <1>4, <1>5, Zenon DEF g

(* current_thread_ = runnable_threads_.PopFront() *)
LEMMA TakeNextIs ==
  ASSUME NEW h \in Sched, Intact(h), On(h, "runnable") # {}
  PROVE  LET g == TakeNext(h)
         IN /\ g \in Sched /\ Intact(g)
            /\ g.current \in On(h, "runnable")
            /\ On(g, "runnable") = On(h, "runnable") \ {g.current}
            /\ \A r \in ListId \ {"runnable"} : On(g, r) = On(h, r)
            /\ g.state = h.state /\ g.panic = h.panic /\ g.ticks = h.ticks
<1>. DEFINE g == TakeNext(h)
            p == PopFront(h, "runnable")
            x == h.list["runnable"].front
<1>1. x \in On(h, "runnable") /\ x \in Node
  BY FrontIs, ListNames, Zenon
<1>2. /\ p \in Sched /\ Keeps(p, h) /\ Intact(p)
      /\ On(p, "runnable") = On(h, "runnable") \ {x}
      /\ \A r \in ListId \ {"runnable"} : On(p, r) = On(h, r)
  BY PopFrontIntact, ListNames
<1>3. g = [p EXCEPT !.current = x]
  BY DEF TakeNext, PeekFront
<1>. HIDE DEF g, p, x
<1>4. g \in Sched
  BY <1>1, <1>2, <1>3, SMTT(30) DEF Sched, Pointer
<1>5. /\ g.current = x /\ g.state = p.state /\ g.ticks = p.ticks /\ g.panic = p.panic
      /\ g.list = p.list /\ g.next = p.next /\ g.prev = p.prev
  BY <1>2, <1>3 DEF Sched
<1>6. Intact(g) /\ \A q \in ListId : On(g, q) = On(p, q)
  BY <1>2, <1>4, <1>5, SameLists
<1>. QED
  BY <1>1, <1>2, <1>4, <1>5, <1>6, ListNames, Zenon DEF g, Keeps

(* SwapToCurrent of a thread that is RUNNABLE. *)
LEMMA SwapIs ==
  ASSUME NEW h \in Sched, Intact(h), h.current \in Node, h.state[h.current] = "RUNNABLE"
  PROVE  LET g == SwapToCurrent(h)
         IN /\ g \in Sched /\ Intact(g) /\ SameOn(g, h)
            /\ g.state = [h.state EXCEPT ![h.current] = "RUNNING"]
            /\ g.current = h.current /\ g.panic = h.panic /\ g.ticks = h.ticks
<1>1. h.current # Null /\ ~IsDying(h, h.current) /\ "RUNNING" \in ThreadState
  BY NullAssumption DEF IsDying, ThreadState
<1>2. SwapToCurrent(h) = SetState(h, h.current, "RUNNING")
  BY <1>1 DEF SwapToCurrent
<1>. QED
  BY <1>1, <1>2, SetStateIs

(* Nothing is dead at the front. *)
LEMMA NoDeadFront ==
  ASSUME NEW s, Sane(s)
  PROVE  ~DeadFront(s)
<1>1. s \in Sched /\ Intact(s)
  BY DEF Sane
<1>2. s.list["runnable"].size # 0 => s.list["runnable"].front \in Node
  BY <1>1, FrontIs, ListNames
<1>. QED
  BY <1>2, NullAssumption DEF DeadFront, PeekFront, Sane

(* Preempt swaps the current thread for the first that waits for the CPU. *)
LEMMA PreemptSwapIs ==
  ASSUME NEW s, Sane(s), Off(s, s.current)
  PROVE  LET g == PreemptSwap(s)
         IN /\ Sane(g)
            /\ g.current \in On(s, "runnable") \cup {s.current}
            /\ On(g, "runnable") = (On(s, "runnable") \cup {s.current}) \ {g.current}
            /\ \A r \in ListId \ {"runnable"} : On(g, r) = On(s, r)
            /\ \A u \in Node \ {s.current, g.current} : g.state[u] = s.state[u]
<1>. DEFINE cur == s.current
            g == PreemptSwap(s)
<1>0. /\ s \in Sched /\ Intact(s) /\ ~s.panic /\ cur \in Node /\ ~IsDying(s, cur)
      /\ Idle \in Node
  BY SchedulerAssumption DEF Sane
<1>1. CASE s.list["runnable"].size = 0
  <2>1. g = s
    BY <1>1 DEF PreemptSwap
  <2>2. On(s, "runnable") = {}
    BY <1>0, <1>1, FrontIs, ListNames, Zenon
  <2>. QED
    BY <2>1, <2>2
<1>2. CASE s.list["runnable"].size # 0
  <2>. DEFINE s1 == SetState(s, cur, "RUNNABLE")
              s2 == PushBack(s1, "runnable", cur)
              s3 == TakeNext(s2)
  <2>1. g = SwapToCurrent(s3)
    BY <1>2, Zenon DEF PreemptSwap
  <2>2. /\ s1 \in Sched /\ Intact(s1) /\ SameOn(s1, s) /\ s1.panic = s.panic
        /\ s1.state = [s.state EXCEPT ![cur] = "RUNNABLE"]
    BY <1>0, SetStateIs, Zenon DEF ThreadState
  <2>. HIDE DEF s1
  <2>3. \A r \in ListId : cur \notin On(s1, r)
    BY <2>2 DEF SameOn, Off
  <2>4. /\ s2 \in Sched /\ Keeps(s2, s1) /\ Intact(s2)
        /\ On(s2, "runnable") = On(s1, "runnable") \cup {cur}
        /\ \A r \in ListId \ {"runnable"} : On(s2, r) = On(s1, r)
    BY <1>0, <2>2, <2>3, PushBackIntact, ListNames
  <2>5. s2.state = s1.state /\ s2.panic = s1.panic
    BY <2>4 DEF Keeps
  <2>. HIDE DEF s2
  <2>6. On(s2, "runnable") # {}
    BY <2>4
  <2>7. /\ s3 \in Sched /\ Intact(s3) /\ s3.current \in On(s2, "runnable")
        /\ On(s3, "runnable") = On(s2, "runnable") \ {s3.current}
        /\ \A r \in ListId \ {"runnable"} : On(s3, r) = On(s2, r)
        /\ s3.state = s2.state /\ s3.panic = s2.panic
    BY <2>4, <2>6, TakeNextIs
  <2>. HIDE DEF s3
  <2>8. /\ On(s1, "runnable") = On(s, "runnable") /\ On(s, "runnable") \subseteq Node
        /\ \A r \in ListId \ {"runnable"} : On(s1, r) = On(s, r)
    BY <1>0, <2>2, FrontIs, ListNames, Zenon DEF SameOn
  <2>9. s3.current \in On(s, "runnable") \cup {cur} /\ s3.current \in Node
    BY <1>0, <2>4, <2>7, <2>8
  <2>10. \A u \in On(s, "runnable") \cup {cur} : s3.state[u] = "RUNNABLE"
    <3>1. s.state \in [Node -> ThreadState]
      BY <1>0 DEF Sched
    <3>. QED
      BY <1>0, <2>2, <2>5, <2>7, <2>8, <3>1 DEF Sane
  <2>11. /\ g \in Sched /\ Intact(g) /\ SameOn(g, s3)
         /\ g.state = [s3.state EXCEPT ![s3.current] = "RUNNING"]
         /\ g.current = s3.current /\ g.panic = s3.panic
    BY <2>1, <2>7, <2>9, <2>10, SwapIs, Zenon
  <2>. HIDE DEF g
  <2>12. /\ On(g, "runnable") = (On(s, "runnable") \cup {cur}) \ {g.current}
         /\ \A r \in ListId \ {"runnable"} : On(g, r) = On(s, r)
    BY <2>4, <2>7, <2>8, <2>11, ListNames, Zenon DEF SameOn
  <2>13. \A u \in Node : g.state[u] = IF u = g.current THEN "RUNNING"
                                     ELSE IF u = cur THEN "RUNNABLE" ELSE s.state[u]
    BY <1>0, <2>2, <2>5, <2>7, <2>11 DEF Sched
  <2>14. Sane(g)
    <3>1. \A u \in Node : ~IsDying(g, u)
      BY <2>13, Zenon DEF Sane, IsDying
    <3>2. \A u \in On(g, "runnable") : g.state[u] = "RUNNABLE"
      BY <1>0, <2>8, <2>12, <2>13, Zenon DEF Sane
    <3>3. g.current # Idle => g.state[Idle] = "RUNNABLE"
      BY <1>0, <2>13, Zenon DEF Sane
    <3>4. \A q \in ListId \ {"runnable"} : Idle \notin On(g, q)
      BY <2>12 DEF Sane
    <3>5. ~g.panic /\ g.current \in Node /\ g.current \notin On(g, "runnable")
      BY <1>0, <2>2, <2>5, <2>7, <2>9, <2>11, <2>12, Zenon
    <3>. QED
      BY <2>11, <3>1, <3>2, <3>3, <3>4, <3>5, Zenon DEF Sane
  <2>. QED
    BY <2>9, <2>11, <2>12, <2>13, <2>14, Zenon DEF g
<1>. QED
  BY <1>1, <1>2, Zenon

(* Yield gives the CPU to the first thread that waits for it, or to the    *)
(* sleep thread when none does.                                            *)
LEMMA YieldSwapIs ==
  ASSUME NEW s, Sane(s), s.current # Idle \/ On(s, "runnable") # {}
  PROVE  LET g == YieldSwap(s)
         IN /\ Sane(g) /\ g.current # s.current
            /\ g.current \in On(s, "runnable") \/ (g.current = Idle /\ On(s, "runnable") = {})
            /\ On(g, "runnable") = On(s, "runnable") \ {g.current}
            /\ \A r \in ListId \ {"runnable"} : On(g, r) = On(s, r)
            /\ \A u \in Node \ {s.current, g.current} : g.state[u] = s.state[u]
<1>. DEFINE cur == s.current
            g == YieldSwap(s)
<1>0. /\ s \in Sched /\ Intact(s) /\ ~s.panic /\ cur \in Node /\ Idle \in Node
      /\ s.state \in [Node -> ThreadState] /\ ~IsDying(s, Idle)
  BY SchedulerAssumption, Zenon DEF Sane, Sched
<1>1. On(s, "runnable") \subseteq Node /\ (s.list["runnable"].size = 0 <=> On(s, "runnable") = {})
  BY <1>0, FrontIs, ListNames, Zenon
<1>2. CASE On(s, "runnable") = {}
  <2>. DEFINE s1 == [s EXCEPT !.current = Idle]
  <2>1. cur # Idle /\ g = SwapToCurrent(s1)
    BY <1>1, <1>2 DEF YieldSwap
  <2>2. s1 \in Sched
    BY <1>0 DEF Sched, Pointer
  <2>3. /\ s1.list = s.list /\ s1.next = s.next /\ s1.prev = s.prev
        /\ s1.state = s.state
        /\ s1.current = Idle /\ s1.panic = s.panic
    BY <1>0 DEF Sched
  <2>. HIDE DEF s1
  <2>4. Intact(s1) /\ SameOn(s1, s)
    BY <1>0, <2>2, <2>3, SameLists, Zenon DEF SameOn
  <2>5. s1.state[s1.current] = "RUNNABLE"
    BY <2>1, <2>3, Zenon DEF Sane
  <2>6. /\ g \in Sched /\ Intact(g) /\ SameOn(g, s1)
        /\ g.state = [s1.state EXCEPT ![s1.current] = "RUNNING"]
        /\ g.current = s1.current /\ g.panic = s1.panic
    BY <1>0, <2>1, <2>2, <2>3, <2>4, <2>5, SwapIs, Zenon
  <2>. HIDE DEF g
  <2>7. /\ g.current = Idle /\ ~g.panic /\ \A r \in ListId : On(g, r) = On(s, r)
        /\ \A u \in Node : g.state[u] = IF u = Idle THEN "RUNNING" ELSE s.state[u]
    BY <1>0, <2>3, <2>4, <2>6, Zenon DEF SameOn
  <2>8. Sane(g)
    BY <1>0, <1>2, <2>6, <2>7, ListNames, Zenon DEF Sane, IsDying
  <2>. QED
    BY <1>2, <2>1, <2>7, <2>8, ListNames, Zenon DEF g
<1>3. CASE On(s, "runnable") # {}
  <2>. DEFINE s1 == TakeNext(s)
              s2 == IF cur = Idle THEN SetState(s1, Idle, "RUNNABLE") ELSE s1
  <2>1. g = SwapToCurrent(s2)
    BY <1>0, <1>1, <1>3 DEF YieldSwap
  <2>2. /\ s1 \in Sched /\ Intact(s1) /\ s1.current \in On(s, "runnable")
        /\ On(s1, "runnable") = On(s, "runnable") \ {s1.current}
        /\ \A r \in ListId \ {"runnable"} : On(s1, r) = On(s, r)
        /\ s1.state = s.state /\ s1.panic = s.panic
    BY <1>0, <1>3, TakeNextIs, Zenon
  <2>. HIDE DEF s1
  <2>3. ~IsDying(s1, Idle)
    BY <1>0, <2>2, Zenon DEF IsDying
  <2>4. /\ s2 \in Sched /\ Intact(s2) /\ SameOn(s2, s1) /\ s2.current = s1.current
        /\ s2.panic = s1.panic
        /\ \A u \in Node : s2.state[u] = IF cur = Idle /\ u = Idle THEN "RUNNABLE" ELSE s.state[u]
    <3>1. CASE cur = Idle
      <4>0. s2 = SetState(s1, Idle, "RUNNABLE") /\ "RUNNABLE" \in ThreadState
        BY <3>1 DEF ThreadState
      <4>. HIDE DEF s2
      <4>1. /\ s2 \in Sched /\ Intact(s2) /\ SameOn(s2, s1) /\ s2.current = s1.current
            /\ s2.panic = s1.panic /\ s2.state = [s1.state EXCEPT ![Idle] = "RUNNABLE"]
        BY <1>0, <2>2, <2>3, <4>0, SetStateIs
      <4>. QED
        BY <1>0, <2>2, <3>1, <4>1, Zenon
    <3>2. CASE cur # Idle
      BY <2>2, <3>2, Zenon DEF SameOn
    <3>. QED
      BY <3>1, <3>2, Zenon
  <2>. HIDE DEF s2
  <2>5. s2.current \in Node /\ s2.state[s2.current] = "RUNNABLE"
    BY <1>1, <2>2, <2>4, Zenon DEF Sane
  <2>6. /\ g \in Sched /\ Intact(g) /\ SameOn(g, s2)
        /\ g.state = [s2.state EXCEPT ![s2.current] = "RUNNING"]
        /\ g.current = s2.current /\ g.panic = s2.panic
    BY <2>1, <2>4, <2>5, SwapIs, ZenonT(40)
  <2>. HIDE DEF g
  <2>7. /\ g.current \in On(s, "runnable") /\ ~g.panic /\ g.current \in Node
        /\ On(g, "runnable") = On(s, "runnable") \ {g.current}
        /\ \A r \in ListId \ {"runnable"} : On(g, r) = On(s, r)
    BY <1>0, <1>1, <2>2, <2>4, <2>6, ListNames, Zenon DEF SameOn
  <2>8. \A u \in Node : g.state[u] = IF u = g.current THEN "RUNNING"
                                    ELSE IF cur = Idle /\ u = Idle THEN "RUNNABLE" ELSE s.state[u]
    BY <2>4, <2>6, ZenonT(40) DEF Sched
  <2>9. Sane(g)
    <3>1. \A u \in Node : ~IsDying(g, u)
      BY <2>8, Zenon DEF Sane, IsDying
    <3>2. \A u \in On(g, "runnable") : g.state[u] = "RUNNABLE"
      BY <1>1, <2>7, <2>8, Zenon DEF Sane
    <3>3. g.current # Idle => g.state[Idle] = "RUNNABLE"
      BY <1>0, <2>8, Zenon DEF Sane
    <3>. QED
      BY <2>6, <2>7, <3>1, <3>2, <3>3, Zenon DEF Sane
  <2>10. g.current # cur
    BY <2>7, Zenon DEF Sane
  <2>11. \A u \in Node \ {cur, g.current} : g.state[u] = s.state[u]
    BY <2>8, Zenon
  <2>. QED
    BY <2>7, <2>9, <2>10, <2>11, Zenon DEF g
<1>. QED
  BY <1>2, <1>3, Zenon

(* All promises are kept. *)
THEOREM ListsDoWork == ListsWork
<1>1. FrontPromise
  BY FrontIs, Zenon DEF FrontPromise
<1>2. SamePromise
  BY SameLists, Zenon DEF SamePromise
<1>3. PushBackPromise
  BY PushBackIntact DEF PushBackPromise
<1>4. PopFrontPromise
  BY PopFrontIntact DEF PopFrontPromise
<1>5. RemovePromise
  BY RemoveIntact DEF RemovePromise
<1>6. StatePromise
  BY SetStateIs, Zenon DEF StatePromise
<1>7. DeadPromise
  BY NoDeadFront, Zenon DEF DeadPromise
<1>8. PreemptPromise
  BY PreemptSwapIs, Zenon DEF PreemptPromise
<1>9. YieldPromise
  BY YieldSwapIs, Zenon DEF YieldPromise
<1>10. BootPromise
  BY BootSchedType, Zenon DEF BootPromise
<1>. QED
  BY <1>1, <1>2, <1>3, <1>4, <1>5, <1>6, <1>7, <1>8, <1>9, <1>10, Zenon DEF ListsWork
=============================================================================
