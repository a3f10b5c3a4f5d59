---------------------------- MODULE KernelProofs ----------------------------
(***************************************************************************)
(* Lemmas for KernelTheorems: the thread lists of the kernel stay intact.  *)
(* With any number of threads that sleep, start each other, lock a mutex,  *)
(* send and receive messages, every thread is where the statement it is at *)
(* says it is (KInv), and no waiter for the mutex or for a message is      *)
(* forgotten (Wakes, Messages).                                            *)
(*                                                                         *)
(* KInv is inductive together with QInv and SeenInv, which give the mutual *)
(* exclusion and the message that was seen.  There is one lemma for each   *)
(* kind of step (PlainStep, PushStep, EnqueueStep, PopStep, WakeStep,      *)
(* LeaveStep; SchedKeeps for the scheduler and the timer), and one for     *)
(* each statement, which shows of what kind it is.                         *)
(*                                                                         *)
(* What the lemmas need of the lists is the hypothesis ListsWork, which    *)
(* ListProofs proves.                                                      *)
(***************************************************************************)
EXTENDS MessageQueueProofs

(* The names of the lists are different. *)
LEMMA AllLists == {"runnable", "sleeping", "mutex", "queue"} \subseteq ListId
  BY SchedulerAssumption, MutexAssumption, QueueAssumption, Zenon

(* While t executes, no other thread is in Yield or about to enter it. *)
LEMMA Others ==
  ASSUME KInv, NEW t \in Thread, Moves(t), mode' = mode \/ mode' = [mode EXCEPT ![t] = "clear"]
  PROVE  /\ \A u \in Node \ {t} : mode[u] = "run" /\ mode'[u] = "run"
         /\ \A u \in Thread \ {t} : ~Leaving(u) /\ ~Leaving(u)'
         /\ Idle \in Node /\ Idle # t /\ tick = "off" /\ tick' = "off"
         /\ sched.current = t
         /\ pc'[Idle] = "spin" /\ mode' \in [Node -> {"run", "clear", "switch"}]
         /\ \A u \in Thread \ {t} : pc[u] # "pop_blocked" /\ pc'[u] # "pop_blocked"
<1>1. /\ Idle \in Node /\ Idle # t /\ tick = "off" /\ tick' = "off" /\ sched.current = t
      /\ t \in Node /\ \A u \in Thread : u \in Node
  BY SchedulerAssumption, Zenon DEF Moves, Running, Thread
<1>2. \A u \in Node \ {t} : mode[u] = "run"
  BY <1>1 DEF KInv, InYield, Running
<1>3. /\ \A u \in Node \ {t} : mode'[u] = "run"
      /\ mode' \in [Node -> {"run", "clear", "switch"}]
  BY <1>1, <1>2 DEF KInv, KTypes
<1>4. \A u \in Thread \ {t} : ~Leaving(u)
  BY <1>1 DEF KInv, InLeave, Running
<1>5. \A u \in Thread \ {t} : ~Leaving(u)'
  BY <1>1, <1>4 DEF Leaving, Moves
<1>6. pc'[Idle] = "spin"
  BY <1>1 DEF Moves, KInv, KTypes
<1>7. \A u \in Thread \ {t} : pc[u] # "pop_blocked"
  BY <1>1 DEF KInv, Waits, Running
<1>8. \A u \in Thread \ {t} : pc'[u] # "pop_blocked"
  BY <1>1, <1>7 DEF Moves
<1>. QED
  BY <1>1, <1>2, <1>3, <1>4, <1>5, <1>6, <1>7, <1>8

(* A statement that changes no list. *)
LEMMA PlainStep ==
  ASSUME KInv, NEW t \in Thread, Moves(t), Plain(t), UNCHANGED <<mode, target>>,
         Sane(sched'), SameOn(sched', sched), sched'.current = sched.current,
         \A u \in Node \ {t} : sched'.state[u] = sched.state[u],
         Leaving(t)' <=> Leaving(t),
         pc'[t] = "pop_blocked" => On(sched, "mutex") # {},
         pc'[t] = "wake_pop" => On(sched, "queue") # {}
  PROVE  KInv'
<1>1. /\ \A u \in Node \ {t} : mode[u] = "run" /\ mode'[u] = "run"
      /\ \A u \in Thread \ {t} : ~Leaving(u) /\ ~Leaving(u)'
      /\ Idle \in Node /\ Idle # t /\ tick = "off" /\ tick' = "off" /\ sched.current = t
      /\ pc'[Idle] = "spin"
      /\ \A u \in Thread \ {t} : pc[u] # "pop_blocked" /\ pc'[u] # "pop_blocked"
  BY Others, Zenon
<1>2. /\ \A q \in ListId : On(sched', q) = On(sched, q)
      /\ \A u : Off(sched', u) <=> Off(sched, u)
      /\ "runnable" \in ListId /\ "mutex" \in ListId /\ "queue" \in ListId
  BY AllLists DEF SameOn, Off
<1>3. /\ t \in Node /\ mode[t] = "run" /\ mode'[t] = "run" /\ \A u \in Thread : u \in Node
      /\ pc' \in [Node -> QueueLabel] /\ pc[t] # "new" /\ pc'[t] # "new"
      /\ \A u \in Node \ {t} : pc'[u] = pc[u]
  BY DEF Moves, Thread
<1>4. KTypes'
  BY <1>1, <1>3 DEF KInv, KTypes, Moves
<1>5. InYield'
  BY <1>1, <1>3 DEF InYield
<1>6. InLeave'
  BY <1>1, <1>2, <1>3 DEF KInv, InLeave, Running
<1>7. CurrentOff'
  BY <1>1, <1>2, <1>3 DEF KInv, CurrentOff
<1>8. Fresh'
  BY <1>1, <1>2, <1>3 DEF KInv, Fresh
<1>9. Found'
  BY <1>1, <1>2, <1>3 DEF KInv, Found, InTransit
<1>10. Ticking'
  BY <1>1 DEF Ticking
<1>11. Transit'
  <2>1. target[t] = Null
    BY DEF KInv, Transit, Plain
  <2>2. \A u \in Thread \ {t} : pc'[u] = pc[u] /\ target'[u] = target[u]
    BY <1>3
  <2>3. ASSUME NEW u \in Thread \ {t}, target[u] # Null
        PROVE  /\ target[u] \in Thread /\ Off(sched', target[u])
               /\ target[u] # sched'.current /\ pc'[target[u]] # "new"
               /\ \A v \in Thread : target[v] = target[u] => v = u
               /\ pc[u] \in Enqueuer => sched'.state[target[u]] = "RUNNABLE"
    BY <1>1, <1>2, <1>3, <2>3 DEF KInv, Transit
  <2>. QED
    BY <2>1, <2>2, <2>3 DEF KInv, Transit, Plain
<1>12. Waits'
  BY <1>1, <1>2, <1>3, ZenonT(40) DEF KInv, Waits, Running
<1>. QED
  BY <1>4, <1>5, <1>6, <1>7, <1>8, <1>9, <1>10, <1>11, <1>12 DEF KInv

(* A thread puts itself on a list of waiters, and yields or is about to. *)
LEMMA PushStep ==
  ASSUME ListsWork, KInv, NEW t \in Thread, Moves(t), Plain(t), UNCHANGED target,
         NEW q \in ListId \ {"runnable"}, sched' = PushBack(sched, q, t), ~Leaving(t),
         pc'[t] \notin {"pop_blocked", "wake_pop"},
         \/ /\ mode' = [mode EXCEPT ![t] = "clear"] /\ ~Leaving(t)'
            /\ pc'[t] \in {"user", "fetch_or", "recv_lock"}
         \/ mode' = mode /\ Leaving(t)' /\ q = "queue"
  PROVE  KInv' /\ On(sched', q) = On(sched, q) \cup {t} /\ \A r \in ListId \ {q} : On(sched', r) = On(sched, r)
<1>1. /\ \A u \in Node \ {t} : mode[u] = "run" /\ mode'[u] = "run"
      /\ \A u \in Thread \ {t} : ~Leaving(u) /\ ~Leaving(u)'
      /\ Idle \in Node /\ Idle # t /\ tick = "off" /\ tick' = "off" /\ sched.current = t
      /\ pc'[Idle] = "spin" /\ mode' \in [Node -> {"run", "clear", "switch"}]
      /\ \A u \in Thread \ {t} : pc[u] # "pop_blocked" /\ pc'[u] # "pop_blocked"
  BY Others, Zenon
<1>2. /\ t \in Node /\ mode[t] = "run" /\ \A u \in Thread : u \in Node
      /\ pc' \in [Node -> QueueLabel] /\ pc[t] # "new" /\ pc'[t] # "new"
      /\ \A u \in Node \ {t} : pc'[u] = pc[u] /\ ret'[u] = ret[u]
      /\ "runnable" \in ListId /\ "mutex" \in ListId /\ "queue" \in ListId
  BY AllLists DEF Moves, Thread
<1>3. Off(sched, t) /\ sched \in Sched /\ Intact(sched)
  BY <1>1, <1>2 DEF KInv, CurrentOff, Sane
<1>4. /\ sched' \in Sched /\ Keeps(sched', sched) /\ Intact(sched')
      /\ On(sched', q) = On(sched, q) \cup {t}
      /\ \A r \in ListId \ {q} : On(sched', r) = On(sched, r)
  <2>1. PushBackPromise
    BY Zenon DEF ListsWork
  <2>2. /\ sched \in Sched /\ Intact(sched) /\ t \in Node /\ q \in ListId
        /\ \A r \in ListId : t \notin On(sched, r)
    BY <1>2, <1>3, Zenon DEF Off
  <2>. QED
    BY <2>1, <2>2 DEF PushBackPromise
<1>5. /\ sched'.state = sched.state /\ sched'.current = t /\ sched'.panic = sched.panic
  BY <1>1, <1>4 DEF Keeps
<1>6. /\ \A u : u # t => (Off(sched', u) <=> Off(sched, u))
      /\ ~Off(sched', t)
  BY <1>4 DEF Off
<1>7. /\ \A r \in ListId : On(sched, r) \subseteq On(sched', r)
      /\ On(sched', "runnable") = On(sched, "runnable")
  BY <1>2, <1>4
<1>8. Sane(sched')
  BY <1>1, <1>2, <1>4, <1>5, <1>7 DEF KInv, Sane, IsDying
<1>9. KTypes'
  BY <1>1, <1>2, Zenon DEF KInv, KTypes, Moves
<1>10. InYield'
  <2>1. \A u \in Node : mode'[u] # "run" =>
          u = t /\ Running(u)' /\ pc'[u] \in {"spin", "user", "fetch_or", "recv_lock"}
    BY <1>1, <1>2, <1>5, Zenon DEF Running
  <2>. QED
    BY <1>1, <1>2, <1>6, <2>1, Zenon DEF InYield
<1>11. InLeave'
  <2>1. Leaving(t)' => Running(t)' /\ mode'[t] = "run" /\ t \in On(sched', "queue")
    BY <1>1, <1>2, <1>4, <1>5 DEF Running
  <2>. QED
    BY <1>1, <2>1, Zenon DEF InLeave
<1>12. CurrentOff'
  BY <1>1, <1>2, <1>5 DEF CurrentOff, KInv, KTypes
<1>13. Fresh'
  BY <1>1, <1>2, <1>5, <1>6 DEF KInv, Fresh
<1>14. Found'
  BY <1>1, <1>2, <1>5, <1>6 DEF KInv, Found, InTransit
<1>15. Ticking'
  BY <1>1, Zenon DEF Ticking
<1>16. Transit'
  <2>1. target[t] = Null
    BY DEF KInv, Transit, Plain
  <2>2. \A u \in Thread \ {t} : pc'[u] = pc[u] /\ target'[u] = target[u]
    BY <1>2
  <2>3. ASSUME NEW u \in Thread \ {t}, target[u] # Null
        PROVE  /\ target[u] \in Thread /\ Off(sched', target[u])
               /\ target[u] # sched'.current /\ pc'[target[u]] # "new"
               /\ \A v \in Thread : target[v] = target[u] => v = u
               /\ pc[u] \in Enqueuer => sched'.state[target[u]] = "RUNNABLE"
    <3>1. /\ target[u] \in Thread /\ Off(sched, target[u]) /\ target[u] # sched.current
          /\ pc[target[u]] # "new"
          /\ \A v \in Thread : target[v] = target[u] => v = u
          /\ pc[u] \in Enqueuer => sched.state[target[u]] = "RUNNABLE"
      BY <2>3, Zenon DEF KInv, Transit
    <3>2. target[u] # t /\ pc'[target[u]] # "new"
      BY <1>1, <1>2, <3>1, Zenon
    <3>. QED
      BY <1>5, <1>6, <3>1, <3>2, Zenon
  <2>. QED
    BY <2>1, <2>2, <2>3, Zenon DEF KInv, Transit, Plain
<1>17. Waits'
  <2>1. \A u \in Thread : pc'[u] # "pop_blocked"
    BY <1>1, Zenon
  <2>2. \A u \in Thread : pc'[u] = "wake_pop" => On(sched', "queue") # {}
    <3>1. \A u \in Thread : pc'[u] = "wake_pop" => pc[u] = "wake_pop"
      BY <1>2, Zenon
    <3>2. On(sched, "queue") \subseteq On(sched', "queue")
      BY <1>2, <1>7, Zenon
    <3>. QED
      BY <3>1, <3>2, Zenon DEF KInv, Waits
  <2>. QED
    BY <2>1, <2>2, Zenon DEF Waits
<1>. QED
  BY <1>4, <1>8, <1>9, <1>10, <1>11, <1>12, <1>13, <1>14, <1>15, <1>16, <1>17 DEF KInv

(* Enqueue of the thread that is started or woken. *)
LEMMA EnqueueStep ==
  ASSUME ListsWork, KInv, NEW t \in Thread, Moves(t),
         mode' = [mode EXCEPT ![t] = EnqueueMode(sched)],
         target' = [target EXCEPT ![t] = Null],
         pc[t] \in Enqueuer, pc'[t] \notin Waker \cup Enqueuer,
         pc'[t] \notin {"pop_blocked", "wake_pop"}, Leaving(t)' <=> Leaving(t),
         sched' = Enqueue(sched, target[t])
  PROVE  KInv' /\ Stay
<1>0. mode' = mode
  <2>1. Idle # t /\ sched.current = t /\ mode[t] = "run" /\ t \in Node
    BY DEF Moves, Running, Thread
  <2>. QED
    BY <2>1, Zenon DEF EnqueueMode, KInv, KTypes
<1>1. /\ \A u \in Node \ {t} : mode[u] = "run" /\ mode'[u] = "run"
      /\ \A u \in Thread \ {t} : ~Leaving(u) /\ ~Leaving(u)'
      /\ Idle \in Node /\ Idle # t /\ tick = "off" /\ tick' = "off" /\ sched.current = t
      /\ pc'[Idle] = "spin"
      /\ \A u \in Thread \ {t} : pc[u] # "pop_blocked" /\ pc'[u] # "pop_blocked"
  BY <1>0, Others, Zenon
<1>2. /\ t \in Node /\ mode[t] = "run" /\ mode'[t] = "run" /\ \A u \in Thread : u \in Node
      /\ pc' \in [Node -> QueueLabel] /\ pc[t] # "new" /\ pc'[t] # "new"
      /\ \A u \in Node \ {t} : pc'[u] = pc[u]
      /\ "runnable" \in ListId /\ "mutex" \in ListId /\ "queue" \in ListId
      /\ target \in [Node -> Pointer]
  BY <1>0, AllLists, Zenon DEF Moves, Thread, KInv, KTypes
<1>. DEFINE x == target[t]
<1>3. /\ x \in Thread /\ x \in Node /\ Off(sched, x) /\ x # t /\ pc[x] # "new"
      /\ x # Idle
      /\ \A u \in Thread : target[u] = x => u = t
      /\ sched.state[x] = "RUNNABLE" /\ x # Null
  BY <1>1, <1>2, NullAssumption, Zenon DEF KInv, Transit, Thread
<1>4. /\ target'[t] = Null /\ \A u \in Thread \ {t} : target'[u] = target[u]
      /\ target' \in [Node -> Pointer]
  BY <1>2, Zenon DEF Pointer
<1>5. sched' = PushBack(sched, "runnable", x)
  BY <1>3, Zenon DEF Enqueue
<1>. HIDE DEF x
<1>6. /\ sched' \in Sched /\ Keeps(sched', sched) /\ Intact(sched')
      /\ On(sched', "runnable") = On(sched, "runnable") \cup {x}
      /\ \A r \in ListId \ {"runnable"} : On(sched', r) = On(sched, r)
  <2>1. PushBackPromise
    BY Zenon DEF ListsWork
  <2>2. /\ sched \in Sched /\ Intact(sched) /\ x \in Node /\ "runnable" \in ListId
        /\ \A r \in ListId : x \notin On(sched, r)
    BY <1>2, <1>3, Zenon DEF Off, KInv, Sane
  <2>. QED
    BY <1>5, <2>1, <2>2 DEF PushBackPromise
<1>7. sched'.state = sched.state /\ sched'.current = t /\ sched'.panic = sched.panic
  BY <1>1, <1>6, Zenon DEF Keeps
<1>8. /\ \A u : u # x => (Off(sched', u) <=> Off(sched, u))
      /\ ~Off(sched', x)
      /\ \A r \in ListId : On(sched, r) \subseteq On(sched', r)
  BY <1>2, <1>6 DEF Off
<1>9. Sane(sched')
  <2>1. Sane(sched)
    BY Zenon DEF KInv
  <2>2. \A u \in Node : ~IsDying(sched', u)
    BY <1>7, <2>1, Zenon DEF Sane, IsDying
  <2>3. \A u \in On(sched', "runnable") : sched'.state[u] = "RUNNABLE"
    BY <1>3, <1>6, <1>7, <2>1, Zenon DEF Sane
  <2>4. t \notin On(sched', "runnable")
    BY <1>1, <1>3, <1>6, <2>1, Zenon DEF Sane
  <2>. QED
    BY <1>1, <1>2, <1>6, <1>7, <2>1, <2>2, <2>3, <2>4, ZenonT(40) DEF Sane
<1>10. KTypes'
  BY <1>0, <1>1, <1>2, <1>4, Zenon DEF KInv, KTypes, Moves
<1>11. InYield'
  BY <1>1, <1>2, Zenon DEF InYield
<1>12. InLeave'
  BY <1>1, <1>2, <1>7, <1>8, ZenonT(40) DEF KInv, InLeave, Running
<1>13. CurrentOff'
  BY <1>1, <1>2, <1>3, <1>7, <1>8, Zenon DEF KInv, CurrentOff
<1>14. Fresh'
  <2>1. \A u \in Thread : pc'[u] = "new" => u # t /\ u # x /\ pc[u] = "new"
    BY <1>2, <1>3, Zenon
  <2>. QED
    BY <1>7, <1>8, <2>1, Zenon DEF KInv, Fresh
<1>15. Found'
  <2>1. ASSUME NEW u \in Thread, Off(sched', u)
        PROVE  sched'.current = u \/ pc'[u] = "new" \/ \E v \in Thread : target'[v] = u
    <3>1. u # x /\ Off(sched, u)
      BY <1>8, <2>1, Zenon
    <3>2. sched.current = u \/ pc[u] = "new" \/ \E v \in Thread : target[v] = u
      BY <3>1, Zenon DEF KInv, Found, InTransit
    <3>. QED
      BY <1>1, <1>2, <1>4, <1>7, <3>1, <3>2, Zenon DEF x
  <2>. QED
    BY <2>1, Zenon DEF Found, InTransit
<1>16. Ticking'
  BY <1>1, Zenon DEF Ticking
<1>17. Transit'
  <2>1. ASSUME NEW u \in Thread \ {t}, target[u] # Null
        PROVE  /\ target[u] \in Thread /\ Off(sched', target[u])
               /\ target[u] # sched'.current /\ pc'[target[u]] # "new"
               /\ \A v \in Thread : target'[v] = target[u] => v = u
               /\ pc[u] \in Enqueuer => sched'.state[target[u]] = "RUNNABLE"
    <3>1. target[u] # x
      BY <1>3, <2>1, Zenon
    <3>2. /\ target[u] \in Thread /\ Off(sched, target[u]) /\ target[u] # sched.current
          /\ pc[target[u]] # "new"
          /\ \A v \in Thread : target[v] = target[u] => v = u
          /\ pc[u] \in Enqueuer => sched.state[target[u]] = "RUNNABLE"
      BY <2>1, Zenon DEF KInv, Transit
    <3>3. Off(sched', target[u]) /\ target[u] # sched'.current
      BY <1>1, <1>7, <1>8, <3>1, <3>2, Zenon
    <3>4. pc'[target[u]] # "new"
      BY <1>2, <3>2, Zenon
    <3>5. \A v \in Thread : target'[v] = target[u] => v = u
      BY <1>4, <2>1, <3>2, Zenon
    <3>. QED
      BY <1>7, <3>2, <3>3, <3>4, <3>5, Zenon
  <2>2. \A u \in Thread \ {t} : target[u] # Null <=> pc[u] \in Waker \cup Enqueuer
    BY Zenon DEF KInv, Transit
  <2>3. \A u \in Thread \ {t} : pc'[u] = pc[u] /\ target'[u] = target[u]
    BY <1>2, <1>4
  <2>. QED
    <3>. SUFFICES ASSUME NEW u \in Thread
                  PROVE  /\ target'[u] # Null <=> pc'[u] \in Waker \cup Enqueuer
                         /\ target'[u] # Null =>
                              /\ target'[u] \in Thread /\ Off(sched', target'[u])
                              /\ target'[u] # sched'.current /\ pc'[target'[u]] # "new"
                              /\ \A v \in Thread : target'[v] = target'[u] => v = u
                         /\ pc'[u] \in Enqueuer => sched'.state[target'[u]] = "RUNNABLE"
      BY Zenon DEF Transit
    <3>1. CASE u = t
      BY <1>4, <3>1, Zenon
    <3>2. CASE u # t
      <4>1. pc'[u] = pc[u] /\ target'[u] = target[u]
        BY <2>3, <3>2, Zenon
      <4>2. target[u] # Null <=> pc[u] \in Waker \cup Enqueuer
        BY <2>2, <3>2, Zenon
      <4>3. CASE target[u] = Null
        BY <4>1, <4>2, <4>3, Zenon
      <4>4. CASE target[u] # Null
        <5>1. /\ target[u] \in Thread /\ Off(sched', target[u])
              /\ target[u] # sched'.current /\ pc'[target[u]] # "new"
              /\ \A v \in Thread : target'[v] = target[u] => v = u
              /\ pc[u] \in Enqueuer => sched'.state[target[u]] = "RUNNABLE"
          BY <2>1, <3>2, <4>4, Zenon
        <5>. QED
          BY <4>1, <4>2, <4>4, <5>1, Zenon
      <4>. QED
        BY <4>3, <4>4, Zenon
    <3>. QED
      BY <3>1, <3>2, Zenon
<1>18. Waits'
  BY <1>1, <1>2, <1>8, ZenonT(40) DEF KInv, Waits
<1>. QED
  BY <1>2, <1>6, <1>9, <1>10, <1>11, <1>12, <1>13, <1>14, <1>15, <1>16, <1>17, <1>18
  DEF KInv, Stay

(* A thread that has the CPU and is on no list sets its own state. *)
LEMMA OwnState ==
  ASSUME ListsWork, KInv, NEW t \in Thread, Running(t), NEW st \in {"SLEEPING", "BLOCKED"},
         sched' = SetState(sched, t, st)
  PROVE  /\ Sane(sched') /\ SameOn(sched', sched) /\ sched'.current = sched.current
         /\ \A u \in Node \ {t} : sched'.state[u] = sched.state[u]
<1>1. /\ t \in Node /\ t # Idle /\ sched.current = t /\ Sane(sched) /\ sched \in Sched
      /\ Intact(sched) /\ ~IsDying(sched, t) /\ st \in ThreadState
      /\ "runnable" \in ListId
      /\ Idle \in Node
  BY SchedulerAssumption, Zenon DEF Thread, Running, KInv, Sane, ThreadState
<1>2. /\ sched' \in Sched /\ Intact(sched') /\ SameOn(sched', sched)
      /\ sched'.state = [sched.state EXCEPT ![t] = st]
      /\ sched'.current = sched.current /\ sched'.panic = sched.panic
  <2>1. StatePromise
    BY Zenon DEF ListsWork
  <2>. QED
    BY <1>1, <2>1, ZenonT(40) DEF StatePromise
<1>3. /\ sched'.state[t] = st /\ \A u \in Node \ {t} : sched'.state[u] = sched.state[u]
  BY <1>1, <1>2, Zenon DEF Sched
<1>4. \A u \in Node : ~IsDying(sched', u)
  BY <1>1, <1>3, Zenon DEF Sane, IsDying
<1>5. On(sched, "runnable") \subseteq Node
  BY <1>1, Zenon DEF ListsWork, FrontPromise
<1>6. \A u \in On(sched', "runnable") : sched'.state[u] = "RUNNABLE"
  BY <1>1, <1>2, <1>3, <1>5, ZenonT(40) DEF Sane, SameOn
<1>7. Sane(sched')
  BY <1>1, <1>2, <1>3, <1>4, <1>6, Zenon DEF Sane, SameOn
<1>. QED
  BY <1>2, <1>3, <1>7, Zenon

(* Every step of the scheduler keeps the invariant, and no waiter of the   *)
(* mutex or of the queue leaves or comes.                                  *)
LEMMA SchedKeeps ==
  ASSUME ListsWork
  PROVE  Quiet /\ KInv /\ SchedNext /\ UNCHANGED ret => KInv' /\ Stay
(* Such a change of the current thread keeps the invariant, when no thread *)
(* is in Yield or about to enter it afterwards.                            *)
<1>SwitchStep.
    ASSUME KInv, UNCHANGED <<pc, target, ret>>, Switches,
           mode' \in [Node -> {"run", "clear", "switch"}],
           \A u \in Node : mode'[u] = "run",
           \A u \in Thread : ~Leaving(u) /\ pc[u] # "pop_blocked",
           tick' \in {"off", "decrement", "clear", "swap"}, cursor' \in Pointer,
           tick' = "decrement" /\ cursor' # Null => cursor' \in On(sched', "sleeping")
    PROVE  KInv'
  <2>. USE <1>SwitchStep
  <2>1. \A u \in Thread : ~Leaving(u)'
    BY Zenon DEF Leaving
  <2>2. Idle \in Node /\ \A u \in Thread : u \in Node
    BY SchedulerAssumption DEF Thread
  <2>3. KTypes'
    BY DEF KInv, KTypes
  <2>4. InYield'
    BY <2>2 DEF InYield
  <2>5. InLeave'
    BY <2>1 DEF InLeave
  <2>6. CurrentOff'
    BY Zenon DEF CurrentOff, Switches
  <2>7. Fresh'
    BY Zenon DEF KInv, Fresh, Switches
  <2>8. Found'
    <3>1. \A u \in Thread : Off(sched', u) => sched'.current = u \/ pc[u] = "new" \/ InTransit(u)
      BY Zenon DEF KInv, Found, Switches
    <3>. QED
      BY <3>1, Zenon DEF Found, InTransit
  <2>9. Ticking'
    BY Zenon DEF Ticking, Switches
  <2>10. Transit'
    <3>1. ASSUME NEW u \in Thread, target[u] # Null
          PROVE  /\ Off(sched', target[u]) /\ target[u] # sched'.current
                 /\ sched'.state[target[u]] = sched.state[target[u]]
      BY <3>1, Zenon DEF KInv, Transit, Switches
    <3>2. \A u \in Thread : pc[u] \in Enqueuer => target[u] # Null
      BY Zenon DEF KInv, Transit
    <3>. QED
      BY <3>1, <3>2, Zenon DEF KInv, Transit
  <2>11. Waits'
    BY Zenon DEF KInv, Waits, Switches
  <2>. QED
    BY <2>3, <2>4, <2>5, <2>6, <2>7, <2>8, <2>9, <2>10, <2>11, Zenon DEF KInv, Switches
(* The timer interrupt. *)
<1>TimerKeeps.
    ASSUME Quiet, KInv, TimerInterrupt, UNCHANGED ret
    PROVE  KInv' /\ Stay
  <2>. USE <1>TimerKeeps
  <2>. DEFINE cur == sched.current
  <2>1. /\ cur \in Node /\ mode[cur] = "run" /\ Off(sched, cur) /\ pc[cur] # "pop_blocked"
        /\ tick' = "decrement" /\ cursor' = sched.list["sleeping"].front
        /\ UNCHANGED <<sched, pc, mode, target, ret>>
    BY Zenon DEF TimerInterrupt, Executing, Quiet, YieldRace, ReleaseRace, ListedRace, TicksAt,
       Ticks, Off, PeekFront, KInv, Sane
  <2>2. /\ "sleeping" \in ListId /\ "queue" \in ListId /\ Idle \in Node
        /\ sched \in Sched /\ Intact(sched)
        /\ \A u \in Thread : u \in Node
    BY AllLists, SchedulerAssumption, Zenon DEF KInv, Sane, Thread
  <2>3. cursor' \in Pointer /\ (cursor' # Null => cursor' \in On(sched, "sleeping"))
    BY <2>1, <2>2, Zenon DEF Pointer, ListsWork, FrontPromise
  <2>4. \A u \in Node : mode[u] = "run"
    BY <2>1, Zenon DEF KInv, InYield, Running
  <2>5. \A u \in Thread : ~Leaving(u) /\ pc[u] # "pop_blocked"
    BY <2>1, <2>2, Zenon DEF KInv, InLeave, Waits, Running, Off
  <2>6. Switches
    BY <2>1, Zenon DEF Switches, KInv
  <2>. HIDE DEF cur
  <2>7. mode' \in [Node -> {"run", "clear", "switch"}]
    BY <2>1, Zenon DEF KInv, KTypes
  <2>. QED
    BY <2>1, <2>3, <2>4, <2>5, <2>6, <2>7, <1>SwitchStep, Zenon DEF Switches, Stay
(* In the handler no thread executes its own code. *)
<1>InHandler.
    ASSUME KInv, tick # "off"
    PROVE  /\ \A u \in Node : mode[u] = "run"
           /\ \A u \in Thread : ~Leaving(u) /\ pc[u] # "pop_blocked"
           /\ Off(sched, sched.current) /\ sched \in Sched /\ Intact(sched)
           /\ sched.current \in Node /\ ~sched.panic
           /\ mode \in [Node -> {"run", "clear", "switch"}] /\ cursor \in Pointer
  <2>. USE <1>InHandler
  <2>1. \A u \in Node : mode[u] = "run"
    BY Zenon DEF KInv, InYield, Running
  <2>2. \A u \in Thread : ~Leaving(u) /\ pc[u] # "pop_blocked"
    BY Zenon DEF KInv, InLeave, Waits, Running
  <2>. QED
    BY <2>1, <2>2, Zenon DEF KInv, Ticking, Sane, KTypes
(* Preempt from its cli on: the current thread goes to the end of the      *)
(* runnable threads, the first of them gets the CPU.                       *)
<1>TickSwapKeeps.
    ASSUME KInv, TickSwap, UNCHANGED ret
    PROVE  KInv' /\ Stay
  <2>. USE <1>TickSwapKeeps
  <2>. DEFINE cur == sched.current
              nxt == sched'.current
  <2>1. /\ \A u \in Node : mode[u] = "run"
        /\ \A u \in Thread : ~Leaving(u) /\ pc[u] # "pop_blocked"
        /\ Off(sched, cur) /\ sched \in Sched /\ Intact(sched) /\ cur \in Node
        /\ mode \in [Node -> {"run", "clear", "switch"}] /\ cursor \in Pointer
        /\ Sane(sched) /\ tick' = "off"
        /\ sched' = PreemptSwap(sched)
        /\ UNCHANGED <<pc, mode, cursor, target>>
    BY <1>InHandler, Zenon DEF TickSwap, KInv
  <2>2. /\ Sane(sched') /\ nxt \in On(sched, "runnable") \cup {cur}
        /\ On(sched', "runnable") = (On(sched, "runnable") \cup {cur}) \ {nxt}
        /\ \A r \in ListId \ {"runnable"} : On(sched', r) = On(sched, r)
        /\ \A u \in Node \ {cur, nxt} : sched'.state[u] = sched.state[u]
    BY <2>1, Zenon DEF ListsWork, PreemptPromise
  <2>3. /\ {"runnable", "mutex", "queue"} \subseteq ListId /\ \A u \in Thread : u \in Node
    BY AllLists DEF Thread
  <2>4. \A r \in ListId \ {"runnable"} : nxt \notin On(sched, r)
    BY <2>1, <2>2, <2>3, Zenon DEF Intact, Off
  <2>5. Off(sched', nxt)
    BY <2>2, <2>4, Zenon DEF Off
  <2>6. \A u : u \notin {cur, nxt} => (Off(sched', u) <=> Off(sched, u))
    BY <2>2, <2>3, Zenon DEF Off
  <2>7. cur # nxt => ~Off(sched', cur)
    BY <2>2, <2>3, Zenon DEF Off
  <2>8. \A u : u # cur /\ Off(sched, u) => u # nxt
    BY <2>2, <2>3, Zenon DEF Off
  <2>9. Switches
    BY <2>2, <2>3, <2>5, <2>6, <2>7, <2>8, Zenon DEF Switches
  <2>. HIDE DEF cur, nxt
  <2>. QED
    BY <2>1, <2>9, <1>SwitchStep, Zenon DEF Switches, Stay
(* ClearDeadThreadsFromFront in Preempt finds nothing dead. *)
<1>TickClearKeeps.
    ASSUME KInv, TickClear, UNCHANGED ret
    PROVE  KInv' /\ Stay
  <2>. USE <1>TickClearKeeps
  <2>1. /\ tick = "clear" /\ tick' = "swap"
        /\ UNCHANGED <<sched, pc, mode, cursor, target>>
    BY Zenon DEF TickClear, KInv, ListsWork, DeadPromise
  <2>2. /\ \A u \in Node : mode[u] = "run"
        /\ \A u \in Thread : ~Leaving(u) /\ pc[u] # "pop_blocked"
        /\ Off(sched, sched.current)
        /\ mode \in [Node -> {"run", "clear", "switch"}] /\ cursor \in Pointer
    BY <2>1, <1>InHandler, Zenon
  <2>3. Switches
    BY <2>1, <2>2, Zenon DEF Switches, KInv
  <2>. QED
    BY <2>1, <2>2, <2>3, <1>SwitchStep, Zenon DEF Switches, Stay
(* A sleeper loses a tick. *)
<1>DecrementIs.
    ASSUME NEW h \in Sched, Intact(h), NEW x \in Node
    PROVE  LET g == DecrementSleepTicks(h, x)
           IN /\ g \in Sched /\ Intact(g) /\ SameOn(g, h)
              /\ g.state = h.state /\ g.current = h.current /\ g.panic = h.panic
  <2>. USE <1>DecrementIs
  <2>. DEFINE g == DecrementSleepTicks(h, x)
  <2>1. h.ticks \in [Node -> Nat]
    BY Zenon DEF Sched
  <2>2. [h.ticks EXCEPT ![x] = IF @ = 0 THEN 0 ELSE @ - 1] \in [Node -> Nat]
    BY <2>1
  <2>3. g = [h EXCEPT !.ticks = [h.ticks EXCEPT ![x] = IF @ = 0 THEN 0 ELSE @ - 1]]
    BY <2>1 DEF DecrementSleepTicks, Sched
  <2>4. g \in Sched
    BY <2>2, <2>3, Zenon DEF Sched
  <2>5. /\ g.state = h.state /\ g.current = h.current /\ g.panic = h.panic
        /\ g.list = h.list /\ g.next = h.next /\ g.prev = h.prev
    BY <2>3, Zenon DEF Sched
  <2>. HIDE DEF g
  <2>6. Intact(g) /\ SameOn(g, h)
    BY <2>4, <2>5, Zenon DEF SameOn, ListsWork, SamePromise
  <2>. QED
    BY <2>4, <2>5, <2>6, Zenon DEF g
(* The loop of DecrementSleepingThreads: the next of a node that stays, or *)
(* of one that is removed, is on the list still.                           *)
<1>TickDecrementKeeps.
    ASSUME KInv, TickDecrement, UNCHANGED ret
    PROVE  KInv' /\ Stay
  <2>. USE <1>TickDecrementKeeps
  <2>. DEFINE x == cursor
              cur == sched.current
              s == DecrementSleepTicks(sched, x)
              r == Remove(s, "sleeping", x)
              v == SetState(r, x, "RUNNABLE")
  <2>1. /\ \A u \in Node : mode[u] = "run"
        /\ \A u \in Thread : ~Leaving(u) /\ pc[u] # "pop_blocked"
        /\ Off(sched, cur) /\ sched \in Sched /\ Intact(sched) /\ cur \in Node
        /\ mode \in [Node -> {"run", "clear", "switch"}] /\ cursor \in Pointer
        /\ Sane(sched) /\ UNCHANGED <<pc, mode, target>> /\ tick = "decrement"
        /\ ~sched.panic
    BY <1>InHandler, Zenon DEF TickDecrement, KInv
  <2>2. /\ {"runnable", "sleeping", "mutex", "queue"} \subseteq ListId
        /\ \A u \in Thread : u \in Node /\ u # Idle
    BY AllLists DEF Thread
  <2>3. CASE cursor = Null
    <3>1. tick' = "clear" /\ UNCHANGED <<sched, cursor>>
      BY <2>3, Zenon DEF TickDecrement
    <3>2. Switches
      BY <2>1, <3>1, Zenon DEF Switches
    <3>. QED
      BY <2>1, <3>1, <3>2, <1>SwitchStep, Zenon DEF Switches, Stay
  <2>4. CASE cursor # Null
    <3>1. /\ cursor' = sched.next[x] /\ tick' = "decrement"
          /\ sched' = IF LastTick(sched, x) THEN PushBack(v, "runnable", x) ELSE s
      BY <2>1, <2>4, Zenon DEF TickDecrement
    <3>2. /\ x \in On(sched, "sleeping") /\ x \in Node /\ x # Idle /\ x # cur
          /\ \A q \in ListId \ {"sleeping"} : x \notin On(sched, q)
      <4>1. x \in On(sched, "sleeping")
        BY <2>1, <2>4, Zenon DEF KInv, Ticking
      <4>2. x \in Node
        BY <2>1, <2>2, <4>1, Zenon DEF ListsWork, FrontPromise
      <4>. QED
        BY <2>1, <2>2, <4>1, <4>2, ZenonT(40) DEF Sane, Intact, Off
    <3>3. cursor' \in (On(sched, "sleeping") \ {x}) \cup {Null} /\ cursor' \in Pointer
      BY <2>1, <2>2, <3>1, <3>2, Zenon DEF Pointer, ListsWork, FrontPromise
    <3>4. /\ s \in Sched /\ Intact(s) /\ SameOn(s, sched)
          /\ s.state = sched.state /\ s.current = cur /\ s.panic = sched.panic
      BY <2>1, <3>2, <1>DecrementIs, Zenon
    <3>. HIDE DEF s
    <3>5. CASE LastTick(sched, x)
      <4>1. /\ r \in Sched /\ Keeps(r, s) /\ Intact(r)
            /\ On(r, "sleeping") = On(s, "sleeping") \ {x}
            /\ \A q \in ListId \ {"sleeping"} : On(r, q) = On(s, q)
        <5>1. RemovePromise
          BY Zenon DEF ListsWork
        <5>2. /\ x \in On(s, "sleeping") /\ "sleeping" \in ListId /\ x \in Node
              /\ s \in Sched /\ Intact(s)
          BY <2>2, <3>2, <3>4, Zenon DEF SameOn
        <5>. QED
          BY <5>1, <5>2 DEF RemovePromise
      <4>2. /\ r.state = sched.state /\ r.current = cur /\ r.panic = sched.panic
        BY <3>4, <4>1, Zenon DEF Keeps
      <4>. HIDE DEF r
      <4>3. /\ v \in Sched /\ Intact(v) /\ SameOn(v, r)
            /\ v.state = [r.state EXCEPT ![x] = "RUNNABLE"]
            /\ v.current = r.current /\ v.panic = r.panic
        <5>1. ~IsDying(r, x) /\ "RUNNABLE" \in ThreadState
          BY <2>1, <3>2, <4>2, Zenon DEF Sane, IsDying, ThreadState
        <5>2. StatePromise
          BY Zenon DEF ListsWork
        <5>3. x \in Node /\ r \in Sched /\ Intact(r)
          BY <3>2, <4>1, Zenon
        <5>. QED
          BY <5>1, <5>2, <5>3 DEF StatePromise
      <4>. HIDE DEF v
      <4>4. \A q \in ListId : x \notin On(v, q)
        BY <2>2, <3>2, <3>4, <4>1, <4>3, Zenon DEF SameOn
      <4>5. sched' = PushBack(v, "runnable", x)
        BY <3>1, <3>5, Zenon
      <4>6. /\ sched' \in Sched /\ Keeps(sched', v) /\ Intact(sched')
            /\ On(sched', "runnable") = On(v, "runnable") \cup {x}
            /\ \A q \in ListId \ {"runnable"} : On(sched', q) = On(v, q)
        <5>1. PushBackPromise
          BY Zenon DEF ListsWork
        <5>2. v \in Sched /\ Intact(v) /\ x \in Node /\ "runnable" \in ListId
          BY <2>2, <3>2, <4>3, Zenon
        <5>. QED
          BY <4>4, <4>5, <5>1, <5>2 DEF PushBackPromise
      <4>7. /\ sched'.current = cur /\ ~sched'.panic
            /\ sched'.state = [sched.state EXCEPT ![x] = "RUNNABLE"]
        BY <2>1, <4>2, <4>3, <4>6, Zenon DEF Keeps
      <4>8. /\ On(sched', "runnable") = On(sched, "runnable") \cup {x}
            /\ On(sched', "sleeping") = On(sched, "sleeping") \ {x}
            /\ \A q \in ListId \ {"runnable", "sleeping"} : On(sched', q) = On(sched, q)
        BY <2>2, <3>4, <4>1, <4>3, <4>6, Zenon DEF SameOn
      <4>9. /\ sched'.state[x] = "RUNNABLE"
            /\ \A u \in Node \ {x} : sched'.state[u] = sched.state[u]
        BY <2>1, <3>2, <4>7, ZenonT(40) DEF Sched
      <4>10. Sane(sched')
        <5>1. \A u \in Node : ~IsDying(sched', u)
          BY <2>1, <4>9, Zenon DEF Sane, IsDying
        <5>2. On(sched, "runnable") \subseteq Node
          BY <2>1, <2>2, Zenon DEF ListsWork, FrontPromise
        <5>3. \A u \in On(sched', "runnable") : sched'.state[u] = "RUNNABLE"
          BY <2>1, <4>8, <4>9, <5>2, Zenon DEF Sane
        <5>4. /\ cur # Idle => sched'.state[Idle] = "RUNNABLE"
              /\ \A q \in ListId \ {"runnable"} : Idle \notin On(sched', q)
              /\ cur \notin On(sched', "runnable")
          BY <2>1, <2>2, <3>2, <4>8, <4>9, SchedulerAssumption, Zenon DEF Sane
        <5>. QED
          BY <2>1, <4>6, <4>7, <5>1, <5>3, <5>4, Zenon DEF Sane
      <4>11. /\ \A u : u # x => (Off(sched', u) <=> Off(sched, u))
             /\ ~Off(sched', x) /\ ~Off(sched, x)
        BY <2>2, <3>2, <4>8, Zenon DEF Off
      <4>12. Switches
        BY <2>1, <2>2, <3>2, <4>7, <4>8, <4>9, <4>10, <4>11, Zenon DEF Switches
      <4>13. cursor' # Null => cursor' \in On(sched', "sleeping")
        BY <3>3, <4>8, Zenon
      <4>. HIDE DEF x, cur
      <4>. QED
        BY <2>1, <3>1, <3>3, <4>12, <4>13, <1>SwitchStep, Zenon DEF Switches, Stay
    <3>6. CASE ~LastTick(sched, x)
      <4>1. sched' = s
        BY <3>1, <3>6, Zenon
      <4>2. \A q \in ListId : On(sched', q) = On(sched, q)
        BY <3>4, <4>1, Zenon DEF SameOn
      <4>3. /\ Sane(sched') /\ sched'.current = cur /\ sched'.state = sched.state
            /\ \A u : Off(sched', u) <=> Off(sched, u)
        BY <2>1, <2>2, <3>4, <4>1, <4>2, Zenon DEF Sane, IsDying, Off
      <4>4. Switches
        BY <2>1, <2>2, <4>2, <4>3, Zenon DEF Switches
      <4>5. cursor' # Null => cursor' \in On(sched', "sleeping")
        BY <2>2, <3>3, <4>2, Zenon
      <4>. HIDE DEF x, cur
      <4>. QED
        BY <2>1, <3>1, <3>3, <4>4, <4>5, <1>SwitchStep, Zenon DEF Switches, Stay
    <3>. QED
      BY <3>5, <3>6, Zenon
  <2>. QED
    BY <2>3, <2>4, Zenon
(* While a thread is in Yield, all others are outside of it. *)
<1>InYieldAlone.
    ASSUME KInv, NEW t \in Node, mode[t] # "run"
    PROVE  /\ sched.current = t /\ tick = "off"
           /\ \A u \in Node \ {t} : mode[u] = "run"
           /\ \A u \in Thread : ~Leaving(u) /\ pc[u] # "pop_blocked"
           /\ t = Idle => On(sched, "runnable") # {}
           /\ t # Idle => ~Off(sched, t)
           /\ Sane(sched) /\ sched \in Sched /\ Intact(sched)
           /\ mode \in [Node -> {"run", "clear", "switch"}] /\ cursor \in Pointer
  <2>. USE <1>InYieldAlone
  <2>1. sched.current = t /\ tick = "off"
    BY Zenon DEF KInv, InYield, Running
  <2>2. \A u \in Thread : ~Leaving(u) /\ pc[u] # "pop_blocked"
    BY <2>1, Zenon DEF KInv, InLeave, InYield, Waits, Running
  <2>3. \A u \in Node \ {t} : mode[u] = "run"
    BY <2>1, Zenon DEF KInv, InYield, Running
  <2>. QED
    BY <2>1, <2>2, <2>3, Zenon DEF KInv, InYield, Thread, Sane, KTypes
(* ClearDeadThreadsFromFront in Yield finds nothing dead. *)
<1>YieldClearKeeps.
    ASSUME KInv, NEW t \in Node, YieldClear(t), UNCHANGED ret
    PROVE  KInv' /\ Stay
  <2>. USE <1>YieldClearKeeps
  <2>1. /\ mode[t] = "clear" /\ mode' = [mode EXCEPT ![t] = "switch"]
        /\ UNCHANGED <<sched, pc, tick, cursor, target, ret>>
    BY Zenon DEF YieldClear, KInv, ListsWork, DeadPromise
  <2>2. /\ sched.current = t /\ tick = "off"
        /\ \A u \in Node \ {t} : mode[u] = "run"
        /\ \A u \in Thread : ~Leaving(u) /\ pc[u] # "pop_blocked"
        /\ mode \in [Node -> {"run", "clear", "switch"}]
    BY <2>1, <1>InYieldAlone
  <2>3. /\ \A u \in Node : mode'[u] = IF u = t THEN "switch" ELSE mode[u]
        /\ mode' \in [Node -> {"run", "clear", "switch"}]
    BY <2>1, <2>2, Zenon
  <2>4. /\ \A u \in Thread : Leaving(u)' <=> Leaving(u)
        /\ \A u \in Node : Running(u)' <=> Running(u)
        /\ \A u \in Thread : InTransit(u)' <=> InTransit(u)
    BY <2>1, Zenon DEF Leaving, Running, InTransit
  <2>5. KTypes' /\ Sane(sched')
    BY <2>1, <2>3, Zenon DEF KInv, KTypes
  <2>6. InYield'
    <3>1. \A u \in Node : mode'[u] # "run" => mode[u] # "run"
      BY <2>1, <2>3, Zenon
    <3>2. Idle \in Node /\ \A u \in Thread : u \in Node
      BY SchedulerAssumption, Zenon DEF Thread
    <3>. QED
      BY <2>1, <2>4, <3>1, <3>2, Zenon DEF KInv, InYield
  <2>7. InLeave'
    BY <2>2, <2>4, Zenon DEF InLeave
  <2>8. CurrentOff'
    BY <2>1, <2>2, <2>3, Zenon DEF CurrentOff
  <2>9. Fresh' /\ Ticking' /\ Transit'
    BY <2>1, Zenon DEF KInv, Fresh, Ticking, Transit
  <2>10. Found'
    BY <2>1, <2>4, Zenon DEF KInv, Found
  <2>11. Waits'
    BY <2>1, <2>2, Zenon DEF KInv, Waits
  <2>. QED
    BY <2>1, <2>5, <2>6, <2>7, <2>8, <2>9, <2>10, <2>11 DEF KInv, Stay
(* Yield from its cli on: the current thread is on the list it waits on,   *)
(* the first of the runnable threads or the sleep thread gets the CPU.     *)
<1>YieldSwitchKeeps.
    ASSUME KInv, NEW t \in Node, YieldSwitch(t), UNCHANGED ret
    PROVE  KInv' /\ Stay
  <2>. USE <1>YieldSwitchKeeps
  <2>. DEFINE nxt == sched'.current
  <2>1. /\ mode[t] = "switch" /\ mode' = [mode EXCEPT ![t] = "run"]
        /\ sched' = YieldSwap(sched) /\ UNCHANGED <<pc, tick, cursor, target, ret>>
    BY Zenon DEF YieldSwitch
  <2>2. /\ sched.current = t /\ tick = "off"
        /\ \A u \in Node \ {t} : mode[u] = "run"
        /\ \A u \in Thread : ~Leaving(u) /\ pc[u] # "pop_blocked"
        /\ t = Idle => On(sched, "runnable") # {}
        /\ t # Idle => ~Off(sched, t)
        /\ Sane(sched) /\ sched \in Sched /\ Intact(sched)
        /\ mode \in [Node -> {"run", "clear", "switch"}] /\ cursor \in Pointer
    BY <2>1, <1>InYieldAlone, Zenon
  <2>3. /\ \A u \in Node : mode'[u] = "run"
        /\ mode' \in [Node -> {"run", "clear", "switch"}]
    BY <2>1, <2>2, Zenon
  <2>4. /\ Sane(sched') /\ nxt # sched.current
        /\ nxt \in On(sched, "runnable") \/ (nxt = Idle /\ On(sched, "runnable") = {})
        /\ On(sched', "runnable") = On(sched, "runnable") \ {nxt}
        /\ \A r \in ListId \ {"runnable"} : On(sched', r) = On(sched, r)
        /\ \A u \in Node \ {sched.current, nxt} : sched'.state[u] = sched.state[u]
    BY <2>1, <2>2, Zenon DEF ListsWork, YieldPromise
  <2>5. /\ {"runnable", "mutex", "queue"} \subseteq ListId
        /\ \A u \in Thread : u \in Node /\ u # Idle
    BY AllLists, Zenon DEF Thread
  <2>6. \A r \in ListId \ {"runnable"} : nxt \notin On(sched, r)
    BY <2>2, <2>4, <2>5, ZenonT(40) DEF Sane, Intact
  <2>7. Off(sched', nxt)
    BY <2>4, <2>6, Zenon DEF Off
  <2>8. \A u : u # nxt => (Off(sched', u) <=> Off(sched, u))
    BY <2>4, <2>5, Zenon DEF Off
  <2>9. \A u \in Thread : Off(sched, u) => u # nxt /\ u # t
    BY <2>2, <2>4, <2>5, ZenonT(40) DEF Off
  <2>10. Switches
    BY <2>2, <2>4, <2>5, <2>7, <2>8, <2>9, Zenon DEF Switches
  <2>. HIDE DEF nxt
  <2>. QED
    BY <2>1, <2>2, <2>3, <2>10, <1>SwitchStep, Zenon DEF Switches, Stay
(* A statement of Sleep or of Thread::Start. *)
<1>SchedMovesIs.
    ASSUME KInv, NEW t \in Thread, Running(t), mode[t] = "run", UNCHANGED <<tick, cursor, ret>>,
           NEW label \in SchedLabel \ {"new"}, Goto(t, label), pc[t] # "new"
    PROVE  Moves(t)
  BY <1>SchedMovesIs, Zenon DEF Moves, Thread, Goto, KInv, KTypes, QueueLabel, Label
(* Scheduler::Sleep sets the ticks and the state of the current thread,    *)
(* ...                                                                     *)
<1>SleepKeeps.
    ASSUME KInv, NEW t \in Thread, Sleep(t) \/ SleepState(t), UNCHANGED ret
    PROVE  KInv' /\ Stay
  <2>. USE <1>SleepKeeps
  <2>1. /\ Running(t) /\ mode[t] = "run" /\ UNCHANGED <<mode, tick, cursor, target, ret>>
        /\ \/ pc[t] = "user" /\ Goto(t, "sleep_state")
           \/ pc[t] = "sleep_state" /\ Goto(t, "sleep_push")
    BY Zenon DEF Sleep, SleepState, At, Executing, Running
  <2>2. Moves(t)
    BY <2>1, <1>SchedMovesIs, Zenon DEF SchedLabel
  <2>3. /\ Plain(t) /\ (Leaving(t)' <=> Leaving(t)) /\ pc'[t] \notin {"pop_blocked", "wake_pop"}
    BY <2>1, Zenon DEF Plain, Leaving, Waker, Enqueuer, Releasing, Goto, KInv, KTypes, Thread
  <2>4. /\ Sane(sched') /\ SameOn(sched', sched) /\ sched'.current = sched.current
        /\ \A u \in Node \ {t} : sched'.state[u] = sched.state[u]
    <3>1. CASE SleepState(t)
      BY <2>1, <3>1, OwnState, Zenon DEF SleepState
    <3>2. CASE Sleep(t)
      <4>1. PICK n \in 1 .. MaxTicks : sched' = [sched EXCEPT !.ticks[t] = n]
        BY <3>2, Zenon DEF Sleep
      <4>2. sched \in Sched /\ Intact(sched) /\ t \in Node /\ n \in Nat
        BY SchedulerAssumption DEF KInv, Sane, Thread
      <4>3. sched' \in Sched
        BY <4>1, <4>2, Zenon DEF Sched
      <4>4. /\ sched'.state = sched.state /\ sched'.current = sched.current
            /\ sched'.panic = sched.panic /\ sched'.list = sched.list
            /\ sched'.next = sched.next /\ sched'.prev = sched.prev
        BY <4>1, <4>2, Zenon DEF Sched
      <4>5. Intact(sched') /\ \A q \in ListId : On(sched', q) = On(sched, q)
        BY <4>2, <4>3, <4>4, Zenon DEF ListsWork, SamePromise
      <4>6. "runnable" \in ListId
        BY AllLists, Zenon
      <4>. QED
        BY <4>3, <4>4, <4>5, <4>6, Zenon DEF KInv, Sane, SameOn, IsDying
    <3>. QED
      BY <3>1, <3>2, Zenon
  <2>. QED
    BY AllLists, <2>1, <2>2, <2>3, <2>4, PlainStep, Zenon DEF SameOn, Stay
(* ... puts it on the list of sleepers, and yields. *)
<1>SleepPushKeeps.
    ASSUME KInv, NEW t \in Thread, SleepPush(t), UNCHANGED ret
    PROVE  KInv' /\ Stay
  <2>. USE <1>SleepPushKeeps
  <2>1. /\ Running(t) /\ mode[t] = "run" /\ sched' = PushBack(sched, "sleeping", t)
        /\ UNCHANGED <<tick, cursor, target, ret>> /\ mode' = [mode EXCEPT ![t] = "clear"]
        /\ pc[t] = "sleep_push" /\ Goto(t, "user")
    BY Zenon DEF SleepPush, At, Executing, Running, EnterYield
  <2>2. Moves(t) /\ pc'[t] = "user"
    BY <2>1, <1>SchedMovesIs, Zenon DEF SchedLabel, Goto, KInv, KTypes, Thread
  <2>3. Plain(t) /\ ~Leaving(t) /\ ~Leaving(t)'
    BY <2>1, <2>2, Zenon DEF Plain, Leaving, Waker, Enqueuer, Releasing
  <2>4. "sleeping" \in ListId \ {"runnable"} /\ {"mutex", "queue"} \subseteq ListId \ {"sleeping"}
    BY AllLists, Zenon
  <2>5. KInv' /\ \A r \in ListId \ {"sleeping"} : On(sched', r) = On(sched, r)
    BY <2>1, <2>2, <2>3, <2>4, PushStep, Zenon
  <2>. QED
    BY <2>4, <2>5, Zenon DEF Stay
(* The thread that was started is enqueued. *)
<1>StartEnqueueKeeps.
    ASSUME KInv, NEW t \in Thread, StartEnqueue(t), UNCHANGED ret
    PROVE  KInv' /\ Stay
  <2>. USE <1>StartEnqueueKeeps
  <2>1. /\ Running(t) /\ mode[t] = "run" /\ sched' = Enqueue(sched, target[t])
        /\ UNCHANGED <<tick, cursor, ret>>
        /\ mode' = [mode EXCEPT ![t] = EnqueueMode(sched)]
        /\ target' = [target EXCEPT ![t] = Null]
        /\ pc[t] = "start_enqueue" /\ Goto(t, "user")
    BY Zenon DEF StartEnqueue, At, Executing, Running
  <2>2. Moves(t) /\ pc'[t] = "user"
    BY <2>1, <1>SchedMovesIs, Zenon DEF SchedLabel, Goto, KInv, KTypes, Thread
  <2>3. /\ pc[t] \in Enqueuer /\ pc'[t] \notin Waker \cup Enqueuer /\ (Leaving(t)' <=> Leaving(t))
    BY <2>1, <2>2, Zenon DEF Leaving, Waker, Enqueuer, Releasing
  <2>. QED
    BY <2>1, <2>2, <2>3, EnqueueStep, Zenon
(* Thread::Start makes the new thread RUNNABLE; StartEnqueue enqueues it. *)
<1>StartKeeps.
    ASSUME KInv, NEW t \in Thread, NEW x \in Thread, Start(t, x), UNCHANGED ret
    PROVE  KInv' /\ Stay
  <2>. USE <1>StartKeeps
  <2>1. /\ t \in Node /\ x \in Node /\ Idle \in Node /\ Idle # t /\ Idle # x
        /\ sched.current = t /\ tick = "off" /\ mode[t] = "run" /\ pc[t] = "user"
        /\ pc[x] = "new"
        /\ x # t /\ x # Null /\ \A u \in Thread : u \in Node
    BY SchedulerAssumption, NullAssumption, ZenonT(40) DEF Start, At, Executing, Thread
  <2>2. /\ mode' = mode /\ tick' = tick /\ cursor' = cursor
        /\ pc'[t] = "start_enqueue" /\ pc'[x] = "user"
        /\ \A u \in Node \ {t, x} : pc'[u] = pc[u]
        /\ target'[t] = x /\ \A u \in Node \ {t} : target'[u] = target[u]
        /\ sched' = [sched EXCEPT !.state[x] = "RUNNABLE"]
        /\ pc \in [Node -> QueueLabel] /\ target \in [Node -> Pointer]
        /\ mode \in [Node -> {"run", "clear", "switch"}]
    BY <2>1 DEF Start, KInv, KTypes
  <2>3. pc' \in [Node -> QueueLabel] /\ target' \in [Node -> Pointer]
    BY <2>1, <2>2 DEF Start, QueueLabel, Label, SchedLabel, Pointer
  <2>4. /\ sched \in Sched /\ Intact(sched) /\ Off(sched, x)
    BY <2>1, Zenon DEF KInv, Sane, Fresh
  <2>5. sched' \in Sched
    BY <2>1, <2>2, <2>4, Zenon DEF Sched, ThreadState
  <2>6. /\ sched'.state[x] = "RUNNABLE" /\ sched'.current = t
        /\ sched'.panic = sched.panic
        /\ \A u \in Node \ {x} : sched'.state[u] = sched.state[u]
        /\ sched'.list = sched.list /\ sched'.next = sched.next
        /\ sched'.prev = sched.prev
    BY <2>1, <2>2, <2>4, Zenon DEF Sched
  <2>7. /\ Intact(sched') /\ \A q \in ListId : On(sched', q) = On(sched, q)
    BY <2>4, <2>5, <2>6, Zenon DEF ListsWork, SamePromise
  <2>8. /\ \A u : Off(sched', u) <=> Off(sched, u)
        /\ "runnable" \in ListId /\ "mutex" \in ListId /\ "queue" \in ListId
    BY <2>7, AllLists, Zenon DEF Off
  <2>9. /\ \A u \in Node \ {t} : mode[u] = "run"
        /\ \A u \in Thread : ~Leaving(u) /\ ~Leaving(u)'
    <3>1. \A u \in Thread : ~Leaving(u)
      BY <2>1, Zenon DEF KInv, InLeave, Running, Leaving, Releasing
    <3>2. \A u \in Thread : ~Leaving(u)'
      BY <2>1, <2>2, <3>1 DEF Leaving, Releasing
    <3>. QED
      BY <2>1, <3>1, <3>2, Zenon DEF KInv, InYield, Running
  <2>10. Sane(sched')
    <3>1. \A u \in Node : ~IsDying(sched', u)
      BY <2>6, Zenon DEF KInv, Sane, IsDying
    <3>2. \A u \in On(sched', "runnable") : sched'.state[u] = "RUNNABLE"
      BY <2>4, <2>6, <2>7, <2>8, Zenon DEF KInv, Sane, ListsWork, FrontPromise
    <3>. QED
      BY <2>1, <2>5, <2>6, <2>7, <2>8, <3>1, <3>2, Zenon DEF KInv, Sane
  <2>11. KTypes'
    BY <2>1, <2>2, <2>3, Zenon DEF KInv, KTypes
  <2>12. InYield'
    BY <2>1, <2>2, <2>9 DEF InYield
  <2>13. InLeave'
    BY <2>9, Zenon DEF InLeave
  <2>14. CurrentOff'
    BY <2>1, <2>2, <2>6, <2>8, <2>9 DEF KInv, CurrentOff
  <2>15. Fresh'
    BY <2>1, <2>2, <2>6, <2>8, ZenonT(40) DEF KInv, Fresh
  <2>16. Found'
    <3>1. target[t] = Null
      BY <2>1, Zenon DEF KInv, Transit, Waker, Enqueuer
    <3>2. ASSUME NEW u \in Thread, Off(sched, u)
          PROVE  sched'.current = u \/ pc'[u] = "new" \/ \E v \in Thread : target'[v] = u
      <4>1. sched.current = u \/ pc[u] = "new" \/ \E v \in Thread : target[v] = u
        BY <3>2, Zenon DEF KInv, Found, InTransit
      <4>2. CASE u = x
        BY <2>2, <4>2
      <4>3. CASE sched.current = u
        BY <2>1, <2>6, <4>3, Zenon
      <4>4. CASE pc[u] = "new" /\ u # x
        BY <2>1, <2>2, <4>4, Zenon
      <4>5. CASE \E v \in Thread : target[v] = u
        BY <2>1, <2>2, <3>1, <4>5, NullAssumption
      <4>. QED
        BY <4>1, <4>2, <4>3, <4>4, <4>5, Zenon
    <3>. QED
      BY <2>8, <3>2, Zenon DEF Found, InTransit
  <2>17. Ticking'
    BY <2>1, <2>2, Zenon DEF Ticking
  <2>18. Transit'
    <3>1. ASSUME NEW u \in Thread \ {t}, target[u] # Null
          PROVE  /\ target[u] \in Thread /\ Off(sched', target[u]) /\ target[u] # x
                 /\ target[u] # sched'.current /\ pc'[target[u]] # "new"
                 /\ \A v \in Thread : target[v] = target[u] => v = u
                 /\ pc[u] \in Enqueuer => sched'.state[target[u]] = "RUNNABLE"
      <4>1. /\ target[u] \in Thread /\ Off(sched, target[u])
            /\ target[u] # sched.current /\ pc[target[u]] # "new"
            /\ \A v \in Thread : target[v] = target[u] => v = u
            /\ pc[u] \in Enqueuer => sched.state[target[u]] = "RUNNABLE"
        BY <3>1, Zenon DEF KInv, Transit
      <4>2. target[u] # x
        BY <2>1, <4>1, Zenon
      <4>. QED
        BY <2>1, <2>2, <2>6, <2>8, <4>1, <4>2, ZenonT(40)
    <3>2. /\ \A u \in Thread \ {t} : target[u] # Null <=> pc[u] \in Waker \cup Enqueuer
          /\ \A u \in Thread \ {t} : pc[u] \in Waker \cup Enqueuer <=> pc'[u] \in Waker \cup Enqueuer
          /\ \A u \in Thread \ {t} : pc[u] \in Enqueuer <=> pc'[u] \in Enqueuer
          /\ pc'[t] \in Enqueuer
      BY <2>1, <2>2 DEF KInv, Transit, Waker, Enqueuer
    <3>3. \A v \in Thread : target'[v] = x => v = t
      BY <2>1, <2>2, <3>1
    <3>4. /\ target'[t] = x /\ x # Null /\ x \in Thread /\ Off(sched', x)
          /\ x # sched'.current
          /\ pc'[x] # "new" /\ sched'.state[x] = "RUNNABLE"
      BY <2>1, <2>2, <2>4, <2>6, <2>8, Zenon
    <3>5. ASSUME NEW u \in Thread \ {t}, target[u] # Null, NEW v \in Thread, target'[v] = target[u]
          PROVE  v = u
      BY <2>1, <2>2, <3>1, <3>5
    <3>6. \A u \in Thread \ {t} : target'[u] = target[u]
      BY <2>1, <2>2, Zenon
    <3>7. ASSUME NEW u \in Thread
          PROVE  /\ target'[u] # Null <=> pc'[u] \in Waker \cup Enqueuer
                 /\ target'[u] # Null => /\ target'[u] \in Thread /\ Off(sched', target'[u])
                                         /\ target'[u] # sched'.current
                                         /\ pc'[target'[u]] # "new"
                 /\ target'[u] # Null => \A v \in Thread : target'[v] = target'[u] => v = u
                 /\ pc'[u] \in Enqueuer => sched'.state[target'[u]] = "RUNNABLE"
      <4>1. CASE u = t
        BY <3>2, <3>3, <3>4, <4>1, Zenon
      <4>2. CASE u # t
        <5>1. target'[u] = target[u] /\ (target[u] # Null <=> pc'[u] \in Waker \cup Enqueuer)
          BY <3>2, <3>6, <4>2, Zenon
        <5>2. pc'[u] \in Enqueuer => target[u] # Null /\ pc[u] \in Enqueuer
          BY <3>2, <5>1, <4>2, Zenon
        <5>. QED
          BY <3>1, <3>5, <4>2, <5>1, <5>2, Zenon
      <4>. QED
        BY <4>1, <4>2, Zenon
    <3>. QED
      BY <3>7, Zenon DEF Transit
  <2>19. Waits'
    <3>1. \A u \in Thread : pc'[u] \in {"pop_blocked", "wake_pop"} => pc'[u] = pc[u]
      BY <2>1, <2>2, Zenon
    <3>2. \A u \in Thread : pc[u] # "pop_blocked"
      BY <2>1, Zenon DEF KInv, Waits, Running
    <3>3. \A u \in Thread : pc[u] = "wake_pop" => On(sched', "queue") # {}
      BY <2>7, <2>8 DEF KInv, Waits
    <3>. QED
      BY <3>1, <3>2, <3>3, Zenon DEF Waits
  <2>. QED
    BY <2>7, <2>8, <2>10, <2>11, <2>12, <2>13, <2>14, <2>15, <2>16, <2>17, <2>18, <2>19, Zenon
    DEF KInv, Stay
<1>. SUFFICES ASSUME Quiet, KInv, SchedNext, UNCHANGED ret
              PROVE  KInv' /\ Stay
  BY Zenon
<1>1. CASE Preempt
  BY <1>1, <1>TimerKeeps, <1>TickDecrementKeeps, <1>TickClearKeeps, <1>TickSwapKeeps, Zenon
  DEF Preempt
<1>2. ASSUME NEW t \in Node, Yield(t)
      PROVE  KInv' /\ Stay
  BY <1>2, <1>YieldClearKeeps, <1>YieldSwitchKeeps, Zenon DEF Yield
<1>3. ASSUME NEW t \in Thread, ThreadStep(t)
      PROVE  KInv' /\ Stay
  BY <1>3, <1>StartEnqueueKeeps, <1>SleepKeeps, <1>SleepPushKeeps, <1>StartKeeps, Zenon
  DEF ThreadStep
<1>. QED
  BY <1>1, <1>2, <1>3, Zenon DEF SchedNext

(* A thread takes the first waiter off a list, to wake it. *)
LEMMA PopStep ==
  ASSUME ListsWork, KInv, NEW t \in Thread, Moves(t), UNCHANGED mode,
         NEW q \in {"mutex", "queue"}, On(sched, q) # {}, sched' = PopFront(sched, q),
         target' = [target EXCEPT ![t] = PeekFront(sched, q)],
         pc[t] \notin Waker \cup Enqueuer, pc'[t] \in Waker,
         Leaving(t)' <=> Leaving(t), Leaving(t) => q = "mutex",
         q = "queue" => \A u \in Thread \ {t} : pc[u] # "wake_pop"
  PROVE  /\ KInv' /\ PeekFront(sched, q) \in On(sched, q)
         /\ On(sched', q) = On(sched, q) \ {PeekFront(sched, q)}
         /\ \A r \in ListId \ {q} : On(sched', r) = On(sched, r)
<1>1. /\ \A u \in Node \ {t} : mode[u] = "run" /\ mode'[u] = "run"
      /\ \A u \in Thread \ {t} : ~Leaving(u) /\ ~Leaving(u)'
      /\ Idle \in Node /\ Idle # t /\ tick = "off" /\ tick' = "off" /\ sched.current = t
      /\ pc'[Idle] = "spin" /\ mode' \in [Node -> {"run", "clear", "switch"}]
      /\ \A u \in Thread \ {t} : pc[u] # "pop_blocked" /\ pc'[u] # "pop_blocked"
  BY Others, Zenon
<1>2. /\ t \in Node /\ mode[t] = "run" /\ \A u \in Thread : u \in Node
      /\ pc' \in [Node -> QueueLabel] /\ pc[t] # "new" /\ pc'[t] # "new"
      /\ \A u \in Node \ {t} : pc'[u] = pc[u] /\ ret'[u] = ret[u]
      /\ "runnable" \in ListId /\ "mutex" \in ListId /\ "queue" \in ListId
      /\ q \in ListId /\ q # "runnable" /\ target \in [Node -> Pointer]
  BY AllLists, Zenon DEF Moves, Thread, KInv, KTypes
<1>. DEFINE x == sched.list[q].front
<1>3. sched \in Sched /\ Intact(sched)
  BY Zenon DEF KInv, Sane
<1>4. /\ sched' \in Sched /\ Keeps(sched', sched) /\ Intact(sched')
      /\ On(sched', q) = On(sched, q) \ {x}
      /\ \A r \in ListId \ {q} : On(sched', r) = On(sched, r)
  <2>1. PopFrontPromise
    BY Zenon DEF ListsWork
  <2>. QED
    <3>1. q \in ListId /\ On(sched, q) # {}
      BY <1>2, Zenon
    <3>. QED
      BY <1>3, <2>1, <3>1 DEF PopFrontPromise
<1>5. sched'.state = sched.state /\ sched'.current = t /\ sched'.panic = sched.panic
  BY <1>1, <1>4, Zenon DEF Keeps
<1>6. x \in On(sched, q) /\ x \in Node /\ x # Idle /\ x \in Thread /\ x # Null
  <2>1. x \in On(sched, q) /\ x \in Node
    BY <1>2, <1>3, Zenon DEF ListsWork, FrontPromise
  <2>. QED
    BY <1>2, <2>1, NullAssumption, Zenon DEF KInv, Sane, Thread
<1>7. x # t
  <2>1. CASE Leaving(t)
    <3>1. t \in On(sched, "queue") /\ q = "mutex"
      BY <2>1, Zenon DEF KInv, InLeave
    <3>2. On(sched, "mutex") \cap On(sched, "queue") = {}
      BY <1>2, <1>3, Zenon DEF Intact
    <3>. QED
      BY <1>6, <3>1, <3>2, Zenon
  <2>2. CASE ~Leaving(t)
    BY <1>1, <1>2, <1>6, <2>2, Zenon DEF KInv, CurrentOff, Off
  <2>. QED
    BY <2>1, <2>2, Zenon
<1>8. Off(sched', x)
  <2>1. \A r \in ListId \ {q} : x \notin On(sched, r)
    <3>1. \A r \in ListId \ {q} : On(sched, q) \cap On(sched, r) = {}
      BY <1>2, <1>3, Zenon DEF Intact
    <3>. QED
      BY <1>6, <3>1, Zenon
  <2>. QED
    BY <1>4, <2>1, Zenon DEF Off
<1>9. \A u : u # x => (Off(sched', u) <=> Off(sched, u))
  BY <1>4, Zenon DEF Off
<1>10. /\ \A r \in ListId : On(sched', r) \subseteq On(sched, r)
       /\ On(sched', "runnable") = On(sched, "runnable")
       /\ q = "mutex" => On(sched', "queue") = On(sched, "queue")
  BY <1>2, <1>4, Zenon
<1>11. target'[t] = x /\ \A u \in Thread \ {t} : target'[u] = target[u]
  BY <1>2, Zenon DEF PeekFront
<1>12. target' \in [Node -> Pointer]
  BY <1>2, <1>6, Zenon DEF PeekFront, Pointer
<1>. HIDE DEF x
<1>13. Sane(sched')
  <2>1. Sane(sched)
    BY Zenon DEF KInv
  <2>2. \A u \in Node : ~IsDying(sched', u)
    BY <1>5, <2>1, Zenon DEF Sane, IsDying
  <2>3. \A r \in ListId \ {"runnable"} : Idle \notin On(sched', r)
    BY <1>10, <2>1, Zenon DEF Sane
  <2>. QED
    BY <1>1, <1>4, <1>5, <1>10, <2>1, <2>2, <2>3, ZenonT(40) DEF Sane
<1>14. KTypes'
  BY <1>1, <1>2, <1>12, Zenon DEF KInv, KTypes, Moves
<1>15. InYield'
  BY <1>1, <1>2, Zenon DEF InYield
<1>16. InLeave'
  <2>1. Leaving(t)' => Running(t)' /\ mode'[t] = "run" /\ t \in On(sched', "queue")
    BY <1>1, <1>2, <1>5, <1>10, Zenon DEF Running, KInv, InLeave
  <2>. QED
    BY <1>1, <2>1, Zenon DEF InLeave
<1>17. CurrentOff'
  BY <1>1, <1>2, <1>5, <1>7, <1>9, ZenonT(40) DEF CurrentOff, KInv
<1>18. Fresh'
  BY <1>1, <1>2, <1>5, <1>8, <1>9, ZenonT(40) DEF KInv, Fresh
<1>19. Found'
  <2>1. ASSUME NEW u \in Thread, Off(sched', u)
        PROVE  sched'.current = u \/ pc'[u] = "new" \/ \E v \in Thread : target'[v] = u
    <3>1. CASE u = x
      BY <1>11, <3>1, Zenon
    <3>2. CASE u # x
      <4>1. sched.current = u \/ pc[u] = "new" \/ \E v \in Thread : target[v] = u
        BY <1>9, <2>1, <3>2, Zenon DEF KInv, Found, InTransit
      <4>2. target[t] # u
        BY NullAssumption, Zenon DEF KInv, Transit, Thread
      <4>3. \A v \in Thread : target[v] = u => target'[v] = u
        BY <1>11, <4>2, Zenon
      <4>4. pc[u] = "new" => pc'[u] = "new"
        BY <1>2, Zenon
      <4>. QED
        BY <1>1, <1>5, <4>1, <4>3, <4>4, Zenon
    <3>. QED
      BY <3>1, <3>2, Zenon
  <2>. QED
    BY <2>1, Zenon DEF Found, InTransit
<1>20. Ticking'
  BY <1>1, Zenon DEF Ticking
<1>21. Transit'
  <2>1. \A u \in Thread \ {t} : pc'[u] = pc[u] /\ target'[u] = target[u]
    BY <1>2, <1>11, Zenon
  <2>2. ASSUME NEW u \in Thread \ {t}, target[u] # Null
        PROVE  /\ target[u] \in Thread /\ Off(sched', target[u])
               /\ target[u] # sched'.current /\ pc'[target[u]] # "new"
               /\ \A v \in Thread : target[v] = target[u] => v = u
               /\ pc[u] \in Enqueuer => sched'.state[target[u]] = "RUNNABLE"
               /\ target[u] # x
    <3>1. /\ target[u] \in Thread /\ Off(sched, target[u])
          /\ target[u] # sched.current /\ pc[target[u]] # "new"
          /\ \A v \in Thread : target[v] = target[u] => v = u
          /\ pc[u] \in Enqueuer => sched.state[target[u]] = "RUNNABLE"
      BY <2>2, Zenon DEF KInv, Transit
    <3>2. target[u] # x
      BY <1>2, <1>6, <3>1, Zenon DEF Off
    <3>. QED
      BY <1>1, <1>2, <1>5, <1>9, <3>1, <3>2, Zenon
  <2>3. pc[x] # "new" /\ pc'[x] # "new"
    BY <1>2, <1>6, <1>7, Zenon DEF KInv, Fresh, Off
  <2>4. pc'[t] \notin Enqueuer
    BY Zenon DEF Waker, Enqueuer
  <2>5. \A u \in Thread \ {t} : target[u] # Null <=> pc[u] \in Waker \cup Enqueuer
    BY Zenon DEF KInv, Transit
  <2>6. ASSUME NEW u \in Thread
        PROVE  /\ target'[u] # Null <=> pc'[u] \in Waker \cup Enqueuer
               /\ target'[u] # Null => /\ target'[u] \in Thread /\ Off(sched', target'[u])
                                       /\ target'[u] # sched'.current
                                       /\ pc'[target'[u]] # "new"
               /\ target'[u] # Null => \A v \in Thread : target'[v] = target'[u] => v = u
               /\ pc'[u] \in Enqueuer => sched'.state[target'[u]] = "RUNNABLE"
    <3>1. CASE u = t
      <4>1. \A v \in Thread : target'[v] = x => v = t
        BY <1>6, <2>1, <2>2, Zenon
      <4>. QED
        BY <1>5, <1>6, <1>7, <1>8, <1>11, <2>3, <2>4, <3>1, <4>1, Zenon
    <3>2. CASE u # t
      <4>1. ASSUME target[u] # Null, NEW v \in Thread, target'[v] = target[u]
            PROVE  v = u
        <5>1. target[u] # x /\ \A w \in Thread : target[w] = target[u] => w = u
          BY <2>2, <3>2, <4>1, Zenon
        <5>2. v # t
          BY <1>11, <4>1, <5>1, Zenon
        <5>. QED
          BY <1>11, <4>1, <5>1, <5>2, Zenon
      <4>. QED
        BY <2>1, <2>2, <2>5, <3>2, <4>1, ZenonT(40)
    <3>. QED
      BY <3>1, <3>2, Zenon
  <2>. QED
    BY <2>6, Zenon DEF Transit
<1>22. Waits'
  <2>1. ASSUME NEW u \in Thread \ {t}, pc'[u] = "wake_pop"
        PROVE  On(sched', "queue") # {}
    BY <1>2, <1>10, <2>1, Zenon DEF KInv, Waits
  <2>2. pc'[t] # "pop_blocked" /\ pc'[t] # "wake_pop"
    BY Zenon DEF Waker
  <2>. QED
    BY <1>1, <2>1, <2>2, Zenon DEF Waits
<1>. QED
  BY <1>4, <1>6, <1>13, <1>14, <1>15, <1>16, <1>17, <1>18, <1>19, <1>20, <1>21, <1>22, Zenon
  DEF KInv, PeekFront, x

(* The thread taken off a list becomes RUNNABLE. *)
LEMMA WakeStep ==
  ASSUME ListsWork, KInv, NEW t \in Thread, Moves(t), UNCHANGED <<mode, target>>,
         pc[t] \in Waker, pc'[t] \in Enqueuer, Leaving(t)' <=> Leaving(t),
         sched' = SetState(sched, target[t], "RUNNABLE")
  PROVE  KInv' /\ Stay
<1>1. /\ \A u \in Node \ {t} : mode[u] = "run" /\ mode'[u] = "run"
      /\ \A u \in Thread \ {t} : ~Leaving(u) /\ ~Leaving(u)'
      /\ Idle \in Node /\ Idle # t /\ tick = "off" /\ tick' = "off" /\ sched.current = t
      /\ pc'[Idle] = "spin"
      /\ \A u \in Thread \ {t} : pc[u] # "pop_blocked" /\ pc'[u] # "pop_blocked"
  BY Others, Zenon
<1>2. /\ t \in Node /\ mode[t] = "run" /\ mode'[t] = "run" /\ \A u \in Thread : u \in Node
      /\ pc' \in [Node -> QueueLabel] /\ pc[t] # "new" /\ pc'[t] # "new"
      /\ \A u \in Node \ {t} : pc'[u] = pc[u]
      /\ "runnable" \in ListId /\ "mutex" \in ListId /\ "queue" \in ListId
  BY AllLists, Zenon DEF Moves, Thread
<1>. DEFINE x == target[t]
<1>3. /\ x \in Thread /\ x \in Node /\ Off(sched, x) /\ x # t /\ pc[x] # "new"
      /\ x # Idle
      /\ \A u \in Thread : target[u] = x => u = t
  BY <1>1, <1>2, Zenon DEF KInv, Transit, Thread
<1>. HIDE DEF x
<1>4. /\ sched' \in Sched /\ Intact(sched') /\ SameOn(sched', sched)
      /\ sched'.state = [sched.state EXCEPT ![x] = "RUNNABLE"]
      /\ sched'.current = sched.current /\ sched'.panic = sched.panic
  <2>1. sched \in Sched /\ Intact(sched) /\ ~IsDying(sched, x) /\ "RUNNABLE" \in ThreadState
    BY <1>3, Zenon DEF KInv, Sane, ThreadState
  <2>2. sched' = SetState(sched, x, "RUNNABLE")
    BY Zenon DEF x
  <2>. QED
    <3>1. StatePromise
      BY Zenon DEF ListsWork
    <3>. QED
      <4>1. x \in Node
        BY <1>3, Zenon
      <4>. QED
        BY <2>1, <2>2, <3>1, <4>1 DEF StatePromise
<1>5. /\ sched'.state[x] = "RUNNABLE"
      /\ \A u \in Node \ {x} : sched'.state[u] = sched.state[u]
  BY <1>3, <1>4, Zenon DEF KInv, Sane, Sched
<1>6. /\ \A q \in ListId : On(sched', q) = On(sched, q)
      /\ \A u : Off(sched', u) <=> Off(sched, u)
  BY <1>4, Zenon DEF SameOn, Off
<1>7. Sane(sched')
  <2>0. Sane(sched) /\ On(sched, "runnable") \subseteq Node
    BY <1>2, Zenon DEF KInv, Sane, ListsWork, FrontPromise
  <2>1. \A u \in Node : ~IsDying(sched', u)
    BY <1>3, <1>5, <2>0, Zenon DEF Sane, IsDying
  <2>2. \A u \in On(sched', "runnable") : sched'.state[u] = "RUNNABLE"
    BY <1>2, <1>5, <1>6, <2>0, Zenon DEF Sane
  <2>. QED
    BY <1>1, <1>2, <1>3, <1>4, <1>5, <1>6, <2>0, <2>1, <2>2, ZenonT(40) DEF Sane
<1>8. KTypes'
  BY <1>1, <1>2, Zenon DEF KInv, KTypes, Moves
<1>9. InYield'
  BY <1>1, <1>2, Zenon DEF InYield
<1>10. InLeave'
  BY <1>1, <1>2, <1>4, <1>6, Zenon DEF KInv, InLeave, Running
<1>11. CurrentOff'
  BY <1>1, <1>2, <1>4, <1>6, Zenon DEF KInv, CurrentOff
<1>12. Fresh'
  <2>1. \A u \in Thread : pc'[u] = "new" => pc[u] = "new"
    BY <1>2, Zenon
  <2>. QED
    BY <1>4, <1>6, <2>1, Zenon DEF KInv, Fresh
<1>13. Found'
  <2>1. \A u \in Thread : pc[u] = "new" => pc'[u] = "new"
    BY <1>2, Zenon
  <2>. QED
    BY <1>4, <1>6, <2>1, Zenon DEF KInv, Found, InTransit
<1>14. Ticking'
  BY <1>1, Zenon DEF Ticking
<1>15. Transit'
  <2>1. ASSUME NEW u \in Thread
        PROVE  /\ target[u] # Null <=> pc'[u] \in Waker \cup Enqueuer
               /\ target[u] # Null => /\ target[u] \in Thread /\ Off(sched', target[u])
                                      /\ target[u] # sched'.current
                                      /\ pc'[target[u]] # "new"
               /\ target[u] # Null => \A v \in Thread : target[v] = target[u] => v = u
    <3>1. pc[u] \in Waker \cup Enqueuer <=> pc'[u] \in Waker \cup Enqueuer
      BY <1>2, Zenon
    <3>2. \A v \in Thread : pc'[v] = "new" => pc[v] = "new"
      BY <1>2, Zenon
    <3>. QED
      BY <1>4, <1>6, <3>1, <3>2, Zenon DEF KInv, Transit
  <2>2. ASSUME NEW u \in Thread, pc'[u] \in Enqueuer
        PROVE  sched'.state[target[u]] = "RUNNABLE"
    <3>1. CASE u = t
      BY <1>5, <3>1, Zenon DEF x
    <3>2. CASE u # t
      <4>1. target[u] \in Node /\ sched.state[target[u]] = "RUNNABLE"
        BY <1>2, <2>1, <2>2, <3>2, Zenon DEF KInv, Transit
      <4>. QED
        BY <1>5, <4>1, Zenon
    <3>. QED
      BY <3>1, <3>2, Zenon
  <2>. QED
    BY <2>1, <2>2, Zenon DEF Transit
<1>16. Waits'
  <2>1. pc'[t] \notin {"pop_blocked", "wake_pop"}
    BY Zenon DEF Enqueuer
  <2>. QED
    BY <1>1, <1>2, <1>6, <2>1, Zenon DEF KInv, Waits
<1>. QED
  BY <1>2, <1>6, <1>7, <1>8, <1>9, <1>10, <1>11, <1>12, <1>13, <1>14, <1>15, <1>16, Zenon
  DEF KInv, Stay

(* A receiver that is on the list of waiters enters Yield. *)
LEMMA LeaveStep ==
  ASSUME KInv, NEW t \in Thread, Moves(t), Leaving(t), ~Leaving(t)',
         mode' = [mode EXCEPT ![t] = "clear"], UNCHANGED <<sched, target>>,
         pc[t] = "recv_yield", pc'[t] = "recv_lock"
  PROVE  KInv'
<1>1. /\ \A u \in Node \ {t} : mode[u] = "run" /\ mode'[u] = "run"
      /\ \A u \in Thread \ {t} : ~Leaving(u) /\ ~Leaving(u)'
      /\ Idle \in Node /\ Idle # t /\ tick = "off" /\ tick' = "off" /\ sched.current = t
      /\ pc'[Idle] = "spin" /\ mode' \in [Node -> {"run", "clear", "switch"}]
      /\ \A u \in Thread \ {t} : pc[u] # "pop_blocked" /\ pc'[u] # "pop_blocked"
  BY Others, Zenon
<1>2. /\ t \in Node /\ mode'[t] = "clear" /\ \A u \in Thread : u \in Node
      /\ pc' \in [Node -> QueueLabel]
      /\ \A u \in Node \ {t} : pc'[u] = pc[u]
      /\ "queue" \in ListId /\ sched' = sched /\ target' = target
  BY AllLists, Zenon DEF Moves, Thread, KInv, KTypes
<1>3. t \in On(sched, "queue") /\ ~Off(sched, t)
  BY <1>2, Zenon DEF KInv, InLeave, Off
<1>4. Sane(sched')
  BY <1>2, Zenon DEF KInv
<1>5. KTypes'
  BY <1>1, <1>2, Zenon DEF KInv, KTypes, Moves
<1>6. InYield'
  <2>1. Running(t)'
    BY <1>1, <1>2, Zenon DEF Running
  <2>. QED
    BY <1>1, <1>2, <1>3, <2>1, Zenon DEF InYield
<1>7. InLeave'
  BY <1>1, Zenon DEF InLeave
<1>8. CurrentOff'
  BY <1>1, <1>2, Zenon DEF CurrentOff
<1>9. Fresh'
  <2>1. \A u \in Thread : pc'[u] = "new" => pc[u] = "new"
    BY <1>2, Zenon
  <2>. QED
    BY <1>2, <2>1, Zenon DEF KInv, Fresh
<1>10. Found'
  <2>1. \A u \in Thread : pc[u] = "new" => pc'[u] = "new"
    BY <1>2, Zenon
  <2>2. \A u \in Thread : InTransit(u) => InTransit(u)'
    BY <1>2, Zenon DEF InTransit
  <2>. QED
    BY <1>2, <2>1, <2>2, Zenon DEF KInv, Found
<1>11. Ticking'
  BY <1>1, Zenon DEF Ticking
<1>12. Transit'
  BY <1>2 DEF KInv, Transit, Waker, Enqueuer
<1>13. Waits'
  BY <1>1, <1>2 DEF KInv, Waits
<1>. QED
  BY <1>4, <1>5, <1>6, <1>7, <1>8, <1>9, <1>10, <1>11, <1>12, <1>13, Zenon DEF KInv

(* A statement of a system call of thread t. *)
LEMMA MovesIs ==
  ASSUME QInv, NEW t \in Thread, AnyStep(t), Running(t), mode[t] = "run",
         pc[t] # "new", pc'[t] # "new", UNCHANGED <<tick, cursor>>
  PROVE  Moves(t)
  BY ThreadMoves, Zenon DEF Moves, AnyStep, Thread

(* None of them touches the scheduler; a thread that goes on to pop a list *)
(* has seen that it is not empty.                                          *)
LEMMA SilentIs ==
  ASSUME QInv, NEW t \in Thread, Silent(t), pc[t] \in {"recv_peek", "recv_pop"} => items # <<>>
  PROVE  Unseen(t)
<1>. t \in Node
  BY ThreadIsNode, Zenon
<1>0. /\ pc \in [Node -> QueueLabel] /\ ret \in [Node -> QueueLabel]
      /\ pc[t] \in Locking => ret[t] \in Entry
      /\ pc[t] \in Releasing => ret[t] \in Exit
  BY DEF QInv, QueueTypeOK, Returns
<1>. USE <1>0 DEF Unseen, Leaving, Plain, Waker, Enqueuer, Locking, Releasing, Entry,
   Exit, Goto, Call, At,
  Still, Locals, Running, Executing
<1>1. CASE FetchOr(t)
  BY <1>1, Zenon DEF FetchOr
<1>2. CASE ClearLock(t)
  BY <1>2, Zenon DEF ClearLock
<1>3. CASE CheckBlocked(t)
  BY <1>3, Zenon DEF CheckBlocked
<1>4. CASE AppendFind(t)
  BY <1>4, Zenon DEF AppendFind
<1>5. CASE AppendLink(t)
  BY <1>5, Zenon DEF AppendLink
<1>6. CASE WakeCheck(t)
  <2>1. CASE Goto(t, "wake_pop") /\ UNCHANGED ret /\ sched.list["queue"].size # 0
    BY <1>6, <2>1, Zenon DEF WakeCheck
  <2>2. CASE Call(t, "clear_lock", "user")
    BY <1>6, <2>2, Zenon DEF WakeCheck
  <2>. QED
    BY <1>6, <2>1, <2>2, Zenon DEF WakeCheck
<1>7. CASE RecvLock(t)
  BY <1>7, Zenon DEF RecvLock
<1>8. CASE RecvTest(t)
  <2>1. CASE Goto(t, "recv_block") /\ UNCHANGED ret
    BY <1>8, <2>1, Zenon DEF RecvTest
  <2>2. CASE Call(t, "clear_lock", "recv_relock")
    BY <1>8, <2>2, Zenon DEF RecvTest
  <2>. QED
    BY <1>8, <2>1, <2>2, Zenon DEF RecvTest
<1>9. CASE RecvRelock(t)
  BY <1>9, Zenon DEF RecvRelock
<1>10. CASE RecvPeek(t)
  <2>1. CASE Goto(t, "recv_pop") /\ UNCHANGED ret
    BY <1>10, <2>1, Zenon DEF RecvPeek
  <2>2. CASE Call(t, "clear_lock", "user")
    BY <1>10, <2>2, Zenon DEF RecvPeek
  <2>. QED
    BY <1>10, <2>1, <2>2, Zenon DEF RecvPeek
<1>11. CASE RecvPop(t)
  BY <1>11, Zenon DEF RecvPop
<1>12. CASE PollTest(t)
  BY <1>12, Zenon DEF PollTest
<1>13. CASE PollRecv(t)
  BY <1>13, Zenon DEF PollRecv
<1>14. CASE SendCall(t)
  BY <1>14, Zenon DEF SendCall
<1>15. CASE RecvCall(t)
  BY <1>15, Zenon DEF RecvCall
<1>16. CASE PollCall(t)
  BY <1>16, Zenon DEF PollCall
<1>. QED
  BY <1>1, <1>2, <1>3, <1>4, <1>5, <1>6, <1>7, <1>8, <1>9, <1>10, <1>11, <1>12, <1>13,
     <1>14,
     <1>15, <1>16, Zenon DEF Silent

(* So they keep the invariant. *)
LEMMA SilentKeeps ==
  ASSUME ListsWork, QInv, KInv, NEW t \in Thread, Silent(t), AnyStep(t),
         pc[t] \in {"recv_peek", "recv_pop"} => items # <<>>
  PROVE  KInv' /\ Stay
<1>1. Unseen(t)
  BY SilentIs, Zenon
<1>2. Moves(t)
  BY <1>1, MovesIs, Zenon DEF Unseen
<1>3. /\ sched \in Sched /\ Intact(sched) /\ "mutex" \in ListId /\ "queue" \in ListId
      /\ SameOn(sched', sched) /\ Sane(sched')
  BY <1>1, AllLists, Zenon DEF KInv, Sane, SameOn, Unseen
<1>4. /\ pc'[t] = "pop_blocked" => On(sched, "mutex") # {}
      /\ pc'[t] = "wake_pop" => On(sched, "queue") # {}
  BY <1>1, <1>3, Zenon DEF Unseen, ListsWork, FrontPromise
<1>5. /\ Plain(t) /\ UNCHANGED <<mode, target>> /\ sched' = sched
      /\ Leaving(t)' <=> Leaving(t)
  BY <1>1, Zenon DEF Unseen
<1>. QED
  BY <1>2, <1>3, <1>4, <1>5, PlainStep, Zenon DEF SameOn, Stay

(* SetState(BLOCKED) of the current thread, in Lock and in PopFront. *)
LEMMA BlockKeeps ==
  ASSUME ListsWork, QInv, KInv, NEW t \in Thread, AnyStep(t), Block(t) \/ RecvBlock(t)
  PROVE  KInv' /\ Stay
<1>1. /\ Running(t) /\ mode[t] = "run" /\ sched' = SetState(sched, t, "BLOCKED")
      /\ UNCHANGED <<mode, tick, cursor, target, ret>>
      /\ \/ pc[t] = "block" /\ pc'[t] = "push_blocked"
         \/ pc[t] = "recv_block" /\ pc'[t] = "recv_push"
  BY Zenon DEF Block, RecvBlock, At, Executing, Running, Goto, Locals, Thread, KInv, KTypes
<1>2. Moves(t)
  BY <1>1, MovesIs, Zenon
<1>3. /\ Plain(t) /\ (Leaving(t)' <=> Leaving(t)) /\ pc'[t] \notin {"pop_blocked", "wake_pop"}
  BY <1>1, Zenon DEF Plain, Leaving, Waker, Enqueuer, Releasing
<1>4. /\ Sane(sched') /\ SameOn(sched', sched) /\ sched'.current = sched.current
      /\ \A u \in Node \ {t} : sched'.state[u] = sched.state[u]
  BY <1>1, OwnState, Zenon
<1>. QED
  BY AllLists, <1>1, <1>2, <1>3, <1>4, PlainStep, Zenon DEF SameOn, Stay

(* Lock puts the thread on the mutex's list and yields. *)
LEMMA PushBlockedKeeps ==
  ASSUME ListsWork, QInv, KInv, NEW t \in Thread, AnyStep(t), PushBlocked(t)
  PROVE  KInv' /\ On(sched', "mutex") = On(sched, "mutex") \cup {t} /\ On(sched', "queue") = On(sched, "queue")
<1>1. /\ Running(t) /\ mode[t] = "run" /\ sched' = PushBack(sched, "mutex", t)
      /\ UNCHANGED <<tick, cursor, target, ret>> /\ mode' = [mode EXCEPT ![t] = "clear"]
      /\ pc[t] = "push_blocked" /\ pc'[t] = "fetch_or"
  BY Zenon DEF PushBlocked, At, Executing, Running, Goto, EnterYield, Thread, KInv, KTypes
<1>2. Moves(t)
  BY <1>1, MovesIs, Zenon
<1>3. Plain(t) /\ ~Leaving(t) /\ ~Leaving(t)'
  BY <1>1, Zenon DEF Plain, Leaving, Waker, Enqueuer, Releasing
<1>4. "mutex" \in ListId \ {"runnable"} /\ "queue" \in ListId \ {"mutex"}
  BY AllLists, Zenon
<1>. QED
  BY <1>1, <1>2, <1>3, <1>4, PushStep, Zenon

(* PopFront puts the receiver on the queue's list, and has yet to release  *)
(* the mutex and to yield.                                                 *)
LEMMA RecvPushKeeps ==
  ASSUME ListsWork, QInv, KInv, NEW t \in Thread, AnyStep(t), RecvPush(t)
  PROVE  KInv' /\ On(sched', "queue") = On(sched, "queue") \cup {t} /\ On(sched', "mutex") = On(sched, "mutex")
<1>1. /\ Running(t) /\ mode[t] = "run" /\ sched' = PushBack(sched, "queue", t)
      /\ UNCHANGED <<tick, cursor, target, mode>>
      /\ pc[t] = "recv_push" /\ pc'[t] = "clear_lock" /\ ret'[t] = "recv_yield"
  BY Zenon DEF RecvPush, At, Executing, Running, Call, Goto, Locals, Thread, KInv, KTypes,
     QInv, QueueTypeOK
<1>2. Moves(t)
  BY <1>1, MovesIs, Zenon
<1>3. Plain(t) /\ ~Leaving(t) /\ Leaving(t)'
  BY <1>1, Zenon DEF Plain, Leaving, Waker, Enqueuer, Releasing
<1>4. "queue" \in ListId \ {"runnable"} /\ "mutex" \in ListId \ {"queue"}
  BY AllLists, Zenon
<1>. QED
  BY <1>1, <1>2, <1>3, <1>4, PushStep, Zenon

(* Release takes the first waiter off the mutex's list. *)
LEMMA PopBlockedKeeps ==
  ASSUME ListsWork, QInv, KInv, NEW t \in Thread, AnyStep(t), PopBlocked(t)
  PROVE  /\ KInv' /\ PeekFront(sched, "mutex") \in On(sched, "mutex")
         /\ On(sched', "mutex") = On(sched, "mutex") \ {PeekFront(sched, "mutex")}
         /\ On(sched', "queue") = On(sched, "queue")
<1>1. /\ Running(t) /\ mode[t] = "run" /\ sched' = PopFront(sched, "mutex")
      /\ UNCHANGED <<tick, cursor, mode, ret>>
      /\ target' = [target EXCEPT ![t] = PeekFront(sched, "mutex")]
      /\ pc[t] = "pop_blocked" /\ pc'[t] = "unblock"
  BY Zenon DEF PopBlocked, At, Executing, Running, Goto, Thread, KInv, KTypes
<1>2. Moves(t)
  BY <1>1, MovesIs, Zenon
<1>3. /\ pc[t] \notin Waker \cup Enqueuer /\ pc'[t] \in Waker /\ (Leaving(t)' <=> Leaving(t))
      /\ On(sched, "mutex") # {}
  BY <1>1, Zenon DEF Leaving, Waker, Enqueuer, Releasing, KInv, Waits
<1>. QED
  BY AllLists, <1>1, <1>2, <1>3, PopStep, Zenon

(* PushBack takes the waiting receiver off the queue's list. *)
LEMMA WakePopKeeps ==
  ASSUME ListsWork, QInv, KInv, NEW t \in Thread, AnyStep(t), WakePop(t)
  PROVE  /\ KInv' /\ PeekFront(sched, "queue") \in On(sched, "queue")
         /\ On(sched', "queue") = On(sched, "queue") \ {PeekFront(sched, "queue")}
         /\ On(sched', "mutex") = On(sched, "mutex")
<1>1. /\ Running(t) /\ mode[t] = "run" /\ sched' = PopFront(sched, "queue")
      /\ UNCHANGED <<tick, cursor, mode, ret>>
      /\ target' = [target EXCEPT ![t] = PeekFront(sched, "queue")]
      /\ pc[t] = "wake_pop" /\ pc'[t] = "wake_state"
  BY Zenon DEF WakePop, At, Executing, Running, Goto, Thread, KInv, KTypes
<1>2. Moves(t)
  BY <1>1, MovesIs, Zenon
<1>3. /\ pc[t] \notin Waker \cup Enqueuer /\ pc'[t] \in Waker /\ ~Leaving(t)
      /\ ~Leaving(t)'
      /\ On(sched, "queue") # {}
  BY <1>1, Zenon DEF Leaving, Waker, Enqueuer, Releasing, KInv, Waits
<1>4. \A u \in Thread \ {t} : pc[u] # "wake_pop"
  BY <1>1, Zenon DEF QInv, OneHolder, HasLock
<1>. QED
  BY AllLists, <1>1, <1>2, <1>3, <1>4, PopStep, Zenon

(* They set its state, ... *)
LEMMA WakeKeeps ==
  ASSUME ListsWork, QInv, KInv, NEW t \in Thread, AnyStep(t), Unblock(t) \/ WakeState(t)
  PROVE  KInv' /\ Stay
<1>1. /\ Running(t) /\ mode[t] = "run"
      /\ sched' = SetState(sched, target[t], "RUNNABLE")
      /\ UNCHANGED <<tick, cursor, mode, ret, target>>
      /\ \/ pc[t] = "unblock" /\ pc'[t] = "enqueue"
         \/ pc[t] = "wake_state" /\ pc'[t] = "wake_enqueue"
  BY Zenon DEF Unblock, WakeState, At, Executing, Running, Goto, Thread, KInv, KTypes, Locals
<1>2. Moves(t)
  BY <1>1, MovesIs, Zenon
<1>3. /\ pc[t] \in Waker /\ pc'[t] \in Enqueuer /\ (Leaving(t)' <=> Leaving(t))
  BY <1>1, Zenon DEF Leaving, Waker, Enqueuer, Releasing
<1>. QED
  BY <1>1, <1>2, <1>3, WakeStep, Zenon

(* ... and enqueue it. *)
LEMMA EnqueueKeeps ==
  ASSUME ListsWork, QInv, KInv, NEW t \in Thread, AnyStep(t), EnqueueBlocked(t) \/ WakeEnqueue(t)
  PROVE  KInv' /\ Stay
<1>1. /\ Running(t) /\ mode[t] = "run" /\ sched' = Enqueue(sched, target[t])
      /\ UNCHANGED <<tick, cursor>> /\ mode' = [mode EXCEPT ![t] = EnqueueMode(sched)]
      /\ target' = [target EXCEPT ![t] = Null]
      /\ \/ pc[t] = "enqueue" /\ pc'[t] = ret[t] /\ ret' = ret
         \/ pc[t] = "wake_enqueue" /\ pc'[t] = "clear_lock" /\ ret'[t] = "user"
  BY Zenon DEF EnqueueBlocked, WakeEnqueue, At, Executing, Running, Call, Goto, Thread, KInv,
     KTypes, QInv, QueueTypeOK
<1>2. pc[t] = "enqueue" => ret[t] \in Exit
  BY Zenon DEF QInv, Returns, Releasing
<1>3. /\ pc[t] \in Enqueuer /\ pc'[t] \notin Waker \cup Enqueuer /\ (Leaving(t)' <=> Leaving(t))
      /\ pc'[t] \notin {"pop_blocked", "wake_pop", "new"} /\ pc[t] # "new"
  BY <1>1, <1>2, Zenon DEF Leaving, Waker, Enqueuer, Releasing, Exit
<1>4. Moves(t)
  BY <1>1, <1>3, MovesIs, Zenon
<1>. QED
  BY <1>1, <1>3, <1>4, EnqueueStep, Zenon

(* The receiver yields at last. *)
LEMMA RecvYieldKeeps ==
  ASSUME QInv, KInv, NEW t \in Thread, AnyStep(t), RecvYield(t)
  PROVE  KInv' /\ Stay
<1>1. /\ Running(t) /\ mode[t] = "run" /\ mode' = [mode EXCEPT ![t] = "clear"]
      /\ UNCHANGED <<sched, tick, cursor, ret, target>>
      /\ pc[t] = "recv_yield" /\ pc'[t] = "recv_lock"
  BY Zenon DEF RecvYield, At, Executing, Running, Goto, EnterYield, Thread, KInv, KTypes
<1>2. Moves(t)
  BY <1>1, MovesIs, Zenon
<1>3. Leaving(t) /\ ~Leaving(t)'
  BY <1>1, Zenon DEF Leaving, Releasing
<1>. QED
  BY <1>1, <1>2, <1>3, LeaveStep, Zenon DEF Stay

(* Every statement of the mutex and of the queue keeps the invariant. *)
LEMMA StatementKeeps ==
  ASSUME ListsWork, QInv, SeenInv, KInv, NEW t \in Thread, AnyStep(t)
  PROVE  KInv'
<1>1. pc[t] \in {"recv_peek", "recv_pop"} => items # <<>>
  BY Zenon DEF SeenInv, Saw
<1>2. CASE Silent(t)
  BY <1>1, <1>2, SilentKeeps, Zenon
<1>3. CASE Block(t) \/ RecvBlock(t)
  BY <1>3, BlockKeeps, Zenon
<1>4. CASE PushBlocked(t)
  BY <1>4, PushBlockedKeeps, Zenon
<1>5. CASE RecvPush(t)
  BY <1>5, RecvPushKeeps, Zenon
<1>6. CASE PopBlocked(t)
  BY <1>6, PopBlockedKeeps, Zenon
<1>7. CASE WakePop(t)
  BY <1>7, WakePopKeeps, Zenon
<1>8. CASE Unblock(t) \/ WakeState(t)
  BY <1>8, WakeKeeps
<1>9. CASE EnqueueBlocked(t) \/ WakeEnqueue(t)
  BY <1>9, EnqueueKeeps
<1>10. CASE RecvYield(t)
  BY <1>10, RecvYieldKeeps, Zenon
<1>. QED
  BY <1>2, <1>3, <1>4, <1>5, <1>6, <1>7, <1>8, <1>9, <1>10, Zenon
  DEF AnyStep, QueueStep, Lock, Release, PushBackMessage, PopFrontMessage, Poll, Silent

(* So every step does. *)
LEMMA KInvNext ==
  ASSUME ListsWork, Quiet, QInv, SeenInv, KInv, [QueueNext]_allVars
  PROVE  KInv'
<1>1. CASE SchedNext /\ UNCHANGED <<mutexVars, queueVars>>
  BY <1>1, SchedKeeps, Zenon DEF mutexVars
<1>2. ASSUME NEW t \in Thread, AnyStep(t)
      PROVE  KInv'
  BY <1>2, StatementKeeps, Zenon
<1>3. CASE UNCHANGED allVars
  BY <1>3, ZenonT(40) DEF allVars, vars, KInv, KTypes, InYield, InLeave, Leaving, Running,
     CurrentOff, Fresh, Found,
     InTransit, Ticking, Transit, Waits
<1>4. Sender \subseteq Thread /\ Receiver \subseteq Thread
  BY QueueAssumption, Zenon
<1>. QED
  BY <1>1, <1>2, <1>3, <1>4, Zenon DEF QueueNext, AnyStep

(* The first thread waits for the CPU when the kernel boots, and nothing   *)
(* else is on a list.                                                      *)
LEMMA BootLists ==
  ASSUME ListsWork, QueueInit
  PROVE  /\ Sane(sched) /\ sched.current = Idle /\ On(sched, "runnable") = {First}
         /\ \A r \in ListId \ {"runnable"} : On(sched, r) = {}
<1>. DEFINE h == [BootSched EXCEPT !.state[First] = "RUNNABLE"]
<1>1. First \in Node /\ Idle \in Node /\ First # Idle /\ First # Null
  BY SchedulerAssumption, NullAssumption, Zenon DEF Thread
<1>2. h \in Sched
  BY <1>1, Zenon DEF Sched, ThreadState, ListsWork, BootPromise
<1>3. /\ h.list = [q \in ListId |-> EmptyHeader] /\ h.current = Idle /\ h.panic = FALSE
      /\ h.state[First] = "RUNNABLE" /\ \A u \in Node \ {First} : h.state[u] = "CREATED"
  BY <1>1 DEF BootSched
<1>4. sched = PushBack(h, "runnable", First)
  BY <1>1, Zenon DEF QueueInit, Init, SchedInit, BootStart, Enqueue
<1>. HIDE DEF h
<1>5. ASSUME NEW q \in ListId
      PROVE  Linked(h, q) /\ On(h, q) = {}
  <2>1. h.list[q].size = 0 /\ h.list[q].front = Null /\ h.list[q].back = Null
    BY <1>3 DEF EmptyHeader
  <2>2. 1 .. 0 = {}
    OBVIOUS
  <2>3. Spells(h, q, [i \in 1 .. 0 |-> Idle])
    BY <1>1, <2>1, <2>2 DEF Spells
  <2>. QED
    BY <2>1, <2>2, <2>3, Zenon DEF Linked, On
<1>6. Intact(h)
  BY <1>5, Zenon DEF Intact
<1>7. /\ sched \in Sched /\ Keeps(sched, h) /\ Intact(sched)
      /\ On(sched, "runnable") = {First}
      /\ \A r \in ListId \ {"runnable"} : On(sched, r) = {}
  BY <1>1, <1>2, <1>4, <1>5, <1>6, AllLists DEF ListsWork, PushBackPromise
<1>8. Sane(sched)
  BY <1>1, <1>3, <1>7, Zenon DEF Sane, Keeps, IsDying
<1>. QED
  BY <1>3, <1>7, <1>8, Zenon DEF Keeps

(* The kernel boots with intact lists. *)
LEMMA KInvInit ==
  ASSUME ListsWork
  PROVE  QueueInit => KInv
<1>. SUFFICES ASSUME QueueInit PROVE KInv
  BY Zenon
<1>1. /\ First \in Node /\ Idle \in Node /\ First # Idle
      /\ \A u \in Thread : u \in Node /\ u # Idle
  BY SchedulerAssumption DEF Thread
<1>2. /\ Sane(sched) /\ sched.current = Idle /\ On(sched, "runnable") = {First}
      /\ \A r \in ListId \ {"runnable"} : On(sched, r) = {}
      /\ "runnable" \in ListId
  BY BootLists, AllLists
<1>3. /\ pc = [t \in Node |-> IF t = Idle THEN "spin" ELSE IF t = First THEN "user" ELSE "new"]
      /\ mode = [t \in Node |-> IF t = Idle THEN "clear" ELSE "run"]
      /\ tick = "off" /\ cursor = Null /\ target = [t \in Node |-> Null]
  BY DEF QueueInit, Init, SchedInit, BootYield
<1>4. KTypes
  BY <1>1, <1>3 DEF KTypes, QueueLabel, Label, SchedLabel, Pointer
<1>5. InYield
  BY <1>1, <1>2, <1>3, Zenon DEF InYield, Running
<1>6. InLeave
  BY <1>1, <1>3, Zenon DEF InLeave, Leaving, Releasing
<1>7. CurrentOff
  BY <1>1, <1>2, <1>3 DEF CurrentOff
<1>8. Fresh
  BY <1>1, <1>2, <1>3, Zenon DEF Fresh, Off
<1>9. Found
  BY <1>1, <1>2, <1>3, Zenon DEF Found, Off
<1>10. Ticking /\ Transit /\ Waits
  BY <1>1, <1>3, Zenon DEF Ticking, Transit, Waits, Waker, Enqueuer
<1>. QED
  BY <1>2, <1>4, <1>5, <1>6, <1>7, <1>8, <1>9, <1>10, Zenon DEF KInv

(* While the races stay harmless, so did each step. *)
LEMMA CalmStep ==
  ASSUME [RacedNext]_racedVars, Calm'
  PROVE  Calm /\ Quiet /\ ~OvertakeRace
<1>1. CASE RacedNext
  <2>1. races \subseteq races' /\ Occurred \subseteq races'
    BY <1>1, Zenon DEF RacedNext
  <2>2. \A r \in Occurred : r \in {"lock", "refuse"}
    BY <2>1, Zenon DEF Calm
  <2>3. Calm
    BY <2>1, Zenon DEF Calm
  <2>4. "yield" \notin Occurred /\ "release" \notin Occurred /\ "listed" \notin Occurred
        /\ "overtake" \notin Occurred
    BY <2>2
  <2>. QED
    BY <2>3, <2>4, Zenon DEF Occurred, Race, Quiet
<1>2. CASE UNCHANGED racedVars
  <2>1. races' = races /\ tick' = tick /\ items' = items
    BY <1>2, Zenon DEF racedVars, allVars, vars, queueVars
  <2>. QED
    BY <2>1, Zenon DEF Calm, Quiet, YieldRace, ReleaseRace, ListedRace, TicksAt, Ticks,
       OvertakeRace
<1>. QED
  BY <1>1, <1>2

(* The same of a tick in Lock, which only the wake-ups mind, ... *)
LEMMA LockStepCalm ==
  ASSUME [RacedNext]_racedVars, "lock" \notin races'
  PROVE  "lock" \notin races /\ ~LockRace
<1>1. CASE RacedNext
  BY <1>1, Zenon DEF RacedNext, Occurred, Race
<1>2. CASE UNCHANGED racedVars
  BY <1>2, Zenon DEF racedVars, allVars, vars, LockRace, TicksAt, Ticks
<1>. QED
  BY <1>1, <1>2

(* ... and of a receiver that refuses its message. *)
LEMMA RefuseStepCalm ==
  ASSUME [RacedNext]_racedVars, "refuse" \notin races'
  PROVE  "refuse" \notin races /\ ~RefuseRace
<1>1. CASE RacedNext
  BY <1>1, Zenon DEF RacedNext, Occurred, Race
<1>2. CASE UNCHANGED racedVars
  BY <1>2, Zenon DEF racedVars, allVars, vars, RefuseRace
<1>. QED
  BY <1>1, <1>2

(* A step of the system with its history is a step of the system. *)
LEMMA RacedIsQueue == [RacedNext]_racedVars => [QueueNext]_allVars
BY Zenon DEF RacedNext, racedVars

(* The inductive invariant holds in every state until a race that matters. *)
LEMMA KernelInvariant ==
  ASSUME ListsWork
  PROVE  RacedSpec => [](QInv /\ (Calm => SeenInv /\ KInv))
<1>1. RacedInit => QInv /\ SeenInv /\ KInv
  BY QInvInit, SeenInvInit, KInvInit, Zenon DEF RacedInit
<1>2. QInv /\ [RacedNext]_racedVars => QInv'
  BY QInvNext, RacedIsQueue, Zenon
<1>3. ASSUME QInv, Calm => SeenInv /\ KInv, [RacedNext]_racedVars, Calm'
      PROVE  SeenInv' /\ KInv'
  <2>1. Calm /\ Quiet /\ ~OvertakeRace /\ [QueueNext]_allVars
    BY <1>3, CalmStep, RacedIsQueue, Zenon
  <2>. QED
    BY <1>3, <2>1, SeenInvNext, KInvNext, Zenon
<1>4. QInv /\ (Calm => SeenInv /\ KInv) /\ [RacedNext]_racedVars
        => (QInv /\ (Calm => SeenInv /\ KInv))'
  BY <1>2, <1>3, Zenon
<1>. QED
  BY <1>1, <1>4, PTL DEF RacedSpec

(* It implies that the kernel has not panicked, ... *)
LEMMA KInvNoPanic == KInv => NoPanic
  BY Zenon DEF KInv, Sane, NoPanic

(* ... and that no thread is lost or on two lists. *)
LEMMA KInvOneList ==
  ASSUME ListsWork, KInv
  PROVE  EveryThreadOnOneList
<1>1. Sane(sched) /\ sched \in Sched /\ Intact(sched)
  BY Zenon DEF KInv, Sane
<1>2. \A q \in ListId : WellFormed(sched, q)
  BY <1>1, Zenon DEF ListsWork, FrontPromise
<1>3. ASSUME NEW t \in Thread \ {sched.current}, pc[t] # "new", ~InTransit(t)
      PROVE  \E q \in ListId : {r \in ListId : t \in On(sched, r)} = {q}
  <2>1. ~Off(sched, t)
    BY <1>3, Zenon DEF KInv, Found
  <2>2. PICK q \in ListId : t \in On(sched, q)
    BY <2>1, Zenon DEF Off
  <2>. QED
    BY <1>1, <2>2 DEF Intact
<1>. QED
  BY <1>1, <1>2, <1>3, Zenon DEF EveryThreadOnOneList, Sane

-----------------------------------------------------------------------------
(* Nobody is forgotten on a list of waiters. *)

(* The step is no tick between the fetch_or that failed and the Yield of   *)
(* Lock.                                                                   *)
QuietLock == ~LockRace

(* The statements of Lock after a fetch_or that failed, ... *)
Blocking == {"block", "push_blocked"}
(* ... and those of Release that have a waiter in hand. *)
Unblocking == {"unblock", "enqueue"}

(* What NoLostWakeup needs: a thread about to block still finds the lock   *)
(* word set; the waiters, and the one that Release holds, try again when   *)
(* they run; and while the mutex is free with waiters on its list, some    *)
(* thread is on its way.                                                   *)
Wakes ==
  /\ \A t \in Thread : pc[t] \in Blocking => lock = 1 /\ Running(t)
  /\ \A t \in On(sched, "mutex") : pc[t] = "fetch_or"
  /\ \A t \in Thread : pc[t] \in Unblocking => pc[target[t]] = "fetch_or"
  /\ lock = 0 /\ On(sched, "mutex") # {} => \E t \in Thread : OnItsWay(t)

(* What a statement of t leaves alone. *)
Apart(t) ==
  /\ \A u \in Thread \ {t} : pc'[u] = pc[u] /\ target'[u] = target[u]
  /\ On(sched', "mutex") \subseteq On(sched, "mutex") \cup {t}

(* The statements outside Lock and Release. *)
Elsewhere(t) ==
  \/ PushBackMessage(t) \/ PopFrontMessage(t) \/ Poll(t)
  \/ SendCall(t) \/ RecvCall(t) \/ PollCall(t)

(* What NoMissedMessage needs: whoever waits for a message will look for   *)
(* one when it is woken; a receiver goes on the list when it has seen an   *)
(* empty queue; and while one waits, every message is accounted for by a   *)
(* thread that attends to it.                                              *)
Messages ==
  /\ \A t \in On(sched, "queue") : t \in Thread /\ Receives(t)
  /\ \A t \in Thread : pc[t] \in {"recv_block", "recv_push"} => items = <<>>
  /\ IsFiniteSet(Attending)
  /\ On(sched, "queue") # {} => Len(items) <= Cardinality(Attending)

(* A sender that is to look for a waiter, or has seen one. *)
Looks(t) == pc[t] \in {"wake_check", "wake_pop"}

(* Thread t leaves PopFront or PortPoll without a message that is there. *)
Refuses(t) == pc[t] = "recv_peek" /\ pc'[t] = "clear_lock" /\ t \in Small

(* What a step of the scheduler leaves alone. *)
LEMMA SchedTargets ==
  ASSUME KInv, SchedNext
  PROVE  \A u \in Thread : pc[u] \notin SchedLabel => target'[u] = target[u]
<1>1. CASE Preempt \/ \E t \in Node : Yield(t)
  BY <1>1, Zenon DEF Preempt, TimerInterrupt, TickDecrement, TickClear, TickSwap, Yield,
     YieldClear, YieldSwitch
<1>2. ASSUME NEW t \in Thread, ThreadStep(t)
      PROVE  \A u \in Thread : pc[u] \notin SchedLabel => target'[u] = target[u]
  <2>1. pc[t] \in SchedLabel /\ \A u \in Node \ {t} : target'[u] = target[u]
    BY <1>2 DEF ThreadStep, StartEnqueue, Sleep, SleepState, SleepPush, Start, At,
       SchedLabel, KInv, KTypes
  <2>. QED
    BY <2>1 DEF Thread
<1>. QED
  BY <1>1, <1>2, Zenon DEF SchedNext

(* While a thread is about to block, the scheduler takes no step. *)
LEMMA NoSchedStep ==
  ASSUME QuietLock, KInv, SchedNext, NEW t \in Thread, pc[t] \in Blocking, Running(t)
  PROVE  FALSE
<1>1. sched.current = t /\ tick = "off" /\ mode[t] = "run" /\ t \in Node
  BY Zenon DEF Running, KInv, InYield, Blocking, Thread
<1>2. ~Preempt
  BY <1>1, Zenon DEF Preempt, TimerInterrupt, TickDecrement, TickClear, TickSwap, QuietLock,
     LockRace, TicksAt, Ticks, Blocking
<1>3. \A u \in Node : ~Yield(u)
  BY <1>1, Zenon DEF Yield, YieldClear, YieldSwitch, Executing
<1>4. \A u \in Thread : ~ThreadStep(u)
  BY <1>1 DEF ThreadStep, StartEnqueue, Sleep, SleepState, SleepPush, Start, At,
     Executing, Blocking
<1>. QED
  BY <1>2, <1>3, <1>4 DEF SchedNext

(* The scheduler and the timer keep it: they touch neither the list of the *)
(* mutex nor a thread inside Lock or Release.                              *)
LEMMA WakesSched ==
  ASSUME ListsWork, Quiet, QuietLock, QInv, KInv, Wakes, SchedNext, UNCHANGED <<mutexVars, queueVars>>
  PROVE  Wakes'
<1>1. /\ Stay /\ lock' = lock
      /\ \A u \in Thread : pc[u] \notin SchedLabel => target'[u] = target[u]
      /\ \A u \in Thread : u \in Node
  BY SchedKeeps, SchedTargets, Zenon DEF mutexVars, Thread
<1>2. \A u \in Node : pc'[u] # pc[u] => pc[u] \in SchedLabel /\ pc'[u] \in SchedLabel
  BY SchedStep, Zenon
<1>3. \A u \in Thread : pc'[u] \notin Blocking
  BY <1>1, <1>2, NoSchedStep, Zenon DEF Wakes, Blocking, SchedLabel
<1>4. \A u \in On(sched', "mutex") : pc'[u] = "fetch_or"
  <2>1. On(sched, "mutex") \subseteq Node
    BY AllLists, Zenon DEF KInv, Sane, ListsWork, FrontPromise
  <2>. QED
    BY <1>1, <1>2, <2>1, Zenon DEF Wakes, SchedLabel, Stay
<1>5. ASSUME NEW u \in Thread, pc'[u] \in Unblocking
      PROVE  pc'[target'[u]] = "fetch_or"
  <2>1. pc[u] = pc'[u] /\ pc[u] \notin SchedLabel
    BY <1>1, <1>2, <1>5, Zenon DEF SchedLabel, Unblocking
  <2>2. target[u] \in Node
    BY <1>1, <1>5, <2>1, Zenon DEF KInv, Transit, Unblocking, Waker, Enqueuer
  <2>. QED
    BY <1>1, <1>2, <1>5, <2>1, <2>2, ZenonT(40) DEF Wakes, SchedLabel
<1>6. ASSUME lock' = 0, On(sched', "mutex") # {}
      PROVE  \E u \in Thread : OnItsWay(u)'
  <2>1. PICK u \in Thread : OnItsWay(u)
    BY <1>1, <1>6, Zenon DEF Wakes, Stay
  <2>. QED
    BY <1>1, <1>2, <2>1, Zenon DEF OnItsWay, SchedLabel, Stay
<1>. QED
  BY <1>3, <1>4, <1>5, <1>6, Zenon DEF Wakes

(* Nor does a statement of t disturb what it says of the others. *)
LEMMA WakesOthers ==
  ASSUME ListsWork, KInv, Wakes, NEW t \in Thread, Running(t), mode[t] = "run", Apart(t)
  PROVE  /\ \A u \in Thread \ {t} : pc'[u] \notin Blocking
         /\ t \notin On(sched, "mutex")
         /\ \A u \in On(sched', "mutex") \ {t} : pc'[u] = "fetch_or"
         /\ \A u \in Thread \ {t} : pc'[u] \in Unblocking => pc'[target'[u]] = "fetch_or"
         /\ \A u \in Thread \ {t} : OnItsWay(u) => OnItsWay(u)'
<1>1. /\ sched.current = t /\ t \in Node
      /\ {"mutex", "queue", "runnable"} \subseteq ListId
      /\ sched \in Sched /\ Intact(sched)
      /\ Idle \notin On(sched, "mutex")
  BY AllLists, Zenon DEF Running, Thread, KInv, Sane
<1>2. t \notin On(sched, "mutex")
  <2>1. CASE Leaving(t)
    <3>1. t \in On(sched, "queue")
      BY <2>1, Zenon DEF KInv, InLeave
    <3>. QED
      BY <1>1, <3>1, Zenon DEF Intact
  <2>2. CASE ~Leaving(t)
    BY <1>1, <2>2, Zenon DEF KInv, CurrentOff, Off
  <2>. QED
    BY <2>1, <2>2, Zenon
<1>3. On(sched, "mutex") \subseteq Thread
  BY <1>1, Zenon DEF Thread, ListsWork, FrontPromise
<1>4. \A u \in Thread \ {t} : pc'[u] \notin Blocking
  BY <1>1, Zenon DEF Wakes, Running, Apart
<1>5. \A u \in On(sched', "mutex") \ {t} : pc'[u] = "fetch_or"
  BY <1>3, Zenon DEF Wakes, Apart
<1>6. ASSUME NEW u \in Thread \ {t}, pc'[u] \in Unblocking
      PROVE  pc'[target'[u]] = "fetch_or"
  <2>1. target[u] \in Thread /\ target[u] # t
    BY <1>1, <1>6, ZenonT(40) DEF KInv, Transit, Unblocking, Waker, Enqueuer, Apart
  <2>. QED
    BY <1>6, <2>1, ZenonT(40) DEF Wakes, Apart
<1>7. \A u \in Thread \ {t} : OnItsWay(u) => OnItsWay(u)'
  BY Zenon DEF OnItsWay, Apart
<1>. QED
  BY <1>2, <1>4, <1>5, <1>6, <1>7, Zenon

(* They touch neither the lock word nor any other thread, ... *)
LEMMA ElsewhereIs ==
  ASSUME QInv, KInv, NEW t \in Thread, Elsewhere(t)
  PROVE  /\ lock' = lock /\ Running(t) /\ mode[t] = "run"
         /\ \A u \in Thread \ {t} : pc'[u] = pc[u] /\ target'[u] = target[u]
         /\ pc[t] \notin {"fetch_or", "check_blocked", "pop_blocked", "unblock", "enqueue"}
         /\ pc'[t] \notin Blocking \cup Unblocking
<1>. t \in Node /\ \A u \in Thread : u \in Node
  BY Zenon DEF Thread
<1>0. pc \in [Node -> QueueLabel] /\ target \in [Node -> Pointer]
  BY Zenon DEF KInv, KTypes
<1>. USE <1>0 DEF Blocking, Unblocking, Goto, Call, At, Still, Locals, Running,
   Executing
<1>1. CASE AppendFind(t) \/ AppendLink(t)
  BY <1>1, Zenon DEF AppendFind, AppendLink
<1>2. CASE WakeCheck(t)
  <2>1. CASE Goto(t, "wake_pop")
    BY <1>2, <2>1, Zenon DEF WakeCheck
  <2>2. CASE Call(t, "clear_lock", "user")
    BY <1>2, <2>2, Zenon DEF WakeCheck
  <2>. QED
    BY <1>2, <2>1, <2>2, Zenon DEF WakeCheck
<1>3. CASE WakePop(t) \/ WakeState(t) \/ WakeEnqueue(t)
  BY <1>3, Zenon DEF WakePop, WakeState, WakeEnqueue
<1>4. CASE RecvLock(t) \/ RecvRelock(t) \/ RecvBlock(t) \/ RecvPush(t) \/ RecvYield(t)
  BY <1>4, Zenon DEF RecvLock, RecvRelock, RecvBlock, RecvPush, RecvYield
<1>5. CASE RecvTest(t)
  <2>1. CASE Goto(t, "recv_block")
    BY <1>5, <2>1, Zenon DEF RecvTest
  <2>2. CASE Call(t, "clear_lock", "recv_relock")
    BY <1>5, <2>2, Zenon DEF RecvTest
  <2>. QED
    BY <1>5, <2>1, <2>2, Zenon DEF RecvTest
<1>6. CASE RecvPeek(t)
  <2>1. CASE Goto(t, "recv_pop")
    BY <1>6, <2>1, Zenon DEF RecvPeek
  <2>2. CASE Call(t, "clear_lock", "user")
    BY <1>6, <2>2, Zenon DEF RecvPeek
  <2>. QED
    BY <1>6, <2>1, <2>2, Zenon DEF RecvPeek
<1>7. CASE RecvPop(t)
  BY <1>7, Zenon DEF RecvPop
<1>8. CASE PollTest(t) \/ PollRecv(t)
  BY <1>8, Zenon DEF PollTest, PollRecv
<1>9. CASE SendCall(t) \/ RecvCall(t) \/ PollCall(t)
  BY <1>9, Zenon DEF SendCall, RecvCall, PollCall
<1>. QED
  BY <1>1, <1>2, <1>3, <1>4, <1>5, <1>6, <1>7, <1>8, <1>9, Zenon
  DEF Elsewhere, PushBackMessage, PopFrontMessage, Poll

(* ... and they leave the list of the mutex alone. *)
LEMMA ElsewhereStays ==
  ASSUME ListsWork, QInv, SeenInv, KInv, NEW t \in Thread, Elsewhere(t)
  PROVE  On(sched', "mutex") = On(sched, "mutex")
<1>1. /\ AnyStep(t)
      /\ pc[t] \in {"recv_peek", "recv_pop"} => items # <<>>
  BY Zenon DEF Elsewhere, AnyStep, QueueStep, SeenInv, Saw
<1>2. CASE Silent(t)
  BY <1>1, <1>2, SilentKeeps, Zenon DEF Stay
<1>3. CASE RecvBlock(t)
  BY <1>1, <1>3, BlockKeeps, Zenon DEF Stay
<1>4. CASE RecvPush(t)
  BY <1>1, <1>4, RecvPushKeeps, Zenon
<1>5. CASE WakePop(t)
  BY <1>1, <1>5, WakePopKeeps, Zenon
<1>6. CASE WakeState(t)
  BY <1>1, <1>6, WakeKeeps, Zenon DEF Stay
<1>7. CASE WakeEnqueue(t)
  BY <1>1, <1>7, EnqueueKeeps, Zenon DEF Stay
<1>8. CASE RecvYield(t)
  BY <1>1, <1>8, RecvYieldKeeps, Zenon DEF Stay
<1>. QED
  BY <1>2, <1>3, <1>4, <1>5, <1>6, <1>7, <1>8, Zenon
  DEF Elsewhere, PushBackMessage, PopFrontMessage, Poll, Silent

(* So they keep it. *)
LEMMA WakesElsewhere ==
  ASSUME ListsWork, QInv, SeenInv, KInv, Wakes, NEW t \in Thread, Elsewhere(t)
  PROVE  Wakes'
<1>1. /\ lock' = lock /\ Running(t) /\ mode[t] = "run"
      /\ \A u \in Thread \ {t} : pc'[u] = pc[u] /\ target'[u] = target[u]
      /\ pc[t] \notin {"fetch_or", "check_blocked", "pop_blocked", "unblock", "enqueue"}
      /\ pc'[t] \notin Blocking \cup Unblocking
  BY ElsewhereIs, Zenon
<1>2. On(sched', "mutex") = On(sched, "mutex")
  BY ElsewhereStays, Zenon
<1>3. Apart(t)
  BY <1>1, <1>2, Zenon DEF Apart
<1>4. /\ \A u \in Thread \ {t} : pc'[u] \notin Blocking
      /\ t \notin On(sched, "mutex")
      /\ \A u \in On(sched', "mutex") \ {t} : pc'[u] = "fetch_or"
      /\ \A u \in Thread \ {t} : pc'[u] \in Unblocking => pc'[target'[u]] = "fetch_or"
      /\ \A u \in Thread \ {t} : OnItsWay(u) => OnItsWay(u)'
  BY <1>1, <1>3, WakesOthers, Zenon
<1>5. ~OnItsWay(t)
  BY <1>1, Zenon DEF OnItsWay
<1>6. lock' = 0 /\ On(sched', "mutex") # {} => \E u \in Thread : OnItsWay(u)'
  BY <1>1, <1>2, <1>4, <1>5, Zenon DEF Wakes
<1>. QED
  BY <1>1, <1>2, <1>4, <1>6, Zenon DEF Wakes

(* What the statement of Lock or Release that t executes has to establish. *)
LEMMA WakesMine ==
  ASSUME ListsWork, KInv, Wakes, NEW t \in Thread, Running(t), mode[t] = "run", Apart(t),
         t \in On(sched', "mutex") => pc'[t] = "fetch_or",
         pc'[t] \in Blocking => lock' = 1 /\ Running(t)',
         pc'[t] \in Unblocking => pc'[target'[t]] = "fetch_or",
         lock' = 0 /\ On(sched', "mutex") # {} => \E u \in Thread : OnItsWay(u)'
  PROVE  Wakes'
<1>1. /\ \A u \in Thread \ {t} : pc'[u] \notin Blocking
      /\ \A u \in On(sched', "mutex") \ {t} : pc'[u] = "fetch_or"
      /\ \A u \in Thread \ {t} : pc'[u] \in Unblocking => pc'[target'[u]] = "fetch_or"
  BY WakesOthers, Zenon
<1>. QED
  BY <1>1, Zenon DEF Wakes

(* Lock: fetch_or leaves the word set, and a thread goes on the list only  *)
(* while it is.                                                            *)
LEMMA WakesLock ==
  ASSUME ListsWork, QInv, SeenInv, KInv, Wakes, NEW t \in Thread, Lock(t), UNCHANGED queueVars
  PROVE  Wakes'
<1>1. AnyStep(t) /\ t \in Node /\ \A u \in Thread : u \in Node
  BY Zenon DEF AnyStep, QueueStep, Thread
<1>2. pc \in [Node -> QueueLabel]
  BY DEF KInv, KTypes
<1>3. CASE FetchOr(t)
  <2>1. /\ Running(t) /\ Running(t)' /\ mode[t] = "run" /\ lock' = 1 /\ sched' = sched
        /\ target' = target
        /\ pc[t] = "fetch_or" /\ pc'[t] \in {"block", ret[t]}
        /\ \A u \in Thread \ {t} : pc'[u] = pc[u]
    BY <1>1, <1>2, <1>3, Zenon DEF FetchOr, At, Goto, Executing, Running, Locals
  <2>2. pc'[t] \notin Unblocking
    BY <2>1, Zenon DEF QInv, Returns, Locking, Entry, Unblocking
  <2>3. Apart(t)
    BY <2>1, Zenon DEF Apart
  <2>4. t \notin On(sched, "mutex")
    BY <2>1, <2>3, WakesOthers, Zenon
  <2>. QED
    BY <2>1, <2>2, <2>3, <2>4, WakesMine
<1>4. CASE Block(t)
  <2>1. /\ Running(t) /\ mode[t] = "run" /\ lock' = lock /\ target' = target
        /\ tick' = tick
        /\ pc[t] = "block" /\ pc'[t] = "push_blocked"
        /\ sched' = SetState(sched, t, "BLOCKED")
        /\ \A u \in Thread \ {t} : pc'[u] = pc[u]
    BY <1>1, <1>2, <1>4, Zenon DEF Block, At, Goto, Executing, Running, Locals
  <2>2. On(sched', "mutex") = On(sched, "mutex") /\ sched'.current = sched.current
    BY <2>1, OwnState, AllLists, Zenon DEF SameOn
  <2>3. Apart(t) /\ lock = 1 /\ Running(t)'
    BY <2>1, <2>2, Zenon DEF Apart, Wakes, Blocking, Running
  <2>4. t \notin On(sched, "mutex")
    BY <2>1, <2>3, WakesOthers, Zenon
  <2>. QED
    BY <2>1, <2>2, <2>3, <2>4, WakesMine DEF Unblocking
<1>5. CASE PushBlocked(t)
  <2>1. /\ Running(t) /\ mode[t] = "run" /\ lock' = lock /\ target' = target
        /\ pc[t] = "push_blocked" /\ pc'[t] = "fetch_or"
        /\ \A u \in Thread \ {t} : pc'[u] = pc[u]
    BY <1>1, <1>2, <1>5, Zenon DEF PushBlocked, At, Goto, Executing, Running
  <2>2. On(sched', "mutex") = On(sched, "mutex") \cup {t}
    BY <1>1, <1>5, PushBlockedKeeps, Zenon
  <2>3. Apart(t) /\ lock = 1
    BY <2>1, <2>2, Zenon DEF Apart, Wakes, Blocking
  <2>. QED
    BY <2>1, <2>2, <2>3, WakesMine DEF Unblocking, Blocking
<1>. QED
  BY <1>3, <1>4, <1>5, Zenon DEF Lock

(* Release: from the store of 0 on the thread is on its way, until it sees *)
(* that nobody waits or has enqueued a waiter, which is then on its way    *)
(* itself.                                                                 *)
LEMMA WakesRelease ==
  ASSUME ListsWork, QInv, SeenInv, KInv, Wakes, NEW t \in Thread, Release(t), UNCHANGED queueVars
  PROVE  Wakes'
<1>1. AnyStep(t) /\ t \in Node /\ \A u \in Thread : u \in Node
  BY Zenon DEF AnyStep, QueueStep, Thread
<1>2. pc \in [Node -> QueueLabel] /\ target \in [Node -> Pointer]
  BY DEF KInv, KTypes
<1>. USE DEF Blocking, Unblocking
<1>3. CASE ClearLock(t)
  <2>1. /\ Running(t) /\ mode[t] = "run" /\ sched' = sched /\ target' = target
        /\ pc'[t] = "check_blocked" /\ \A u \in Thread \ {t} : pc'[u] = pc[u]
    BY <1>1, <1>2, <1>3, Zenon DEF ClearLock, At, Goto, Executing, Running, Locals
  <2>2. Apart(t) /\ OnItsWay(t)'
    BY <2>1, Zenon DEF Apart, OnItsWay
  <2>3. t \notin On(sched, "mutex")
    BY <2>1, <2>2, WakesOthers, Zenon
  <2>. QED
    BY <2>1, <2>2, <2>3, WakesMine, Zenon
<1>4. CASE CheckBlocked(t)
  <2>1. /\ Running(t) /\ mode[t] = "run" /\ sched' = sched /\ target' = target
        /\ pc[t] = "check_blocked"
        /\ pc'[t] = IF sched.list["mutex"].size # 0 THEN "pop_blocked" ELSE ret[t]
        /\ \A u \in Thread \ {t} : pc'[u] = pc[u]
    BY <1>1, <1>2, <1>4, Zenon DEF CheckBlocked, At, Goto, Executing, Running, Locals
  <2>2. ret[t] \in Exit
    BY <2>1, Zenon DEF QInv, Returns, Releasing
  <2>3. sched.list["mutex"].size = 0 <=> On(sched, "mutex") = {}
    BY AllLists, Zenon DEF KInv, Sane, ListsWork, FrontPromise
  <2>4. Apart(t) /\ (On(sched', "mutex") # {} => OnItsWay(t)')
    BY <2>1, <2>3, Zenon DEF Apart, OnItsWay
  <2>5. t \notin On(sched, "mutex")
    BY <2>1, <2>4, WakesOthers, Zenon
  <2>6. pc'[t] \notin Blocking \cup Unblocking
    BY <2>1, <2>2, Zenon DEF Exit
  <2>. QED
    BY <2>1, <2>4, <2>5, <2>6, WakesMine, Zenon
<1>5. CASE PopBlocked(t)
  <2>1. /\ Running(t) /\ mode[t] = "run" /\ target'[t] = PeekFront(sched, "mutex")
        /\ pc'[t] = "unblock"
        /\ \A u \in Thread \ {t} : pc'[u] = pc[u] /\ target'[u] = target[u]
    BY <1>1, <1>2, <1>5, Zenon DEF PopBlocked, At, Goto, Executing, Running
  <2>2. /\ PeekFront(sched, "mutex") \in On(sched, "mutex")
        /\ On(sched', "mutex") = On(sched, "mutex") \ {PeekFront(sched, "mutex")}
    BY <1>1, <1>5, PopBlockedKeeps, Zenon
  <2>3. Apart(t) /\ OnItsWay(t)'
    BY <2>1, <2>2, Zenon DEF Apart, OnItsWay
  <2>4. t \notin On(sched, "mutex")
    BY <2>1, <2>3, WakesOthers, Zenon
  <2>5. target'[t] \in Thread /\ target'[t] # t
    <3>1. sched \in Sched /\ Intact(sched) /\ "mutex" \in ListId /\ Idle \notin On(sched, "mutex")
      BY AllLists, Zenon DEF KInv, Sane
    <3>. QED
      BY <2>1, <2>2, <2>4, <3>1, ZenonT(40) DEF Thread, ListsWork, FrontPromise
  <2>6. pc'[target'[t]] = "fetch_or"
    BY <2>1, <2>2, <2>5, Zenon DEF Wakes
  <2>. QED
    BY <2>1, <2>2, <2>3, <2>4, <2>6, WakesMine, Zenon
<1>6. CASE Unblock(t)
  <2>1. /\ Running(t) /\ mode[t] = "run" /\ target' = target
        /\ pc[t] = "unblock" /\ pc'[t] = "enqueue" /\ \A u \in Thread \ {t} : pc'[u] = pc[u]
    BY <1>1, <1>2, <1>6, Zenon DEF Unblock, At, Goto, Executing, Running, Locals
  <2>2. On(sched', "mutex") = On(sched, "mutex")
    BY <1>1, <1>6, WakeKeeps, Zenon DEF Stay
  <2>3. Apart(t) /\ OnItsWay(t)'
    BY <2>1, <2>2, Zenon DEF Apart, OnItsWay
  <2>4. t \notin On(sched, "mutex")
    BY <2>1, <2>3, WakesOthers, Zenon
  <2>5. target[t] \in Thread /\ target[t] # t /\ pc[target[t]] = "fetch_or"
    BY <2>1, Zenon DEF KInv, Transit, Waker, Running, Wakes
  <2>. QED
    BY <2>1, <2>2, <2>3, <2>4, <2>5, WakesMine, Zenon
<1>7. CASE EnqueueBlocked(t)
  <2>1. /\ Running(t) /\ mode[t] = "run" /\ pc[t] = "enqueue" /\ pc'[t] = ret[t]
        /\ \A u \in Thread \ {t} : pc'[u] = pc[u] /\ target'[u] = target[u]
    BY <1>1, <1>2, <1>7, Zenon DEF EnqueueBlocked, At, Goto, Executing, Running
  <2>2. On(sched', "mutex") = On(sched, "mutex")
    BY <1>1, <1>7, EnqueueKeeps, Zenon DEF Stay
  <2>3. Apart(t)
    BY <2>1, <2>2, Zenon DEF Apart
  <2>4. t \notin On(sched, "mutex")
    BY <2>1, <2>3, WakesOthers, Zenon
  <2>5. target[t] \in Thread /\ target[t] # t /\ pc[target[t]] = "fetch_or" /\ Off(sched, target[t])
    BY <2>1, Zenon DEF KInv, Transit, Enqueuer, Running, Wakes
  <2>6. \E u \in Thread : OnItsWay(u)'
    <3>1. pc'[target[t]] = "fetch_or" /\ target[t] \notin On(sched', "mutex")
      BY <2>1, <2>2, <2>5, AllLists, Zenon DEF Off
    <3>2. \A u : pc'[u] = "fetch_or" /\ u \notin On(sched', "mutex") => OnItsWay(u)'
      BY Zenon DEF OnItsWay
    <3>. QED
      BY <2>5, <3>1, <3>2, Zenon
  <2>7. ret[t] \in Exit
    BY <2>1, Zenon DEF QInv, Returns, Releasing
  <2>. QED
    BY <2>1, <2>2, <2>3, <2>4, <2>5, <2>6, <2>7, WakesMine, Zenon DEF Exit
<1>. QED
  BY <1>3, <1>4, <1>5, <1>6, <1>7, Zenon DEF Release

(* Every step keeps it. *)
LEMMA WakesNext ==
  ASSUME ListsWork, Quiet, QuietLock, QInv, SeenInv, KInv, Wakes, [QueueNext]_allVars
  PROVE  Wakes'
<1>1. CASE SchedNext /\ UNCHANGED <<mutexVars, queueVars>>
  BY <1>1, WakesSched, Zenon
<1>2. ASSUME NEW t \in Thread, QueueStep(t)
      PROVE  Wakes'
  BY <1>2, WakesElsewhere, WakesLock, WakesRelease, Zenon DEF QueueStep, Elsewhere
<1>3. ASSUME NEW t \in Thread, SendCall(t) \/ RecvCall(t) \/ PollCall(t)
      PROVE  Wakes'
  BY <1>3, WakesElsewhere, Zenon DEF Elsewhere
<1>4. CASE UNCHANGED allVars
  BY <1>4, Zenon DEF allVars, vars, Wakes, Running, OnItsWay
<1>5. Sender \subseteq Thread /\ Receiver \subseteq Thread
  BY QueueAssumption, Zenon
<1>. QED
  BY <1>1, <1>2, <1>3, <1>4, <1>5, Zenon DEF QueueNext

(* Nobody waits when the kernel boots. *)
LEMMA WakesInit ==
  ASSUME ListsWork
  PROVE  QueueInit => Wakes
<1>. SUFFICES ASSUME QueueInit PROVE Wakes
  BY Zenon
<1>1. \A t \in Thread : t \in Node /\ pc[t] \in {"user", "new"} /\ mode[t] = "run" /\ target[t] = Null
  BY Zenon DEF QueueInit, Init, SchedInit, BootYield, Thread
<1>2. On(sched, "mutex") = {}
  BY BootLists, AllLists
<1>. QED
  BY <1>1, <1>2, Zenon DEF Wakes, Blocking, Unblocking

(* So it holds in every state, and NoLostWakeup with it. *)
LEMMA WakesAlways ==
  ASSUME ListsWork
  PROVE  RacedSpec => []WakeupUnlessRaced
<1>. DEFINE inv == QInv /\ (Calm => SeenInv /\ KInv)
            safe == Calm /\ "lock" \notin races
<1>1. RacedInit => Wakes
  BY WakesInit, Zenon DEF RacedInit
<1>2. ASSUME inv, safe => Wakes, [RacedNext]_racedVars, safe'
      PROVE  Wakes'
  <2>1. /\ Calm /\ Quiet /\ [QueueNext]_allVars
        /\ "lock" \notin races /\ QuietLock
    BY <1>2, CalmStep, LockStepCalm, RacedIsQueue, Zenon DEF QuietLock
  <2>2. QInv /\ SeenInv /\ KInv /\ Wakes
    BY <1>2, <2>1, Zenon
  <2>. QED
    BY <2>1, <2>2, WakesNext, Zenon
<1>3. inv /\ (safe => Wakes) => WakeupUnlessRaced
  <2>. SUFFICES ASSUME KInv, Wakes PROVE NoLostWakeup
    BY Zenon DEF WakeupUnlessRaced
  <2>1. sched.list["mutex"].size = 0 <=> On(sched, "mutex") = {}
    BY AllLists, Zenon DEF KInv, Sane, ListsWork, FrontPromise
  <2>. QED
    BY <2>1, Zenon DEF Wakes, NoLostWakeup
<1>4. inv /\ (safe => Wakes) /\ [RacedNext]_racedVars => (safe => Wakes)'
  BY <1>2, Zenon
<1>5. RacedSpec => []inv
  BY KernelInvariant
<1>. HIDE DEF inv, safe
<1>. QED
  BY <1>1, <1>3, <1>4, <1>5, PTL DEF RacedSpec

-----------------------------------------------------------------------------
(* Nobody sleeps on a message. *)

(* A thread leaves PopFront and PortPoll with a message, or because there  *)
(* is none, or because it does not fit; a sender stops looking for waiters *)
(* when there are none, or when it has taken one.                          *)
LEMMA AttentionMoves ==
  ASSUME QInv, NEW t \in Thread, AnyStep(t)
  PROVE  /\ Receives(t) => Receives(t)' \/ (items = <<>> /\ items' = items) \/ Popped(t) \/ Refuses(t)
         /\ Looks(t) => Looks(t)' \/ sched.list["queue"].size = 0 \/ WakePop(t)
         /\ pc'[t] \in {"recv_block", "recv_push"}
              => items' = items /\ (pc[t] \in {"recv_block", "recv_push"} \/ items = <<>>)
         /\ Leaving(t) => Receives(t)'
<1>. t \in Node
  BY ThreadIsNode, Zenon
<1>0. /\ pc \in [Node -> QueueLabel] /\ ret \in [Node -> QueueLabel]
      /\ pc[t] \in Locking => ret[t] \in Entry
      /\ pc[t] \in Releasing => ret[t] \in Exit
  BY Zenon DEF QInv, QueueTypeOK, Returns
<1>. USE <1>0 DEF Receives, ReceiverLabel, Locking, Releasing, Entry, Exit, Goto, Call, At, Still,
   Looks, Leaving, queueVars
<1>1. CASE FetchOr(t) /\ UNCHANGED queueVars
  <2>1. CASE pc'[t] = "block" /\ ret' = ret
    BY <1>1, <2>1, Zenon DEF FetchOr
  <2>2. CASE pc'[t] = ret[t] /\ ret' = ret
    BY <1>1, <2>2, Zenon DEF FetchOr
  <2>. QED
    BY <1>1, <2>1, <2>2, Zenon DEF FetchOr
<1>2. CASE (Block(t) \/ PushBlocked(t)) /\ UNCHANGED queueVars
  BY <1>2, Zenon DEF Block, PushBlocked
<1>3. CASE ClearLock(t) /\ UNCHANGED queueVars
  BY <1>3, Zenon DEF ClearLock
<1>4. CASE CheckBlocked(t) /\ UNCHANGED queueVars
  <2>1. CASE pc'[t] = "pop_blocked" /\ ret' = ret
    BY <1>4, <2>1, Zenon DEF CheckBlocked
  <2>2. CASE pc'[t] = ret[t] /\ ret' = ret
    BY <1>4, <2>2, Zenon DEF CheckBlocked
  <2>. QED
    BY <1>4, <2>1, <2>2, Zenon DEF CheckBlocked
<1>5. CASE (PopBlocked(t) \/ Unblock(t)) /\ UNCHANGED queueVars
  BY <1>5, Zenon DEF PopBlocked, Unblock
<1>6. CASE EnqueueBlocked(t) /\ UNCHANGED queueVars
  BY <1>6, Zenon DEF EnqueueBlocked
<1>7. CASE AppendFind(t) \/ AppendLink(t) \/ WakeState(t) \/ WakeEnqueue(t)
  BY <1>7, Zenon DEF AppendFind, AppendLink, WakeState, WakeEnqueue
<1>8. CASE WakeCheck(t)
  <2>1. CASE sched.list["queue"].size # 0
    BY <1>8, <2>1, Zenon DEF WakeCheck
  <2>2. CASE sched.list["queue"].size = 0
    BY <1>8, <2>2, Zenon DEF WakeCheck
  <2>. QED
    BY <2>1, <2>2
<1>9. CASE WakePop(t)
  BY <1>9, Zenon DEF WakePop
<1>10. CASE RecvLock(t) \/ RecvRelock(t) \/ PollRecv(t)
  BY <1>10, Zenon DEF RecvLock, RecvRelock, PollRecv
<1>11. CASE RecvTest(t)
  <2>1. CASE items = <<>>
    BY <1>11, <2>1, Zenon DEF RecvTest
  <2>2. CASE items # <<>>
    BY <1>11, <2>2, Zenon DEF RecvTest
  <2>. QED
    BY <2>1, <2>2
<1>12. CASE RecvBlock(t) \/ RecvPush(t) \/ RecvYield(t)
  BY <1>12, Zenon DEF RecvBlock, RecvPush, RecvYield
<1>13. CASE RecvPeek(t)
  <2>1. CASE t \in Small
    BY <1>13, <2>1, Zenon DEF RecvPeek, Refuses
  <2>2. CASE t \notin Small
    BY <1>13, <2>2, Zenon DEF RecvPeek
  <2>. QED
    BY <2>1, <2>2
<1>14. CASE RecvPop(t)
  <2>1. CASE items = <<>>
    BY <1>14, <2>1, Zenon DEF RecvPop
  <2>2. CASE items # <<>>
    BY <1>14, <2>2, Zenon DEF RecvPop, Popped, Executing
  <2>. QED
    BY <2>1, <2>2
<1>15. CASE PollTest(t)
  <2>1. CASE items = <<>>
    BY <1>15, <2>1, Zenon DEF PollTest
  <2>2. CASE items # <<>>
    BY <1>15, <2>2, Zenon DEF PollTest
  <2>. QED
    BY <2>1, <2>2
<1>16. CASE SendCall(t) \/ RecvCall(t) \/ PollCall(t)
  BY <1>16, Zenon DEF SendCall, RecvCall, PollCall
<1>. QED
  BY <1>1, <1>2, <1>3, <1>4, <1>5, <1>6, <1>7, <1>8, <1>9, <1>10, <1>11, <1>12, <1>13,
     <1>14, <1>15, <1>16, Zenon
  DEF AnyStep, QueueStep, Lock, Release, PushBackMessage, PopFrontMessage, Poll

(* The scheduler and the timer touch neither the queue nor its waiters. *)
LEMMA MessagesSched ==
  ASSUME ListsWork, Quiet, QInv, KInv, Messages, SchedNext, UNCHANGED <<mutexVars, queueVars>>
  PROVE  Messages'
<1>1. /\ On(sched', "queue") = On(sched, "queue") /\ items' = items /\ ret' = ret
      /\ \A u \in Thread : u \in Node
  BY SchedKeeps, Zenon DEF mutexVars, queueVars, Thread, Stay
<1>2. \A u \in Thread : pc'[u] # pc[u] => pc[u] \in SchedLabel /\ pc'[u] \in SchedLabel
  BY <1>1, SchedStep, Zenon
<1>3. ASSUME NEW u \in Thread
      PROVE  (Receives(u)' <=> Receives(u)) /\ (Looks(u)' <=> Looks(u))
  <2>1. CASE pc'[u] = pc[u]
    BY <1>1, <2>1, Zenon DEF Receives, Looks
  <2>2. CASE pc[u] \in SchedLabel /\ pc'[u] \in SchedLabel
    BY <2>2, Zenon DEF Receives, Looks, ReceiverLabel, SchedLabel, Locking, Releasing
  <2>. QED
    BY <1>2, <2>1, <2>2, Zenon
<1>4. Attending' = Attending
  BY <1>1, <1>3, Zenon DEF Attending, Attends, Looks
<1>5. \A u \in Thread : pc'[u] \in {"recv_block", "recv_push"} => pc'[u] = pc[u]
  BY <1>2, Zenon DEF SchedLabel
<1>. QED
  BY <1>1, <1>3, <1>4, <1>5, Zenon DEF Messages

(* No statement but WakePop and RecvPush touches the waiting receivers. *)
LEMMA WaitersStay ==
  ASSUME ListsWork, QInv, SeenInv, KInv, NEW t \in Thread, AnyStep(t), ~WakePop(t), ~RecvPush(t)
  PROVE  On(sched', "queue") = On(sched, "queue")
<1>1. pc[t] \in {"recv_peek", "recv_pop"} => items # <<>>
  BY Zenon DEF SeenInv, Saw
<1>2. CASE Silent(t)
  BY <1>1, <1>2, SilentKeeps, Zenon DEF Stay
<1>3. CASE Block(t) \/ RecvBlock(t)
  BY <1>3, BlockKeeps, Zenon DEF Stay
<1>4. CASE PushBlocked(t)
  BY <1>4, PushBlockedKeeps, Zenon
<1>5. CASE PopBlocked(t)
  BY <1>5, PopBlockedKeeps, Zenon
<1>6. CASE Unblock(t) \/ WakeState(t)
  BY <1>6, WakeKeeps, Zenon DEF Stay
<1>7. CASE EnqueueBlocked(t) \/ WakeEnqueue(t)
  BY <1>7, EnqueueKeeps, Zenon DEF Stay
<1>8. CASE RecvYield(t)
  BY <1>8, RecvYieldKeeps, Zenon DEF Stay
<1>. QED
  BY <1>2, <1>3, <1>4, <1>5, <1>6, <1>7, <1>8, Zenon
  DEF AnyStep, QueueStep, Lock, Release, PushBackMessage, PopFrontMessage, Poll, Silent

(* What a statement of t leaves alone of the other threads: where they     *)
(* are, and whether what they saw of the queue is true.                    *)
LEMMA MessagesOthers ==
  ASSUME QInv, Messages, NEW t \in Thread, AnyStep(t), NEW u \in Thread, u # t
  PROVE  /\ Receives(u)' <=> Receives(u)
         /\ Looks(u)' <=> Looks(u)
         /\ pc'[u] \in {"recv_block", "recv_push"} => items' = <<>>
<1>1. pc'[u] = pc[u] /\ ret'[u] = ret[u]
  BY ThreadMoves, Zenon DEF AnyStep, Thread
<1>2. (Receives(u)' <=> Receives(u)) /\ (Looks(u)' <=> Looks(u))
  BY <1>1, Zenon DEF Receives, Looks
<1>3. ASSUME pc[u] \in {"recv_block", "recv_push"} PROVE items' = <<>>
  <2>1. items = <<>> /\ HasLock(u)
    BY <1>3, Zenon DEF Messages, HasLock
  <2>2. ~HasLock(t)
    BY <2>1, Zenon DEF QInv, OneHolder
  <2>3. ~Appended(t) /\ ~Popped(t)
    BY <2>2, Zenon DEF Appended, Popped, HasLock
  <2>. QED
    BY <2>1, <2>3, QueueMoves, Zenon
<1>. QED
  BY <1>1, <1>2, <1>3, Zenon

(* The thread that executes waits for no message, unless it has just gone  *)
(* on the list and has yet to yield.                                       *)
LEMMA ExecutesOff ==
  ASSUME KInv, NEW t \in Thread, AnyStep(t)
  PROVE  sched.current = t /\ (t \in On(sched, "queue") => Leaving(t))
<1>1. sched.current = t /\ mode[t] = "run"
  BY Zenon DEF AnyStep, QueueStep, Lock, Release, PushBackMessage, PopFrontMessage, Poll,
     At, Executing, FetchOr, Block, PushBlocked, ClearLock, CheckBlocked, PopBlocked, Unblock,
     EnqueueBlocked, AppendFind, AppendLink, WakeCheck, WakePop, WakeState, WakeEnqueue,
     RecvLock, RecvTest, RecvBlock, RecvPush, RecvYield, RecvRelock, RecvPeek, RecvPop,
     PollTest, PollRecv, SendCall, RecvCall, PollCall
<1>. QED
  BY <1>1, AllLists, Zenon DEF KInv, CurrentOff, Off

INSTANCE FiniteSetTheorems

(* The count when only t may have come or gone. *)
LEMMA CountOne ==
  ASSUME NEW S, NEW R, NEW t, IsFiniteSet(S), \A u : u # t => (u \in R <=> u \in S)
  PROVE  /\ IsFiniteSet(R) /\ Cardinality(S) \in Nat /\ Cardinality(R) \in Nat
         /\ Cardinality(S) <= Cardinality(R) + 1
         /\ (t \in S => t \in R) => Cardinality(S) <= Cardinality(R)
         /\ t \notin S /\ t \in R => Cardinality(R) = Cardinality(S) + 1
<1>1. Cardinality(S) \in Nat
  BY FS_CardinalityType
<1>2. CASE t \in S /\ t \notin R
  <2>1. R = S \ {t}
    BY <1>2
  <2>2. IsFiniteSet(R) /\ Cardinality(R) = Cardinality(S) - 1
    BY <1>2, <2>1, FS_RemoveElement
  <2>3. Cardinality(R) \in Nat
    BY <2>2, FS_CardinalityType
  <2>. QED
    BY <1>1, <1>2, <2>2, <2>3
<1>3. CASE t \notin S /\ t \in R
  <2>1. R = S \cup {t}
    BY <1>3
  <2>2. IsFiniteSet(R) /\ Cardinality(R) = Cardinality(S) + 1
    BY <1>3, <2>1, FS_AddElement
  <2>. QED
    BY <1>1, <1>3, <2>2
<1>4. CASE t \in S <=> t \in R
  <2>1. R = S
    BY <1>4
  <2>. QED
    BY <1>1, <1>4, <2>1
<1>. QED
  BY <1>2, <1>3, <1>4

(* The count when t leaves and w comes. *)
LEMMA CountTwo ==
  ASSUME NEW S, NEW R, NEW t, NEW w, IsFiniteSet(S), t \in S, w \notin S, R = (S \ {t}) \cup {w}
  PROVE  IsFiniteSet(R) /\ Cardinality(R) = Cardinality(S)
<1>. DEFINE D == S \ {t}
<1>1. IsFiniteSet(D) /\ Cardinality(D) = Cardinality(S) - 1
  BY FS_RemoveElement
<1>2. w \notin D /\ R = D \cup {w}
  OBVIOUS
<1>. HIDE DEF D
<1>3. IsFiniteSet(R) /\ Cardinality(R) = Cardinality(D) + 1
  BY <1>1, <1>2, FS_AddElement
<1>4. Cardinality(S) \in Nat
  BY FS_CardinalityType
<1>. QED
  BY <1>1, <1>3, <1>4

(* A statement that leaves the waiting receivers where they are keeps the  *)
(* account: who takes a message attended to it, and who brings one attends *)
(* to it next.                                                             *)
LEMMA MessagesStay ==
  ASSUME ListsWork, QInv, SeenInv, KInv, Messages, NEW t \in Thread, AnyStep(t), ~RefuseRace,
         ~WakePop(t), ~RecvPush(t)
  PROVE  Messages'
<1>1. On(sched', "queue") = On(sched, "queue")
  BY WaitersStay, Zenon
<1>2. sched.current = t /\ (t \in On(sched, "queue") => Leaving(t))
  BY ExecutesOff, Zenon
<1>3. /\ Receives(t) => Receives(t)' \/ (items = <<>> /\ items' = items) \/ Popped(t) \/ Refuses(t)
      /\ Looks(t) => Looks(t)' \/ sched.list["queue"].size = 0
      /\ pc'[t] \in {"recv_block", "recv_push"}
           => items' = items /\ (pc[t] \in {"recv_block", "recv_push"} \/ items = <<>>)
      /\ Leaving(t) => Receives(t)'
  BY AttentionMoves, Zenon
<1>4. \A u \in Thread : u # t => /\ Receives(u)' <=> Receives(u)
                                 /\ Looks(u)' <=> Looks(u)
                                 /\ pc'[u] \in {"recv_block", "recv_push"} => items' = <<>>
  BY MessagesOthers, Zenon
<1>5. \A u \in On(sched', "queue") : u \in Thread /\ Receives(u)'
  BY <1>1, <1>2, <1>3, <1>4, Zenon DEF Messages
<1>6. \A u \in Thread : pc'[u] \in {"recv_block", "recv_push"} => items' = <<>>
  BY <1>3, <1>4, Zenon DEF Messages
<1>7. \A u : u # t => (u \in Attending' <=> u \in Attending)
  BY <1>1, <1>4, Zenon DEF Attending, Attends, Looks
<1>8. /\ IsFiniteSet(Attending') /\ Cardinality(Attending) \in Nat /\ Cardinality(Attending') \in Nat
      /\ Cardinality(Attending) <= Cardinality(Attending') + 1
      /\ (t \in Attending => t \in Attending') => Cardinality(Attending) <= Cardinality(Attending')
      /\ t \notin Attending /\ t \in Attending' => Cardinality(Attending') = Cardinality(Attending) + 1
  BY <1>7, CountOne, Zenon DEF Messages
<1>9. ASSUME On(sched', "queue") # {}
      PROVE  Len(items') <= Cardinality(Attending')
  <2>1. /\ Len(items) <= Cardinality(Attending) /\ items \in Seq(Message)
        /\ sched.list["queue"].size # 0
    <3>1. sched.list["queue"].size = 0 <=> On(sched, "queue") = {}
      BY AllLists, Zenon DEF KInv, Sane, ListsWork, FrontPromise
    <3>. QED
      BY <1>1, <1>9, <3>1, Zenon DEF Messages, QInv, QueueTypeOK
  <2>2. CASE Appended(t)
    <3>1. t \notin Attending /\ t \in Attending'
      BY <2>2, Zenon DEF Appended, Attending, Attends, Receives, ReceiverLabel, Locking, Releasing
    <3>2. Len(items') = Len(items) + 1
      BY <2>1, <2>2 DEF Appended
    <3>. QED
      BY <1>8, <2>1, <3>1, <3>2
  <2>3. CASE Popped(t)
    <3>1. Len(items') = Len(items) - 1
      BY <2>1, <2>3 DEF Popped
    <3>. QED
      BY <1>8, <2>1, <3>1
  <2>4. CASE items' = items /\ items = <<>>
    BY <1>8, <2>4
  <2>5. CASE items' = items /\ items # <<>> /\ ~Popped(t)
    <3>1. ~Refuses(t)
      BY <1>1, <1>2, <1>9, Zenon DEF Refuses, RefuseRace
    <3>2. t \in Attending => t \in Attending'
      BY <1>1, <1>3, <2>1, <2>5, <3>1, Zenon DEF Attending, Attends, Looks
    <3>. QED
      BY <1>8, <2>1, <2>5, <3>2
  <2>. QED
    BY <2>2, <2>3, <2>4, <2>5, QueueMoves, Zenon
<1>. QED
  BY <1>5, <1>6, <1>8, <1>9, Zenon DEF Messages

(* A sender that takes a waiter off the list hands its place in the        *)
(* account to it.                                                          *)
LEMMA MessagesPop ==
  ASSUME ListsWork, QInv, SeenInv, KInv, Messages, NEW t \in Thread, WakePop(t)
  PROVE  Messages'
<1>1. AnyStep(t)
  BY Zenon DEF AnyStep, QueueStep, PushBackMessage
<1>2. PICK w : w \in On(sched, "queue") /\ On(sched', "queue") = On(sched, "queue") \ {w}
  BY <1>1, WakePopKeeps, Zenon
<1>3. pc[t] = "wake_pop" /\ pc'[t] = "wake_state" /\ items' = items
  BY Zenon DEF WakePop, At, Goto, queueVars, KInv, KTypes, Thread
<1>4. t \notin On(sched, "queue") /\ w # t
  BY <1>1, <1>2, <1>3, ExecutesOff, Zenon DEF Leaving, Releasing
<1>5. \A u \in Thread : u # t => /\ Receives(u)' <=> Receives(u)
                                 /\ Looks(u)' <=> Looks(u)
                                 /\ pc'[u] \in {"recv_block", "recv_push"} => items' = <<>>
  BY <1>1, MessagesOthers, Zenon
<1>6. w \in Thread /\ Receives(w) /\ Receives(w)'
  BY <1>2, <1>4, <1>5, Zenon DEF Messages
<1>7. t \in Attending /\ w \notin Attending
  <2>1. ~Looks(w)
    BY <1>6, Zenon DEF Receives, ReceiverLabel, Locking, Releasing, Looks
  <2>. QED
    BY <1>2, <1>3, <2>1, Zenon DEF Attending, Attends, Looks
<1>8. Attending' = (Attending \ {t}) \cup {w}
  <2>1. t \notin Attending' /\ w \in Attending'
    BY <1>2, <1>3, <1>6, Zenon DEF Attending, Attends, Receives, ReceiverLabel, Locking, Releasing
  <2>2. \A u : u # t /\ u # w => (u \in Attending' <=> u \in Attending)
    BY <1>2, <1>5, Zenon DEF Attending, Attends, Looks
  <2>. QED
    BY <1>7, <2>1, <2>2, Zenon
<1>9. IsFiniteSet(Attending') /\ Cardinality(Attending') = Cardinality(Attending)
  BY <1>7, <1>8, CountTwo, Zenon DEF Messages
<1>10. \A u \in On(sched', "queue") : u \in Thread /\ Receives(u)'
  BY <1>2, <1>4, <1>5, Zenon DEF Messages
<1>11. \A u \in Thread : pc'[u] \in {"recv_block", "recv_push"} => items' = <<>>
  BY <1>3, <1>5, Zenon
<1>12. On(sched', "queue") # {} => Len(items') <= Cardinality(Attending')
  BY <1>2, <1>3, <1>9, Zenon DEF Messages
<1>. QED
  BY <1>9, <1>10, <1>11, <1>12, Zenon DEF Messages

(* A receiver goes on the list when there is no message. *)
LEMMA MessagesPush ==
  ASSUME ListsWork, QInv, SeenInv, KInv, Messages, NEW t \in Thread, RecvPush(t)
  PROVE  Messages'
<1>1. AnyStep(t)
  BY Zenon DEF AnyStep, QueueStep, PopFrontMessage
<1>2. On(sched', "queue") = On(sched, "queue") \cup {t}
  BY <1>1, RecvPushKeeps, Zenon
<1>3. pc[t] = "recv_push" /\ pc'[t] = "clear_lock" /\ ret'[t] = "recv_yield" /\ items' = items
  BY Zenon DEF RecvPush, At, Call, Goto, queueVars, KInv, KTypes, Thread, QInv, QueueTypeOK
<1>4. items' = <<>> /\ Receives(t)'
  BY <1>3, Zenon DEF Messages, Receives, ReceiverLabel, Releasing
<1>5. \A u \in Thread : u # t => /\ Receives(u)' <=> Receives(u)
                                 /\ Looks(u)' <=> Looks(u)
                                 /\ pc'[u] \in {"recv_block", "recv_push"} => items' = <<>>
  BY <1>1, MessagesOthers, Zenon
<1>6. \A u : u # t => (u \in Attending' <=> u \in Attending)
  BY <1>2, <1>5, Zenon DEF Attending, Attends, Looks
<1>7. IsFiniteSet(Attending') /\ Cardinality(Attending') \in Nat
  BY <1>6, CountOne, Zenon DEF Messages
<1>8. Len(items') <= Cardinality(Attending')
  BY <1>4, <1>7
<1>9. \A u \in On(sched', "queue") : u \in Thread /\ Receives(u)'
  BY <1>2, <1>4, <1>5, Zenon DEF Messages
<1>. QED
  BY <1>4, <1>7, <1>8, <1>9, Zenon DEF Messages

(* Every step keeps the account. *)
LEMMA MessagesNext ==
  ASSUME ListsWork, Quiet, ~RefuseRace, QInv, SeenInv, KInv, Messages, [QueueNext]_allVars
  PROVE  Messages'
<1>1. CASE SchedNext /\ UNCHANGED <<mutexVars, queueVars>>
  BY <1>1, MessagesSched, Zenon
<1>2. ASSUME NEW t \in Thread, AnyStep(t)
      PROVE  Messages'
  BY <1>2, MessagesStay, MessagesPop, MessagesPush, Zenon
<1>3. CASE UNCHANGED allVars
  BY <1>3, Zenon DEF allVars, vars, queueVars, Messages, Receives, Attending, Attends
<1>4. Sender \subseteq Thread /\ Receiver \subseteq Thread
  BY QueueAssumption, Zenon
<1>. QED
  BY <1>1, <1>2, <1>3, <1>4, Zenon DEF QueueNext, AnyStep

(* The queue is empty when the kernel boots, and nobody attends to it. *)
LEMMA MessagesInit ==
  ASSUME ListsWork
  PROVE  QueueInit => Messages
<1>. SUFFICES ASSUME QueueInit PROVE Messages
  OBVIOUS
<1>1. \A t \in Thread : t \in Node /\ pc[t] \in {"user", "new"}
  BY Zenon DEF QueueInit, Init, SchedInit, Thread
<1>2. On(sched, "queue") = {}
  BY BootLists, AllLists, Zenon
<1>3. Attending = {}
  BY <1>1, Zenon DEF Attending, Attends, Receives, ReceiverLabel, Locking, Releasing
<1>4. IsFiniteSet(Attending)
  BY <1>3, FS_EmptySet
<1>. QED
  BY <1>1, <1>2, <1>4, Zenon DEF Messages

(* So it holds in every state, and NoMissedMessage with it. *)
LEMMA MessagesAlways ==
  ASSUME ListsWork
  PROVE  RacedSpec => []MessageUnlessRaced
<1>. DEFINE inv == QInv /\ (Calm => SeenInv /\ KInv)
            safe == Calm /\ "refuse" \notin races
<1>1. RacedInit => Messages
  BY MessagesInit, Zenon DEF RacedInit
<1>2. ASSUME inv, safe => Messages, [RacedNext]_racedVars, safe'
      PROVE  Messages'
  <2>1. /\ Calm /\ Quiet /\ [QueueNext]_allVars
        /\ "refuse" \notin races /\ ~RefuseRace
    BY <1>2, CalmStep, RefuseStepCalm, RacedIsQueue, Zenon
  <2>2. QInv /\ SeenInv /\ KInv /\ Messages
    BY <1>2, <2>1, Zenon
  <2>. QED
    BY <2>1, <2>2, MessagesNext, Zenon
<1>3. inv /\ (safe => Messages) => MessageUnlessRaced
  <2>. SUFFICES ASSUME KInv, Messages PROVE NoMissedMessage
    BY Zenon DEF MessageUnlessRaced
  <2>1. sched.list["queue"].size = 0 <=> On(sched, "queue") = {}
    BY AllLists, Zenon DEF KInv, Sane, ListsWork, FrontPromise
  <2>. QED
    BY <2>1, Zenon DEF Messages, NoMissedMessage
<1>4. inv /\ (safe => Messages) /\ [RacedNext]_racedVars => (safe => Messages)'
  BY <1>2, Zenon
<1>5. RacedSpec => []inv
  BY KernelInvariant
<1>. HIDE DEF inv, safe
<1>. QED
  BY <1>1, <1>3, <1>4, <1>5, PTL DEF RacedSpec
=============================================================================
