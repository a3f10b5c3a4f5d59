-------------------------- MODULE KernelInvariants --------------------------
(***************************************************************************)
(* The inductive invariants of the kernel: of the message queue (QInv and  *)
(* SeenInv), and of the places of the threads (KInv).                      *)
(***************************************************************************)
EXTENDS KernelRaces, ListInvariants

(* Where Lock and Release may return to. *)
Entry == {"append_find", "recv_test", "recv_peek", "poll_test", "poll_recv_test"}
Exit == {"user", "recv_yield", "recv_relock", "poll_recv"}

(* The statements a thread executes while it has the mutex. *)
HasLock(t) ==
  pc[t] \in {"append_find", "append_link", "wake_check", "wake_pop", "wake_state",
             "wake_enqueue", "recv_test", "recv_block", "recv_push", "recv_peek",
             "recv_pop", "poll_test", "poll_recv_test", "clear_lock"}

(* The types of what the proofs below read. *)
QueueTypeOK ==
  /\ pc \in [Node -> QueueLabel] /\ ret \in [Node -> QueueLabel] /\ lock \in {0, 1}
  /\ items \in Seq(Message) /\ made \in 0 .. MaxMessages
  /\ out \in [Node -> Nat] /\ tail \in [Node -> Nat]

(* Lock returns into a critical section, Release out of one. *)
Returns ==
  \A t \in Thread : /\ pc[t] \in Locking => ret[t] \in Entry
                    /\ pc[t] \in Releasing => ret[t] \in Exit

(* The lock word is set exactly when a thread has the mutex; only one has. *)
OneHolder ==
  /\ lock = 1 <=> \E t \in Thread : HasLock(t)
  /\ \A t, u \in Thread : HasLock(t) /\ HasLock(u) => t = u

(* A thread in PushBack that has not appended its message yet. *)
Sending(t) ==
  \/ pc[t] \in {"append_find", "append_link"}
  \/ pc[t] \in Locking /\ ret[t] = "append_find"

(* What it appends is a message; and the end of the list it has found is   *)
(* still the end of the list when it links the message there.              *)
Appends ==
  \A t \in Thread :
    /\ Sending(t) => out[t] \in Message
    /\ pc[t] = "append_link" => tail[t] = Len(items)

(* The inductive invariant behind the refinement. *)
QInv == QueueTypeOK /\ Returns /\ OneHolder /\ Appends

(* A statement of thread t: of a call it is in, or the first of a new one. *)
AnyStep(t) == QueueStep(t) \/ SendCall(t) \/ RecvCall(t) \/ PollCall(t)

(* Two statements change pending_messages_: the link of a new message, and  *)
(* the PopFront of a receiver.                                             *)
Appended(t) ==
  /\ pc[t] = "append_link" /\ items' = Append(items, out[t]) /\ received' = received
  /\ out[t] \in Message /\ pc'[t] = "wake_check"

Popped(t) ==
  /\ pc[t] = "recv_pop" /\ items # <<>> /\ items' = Tail(items)
  /\ received' = Append(received, Head(items)) /\ pc'[t] = "clear_lock"
  /\ sched.current = t

(* Only a receiver receives, and what it saw is still there. *)
SeenInv ==
  \A t \in Thread : /\ Receives(t) => t \in Receiver
                    /\ Saw(t) => items # <<>>

(* Thread t executes its own code, no handler being on top of it. *)
Running(t) == sched.current = t /\ tick = "off"

(* A receiver that is on the list of waiters and has yet to yield. *)
Leaving(t) ==
  pc[t] = "recv_yield" \/ (pc[t] \in Releasing /\ ret[t] = "recv_yield")

(* The types of what the proofs below read. *)
KTypes ==
  /\ pc \in [Node -> QueueLabel] /\ pc[Idle] = "spin"
  /\ mode \in [Node -> {"run", "clear", "switch"}]
  /\ tick \in {"off", "decrement", "clear", "swap"}
  /\ cursor \in Pointer /\ target \in [Node -> Pointer]

(* Only the thread that has the CPU is in Yield, and it comes from one of  *)
(* the calls of Yield: Sleep, Lock, PopFront or boot. It waits on a list,  *)
(* unless it is the sleep thread, which yields to a runnable thread.       *)
InYield ==
  /\ \A t \in Node : mode[t] # "run" => Running(t) /\ pc[t] \in {"spin", "user", "fetch_or", "recv_lock"}
  /\ mode[Idle] # "run" => On(sched, "runnable") # {}
  /\ \A t \in Thread : mode[t] # "run" => ~Off(sched, t)

(* A receiver between blocked_threads_.PushBack and Yield has the CPU. *)
InLeave ==
  \A t \in Thread : Leaving(t) => Running(t) /\ mode[t] = "run" /\ t \in On(sched, "queue")

(* Otherwise the current thread is on no list. *)
CurrentOff ==
  mode[sched.current] = "run" /\ ~Leaving(sched.current) => Off(sched, sched.current)

(* A thread that was not started is on no list and not running. *)
Fresh == \A t \in Thread : pc[t] = "new" => Off(sched, t) /\ sched.current # t

(* A thread that is on no list is running, not started, or held by the     *)
(* thread that starts or wakes it.                                         *)
Found ==
  \A t \in Thread : Off(sched, t) => sched.current = t \/ pc[t] = "new" \/ InTransit(t)

(* The handler runs on top of a thread that is on no list, and its cursor  *)
(* is a sleeper.                                                           *)
Ticking ==
  /\ tick # "off" => Off(sched, sched.current)
  /\ tick = "decrement" /\ cursor # Null => cursor \in On(sched, "sleeping")

(* The statements of a thread that has taken a waiter off its list, ... *)
Waker == {"unblock", "wake_state"}
(* ... and of one that has made a thread RUNNABLE and has yet to enqueue   *)
(* it.                                                                     *)
Enqueuer == {"start_enqueue", "enqueue", "wake_enqueue"}

(* The thread that such a thread holds is on no list, not running, and     *)
(* held by no other; before it is enqueued it is RUNNABLE.                 *)
Transit ==
  \A t \in Thread :
    /\ target[t] # Null <=> pc[t] \in Waker \cup Enqueuer
    /\ target[t] # Null => /\ target[t] \in Thread /\ Off(sched, target[t])
                           /\ target[t] # sched.current /\ pc[target[t]] # "new"
    /\ target[t] # Null => \A u \in Thread : target[u] = target[t] => u = t
    /\ pc[t] \in Enqueuer => sched.state[target[t]] = "RUNNABLE"

(* A list that was seen not to be empty is not empty when it is popped: no *)
(* tick comes in between in Release, and in PushBack the mutex of the      *)
(* queue is held.                                                          *)
Waits ==
  \A t \in Thread :
    /\ pc[t] = "pop_blocked" => Running(t) /\ On(sched, "mutex") # {}
    /\ pc[t] = "wake_pop" => On(sched, "queue") # {}

(* The inductive invariant: the lists are intact, and the place of every   *)
(* thread agrees with the statement it is at.                              *)
KInv ==
  /\ Sane(sched) /\ KTypes /\ InYield /\ InLeave /\ CurrentOff /\ Fresh /\ Found
  /\ Ticking /\ Transit /\ Waits

(* No thread starts or stops to wait for the mutex or for a message. *)
Stay == On(sched', "mutex") = On(sched, "mutex") /\ On(sched', "queue") = On(sched, "queue")

(* A statement of thread t moves no other thread. *)
Moves(t) ==
  /\ t \in Thread /\ t \in Node /\ Running(t) /\ mode[t] = "run"
  /\ pc' \in [Node -> QueueLabel] /\ pc[t] # "new" /\ pc'[t] # "new"
  /\ \A u \in Node \ {t} : pc'[u] = pc[u] /\ ret'[u] = ret[u]
  /\ UNCHANGED <<tick, cursor>>

(* A statement that neither takes a thread off a list nor enqueues one. *)
Plain(t) == pc[t] \notin Waker \cup Enqueuer /\ pc'[t] \notin Waker \cup Enqueuer

(* What holds whoever has the CPU next: the threads that were off every    *)
(* list, but for the current one, still are.                               *)
Switches ==
  /\ Sane(sched') /\ Off(sched', sched'.current)
  /\ On(sched', "mutex") = On(sched, "mutex")
  /\ On(sched', "queue") = On(sched, "queue")
  /\ \A u \in Thread : Off(sched', u) => u = sched'.current \/ (Off(sched, u) /\ u # sched.current)
  /\ \A u \in Thread : u # sched.current /\ Off(sched, u)
                         => /\ Off(sched', u) /\ u # sched'.current
                            /\ sched'.state[u] = sched.state[u]

(* The step is no tick in Yield or between check_blocked and PopFront, nor *)
(* one on a thread that is on a list.                                      *)
Quiet == ~YieldRace /\ ~ReleaseRace /\ ~ListedRace

(* The statements that leave the thread lists alone. *)
Silent(t) ==
  \/ FetchOr(t) \/ ClearLock(t) \/ CheckBlocked(t) \/ AppendFind(t) \/ AppendLink(t)
  \/ WakeCheck(t) \/ RecvLock(t) \/ RecvTest(t) \/ RecvRelock(t) \/ RecvPeek(t) \/ RecvPop(t)
  \/ PollTest(t) \/ PollRecv(t) \/ SendCall(t) \/ RecvCall(t) \/ PollCall(t)

(* What each of them does to the scheduler's variables. *)
Unseen(t) ==
  /\ sched' = sched /\ mode' = mode /\ target' = target /\ tick' = tick
  /\ cursor' = cursor
  /\ Running(t) /\ mode[t] = "run" /\ Plain(t) /\ pc[t] # "new" /\ pc'[t] # "new"
  /\ Leaving(t)' <=> Leaving(t)
  /\ pc'[t] = "pop_blocked" => sched.list["mutex"].size # 0
  /\ pc'[t] = "wake_pop" => sched.list["queue"].size # 0

=============================================================================
