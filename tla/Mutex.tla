------------------------------- MODULE Mutex -------------------------------
(***************************************************************************)
(* Mutex (zion/object/mutex.cpp) on the preemptive scheduler.  A waiter is *)
(* on the list "mutex" (blocked_threads_), whose links are those of the    *)
(* Thread and hence the ones the scheduler's own lists use.                *)
(*                                                                         *)
(* Lock and Release return to the statement ret[t], so that a module that  *)
(* has a mutex extends this one and calls them from its own operations.    *)
(***************************************************************************)
EXTENDS Scheduler

VARIABLES
  lock,   \* lock_
  ret     \* where the call of Lock or Release returns to

vars == <<sched, pc, mode, tick, cursor, target, lock, ret>>

ASSUME MutexAssumption == "mutex" \in ListId

Init ==
  /\ SchedInit
  /\ lock = 0
  /\ ret = [t \in Node |-> "user"]

Locals == <<mode, tick, cursor, target>>

Call(t, label, return) ==
  /\ Goto(t, label)
  /\ ret' = [ret EXCEPT ![t] = return]

-----------------------------------------------------------------------------
(* Mutex::Lock *)

(* __atomic_fetch_or(&lock_, 1) == 1 *)
FetchOr(t) ==
  /\ At(t, "fetch_or")
  /\ lock' = 1
  /\ Goto(t, IF lock = 1 THEN "block" ELSE ret[t])
  /\ UNCHANGED <<sched, ret, Locals>>

Block(t) ==
  /\ At(t, "block")
  /\ sched' = SetState(sched, t, "BLOCKED")
  /\ Goto(t, "push_blocked")
  /\ UNCHANGED <<lock, ret, Locals>>

(* Mutant of PushBlocked: Lock tests with an if instead of a while. *)
PushBlockedOnce(t) ==
  /\ At(t, "push_blocked")
  /\ sched' = PushBack(sched, "mutex", t)
  /\ Goto(t, ret[t])
  /\ EnterYield(t)
  /\ UNCHANGED <<lock, ret, tick, cursor, target>>

(* blocked_threads_.PushBack(thread); gScheduler->Yield(); and, when the   *)
(* thread runs again, the loop condition.                                  *)
PushBlocked(t) ==
  /\ At(t, "push_blocked")
  /\ sched' = PushBack(sched, "mutex", t)
  /\ Goto(t, "fetch_or")
  /\ EnterYield(t)
  /\ UNCHANGED <<lock, ret, tick, cursor, target>>

-----------------------------------------------------------------------------
(* Mutex::Release *)

(* Mutant of ClearLock: the lock word is left set for a waiter. *)
ClearLockUnlessWaited(t) ==
  /\ At(t, "clear_lock")
  /\ lock' = IF sched.list["mutex"].size # 0 THEN lock ELSE 0
  /\ Goto(t, "check_blocked")
  /\ UNCHANGED <<sched, ret, Locals>>

ClearLock(t) ==
  /\ At(t, "clear_lock")
  /\ lock' = 0
  /\ Goto(t, "check_blocked")
  /\ UNCHANGED <<sched, ret, Locals>>

(* Mutant of CheckBlocked: size() > 1. *)
CheckBlockedOffByOne(t) ==
  /\ At(t, "check_blocked")
  /\ Goto(t, IF sched.list["mutex"].size > 1 THEN "pop_blocked" ELSE ret[t])
  /\ UNCHANGED <<sched, lock, ret, Locals>>

CheckBlocked(t) ==
  /\ At(t, "check_blocked")
  /\ Goto(t, IF sched.list["mutex"].size # 0 THEN "pop_blocked" ELSE ret[t])
  /\ UNCHANGED <<sched, lock, ret, Locals>>

PopBlocked(t) ==
  /\ At(t, "pop_blocked")
  /\ target' = [target EXCEPT ![t] = PeekFront(sched, "mutex")]
  /\ sched' = PopFront(sched, "mutex")
  /\ Goto(t, "unblock")
  /\ UNCHANGED <<lock, ret, mode, tick, cursor>>

Unblock(t) ==
  /\ At(t, "unblock")
  /\ sched' = SetState(sched, target[t], "RUNNABLE")
  /\ Goto(t, "enqueue")
  /\ UNCHANGED <<lock, ret, Locals>>

(* Mutant of EnqueueBlocked: the woken thread is not enqueued. *)
EnqueueBlockedForgets(t) ==
  /\ At(t, "enqueue")
  /\ target' = [target EXCEPT ![t] = Null]
  /\ Goto(t, ret[t])
  /\ UNCHANGED <<sched, lock, ret, mode, tick, cursor>>

EnqueueBlocked(t) ==
  /\ At(t, "enqueue")
  /\ sched' = Enqueue(sched, target[t])
  /\ target' = [target EXCEPT ![t] = Null]
  /\ mode' = [mode EXCEPT ![t] = EnqueueMode(sched)]
  /\ Goto(t, ret[t])
  /\ UNCHANGED <<lock, ret, tick, cursor>>

Lock(t) == FetchOr(t) \/ Block(t) \/ PushBlocked(t)

Release(t) ==
  \/ ClearLock(t)
  \/ CheckBlocked(t)
  \/ PopBlocked(t)
  \/ Unblock(t)
  \/ EnqueueBlocked(t)

mutexVars == <<lock, ret>>

-----------------------------------------------------------------------------
(* The statements of Lock and of Release. *)
Locking == {"fetch_or", "block", "push_blocked"}
Releasing == {"clear_lock", "check_blocked", "pop_blocked", "unblock", "enqueue"}

Label == SchedLabel \cup Locking \cup Releasing

(* A thread on its way to taking the mutex or to waking a waiter. *)
OnItsWay(t) ==
  \/ pc[t] \in {"check_blocked", "pop_blocked", "unblock", "enqueue"}
  \/ pc[t] = "fetch_or" /\ t \notin On(sched, "mutex")

(* "Releases the mutex and activates the next thread in the blocked queue  *)
(* if it exists" (mutex.h): when nobody holds the mutex and some thread    *)
(* waits on blocked_threads_, then some thread is about to take the mutex  *)
(* or to wake a waiter.                                                    *)
NoLostWakeup ==
  ~sched.panic /\ lock = 0 /\ sched.list["mutex"].size # 0
    => \E t \in Thread : OnItsWay(t)

(* A waiter runs again, to try once more to take the mutex.                *)
WaiterRunsAgain ==
  \A t \in Thread :
    (t \in On(sched, "mutex")) ~> (sched.state[t] = "RUNNING")
=============================================================================
