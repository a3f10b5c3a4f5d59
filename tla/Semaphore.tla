----------------------------- MODULE Semaphore -----------------------------
(***************************************************************************)
(* Semaphore (zion/object/semaphore.cpp) on the preemptive scheduler: its  *)
(* count lock_ and the threads that wait on it, which are on the list      *)
(* "semaphore" (blocked_threads_).  Signal and Wait return to ret[t].      *)
(***************************************************************************)
EXTENDS Scheduler

VARIABLES
  count,   \* lock_, a uint8_t
  ret      \* where the call of Signal or Wait returns to

ASSUME SemaphoreAssumption == "semaphore" \in ListId

semVars == <<count, ret>>

SemInit ==
  /\ count = 0
  /\ ret = [t \in Node |-> "user"]

Call(t, label, return) ==
  /\ Goto(t, label)
  /\ ret' = [ret EXCEPT ![t] = return]

Locals == <<mode, tick, cursor, target>>

-----------------------------------------------------------------------------
(* Signal *)

SignalAdd(t) ==
  /\ At(t, "signal_add")
  /\ count' = (count + 1) % 256
  /\ Goto(t, "signal_check")
  /\ UNCHANGED <<sched, ret, Locals>>

(* Mutants of SignalCheck: no test; the last waiter is not counted. *)
SignalCheckSkips(t) ==
  /\ At(t, "signal_check")
  /\ Goto(t, "signal_pop")
  /\ UNCHANGED <<sched, semVars, Locals>>

SignalCheckOffByOne(t) ==
  /\ At(t, "signal_check")
  /\ Goto(t, IF sched.list["semaphore"].size > 1 THEN "signal_pop" ELSE ret[t])
  /\ UNCHANGED <<sched, semVars, Locals>>

SignalCheck(t) ==
  /\ At(t, "signal_check")
  /\ Goto(t, IF sched.list["semaphore"].size # 0 THEN "signal_pop" ELSE ret[t])
  /\ UNCHANGED <<sched, semVars, Locals>>

SignalPop(t) ==
  /\ At(t, "signal_pop")
  /\ target' = [target EXCEPT ![t] = PeekFront(sched, "semaphore")]
  /\ sched' = PopFront(sched, "semaphore")
  /\ Goto(t, "signal_state")
  /\ UNCHANGED <<semVars, mode, tick, cursor>>

SignalState(t) ==
  /\ At(t, "signal_state")
  /\ sched' = SetState(sched, target[t], "RUNNABLE")
  /\ Goto(t, "signal_enqueue")
  /\ UNCHANGED <<semVars, Locals>>

SignalEnqueue(t) ==
  /\ At(t, "signal_enqueue")
  /\ sched' = Enqueue(sched, target[t])
  /\ target' = [target EXCEPT ![t] = Null]
  /\ mode' = [mode EXCEPT ![t] = EnqueueMode(sched)]
  /\ Goto(t, ret[t])
  /\ UNCHANGED <<semVars, tick, cursor>>

Signal(t) ==
  \/ SignalAdd(t)
  \/ SignalCheck(t)
  \/ SignalPop(t)
  \/ SignalState(t)
  \/ SignalEnqueue(t)

-----------------------------------------------------------------------------
(* Wait *)

WaitTest(t) ==
  /\ At(t, "sem_test")
  /\ Goto(t, IF count = 0 THEN "sem_block" ELSE "sem_take")
  /\ UNCHANGED <<sched, semVars, Locals>>

WaitBlock(t) ==
  /\ At(t, "sem_block")
  /\ sched' = SetState(sched, t, "BLOCKED")
  /\ Goto(t, "sem_push")
  /\ UNCHANGED <<semVars, Locals>>

(* blocked_threads_.PushBack(thread); gScheduler->Yield(); the loop test   *)
(* comes next.                                                             *)
WaitPush(t) ==
  /\ At(t, "sem_push")
  /\ sched' = PushBack(sched, "semaphore", t)
  /\ Goto(t, "sem_test")
  /\ EnterYield(t)
  /\ UNCHANGED <<semVars, tick, cursor, target>>

(* __atomic_fetch_sub, outside the loop and without a new test. *)
WaitTake(t) ==
  /\ At(t, "sem_take")
  /\ count' = (count + 255) % 256
  /\ Goto(t, ret[t])
  /\ UNCHANGED <<sched, ret, Locals>>

Wait(t) == WaitTest(t) \/ WaitBlock(t) \/ WaitPush(t) \/ WaitTake(t)

SemLabel ==
  {"signal_add", "signal_check", "signal_pop", "signal_state",
   "signal_enqueue", "sem_test", "sem_block", "sem_push", "sem_take"}
=============================================================================
