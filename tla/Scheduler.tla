----------------------------- MODULE Scheduler -----------------------------
(***************************************************************************)
(* The single-CPU scheduler of the Zion kernel (zion/scheduler/            *)
(* scheduler.cpp) with the thread states it drives (zion/object/           *)
(* thread.cpp) and the APIC timer interrupt that preempts                  *)
(* (zion/interrupt/interrupt.cpp).                                         *)
(*                                                                         *)
(* Only the current thread executes.  Interrupts are enabled again on      *)
(* entry to every system call and every handler, so the timer may arrive   *)
(* between any two statements of kernel code except in the sections        *)
(* between cli and the context switch.  A step of the model is therefore   *)
(* one statement: pc[t] names the statement of a system call that t        *)
(* executes next, mode[t] where t is inside Yield, and tick where the      *)
(* timer handler on top of the current thread is.                          *)
(***************************************************************************)
EXTENDS IntrusiveList, FiniteSets

CONSTANTS
  Idle,        \* sleep_thread_, the boot thread that spins in zion()
  First,       \* the thread that is enqueued at boot
  MaxTicks,    \* bound: the longest sleep, in ticks
  TickAt,      \* the statements at which the timer may arrive
  TickListed   \* may it arrive while the current thread is on a list?

Thread == Node \ {Idle}

ASSUME SchedulerAssumption ==
  /\ Idle \in Node
  /\ First \in Thread
  /\ MaxTicks \in Nat
  /\ TickListed \in BOOLEAN
  /\ {"runnable", "sleeping"} \subseteq ListId

VARIABLES
  sched,   \* Scheduler, every Thread's state_, sleep_ticks_ and links
  pc,      \* the next statement of each thread outside Yield
  mode,    \* "run", or the part of Yield a thread is in
  tick,    \* the part of Preempt the timer handler is in
  cursor,  \* the local `thread` of DecrementSleepingThreads
  target   \* the thread that the call a thread executes acts on

schedVars == <<sched, pc, mode, tick, cursor, target>>

ThreadState ==
  {"CREATED", "RUNNING", "RUNNABLE", "BLOCKED", "SLEEPING", "CLEANUP",
   "FINISHED"}

Sched ==
  [list: [ListId -> Header], next: [Node -> Pointer], prev: [Node -> Pointer],
   state: [Node -> ThreadState], ticks: [Node -> Nat], current: Pointer,
   panic: BOOLEAN]

-----------------------------------------------------------------------------
(* Thread *)

IsDying(s, t) == s.state[t] \in {"CLEANUP", "FINISHED"}

SetState(s, t, st) ==
  IF t = Null \/ IsDying(s, t) THEN Panic(s)
  ELSE [s EXCEPT !.state[t] = st]

(* --sleep_ticks_ == 0; a count of 0 wraps to 2^64 - 1 and never returns.  *)
LastTick(s, t) == s.ticks[t] = 1

DecrementSleepTicks(s, t) ==
  [s EXCEPT !.ticks[t] = IF @ = 0 THEN 0 ELSE @ - 1]

-----------------------------------------------------------------------------
(* Scheduler *)

(* current_thread_ = runnable_threads_.PopFront() *)
TakeNext(s) ==
  [PopFront(s, "runnable") EXCEPT !.current = PeekFront(s, "runnable")]

SwapToCurrent(s) ==
  IF s.current = Null \/ s.state[s.current] # "RUNNABLE"
  THEN Panic(s)
  ELSE SetState(s, s.current, "RUNNING")

(* Mutant of DeadFront: a thread in CLEANUP is not taken for dead. *)
DeadFrontFinished(s) ==
  /\ s.list["runnable"].size # 0
  /\ PeekFront(s, "runnable") # Null
       => s.state[PeekFront(s, "runnable")] = "FINISHED"

(* The condition of the loop of ClearDeadThreadsFromFront: PeekFront is    *)
(* read through as soon as size_ is not 0.                                 *)
DeadFront(s) ==
  /\ s.list["runnable"].size # 0
  /\ PeekFront(s, "runnable") # Null => IsDying(s, PeekFront(s, "runnable"))

ClearDeadFront(s) ==
  IF PeekFront(s, "runnable") = Null THEN Panic(s) ELSE PopFront(s, "runnable")

(* Mutant of PreemptSwap: the preempted thread is put back at the front.   *)
PreemptSwapToFront(s) ==
  IF s.list["runnable"].size = 0
  THEN s
  ELSE SwapToCurrent(TakeNext(
         PushFront(SetState(s, s.current, "RUNNABLE"), "runnable", s.current)))

(* Preempt between its cli and the context switch. *)
PreemptSwap(s) ==
  IF s.list["runnable"].size = 0
  THEN s
  ELSE SwapToCurrent(TakeNext(
         PushBack(SetState(s, s.current, "RUNNABLE"), "runnable", s.current)))

(* Yield between its cli and the context switch. *)
YieldSwap(s) ==
  IF s.list["runnable"].size = 0
  THEN IF s.current = Idle THEN Panic(s)
       ELSE SwapToCurrent([s EXCEPT !.current = Idle])
  ELSE IF s.current = Idle /\ ~IsDying(s, Idle)
       THEN SwapToCurrent(SetState(TakeNext(s), Idle, "RUNNABLE"))
       ELSE SwapToCurrent(TakeNext(s))

(* Enqueue; when it runs on the sleep thread it also yields, which the     *)
(* caller does by entering Yield with EnqueueMode.                         *)
Enqueue(s, t) ==
  IF t = Null THEN Panic(s) ELSE PushBack(s, "runnable", t)

EnqueueMode(s) == IF s.current = Idle THEN "clear" ELSE "run"

-----------------------------------------------------------------------------
(* zion() starts threads while the scheduler is disabled, so that Yield    *)
(* returns at once, ...                                                    *)
BootSched ==
  [list |-> [q \in ListId |-> EmptyHeader],
   next |-> [t \in Node |-> Null],
   prev |-> [t \in Node |-> Null],
   state |-> [t \in Node |-> "CREATED"],
   ticks |-> [t \in Node |-> 0],
   current |-> Idle,
   panic |-> FALSE]

BootStart(s, t) == Enqueue([s EXCEPT !.state[t] = "RUNNABLE"], t)

(* ... enables it, and calls Yield on the boot thread. *)
BootYield ==
  /\ mode = [t \in Node |-> IF t = Idle THEN "clear" ELSE "run"]
  /\ tick = "off"
  /\ cursor = Null
  /\ target = [t \in Node |-> Null]

SchedInit ==
  /\ sched = BootStart(BootSched, First)
  /\ pc = [t \in Node |->
             IF t = Idle THEN "spin" ELSE IF t = First THEN "user" ELSE "new"]
  /\ BootYield

(* The current thread's own code executes, no handler being on top of it. *)
Executing(t) == sched.current = t /\ tick = "off" /\ ~sched.panic

At(t, label) == Executing(t) /\ mode[t] = "run" /\ pc[t] = label

Goto(t, label) == pc' = [pc EXCEPT ![t] = label]

EnterYield(t) == mode' = [mode EXCEPT ![t] = "clear"]

(* interrupt_apic_timer: the handler nests on whatever the current thread  *)
(* executes.  The handler itself is shorter than the 50ms period, so it is *)
(* not interrupted by a second tick.  The code excludes no point: TickAt   *)
(* holds every label and TickListed is TRUE.  Smaller values single out    *)
(* the windows in which a tick does harm.                                  *)
TimerInterrupt ==
  /\ Executing(sched.current)
  /\ (IF mode[sched.current] = "run" THEN pc[sched.current] ELSE "yield")
       \in TickAt
  /\ TickListed \/ \A q \in ListId : sched.current \notin On(sched, q)
  /\ tick' = "decrement"
  /\ cursor' = PeekFront(sched, "sleeping")
  /\ UNCHANGED <<sched, pc, mode, target>>

(* One iteration of the loop of DecrementSleepingThreads. *)
TickDecrement ==
  /\ tick = "decrement"
  /\ ~sched.panic
  /\ IF cursor = Null
     THEN tick' = "clear" /\ UNCHANGED <<sched, cursor>>
     ELSE /\ cursor' = sched.next[cursor]
          /\ LET s == DecrementSleepTicks(sched, cursor)
             IN sched' = IF LastTick(sched, cursor)
                         THEN PushBack(SetState(Remove(s, "sleeping", cursor),
                                                cursor, "RUNNABLE"),
                                       "runnable", cursor)
                         ELSE s
          /\ UNCHANGED tick
  /\ UNCHANGED <<pc, mode, target>>

(* ClearDeadThreadsFromFront in Preempt. *)
TickClear ==
  /\ tick = "clear"
  /\ ~sched.panic
  /\ IF DeadFront(sched)
     THEN sched' = ClearDeadFront(sched) /\ UNCHANGED tick
     ELSE tick' = "swap" /\ UNCHANGED sched
  /\ UNCHANGED <<pc, mode, cursor, target>>

TickSwap ==
  /\ tick = "swap"
  /\ ~sched.panic
  /\ sched' = PreemptSwap(sched)
  /\ tick' = "off"
  /\ UNCHANGED <<pc, mode, cursor, target>>

(* ClearDeadThreadsFromFront in Yield. *)
YieldClear(t) ==
  /\ Executing(t)
  /\ mode[t] = "clear"
  /\ IF DeadFront(sched)
     THEN sched' = ClearDeadFront(sched) /\ UNCHANGED mode
     ELSE mode' = [mode EXCEPT ![t] = "switch"] /\ UNCHANGED sched
  /\ UNCHANGED <<pc, tick, cursor, target>>

(* When t is switched back to, it returns from Yield. *)
YieldSwitch(t) ==
  /\ Executing(t)
  /\ mode[t] = "switch"
  /\ sched' = YieldSwap(sched)
  /\ mode' = [mode EXCEPT ![t] = "run"]
  /\ UNCHANGED <<pc, tick, cursor, target>>

(* Thread::Start, called by a running thread on one it has created. *)
Start(t, u) ==
  /\ At(t, "user")
  /\ pc[u] = "new"
  /\ sched' = [sched EXCEPT !.state[u] = "RUNNABLE"]
  /\ pc' = [pc EXCEPT ![t] = "start_enqueue", ![u] = "user"]
  /\ target' = [target EXCEPT ![t] = u]
  /\ UNCHANGED <<mode, tick, cursor>>

StartEnqueue(t) ==
  /\ At(t, "start_enqueue")
  /\ sched' = Enqueue(sched, target[t])
  /\ mode' = [mode EXCEPT ![t] = EnqueueMode(sched)]
  /\ target' = [target EXCEPT ![t] = Null]
  /\ Goto(t, "user")
  /\ UNCHANGED <<tick, cursor>>

(* Mutant of Sleep: ticks is millis / 50. *)
SleepRoundsDown(t) ==
  /\ At(t, "user")
  /\ \E n \in 0 .. MaxTicks : sched' = [sched EXCEPT !.ticks[t] = n]
  /\ Goto(t, "sleep_state")
  /\ UNCHANGED <<mode, tick, cursor, target>>

(* Sleep: ticks is (millis / 50) + 1. *)
Sleep(t) ==
  /\ At(t, "user")
  /\ \E n \in 1 .. MaxTicks : sched' = [sched EXCEPT !.ticks[t] = n]
  /\ Goto(t, "sleep_state")
  /\ UNCHANGED <<mode, tick, cursor, target>>

SleepState(t) ==
  /\ At(t, "sleep_state")
  /\ sched' = SetState(sched, t, "SLEEPING")
  /\ Goto(t, "sleep_push")
  /\ UNCHANGED <<mode, tick, cursor, target>>

SleepPush(t) ==
  /\ At(t, "sleep_push")
  /\ sched' = PushBack(sched, "sleeping", t)
  /\ Goto(t, "user")
  /\ EnterYield(t)
  /\ UNCHANGED <<tick, cursor, target>>

Preempt == TimerInterrupt \/ TickDecrement \/ TickClear \/ TickSwap

Yield(t) == YieldClear(t) \/ YieldSwitch(t)

ThreadStep(t) ==
  \/ StartEnqueue(t)
  \/ Sleep(t)
  \/ SleepState(t)
  \/ SleepPush(t)
  \/ \E u \in Thread : Start(t, u)

SchedNext ==
  \/ Preempt
  \/ \E t \in Node : Yield(t)
  \/ \E t \in Thread : ThreadStep(t)

SchedSpec == SchedInit /\ [][SchedNext]_schedVars

(* A statement that t is bound to execute once it is on the CPU: anything  *)
(* but a new call.                                                         *)
Statement(t) ==
  \/ Yield(t)
  \/ t \in Thread /\ (StartEnqueue(t) \/ SleepState(t) \/ SleepPush(t))

-----------------------------------------------------------------------------
CoreTypeOK ==
  /\ sched \in Sched
  /\ sched.panic \/ sched.current \in Node
  /\ mode \in [Node -> {"run", "clear", "switch"}]
  /\ tick \in {"off", "decrement", "clear", "swap"}
  /\ cursor \in Pointer
  /\ target \in [Node -> Pointer]

SchedLabel ==
  {"spin", "new", "user", "start_enqueue", "sleep_state", "sleep_push"}

(* The kernel state is well typed, and until it panics the kernel runs     *)
(* some thread.                                                            *)
SchedTypeOK == CoreTypeOK /\ pc \in [Node -> SchedLabel]

(* A thread that another one is starting or waking: off every list until   *)
(* it is enqueued.                                                         *)
InTransit(u) == \E t \in Thread : target[t] = u

(* No thread is lost or duplicated: the links of every list are intact,    *)
(* every started thread that is not running is on exactly one list, and    *)
(* the running thread is not also waiting for the CPU.                     *)
EveryThreadOnOneList ==
  ~sched.panic =>
    /\ \A q \in ListId : WellFormed(sched, q)
    /\ \A t \in Thread \ {sched.current} :
         pc[t] # "new" /\ ~InTransit(t)
           => \E q \in ListId : {r \in ListId : t \in On(sched, r)} = {q}
    /\ sched.current \notin On(sched, "runnable")

(* The scheduler's and the thread's own assertions: it never swaps to a    *)
(* thread that is not RUNNABLE, never yields the sleep thread to nothing,  *)
(* never sets the state of a dying thread, and follows no null pointer.    *)
NoPanic == ~sched.panic

(* A sleeping thread runs again. *)
SleeperRunsAgain ==
  \A t \in Thread :
    (sched.state[t] = "SLEEPING") ~> (sched.state[t] = "RUNNING")

(* A thread that waits for the CPU gets it: Preempt and Yield take turns   *)
(* through runnable_threads_.                                              *)
RunnableGetsCpu ==
  \A t \in Thread :
    (t \in On(sched, "runnable")) ~> (sched.current = t)
=============================================================================
