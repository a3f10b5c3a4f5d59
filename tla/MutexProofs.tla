----------------------------- MODULE MutexProofs -----------------------------
(***************************************************************************)
(* Proofs about Scheduler and Mutex for every set of threads, every set of *)
(* points at which the timer may arrive and any use of the mutex.          *)
(***************************************************************************)
EXTENDS MutexClients, ListProofs, FiniteSetTheorems

(* Thread::SetState keeps the scheduler typed.                             *)
LEMMA SetStateType ==
  ASSUME NEW s \in Sched, NEW t \in Pointer, NEW st \in ThreadState
  PROVE  SetState(s, t, st) \in Sched
<1>1. CASE t = Null \/ IsDying(s, t)
  BY <1>1, PanicType DEF SetState
<1>2. CASE ~(t = Null \/ IsDying(s, t))
  <2>1. t \in Node
    BY <1>2 DEF Pointer
  <2>. DEFINE states == [s.state EXCEPT ![t] = st]
  <2>2. states \in [Node -> ThreadState]
    BY Zenon DEF Sched
  <2>3. SetState(s, t, st) = [s EXCEPT !.state = states]
    BY <1>2 DEF SetState
  <2>. HIDE DEF states
  <2>. QED
    BY <2>2, <2>3 DEF Sched
<1>. QED
  BY <1>1, <1>2

(* Scheduler::CurrentThread is a thread.                                   *)
LEMMA CurrentType ==
  ASSUME NEW s \in Sched, NEW t \in Pointer
  PROVE  [s EXCEPT !.current = t] \in Sched
BY DEF Sched

(* Taking the next runnable thread keeps the scheduler typed.              *)
LEMMA TakeNextType ==
  ASSUME NEW s \in Sched
  PROVE  TakeNext(s) \in Sched
<1>1. PopFront(s, "runnable") \in Sched
  BY PopFrontType, SchedulerAssumption
<1>2. PeekFront(s, "runnable") \in Pointer
  BY HeaderType, SchedulerAssumption DEF PeekFront
<1>. QED
  BY <1>1, <1>2, CurrentType DEF TakeNext

(* After a swap the kernel runs some thread, or it has panicked. *)
LEMMA SwapToCurrentType ==
  ASSUME NEW s \in Sched
  PROVE  /\ SwapToCurrent(s) \in Sched
         /\ SwapToCurrent(s).panic \/ SwapToCurrent(s).current \in Node
<1>. DEFINE r == SwapToCurrent(s)
<1>1. s.current \in Pointer
  BY DEF Sched
<1>2. CASE s.current = Null \/ s.state[s.current] # "RUNNABLE"
  <2>1. r = Panic(s)
    BY <1>2 DEF SwapToCurrent
  <2>2. Panic(s).panic
    BY DEF Panic, Sched
  <2>. QED
    BY <2>1, <2>2, PanicType
<1>3. CASE s.current # Null /\ s.state[s.current] = "RUNNABLE"
  <2>1. r = [s EXCEPT !.state[s.current] = "RUNNING"]
    BY <1>3 DEF SwapToCurrent, SetState, IsDying
  <2>2. r = SetState(s, s.current, "RUNNING")
    BY <1>3 DEF SwapToCurrent
  <2>3. r \in Sched
    BY <1>1, <2>2, SetStateType DEF ThreadState
  <2>4. r.current = s.current
    BY <2>1 DEF Sched
  <2>. QED
    BY <1>1, <1>3, <2>3, <2>4 DEF Pointer
<1>. QED
  BY <1>2, <1>3

(* The list and state operations leave current_thread_ alone. *)
LEMMA SameCurrent ==
  ASSUME NEW s \in Sched, NEW q \in ListId
  PROVE  /\ Panic(s).current = s.current
         /\ PopFront(s, q).current = s.current
         /\ \A x \in Node : PushFront(s, q, x).current = s.current
         /\ \A x \in Node : PushBack(s, q, x).current = s.current
         /\ \A x \in Node : Remove(s, q, x).current = s.current
         /\ \A t \in Pointer, st \in ThreadState :
              SetState(s, t, st).current = s.current
<1>1. Panic(s).current = s.current
  BY DEF Panic, Sched
<1>2. PopFront(s, q).current = s.current
  BY <1>1 DEF PopFront, Sched
<1>3. \A x \in Node : PushFront(s, q, x).current = s.current
  BY DEF PushFront, Sched
<1>4. \A x \in Node : PushBack(s, q, x).current = s.current
  BY <1>1, <1>3, Zenon DEF PushBack, Sched
<1>5. \A x \in Node : Remove(s, q, x).current = s.current
  BY DEF Remove, Sched
<1>6. \A t \in Pointer, st \in ThreadState :
        SetState(s, t, st).current = s.current
  BY <1>1 DEF SetState, Sched
<1>. QED
  BY <1>1, <1>2, <1>3, <1>4, <1>5, <1>6

(* The swap of Preempt keeps the scheduler typed.                          *)
LEMMA PreemptSwapType ==
  ASSUME NEW s \in Sched, s.current \in Node
  PROVE  /\ PreemptSwap(s) \in Sched
         /\ PreemptSwap(s).panic \/ PreemptSwap(s).current \in Node
<1>. DEFINE a == SetState(s, s.current, "RUNNABLE")
            b == PushBack(a, "runnable", s.current)
<1>1. CASE s.list["runnable"].size = 0
  BY <1>1 DEF PreemptSwap
<1>2. CASE s.list["runnable"].size # 0
  <2>1. a \in Sched
    BY SetStateType DEF ThreadState, Pointer
  <2>2. b \in Sched
    BY <2>1, PushBackType, SchedulerAssumption
  <2>3. TakeNext(b) \in Sched
    BY <2>2, TakeNextType
  <2>4. PreemptSwap(s) = SwapToCurrent(TakeNext(b))
    BY <1>2 DEF PreemptSwap
  <2>. QED
    BY <2>3, <2>4, SwapToCurrentType
<1>. QED
  BY <1>1, <1>2

(* The swap of Yield keeps the scheduler typed.                            *)
LEMMA YieldSwapType ==
  ASSUME NEW s \in Sched
  PROVE  /\ YieldSwap(s) \in Sched
         /\ YieldSwap(s).panic \/ YieldSwap(s).current \in Node
<1>1. Idle \in Pointer /\ Idle \in Node
  BY SchedulerAssumption DEF Pointer
<1>2. TakeNext(s) \in Sched
  BY TakeNextType
<1>3. CASE s.list["runnable"].size = 0 /\ s.current = Idle
  <2>1. YieldSwap(s) = Panic(s)
    BY <1>3 DEF YieldSwap
  <2>2. Panic(s).panic
    BY DEF Panic, Sched
  <2>. QED
    BY <2>1, <2>2, PanicType
<1>4. CASE s.list["runnable"].size = 0 /\ s.current # Idle
  <2>1. YieldSwap(s) = SwapToCurrent([s EXCEPT !.current = Idle])
    BY <1>4 DEF YieldSwap
  <2>2. [s EXCEPT !.current = Idle] \in Sched
    BY <1>1, CurrentType
  <2>. QED
    BY <2>1, <2>2, SwapToCurrentType
<1>5. CASE s.list["runnable"].size # 0 /\ s.current = Idle /\ ~IsDying(s, Idle)
  <2>1. YieldSwap(s) = SwapToCurrent(SetState(TakeNext(s), Idle, "RUNNABLE"))
    BY <1>5 DEF YieldSwap
  <2>2. SetState(TakeNext(s), Idle, "RUNNABLE") \in Sched
    BY <1>1, <1>2, SetStateType DEF ThreadState
  <2>. QED
    BY <2>1, <2>2, SwapToCurrentType
<1>6. CASE /\ s.list["runnable"].size # 0
           /\ ~(s.current = Idle /\ ~IsDying(s, Idle))
  <2>1. YieldSwap(s) = SwapToCurrent(TakeNext(s))
    BY <1>6 DEF YieldSwap
  <2>. QED
    BY <1>2, <2>1, SwapToCurrentType
<1>. QED
  BY <1>3, <1>4, <1>5, <1>6

(* Dropping the dead threads at the front keeps the scheduler typed.       *)
LEMMA ClearDeadFrontType ==
  ASSUME NEW s \in Sched
  PROVE  /\ ClearDeadFront(s) \in Sched
         /\ ClearDeadFront(s).current = s.current
BY PanicType, PopFrontType, SameCurrent, SchedulerAssumption, Zenon DEF ClearDeadFront

(* Scheduler::Enqueue keeps the scheduler typed.                           *)
LEMMA EnqueueType ==
  ASSUME NEW s \in Sched, NEW t \in Pointer
  PROVE  /\ Enqueue(s, t) \in Sched
         /\ Enqueue(s, t).current = s.current
         /\ EnqueueMode(s) \in {"run", "clear", "switch"}
<1>1. EnqueueMode(s) \in {"run", "clear", "switch"}
  BY DEF EnqueueMode
<1>2. "runnable" \in ListId
  BY SchedulerAssumption
<1>3. CASE t = Null
  BY <1>1, <1>2, <1>3, PanicType, SameCurrent DEF Enqueue
<1>4. CASE t # Null
  <2>1. t \in Node
    BY <1>4 DEF Pointer
  <2>. QED
    BY <1>1, <1>2, <1>4, <2>1, PushBackType, SameCurrent DEF Enqueue
<1>. QED
  BY <1>3, <1>4

(* The remaining ticks of a sleeper are a number.                          *)
LEMMA TicksType ==
  ASSUME NEW s \in Sched, NEW t \in Node, NEW n \in Nat
  PROVE  /\ [s EXCEPT !.ticks[t] = n] \in Sched
         /\ [s EXCEPT !.ticks[t] = n].current = s.current
         /\ [s EXCEPT !.ticks[t] = n].panic = s.panic
<1>. DEFINE ts == [s.ticks EXCEPT ![t] = n]
<1>1. ts \in [Node -> Nat]
  BY DEF Sched
<1>2. [s EXCEPT !.ticks[t] = n] = [s EXCEPT !.ticks = ts]
  OBVIOUS
<1>. HIDE DEF ts
<1>. QED
  BY <1>1, <1>2 DEF Sched

(* Counting one sleeper down keeps the scheduler typed.                    *)
LEMMA DecrementType ==
  ASSUME NEW s \in Sched, NEW t \in Node
  PROVE  /\ DecrementSleepTicks(s, t) \in Sched
         /\ DecrementSleepTicks(s, t).current = s.current
<1>. DEFINE n == IF s.ticks[t] = 0 THEN 0 ELSE s.ticks[t] - 1
<1>1. n \in Nat
  BY DEF Sched
<1>2. DecrementSleepTicks(s, t) = [s EXCEPT !.ticks[t] = n]
  BY DEF DecrementSleepTicks
<1>. HIDE DEF n
<1>. QED
  BY <1>1, <1>2, TicksType

(* The timer's walk of the sleep queue keeps the scheduler typed.          *)
LEMMA TickDecrementType ==
  ASSUME CoreTypeOK, TickDecrement
  PROVE  CoreTypeOK'
<1>1. UNCHANGED <<mode, target>> /\ sched \in Sched /\ sched.current \in Node
  BY DEF CoreTypeOK, TickDecrement
<1>2. CASE cursor = Null
  BY <1>2 DEF CoreTypeOK, TickDecrement
<1>3. CASE cursor # Null
  <2>. DEFINE s == DecrementSleepTicks(sched, cursor)
              r == Remove(s, "sleeping", cursor)
              w == SetState(r, cursor, "RUNNABLE")
  <2>1. cursor \in Node
    BY <1>3 DEF CoreTypeOK, Pointer
  <2>2. s \in Sched /\ s.current = sched.current
    BY <1>1, <2>1, DecrementType
  <2>3. "sleeping" \in ListId /\ "runnable" \in ListId
    BY SchedulerAssumption
  <2>4. r \in Sched /\ r.current = sched.current
    <3>. HIDE DEF s
    <3>. QED
      BY <2>1, <2>2, <2>3, RemoveType, SameCurrent
  <2>5. w \in Sched /\ w.current = sched.current
    <3>. HIDE DEF r
    <3>. QED
      BY <2>1, <2>3, <2>4, SetStateType, SameCurrent DEF ThreadState, Pointer
  <2>6. /\ PushBack(w, "runnable", cursor) \in Sched
        /\ PushBack(w, "runnable", cursor).current = sched.current
    <3>. HIDE DEF w
    <3>. QED
      BY <2>1, <2>3, <2>5, PushBackType, SameCurrent
  <2>7. sched' \in Sched /\ sched'.current \in Node
    BY <1>1, <1>3, <2>2, <2>6 DEF TickDecrement
  <2>8. cursor' \in Pointer
    BY <1>1, <1>3, <2>1 DEF TickDecrement, Sched
  <2>. QED
    BY <1>1, <1>3, <2>7, <2>8 DEF CoreTypeOK, TickDecrement
<1>. QED
  BY <1>2, <1>3

(* Scheduler::Preempt keeps the state typed.                               *)
LEMMA PreemptType ==
  ASSUME CoreTypeOK, Preempt
  PROVE  CoreTypeOK'
<1>1. CASE TimerInterrupt
  <2>1. PeekFront(sched, "sleeping") \in Pointer
    BY HeaderType, SchedulerAssumption DEF PeekFront, CoreTypeOK
  <2>. QED
    BY <1>1, <2>1 DEF CoreTypeOK, TimerInterrupt
<1>2. CASE TickDecrement
  BY <1>2, TickDecrementType
<1>3. CASE TickClear
  <2>1. ClearDeadFront(sched) \in Sched
        /\ ClearDeadFront(sched).current = sched.current
    BY ClearDeadFrontType DEF CoreTypeOK
  <2>. QED
    BY <1>3, <2>1 DEF CoreTypeOK, TickClear
<1>4. CASE TickSwap
  <2>1. sched \in Sched /\ sched.current \in Node
    BY <1>4 DEF CoreTypeOK, TickSwap
  <2>2. sched' \in Sched /\ (sched'.panic \/ sched'.current \in Node)
    BY <1>4, <2>1, PreemptSwapType DEF TickSwap
  <2>. QED
    BY <1>4, <2>2 DEF CoreTypeOK, TickSwap
<1>. QED
  BY <1>1, <1>2, <1>3, <1>4 DEF Preempt

(* Scheduler::Yield keeps the state typed.                                 *)
LEMMA YieldType ==
  ASSUME CoreTypeOK, NEW t \in Node, Yield(t)
  PROVE  CoreTypeOK'
<1>1. CASE YieldClear(t)
  <2>1. ClearDeadFront(sched) \in Sched
        /\ ClearDeadFront(sched).current = sched.current
    BY ClearDeadFrontType DEF CoreTypeOK
  <2>. QED
    BY <1>1, <2>1 DEF CoreTypeOK, YieldClear, Executing
<1>2. CASE YieldSwitch(t)
  <2>1. sched' \in Sched /\ (sched'.panic \/ sched'.current \in Node)
    BY <1>2, YieldSwapType DEF YieldSwitch, CoreTypeOK
  <2>. QED
    BY <1>2, <2>1 DEF CoreTypeOK, YieldSwitch
<1>. QED
  BY <1>1, <1>2 DEF Yield

(* Every statement of a thread keeps the state typed.                      *)
LEMMA ThreadStepType ==
  ASSUME CoreTypeOK, NEW t \in Thread, ThreadStep(t)
  PROVE  CoreTypeOK'
<1>. t \in Node
  BY DEF Thread
<1>1. CASE StartEnqueue(t)
  <2>1. target[t] \in Pointer
    BY DEF CoreTypeOK
  <2>2. /\ Enqueue(sched, target[t]) \in Sched
        /\ Enqueue(sched, target[t]).current = sched.current
        /\ EnqueueMode(sched) \in {"run", "clear", "switch"}
    BY <2>1, EnqueueType DEF CoreTypeOK
  <2>. QED
    BY <1>1, <2>2 DEF CoreTypeOK, StartEnqueue, At, Executing, Pointer
<1>2. CASE Sleep(t)
  <2>1. PICK n \in 1 .. MaxTicks : sched' = [sched EXCEPT !.ticks[t] = n]
    BY <1>2 DEF Sleep
  <2>2. n \in Nat
    BY SchedulerAssumption
  <2>3. sched' \in Sched /\ sched'.current = sched.current
    BY <2>1, <2>2, TicksType DEF CoreTypeOK
  <2>. QED
    BY <1>2, <2>3 DEF CoreTypeOK, Sleep, At, Executing
<1>3. CASE SleepState(t)
  <2>1. /\ SetState(sched, t, "SLEEPING") \in Sched
        /\ SetState(sched, t, "SLEEPING").current = sched.current
    BY SetStateType, SameCurrent, SchedulerAssumption
       DEF CoreTypeOK, ThreadState, Pointer
  <2>. QED
    BY <1>3, <2>1 DEF CoreTypeOK, SleepState, At, Executing
<1>4. CASE SleepPush(t)
  <2>1. /\ PushBack(sched, "sleeping", t) \in Sched
        /\ PushBack(sched, "sleeping", t).current = sched.current
    BY PushBackType, SameCurrent, SchedulerAssumption DEF CoreTypeOK
  <2>. QED
    BY <1>4, <2>1 DEF CoreTypeOK, SleepPush, At, Executing, EnterYield
<1>5. CASE \E u \in Thread : Start(t, u)
  <2>1. PICK u \in Thread : Start(t, u)
    BY <1>5
  <2>2. u \in Node
    BY DEF Thread
  <2>. DEFINE states == [sched.state EXCEPT ![u] = "RUNNABLE"]
  <2>3. states \in [Node -> ThreadState]
    BY Zenon DEF CoreTypeOK, Sched, ThreadState
  <2>4. sched' = [sched EXCEPT !.state = states]
    BY <2>1 DEF Start
  <2>5. sched' \in Sched /\ sched'.current = sched.current
    <3>. HIDE DEF states
    <3>. QED
      BY <2>3, <2>4 DEF CoreTypeOK, Sched
  <2>. QED
    BY <2>1, <2>2, <2>5 DEF CoreTypeOK, Start, At, Executing, Pointer
<1>. QED
  BY <1>1, <1>2, <1>3, <1>4, <1>5 DEF ThreadStep

(* Every step of the scheduler keeps the state typed.                      *)
LEMMA SchedNextType == CoreTypeOK /\ SchedNext => CoreTypeOK'
BY PreemptType, YieldType, ThreadStepType DEF SchedNext

(* So is the first thread switch.                                          *)
LEMMA BootStartType ==
  /\ BootStart(BootSched, First) \in Sched
  /\ BootStart(BootSched, First).current = Idle
<1>. DEFINE boot == SetState(BootSched, First, "RUNNABLE")
<1>1. First \in Node /\ First \in Pointer /\ First # Null
  BY SchedulerAssumption, NullAssumption DEF Thread, Pointer
<1>2. boot = [BootSched EXCEPT !.state[First] = "RUNNABLE"]
  BY <1>1, BootSchedType DEF SetState
<1>3. boot \in Sched
  BY <1>1, BootSchedType, SetStateType DEF ThreadState
<1>4. boot.current = Idle
  BY <1>2, BootSchedType DEF Sched
<1>5. BootStart(BootSched, First) = Enqueue(boot, First)
  BY <1>2 DEF BootStart
<1>. HIDE DEF boot
<1>. QED
  BY <1>1, <1>3, <1>4, <1>5, EnqueueType

(* The initial states are typed.                                           *)
LEMMA SchedInitType == SchedInit => CoreTypeOK
<1>. SUFFICES ASSUME SchedInit PROVE CoreTypeOK
  OBVIOUS
<1>1. Idle \in Node
  BY SchedulerAssumption
<1>2. sched \in Sched /\ sched.current \in Node
  BY <1>1, BootStartType DEF SchedInit
<1>. QED
  BY <1>1, <1>2 DEF SchedInit, BootYield, CoreTypeOK, Pointer

(* Type correctness of the scheduler: for any number of threads and any    *)
(* arrival of the timer, the lists, links and thread states stay well      *)
(* typed, and until the kernel panics some thread is current.              *)
THEOREM SchedTypeCorrect == SchedSpec => []SchedTypeOK
<1>1. SchedInit => SchedTypeOK
  <2>1. SchedInit => pc \in [Node -> SchedLabel]
    BY DEF SchedInit, SchedLabel
  <2>. QED
    BY <2>1, SchedInitType DEF SchedTypeOK
<1>2. SchedTypeOK /\ [SchedNext]_schedVars => SchedTypeOK'
  <2>. SUFFICES ASSUME SchedTypeOK, [SchedNext]_schedVars
                PROVE  SchedTypeOK'
    OBVIOUS
  <2>1. CASE SchedNext
    <3>1. CoreTypeOK'
      BY <2>1, SchedNextType DEF SchedTypeOK
    <3>2. pc' \in [Node -> SchedLabel]
      BY <2>1, Zenon DEF SchedTypeOK, SchedLabel, SchedNext, Preempt, TimerInterrupt,
         TickDecrement, TickClear, TickSwap, Yield, YieldClear, YieldSwitch,
         ThreadStep, StartEnqueue, Sleep, SleepState, SleepPush, Start, Goto
    <3>. QED
      BY <3>1, <3>2 DEF SchedTypeOK
  <2>2. CASE UNCHANGED schedVars
    BY <2>2 DEF SchedTypeOK, CoreTypeOK, schedVars
  <2>. QED
    BY <2>1, <2>2
<1>. QED
  BY <1>1, <1>2, PTL DEF SchedSpec

(* Steps of Lock and Release keep the scheduler's state well typed. *)
LEMMA MutexStepType ==
  ASSUME CoreTypeOK, NEW t \in Thread, ClientStep(t)
  PROVE  CoreTypeOK'
<1>. t \in Node /\ t \in Pointer
  BY DEF Thread, Pointer
<1>. "mutex" \in ListId
  BY MutexAssumption
<1>1. CASE LockCall(t) \/ FetchOr(t) \/ ReleaseCall(t) \/ ClearLock(t)
           \/ CheckBlocked(t)
  BY <1>1 DEF CoreTypeOK, LockCall, FetchOr, ReleaseCall, ClearLock,
     CheckBlocked, Call, Locals
<1>2. CASE Block(t)
  <2>1. /\ SetState(sched, t, "BLOCKED") \in Sched
        /\ SetState(sched, t, "BLOCKED").current = sched.current
    BY SetStateType, SameCurrent, Zenon DEF CoreTypeOK, ThreadState
  <2>. QED
    BY <1>2, <2>1 DEF CoreTypeOK, Block, Locals, At, Executing
<1>3. CASE PushBlocked(t)
  <2>1. /\ PushBack(sched, "mutex", t) \in Sched
        /\ PushBack(sched, "mutex", t).current = sched.current
    BY PushBackType, SameCurrent DEF CoreTypeOK
  <2>. QED
    BY <1>3, <2>1 DEF CoreTypeOK, PushBlocked, At, Executing, EnterYield
<1>4. CASE PopBlocked(t)
  <2>1. /\ PopFront(sched, "mutex") \in Sched
        /\ PopFront(sched, "mutex").current = sched.current
    BY PopFrontType, SameCurrent DEF CoreTypeOK
  <2>2. PeekFront(sched, "mutex") \in Pointer
    BY HeaderType DEF CoreTypeOK, PeekFront
  <2>. QED
    BY <1>4, <2>1, <2>2 DEF CoreTypeOK, PopBlocked, At, Executing
<1>5. CASE Unblock(t)
  <2>1. target[t] \in Pointer
    BY DEF CoreTypeOK
  <2>2. /\ SetState(sched, target[t], "RUNNABLE") \in Sched
        /\ SetState(sched, target[t], "RUNNABLE").current = sched.current
    BY <2>1, SetStateType, SameCurrent DEF CoreTypeOK, ThreadState
  <2>. QED
    BY <1>5, <2>2 DEF CoreTypeOK, Unblock, Locals, At, Executing
<1>6. CASE EnqueueBlocked(t)
  <2>1. target[t] \in Pointer
    BY DEF CoreTypeOK
  <2>2. /\ Enqueue(sched, target[t]) \in Sched
        /\ Enqueue(sched, target[t]).current = sched.current
        /\ EnqueueMode(sched) \in {"run", "clear", "switch"}
    BY <2>1, EnqueueType DEF CoreTypeOK
  <2>. QED
    BY <1>6, <2>2, Zenon DEF CoreTypeOK, EnqueueBlocked, At, Executing, Pointer
<1>. QED
  BY <1>1, <1>2, <1>3, <1>4, <1>5, <1>6 DEF ClientStep, LockStep, ClearStep, Lock

(* Lock and Release, preempted anywhere and called in any order, keep the  *)
(* kernel state well typed.                                                *)
THEOREM TypeCorrect == ClientSpec => []TypeOK
<1>1. ClientInit => TypeOK
  <2>1. ClientInit => pc \in [Node -> Label]
    BY DEF ClientInit, Init, SchedInit, Label, SchedLabel
  <2>. QED
    BY <2>1, SchedInitType DEF ClientInit, Init, TypeOK
<1>2. TypeOK /\ [ClientNext]_clientVars => TypeOK'
  <2>. SUFFICES ASSUME TypeOK, [ClientNext]_clientVars
                PROVE  TypeOK'
    OBVIOUS
  <2>1. CASE SchedNext /\ UNCHANGED <<mutexVars, history>>
    <3>1. CoreTypeOK'
      BY <2>1, SchedNextType DEF TypeOK
    <3>2. pc' \in [Node -> Label]
      BY <2>1 DEF TypeOK, Label, SchedLabel, SchedNext, Preempt,
         TimerInterrupt, TickDecrement, TickClear, TickSwap, Yield, YieldClear,
         YieldSwitch, ThreadStep, StartEnqueue, Sleep, SleepState, SleepPush,
         Start, Goto
    <3>. QED
      BY <2>1, <3>1, <3>2 DEF TypeOK, mutexVars, history
  <2>2. CASE \E t \in Thread : ClientStep(t)
    <3>1. PICK t \in Thread : ClientStep(t)
      BY <2>2
    <3>2. CoreTypeOK'
      BY <3>1, MutexStepType DEF TypeOK
    <3>3. /\ pc' \in [Node -> Label]
          /\ lock' \in {0, 1}
          /\ ret' \in [Node -> {"user"}]
      BY <3>1 DEF TypeOK, Label, SchedLabel, Locking, Releasing, ClientStep, LockStep, ClearStep, Lock,
         LockCall, FetchOr, Block, PushBlocked, ReleaseCall, ClearLock, CheckBlocked,
         PopBlocked, Unblock, EnqueueBlocked, Goto, Call
    <3>4. holders' \subseteq Thread /\ strays' \in Nat
      BY <3>1 DEF TypeOK, ClientStep, LockStep, ClearStep, history
    <3>. QED
      BY <3>2, <3>3, <3>4 DEF TypeOK
  <2>3. CASE UNCHANGED clientVars
    BY <2>3 DEF TypeOK, CoreTypeOK, clientVars, vars, history
  <2>. QED
    BY <2>1, <2>2, <2>3 DEF ClientNext
<1>. QED
  BY <1>1, <1>2, PTL DEF ClientSpec

-----------------------------------------------------------------------------
(* Mutual exclusion is not inductive: a second fetch_or must be known to   *)
(* see the lock word set. The invariant therefore counts: every holder is  *)
(* accounted for by the lock word or by a stray release, and the lock word *)
(* is set by a holder.                                                     *)
LockInv ==
  /\ IsFiniteSet(holders)
  /\ Cardinality(holders) <= lock + strays
  /\ lock = 1 => holders # {}

(* What a step does to the holders, to the count of stray releases and to  *)
(* the lock word.                                                          *)
LEMMA HolderStep ==
  ASSUME TypeOK, [ClientNext]_clientVars
  PROVE  \/ lock' = lock /\ holders' = holders /\ strays' = strays
         \/ \E t \in Thread :
              lock = 0 /\ lock' = 1 /\ holders' = holders \cup {t} /\ strays' = strays
         \/ \E t \in Thread :
              /\ lock' = 0 /\ holders' = holders \ {t}
              /\ strays' = IF t \in holders THEN strays ELSE strays + 1
<1>1. CASE SchedNext /\ UNCHANGED <<mutexVars, history>>
  BY <1>1 DEF mutexVars, history
<1>2. ASSUME NEW t \in Thread, LockStep(t)
      PROVE  \/ lock' = lock /\ holders' = holders /\ strays' = strays
             \/ lock = 0 /\ lock' = 1 /\ holders' = holders \cup {t} /\ strays' = strays
  <2>. t \in Node
    BY DEF Thread
  <2>1. CASE FetchOr(t) /\ lock = 0
    BY <1>2, <2>1, Zenon DEF TypeOK, LockStep, FetchOr, Goto
  <2>2. CASE FetchOr(t) /\ lock = 1
    <3>1. pc'[t] = "block"
      BY <2>2, Zenon DEF TypeOK, FetchOr, Goto
    <3>. QED
      BY <1>2, <2>2, <3>1 DEF LockStep, FetchOr
  <2>3. CASE Block(t)
    <3>1. pc'[t] = "push_blocked"
      BY <2>3, Zenon DEF TypeOK, Block, Goto
    <3>. QED
      BY <1>2, <2>3, <3>1 DEF LockStep, Block
  <2>4. CASE PushBlocked(t)
    <3>1. pc'[t] = "fetch_or"
      BY <2>4, Zenon DEF TypeOK, PushBlocked, Goto
    <3>. QED
      BY <1>2, <2>4, <3>1 DEF LockStep, PushBlocked
  <2>. QED
    BY <1>2, <2>1, <2>2, <2>3, <2>4, Zenon DEF LockStep, Lock, TypeOK
<1>3. ASSUME NEW t \in Thread, ClearStep(t)
      PROVE  /\ lock' = 0 /\ holders' = holders \ {t}
             /\ strays' = IF t \in holders THEN strays ELSE strays + 1
  BY <1>3, Zenon DEF ClearStep, ClearLock
<1>4. ASSUME NEW t \in Thread,
             LockCall(t) \/ ReleaseCall(t) \/ CheckBlocked(t) \/ PopBlocked(t)
               \/ Unblock(t) \/ EnqueueBlocked(t),
             UNCHANGED history
      PROVE  lock' = lock /\ holders' = holders /\ strays' = strays
  BY <1>4, Zenon DEF LockCall, ReleaseCall, CheckBlocked, PopBlocked, Unblock,
     EnqueueBlocked, history
<1>5. CASE UNCHANGED clientVars
  BY <1>5 DEF clientVars, vars, history
<1>. QED
  BY <1>1, <1>2, <1>3, <1>4, <1>5, Zenon DEF ClientNext, ClientStep

(* Every step keeps the count. *)
LEMMA LockInvNext == TypeOK /\ LockInv /\ [ClientNext]_clientVars => LockInv'
<1>. SUFFICES ASSUME TypeOK, LockInv, [ClientNext]_clientVars
              PROVE  LockInv'
  OBVIOUS
<1>1. lock \in {0, 1} /\ strays \in Nat /\ Cardinality(holders) \in Nat
  BY FS_CardinalityType DEF TypeOK, LockInv
<1>2. CASE lock' = lock /\ holders' = holders /\ strays' = strays
  BY <1>2 DEF LockInv
<1>3. ASSUME NEW t \in Thread,
             lock = 0, lock' = 1, holders' = holders \cup {t}, strays' = strays
      PROVE  LockInv'
  <2>1. /\ IsFiniteSet(holders')
        /\ Cardinality(holders') <= Cardinality(holders) + 1
    BY <1>1, <1>3, FS_AddElement DEF LockInv
  <2>2. Cardinality(holders') \in Nat /\ holders' # {}
    BY <1>3, <2>1, FS_CardinalityType
  <2>. QED
    BY <1>1, <1>3, <2>1, <2>2 DEF LockInv
<1>4. ASSUME NEW t \in Thread, lock' = 0, holders' = holders \ {t},
             strays' = IF t \in holders THEN strays ELSE strays + 1
      PROVE  LockInv'
  <2>1. /\ IsFiniteSet(holders')
        /\ Cardinality(holders')
             = IF t \in holders THEN Cardinality(holders) - 1 ELSE Cardinality(holders)
    BY <1>4, FS_RemoveElement DEF LockInv
  <2>. QED
    BY <1>1, <1>4, <2>1 DEF LockInv
<1>. QED
  BY <1>2, <1>3, <1>4, HolderStep

(* The count is right of a free mutex, and hence always. *)
LEMMA LockInvAlways == ClientSpec => []LockInv
<1>1. ClientInit => LockInv
  BY FS_EmptySet DEF ClientInit, Init, LockInv
<1>. QED
  BY <1>1, LockInvNext, TypeCorrect, PTL DEF ClientSpec

(* At most one thread is between Lock and Release unless a thread released *)
(* a mutex it did not have, and each such release lets in at most one      *)
(* more: for any number of threads, wherever the timer preempts them.      *)
THEOREM MutexExcludes == ClientSpec => []MutualExclusion
<1>1. TypeOK /\ LockInv => MutualExclusion
  BY FS_CardinalityType DEF LockInv, MutualExclusion, TypeOK
<1>. QED
  BY <1>1, LockInvAlways, TypeCorrect, PTL

(* The lock word is set only while a thread has the mutex, and all that    *)
(* time unless there was a stray release.                                  *)
THEOREM LockWordCorrect == ClientSpec => []LockWord
<1>1. TypeOK /\ LockInv => LockWord
  <2>. SUFFICES ASSUME TypeOK, LockInv, strays = 0, holders # {}
                PROVE  lock = 1
    BY DEF LockWord, LockInv
  <2>1. Cardinality(holders) \in Nat /\ Cardinality(holders) # 0
    BY FS_CardinalityType, FS_EmptySet DEF LockInv
  <2>. QED
    BY <2>1 DEF TypeOK, LockInv
<1>. QED
  BY <1>1, LockInvAlways, TypeCorrect, PTL
=============================================================================
