----------------------------- MODULE Lifecycle -----------------------------
(***************************************************************************)
(* The end of threads and processes: Thread::Exit, Wait and Cleanup        *)
(* (zion/object/thread.cpp), Process::CreateThread, Exit and Cleanup       *)
(* (zion/object/process.cpp), and the cleanup thread of the kernel process *)
(* (zion/scheduler/cleanup.cpp), which takes its work from two lists and   *)
(* sleeps on a semaphore.                                                  *)
(*                                                                         *)
(* The list named by a thread is its blocked_threads_, the threads that    *)
(* wait for it to end.  The lists of the cleanup thread are LinkedLists    *)
(* that no lock protects; every operation on one is a step.                *)
(***************************************************************************)
EXTENDS Semaphore, Sequences

CONSTANTS
  Process,        \* the user processes
  ProcessOf,      \* the process each user thread is created in
  Cleaner,        \* the cleanup thread
  Sleeper,        \* the threads that call ThreadSleep,
  Joiner,         \* ... ThreadWait or ProcessWait,
  ThreadExiter,   \* ... ThreadExit,
  ProcessExiter,  \* ... and ProcessExit
  TickDying       \* may the timer arrive while a dying thread is current?

User == Thread \ {Cleaner}

ASSUME LifecycleAssumption ==
  /\ Cleaner \in Thread \ {First}
  /\ ProcessOf \in [User -> Process]
  /\ Thread \subseteq ListId
  /\ Sleeper \cup Joiner \cup ThreadExiter \cup ProcessExiter \subseteq User
  /\ TickDying \in BOOLEAN

VARIABLES
  threads,       \* threads_ of each process
  exited,        \* state_ of each process
  vmas,          \* the processes whose vmas_ is not null
  stack,         \* the threads that hold a user stack
  processList,   \* process_list_ of the cleanup thread
  threadList,    \* thread_list_ of the cleanup thread
  job,           \* the thread a thread waits for or cleans up
  process,       \* the local proc of CleanupLoop
  todo,          \* what is left of a loop over threads_
  freed,         \* how often each thread's user stack was freed
  late           \* the threads created or started after their process exited

lifeVars ==
  <<threads, exited, vmas, stack, processList, threadList, job, process, todo,
    freed, late>>

allVars == <<schedVars, semVars, lifeVars>>

(* zion() has started the cleanup thread and the first user thread. *)
LifeInit ==
  /\ sched = BootStart(BootStart(BootSched, Cleaner), First)
  /\ pc = [t \in Node |-> CASE t = Idle -> "spin"
                             [] t = Cleaner -> "clean_test"
                             [] t = First -> "init"
                             [] OTHER -> "none"]
  /\ BootYield
  /\ SemInit
  /\ threads = [p \in Process |-> IF p = ProcessOf[First] THEN <<First>> ELSE <<>>]
  /\ exited = [p \in Process |-> "RUNNING"]
  /\ vmas = Process
  /\ stack = {}
  /\ processList = <<>>
  /\ threadList = <<>>
  /\ job = [t \in Node |-> Null]
  /\ process = Null
  /\ todo = [t \in Node |-> <<>>]
  /\ freed = [t \in User |-> 0]
  /\ late = {}

-----------------------------------------------------------------------------
(* The life of a thread.  A thread may be created in another process, as   *)
(* the loader does for a process that it has spawned.                      *)

(* "TODO: Check this state elsewhere to ensure that we don't for instance  *)
(* create a running thread on a finished process." (Process::Exit)         *)
NoteLate(u) ==
  late' = IF exited[ProcessOf[u]] = "RUNNING" THEN late ELSE late \cup {u}

(* ThreadCreate: the constructor of Thread reads vmas_. *)
Create(t, u) ==
  /\ At(t, "user")
  /\ pc[u] = "none"
  /\ IF ProcessOf[u] \in vmas
     THEN /\ threads' = [threads EXCEPT ![ProcessOf[u]] = Append(@, u)]
          /\ Goto(u, "new")
          /\ UNCHANGED sched
     ELSE sched' = Panic(sched) /\ UNCHANGED <<pc, threads>>
  /\ NoteLate(u)
  /\ UNCHANGED <<Locals, semVars, exited, vmas, stack, processList, threadList,
                 job, process, todo, freed>>

(* ThreadStart, of a thread that was not started before.  state_ is        *)
(* assigned whatever it was.                                               *)
StartThread(t, u) ==
  /\ At(t, "user")
  /\ pc[u] = "new"
  /\ sched' = [sched EXCEPT !.state[u] = "RUNNABLE"]
  /\ pc' = [pc EXCEPT ![t] = "start_enqueue", ![u] = "init"]
  /\ target' = [target EXCEPT ![t] = u]
  /\ NoteLate(u)
  /\ UNCHANGED <<mode, tick, cursor, semVars, threads, exited, vmas, stack,
                 processList, threadList, job, process, todo, freed>>

(* Thread::Init, the first thing a started thread executes. *)
InitThread(t) ==
  /\ At(t, "init")
  /\ IF ProcessOf[t] \in vmas
     THEN stack' = stack \cup {t} /\ Goto(t, "user") /\ UNCHANGED sched
     ELSE sched' = Panic(sched) /\ UNCHANGED <<pc, stack>>
  /\ UNCHANGED <<Locals, semVars, threads, exited, vmas, processList,
                 threadList, job, process, todo, freed, late>>

(* Thread::Wait of u, called by ThreadWait or, for thread 0 of a process,  *)
(* by ProcessWait.                                                         *)
JoinTest(t, u) ==
  /\ At(t, "user")
  /\ pc[u] # "none"
  /\ job' = [job EXCEPT ![t] = u]
  /\ Goto(t, IF IsDying(sched, u) THEN "joined" ELSE "join_block")
  /\ UNCHANGED <<sched, Locals, semVars, threads, exited, vmas, stack,
                 processList, threadList, process, todo, freed, late>>

JoinBlock(t) ==
  /\ At(t, "join_block")
  /\ sched' = SetState(sched, t, "BLOCKED")
  /\ Goto(t, "join_push")
  /\ UNCHANGED <<Locals, semVars, lifeVars>>

(* Mutant of JoinPush: the caller does not yield. *)
JoinPushNoYield(t) ==
  /\ At(t, "join_push")
  /\ sched' = PushBack(sched, job[t], t)
  /\ Goto(t, "joined")
  /\ UNCHANGED <<Locals, semVars, lifeVars>>

JoinPush(t) ==
  /\ At(t, "join_push")
  /\ sched' = PushBack(sched, job[t], t)
  /\ Goto(t, "joined")
  /\ EnterYield(t)
  /\ UNCHANGED <<tick, cursor, target, semVars, lifeVars>>

JoinReturn(t) ==
  /\ At(t, "joined")
  /\ job' = [job EXCEPT ![t] = Null]
  /\ Goto(t, "user")
  /\ UNCHANGED <<sched, Locals, semVars, threads, exited, vmas, stack,
                 processList, threadList, process, todo, freed, late>>

-----------------------------------------------------------------------------
(* The end of a thread or a process *)

(* Thread::Exit hands the thread to the cleanup thread before it marks it  *)
(* as dying.  The call never returns: "returned" has no statement.         *)
ThreadExit(t) ==
  /\ At(t, "user")
  /\ threadList' = Append(threadList, t)
  /\ Call(t, "signal_add", "exit_state")
  /\ UNCHANGED <<sched, Locals, count, threads, exited, vmas, stack,
                 processList, job, process, todo, freed, late>>

ExitState(t) ==
  /\ At(t, "exit_state")
  /\ sched' = [sched EXCEPT !.state[t] = "CLEANUP"]
  /\ Goto(t, "returned")
  /\ EnterYield(t)
  /\ UNCHANGED <<tick, cursor, target, semVars, lifeVars>>

(* Process::Exit.  The loop over threads_ takes the vector as it is now.   *)
ProcessExit(t) ==
  /\ At(t, "user")
  /\ exited' = [exited EXCEPT ![ProcessOf[t]] = "CLEANUP"]
  /\ todo' = [todo EXCEPT ![t] = threads[ProcessOf[t]]]
  /\ Goto(t, "exit_flag")
  /\ UNCHANGED <<sched, Locals, semVars, threads, vmas, stack, processList,
                 threadList, job, process, freed, late>>

ExitFlag(t) ==
  /\ At(t, "exit_flag")
  /\ IF todo[t] = <<>>
     THEN Goto(t, "exit_list") /\ UNCHANGED <<sched, todo>>
     ELSE LET u == Head(todo[t]) IN
          /\ sched' = IF IsDying(sched, u) THEN sched
                      ELSE SetState(sched, u, "CLEANUP")
          /\ todo' = [todo EXCEPT ![t] = Tail(@)]
          /\ UNCHANGED pc
  /\ UNCHANGED <<Locals, semVars, threads, exited, vmas, stack, processList,
                 threadList, job, process, freed, late>>

ExitList(t) ==
  /\ At(t, "exit_list")
  /\ processList' = Append(processList, ProcessOf[t])
  /\ Call(t, "signal_add", "exit_yield")
  /\ UNCHANGED <<sched, Locals, count, threads, exited, vmas, stack,
                 threadList, job, process, todo, freed, late>>

ExitYield(t) ==
  /\ At(t, "exit_yield")
  /\ Goto(t, "returned")
  /\ EnterYield(t)
  /\ UNCHANGED <<sched, tick, cursor, target, semVars, lifeVars>>

-----------------------------------------------------------------------------
(* ProcessCleanup::CleanupLoop *)

CleanTest ==
  /\ At(Cleaner, "clean_test")
  /\ IF processList = <<>> /\ threadList = <<>>
     THEN Call(Cleaner, "sem_test", "clean_test")
     ELSE Goto(Cleaner, "clean_processes") /\ UNCHANGED ret
  /\ UNCHANGED <<sched, Locals, count, lifeVars>>

(* The loop over process_list_, up to the loop of Process::Cleanup. *)
CleanProcess ==
  /\ At(Cleaner, "clean_processes")
  /\ IF processList = <<>>
     THEN /\ Goto(Cleaner, "clean_threads")
          /\ UNCHANGED <<processList, process, todo>>
     ELSE /\ process' = Head(processList)
          /\ processList' = Tail(processList)
          /\ todo' = [todo EXCEPT ![Cleaner] = threads[Head(processList)]]
          /\ Goto(Cleaner, "process_threads")
  /\ UNCHANGED <<sched, Locals, semVars, threads, exited, vmas, stack,
                 threadList, job, freed, late>>

(* Process::Cleanup: one iteration of the loop over threads_, ... *)
ProcessThreads ==
  /\ At(Cleaner, "process_threads")
  /\ IF todo[Cleaner] = <<>>
     THEN Goto(Cleaner, "process_free") /\ UNCHANGED <<ret, job, todo>>
     ELSE LET u == Head(todo[Cleaner]) IN
          /\ todo' = [todo EXCEPT ![Cleaner] = Tail(@)]
          /\ IF sched.state[u] = "CLEANUP"
             THEN /\ job' = [job EXCEPT ![Cleaner] = u]
                  /\ Call(Cleaner, "thread_state", "process_threads")
             ELSE UNCHANGED <<pc, ret, job>>
  /\ UNCHANGED <<sched, Locals, count, threads, exited, vmas, stack,
                 processList, threadList, process, freed, late>>

(* ... then the capabilities, the user mappings and vmas_ are released. *)
ProcessFree ==
  /\ At(Cleaner, "process_free")
  /\ vmas' = vmas \ {process}
  /\ exited' = [exited EXCEPT ![process] = "FINISHED"]
  /\ process' = Null
  /\ Goto(Cleaner, "clean_processes")
  /\ UNCHANGED <<sched, Locals, semVars, threads, stack, processList,
                 threadList, job, todo, freed, late>>

(* The loop over thread_list_. *)
CleanThread ==
  /\ At(Cleaner, "clean_threads")
  /\ IF threadList = <<>>
     THEN Goto(Cleaner, "clean_test") /\ UNCHANGED <<ret, job, threadList>>
     ELSE /\ job' = [job EXCEPT ![Cleaner] = Head(threadList)]
          /\ threadList' = Tail(threadList)
          /\ Call(Cleaner, "thread_state", "clean_threads")
  /\ UNCHANGED <<sched, Locals, count, threads, exited, vmas, stack,
                 processList, process, todo, freed, late>>

-----------------------------------------------------------------------------
(* Thread::Cleanup of job[Cleaner], which returns to ret[Cleaner] *)

(* Mutant of ThreadCleanup: the state is left as it was found. *)
ThreadCleanupSkips ==
  /\ At(Cleaner, "thread_state")
  /\ Goto(Cleaner, "thread_stack")
  /\ UNCHANGED <<sched, Locals, semVars, lifeVars>>

ThreadCleanup ==
  /\ At(Cleaner, "thread_state")
  /\ sched' = [sched EXCEPT !.state[job[Cleaner]] = "CLEANUP"]
  /\ Goto(Cleaner, "thread_stack")
  /\ UNCHANGED <<Locals, semVars, lifeVars>>

(* The null vmas_ of a process that was cleaned up is followed.            *)
(* user_stack_base_ is not initialized before Init: freeing it then frees  *)
(* some range, or fails.                                                   *)
ThreadFreeStack ==
  /\ At(Cleaner, "thread_stack")
  /\ LET u == job[Cleaner] IN
     IF ProcessOf[u] \in vmas
     THEN /\ sched' \in IF u \in stack THEN {sched} ELSE {sched, Panic(sched)}
          /\ stack' = stack \ {u}
          /\ freed' = [freed EXCEPT ![u] = @ + 1]
     ELSE sched' = Panic(sched) /\ UNCHANGED <<stack, freed>>
  /\ Goto(Cleaner, "thread_wake")
  /\ UNCHANGED <<Locals, semVars, threads, exited, vmas, processList,
                 threadList, job, process, todo, late>>

(* Mutant of ThreadWake: the last waiter is left in the list. *)
ThreadWakeAllButOne ==
  /\ At(Cleaner, "thread_wake")
  /\ LET u == job[Cleaner] IN
     IF sched.list[u].size > 1
     THEN /\ target' = [target EXCEPT ![Cleaner] = PeekFront(sched, u)]
          /\ sched' = PopFront(sched, u)
          /\ Goto(Cleaner, "thread_unblock")
     ELSE Goto(Cleaner, "thread_finish") /\ UNCHANGED <<sched, target>>
  /\ UNCHANGED <<mode, tick, cursor, semVars, lifeVars>>

(* The cleanup thread alone takes threads from blocked_threads_, so the    *)
(* test and PopFront are one step.                                         *)
ThreadWake ==
  /\ At(Cleaner, "thread_wake")
  /\ LET u == job[Cleaner] IN
     IF sched.list[u].size # 0
     THEN /\ target' = [target EXCEPT ![Cleaner] = PeekFront(sched, u)]
          /\ sched' = PopFront(sched, u)
          /\ Goto(Cleaner, "thread_unblock")
     ELSE Goto(Cleaner, "thread_finish") /\ UNCHANGED <<sched, target>>
  /\ UNCHANGED <<mode, tick, cursor, semVars, lifeVars>>

ThreadUnblock ==
  /\ At(Cleaner, "thread_unblock")
  /\ sched' = SetState(sched, target[Cleaner], "RUNNABLE")
  /\ Goto(Cleaner, "thread_enqueue")
  /\ UNCHANGED <<Locals, semVars, lifeVars>>

(* Mutant of ThreadEnqueue: the woken thread is not enqueued. *)
ThreadEnqueueForgets ==
  /\ At(Cleaner, "thread_enqueue")
  /\ target' = [target EXCEPT ![Cleaner] = Null]
  /\ Goto(Cleaner, "thread_wake")
  /\ UNCHANGED <<sched, mode, tick, cursor, semVars, lifeVars>>

ThreadEnqueue ==
  /\ At(Cleaner, "thread_enqueue")
  /\ sched' = Enqueue(sched, target[Cleaner])
  /\ target' = [target EXCEPT ![Cleaner] = Null]
  /\ Goto(Cleaner, "thread_wake")
  /\ UNCHANGED <<mode, tick, cursor, semVars, lifeVars>>

(* The kernel stack is released. *)
ThreadFinish ==
  /\ At(Cleaner, "thread_finish")
  /\ sched' = [sched EXCEPT !.state[job[Cleaner]] = "FINISHED"]
  /\ job' = [job EXCEPT ![Cleaner] = Null]
  /\ Goto(Cleaner, ret[Cleaner])
  /\ UNCHANGED <<Locals, semVars, threads, exited, vmas, stack, processList,
                 threadList, process, todo, freed, late>>

-----------------------------------------------------------------------------
LifeTimer ==
  /\ TimerInterrupt
  /\ TickDying \/ ~IsDying(sched, sched.current)

LifePreempt ==
  /\ LifeTimer \/ TickDecrement \/ TickClear \/ TickSwap
  /\ UNCHANGED <<semVars, lifeVars>>

(* A system call of t. *)
UserCall(t) ==
  \/ \E u \in User : Create(t, u) \/ StartThread(t, u)
  \/ t \in Joiner /\ \E u \in User : JoinTest(t, u)
  \/ t \in Sleeper /\ Sleep(t) /\ UNCHANGED <<semVars, lifeVars>>
  \/ t \in ThreadExiter /\ ThreadExit(t)
  \/ t \in ProcessExiter /\ ProcessExit(t)

(* A statement of a call that t is in. *)
UserStep(t) ==
  \/ InitThread(t)
  \/ JoinBlock(t)
  \/ JoinPush(t)
  \/ JoinReturn(t)
  \/ ExitState(t)
  \/ ExitFlag(t)
  \/ ExitList(t)
  \/ ExitYield(t)
  \/ (StartEnqueue(t) \/ SleepState(t) \/ SleepPush(t))
       /\ UNCHANGED <<semVars, lifeVars>>

CleanerStep ==
  \/ CleanTest
  \/ CleanProcess
  \/ ProcessThreads
  \/ ProcessFree
  \/ CleanThread
  \/ ThreadCleanup
  \/ ThreadFreeStack
  \/ ThreadWake
  \/ ThreadUnblock
  \/ ThreadEnqueue
  \/ ThreadFinish

(* Everything that t is bound to execute once it is on the CPU. *)
LifeStep(t) ==
  \/ Yield(t) /\ UNCHANGED <<semVars, lifeVars>>
  \/ Signal(t) /\ UNCHANGED lifeVars
  \/ Wait(t) /\ UNCHANGED lifeVars
  \/ t \in User /\ UserStep(t)
  \/ t = Cleaner /\ CleanerStep

LifeNext ==
  \/ LifePreempt
  \/ \E t \in Node : LifeStep(t)
  \/ \E t \in User : UserCall(t)

LifeSpec == LifeInit /\ [][LifeNext]_allVars

(* The timer keeps ticking, and a thread that is on the CPU again and      *)
(* again executes the code it is in; it need not make a new call.          *)
LifeFairness ==
  /\ WF_allVars(LifePreempt)
  /\ \A t \in Node : SF_allVars(LifeStep(t))

LifeFairSpec == LifeSpec /\ LifeFairness

-----------------------------------------------------------------------------
LifeLabel ==
  SchedLabel \cup SemLabel \cup
  {"none", "init", "join_block", "join_push", "joined", "exit_state",
   "exit_flag", "exit_list", "exit_yield", "returned", "clean_test",
   "clean_processes", "process_threads", "process_free", "clean_threads",
   "thread_state", "thread_stack", "thread_wake", "thread_unblock",
   "thread_enqueue", "thread_finish"}

(* "Once each thread is flagged for cleanup then it will no longer be      *)
(* scheduled again" (Process::Exit): a dying thread that has left the CPU  *)
(* never gets it back, although it may still be in the runnable list,      *)
(* unless it is started only then.                                         *)
DeadIsNotScheduled ==
  [][\A t \in Thread \ late' :
       IsDying(sched, t) /\ sched.current # t => sched'.current # t]_allVars

(* Whoever ends, and in whatever order the exits of threads and of their   *)
(* processes and the two loops of the cleanup thread interleave, no thread *)
(* runs after its stack was freed, and no stack is freed twice, unless the *)
(* thread is created or started after its process has exited.              *)
FreedStackNotInUse ==
  \A t \in User \ late :
    /\ freed[t] <= 1
    /\ freed[t] = 1 => sched.current # t /\ IsDying(sched, t)

(* The ways in which the end of a process gets in the way of its threads.  *)
(* The timer interrupts a thread that Exit has flagged, ...                *)
FlaggedOnCpu == tick = "swap" /\ IsDying(sched, sched.current)

(* ... a thread that Exit has flagged is woken from a list, ...            *)
FlaggedIsWoken ==
  \E t \in User :
    /\ exited[ProcessOf[t]] # "RUNNING"
    /\ \/ tick = "decrement" /\ cursor = t
       \/ tick = "off" /\ target[sched.current] = t

(* ... or a thread is cleaned up after its process, or before its Init.     *)
CleanedTooLate ==
  At(Cleaner, "thread_stack") /\ exited[ProcessOf[job[Cleaner]]] = "FINISHED"

CleanedTooEarly ==
  /\ At(Cleaner, "thread_stack")
  /\ exited[ProcessOf[job[Cleaner]]] = "CLEANUP"
  /\ job[Cleaner] \notin stack

(* Through the ends of threads and of processes no assertion of the        *)
(* scheduler, of Thread or of the lists fails and no null pointer is       *)
(* followed, but for the named ways in which Process::Exit and             *)
(* Process::Cleanup get in the way of a thread of the process.             *)
PanicsOnlyOverProcessEnd ==
  [][sched'.panic =>
       \/ sched.panic
       \/ FlaggedOnCpu
       \/ FlaggedIsWoken
       \/ CleanedTooLate
       \/ CleanedTooEarly
       \/ late' # {}]_allVars

(* Thread::Wait returns only once the thread that it waited for has ended  *)
(* for good: it is off the CPU and dying, unless it was started only after *)
(* its process had exited.                                                 *)
JoinSeesEnd ==
  \A t \in User :
    At(t, "joined") /\ job[t] \notin late => IsDying(sched, job[t])

(* The lists stay intact through exits and clean-ups, and every thread     *)
(* that has been started and is not dying is on exactly one of them, or on *)
(* the CPU, or in the hands of the thread that wakes it.                   *)
LivingThreadOnOneList ==
  ~sched.panic =>
    /\ \A q \in ListId : WellFormed(sched, q)
    /\ \A t \in Thread \ {sched.current} :
         pc[t] \notin {"none", "new"} /\ ~InTransit(t) /\ ~IsDying(sched, t)
           => Cardinality({q \in ListId : t \in On(sched, q)}) = 1

(* The cleanup thread gets to every thread that has ended, and to every    *)
(* process.                                                                *)
EndedIsCleanedUp ==
  /\ \A t \in User : IsDying(sched, t) ~> (sched.state[t] = "FINISHED")
  /\ \A p \in Process : (exited[p] = "CLEANUP") ~> (exited[p] = "FINISHED")

(* A thread that waits for a thread that has ended gets to run again. *)
JoinReturns ==
  \A t, u \in User :
    (t \in On(sched, u) /\ IsDying(sched, u)) ~> (sched.current = t)
=============================================================================
