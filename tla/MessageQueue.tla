---------------------------- MODULE MessageQueue ----------------------------
(***************************************************************************)
(* UnboundedMessageQueue (zion/lib/message_queue.cpp), the queue behind a  *)
(* Port, an Endpoint and each direction of a Channel, on the preemptive    *)
(* scheduler: its mutex_ is the mutex of module Mutex, a receiver that     *)
(* waits for a message is on the list "queue" (blocked_threads_).          *)
(*                                                                         *)
(* A message is a number.  The messages and buffers have two sizes: the    *)
(* buffers of the receivers in Small are too small for every message.      *)
(***************************************************************************)
EXTENDS Mutex, Sequences

CONSTANTS
  Sender,        \* the threads that send
  Receiver,      \* the threads that receive
  Small,         \* the receivers that pass too small a buffer
  MaxMessages    \* bound: the number of messages sent

ASSUME QueueAssumption ==
  /\ Sender \subseteq Thread
  /\ Receiver \subseteq Thread
  /\ Small \subseteq Receiver
  /\ MaxMessages \in Nat
  /\ "queue" \in ListId

VARIABLES
  items,     \* pending_messages_
  made,      \* the number of messages made so far
  out,       \* the message a sender sends
  tail,      \* the local litem of PushBackInternal, as an index of items
  received   \* the messages handed to receivers, in order

queueVars == <<items, made, out, tail, received>>

allVars == <<vars, queueVars>>

QueueInit ==
  /\ Init
  /\ items = <<>>
  /\ made = 0
  /\ out = [t \in Node |-> 0]
  /\ tail = [t \in Node |-> 0]
  /\ received = <<>>

(* The scheduler's locals of a statement that only moves on. *)
Still == UNCHANGED <<sched, lock, Locals>>

-----------------------------------------------------------------------------
(* PushBack *)

(* A system call that sends, or an interrupt handler: MutexHolder h. *)
SendCall(t) ==
  /\ At(t, "user")
  /\ made < MaxMessages
  /\ made' = made + 1
  /\ out' = [out EXCEPT ![t] = made + 1]
  /\ Call(t, "fetch_or", "append_find")
  /\ Still
  /\ UNCHANGED <<items, tail, received>>

(* LinkedList::PushBack walks to the last item ... *)
AppendFind(t) ==
  /\ At(t, "append_find")
  /\ tail' = [tail EXCEPT ![t] = Len(items)]
  /\ Goto(t, "append_link")
  /\ Still
  /\ UNCHANGED <<ret, items, made, out, received>>

(* ... and links the new one behind it.  The locals are dead from here on. *)
AppendLink(t) ==
  /\ At(t, "append_link")
  /\ items' = Append(SubSeq(items, 1, tail[t]), out[t])
  /\ out' = [out EXCEPT ![t] = 0]
  /\ tail' = [tail EXCEPT ![t] = 0]
  /\ Goto(t, "wake_check")
  /\ Still
  /\ UNCHANGED <<ret, made, received>>

(* Mutant of WakeCheck: size() > 1. *)
WakeCheckOffByOne(t) ==
  /\ At(t, "wake_check")
  /\ IF sched.list["queue"].size > 1
     THEN Goto(t, "wake_pop") /\ UNCHANGED ret
     ELSE Call(t, "clear_lock", "user")
  /\ Still
  /\ UNCHANGED queueVars

(* blocked_threads_.size() > 0; without a waiter h is destroyed. *)
WakeCheck(t) ==
  /\ At(t, "wake_check")
  /\ IF sched.list["queue"].size # 0
     THEN Goto(t, "wake_pop") /\ UNCHANGED ret
     ELSE Call(t, "clear_lock", "user")
  /\ Still
  /\ UNCHANGED queueVars

WakePop(t) ==
  /\ At(t, "wake_pop")
  /\ target' = [target EXCEPT ![t] = PeekFront(sched, "queue")]
  /\ sched' = PopFront(sched, "queue")
  /\ Goto(t, "wake_state")
  /\ UNCHANGED <<lock, ret, mode, tick, cursor, queueVars>>

(* Mutant of WakeState: the receiver's state is left at BLOCKED. *)
WakeStateForgets(t) ==
  /\ At(t, "wake_state")
  /\ Goto(t, "wake_enqueue")
  /\ UNCHANGED <<sched, lock, ret, Locals, queueVars>>

WakeState(t) ==
  /\ At(t, "wake_state")
  /\ sched' = SetState(sched, target[t], "RUNNABLE")
  /\ Goto(t, "wake_enqueue")
  /\ UNCHANGED <<lock, ret, Locals, queueVars>>

(* Mutant of WakeEnqueue: the receiver is not enqueued. *)
WakeEnqueueForgets(t) ==
  /\ At(t, "wake_enqueue")
  /\ target' = [target EXCEPT ![t] = Null]
  /\ Call(t, "clear_lock", "user")
  /\ UNCHANGED <<sched, lock, mode, tick, cursor, queueVars>>

WakeEnqueue(t) ==
  /\ At(t, "wake_enqueue")
  /\ sched' = Enqueue(sched, target[t])
  /\ target' = [target EXCEPT ![t] = Null]
  /\ mode' = [mode EXCEPT ![t] = EnqueueMode(sched)]
  /\ Call(t, "clear_lock", "user")
  /\ UNCHANGED <<lock, tick, cursor, queueVars>>

PushBackMessage(t) ==
  \/ AppendFind(t)
  \/ AppendLink(t)
  \/ WakeCheck(t)
  \/ WakePop(t)
  \/ WakeState(t)
  \/ WakeEnqueue(t)

-----------------------------------------------------------------------------
(* PopFront *)

RecvCall(t) ==
  /\ At(t, "user")
  /\ Goto(t, "recv_lock")
  /\ Still
  /\ UNCHANGED <<ret, queueVars>>

(* Mutant of RecvLock: the queue is tested without the mutex. *)
RecvLockForgets(t) ==
  /\ At(t, "recv_lock")
  /\ Goto(t, "recv_test")
  /\ Still
  /\ UNCHANGED <<ret, queueVars>>

RecvLock(t) ==
  /\ At(t, "recv_lock")
  /\ Call(t, "fetch_or", "recv_test")
  /\ Still
  /\ UNCHANGED queueVars

(* The loop condition.  The mutex is released after the loop and taken     *)
(* again for the removal.                                                  *)
RecvTest(t) ==
  /\ At(t, "recv_test") \/ At(t, "poll_recv_test")
  /\ IF items = <<>>
     THEN Goto(t, "recv_block") /\ UNCHANGED ret
     ELSE Call(t, "clear_lock", "recv_relock")
  /\ Still
  /\ UNCHANGED queueVars

RecvBlock(t) ==
  /\ At(t, "recv_block")
  /\ sched' = SetState(sched, t, "BLOCKED")
  /\ Goto(t, "recv_push")
  /\ UNCHANGED <<lock, ret, Locals, queueVars>>

RecvPush(t) ==
  /\ At(t, "recv_push")
  /\ sched' = PushBack(sched, "queue", t)
  /\ Call(t, "clear_lock", "recv_yield")
  /\ UNCHANGED <<lock, Locals, queueVars>>

RecvYield(t) ==
  /\ At(t, "recv_yield")
  /\ EnterYield(t)
  /\ Goto(t, "recv_lock")
  /\ UNCHANGED <<sched, lock, ret, tick, cursor, target, queueVars>>

RecvRelock(t) ==
  /\ At(t, "recv_relock")
  /\ Call(t, "fetch_or", "recv_peek")
  /\ Still
  /\ UNCHANGED queueVars

(* Mutant of RecvPeek: a message that does not fit is dropped. *)
RecvPeekDrops(t) ==
  /\ At(t, "recv_peek")
  /\ sched' = IF items = <<>> THEN Panic(sched) ELSE sched
  /\ IF t \in Small
     THEN /\ Call(t, "clear_lock", "user")
          /\ items' = IF items = <<>> THEN items ELSE Tail(items)
     ELSE Goto(t, "recv_pop") /\ UNCHANGED <<ret, items>>
  /\ UNCHANGED <<lock, Locals, made, out, tail, received>>

(* PeekFront of an empty list reads through a null pointer.  A message     *)
(* that does not fit stays where it is and the call fails.                 *)
RecvPeek(t) ==
  /\ At(t, "recv_peek")
  /\ sched' = IF items = <<>> THEN Panic(sched) ELSE sched
  /\ IF t \in Small
     THEN Call(t, "clear_lock", "user")
     ELSE Goto(t, "recv_pop") /\ UNCHANGED ret
  /\ UNCHANGED <<lock, Locals, queueVars>>

RecvPop(t) ==
  /\ At(t, "recv_pop")
  /\ IF items = <<>>
     THEN sched' = Panic(sched) /\ UNCHANGED <<items, received>>
     ELSE /\ items' = Tail(items)
          /\ received' = Append(received, Head(items))
          /\ UNCHANGED sched
  /\ Call(t, "clear_lock", "user")
  /\ UNCHANGED <<lock, Locals, made, out, tail>>

PopFrontMessage(t) ==
  \/ RecvLock(t)
  \/ RecvTest(t)
  \/ RecvBlock(t)
  \/ RecvPush(t)
  \/ RecvYield(t)
  \/ RecvRelock(t)
  \/ RecvPeek(t)
  \/ RecvPop(t)

-----------------------------------------------------------------------------
(* PortPoll: HasMessages locks, tests and unlocks, then Recv is called. *)

PollCall(t) ==
  /\ At(t, "user")
  /\ Call(t, "fetch_or", "poll_test")
  /\ Still
  /\ UNCHANGED queueVars

(* Mutant of PollTest: Recv is called whatever HasMessages says. *)
PollTestIgnored(t) ==
  /\ At(t, "poll_test")
  /\ Call(t, "clear_lock", "poll_recv")
  /\ Still
  /\ UNCHANGED queueVars

PollTest(t) ==
  /\ At(t, "poll_test")
  /\ Call(t, "clear_lock", IF items = <<>> THEN "user" ELSE "poll_recv")
  /\ Still
  /\ UNCHANGED queueVars

PollRecv(t) ==
  /\ At(t, "poll_recv")
  /\ Call(t, "fetch_or", "poll_recv_test")
  /\ Still
  /\ UNCHANGED queueVars

Poll(t) == PollTest(t) \/ PollRecv(t)

-----------------------------------------------------------------------------
QueueStep(t) ==
  \/ PushBackMessage(t)
  \/ PopFrontMessage(t)
  \/ Poll(t)
  \/ (Lock(t) \/ Release(t)) /\ UNCHANGED queueVars

QueueNext ==
  \/ SchedNext /\ UNCHANGED <<mutexVars, queueVars>>
  \/ \E t \in Thread : QueueStep(t)
  \/ \E t \in Sender : SendCall(t)
  \/ \E t \in Receiver : RecvCall(t) \/ PollCall(t)

QueueSpec == QueueInit /\ [][QueueNext]_allVars

(* The timer is periodic.  A thread that has the CPU executes more than    *)
(* one statement in the 50ms between two ticks, so a statement that is     *)
(* reached again and again is executed (strong fairness: a tick disables   *)
(* it for a while).  A receiver keeps calling PopFront.                    *)
QueueFairness ==
  /\ WF_allVars(Preempt /\ UNCHANGED <<mutexVars, queueVars>>)
  /\ \A t \in Node :
       SF_allVars(\/ Statement(t) /\ UNCHANGED <<mutexVars, queueVars>>
                  \/ t \in Thread /\ QueueStep(t))
  /\ \A t \in Receiver : SF_allVars(RecvCall(t))

QueueFairSpec == QueueSpec /\ QueueFairness

-----------------------------------------------------------------------------
(* The statements of PopFront and of PortPoll. *)
ReceiverLabel ==
  {"recv_lock", "recv_test", "recv_block", "recv_push", "recv_yield", "recv_relock",
   "recv_peek", "recv_pop", "poll_test", "poll_recv", "poll_recv_test"}

QueueLabel ==
  Label \cup ReceiverLabel \cup
  {"append_find", "append_link", "wake_check", "wake_pop", "wake_state",
   "wake_enqueue"}

Message == 1 .. MaxMessages

AbstractFifo == INSTANCE AbstractQueue WITH queue <- items, taken <- received

(* Send and Recv are Put and Take of a FIFO: no message is lost,           *)
(* duplicated or overtaken, wherever the timer arrives, whoever sends, and *)
(* also when a receiver's buffer was too small.                            *)
ImplementsFifo == AbstractFifo!Spec

(* Thread t is in PopFront or PortPoll, or in a Lock or Release for them. *)
Receives(t) ==
  \/ pc[t] \in ReceiverLabel
  \/ pc[t] \in Locking \cup Releasing /\ ret[t] \in ReceiverLabel

(* A sender that has yet to take a waiter off the list, or a receiver that *)
(* does not wait.                                                          *)
Attends(t) ==
  \/ pc[t] \in {"wake_check", "wake_pop"}
  \/ Receives(t) /\ t \notin On(sched, "queue")

Attending == {t \in Thread : Attends(t)}

(* No receiver sleeps on a message: while some receiver waits, there are   *)
(* at least as many threads on their way to wake a receiver or to take a   *)
(* message as there are messages.                                          *)
NoMissedMessage ==
  ~sched.panic /\ sched.list["queue"].size # 0
    => Len(items) <= Cardinality(Attending)

(* Every message that is sent is received. *)
SentIsReceived ==
  \A m \in Message :
    (\E i \in 1 .. Len(items) : items[i] = m)
      ~> (\E i \in 1 .. Len(received) : received[i] = m)
=============================================================================
