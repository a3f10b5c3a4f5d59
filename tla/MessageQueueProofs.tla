------------------------- MODULE MessageQueueProofs -------------------------
(***************************************************************************)
(* Proofs about MessageQueue for any number of threads and messages, with  *)
(* timer interrupts between any two statements and whatever they do to the *)
(* thread lists (they also hold after a panic): a kernel queue is a FIFO,  *)
(* and a message that was seen is there when it is taken, unless another   *)
(* receiver overtook the one that saw it.                                  *)
(*                                                                         *)
(* All that is needed of the kernel mutex is in OneHolder.  The threads    *)
(* share a lock word, and each holds it between the fetch_or that found 0  *)
(* and the store of 0, whichever procedure Lock and Release return to; so  *)
(* the invariant also says where these may return to (Returns).            *)
(***************************************************************************)
EXTENDS KernelInvariants, TLAPS

(* Threads are nodes of the lists. *)
LEMMA ThreadIsNode == \A t \in Thread : t \in Node
  BY Zenon DEF Thread

(* The scheduler and the timer move threads between the statements of the  *)
(* scheduler only.                                                         *)
LEMMA SchedStep ==
  ASSUME QInv, SchedNext, UNCHANGED <<mutexVars, queueVars>>
  PROVE  /\ QInv'
         /\ \A u \in Node : pc'[u] # pc[u] => pc[u] \in SchedLabel /\ pc'[u] \in SchedLabel
<1>1. /\ pc' \in [Node -> QueueLabel]
      /\ \A u \in Node : pc'[u] # pc[u] => pc[u] \in SchedLabel /\ pc'[u] \in SchedLabel
  <2>. USE DEF QInv, QueueTypeOK, QueueLabel, Label, SchedLabel
  <2>1. CASE Preempt \/ \E t \in Node : Yield(t)
    <3>1. pc' = pc
      BY <2>1 DEF Preempt, TimerInterrupt, TickDecrement, TickClear, TickSwap, Yield,
         YieldClear, YieldSwitch
    <3>. QED
      BY <3>1
  <2>2. ASSUME NEW t \in Thread, StartEnqueue(t) \/ Sleep(t) \/ SleepState(t) \/ SleepPush(t)
        PROVE  <1>1!1 /\ <1>1!2
    <3>1. /\ pc' = [pc EXCEPT ![t] = pc'[t]] /\ pc[t] \in SchedLabel /\ pc'[t] \in SchedLabel
          /\ t \in Node
      BY <2>2 DEF StartEnqueue, Sleep, SleepState, SleepPush, Goto, At, Thread
    <3>. QED
      BY <3>1, Zenon
  <2>3. ASSUME NEW t \in Thread, NEW v \in Thread, Start(t, v)
        PROVE  <1>1!1 /\ <1>1!2
    <3>1. /\ pc' = [pc EXCEPT ![t] = "start_enqueue", ![v] = "user"] /\ pc[t] = "user"
          /\ pc[v] = "new" /\ t \in Node /\ v \in Node
      BY <2>3 DEF Start, At, Thread
    <3>. QED
      BY <3>1, Zenon
  <2>. QED
    BY <2>1, <2>2, <2>3 DEF SchedNext, ThreadStep
<1>2. UNCHANGED <<lock, ret, items, made, out, tail>>
  BY DEF mutexVars, queueVars
<1>3. \A t \in Thread : t \in Node
  BY DEF Thread
<1>4. QueueTypeOK'
  BY <1>1, <1>2 DEF QInv, QueueTypeOK
<1>5. Returns'
  BY <1>1, <1>2, <1>3 DEF QInv, Returns, SchedLabel, Locking, Releasing
<1>6. OneHolder'
  <2>1. \A t \in Thread : HasLock(t)' <=> HasLock(t)
    BY <1>1, <1>3 DEF HasLock, SchedLabel
  <2>. QED
    BY <1>2, <2>1 DEF QInv, OneHolder
<1>7. Appends'
  BY <1>1, <1>2, <1>3 DEF QInv, Appends, Sending, SchedLabel, Locking
<1>. QED
  BY <1>1, <1>4, <1>5, <1>6, <1>7 DEF QInv

(* A statement of a thread either leaves the lock word and that thread's    *)
(* hold on the mutex alone, or takes the mutex when it is free, or gives it  *)
(* up; Lock and Release are called where they may return to.               *)
LEMMA ThreadMoves ==
  ASSUME QInv, NEW t \in Thread, QueueStep(t) \/ SendCall(t) \/ RecvCall(t) \/ PollCall(t)
  PROVE  /\ pc' \in [Node -> QueueLabel] /\ ret' \in [Node -> QueueLabel]
         /\ lock' \in {0, 1}
         /\ \A u \in Node \ {t} : pc'[u] = pc[u] /\ ret'[u] = ret[u]
         /\ pc'[t] \in Locking => ret'[t] \in Entry
         /\ pc'[t] \in Releasing => ret'[t] \in Exit
         /\ \/ lock' = lock /\ (HasLock(t)' <=> HasLock(t))
            \/ lock = 0 /\ lock' = 1 /\ HasLock(t)'
            \/ HasLock(t) /\ ~HasLock(t)' /\ lock' = 0
<1>. t \in Node
  BY ThreadIsNode, Zenon
<1>. USE DEF QInv, QueueTypeOK, Returns, HasLock, Locking, Releasing, Entry, Exit, QueueLabel,
  ReceiverLabel, Label, SchedLabel, Goto, Call, At, Still
<1>1. CASE FetchOr(t)
  BY <1>1 DEF FetchOr
<1>2. CASE Block(t)
  BY <1>2 DEF Block
<1>3. CASE PushBlocked(t)
  BY <1>3 DEF PushBlocked
<1>4. CASE ClearLock(t)
  BY <1>4 DEF ClearLock
<1>5. CASE CheckBlocked(t)
  BY <1>5 DEF CheckBlocked
<1>6. CASE PopBlocked(t)
  BY <1>6 DEF PopBlocked
<1>7. CASE Unblock(t)
  BY <1>7 DEF Unblock
<1>8. CASE EnqueueBlocked(t)
  BY <1>8 DEF EnqueueBlocked
<1>9. CASE AppendFind(t)
  BY <1>9 DEF AppendFind
<1>10. CASE AppendLink(t)
  BY <1>10, SMTT(30) DEF AppendLink
<1>11. CASE WakeCheck(t)
  <2>1. CASE Goto(t, "wake_pop") /\ UNCHANGED ret
    BY <1>11, <2>1, Zenon DEF WakeCheck
  <2>2. CASE Call(t, "clear_lock", "user")
    BY <1>11, <2>2, Zenon DEF WakeCheck
  <2>. QED
    BY <1>11, <2>1, <2>2, Zenon DEF WakeCheck
<1>12. CASE WakePop(t)
  BY <1>12, Zenon DEF WakePop
<1>13. CASE WakeState(t)
  BY <1>13, Zenon DEF WakeState
<1>14. CASE WakeEnqueue(t)
  BY <1>14, Zenon DEF WakeEnqueue
<1>15. CASE RecvLock(t)
  BY <1>15, Zenon DEF RecvLock
<1>16. CASE RecvTest(t)
  <2>1. CASE Goto(t, "recv_block") /\ UNCHANGED ret
    BY <1>16, <2>1, Zenon DEF RecvTest
  <2>2. CASE Call(t, "clear_lock", "recv_relock")
    BY <1>16, <2>2, Zenon DEF RecvTest
  <2>. QED
    BY <1>16, <2>1, <2>2, Zenon DEF RecvTest
<1>17. CASE RecvBlock(t)
  BY <1>17, Zenon DEF RecvBlock
<1>18. CASE RecvPush(t)
  BY <1>18 DEF RecvPush
<1>19. CASE RecvYield(t)
  BY <1>19 DEF RecvYield
<1>20. CASE RecvRelock(t)
  BY <1>20 DEF RecvRelock
<1>21. CASE RecvPeek(t)
  <2>1. CASE Goto(t, "recv_pop") /\ UNCHANGED ret
    BY <1>21, <2>1, Zenon DEF RecvPeek
  <2>2. CASE Call(t, "clear_lock", "user")
    BY <1>21, <2>2, Zenon DEF RecvPeek
  <2>. QED
    BY <1>21, <2>1, <2>2, Zenon DEF RecvPeek
<1>22. CASE RecvPop(t)
  BY <1>22, Zenon DEF RecvPop
<1>23. CASE PollTest(t)
  BY <1>23, SMTT(30) DEF PollTest
<1>24. CASE PollRecv(t)
  BY <1>24, Zenon DEF PollRecv
<1>25. CASE SendCall(t)
  BY <1>25, Zenon DEF SendCall
<1>26. CASE RecvCall(t)
  BY <1>26, Zenon DEF RecvCall
<1>27. CASE PollCall(t)
  BY <1>27, Zenon DEF PollCall
<1>. QED
  BY <1>1, <1>2, <1>3, <1>4, <1>5, <1>6, <1>7, <1>8, <1>9, <1>10, <1>11, <1>12, <1>13,
     <1>14, <1>15, <1>16, <1>17, <1>18, <1>19, <1>20, <1>21, <1>22, <1>23, <1>24, <1>25,
     <1>26, <1>27, Zenon
  DEF QueueStep, Lock, Release, PushBackMessage, PopFrontMessage, Poll

(* No other statement changes a queue variable or begins to append. *)
LEMMA Untouched ==
  ASSUME QInv, NEW t \in Thread,
         \/ QueueStep(t) /\ ~AppendFind(t) /\ ~AppendLink(t) /\ ~RecvPop(t)
         \/ RecvCall(t) \/ PollCall(t)
  PROVE  /\ UNCHANGED queueVars
         /\ pc'[t] # "append_link"
         /\ Sending(t)' => Sending(t)
<1>. t \in Node
  BY ThreadIsNode, Zenon
<1>. USE DEF QInv, QueueTypeOK, Returns, Sending, Locking, Releasing, Entry, Exit, Goto, Call, At, Still
<1>1. CASE FetchOr(t) /\ UNCHANGED queueVars
  BY <1>1, Zenon DEF FetchOr
<1>2. CASE Block(t) /\ UNCHANGED queueVars
  BY <1>2 DEF Block
<1>3. CASE PushBlocked(t) /\ UNCHANGED queueVars
  BY <1>3 DEF PushBlocked
<1>4. CASE ClearLock(t) /\ UNCHANGED queueVars
  BY <1>4 DEF ClearLock
<1>5. CASE CheckBlocked(t) /\ UNCHANGED queueVars
  BY <1>5, Zenon DEF CheckBlocked
<1>6. CASE PopBlocked(t) /\ UNCHANGED queueVars
  BY <1>6 DEF PopBlocked
<1>7. CASE Unblock(t) /\ UNCHANGED queueVars
  BY <1>7 DEF Unblock
<1>8. CASE EnqueueBlocked(t) /\ UNCHANGED queueVars
  BY <1>8, Zenon DEF EnqueueBlocked
<1>9. CASE WakeCheck(t)
  BY <1>9, Zenon DEF WakeCheck
<1>10. CASE WakePop(t)
  BY <1>10 DEF WakePop
<1>11. CASE WakeState(t)
  BY <1>11 DEF WakeState
<1>12. CASE WakeEnqueue(t)
  BY <1>12 DEF WakeEnqueue
<1>13. CASE RecvLock(t)
  BY <1>13 DEF RecvLock
<1>14. CASE RecvTest(t)
  BY <1>14 DEF RecvTest
<1>15. CASE RecvBlock(t)
  BY <1>15 DEF RecvBlock
<1>16. CASE RecvPush(t)
  BY <1>16 DEF RecvPush
<1>17. CASE RecvYield(t)
  BY <1>17 DEF RecvYield
<1>18. CASE RecvRelock(t)
  BY <1>18 DEF RecvRelock
<1>19. CASE RecvPeek(t)
  BY <1>19 DEF RecvPeek
<1>20. CASE PollTest(t)
  BY <1>20 DEF PollTest
<1>21. CASE PollRecv(t)
  BY <1>21 DEF PollRecv
<1>22. CASE RecvCall(t)
  BY <1>22 DEF RecvCall
<1>23. CASE PollCall(t)
  BY <1>23, Zenon DEF PollCall
<1>. QED
  BY <1>1, <1>2, <1>3, <1>4, <1>5, <1>6, <1>7, <1>8, <1>9, <1>10, <1>11, <1>12, <1>13,
     <1>14, <1>15, <1>16, <1>17, <1>18, <1>19, <1>20, <1>21, <1>22, <1>23, Zenon
  DEF QueueStep, Lock, Release, PushBackMessage, PopFrontMessage, Poll

(* What a statement does to the queue: nothing, an append, or a pop. *)
LEMMA QueueMoves ==
  ASSUME QInv, NEW t \in Thread, AnyStep(t)
  PROVE  /\ items' \in Seq(Message) /\ made' \in 0 .. MaxMessages
         /\ out' \in [Node -> Nat] /\ tail' \in [Node -> Nat]
         /\ \A u \in Node \ {t} : out'[u] = out[u] /\ tail'[u] = tail[u]
         /\ (items' = items /\ received' = received) \/ Appended(t) \/ Popped(t)
         /\ Sending(t)' => out'[t] \in Message
         /\ pc'[t] = "append_link" => tail'[t] = Len(items')
<1>. t \in Node
  BY DEF Thread
<1>1. CASE UNCHANGED queueVars /\ pc'[t] # "append_link" /\ (Sending(t)' => Sending(t))
  BY <1>1 DEF QInv, QueueTypeOK, Appends, queueVars
<1>2. CASE AppendFind(t)
  BY <1>2 DEF QInv, QueueTypeOK, Appends, AppendFind, Goto, Sending, At, Still
<1>3. CASE AppendLink(t)
  <2>1. /\ items \in Seq(Message) /\ out[t] \in Message /\ tail[t] = Len(items)
        /\ pc[t] = "append_link"
    BY <1>3 DEF QInv, QueueTypeOK, Appends, AppendLink, Sending, At
  <2>2. SubSeq(items, 1, Len(items)) = items
    BY <2>1
  <2>3. items' = Append(items, out[t]) /\ items' \in Seq(Message)
    BY <1>3, <2>1, <2>2 DEF AppendLink
  <2>4. pc'[t] = "wake_check"
    BY <1>3 DEF AppendLink, Goto, QInv, QueueTypeOK
  <2>5. Appended(t)
    BY <1>3, <2>1, <2>3, <2>4 DEF AppendLink, Appended
  <2>6. ~Sending(t)'
    BY <2>4 DEF Sending, Locking
  <2>. QED
    BY <1>3, <2>3, <2>4, <2>5, <2>6, SMTT(30) DEF AppendLink, QInv, QueueTypeOK
<1>4. CASE RecvPop(t)
  <2>1. items \in Seq(Message) /\ pc[t] = "recv_pop"
    BY <1>4 DEF QInv, QueueTypeOK, RecvPop, At
  <2>2. pc'[t] = "clear_lock" /\ UNCHANGED <<made, out, tail>>
    BY <1>4 DEF RecvPop, Call, Goto, QInv, QueueTypeOK
  <2>3. CASE items = <<>>
    BY <1>4, <2>1, <2>2, <2>3 DEF RecvPop, QInv, QueueTypeOK, Sending, Locking
  <2>4. CASE items # <<>>
    <3>1. Popped(t)
      BY <1>4, <2>1, <2>2, <2>4, Zenon DEF RecvPop, Popped, At, Executing
    <3>2. items' \in Seq(Message)
      BY <2>1, <2>4, <3>1 DEF Popped
    <3>. QED
      BY <2>2, <3>1, <3>2, Zenon DEF QInv, QueueTypeOK, Sending, Locking
  <2>. QED
    BY <2>3, <2>4
<1>5. CASE SendCall(t)
  <2>1. /\ made' = made + 1 /\ made < MaxMessages /\ out' = [out EXCEPT ![t] = made + 1]
        /\ made \in Nat /\ MaxMessages \in Nat /\ UNCHANGED <<items, tail, received>>
    BY <1>5, QueueAssumption DEF SendCall, QInv, QueueTypeOK
  <2>2. made + 1 \in Message /\ made + 1 \in Nat
    BY <2>1 DEF Message
  <2>3. pc'[t] = "fetch_or"
    BY <1>5 DEF SendCall, Call, Goto, QInv, QueueTypeOK
  <2>. QED
    BY <2>1, <2>2, <2>3 DEF QInv, QueueTypeOK, Message
<1>. QED
  BY <1>1, <1>2, <1>3, <1>4, <1>5, Untouched, Zenon DEF AnyStep

(* A statement of a thread keeps the invariant. *)
LEMMA ThreadStepInv ==
  ASSUME QInv, NEW t \in Thread, AnyStep(t)
  PROVE  QInv'
<1>. DEFINE others == Node \ {t}
<1>1. \A u \in Thread : u \in Node
  BY DEF Thread
<1>2. /\ pc' \in [Node -> QueueLabel] /\ ret' \in [Node -> QueueLabel] /\ lock' \in {0, 1}
      /\ \A u \in others : pc'[u] = pc[u] /\ ret'[u] = ret[u]
      /\ pc'[t] \in Locking => ret'[t] \in Entry
      /\ pc'[t] \in Releasing => ret'[t] \in Exit
      /\ \/ lock' = lock /\ (HasLock(t)' <=> HasLock(t))
         \/ lock = 0 /\ lock' = 1 /\ HasLock(t)'
         \/ HasLock(t) /\ ~HasLock(t)' /\ lock' = 0
  BY ThreadMoves DEF AnyStep
<1>3. /\ items' \in Seq(Message) /\ made' \in 0 .. MaxMessages
      /\ out' \in [Node -> Nat] /\ tail' \in [Node -> Nat]
      /\ \A u \in others : out'[u] = out[u] /\ tail'[u] = tail[u]
      /\ items' = items \/ Appended(t) \/ Popped(t)
      /\ Sending(t)' => out'[t] \in Message
      /\ pc'[t] = "append_link" => tail'[t] = Len(items')
  BY QueueMoves, Zenon
<1>4. QueueTypeOK'
  BY <1>2, <1>3, Zenon DEF QueueTypeOK
<1>5. Returns'
  BY <1>1, <1>2, Zenon DEF QInv, Returns
<1>6. OneHolder'
  <2>1. \A u \in Thread \ {t} : HasLock(u)' <=> HasLock(u)
    BY <1>1, <1>2 DEF HasLock
  <2>2. lock \in {0, 1}
    BY DEF QInv, QueueTypeOK
  <2>. QED
    BY <1>2, <2>1, <2>2 DEF QInv, OneHolder
<1>7. Appends'
  <2>1. ASSUME NEW u \in Thread, u # t
        PROVE  Sending(u)' => out'[u] \in Message
    BY <1>1, <1>2, <1>3, <2>1, Zenon DEF QInv, Appends, Sending
  <2>2. ASSUME NEW u \in Thread, u # t, pc'[u] = "append_link"
        PROVE  tail'[u] = Len(items')
    <3>1. pc[u] = "append_link" /\ HasLock(u) /\ tail'[u] = tail[u]
      BY <1>1, <1>2, <1>3, <2>2, Zenon DEF HasLock
    <3>2. ~HasLock(t)
      BY <2>2, <3>1 DEF QInv, OneHolder
    <3>3. items' = items
      BY <1>3, <3>2 DEF Appended, Popped, HasLock
    <3>. QED
      BY <3>1, <3>3 DEF QInv, Appends
  <2>. QED
    BY <1>3, <2>1, <2>2 DEF Appends
<1>. QED
  BY <1>4, <1>5, <1>6, <1>7 DEF QInv

(* The queue starts empty, with the mutex free. *)
LEMMA QInvInit == QueueInit => QInv
<1>. SUFFICES ASSUME QueueInit PROVE QInv
  OBVIOUS
<1>1. /\ pc \in [Node -> {"spin", "user", "new"}] /\ ret = [t \in Node |-> "user"]
      /\ lock = 0 /\ items = <<>> /\ made = 0
      /\ out = [t \in Node |-> 0] /\ tail = [t \in Node |-> 0]
  BY DEF QueueInit, Init, SchedInit
<1>2. \A t \in Thread : t \in Node /\ pc[t] \in {"spin", "user", "new"}
  BY <1>1, Zenon DEF Thread
<1>3. QueueTypeOK
  BY <1>1, QueueAssumption DEF QueueTypeOK, QueueLabel, Label, SchedLabel
<1>4. Returns /\ OneHolder /\ Appends
  BY <1>1, <1>2 DEF Returns, OneHolder, Appends, HasLock, Sending, Locking, Releasing
<1>. QED
  BY <1>3, <1>4 DEF QInv

(* The invariant is inductive. *)
LEMMA QInvNext == QInv /\ [QueueNext]_allVars => QInv'
<1>. SUFFICES ASSUME QInv, [QueueNext]_allVars PROVE QInv'
  OBVIOUS
<1>1. CASE SchedNext /\ UNCHANGED <<mutexVars, queueVars>>
  BY <1>1, SchedStep
<1>2. CASE \E t \in Thread : AnyStep(t)
  BY <1>2, ThreadStepInv
<1>3. CASE UNCHANGED allVars
  BY <1>3, Zenon DEF allVars, vars, queueVars, QInv, QueueTypeOK, Returns, OneHolder, Appends,
     HasLock, Sending
<1>4. Sender \subseteq Thread /\ Receiver \subseteq Thread
  BY QueueAssumption
<1>. QED
  BY <1>1, <1>2, <1>3, <1>4 DEF QueueNext, AnyStep

(* Whoever sends and receives, and wherever the timer arrives, Send and    *)
(* Recv of a kernel queue are Put and Take of a FIFO: each pushed message  *)
(* is the last one at that moment, and a receiver takes the first one.     *)
THEOREM QueueImplementsFifo == QueueSpec => ImplementsFifo
<1>1. QueueInit => AbstractFifo!Init
  BY DEF QueueInit, AbstractFifo!Init
<1>2. QInv /\ [QueueNext]_allVars => [AbstractFifo!Next]_<<items, received>>
  <2>. SUFFICES ASSUME QInv, [QueueNext]_allVars
                PROVE  AbstractFifo!Next \/ UNCHANGED <<items, received>>
    OBVIOUS
  <2>1. CASE SchedNext /\ UNCHANGED <<mutexVars, queueVars>>
    BY <2>1 DEF queueVars
  <2>2. CASE \E t \in Thread : AnyStep(t)
    <3>1. PICK t \in Thread : AnyStep(t)
      BY <2>2
    <3>2. CASE Appended(t)
      BY <3>2 DEF Appended, AbstractFifo!Next, AbstractFifo!Put
    <3>3. CASE Popped(t)
      BY <3>3 DEF Popped, AbstractFifo!Next, AbstractFifo!Take
    <3>. QED
      BY <3>1, <3>2, <3>3, QueueMoves
  <2>3. CASE UNCHANGED allVars
    BY <2>3 DEF allVars, queueVars
  <2>4. Sender \subseteq Thread /\ Receiver \subseteq Thread
    BY QueueAssumption
  <2>. QED
    BY <2>1, <2>2, <2>3, <2>4 DEF QueueNext, AnyStep
<1>. QED
  BY <1>1, <1>2, QInvInit, QInvNext, PTL
     DEF QueueSpec, ImplementsFifo, AbstractFifo!Spec

(* A thread is in PopFront or PortPoll because it called them, and a new   *)
(* sighting of a message is made with the message there.                   *)
LEMMA ReceiverMoves ==
  ASSUME QInv, NEW t \in Thread, AnyStep(t)
  PROVE  /\ Receives(t)' => Receives(t) \/ RecvCall(t) \/ PollCall(t)
         /\ Saw(t)' => Saw(t) \/ items # <<>>
         /\ pc[t] = "recv_pop" => ~Saw(t)'
<1>. t \in Node
  BY ThreadIsNode, Zenon
<1>. USE DEF QInv, QueueTypeOK, Returns, Receives, Saw, ReceiverLabel, Locking, Releasing, Entry, Exit,
  Goto, Call, At, Still
<1>1. CASE FetchOr(t)
  BY <1>1, Zenon DEF FetchOr
<1>2. CASE Block(t)
  BY <1>2 DEF Block
<1>3. CASE PushBlocked(t)
  BY <1>3 DEF PushBlocked
<1>4. CASE ClearLock(t)
  BY <1>4 DEF ClearLock
<1>5. CASE CheckBlocked(t)
  BY <1>5, Zenon DEF CheckBlocked
<1>6. CASE PopBlocked(t)
  BY <1>6, Zenon DEF PopBlocked
<1>7. CASE Unblock(t)
  BY <1>7, Zenon DEF Unblock
<1>8. CASE EnqueueBlocked(t)
  BY <1>8, Zenon DEF EnqueueBlocked
<1>9. CASE AppendFind(t)
  BY <1>9, Zenon DEF AppendFind
<1>10. CASE AppendLink(t)
  BY <1>10, Zenon DEF AppendLink
<1>11. CASE WakeCheck(t)
  <2>1. CASE Goto(t, "wake_pop") /\ UNCHANGED ret
    BY <1>11, <2>1, Zenon DEF WakeCheck
  <2>2. CASE Call(t, "clear_lock", "user")
    BY <1>11, <2>2, Zenon DEF WakeCheck
  <2>. QED
    BY <1>11, <2>1, <2>2, Zenon DEF WakeCheck
<1>12. CASE WakePop(t)
  BY <1>12, Zenon DEF WakePop
<1>13. CASE WakeState(t)
  BY <1>13, Zenon DEF WakeState
<1>14. CASE WakeEnqueue(t)
  BY <1>14, Zenon DEF WakeEnqueue
<1>15. CASE RecvLock(t)
  BY <1>15, Zenon DEF RecvLock
<1>16. CASE RecvTest(t)
  <2>1. CASE Goto(t, "recv_block") /\ UNCHANGED ret
    BY <1>16, <2>1, Zenon DEF RecvTest
  <2>2. CASE Call(t, "clear_lock", "recv_relock") /\ items # <<>>
    BY <1>16, <2>2, Zenon DEF RecvTest
  <2>. QED
    BY <1>16, <2>1, <2>2, Zenon DEF RecvTest
<1>17. CASE RecvBlock(t)
  BY <1>17 DEF RecvBlock
<1>18. CASE RecvPush(t)
  BY <1>18 DEF RecvPush
<1>19. CASE RecvYield(t)
  BY <1>19 DEF RecvYield
<1>20. CASE RecvRelock(t)
  BY <1>20 DEF RecvRelock
<1>21. CASE RecvPeek(t)
  <2>1. CASE Goto(t, "recv_pop") /\ UNCHANGED ret
    BY <1>21, <2>1, Zenon DEF RecvPeek
  <2>2. CASE Call(t, "clear_lock", "user")
    BY <1>21, <2>2, Zenon DEF RecvPeek
  <2>. QED
    BY <1>21, <2>1, <2>2, Zenon DEF RecvPeek
<1>22. CASE RecvPop(t)
  BY <1>22, Zenon DEF RecvPop
<1>23. CASE PollTest(t)
  BY <1>23 DEF PollTest
<1>24. CASE PollRecv(t)
  BY <1>24 DEF PollRecv
<1>25. CASE SendCall(t)
  BY <1>25, Zenon DEF SendCall
<1>26. CASE RecvCall(t)
  BY <1>26 DEF RecvCall
<1>27. CASE PollCall(t)
  BY <1>27, Zenon DEF PollCall
<1>. QED
  BY <1>1, <1>2, <1>3, <1>4, <1>5, <1>6, <1>7, <1>8, <1>9, <1>10, <1>11, <1>12, <1>13,
     <1>14, <1>15, <1>16, <1>17, <1>18, <1>19, <1>20, <1>21, <1>22, <1>23, <1>24, <1>25,
     <1>26, <1>27, Zenon
  DEF AnyStep, QueueStep, Lock, Release, PushBackMessage, PopFrontMessage, Poll

(* A sighting stays true until another receiver takes the last message.    *)
LEMMA SeenInvNext ==
  ASSUME ~OvertakeRace, QInv, SeenInv, [QueueNext]_allVars
  PROVE  SeenInv'
<1>1. CASE SchedNext /\ UNCHANGED <<mutexVars, queueVars>>
  <2>1. /\ UNCHANGED <<ret, items>> /\ \A u \in Thread : u \in Node
        /\ \A u \in Node : pc'[u] # pc[u] => pc[u] \in SchedLabel /\ pc'[u] \in SchedLabel
    <3>1. UNCHANGED <<ret, items>> /\ \A u \in Thread : u \in Node
      BY <1>1 DEF mutexVars, queueVars, Thread
    <3>. QED
      BY <1>1, <3>1, SchedStep, Zenon
  <2>2. ASSUME NEW u \in Thread
        PROVE  (Receives(u)' => Receives(u)) /\ (Saw(u)' => Saw(u))
    <3>1. CASE pc'[u] = pc[u]
      BY <2>1, <3>1, Zenon DEF Receives, Saw
    <3>2. CASE pc'[u] \in SchedLabel
      BY <3>2 DEF Receives, Saw, ReceiverLabel, SchedLabel, Locking, Releasing
    <3>. QED
      BY <2>1, <3>1, <3>2, Zenon
  <2>. QED
    BY <2>1, <2>2, Zenon DEF SeenInv
<1>2. ASSUME NEW t \in Thread, AnyStep(t), RecvCall(t) \/ PollCall(t) => t \in Receiver
      PROVE  SeenInv'
  <2>1. /\ \A u \in Thread \ {t} : pc'[u] = pc[u] /\ ret'[u] = ret[u]
        /\ items \in Seq(Message)
    BY <1>2, ThreadMoves DEF AnyStep, Thread, QInv, QueueTypeOK
  <2>2. \A u \in Thread \ {t} : (Receives(u)' <=> Receives(u)) /\ (Saw(u)' <=> Saw(u))
    BY <2>1, Zenon DEF Receives, Saw
  <2>3. items' = items \/ Appended(t) \/ Popped(t)
    BY <1>2, QueueMoves, Zenon
  <2>4. /\ Receives(t)' => t \in Receiver
        /\ Saw(t)' => items # <<>>
        /\ pc[t] = "recv_pop" => ~Saw(t)'
    BY <1>2, ReceiverMoves DEF SeenInv
  <2>5. ASSUME NEW u \in Thread, Saw(u)'
        PROVE  items' # <<>>
    <3>1. CASE items' = items
      BY <2>2, <2>4, <2>5, <3>1 DEF SeenInv
    <3>2. CASE Appended(t)
      BY <2>1, <3>2 DEF Appended
    <3>3. CASE Popped(t)
      <4>1. u # t
        BY <2>4, <2>5, <3>3, Zenon DEF Popped
      <4>2. Saw(u)
        BY <2>2, <2>5, <4>1, Zenon
      <4>. QED
        BY <3>3, <4>1, <4>2, Zenon DEF Popped, OvertakeRace
    <3>. QED
      BY <2>3, <3>1, <3>2, <3>3
  <2>. QED
    BY <2>2, <2>4, <2>5 DEF SeenInv
<1>3. CASE UNCHANGED allVars
  BY <1>3, Zenon DEF allVars, vars, queueVars, SeenInv, Receives, Saw
<1>4. ASSUME NEW t \in Thread, QueueStep(t) \/ SendCall(t)
      PROVE  ~RecvCall(t) /\ ~PollCall(t)
  <2>. SUFFICES ASSUME At(t, "user")
                PROVE  ~RecvCall(t) /\ ~PollCall(t)
    BY DEF RecvCall, PollCall
  <2>1. ~QueueStep(t)
    BY Zenon DEF At, QueueStep, Lock, Release, PushBackMessage, PopFrontMessage, Poll,
       FetchOr, Block,
       PushBlocked, ClearLock, CheckBlocked, PopBlocked, Unblock, EnqueueBlocked, AppendFind,
       AppendLink, WakeCheck, WakePop, WakeState, WakeEnqueue, RecvLock, RecvTest, RecvBlock,
       RecvPush, RecvYield, RecvRelock, RecvPeek, RecvPop, PollTest, PollRecv
  <2>2. SendCall(t) => ~RecvCall(t) /\ ~PollCall(t)
    BY DEF SendCall, RecvCall, PollCall, queueVars, QInv, QueueTypeOK
  <2>. QED
    BY <1>4, <2>1, <2>2
<1>5. Sender \subseteq Thread /\ Receiver \subseteq Thread
  BY QueueAssumption
<1>6. ASSUME NEW t \in Thread, QueueStep(t)
      PROVE  SeenInv'
  <2>1. AnyStep(t) /\ ~RecvCall(t) /\ ~PollCall(t)
    BY <1>4, <1>6 DEF AnyStep
  <2>. QED
    BY <2>1, <1>2
<1>7. ASSUME NEW t \in Sender, SendCall(t)
      PROVE  SeenInv'
  <2>1. t \in Thread /\ AnyStep(t) /\ ~RecvCall(t) /\ ~PollCall(t)
    BY <1>4, <1>5, <1>7 DEF AnyStep
  <2>. QED
    BY <2>1, <1>2
<1>8. ASSUME NEW t \in Receiver, RecvCall(t) \/ PollCall(t)
      PROVE  SeenInv'
  <2>1. t \in Thread /\ AnyStep(t)
    BY <1>5, <1>8 DEF AnyStep
  <2>. QED
    BY <1>2, <1>8, <2>1
<1>. QED
  BY <1>1, <1>3, <1>6, <1>7, <1>8 DEF QueueNext

(* No thread is in a call at the start. *)
LEMMA SeenInvInit == QueueInit => SeenInv
<1>. SUFFICES ASSUME QueueInit PROVE SeenInv
  OBVIOUS
<1>1. \A t \in Thread : t \in Node /\ pc[t] \in {"spin", "user", "new"}
  BY Zenon DEF QueueInit, Init, SchedInit, Thread
<1>. QED
  BY <1>1 DEF SeenInv, Receives, Saw, ReceiverLabel, Locking, Releasing
=============================================================================
