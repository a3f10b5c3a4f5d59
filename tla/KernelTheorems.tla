--------------------------- MODULE KernelTheorems ---------------------------
(***************************************************************************)
(* What is proved about the kernel as a whole, for any number of threads   *)
(* that sleep, start each other, lock a mutex, send and receive messages,  *)
(* and a timer that may arrive at any statement: the invariants of         *)
(* KernelProofs put together with what ListProofs shows of the lists.      *)
(*                                                                         *)
(* The code does not guarantee any of it for every arrival of the timer    *)
(* and every number of receivers.  Each theorem therefore holds until one  *)
(* of the races has happened that KernelRaces names, and the model checker *)
(* shows of each of them that it does break what it is excepted from.      *)
(***************************************************************************)
EXTENDS KernelProofs, ListProofs

(* No assertion of the scheduler, of Thread or of the lists fails, and no  *)
(* null pointer is followed: for any threads, senders and receivers, until *)
(* a tick arrives in Yield, in Release after its test or on a thread that  *)
(* is on a list, or a receiver is overtaken by another.                    *)
THEOREM KernelNeverPanics == RacedSpec => []NoPanicUnlessRaced
<1>1. RacedSpec => [](QInv /\ (Calm => SeenInv /\ KInv))
  BY ListsDoWork, KernelInvariant
<1>2. (Calm => SeenInv /\ KInv) => NoPanicUnlessRaced
  BY KInvNoPanic, Zenon DEF NoPanicUnlessRaced
<1>. QED
  BY <1>1, <1>2, PTL

(* Until then every list stays well formed, and every started thread that  *)
(* is neither running nor being woken is on exactly one list.              *)
THEOREM NoThreadLost == RacedSpec => []OneListUnlessRaced
<1>1. RacedSpec => [](QInv /\ (Calm => SeenInv /\ KInv))
  BY ListsDoWork, KernelInvariant
<1>2. (Calm => SeenInv /\ KInv) => OneListUnlessRaced
  BY ListsDoWork, KInvOneList, Zenon DEF OneListUnlessRaced
<1>. QED
  BY <1>1, <1>2, PTL

(* Release wakes a waiter if there is one: until then, and until a tick    *)
(* arrives between a failed fetch_or and the Yield of Lock, a free mutex   *)
(* with waiters always has a thread on its way to take it or to wake one.  *)
THEOREM WakeupsAreNotLost == RacedSpec => []WakeupUnlessRaced
BY ListsDoWork, WakesAlways

(* No receiver sleeps on a message: until then, and until a receiver that  *)
(* was woken refuses its message, as many threads attend to the queue as   *)
(* there are messages in it whenever some receiver waits, for any number   *)
(* of senders and receivers.                                               *)
THEOREM MessagesAreNotMissed == RacedSpec => []MessageUnlessRaced
BY ListsDoWork, MessagesAlways

(* PortPoll does not block: until then the message that HasMessages saw is *)
(* there when Recv looks for it, for any number of senders and receivers   *)
(* and although the mutex is released in between.                          *)
THEOREM PollingDoesNotBlock == RacedSpec => []PollUnlessRaced
<1>1. RacedSpec => [](QInv /\ (Calm => SeenInv /\ KInv))
  BY ListsDoWork, KernelInvariant
<1>2. ASSUME SeenInv, NEW t \in Thread, At(t, "poll_recv_test")
      PROVE  items # <<>>
  <2>1. Saw(t)
    BY <1>2, Zenon DEF At, Saw
  <2>. QED
    BY <1>2, <2>1, Zenon DEF SeenInv
<1>3. (Calm => SeenInv /\ KInv) => PollUnlessRaced
  BY <1>2, Zenon DEF PollUnlessRaced
<1>. QED
  BY <1>1, <1>3, PTL
=============================================================================
