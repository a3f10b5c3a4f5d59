---------------------------- MODULE KernelRaces ----------------------------
(***************************************************************************)
(* The races that the kernel does not exclude.  The timer may arrive at    *)
(* any statement, and any number of threads may receive from one queue:    *)
(* the code masks no interrupt and tests nothing twice where that would do *)
(* harm.  The history variable races records which of these races have     *)
(* happened, so that a property can say what holds until one does.         *)
(***************************************************************************)
EXTENDS MessageQueue

VARIABLE races

racedVars == <<allVars, races>>

(* The timer interrupts the current thread. *)
Ticks == tick = "off" /\ tick' # "off"

TicksAt(labels) ==
  Ticks /\ mode[sched.current] = "run" /\ pc[sched.current] \in labels

(* The statements of PopFront and PortPoll after a message was seen. *)
Saw(t) ==
  \/ pc[t] \in {"recv_relock", "recv_peek", "recv_pop", "poll_recv", "poll_recv_test"}
  \/ pc[t] \in Locking /\ ret[t] \in {"recv_peek", "poll_recv_test"}
  \/ pc[t] \in Releasing /\ ret[t] \in {"recv_relock", "poll_recv"}

(* A tick in Yield, before its cli. *)
YieldRace == Ticks /\ mode[sched.current] # "run"

(* A tick in Release after blocked_threads_ was seen not to be empty. *)
ReleaseRace == TicksAt({"pop_blocked"})

(* A tick in Lock after fetch_or failed, before the thread is a waiter. *)
LockRace == TicksAt({"block", "push_blocked"})

(* A tick while the current thread is on a list, where Preempt puts it on  *)
(* runnable_threads_ through the same links.                               *)
ListedRace == Ticks /\ \E q \in ListId : sched.current \in On(sched, q)

(* A receiver takes the last message, which another one has seen. *)
OvertakeRace ==
  /\ pc[sched.current] = "recv_pop" /\ items # <<>> /\ items' = <<>>
  /\ \E t \in Thread \ {sched.current} : Saw(t)

(* A receiver that was woken leaves the message, which does not fit, while *)
(* others wait.                                                            *)
RefuseRace ==
  /\ pc[sched.current] = "recv_peek" /\ pc' # pc
  /\ sched.current \in Small /\ On(sched, "queue") # {}

Race == {"yield", "release", "lock", "listed", "overtake", "refuse"}

Occurred ==
  {r \in Race : \/ r = "yield" /\ YieldRace
                \/ r = "release" /\ ReleaseRace
                \/ r = "lock" /\ LockRace
                \/ r = "listed" /\ ListedRace
                \/ r = "overtake" /\ OvertakeRace
                \/ r = "refuse" /\ RefuseRace}

RacedInit == QueueInit /\ races = {}

RacedNext == QueueNext /\ races' = races \cup Occurred

RacedSpec == RacedInit /\ [][RacedNext]_racedVars

-----------------------------------------------------------------------------
(* None of the races that break the lists has happened. *)
Calm == races \subseteq {"lock", "refuse"}

(* No assertion of the scheduler, of Thread or of the lists fails and no   *)
(* null pointer is followed, until one of these races happens: a tick in   *)
(* Yield, in Release or on a listed thread, or a receiver overtaken by     *)
(* another.                                                                *)
NoPanicUnlessRaced == Calm => NoPanic

(* Until then every list is intact, and every started thread that neither  *)
(* runs nor is being woken is on exactly one.                              *)
OneListUnlessRaced == Calm => EveryThreadOnOneList

(* Until then, and until a tick arrives in Lock between the failed         *)
(* fetch_or and the insertion, Release wakes a waiter if there is one.     *)
WakeupUnlessRaced == Calm /\ "lock" \notin races => NoLostWakeup

(* Until then, and until a woken receiver refuses its message, no receiver *)
(* sleeps on a message: there are as many threads on their way to wake a   *)
(* receiver or to take a message as there are messages.                    *)
MessageUnlessRaced == Calm /\ "refuse" \notin races => NoMissedMessage

(* Until then PortPoll does not block: the message that HasMessages saw is *)
(* still there when Recv looks for it, however many threads receive.       *)
PollUnlessRaced ==
  Calm => \A t \in Thread : At(t, "poll_recv_test") => items # <<>>
=============================================================================
