---------------------------- MODULE MCLifecycle ----------------------------
(* Threads and processes that end, on small instances.                     *)
EXTENDS Lifecycle

CONSTANTS t1, t2, t3, p1, p2

(* t1 and t2 share a process; t3 is in one of its own. *)
TwoProcesses == [t \in User |-> IF t = t3 THEN p2 ELSE p1]

Everywhere == LifeLabel \cup {"yield"}

(* Not between a test and the list operation it justifies, in which the    *)
(* wake-up is lost, nor inside Yield.                                      *)
OutsideWindows ==
  Everywhere \ {"yield", "signal_pop", "sem_block", "sem_push",
                "join_block", "join_push"}

Lists == {"runnable", "sleeping", "semaphore"} \cup Thread
=============================================================================
