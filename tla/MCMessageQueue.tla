--------------------------- MODULE MCMessageQueue ---------------------------
EXTENDS MessageQueue

(* The timer may arrive between any two statements. *)
Everywhere == QueueLabel \cup {"yield"}

(* ... except in the windows of Mutex that MCMutex singles out, and inside *)
(* Yield, where a preempted sleep thread may find nothing to switch to.    *)
OutsideWindows ==
  Everywhere \ {"pop_blocked", "block", "push_blocked", "yield"}
=============================================================================
