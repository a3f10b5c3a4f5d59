------------------------------ MODULE MCMutex ------------------------------
EXTENDS MutexClients, TLC

(* The timer may arrive between any two statements. *)
Everywhere == Label \cup {"yield"}

(* ... but not between the test of blocked_threads_.size() and PopFront in *)
(* Release.                                                                *)
OutsidePopWindow == Everywhere \ {"pop_blocked"}

(* The threads that are not started at boot are alike. *)
Symmetry == Permutations(Thread \ {First})
=============================================================================
