------------------------------ MODULE MCKernel ------------------------------
EXTENDS KernelRaces

(* The timer may arrive between any two statements. *)
Everywhere == QueueLabel \cup {"yield"}

(* Bound: a behaviour is followed up to the first race after which no      *)
(* property says anything.                                                 *)
StoppedNext ==
  \/ Calm /\ RacedNext
  \/ ~Calm /\ UNCHANGED racedVars

StoppedSpec == RacedInit /\ [][StoppedNext]_racedVars
=============================================================================
