---------------------------- MODULE MutexClients ----------------------------
(***************************************************************************)
(* The threads that use a mutex through the system calls MutexLock and     *)
(* MutexRelease (zion/syscall/synchronization.cpp).  Neither looks at who  *)
(* has the mutex: a thread may lock a mutex that it has, and release one   *)
(* that it does not have.                                                  *)
(***************************************************************************)
EXTENDS Mutex

CONSTANT MaxStrays   \* bound: no new stray release once there were so many

ASSUME ClientsAssumption == MaxStrays \in Nat

VARIABLES
  holders,   \* the threads that Lock has returned to and that did not release
  strays     \* how often a thread released a mutex that it did not have

history == <<holders, strays>>

clientVars == <<vars, history>>

ClientInit ==
  /\ Init
  /\ holders = {}
  /\ strays = 0

LockCall(t) ==
  /\ At(t, "user")
  /\ Call(t, "fetch_or", "user")
  /\ UNCHANGED <<sched, lock, Locals>>

ReleaseCall(t) ==
  /\ At(t, "user")
  /\ t \in holders \/ strays < MaxStrays
  /\ Call(t, "clear_lock", "user")
  /\ UNCHANGED <<sched, lock, Locals>>

(* A statement of Lock, and whether it returns. *)
LockStep(t) ==
  /\ Lock(t)
  /\ holders' = IF pc'[t] = "user" THEN holders \cup {t} ELSE holders
  /\ UNCHANGED strays

(* The store lock_ = 0 gives the mutex back, whoever has it. *)
ClearStep(t) ==
  /\ ClearLock(t)
  /\ holders' = holders \ {t}
  /\ strays' = IF t \in holders THEN strays ELSE strays + 1

ClientStep(t) ==
  \/ LockStep(t)
  \/ ClearStep(t)
  \/ /\ LockCall(t) \/ ReleaseCall(t) \/ CheckBlocked(t) \/ PopBlocked(t)
          \/ Unblock(t) \/ EnqueueBlocked(t)
     /\ UNCHANGED history

ClientNext ==
  \/ SchedNext /\ UNCHANGED <<mutexVars, history>>
  \/ \E t \in Thread : ClientStep(t)

ClientSpec == ClientInit /\ [][ClientNext]_clientVars

-----------------------------------------------------------------------------
TypeOK ==
  /\ CoreTypeOK
  /\ pc \in [Node -> Label]
  /\ lock \in {0, 1}
  /\ ret \in [Node -> {"user"}]
  /\ holders \subseteq Thread
  /\ strays \in Nat

(* At most one thread is between Lock and Release, wherever the timer      *)
(* arrives and whatever it does to the lists, as long as no thread         *)
(* releases a mutex that it does not have; and every time one does lets in *)
(* at most one thread more.                                                *)
MutualExclusion == Cardinality(holders) <= 1 + strays

(* The lock word is set only while some thread has the mutex, so that a    *)
(* stray release cannot leave it locked for good; and it is set all that   *)
(* time if there was none.                                                 *)
LockWord ==
  /\ lock = 1 => holders # {}
  /\ strays = 0 /\ holders # {} => lock = 1
=============================================================================
