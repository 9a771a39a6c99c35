------------------------------- MODULE Mutex -------------------------------
(***************************************************************************)
(* What a set of binary semaphores promises its users: each lock has at    *)
(* most one holder, only its holder gives it back, and a process that ends *)
(* gives back everything it holds.                                         *)
(***************************************************************************)
CONSTANTS Process, LockId,
          Nobody    \* stands for no process

VARIABLE holder   \* [LockId -> Process \cup {Nobody}]

MutexInit == holder = [l \in LockId |-> Nobody]

Acquire(p, l) == holder[l] = Nobody /\ holder' = [holder EXCEPT ![l] = p]

Release(p, l) == holder[l] = p /\ holder' = [holder EXCEPT ![l] = Nobody]

End(p) == holder' = [l \in LockId |-> IF holder[l] = p THEN Nobody ELSE holder[l]]

MutexNext == \E p \in Process :
               \/ \E l \in LockId : Acquire(p, l) \/ Release(p, l)
               \/ End(p)

MutexSpec == MutexInit /\ [][MutexNext]_holder
=============================================================================
