---------------------------- MODULE SharedUsage ----------------------------
(***************************************************************************)
(* The library used the way its readme.txt asks:                           *)
(*   "init"    one process, the Initializer, initialises the semaphores,   *)
(*             before anyone else initialises the library; nobody          *)
(*             initialises it twice;                                       *)
(*   "fini"    shared_fini is called when nobody else uses the library;    *)
(*   "order"   every process creates its objects in the same order, so     *)
(*             that a key has the same slot everywhere;                    *)
(*   "verbose" the processes run with SHARED_VERB.                         *)
(* Rules is the set of rules the clients keep.  The readme states the      *)
(* first two; the other two are what the code needs besides.               *)
(***************************************************************************)
EXTENDS SharedLib

CONSTANTS
  Initializer,  \* the process that passes SHARED_INITIALIZE
  Rules,        \* the rules that are kept
  SlotOf,       \* the slot every process gives a key, under "order"
  Nobody

ASSUME UsageAssumption ==
  /\ Initializer \in Proc
  /\ Rules \subseteq {"init", "fini", "order", "verbose"}
  /\ SlotOf \in [Key -> Slot]
  /\ \A k, m \in Key : SlotOf[k] = SlotOf[m] => k = m
  /\ Nobody \notin Proc

-----------------------------------------------------------------------------
MayInit(p, ini) ==
  /\ held[p] = {}
  /\ "verbose" \in Rules => verb[p]
  /\ "init" \in Rules =>
       /\ ~initialized[p]
       /\ IF p = Initializer THEN ini /\ LiveSems = {}
                             ELSE ~ini /\ initialized[Initializer]

MayFini(p) ==
  /\ held[p] = {}
  /\ "fini" \in Rules => \A q \in Proc \ {p} : ~initialized[q]

MayCreate(p, k) ==
  "order" \in Rules /\ k \in Key => SlotOf[k] \in FirstFree(p)

UCall(p) ==
  \/ \E v \in BOOLEAN : ("verbose" \in Rules => v) /\ SetVerbose(p, v)
  \/ \E ini \in BOOLEAN : MayInit(p, ini) /\ InitSemget(p, ini)
  \/ InitSemctl(p)
  \/ \E k \in AnyKey, n \in Sizes : MayCreate(p, k) /\ CreateShmget(p, k, n)
  \/ CreateShmat(p)
  \/ CreateShmatFails(p)
  \/ \E id \in Slot : Attach(p, id)
  \/ \E id \in Slot : Detach(p, id)
  \/ \E id \in Slot : Destroy(p, id)
  \/ MayFini(p) /\ Fini(p)
  \/ \E id \in Slot \ held[p] : Lock(p, id)
  \/ \E id \in held[p] : Unlock(p, id)
  \/ held[p] = {} /\ \E q \in Proc : Fork(p, q)
  \/ Exit(p)

UNext == \E p \in Proc : UCall(p)

USpec == Init /\ [][UNext]_vars

-----------------------------------------------------------------------------
(***************************************************************************)
(* Two processes never both hold the lock of one segment.  The lock of a   *)
(* segment is the semaphore with the number of the slot the segment has in *)
(* the caller's own table (shared.c:410, 430), so this relates the tables  *)
(* of different processes to each other and to the semaphores.             *)
(***************************************************************************)
MutualExclusion ==
  \A p, q \in Proc : \A i \in held[p], j \in held[q] :
    p # q /\ Used(p, i) => obj[p][i].shmid # obj[q][j].shmid

(***************************************************************************)
(* No semaphore is lost or multiplied: in a process that uses the library  *)
(* it is 1 when nobody holds its lock and 0 when someone does, also after  *)
(* the holder was killed (SEM_UNDO, shared.c:45, 67).                      *)
(***************************************************************************)
SemaphoreConserved ==
  \A p \in Proc, id \in Slot :
    initialized[p] /\ pc[p] # "semctl" =>
      /\ SemLive(semid[p])
      /\ sem[semid[p]].val[id] = IF \E q \in Proc : id \in held[q] THEN 0 ELSE 1

Locks == INSTANCE Mutex WITH
  Process <- Proc,
  LockId <- Slot,
  holder <- [id \in Slot |-> IF \E p \in Proc : id \in held[p]
                             THEN CHOOSE p \in Proc : id \in held[p]
                             ELSE Nobody]

(***************************************************************************)
(* Slot id's semaphore is a mutex: shared_lock and shared_unlock, with the *)
(* exits and forks around them, implement Mutex.                           *)
(***************************************************************************)
ImplementsMutex == Locks!MutexSpec
=============================================================================
