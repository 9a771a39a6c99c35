---------------------------- MODULE SharedAccess ----------------------------
(***************************************************************************)
(* Reading and writing one object of the shared library under its          *)
(* semaphore (shared.c): shared_read_locked, shared_write_locked, and the  *)
(* schema lock; read or write ...; unlock of readme.txt.  All processes    *)
(* have the object created and attached in the slot with one semaphore,    *)
(* which has been initialised to 1.                                        *)
(*                                                                         *)
(* An access takes the semaphore, copies the object cell by cell in an     *)
(* order nobody promises (memcpy, or several calls under one lock), and    *)
(* gives the semaphore back.  A process can be killed between any two      *)
(* steps; the kernel then applies its SEM_UNDO adjustment.  A semop that a *)
(* signal interrupts is repeated, which changes nothing.                   *)
(***************************************************************************)
EXTENDS Integers

CONSTANTS
  Proc,      \* the processes
  Cell,      \* the cells (bytes) of the object
  Val,       \* what a cell holds
  Content,   \* the complete contents clients write
  Initial,   \* the contents of the new object
  Broken     \* stands for contents nobody wrote

ASSUME AccessAssumption ==
  /\ Content \subseteq [Cell -> Val]
  /\ Initial \in Content
  /\ Broken \notin [Cell -> Val]

VARIABLES
  mem,        \* the object's memory
  sem,        \* the value of its semaphore
  undo,       \* the kernel's semadj of each process
  pc,         \* where each process is
  op,         \* the access it makes
  buf,        \* its buffer
  todo,       \* the cells it has still to copy
  committed,  \* history: the contents the last complete write left, or Broken
  got         \* history: what each process's last complete read returned

vars == <<mem, sem, undo, pc, op, buf, todo, committed, got>>

\* The object, the semaphore, the adjustments and the buffers have their types.
TypeOK ==
  /\ mem \in [Cell -> Val]
  /\ sem \in Int
  /\ undo \in [Proc -> Int]
  /\ pc \in [Proc -> {"idle", "lock", "copy", "unlock", "killed"}]
  /\ op \in [Proc -> {"read", "write"}]
  /\ buf \in [Proc -> [Cell -> Val]]
  /\ todo \in [Proc -> SUBSET Cell]
  /\ committed \in [Cell -> Val] \cup {Broken}
  /\ got \in [Proc -> [Cell -> Val] \cup {Broken}]

Init ==
  /\ mem = Initial
  /\ sem = 1
  /\ undo = [p \in Proc |-> 0]
  /\ pc = [p \in Proc |-> "idle"]
  /\ op = [p \in Proc |-> "read"]
  /\ buf = [p \in Proc |-> Initial]
  /\ todo = [p \in Proc |-> {}]
  /\ committed = Initial
  /\ got = [p \in Proc |-> Initial]

Goto(p, from, to) == pc[p] = from /\ pc' = [pc EXCEPT ![p] = to]

\* The call is made and its arguments are valid.
BeginWrite(p) ==
  /\ Goto(p, "idle", "lock")
  /\ op' = [op EXCEPT ![p] = "write"]
  /\ \E f \in Content : buf' = [buf EXCEPT ![p] = f]
  /\ UNCHANGED <<mem, sem, undo, todo, committed, got>>

BeginRead(p) ==
  /\ Goto(p, "idle", "lock")
  /\ op' = [op EXCEPT ![p] = "read"]
  /\ UNCHANGED <<mem, sem, undo, buf, todo, committed, got>>

\* Slip: the semaphore is not waited for.
SemLockNoWait(p) ==
  /\ Goto(p, "lock", "copy")
  /\ sem' = sem - 1
  /\ undo' = [undo EXCEPT ![p] = @ + 1]
  /\ todo' = [todo EXCEPT ![p] = Cell]
  /\ UNCHANGED <<mem, op, buf, committed, got>>

\* Slip: a reader does not wait for the semaphore.
SemLockWritersOnly(p) ==
  /\ Goto(p, "lock", "copy")
  /\ op[p] = "write" => sem > 0
  /\ sem' = sem - 1
  /\ undo' = [undo EXCEPT ![p] = @ + 1]
  /\ todo' = [todo EXCEPT ![p] = Cell]
  /\ UNCHANGED <<mem, op, buf, committed, got>>

\* shared_lock_internal
SemLock(p) ==
  /\ Goto(p, "lock", "copy")
  /\ sem > 0
  /\ sem' = sem - 1
  /\ undo' = [undo EXCEPT ![p] = @ + 1]
  /\ todo' = [todo EXCEPT ![p] = Cell]
  /\ UNCHANGED <<mem, op, buf, committed, got>>

\* memcpy, one cell
CopyOut(p, c) ==
  /\ pc[p] = "copy" /\ op[p] = "write" /\ c \in todo[p]
  /\ mem' = [mem EXCEPT ![c] = buf[p][c]]
  /\ todo' = [todo EXCEPT ![p] = @ \ {c}]
  /\ UNCHANGED <<sem, undo, pc, op, buf, committed, got>>

CopyIn(p, c) ==
  /\ pc[p] = "copy" /\ op[p] = "read" /\ c \in todo[p]
  /\ buf' = [buf EXCEPT ![p][c] = mem[c]]
  /\ todo' = [todo EXCEPT ![p] = @ \ {c}]
  /\ UNCHANGED <<mem, sem, undo, pc, op, committed, got>>

\* Slip: memcpy with too small a length.
CopyDoneEarly(p) ==
  /\ Goto(p, "copy", "unlock")
  /\ todo[p] # Cell
  /\ UNCHANGED <<mem, sem, undo, op, buf, todo, committed, got>>

CopyDone(p) ==
  /\ Goto(p, "copy", "unlock")
  /\ todo[p] = {}
  /\ UNCHANGED <<mem, sem, undo, op, buf, todo, committed, got>>

\* shared_unlock_internal; the access is complete.
SemUnlock(p) ==
  /\ Goto(p, "unlock", "idle")
  /\ sem' = sem + 1
  /\ undo' = [undo EXCEPT ![p] = @ - 1]
  /\ committed' = IF op[p] = "write" THEN buf[p] ELSE committed
  /\ got' = [got EXCEPT ![p] = IF op[p] = "write" THEN @
                               ELSE IF committed = Broken THEN Broken ELSE buf[p]]
  /\ UNCHANGED <<mem, op, buf, todo>>

\* What the death of p leaves of the object: a copy it had begun and not finished.
Leaves(p) == IF op[p] = "write" /\ pc[p] \in {"copy", "unlock"}
             THEN IF todo[p] = {} THEN buf[p]
                  ELSE IF todo[p] = Cell THEN committed ELSE Broken
             ELSE committed

\* Slip: semop without SEM_UNDO.
KillNoUndo(p) ==
  /\ pc[p] # "killed"
  /\ pc' = [pc EXCEPT ![p] = "killed"]
  /\ undo' = [undo EXCEPT ![p] = 0]
  /\ todo' = [todo EXCEPT ![p] = {}]
  /\ committed' = Leaves(p)
  /\ UNCHANGED <<mem, sem, op, buf, got>>

\* The process is killed, or exits; the kernel undoes its semaphore operations.
Kill(p) ==
  /\ pc[p] # "killed"
  /\ pc' = [pc EXCEPT ![p] = "killed"]
  /\ sem' = sem + undo[p]
  /\ undo' = [undo EXCEPT ![p] = 0]
  /\ todo' = [todo EXCEPT ![p] = {}]
  /\ committed' = Leaves(p)
  /\ UNCHANGED <<mem, op, buf, got>>

\* Another process of the same program takes its place.
Restart(p) ==
  /\ Goto(p, "killed", "idle")
  /\ UNCHANGED <<mem, sem, undo, op, buf, todo, committed, got>>

Step(p) == \/ BeginWrite(p) \/ BeginRead(p)
           \/ SemLock(p)
           \/ \E c \in Cell : CopyOut(p, c) \/ CopyIn(p, c)
           \/ CopyDone(p) \/ SemUnlock(p)
           \/ Kill(p) \/ Restart(p)

Next == \E p \in Proc : Step(p)

(***************************************************************************)
(* A process inside the library goes on until it is killed.  The kernel    *)
(* serves the processes waiting for a semaphore in their order of arrival, *)
(* so one that waits is not passed over for ever: strong fairness.         *)
(***************************************************************************)
Fairness == \A p \in Proc :
  /\ SF_vars(SemLock(p))
  /\ WF_vars((\E c \in Cell : CopyOut(p, c) \/ CopyIn(p, c)) \/ CopyDone(p) \/ SemUnlock(p))

Spec == Init /\ [][Next]_vars
FairSpec == Spec /\ Fairness

-----------------------------------------------------------------------------
Inside(p) == pc[p] \in {"copy", "unlock"}

(***************************************************************************)
(* At most one process is between its shared_lock_internal and its         *)
(* shared_unlock_internal, also when processes are killed inside.          *)
(***************************************************************************)
MutualExclusion == \A p, q \in Proc : Inside(p) /\ Inside(q) => p = q

(***************************************************************************)
(* A read that has copied everything returns what the last complete write  *)
(* left, although the copy is made cell by cell; the one exception is an   *)
(* object whose last writer was killed between its first and last cell,    *)
(* because SEM_UNDO opens the semaphore on a half-written object.          *)
(***************************************************************************)
ReadsAreWhole ==
  \A p \in Proc : pc[p] = "unlock" /\ op[p] = "read" /\ committed # Broken
                    => buf[p] = committed

Object == INSTANCE AtomicObject WITH Process <- Proc, value <- committed

(***************************************************************************)
(* shared_read_locked and shared_write_locked, which copy cell by cell,    *)
(* implement an atomic object (AtomicObject), also when processes die.     *)
(***************************************************************************)
ImplementsObject == Object!ObjectSpec

(***************************************************************************)
(* Whoever waits in shared_lock_internal gets the semaphore or is killed:  *)
(* no unlock is missing on any path, the death of the holder included.     *)
(***************************************************************************)
WaitEnds == \A p \in Proc : pc[p] = "lock" ~> pc[p] # "lock"
=============================================================================
