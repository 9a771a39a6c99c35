------------------------ MODULE SharedAccess_proofs ------------------------
(***************************************************************************)
(* Proofs about SharedAccess, for any processes, cells and contents.  The  *)
(* inductive invariant says who has the semaphore (SemInv) and what the    *)
(* half-finished copies and the memory hold (DataInv).                     *)
(***************************************************************************)
EXTENDS SharedAccess, TLAPS

NoneInside == \A p \in Proc : ~Inside(p)

\* The semaphore is 1 with nobody inside, or 0 with exactly one process inside,
\* and a process has an adjustment to undo exactly when it is inside.
SemInv ==
  /\ \A p \in Proc : undo[p] = IF Inside(p) THEN 1 ELSE 0
  /\ \/ sem = 1 /\ NoneInside
     \/ sem = 0 /\ MutualExclusion

Writing(p) == Inside(p) /\ op[p] = "write"

\* What has been copied so far is right, and an object nobody is writing holds
\* what was committed.
DataInv ==
  /\ \A p \in Proc : pc[p] = "unlock" => todo[p] = {}
  /\ \A p \in Proc : pc[p] \in {"lock", "copy", "unlock"} /\ op[p] = "write" => buf[p] \in Content
  /\ \A p \in Proc : Writing(p) => \A c \in Cell \ todo[p] : mem[c] = buf[p][c]
  /\ \A p \in Proc : Writing(p) /\ todo[p] = Cell /\ committed # Broken => mem = committed
  /\ \A p \in Proc : Inside(p) /\ op[p] = "read" /\ committed # Broken =>
                       \A c \in Cell \ todo[p] : buf[p][c] = committed[c]
  /\ (\A p \in Proc : ~Writing(p)) /\ committed # Broken => mem = committed

IInv == TypeOK /\ SemInv /\ DataInv

-----------------------------------------------------------------------------
\* Every step keeps the variables in their types.
LEMMA TypeCorrect == Spec => []TypeOK
<1> USE AccessAssumption
<1>1. Init => TypeOK
  BY DEF Init, TypeOK
<1>2. TypeOK /\ [Next]_vars => TypeOK'
  <2> SUFFICES ASSUME TypeOK, [Next]_vars PROVE TypeOK'
    OBVIOUS
  <2> USE DEF TypeOK
  <2>1. ASSUME NEW p \in Proc, BeginWrite(p) PROVE TypeOK'
    BY <2>1 DEF BeginWrite, Goto
  <2>2. ASSUME NEW p \in Proc, BeginRead(p) PROVE TypeOK'
    BY <2>2 DEF BeginRead, Goto
  <2>3. ASSUME NEW p \in Proc, SemLock(p) PROVE TypeOK'
    BY <2>3 DEF SemLock, Goto
  <2>4. ASSUME NEW p \in Proc, NEW c \in Cell, CopyOut(p, c) PROVE TypeOK'
    BY <2>4 DEF CopyOut
  <2>5. ASSUME NEW p \in Proc, NEW c \in Cell, CopyIn(p, c) PROVE TypeOK'
    BY <2>5 DEF CopyIn
  <2>6. ASSUME NEW p \in Proc, CopyDone(p) PROVE TypeOK'
    BY <2>6 DEF CopyDone, Goto
  <2>7. ASSUME NEW p \in Proc, SemUnlock(p) PROVE TypeOK'
    BY <2>7 DEF SemUnlock, Goto
  <2>8. ASSUME NEW p \in Proc, Kill(p) PROVE TypeOK'
    BY <2>8 DEF Kill, Leaves
  <2>9. ASSUME NEW p \in Proc, Restart(p) PROVE TypeOK'
    BY <2>9 DEF Restart, Goto
  <2>10. CASE UNCHANGED vars
    BY <2>10 DEF vars
  <2> QED
    BY <2>1, <2>2, <2>3, <2>4, <2>5, <2>6, <2>7, <2>8, <2>9, <2>10 DEF Next, Step
<1> QED
  BY <1>1, <1>2, PTL DEF Spec

-----------------------------------------------------------------------------
\* The semaphore has exactly one process inside or is open, whoever is killed when.
LEMMA SemaphoreInvariant == Spec => []SemInv
<1>1. Init => SemInv
  BY DEF Init, SemInv, Inside, NoneInside
<1>2. TypeOK /\ SemInv /\ [Next]_vars => SemInv'
  <2> SUFFICES ASSUME TypeOK, SemInv, [Next]_vars PROVE SemInv'
    OBVIOUS
  <2> USE DEF TypeOK, SemInv, Inside, NoneInside, MutualExclusion
  <2>1. ASSUME NEW p \in Proc, BeginWrite(p) PROVE SemInv'
    BY <2>1 DEF BeginWrite, Goto
  <2>2. ASSUME NEW p \in Proc, BeginRead(p) PROVE SemInv'
    BY <2>2 DEF BeginRead, Goto
  <2>3. ASSUME NEW p \in Proc, SemLock(p) PROVE SemInv'
    BY <2>3 DEF SemLock, Goto
  <2>4. ASSUME NEW p \in Proc, NEW c \in Cell, CopyOut(p, c) PROVE SemInv'
    BY <2>4 DEF CopyOut
  <2>5. ASSUME NEW p \in Proc, NEW c \in Cell, CopyIn(p, c) PROVE SemInv'
    BY <2>5 DEF CopyIn
  <2>6. ASSUME NEW p \in Proc, CopyDone(p) PROVE SemInv'
    BY <2>6 DEF CopyDone, Goto
  <2>7. ASSUME NEW p \in Proc, SemUnlock(p) PROVE SemInv'
    BY <2>7 DEF SemUnlock, Goto
  <2>8. ASSUME NEW p \in Proc, Kill(p) PROVE SemInv'
    <3>1. CASE Inside(p)
      BY <2>8, <3>1 DEF Kill
    <3>2. CASE ~Inside(p)
      BY <2>8, <3>2 DEF Kill
    <3> QED
      BY <3>1, <3>2
  <2>9. ASSUME NEW p \in Proc, Restart(p) PROVE SemInv'
    BY <2>9 DEF Restart, Goto
  <2>10. CASE UNCHANGED vars
    BY <2>10 DEF vars
  <2> QED
    BY <2>1, <2>2, <2>3, <2>4, <2>5, <2>6, <2>7, <2>8, <2>9, <2>10 DEF Next, Step
<1> QED
  BY <1>1, <1>2, TypeCorrect, PTL DEF Spec

\* At most one process is between shared_lock_internal and shared_unlock_internal.
THEOREM AccessIsExclusive == Spec => []MutualExclusion
<1>1. SemInv => MutualExclusion
  BY DEF SemInv, MutualExclusion, NoneInside
<1> QED
  BY <1>1, SemaphoreInvariant, PTL

-----------------------------------------------------------------------------
\* The invariant about the data.  Each step is seen by one process alone inside.
LEMMA DataInvariant == Spec => []DataInv
<1> USE AccessAssumption
<1>1. Init => DataInv
  BY DEF Init, DataInv, Inside, Writing
<1>2. TypeOK /\ SemInv /\ DataInv /\ [Next]_vars => DataInv'
  <2> SUFFICES ASSUME TypeOK, SemInv, DataInv, [Next]_vars PROVE DataInv'
    OBVIOUS
  <2>0. \A p, q \in Proc : Inside(p) /\ Inside(q) => p = q
    BY DEF SemInv, NoneInside, MutualExclusion
  <2> USE DEF TypeOK, DataInv, Inside, Writing
  <2>1. ASSUME NEW p \in Proc, BeginWrite(p) PROVE DataInv'
    BY <2>1 DEF BeginWrite, Goto
  <2>2. ASSUME NEW p \in Proc, BeginRead(p) PROVE DataInv'
    BY <2>2 DEF BeginRead, Goto
  <2>3. ASSUME NEW p \in Proc, SemLock(p) PROVE DataInv'
    <3>1. NoneInside
      BY <2>3 DEF SemLock, SemInv
    <3> QED
      BY <2>3, <3>1 DEF SemLock, Goto, NoneInside
  <2>4. ASSUME NEW p \in Proc, NEW c \in Cell, CopyOut(p, c) PROVE DataInv'
    BY <2>0, <2>4 DEF CopyOut
  <2>5. ASSUME NEW p \in Proc, NEW c \in Cell, CopyIn(p, c) PROVE DataInv'
    BY <2>0, <2>5 DEF CopyIn
  <2>6. ASSUME NEW p \in Proc, CopyDone(p) PROVE DataInv'
    BY <2>0, <2>6 DEF CopyDone, Goto
  <2>7. ASSUME NEW p \in Proc, SemUnlock(p) PROVE DataInv'
    <3>1. op[p] = "write" => mem = buf[p]
      BY <2>7 DEF SemUnlock, Goto
    <3> QED
      BY <2>0, <2>7, <3>1 DEF SemUnlock, Goto
  <2>8. ASSUME NEW p \in Proc, Kill(p) PROVE DataInv'
    <3>1. Writing(p) /\ todo[p] = {} => mem = buf[p]
      OBVIOUS
    <3> QED
      BY <2>0, <2>8, <3>1 DEF Kill, Leaves
  <2>9. ASSUME NEW p \in Proc, Restart(p) PROVE DataInv'
    BY <2>9 DEF Restart, Goto
  <2>10. CASE UNCHANGED vars
    BY <2>10 DEF vars
  <2> QED
    BY <2>1, <2>2, <2>3, <2>4, <2>5, <2>6, <2>7, <2>8, <2>9, <2>10 DEF Next, Step
<1> QED
  BY <1>1, <1>2, TypeCorrect, SemaphoreInvariant, PTL DEF Spec

\* A completed read returns what the last completed write left.
THEOREM ReadsReturnWholeContents == Spec => []ReadsAreWhole
<1>1. TypeOK /\ DataInv => ReadsAreWhole
  <2> SUFFICES ASSUME TypeOK, DataInv, NEW p \in Proc,
                      pc[p] = "unlock", op[p] = "read", committed # Broken
               PROVE  buf[p] = committed
    BY DEF ReadsAreWhole
  <2>1. \A c \in Cell : buf[p][c] = committed[c]
    BY DEF DataInv, Inside
  <2> QED
    BY <2>1 DEF TypeOK
<1> QED
  BY <1>1, TypeCorrect, DataInvariant, PTL

-----------------------------------------------------------------------------
\* The access functions implement an atomic object.
THEOREM AccessRefinesObject == Spec => ImplementsObject
<1>1. Init => Object!ObjectInit
  BY DEF Init, Object!ObjectInit
<1>2. TypeOK /\ DataInv /\ ReadsAreWhole /\ [Next]_vars
        => [Object!ObjectNext]_<<committed, got>>
  <2> SUFFICES ASSUME TypeOK, DataInv, ReadsAreWhole, [Next]_vars
               PROVE  [Object!ObjectNext]_<<committed, got>>
    OBVIOUS
  <2> USE DEF Object!ObjectNext, Object!Put, Object!Get, Object!Break
  <2>1. ASSUME NEW p \in Proc, SemUnlock(p) PROVE [Object!ObjectNext]_<<committed, got>>
    <3>1. CASE op[p] = "write"
      <4>1. committed' \in Content /\ got' = got
        BY <2>1, <3>1 DEF SemUnlock, Goto, DataInv, TypeOK
      <4> QED
        BY <4>1
    <3>2. CASE op[p] = "read"
      <4>1. Object!Get(p)
        BY <2>1, <3>2 DEF SemUnlock, Goto, ReadsAreWhole, TypeOK
      <4> QED
        BY <4>1
    <3> QED
      BY <3>1, <3>2 DEF TypeOK
  <2>2. ASSUME NEW p \in Proc, Kill(p) PROVE [Object!ObjectNext]_<<committed, got>>
    <3>1. got' = got
      BY <2>2 DEF Kill
    <3>2. committed' \in Content \/ committed' = Broken \/ committed' = committed
      BY <2>2 DEF Kill, Leaves, DataInv, TypeOK
    <3> QED
      BY <3>1, <3>2
  <2>3. ASSUME NEW p \in Proc,
               \/ BeginWrite(p) \/ BeginRead(p) \/ SemLock(p)
               \/ \E c \in Cell : CopyOut(p, c) \/ CopyIn(p, c)
               \/ CopyDone(p) \/ Restart(p)
        PROVE  UNCHANGED <<committed, got>>
    BY <2>3 DEF BeginWrite, BeginRead, SemLock, CopyOut, CopyIn, CopyDone, Restart
  <2>4. CASE UNCHANGED vars
    BY <2>4 DEF vars
  <2> QED
    BY <2>1, <2>2, <2>3, <2>4 DEF Next, Step
<1> QED
  BY <1>1, <1>2, TypeCorrect, DataInvariant, ReadsReturnWholeContents, PTL
     DEF Spec, ImplementsObject, Object!ObjectSpec
=============================================================================
