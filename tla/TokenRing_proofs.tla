-------------------------- MODULE TokenRing_proofs --------------------------
(***************************************************************************)
(* TokenRing for every number of children: there is one token, the writer  *)
(* has the memory to itself, and nothing is removed while it is in use.    *)
(***************************************************************************)
EXTENDS TokenRing, FiniteSetTheorems, TLAPS

\* Where the parent still has children to create, or has not opened a semaphore yet.
Unopened == ppc \in {"fork", "enable"}

\* A token is in a semaphore, or with a child.
InSem == \E c \in Child : sem[c] > 0
InChild == \E c \in Child : Holds(c)

\* The children that have not been created are unborn.
Born == ppc = "fork" => \A c \in Child : c >= k => cpc[c] = "unborn"

\* No token before the first semaphore is opened (which a dead parent may have done).
NoneYet == Unopened => ~InSem /\ ~InChild

Unique ==
  /\ \A c \in Child : sem[c] <= 1
  /\ \A c, d \in Child : sem[c] > 0 /\ sem[d] > 0 => c = d
  /\ \A c, d \in Child : Holds(c) /\ Holds(d) => c = d
  /\ \A c, d \in Child : ~(sem[c] > 0 /\ Holds(d))

Kept == ~Unopened /\ ppc # "died" => InSem \/ InChild

\* The loops of the parent stop before N.
Looping == ppc \in {"fork", "kill", "wait"} => k < N

Typed == TypeOK /\ Looping

TokenInv == Typed /\ NoneYet /\ Unique /\ Kept /\ PidStays

\* getSemId names a semaphore of the set.
LEMMA SemIdInRange ==
  ASSUME sequence \in [Child -> Child], NEW i \in Nat
  PROVE  getSemId(i) \in Child
<1>1. (IF i >= N THEN 0 ELSE i) \in Child
  BY RingAssumption DEF Child
<1> QED
  BY <1>1 DEF getSemId

-----------------------------------------------------------------------------
\* Every step of the program keeps the types, and the loop variable in its bounds.
LEMMA TypeStep == Typed /\ [Next]_vars => Typed'
<1> SUFFICES ASSUME TypeOK, Looping, [Next]_vars PROVE TypeOK' /\ Looping'
  BY DEF Typed
<1> USE RingAssumption DEF Looping
<1>1. ASSUME Fork PROVE TypeOK' /\ Looping'
  <2>1. k \in Child /\ k + 1 \in 0 .. N /\ (k + 1 # N => k + 1 < N)
    BY <1>1 DEF Fork, TypeOK, Child
  <2>2. cpc' \in [Child -> {"unborn", "start", "exited"} \cup Inside \cup Outside]
    BY <1>1, <2>1 DEF Fork, Goto, TypeOK
  <2> QED
    BY <1>1, <2>1, <2>2 DEF Fork, TypeOK
<1>2. ASSUME Enable PROVE TypeOK' /\ Looping'
  <2>1. sem' \in [Child -> Nat]
    BY <1>2, SemIdInRange DEF Enable, TypeOK
  <2> QED
    BY <1>2, <2>1 DEF Enable, TypeOK
<1>3. ASSUME KillChild PROVE TypeOK' /\ Looping'
  <2>1. k' \in 0 .. N /\ k' < N
    BY <1>3 DEF KillChild, TypeOK
  <2>2. k \in Child /\ AfterSigint(k) \in {"unborn", "start", "exited"} \cup Inside \cup Outside
    BY <1>3 DEF KillChild, TypeOK, AfterSigint, Child
  <2>3. cpc' \in [Child -> {"unborn", "start", "exited"} \cup Inside \cup Outside]
    BY <1>3, <2>2 DEF KillChild, TypeOK, Child
  <2> QED
    BY <1>3, <2>1, <2>3 DEF KillChild, TypeOK
<1>4. ASSUME WaitChild PROVE TypeOK' /\ Looping'
  BY <1>4 DEF WaitChild, TypeOK
<1>5. ASSUME ForkFails \/ Block \/ Sigwait \/ DeinitSem \/ DeinitShm \/ Usr2 PROVE TypeOK' /\ Looping'
  <2>1. CASE ForkFails
    <3>1. ppc' = "died" /\ UNCHANGED <<sequence, sem, k, usr2, blocked, reaped, cpc, flag, pid, removed>>
      BY <2>1, Zenon DEF ForkFails
    <3> QED
      BY <3>1 DEF TypeOK
  <2>5. CASE Sigwait
    BY <2>5 DEF Sigwait, TypeOK
  <2>4. CASE Block
    <3>1. blocked' \in BOOLEAN
      BY <2>4, Zenon DEF Block
    <3>2. ppc' = "sigwait" /\ UNCHANGED <<sequence, sem, k, usr2, reaped, cpc, flag, pid, removed>>
      BY <2>4, Zenon DEF Block
    <3> QED
      BY <3>1, <3>2 DEF TypeOK
  <2>2. CASE DeinitSem \/ DeinitShm
    BY <2>2 DEF DeinitSem, DeinitShm, TypeOK
  <2>3. CASE Usr2
    BY <2>3 DEF Usr2, TypeOK
  <2> QED
    BY <1>5, <2>1, <2>2, <2>3, <2>4, <2>5
<1>6. ASSUME NEW c \in Child, InstallHandler(c) \/ Test(c) \/ Write(c) \/ Disconnect(c)
      PROVE  TypeOK' /\ Looping'
  BY <1>6 DEF InstallHandler, Test, Write, Disconnect, Goto, TypeOK, parent, Inside, Outside
<1>7. ASSUME NEW c \in Child, Take(c) PROVE TypeOK' /\ Looping'
  <2>1. sem' \in [Child -> Nat]
    BY <1>7 DEF Take, TypeOK
  <2>2. cpc' \in [Child -> {"unborn", "start", "exited"} \cup Inside \cup Outside]
    BY <1>7 DEF Take, Goto, TypeOK, Inside, Outside
  <2> QED
    BY <1>7, <2>1, <2>2 DEF Take, TypeOK, parent
<1>8. ASSUME NEW c \in Child, Release(c) PROVE TypeOK' /\ Looping'
  <2>1. c + 1 \in Nat
    BY DEF Child
  <2>2. getSemId(c + 1) \in Child
    BY <2>1, SemIdInRange DEF TypeOK
  <2>3. sem' \in [Child -> Nat]
    BY <1>8, <2>2 DEF Release, TypeOK
  <2>4. cpc' \in [Child -> {"unborn", "start", "exited"} \cup Inside \cup Outside]
    BY <1>8 DEF Release, Goto, TypeOK, Inside, Outside
  <2> QED
    BY <1>8, <2>3, <2>4 DEF Release, TypeOK, parent
<1>9. CASE UNCHANGED vars
  BY <1>9 DEF vars, parent, TypeOK
<1> QED
  BY <1>1, <1>2, <1>3, <1>4, <1>5, <1>6, <1>7, <1>8, <1>9 DEF Next, Parent, ChildStep

\* The first state is well typed.
LEMMA TypeInit == Init => Typed
<1> SUFFICES ASSUME Init PROVE Typed
  OBVIOUS
<1>1. sequence \in [Child -> Child] /\ sem \in [Child -> Nat]
  BY DEF Init, Orders
<1>2. flag \in [Child -> BOOLEAN] /\ blocked \in BOOLEAN
  BY Zenon DEF Init
<1>3. cpc \in [Child -> {"unborn", "start", "exited"} \cup Inside \cup Outside]
  BY DEF Init
<1>4. k \in 0 .. N /\ Looping
  BY RingAssumption DEF Init, Looping
<1> QED
  BY <1>1, <1>2, <1>3, <1>4 DEF Init, Typed, TypeOK

\* Parent, children and semaphores are well typed for every number of children.
THEOREM RingTypeCorrect == Spec => []TypeOK
<1> QED
  BY TypeInit, TypeStep, PTL DEF Spec, Typed

-----------------------------------------------------------------------------
\* What a step has to leave alone for the token to stay where it is.
LEMMA SameToken ==
  ASSUME NoneYet, Unique, Kept, PidStays, UNCHANGED <<sem, pid>>,
         Unopened' => Unopened,
         Unopened => Unopened' \/ ppc' = "died",
         ppc = "died" => ppc' = "died",
         \A c \in Child : Holds(c)' <=> Holds(c),
         \A c \in Child : cpc'[c] = "sleep" => cpc[c] = "sleep"
  PROVE  NoneYet' /\ Unique' /\ Kept' /\ PidStays'
BY DEF NoneYet, Unique, Kept, PidStays, InSem, InChild

\* Each step moves the token, or leaves it where it is.
LEMMA TokenStep == TokenInv /\ [Next]_vars => TokenInv'
<1> SUFFICES ASSUME TokenInv, [Next]_vars PROVE NoneYet' /\ Unique' /\ Kept' /\ PidStays'
  BY TypeStep DEF TokenInv
<1> USE RingAssumption DEF Inside, Outside
<1>0. TypeOK /\ Looping /\ NoneYet /\ Unique /\ Kept /\ PidStays
  BY DEF TokenInv, Typed
<1>1. CASE Fork
  <2>1. k \in Child /\ cpc[k] = "unborn" /\ cpc' = [cpc EXCEPT ![k] = "start"]
    BY <1>0, <1>1 DEF Fork, Goto, TypeOK, Looping, Child
  <2>2. \A c \in Child : (Holds(c)' <=> Holds(c)) /\ (cpc'[c] = "sleep" => cpc[c] = "sleep")
    BY <1>0, <2>1 DEF Holds, TypeOK
  <2> QED
    BY <1>0, <1>1, <2>2, SameToken DEF Fork, Unopened
<1>2. CASE ForkFails \/ Block \/ Usr2 \/ Sigwait \/ WaitChild \/ DeinitSem \/ DeinitShm
  <2>1. UNCHANGED <<sem, pid, cpc>>
    BY <1>2 DEF ForkFails, Block, Usr2, Sigwait, WaitChild, DeinitSem, DeinitShm
  <2>2. \A c \in Child : (Holds(c)' <=> Holds(c)) /\ (cpc'[c] = "sleep" => cpc[c] = "sleep")
    BY <2>1 DEF Holds
  <2>3. /\ Unopened' => Unopened
        /\ Unopened => Unopened' \/ ppc' = "died"
        /\ ppc = "died" => ppc' = "died"
    BY <1>2 DEF ForkFails, Block, Usr2, Sigwait, WaitChild, DeinitSem, DeinitShm, Unopened
  <2> QED
    BY <1>0, <2>1, <2>2, <2>3, SameToken
<1>3. CASE Enable
  <2>1. getSemId(0) \in Child
    BY <1>0, SemIdInRange DEF TypeOK
  <2>2. PICK o \in Child : sem' = [sem EXCEPT ![o] = sem[o] + 1]
    BY <1>3, <2>1 DEF Enable
  <2>3. \A c \in Child : sem[c] = 0 /\ ~Holds(c)
    BY <1>0, <1>3 DEF Enable, NoneYet, Unopened, InSem, InChild, TypeOK
  <2>4. \A c \in Child : sem'[c] = IF c = o THEN 1 ELSE 0
    BY <1>0, <2>2, <2>3 DEF TypeOK
  <2>5. \A c \in Child : ~Holds(c)'
    BY <1>3, <2>3 DEF Enable, Holds
  <2>6. Unique' /\ Kept' /\ PidStays'
    BY <2>4, <2>5 DEF Unique, Kept, PidStays, InSem, Holds
  <2> QED
    BY <1>3, <2>6 DEF Enable, NoneYet, Unopened
<1>4. CASE KillChild
  <2>1. k \in Child /\ cpc' = [cpc EXCEPT ![k] = AfterSigint(k)]
    BY <1>0, <1>4 DEF KillChild, TypeOK, Looping, Child
  <2>2. \A c \in Child : (Holds(c)' <=> Holds(c)) /\ (cpc'[c] = "sleep" => cpc[c] = "sleep")
    BY <1>0, <2>1 DEF Holds, TypeOK, AfterSigint
  <2> QED
    BY <1>0, <1>4, <2>2, SameToken DEF KillChild, Unopened
<1>5. CASE \E c \in Child : InstallHandler(c) \/ Test(c)
  <2>1. PICK c \in Child : InstallHandler(c) \/ Test(c)
    BY <1>5
  <2>2. \A d \in Child : (Holds(d)' <=> Holds(d)) /\ (cpc'[d] = "sleep" => cpc[d] = "sleep")
    BY <1>0, <2>1 DEF InstallHandler, Test, Goto, Holds, TypeOK
  <2> QED
    BY <1>0, <2>1, <2>2, SameToken DEF InstallHandler, Test, Unopened, parent
<1>6. CASE \E c \in Child : Take(c)
  <2>1. PICK c \in Child : Take(c)
    BY <1>6
  <2>2. CASE sem[c] > 0
    <3>1. /\ sem' = [sem EXCEPT ![c] = sem[c] - 1]
          /\ cpc' = [cpc EXCEPT ![c] = "write"]
          /\ UNCHANGED <<ppc, pid>>
      BY <2>1, <2>2 DEF Take, parent
    <3>2. \A d \in Child : ~Holds(d) /\ (d # c => sem[d] = 0)
      BY <1>0, <2>2 DEF Unique, TypeOK
    <3>3. \A d \in Child : sem'[d] = 0 /\ (Holds(d)' <=> d = c) /\ cpc'[d] # "sleep"
      BY <1>0, <2>2, <3>1, <3>2 DEF Unique, TypeOK, Holds
    <3>4. ~Unopened /\ ~Unopened'
      BY <1>0, <2>2, <3>1 DEF NoneYet, InSem, Unopened
    <3> QED
      BY <3>3, <3>4 DEF NoneYet, Unique, Kept, PidStays, InChild
  <2>3. CASE ~(sem[c] > 0)
    <3>1. cpc[c] = "call" /\ cpc' = [cpc EXCEPT ![c] = "asleep"] /\ UNCHANGED <<sem, ppc, pid>>
      BY <2>1, <2>3 DEF Take, Goto, parent
    <3>2. \A d \in Child : (Holds(d)' <=> Holds(d)) /\ (cpc'[d] = "sleep" => cpc[d] = "sleep")
      BY <1>0, <3>1 DEF Holds, TypeOK
    <3> QED
      BY <1>0, <3>1, <3>2, SameToken DEF Unopened
  <2> QED
    BY <2>2, <2>3
<1>7. CASE \E c \in Child : Write(c) \/ Disconnect(c)
  <2>1. PICK c \in Child : Write(c) \/ Disconnect(c)
    BY <1>7
  <2>2. Holds(c) /\ UNCHANGED <<sem, ppc>>
    BY <2>1 DEF Write, Disconnect, Goto, Holds, parent
  <2>3. \A d \in Child : Holds(d)' <=> Holds(d)
    BY <1>0, <2>1 DEF Write, Disconnect, Goto, Holds, TypeOK
  <2>4. \A d \in Child : d # c => cpc'[d] # "sleep"
    BY <1>0, <2>1, <2>2, <2>3 DEF Unique, Holds
  <2>5. cpc'[c] = "sleep" => pid' = c
    BY <1>0, <2>1 DEF Write, Disconnect, Goto, TypeOK
  <2> QED
    BY <1>0, <2>2, <2>3, <2>4, <2>5 DEF NoneYet, Unique, Kept, PidStays, InSem, InChild, Unopened
<1>8. CASE \E c \in Child : Release(c)
  <2>1. PICK c \in Child : Release(c)
    BY <1>8
  <2>0. c + 1 \in Nat /\ sequence \in [Child -> Child]
    <3>1. c + 1 \in Nat
      BY DEF Child
    <3> QED
      BY <1>0, <3>1 DEF TypeOK
  <2>2. getSemId(c + 1) \in Child
    BY <2>0, SemIdInRange
  <2>3. PICK o \in Child : sem' = [sem EXCEPT ![o] = sem[o] + 1]
    BY <2>1, <2>2 DEF Release
  <2>4. Holds(c) /\ cpc' = [cpc EXCEPT ![c] = "test"] /\ UNCHANGED <<ppc, pid>>
    BY <2>1 DEF Release, Goto, Holds, parent
  <2>5. \A d \in Child : sem[d] = 0 /\ (d # c => ~Holds(d))
    BY <1>0, <2>4 DEF Unique, TypeOK
  <2>6. \A d \in Child : sem'[d] = IF d = o THEN 1 ELSE 0
    BY <1>0, <2>3, <2>5 DEF TypeOK
  <2>7. \A d \in Child : ~Holds(d)'
    BY <1>0, <2>4, <2>5 DEF Holds, TypeOK
  <2>8. ~Unopened /\ ~Unopened'
    BY <1>0, <2>4 DEF NoneYet, InChild, Unopened
  <2> QED
    BY <2>6, <2>7, <2>8 DEF NoneYet, Unique, Kept, PidStays, InSem, Holds
<1>9. CASE UNCHANGED vars
  <2>1. \A c \in Child : (Holds(c)' <=> Holds(c)) /\ (cpc'[c] = "sleep" => cpc[c] = "sleep")
    BY <1>9 DEF vars, Holds
  <2> QED
    BY <1>0, <1>9, <2>1, SameToken DEF vars, parent, Unopened
<1> QED
  BY <1>1, <1>2, <1>3, <1>4, <1>5, <1>6, <1>7, <1>8, <1>9 DEF Next, Parent, ChildStep

\* There is no token before the parent opens the first semaphore.
LEMMA TokenInit == Init => TokenInv
<1> SUFFICES ASSUME Init PROVE TokenInv
  OBVIOUS
<1>1. Typed
  BY TypeInit
<1>2. \A c \in Child : sem[c] = 0 /\ ~Holds(c) /\ cpc[c] # "sleep"
  BY DEF Init, Holds, Inside
<1> QED
  BY <1>1, <1>2 DEF Init, TokenInv, NoneYet, Unique, Kept, PidStays, InSem, InChild, Unopened

-----------------------------------------------------------------------------
(***************************************************************************)
(* There is one token from the moment the parent opens the first semaphore *)
(* (blok2_base.c:143), for any number of children, any shuffle and any     *)
(* moment of the signals.                                                  *)
(***************************************************************************)
THEOREM RingHasOneToken == Spec => []OneToken
<1>1. TokenInv => OneToken
  <2> SUFFICES ASSUME Unique, Kept PROVE OneToken
    BY DEF TokenInv
  <2>1. \A s, t \in Tokens : s = t
    <3> SUFFICES ASSUME NEW s \in Tokens, NEW t \in Tokens PROVE s = t
      OBVIOUS
    <3>1. \A u \in Tokens : \/ \E c \in Child : u = <<"sem", c>> /\ sem[c] > 0
                            \/ \E c \in Child : u = <<"child", c>> /\ Holds(c)
      BY Zenon DEF Tokens
    <3>2. CASE \E c \in Child : s = <<"sem", c>> /\ sem[c] > 0
      BY <3>1, <3>2 DEF Unique
    <3>3. CASE \E c \in Child : s = <<"child", c>> /\ Holds(c)
      BY <3>1, <3>3 DEF Unique
    <3> QED
      BY <3>1, <3>2, <3>3
  <2>2. InSem \/ InChild => Tokens # {}
    BY DEF InSem, InChild, Tokens
  <2> QED
    BY <2>1, <2>2 DEF OneToken, Unique, Kept, Unopened
<1> QED
  BY <1>1, TokenInit, TokenStep, PTL DEF Spec

(***************************************************************************)
(* While a child sleeps between its write and its detach the memory holds  *)
(* its pid (blok2_base.c:109-114).                                         *)
(***************************************************************************)
THEOREM WriterIsAlone == Spec => []PidStays
<1>1. TokenInv => PidStays
  BY DEF TokenInv
<1> QED
  BY <1>1, TokenInit, TokenStep, PTL DEF Spec

-----------------------------------------------------------------------------
\* The parent counts the children it has waited for with its loop variable.
Counted ==
  /\ \A c \in reaped : cpc[c] = "exited"
  /\ ppc \in {"fork", "enable", "block", "sigwait", "kill"} => reaped = {}
  /\ ppc = "wait" => k = Cardinality(reaped)
  /\ ppc \in {"deinit_sem", "deinit_shm", "returned"} \/ removed # {} => reaped = Child

\* There are N children.
LEMMA Children == IsFiniteSet(Child) /\ Cardinality(Child) = N
BY FS_Interval, RingAssumption DEF Child

\* A child that has ended does nothing any more, and the signals leave it alone.
LEMMA ExitedStays ==
  ASSUME TypeOK, Looping, [Next]_vars, NEW c \in Child, cpc[c] = "exited"
  PROVE  cpc'[c] = "exited"
<1> USE RingAssumption
<1>1. CASE Fork
  BY <1>1 DEF Fork, Goto, TypeOK
<1>2. CASE KillChild
  BY <1>2 DEF KillChild, AfterSigint, TypeOK
<1>3. CASE \E d \in Child : ChildStep(d)
  <2>1. PICK d \in Child : ChildStep(d)
    BY <1>3
  <2>2. d # c /\ \E v : cpc' = [cpc EXCEPT ![d] = v]
    BY <2>1 DEF ChildStep, InstallHandler, Test, Take, Write, Disconnect, Release, Goto
  <2> QED
    BY <2>2 DEF TypeOK
<1>4. CASE UNCHANGED cpc
  BY <1>4
<1> QED
  BY <1>1, <1>2, <1>3, <1>4
  DEF Next, Parent, ForkFails, Enable, Block, Sigwait, WaitChild, DeinitSem, DeinitShm, Usr2, vars

\* Every step keeps the count of the children the parent has waited for.
LEMMA CountStep == Typed /\ Counted /\ [Next]_vars => Counted'
<1> SUFFICES ASSUME TypeOK, Looping, Counted, [Next]_vars PROVE Counted'
  BY DEF Typed
<1>1. CASE WaitChild
  <2>1. PICK c \in Child \ reaped : cpc[c] = "exited" /\ reaped' = reaped \cup {c}
    BY <1>1 DEF WaitChild
  <2>2. reaped \subseteq Child /\ IsFiniteSet(reaped)
    BY Children, FS_Subset DEF TypeOK
  <2>3. Cardinality(reaped') = Cardinality(reaped) + 1
    BY <2>1, <2>2, FS_AddElement
  <2>4. k' = Cardinality(reaped')
    BY <1>1, <2>3 DEF WaitChild, Counted
  <2>5. ASSUME k' = N PROVE reaped' = Child
    <3>1. reaped' \subseteq Child
      BY <2>1, <2>2
    <3> QED
      BY <2>4, <2>5, <3>1, Children, FS_Subset
  <2>6. removed # {} => reaped = Child
    BY DEF Counted
  <2>7. removed' = removed /\ removed = {}
    BY <1>1, <2>1, <2>6 DEF WaitChild
  <2>8. \A d \in reaped' : cpc'[d] = "exited"
    BY <1>1, <2>1 DEF WaitChild, Counted
  <2>9. ppc' = (IF k' = N THEN "deinit_sem" ELSE "wait")
    BY <1>1 DEF WaitChild
  <2> QED
    BY <2>4, <2>5, <2>7, <2>8, <2>9 DEF Counted
<1>2. CASE ~WaitChild
  <2>1. reaped' = reaped
    BY <1>2 DEF Next, Parent, ChildStep, Fork, ForkFails, Enable, Block, Sigwait, KillChild,
                DeinitSem, DeinitShm, Usr2, InstallHandler, Test, Take, Write, Disconnect,
                Release, vars, parent
  <2>2. \A c \in reaped : cpc'[c] = "exited"
    BY ExitedStays DEF Counted, TypeOK
  <2>3. CASE ppc' = "wait" /\ ppc # "wait"
    <3>1. KillChild /\ k' = 0
      BY <2>3, <1>2 DEF Next, Parent, ChildStep, Fork, ForkFails, Enable, Block, Sigwait,
                KillChild, DeinitSem, DeinitShm, Usr2, InstallHandler, Test, Take, Write,
                Disconnect, Release, vars, parent
    <3>2. reaped = {} /\ removed' = removed
      BY <3>1 DEF KillChild, Counted
    <3> QED
      BY <2>1, <2>3, <3>1, <3>2, FS_EmptySet DEF Counted
  <2>4. CASE ~(ppc' = "wait" /\ ppc # "wait")
    <3>1. /\ ppc' = "wait" => k' = k
          /\ ppc' \in {"fork", "enable", "block", "sigwait", "kill"} =>
               ppc \in {"fork", "enable", "block", "sigwait", "kill"}
          /\ ppc' \in {"deinit_sem", "deinit_shm", "returned"} =>
               ppc \in {"deinit_sem", "deinit_shm", "returned"}
          /\ removed' # {} => ppc \in {"deinit_sem", "deinit_shm"} \/ removed # {}
      BY <2>4, <1>2 DEF Next, Parent, ChildStep, Fork, ForkFails, Enable, Block, Sigwait,
                KillChild, DeinitSem, DeinitShm, Usr2, InstallHandler, Test, Take, Write,
                Disconnect, Release, vars, parent
    <3> QED
      BY <2>1, <2>2, <2>4, <3>1 DEF Counted
  <2> QED
    BY <2>3, <2>4
<1> QED
  BY <1>1, <1>2

(***************************************************************************)
(* The parent removes semaphores and memory only after it has waited for   *)
(* every child (blok2_base.c:76-83).                                       *)
(***************************************************************************)
THEOREM RemovedAfterAll == Spec => []RemovedUnused
<1>1. Init => Counted
  BY DEF Init, Counted
<1>2. Counted => RemovedUnused
  BY DEF Counted, RemovedUnused
<1> QED
  BY <1>1, <1>2, TypeInit, TypeStep, CountStep, PTL DEF Spec
=============================================================================
