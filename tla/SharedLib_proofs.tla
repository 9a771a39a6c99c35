-------------------------- MODULE SharedLib_proofs --------------------------
(***************************************************************************)
(* The shared library for any number of processes, keys, slots and kernel  *)
(* objects: types, the count of the used slots, and the slot tables.       *)
(* TypeOK is inductive together with InCreate: a process about to call     *)
(* shmat is running and has a segment in its slot.                         *)
(***************************************************************************)
EXTENDS SharedLib, FiniteSetTheorems, TLAPS

InCreate ==
  \A p \in Proc :
    /\ pc[p] = "shmat" => Used(p, arg[p].id)
    /\ status[p] # "live" => pc[p] = "idle"

TypeInv == TypeOK /\ InCreate

USE LibAssumption DEF AnyKey

-----------------------------------------------------------------------------
\* What the kernel makes of a segment is a segment.
LEMMA SegOps ==
  ASSUME NEW g \in SegType, NEW p \in Proc
  PROVE  /\ NoSeg \in SegType
         /\ Reaped(g) \in SegType
         /\ ShmAt(g, p) \in SegType
         /\ ShmDt(g, p) \in SegType
         /\ ShmRmid(g) \in SegType
<1>1. NoSeg \in SegType
  BY DEF NoSeg, SegType
<1>2. \A h \in SegType : Reaped(h) \in SegType
  BY <1>1 DEF Reaped, SegType
<1>3. ShmAt(g, p) \in SegType
  BY DEF ShmAt, SegType
<1>4. [g EXCEPT !.nat[p] = @ - 1] \in SegType
  BY DEF SegType
<1>5. [g EXCEPT !.state = "dest", !.key = Private] \in SegType
  BY DEF SegType
<1> QED
  BY <1>1, <1>2, <1>3, <1>4, <1>5 DEF ShmDt, ShmRmid

\* What the kernel makes of a semaphore set is a semaphore set.
LEMMA SemOps ==
  ASSUME NEW m \in SemType, NEW p \in Proc
  PROVE  /\ NoSem \in SemType /\ GoneSem \in SemType
         /\ \A id \in Slot : SemOp(m, p, id, 1) \in SemType
         /\ \A id \in Slot : SemOp(m, p, id, -1) \in SemType
         /\ SetAll(m) \in SemType
         /\ SemExit(m, p) \in SemType
         /\ [m EXCEPT !.state = "live"] \in SemType
<1>1. NoSem \in SemType /\ GoneSem \in SemType
  <2>1. NoUndo \in [Proc -> [Slot -> Int]]
    BY DEF NoUndo
  <2>2. [id \in Slot |-> 0] \in [Slot -> Int]
    OBVIOUS
  <2>3. NoSem \in SemType
    BY <2>1, <2>2 DEF NoSem, SemType
  <2> QED
    BY <2>3 DEF GoneSem, SemType
<1>2. ASSUME NEW id \in Slot
      PROVE  SemOp(m, p, id, 1) \in SemType /\ SemOp(m, p, id, -1) \in SemType
  <2>1. /\ m.state \in {"none", "live", "gone"}
        /\ m.val \in [Slot -> Int]
        /\ m.undo \in [Proc -> [Slot -> Int]]
    BY DEF SemType
  <2>2. ASSUME NEW d \in {1, -1} PROVE SemOp(m, p, id, d) \in SemType
    <3>1. [m.val EXCEPT ![id] = @ + d] \in [Slot -> Int]
      BY <2>1
    <3>2. [m.undo EXCEPT ![p][id] = @ - d] \in [Proc -> [Slot -> Int]]
      BY <2>1
    <3> QED
      BY <2>1, <3>1, <3>2 DEF SemOp, SemType
  <2> QED
    BY <2>2
<1>3. SetAll(m) \in SemType
  BY DEF SetAll, NoUndo, SemType
<1>4. SemExit(m, p) \in SemType
  BY DEF SemExit, AtLeast0, SemType
<1>5. [m EXCEPT !.state = "live"] \in SemType
  BY DEF SemType
<1> QED
  BY <1>1, <1>2, <1>3, <1>4, <1>5

\* Changing one field of a slot or of a segment keeps its type.
LEMMA Edits ==
  /\ \A o \in SlotType, s \in SegId \cup {-1} : [o EXCEPT !.shmid = s] \in SlotType
  /\ \A o \in SlotType, b \in BOOLEAN : [o EXCEPT !.att = b] \in SlotType
  /\ \A g \in SegType, p \in Proc, n \in Int : [g EXCEPT !.nat[p] = n] \in SegType
  /\ \A g \in SegType, p \in Proc : [g EXCEPT !.nat[p] = 0] \in SegType
<1>1. ASSUME NEW o \in SlotType, NEW s \in SegId \cup {-1}
      PROVE  [o EXCEPT !.shmid = s] \in SlotType
  BY DEF SlotType
<1>2. ASSUME NEW o \in SlotType, NEW b \in BOOLEAN PROVE [o EXCEPT !.att = b] \in SlotType
  BY DEF SlotType
<1>3. ASSUME NEW g \in SegType, NEW p \in Proc, NEW n \in Int
      PROVE  [g EXCEPT !.nat[p] = n] \in SegType
  BY DEF SegType
<1>4. ASSUME NEW g \in SegType, NEW p \in Proc PROVE [g EXCEPT !.nat[p] = 0] \in SegType
  BY DEF SegType
<1> QED
  BY <1>1, <1>2, <1>3, <1>4

-----------------------------------------------------------------------------
\* The library's calls, without any rule about who calls what when.
AnyCall(p) ==
  \/ \E v \in BOOLEAN : SetVerbose(p, v)
  \/ \E ini \in BOOLEAN : InitSemget(p, ini)
  \/ InitSemctl(p)
  \/ \E k \in AnyKey, n \in Sizes : CreateShmget(p, k, n)
  \/ CreateShmat(p)
  \/ CreateShmatFails(p)
  \/ \E id \in Slot : Attach(p, id) \/ Detach(p, id) \/ Destroy(p, id)
  \/ Fini(p)
  \/ \E id \in Slot : Lock(p, id) \/ Unlock(p, id)
  \/ \E q \in Proc : Fork(p, q)
  \/ Exit(p)

\* Facts about typed states that the steps below share.
LEMMA SlotFacts ==
  ASSUME TypeInv, NEW p \in Proc, NEW id \in Slot
  PROVE  /\ FreeSlot \in SlotType
         /\ EmptyTable \in [Slot -> SlotType]
         /\ NoArg \in [id : Slot, key : AnyKey, size : Sizes \cup {0}]
         /\ obj[p][id] \in SlotType
         /\ Used(p, id) => obj[p][id].shmid \in SegId
         /\ Used(p, id) => Unattached(p, id) \in SegType
         /\ SlotAfterDestroy(p, id) \in SlotType
<1>1. FreeSlot \in SlotType /\ obj[p][id] \in SlotType
  BY DEF FreeSlot, SlotType, TypeInv, TypeOK
<1>2. EmptyTable \in [Slot -> SlotType]
  BY <1>1 DEF EmptyTable
<1>3. NoArg \in [id : Slot, key : AnyKey, size : Sizes \cup {0}]
  BY DEF NoArg, Slot
<1>4. Used(p, id) => obj[p][id].shmid \in SegId
  BY <1>1 DEF Used, SlotType
<1>5. Used(p, id) => Unattached(p, id) \in SegType
  BY <1>4, SegOps DEF Unattached, TypeInv, TypeOK
<1>6. SlotAfterDestroy(p, id) \in SlotType
  BY <1>1 DEF SlotAfterDestroy, SlotType
<1> QED
  BY <1>1, <1>2, <1>3, <1>4, <1>5, <1>6

\* The number of slots Fini counts is an integer.
LEMMA CountedSlots ==
  ASSUME NEW S \in SUBSET Slot
  PROVE  Cardinality(S) \in Int
<1>1. IsFiniteSet(Slot)
  BY FS_Interval DEF Slot
<1>2. IsFiniteSet(S)
  BY <1>1, FS_Subset
<1> QED
  BY <1>2, FS_CardinalityType

\* Every library call, fork and exit keeps the types.
LEMMA TypeStep ==
  ASSUME TypeInv, NEW p \in Proc, AnyCall(p)
  PROVE  TypeInv'
<1> USE DEF TypeInv, TypeOK, InCreate, Used, Ready, Up
<1>1. ASSUME NEW v \in BOOLEAN, SetVerbose(p, v) PROVE TypeInv'
  BY <1>1 DEF SetVerbose
<1>2. ASSUME NEW ini \in BOOLEAN, InitSemget(p, ini) PROVE TypeInv'
  <2>1. EmptyTable \in [Slot -> SlotType]
    BY SlotFacts DEF Slot
  <2>2. sem' \in [SemId -> SemType]
    <3>1. \A j \in SemId : [sem[j] EXCEPT !.state = "live"] \in SemType
      BY SemOps
    <3>2. \/ UNCHANGED sem
          \/ \E j \in SemId : sem' = [sem EXCEPT ![j].state = "live"]
      BY <1>2 DEF InitSemget, FreshSem
    <3> QED
      BY <3>1, <3>2
  <2>3. semid' \in [Proc -> SemId \cup {-1}]
    <3>1. \E x \in SemId \cup {-1} : semid' = [semid EXCEPT ![p] = x]
      BY <1>2, Zenon DEF InitSemget, LiveSems, FreshSem
    <3> QED
      BY <3>1
  <2>4. initialized' \in [Proc -> BOOLEAN] /\ pc' \in [Proc -> {"idle", "semctl", "shmat"}]
    <3>1. /\ initialized' = initialized \/ initialized' = [initialized EXCEPT ![p] = TRUE]
          /\ pc' = pc \/ pc' = [pc EXCEPT ![p] = "semctl"]
      BY <1>2, Zenon DEF InitSemget
    <3> QED
      BY <3>1
  <2>5. InCreate'
    BY <1>2 DEF InitSemget
  <2> QED
    BY <1>2, <2>1, <2>2, <2>3, <2>4, <2>5 DEF InitSemget
<1>3. ASSUME InitSemctl(p) PROVE TypeInv'
  <2>1. sem' \in [SemId -> SemType]
    <3>1. CASE SemLive(semid[p])
      <4>1. semid[p] \in SemId /\ SetAll(sem[semid[p]]) \in SemType
        BY <3>1, SemOps DEF SemLive
      <4>2. sem' = [sem EXCEPT ![semid[p]] = SetAll(sem[semid[p]])]
        BY <1>3, <3>1, Zenon DEF InitSemctl
      <4>3. sem \in [SemId -> SemType]
        OBVIOUS
      <4> HIDE DEF TypeInv, TypeOK, InCreate
      <4> QED
        BY <4>1, <4>2, <4>3
    <3>2. CASE ~SemLive(semid[p])
      <4>1. sem' = sem
        BY <1>3, <3>2, Zenon DEF InitSemctl
      <4> QED
        BY <4>1
    <3> QED
      BY <3>1, <3>2
  <2>2. initialized' \in [Proc -> BOOLEAN]
    BY <1>3 DEF InitSemctl, SemLive
  <2> QED
    BY <1>3, <2>1, <2>2 DEF InitSemctl
<1>4. ASSUME NEW k \in AnyKey, NEW n \in Sizes, CreateShmget(p, k, n) PROVE TypeInv'
  <2>1. PICK id \in FirstFree(p) :
          /\ \/ \E s \in WithKey(k) :
                  obj' = [obj EXCEPT ![p][id].shmid = s] /\ UNCHANGED seg
             \/ \E s \in FreshSeg :
                  /\ obj' = [obj EXCEPT ![p][id].shmid = s]
                  /\ seg' = [seg EXCEPT ![s] =
                               [state |-> "live", key |-> k, size |-> n,
                                nat |-> [q \in Proc |-> 0]]]
          /\ arg' = [arg EXCEPT ![p] = [id |-> id, key |-> k, size |-> n]]
    BY <1>4 DEF CreateShmget
  <2>2. PICK s \in SegId :
          /\ obj' = [obj EXCEPT ![p][id].shmid = s]
          /\ \/ UNCHANGED seg
             \/ seg' = [seg EXCEPT ![s] = [state |-> "live", key |-> k, size |-> n,
                                           nat |-> [q \in Proc |-> 0]]]
    BY <2>1 DEF WithKey, FreshSeg
  <2>3. id \in Slot
    BY DEF FirstFree
  <2>4. [obj[p][id] EXCEPT !.shmid = s] \in SlotType
    BY <2>3, SlotFacts, Edits
  <2>5. obj' \in [Proc -> [Slot -> SlotType]]
    BY <2>2, <2>3, <2>4
  <2>6. [state |-> "live", key |-> k, size |-> n, nat |-> [q \in Proc |-> 0]] \in SegType
    BY DEF SegType
  <2>7. seg' \in [SegId -> SegType]
    <3>1. seg \in [SegId -> SegType]
      OBVIOUS
    <3> HIDE DEF TypeInv, TypeOK, InCreate
    <3> QED
      BY <2>2, <2>6, <3>1
  <2>8. arg' \in [Proc -> [id : Slot, key : AnyKey, size : Sizes \cup {0}]]
    BY <2>1, <2>3
  <2>9. obj'[p][id].shmid = s /\ s # -1
    BY <2>2, <2>3 DEF SegId, SlotType
  <2> QED
    BY <1>4, <2>1, <2>2, <2>3, <2>5, <2>7, <2>8, <2>9 DEF CreateShmget
<1>5. ASSUME CreateShmat(p) PROVE TypeInv'
  <2> DEFINE id == arg[p].id
             s == obj[p][id].shmid
  <2>1. id \in Slot /\ s \in SegId
    <3>1. id \in Slot
      OBVIOUS
    <3>2. pc[p] = "shmat"
      BY <1>5 DEF CreateShmat
    <3>3. Used(p, id)
      BY <3>2
    <3> QED
      BY <3>1, <3>3, SlotFacts
  <2>2. ShmAt(seg[s], p) \in SegType
    BY <2>1, SegOps
  <2>3. [shmid |-> s, att |-> TRUE, key |-> arg[p].key, size |-> arg[p].size] \in SlotType
    BY <2>1 DEF SlotType
  <2>4. obj' \in [Proc -> [Slot -> SlotType]]
    <3>1. obj' = [obj EXCEPT ![p][id] = [shmid |-> s, att |-> TRUE, key |-> arg[p].key, size |-> arg[p].size]]
      BY <1>5 DEF CreateShmat
    <3> HIDE DEF id, s
    <3> QED
      BY <2>1, <2>3, <3>1
  <2>5. seg' \in [SegId -> SegType]
    BY <1>5, <2>1, <2>2 DEF CreateShmat
  <2>6. NoArg \in [id : Slot, key : AnyKey, size : Sizes \cup {0}]
    BY <2>1, SlotFacts
  <2>7. \A q \in Proc \ {p} : obj'[q] = obj[q] /\ arg'[q] = arg[q]
    BY <1>5 DEF CreateShmat
  <2>8. arg' \in [Proc -> [id : Slot, key : AnyKey, size : Sizes \cup {0}]]
    BY <1>5, <2>6 DEF CreateShmat
  <2>9. pc' = [pc EXCEPT ![p] = "idle"]
    BY <1>5 DEF CreateShmat
  <2>10. InCreate'
    <3>1. UNCHANGED status
      BY <1>5 DEF CreateShmat
    <3> QED
      BY <2>7, <2>9, <3>1
  <2>11. cnt' \in [Proc -> Int]
    <3>1. cnt' = [cnt EXCEPT ![p] = cnt[p] + 1] /\ cnt \in [Proc -> Int]
      BY <1>5 DEF CreateShmat
    <3> HIDE DEF TypeInv, TypeOK, InCreate
    <3> QED
      BY <3>1
  <2> QED
    BY <1>5, <2>4, <2>5, <2>8, <2>9, <2>10, <2>11 DEF CreateShmat
<1>6. ASSUME CreateShmatFails(p) PROVE TypeInv'
  <2> DEFINE id == arg[p].id
             s == obj[p][id].shmid
  <2>1. id \in Slot /\ s \in SegId
    <3>1. id \in Slot
      OBVIOUS
    <3>2. pc[p] = "shmat"
      BY <1>6 DEF CreateShmatFails
    <3>3. Used(p, id)
      BY <3>2
    <3> QED
      BY <3>1, <3>3, SlotFacts
  <2>2. ShmRmid(seg[s]) \in SegType
    BY <2>1, SegOps
  <2>3. [obj[p][id] EXCEPT !.shmid = -1] \in SlotType
    BY <2>1, SlotFacts, Edits
  <2>4. obj' \in [Proc -> [Slot -> SlotType]]
    BY <1>6, <2>1, <2>3 DEF CreateShmatFails
  <2>5. seg' \in [SegId -> SegType]
    BY <1>6, <2>1, <2>2 DEF CreateShmatFails
  <2>6. NoArg \in [id : Slot, key : AnyKey, size : Sizes \cup {0}]
    BY <2>1, SlotFacts
  <2> QED
    BY <1>6, <2>4, <2>5, <2>6 DEF CreateShmatFails
<1>7. ASSUME NEW id \in Slot, Attach(p, id) PROVE TypeInv'
  <2>1. obj[p][id].shmid \in SegId
    BY <1>7, SlotFacts DEF Attach
  <2>2. ShmAt(seg[obj[p][id].shmid], p) \in SegType
    BY <2>1, SegOps
  <2>3. [obj[p][id] EXCEPT !.att = TRUE] \in SlotType
    BY SlotFacts, Edits
  <2>4. obj' \in [Proc -> [Slot -> SlotType]]
    BY <1>7, <2>3 DEF Attach
  <2>5. seg' \in [SegId -> SegType]
    BY <1>7, <2>1, <2>2 DEF Attach
  <2>6. \A q \in Proc, i \in Slot : obj'[q][i].shmid = obj[q][i].shmid
    BY <1>7 DEF Attach, SlotType
  <2> QED
    BY <1>7, <2>4, <2>5, <2>6 DEF Attach
<1>8. ASSUME NEW id \in Slot, Detach(p, id) PROVE TypeInv'
  <2>1. obj[p][id].shmid \in SegId
    BY <1>8, SlotFacts DEF Detach
  <2>2. ShmDt(seg[obj[p][id].shmid], p) \in SegType
    BY <2>1, SegOps
  <2>3. [obj[p][id] EXCEPT !.att = FALSE] \in SlotType
    BY SlotFacts, Edits
  <2>4. obj' \in [Proc -> [Slot -> SlotType]]
    BY <1>8, <2>3 DEF Detach
  <2>5. seg' \in [SegId -> SegType]
    BY <1>8, <2>1, <2>2 DEF Detach
  <2>6. \A q \in Proc, i \in Slot : obj'[q][i].shmid = obj[q][i].shmid
    BY <1>8 DEF Detach, SlotType
  <2> QED
    BY <1>8, <2>4, <2>5, <2>6 DEF Detach
<1>9. ASSUME NEW id \in Slot, Destroy(p, id) PROVE TypeInv'
  <2>1. obj[p][id].shmid \in SegId /\ Unattached(p, id) \in SegType
    BY <1>9, SlotFacts DEF Destroy
  <2>2. ShmRmid(Unattached(p, id)) \in SegType
    BY <2>1, SegOps
  <2>3. obj' \in [Proc -> [Slot -> SlotType]]
    BY <1>9, SlotFacts DEF Destroy
  <2>4. seg' \in [SegId -> SegType]
    BY <1>9, <2>1, <2>2 DEF Destroy
  <2>5. \A q \in Proc \ {p} : obj'[q] = obj[q]
    BY <1>9 DEF Destroy
  <2> QED
    BY <1>9, <2>3, <2>4, <2>5 DEF Destroy
<1>10. ASSUME Fini(p) PROVE TypeInv'
  <2>1. ASSUME NEW s \in SegId PROVE seg'[s] \in SegType
    <3>1. CASE \E id \in Slot : obj[p][id].shmid = s
      <4> DEFINE id == CHOOSE i \in Slot : obj[p][i].shmid = s
      <4>1. id \in Slot /\ obj[p][id].shmid = s /\ s # -1
        BY <3>1 DEF SegId
      <4>2. Unattached(p, id) \in SegType
        BY <4>1, SlotFacts
      <4>3. seg'[s] = ShmRmid(Unattached(p, id))
        BY <1>10, <3>1 DEF Fini
      <4> QED
        BY <4>2, <4>3, SegOps
    <3>2. CASE ~\E id \in Slot : obj[p][id].shmid = s
      BY <1>10, <3>2 DEF Fini
    <3> QED
      BY <3>1, <3>2
  <2>2. seg' \in [SegId -> SegType]
    BY <1>10, <2>1 DEF Fini
  <2>3. obj' \in [Proc -> [Slot -> SlotType]]
    BY <1>10, SlotFacts DEF Fini
  <2>4. Cardinality({id \in UsedSlots(p) : ~RmidReported(p, id)}) \in Int
    BY CountedSlots DEF UsedSlots
  <2>5. cnt' \in [Proc -> Int]
    BY <1>10, <2>4 DEF Fini
  <2>6. sem' \in [SemId -> SemType]
    BY <1>10, SemOps DEF Fini, SemLive
  <2>7. \A q \in Proc \ {p} : obj'[q] = obj[q]
    BY <1>10 DEF Fini
  <2> QED
    BY <1>10, <2>2, <2>3, <2>5, <2>6, <2>7 DEF Fini
<1>11. ASSUME NEW id \in Slot, Lock(p, id) PROVE TypeInv'
  <2>1. sem' \in [SemId -> SemType]
    <3>1. CASE /\ SemLive(semid[p])
               /\ sem' = [sem EXCEPT ![semid[p]] = SemOp(@, p, id, -1)]
      <4>1. SemOp(sem[semid[p]], p, id, -1) \in SemType
        BY <3>1, SemOps DEF SemLive
      <4> QED
        BY <3>1, <4>1 DEF SemLive
    <3>2. CASE UNCHANGED sem
      BY <3>2
    <3> QED
      BY <1>11, <3>1, <3>2 DEF Lock
  <2>2. held' = [held EXCEPT ![p] = @ \cup {id}]
    BY <1>11 DEF Lock
  <2>3. UNCHANGED <<status, initialized, verb, cnt, obj, semid, pc, arg, seg>>
    BY <1>11 DEF Lock
  <2> QED
    BY <2>1, <2>2, <2>3
<1>12. ASSUME NEW id \in Slot, Unlock(p, id) PROVE TypeInv'
  <2>1. sem' \in [SemId -> SemType]
    BY <1>12, SemOps DEF Unlock, SemLive
  <2> QED
    BY <1>12, <2>1 DEF Unlock
<1>13. ASSUME NEW q \in Proc, Fork(p, q) PROVE TypeInv'
  <2>1. \A id \in Slot : [obj[p][id] EXCEPT !.att = FALSE] \in SlotType
    BY SlotFacts, Edits
  <2>2. obj' \in [Proc -> [Slot -> SlotType]]
    BY <1>13, <2>1 DEF Fork
  <2>3. \A s \in SegId : [seg[s] EXCEPT !.nat[q] = seg[s].nat[p]] \in SegType
    <3>1. \A s \in SegId : seg[s].nat[p] \in Int
      BY DEF SegType
    <3> QED
      BY <3>1, Edits
  <2>4. seg' \in [SegId -> SegType]
    BY <1>13, <2>3 DEF Fork
  <2> QED
    BY <1>13, <2>2, <2>4 DEF Fork
<1>14. ASSUME Exit(p) PROVE TypeInv'
  <2>1. \A s \in SegId : [seg[s] EXCEPT !.nat[p] = 0] \in SegType
    BY Edits
  <2>2. seg' \in [SegId -> SegType]
    BY <1>14, <2>1, SegOps DEF Exit
  <2>3. sem' \in [SemId -> SemType]
    BY <1>14, SemOps DEF Exit
  <2>4. EmptyTable \in [Slot -> SlotType]
    BY SlotFacts DEF Slot
  <2>5. obj' \in [Proc -> [Slot -> SlotType]]
    BY <1>14, <2>4 DEF Exit
  <2>6. NoArg \in [id : Slot, key : AnyKey, size : Sizes \cup {0}]
    BY SlotFacts DEF Slot
  <2>7. arg' \in [Proc -> [id : Slot, key : AnyKey, size : Sizes \cup {0}]]
    BY <1>14, <2>6 DEF Exit
  <2>8. InCreate'
    BY <1>14 DEF Exit
  <2>9. /\ status' \in [Proc -> {"unborn", "live", "dead"}]
        /\ initialized' \in [Proc -> BOOLEAN] /\ verb' \in [Proc -> BOOLEAN]
    BY <1>14 DEF Exit
  <2>10. /\ cnt' \in [Proc -> Int]
         /\ semid' \in [Proc -> SemId \cup {-1}]
         /\ pc' \in [Proc -> {"idle", "semctl", "shmat"}]
         /\ held' \in [Proc -> SUBSET Slot]
    BY <1>14 DEF Exit
  <2> QED
    BY <2>2, <2>3, <2>5, <2>7, <2>8, <2>9, <2>10
<1> QED
  BY <1>1, <1>2, <1>3, <1>4, <1>5, <1>6, <1>7, <1>8, <1>9, <1>10, <1>11, <1>12,
     <1>13, <1>14, AnyCall(p) DEF AnyCall

-----------------------------------------------------------------------------
\* The first state is well typed.
LEMMA TypeInit == Init => TypeInv
<1>1. 0 \in Slot
  BY DEF Slot
<1>2. FreeSlot \in SlotType
  BY DEF FreeSlot, SlotType
<1>3. EmptyTable \in [Slot -> SlotType]
  BY <1>2 DEF EmptyTable
<1>4. NoSeg \in SegType
  BY DEF NoSeg, SegType
<1>5. NoSem \in SemType
  BY DEF NoSem, NoUndo, SemType
<1> QED
  BY <1>1, <1>3, <1>4, <1>5 DEF Init, LibInit, TypeInv, TypeOK, InCreate, NoArg

\* The tables, counters and kernel objects keep their types in any sequence of calls.
THEOREM TypeCorrect == Spec => []TypeOK
<1>1. TypeInv /\ [Next]_vars => TypeInv'
  <2> SUFFICES ASSUME TypeInv, [Next]_vars PROVE TypeInv'
    OBVIOUS
  <2>1. ASSUME NEW p \in Proc, Call(p) PROVE TypeInv'
    <3>1. held[p] \subseteq Slot
      BY DEF TypeInv, TypeOK
    <3>2. AnyCall(p)
      BY <2>1, <3>1, Zenon DEF Call, AnyCall
    <3> QED
      BY <3>2, TypeStep
  <2>2. CASE UNCHANGED vars
    BY <2>2 DEF vars, libvars, TypeInv, TypeOK, InCreate, Used
  <2> QED
    BY <2>1, <2>2 DEF Next
<1> QED
  BY <1>1, TypeInit, PTL DEF Spec, TypeInv

-----------------------------------------------------------------------------
(***************************************************************************)
(* The slot tables.  A used slot names a segment that was created, agrees  *)
(* with it on key and size while it exists, and maps it when it has a      *)
(* pointer; no two slots share a segment or a public key.  The slot        *)
(* shared_create has reserved has its key and size only in arg.            *)
(***************************************************************************)
Matches(g, k, n) ==
  /\ g.state = "live" => g.key = k
  /\ Exists(g) => n <= g.size

Creating(p, i) == pc[p] = "shmat" /\ i = arg[p].id

SlotOK(p, i) ==
  /\ ~Used(p, i) => ~obj[p][i].att /\ obj[p][i].key = Private
  /\ Used(p, i) =>
       /\ seg[obj[p][i].shmid].state # "none"
       /\ Creating(p, i) \/ Matches(seg[obj[p][i].shmid], obj[p][i].key, obj[p][i].size)
       /\ obj[p][i].att => Exists(seg[obj[p][i].shmid]) /\ seg[obj[p][i].shmid].nat[p] > 0

Apart(p) ==
  \A i, j \in Slot :
    i # j => /\ Used(p, i) => obj[p][i].shmid # obj[p][j].shmid
             /\ obj[p][i].key = obj[p][j].key => obj[p][i].key = Private

\* What shared_create has found out about the slot arg[p].id.
Reserved(p) ==
  pc[p] = "shmat" =>
    /\ ~obj[p][arg[p].id].att /\ obj[p][arg[p].id].key = Private
    /\ Matches(seg[obj[p][arg[p].id].shmid], arg[p].key, arg[p].size)
    /\ \A j \in Slot : obj[p][j].key = arg[p].key => arg[p].key = Private

TableOK(p) == (\A i \in Slot : SlotOK(p, i)) /\ Apart(p) /\ Reserved(p)

\* Nobody has less than no mapping of a segment.
NatOK == \A s \in SegId, p \in Proc : seg[s].nat[p] >= 0

\* What a call of another process may make of the segment g as q sees it.
Later(g, h, q) ==
  /\ h.state # "none"
  /\ h.state = "live" => g.state = "live" /\ h.key = g.key
  /\ Exists(h) => Exists(g) /\ h.size = g.size
  /\ Exists(g) /\ g.nat[q] > 0 => Exists(h) /\ h.nat[q] > 0

\* Two such steps make one.
LEMMA LaterTwice ==
  ASSUME NEW f, NEW g, NEW h, NEW q, Later(f, g, q), Later(g, h, q)
  PROVE  Later(f, h, q)
BY DEF Later, Exists

\* A segment that somebody maps is not reaped.
LEMMA ReapedLater ==
  ASSUME NEW g \in SegType, g.state # "none", NEW q \in Proc
  PROVE  Later(g, Reaped(g), q)
<1>1. [NoSeg EXCEPT !.state = "gone"].state = "gone"
  BY DEF NoSeg
<1>2. Unmapped(g) => g.nat[q] = 0
  BY DEF Unmapped
<1> QED
  BY <1>1, <1>2 DEF Later, Reaped, Exists, SegType

\* Each operation of the kernel on a segment, done by p, leaves it so to q.
LEMMA KernelLater ==
  ASSUME NEW g \in SegType, g.state # "none", NEW p \in Proc, NEW q \in Proc
  PROVE  /\ Later(g, g, q)
         /\ Later(g, ShmAt(g, p), q)
         /\ p # q => Later(g, ShmDt(g, p), q)
         /\ Later(g, ShmRmid(g), q)
         /\ p # q => Later(g, ShmRmid(ShmDt(g, p)), q)
         /\ p # q => Later(g, Reaped([g EXCEPT !.nat[p] = 0]), q)
         /\ p # q => \A n \in Int : Later(g, [g EXCEPT !.nat[p] = n], q)
<1>1. Later(g, g, q)
  BY DEF Later
<1>2. Later(g, ShmAt(g, p), q)
  BY DEF Later, ShmAt, SegType, Exists
<1>3. ASSUME NEW h \in SegType, h.state # "none" PROVE Later(h, ShmRmid(h), q)
  <2> DEFINE removed == [h EXCEPT !.state = "dest", !.key = Private]
  <2>1. CASE Exists(h)
    <3>1. removed \in SegType /\ removed.state # "none" /\ Later(h, removed, q)
      BY <2>1 DEF SegType, Later, Exists
    <3>2. ShmRmid(h) = Reaped(removed)
      BY <2>1 DEF ShmRmid
    <3> HIDE DEF removed
    <3> QED
      BY <3>1, <3>2, ReapedLater, LaterTwice
  <2>2. CASE ~Exists(h)
    BY <1>3, <2>2 DEF ShmRmid, Later
  <2> QED
    BY <2>1, <2>2
<1>4. ASSUME NEW n \in Int, p # q
      PROVE  /\ [g EXCEPT !.nat[p] = n] \in SegType
             /\ [g EXCEPT !.nat[p] = n].state # "none"
             /\ Later(g, [g EXCEPT !.nat[p] = n], q)
  BY <1>4 DEF SegType, Later, Exists
<1>5. ASSUME p # q PROVE Later(g, ShmDt(g, p), q) /\ ShmDt(g, p) \in SegType /\ ShmDt(g, p).state # "none"
  <2> DEFINE down == [g EXCEPT !.nat[p] = @ - 1]
  <2>1. down \in SegType /\ down.state # "none" /\ Later(g, down, q)
    BY <1>5 DEF SegType, Later, Exists
  <2>2. ShmDt(g, p) = Reaped(down)
    BY DEF ShmDt
  <2> HIDE DEF down
  <2>3. Later(g, ShmDt(g, p), q)
    BY <2>1, <2>2, ReapedLater, LaterTwice
  <2> QED
    BY <2>3, SegOps DEF Later
<1>6. ASSUME p # q PROVE Later(g, ShmRmid(ShmDt(g, p)), q)
  BY <1>3, <1>5, <1>6, LaterTwice
<1>7. ASSUME p # q PROVE Later(g, Reaped([g EXCEPT !.nat[p] = 0]), q)
  <2> DEFINE zero == [g EXCEPT !.nat[p] = 0]
  <2>1. zero \in SegType /\ zero.state # "none" /\ Later(g, zero, q)
    BY <1>4, <1>7
  <2> HIDE DEF zero
  <2>2. Later(g, Reaped(zero), q)
    BY <2>1, ReapedLater, LaterTwice
  <2> QED
    BY <2>2 DEF zero
<1> QED
  BY <1>1, <1>2, <1>3, <1>4, <1>5, <1>6, <1>7

\* A process whose table and reservation stay keeps its table in order.
LEMMA TableStays ==
  ASSUME TypeInv, NEW q \in Proc, TableOK(q), obj'[q] = obj[q], arg'[q] = arg[q],
         pc'[q] = "shmat" <=> pc[q] = "shmat",
         \A s \in SegId : seg[s].state # "none" => Later(seg[s], seg'[s], q)
  PROVE  TableOK(q)'
<1>1. \A i \in Slot : Used(q, i) => obj[q][i].shmid \in SegId
  BY SlotFacts
<1>2. \A i \in Slot : Used(q, i)' <=> Used(q, i)
  BY DEF Used
<1>3. \A i \in Slot : Creating(q, i)' <=> Creating(q, i)
  BY DEF Creating
<1>4. ASSUME NEW i \in Slot PROVE SlotOK(q, i)'
  BY <1>1, <1>2, <1>3 DEF SlotOK, TableOK, Later, Matches, Exists
<1>5. Apart(q)'
  BY <1>2 DEF Apart, TableOK
<1>6. Reserved(q)'
  <2>1. pc[q] = "shmat" => /\ obj[q][arg[q].id].shmid \in SegId
                           /\ seg[obj[q][arg[q].id].shmid].state # "none"
    <3>1. arg[q].id \in Slot
      BY DEF TypeInv, TypeOK
    <3>2. pc[q] = "shmat" => Used(q, arg[q].id)
      BY DEF TypeInv, InCreate
    <3> QED
      BY <3>1, <3>2, <1>1 DEF TableOK, SlotOK
  <2>2. ASSUME pc[q] = "shmat"
        PROVE  Later(seg[obj[q][arg[q].id].shmid], seg'[obj[q][arg[q].id].shmid], q)
    BY <2>1, <2>2
  <2>3. pc[q] = "shmat" => /\ ~obj[q][arg[q].id].att /\ obj[q][arg[q].id].key = Private
                           /\ Matches(seg'[obj[q][arg[q].id].shmid], arg[q].key, arg[q].size)
                           /\ \A j \in Slot : obj[q][j].key = arg[q].key => arg[q].key = Private
    BY <2>2 DEF Reserved, TableOK, Later, Matches, Exists
  <2> QED
    BY <2>3 DEF Reserved, Matches
<1> QED
  BY <1>4, <1>5, <1>6 DEF TableOK

\* What a call of p makes of a segment, as another process than p and its new child sees it.
LEMMA SegStep ==
  ASSUME TypeInv, NEW p \in Proc, NEW q \in Proc, p # q, AnyCall(p), ~Fork(p, q),
         NEW s \in SegId, seg[s].state # "none"
  PROVE  Later(seg[s], seg'[s], q)
<1> DEFINE g == seg[s]
<1>0. g \in SegType /\ seg \in [SegId -> SegType]
  BY DEF TypeInv, TypeOK
<1>1. CASE UNCHANGED seg
  BY <1>0, <1>1, KernelLater
<1>2. ASSUME NEW k \in AnyKey, NEW n \in Sizes, CreateShmget(p, k, n) PROVE seg'[s] = g
  <2>1. \/ UNCHANGED seg
        \/ \E t \in FreshSeg : \E x : seg' = [seg EXCEPT ![t] = x]
    BY <1>2, Zenon DEF CreateShmget
  <2> QED
    BY <2>1, <1>0 DEF FreshSeg
<1>3. ASSUME NEW id \in Slot, seg' = [seg EXCEPT ![obj[p][id].shmid] = ShmAt(@, p)]
      PROVE  Later(g, seg'[s], q)
  BY <1>0, <1>3, KernelLater
<1>4. CASE CreateShmatFails(p)
  <2>1. seg' = [seg EXCEPT ![obj[p][arg[p].id].shmid] = ShmRmid(@)]
    BY <1>4 DEF CreateShmatFails
  <2> QED
    BY <2>1, <1>0, KernelLater
<1>5. ASSUME NEW id \in Slot, Detach(p, id) PROVE Later(g, seg'[s], q)
  <2>1. seg' = [seg EXCEPT ![obj[p][id].shmid] = ShmDt(@, p)]
    BY <1>5 DEF Detach
  <2> QED
    BY <2>1, <1>0, KernelLater
<1>6. ASSUME NEW id \in Slot, s = obj[p][id].shmid PROVE Later(g, ShmRmid(Unattached(p, id)), q)
  BY <1>0, <1>6, KernelLater DEF Unattached
<1>7. ASSUME NEW id \in Slot, Destroy(p, id) PROVE Later(g, seg'[s], q)
  <2>1. seg' = [seg EXCEPT ![obj[p][id].shmid] = ShmRmid(Unattached(p, id))]
    BY <1>7 DEF Destroy
  <2> QED
    BY <2>1, <1>0, <1>6, KernelLater
<1>8. CASE Fini(p)
  <2>1. CASE \E id \in Slot : obj[p][id].shmid = s
    <3> DEFINE id == CHOOSE i \in Slot : obj[p][i].shmid = s
    <3>1. id \in Slot /\ obj[p][id].shmid = s
      BY <2>1
    <3>2. seg'[s] = ShmRmid(Unattached(p, id))
      BY <1>8, <2>1 DEF Fini
    <3> HIDE DEF id
    <3> QED
      BY <3>1, <3>2, <1>6
  <2>2. CASE ~\E id \in Slot : obj[p][id].shmid = s
    BY <1>0, <1>8, <2>2, KernelLater DEF Fini
  <2> QED
    BY <2>1, <2>2
<1>9. ASSUME NEW c \in Proc, Fork(p, c) PROVE Later(g, seg'[s], q)
  <2>1. c # q /\ seg'[s] = [g EXCEPT !.nat[c] = g.nat[p]] /\ g.nat[p] \in Int
    BY <1>0, <1>9 DEF Fork, SegType
  <2>2. \A n \in Int : Later(g, [g EXCEPT !.nat[c] = n], q)
    BY <1>0, <2>1, KernelLater
  <2> QED
    BY <2>1, <2>2
<1>10. CASE Exit(p)
  <2>1. seg'[s] = Reaped([g EXCEPT !.nat[p] = 0])
    BY <1>10 DEF Exit
  <2> QED
    BY <1>0, <2>1, KernelLater
<1>11. \/ \E v \in BOOLEAN : SetVerbose(p, v)
       \/ \E ini \in BOOLEAN : InitSemget(p, ini)
       \/ InitSemctl(p)
       \/ \E id \in Slot : Lock(p, id) \/ Unlock(p, id)
       => UNCHANGED seg
  BY Zenon DEF SetVerbose, InitSemget, InitSemctl, Lock, Unlock
<1>12. CASE CreateShmat(p)
  <2>1. arg[p].id \in Slot
    BY DEF TypeInv, TypeOK
  <2> QED
    BY <1>3, <1>12, <2>1 DEF CreateShmat
<1>13. ASSUME NEW id \in Slot, Attach(p, id) PROVE Later(g, seg'[s], q)
  BY <1>3, <1>13 DEF Attach
<1> QED
  BY <1>0, <1>12, <1>13, <1>1, <1>2, <1>4, <1>5, <1>7, <1>8, <1>9, <1>10, <1>11, KernelLater DEF AnyCall

\* A call of p does not touch the table of another process, except of a new child.
LEMMA OthersSame ==
  ASSUME TypeInv, NEW p \in Proc, NEW q \in Proc, p # q, AnyCall(p), ~Fork(p, q)
  PROVE  obj'[q] = obj[q] /\ arg'[q] = arg[q] /\ pc'[q] = pc[q] /\ cnt'[q] = cnt[q]
<1>0. /\ obj \in [Proc -> [Slot -> SlotType]]
      /\ arg \in [Proc -> [id : Slot, key : AnyKey, size : Sizes \cup {0}]]
      /\ pc \in [Proc -> {"idle", "semctl", "shmat"}] /\ cnt \in [Proc -> Int]
  BY DEF TypeInv, TypeOK
<1>1. CASE \/ \E v \in BOOLEAN : SetVerbose(p, v)
           \/ \E ini \in BOOLEAN : InitSemget(p, ini)
           \/ InitSemctl(p)
           \/ \E id \in Slot : Lock(p, id) \/ Unlock(p, id)
  BY <1>0, <1>1 DEF SetVerbose, InitSemget, InitSemctl, Lock, Unlock
<1>2. ASSUME NEW k \in AnyKey, NEW n \in Sizes, CreateShmget(p, k, n)
      PROVE  obj'[q] = obj[q] /\ arg'[q] = arg[q] /\ pc'[q] = pc[q] /\ cnt'[q] = cnt[q]
  BY <1>0, <1>2 DEF CreateShmget
<1>3. CASE CreateShmat(p) \/ CreateShmatFails(p)
  BY <1>0, <1>3 DEF CreateShmat, CreateShmatFails
<1>4. CASE \E id \in Slot : Attach(p, id) \/ Detach(p, id) \/ Destroy(p, id)
  BY <1>0, <1>4 DEF Attach, Detach, Destroy
<1>5. CASE Fini(p)
  BY <1>0, <1>5 DEF Fini
<1>6. ASSUME NEW c \in Proc, Fork(p, c)
      PROVE  obj'[q] = obj[q] /\ arg'[q] = arg[q] /\ pc'[q] = pc[q] /\ cnt'[q] = cnt[q]
  BY <1>0, <1>6 DEF Fork
<1>7. CASE Exit(p)
  BY <1>0, <1>7 DEF Exit
<1> QED
  BY <1>1, <1>2, <1>3, <1>4, <1>5, <1>6, <1>7 DEF AnyCall

\* A call of p leaves the tables of the others, except of a new child, in order.
LEMMA OthersStay ==
  ASSUME TypeInv, NEW p \in Proc, NEW q \in Proc, p # q, AnyCall(p), ~Fork(p, q), TableOK(q)
  PROVE  TableOK(q)'
BY OthersSame, SegStep, TableStays

-----------------------------------------------------------------------------
(***************************************************************************)
(* The calls of p and its own table.                                       *)
(***************************************************************************)
\* shared_create finds or makes a segment that none of p's slots has.
LEMMA CreateKeeps ==
  ASSUME TypeInv, NEW p \in Proc, TableOK(p), NEW k \in AnyKey, NEW n \in Sizes, CreateShmget(p, k, n)
  PROVE  TableOK(p)'
<1>1. pc[p] = "idle" /\ pc'[p] = "shmat" /\ HasKey(p, k) = {}
  BY DEF CreateShmget, Up, Ready, TypeInv, TypeOK
<1>2. PICK id \in FirstFree(p), s \in SegId :
        /\ obj' = [obj EXCEPT ![p][id].shmid = s]
        /\ arg' = [arg EXCEPT ![p] = [id |-> id, key |-> k, size |-> n]]
        /\ \/ /\ s \in WithKey(k) /\ n <= seg[s].size /\ UNCHANGED seg
           \/ /\ s \in FreshSeg
              /\ seg' = [seg EXCEPT ![s] = [state |-> "live", key |-> k, size |-> n,
                                            nat |-> [q \in Proc |-> 0]]]
  BY Zenon DEF CreateShmget, WithKey, FreshSeg
<1>3. id \in Slot /\ ~Used(p, id) /\ ~obj[p][id].att /\ obj[p][id].key = Private
  BY DEF FirstFree, TableOK, SlotOK
<1>4. /\ \A i \in Slot \ {id} : obj'[p][i] = obj[p][i]
      /\ obj'[p][id].shmid = s /\ obj'[p][id].att = obj[p][id].att /\ obj'[p][id].key = obj[p][id].key
      /\ arg'[p].id = id /\ arg'[p].key = k /\ arg'[p].size = n
  BY <1>2, <1>3 DEF TypeInv, TypeOK, SlotType
<1>5. \A i \in Slot : ~Creating(p, i)
  BY <1>1 DEF Creating
<1>6. \A i \in Slot : Used(p, i) => obj[p][i].shmid \in SegId
  BY SlotFacts
<1>7. \A i \in Slot : Used(p, i) => obj[p][i].shmid # s
  <2>1. CASE s \in WithKey(k)
    BY <1>1, <1>5, <2>1 DEF WithKey, HasKey, TableOK, SlotOK, Matches
  <2>2. CASE s \in FreshSeg
    BY <2>2 DEF FreshSeg, TableOK, SlotOK
  <2> QED
    BY <1>2, <2>1, <2>2
<1>8. /\ \A t \in SegId \ {s} : seg'[t] = seg[t]
      /\ Matches(seg'[s], k, n) /\ seg'[s].state # "none"
  BY <1>2 DEF WithKey, FreshSeg, Matches, Exists, TypeInv, TypeOK, SegType
<1>9. s # -1
  BY DEF SegId
<1>10. ASSUME NEW i \in Slot PROVE SlotOK(p, i)'
  <2>1. CASE i = id
    BY <1>1, <1>3, <1>4, <1>8, <1>9, <2>1 DEF SlotOK, Used, Creating
  <2>2. CASE i # id
    <3>1. obj'[p][i] = obj[p][i] /\ SlotOK(p, i) /\ ~Creating(p, i)
      BY <1>4, <1>5, <2>2 DEF TableOK
    <3>2. Used(p, i) => seg'[obj[p][i].shmid] = seg[obj[p][i].shmid]
      BY <1>6, <1>7, <1>8
    <3> QED
      BY <3>1, <3>2 DEF SlotOK, Used, Matches, Exists
  <2> QED
    BY <2>1, <2>2
<1>11. Apart(p)'
  BY <1>3, <1>4, <1>7 DEF Apart, TableOK, Used
<1>12. Reserved(p)'
  <2>1. \A j \in Slot : obj'[p][j].key = k => k = Private
    BY <1>1, <1>3, <1>4 DEF HasKey
  <2> QED
    BY <1>3, <1>4, <1>8, <2>1 DEF Reserved, Matches, Exists
<1> QED
  BY <1>10, <1>11, <1>12 DEF TableOK

\* Changing one slot of p, and one segment.
LEMMA OneSlot ==
  ASSUME TypeInv, NEW p \in Proc, NEW id \in Slot, NEW s \in SegId, NEW o, NEW g,
         obj' = [obj EXCEPT ![p][id] = o], seg' = [seg EXCEPT ![s] = g]
  PROVE  /\ obj'[p][id] = o /\ seg'[s] = g
         /\ \A i \in Slot \ {id} : obj'[p][i] = obj[p][i]
         /\ \A t \in SegId \ {s} : seg'[t] = seg[t]
<1>1. obj \in [Proc -> [Slot -> SlotType]] /\ seg \in [SegId -> SegType]
  BY DEF TypeInv, TypeOK
<1> QED
  BY <1>1

\* The end of shared_create: the slot gets its key, size and pointer, or is free again.
LEMMA MapKeeps ==
  ASSUME TypeInv, NatOK, NEW p \in Proc, TableOK(p), CreateShmat(p) \/ CreateShmatFails(p)
  PROVE  TableOK(p)'
<1> DEFINE id == arg[p].id
           s == obj[p][id].shmid
<1>1. pc[p] = "shmat" /\ pc'[p] = "idle"
  BY DEF CreateShmat, CreateShmatFails, TypeInv, TypeOK
<1>2. id \in Slot /\ Used(p, id) /\ s \in SegId /\ s # -1
  <2>1. id \in Slot /\ Used(p, id)
    BY <1>1 DEF TypeInv, TypeOK, InCreate
  <2> QED
    BY <2>1, SlotFacts DEF Used
<1>3. /\ \A i \in Slot \ {id} : obj'[p][i] = obj[p][i]
      /\ \A t \in SegId \ {s} : seg'[t] = seg[t]
  <2>1. CASE CreateShmat(p)
    <3> DEFINE o == [shmid |-> s, att |-> TRUE, key |-> arg[p].key, size |-> arg[p].size]
               g == ShmAt(seg[s], p)
    <3>1. obj' = [obj EXCEPT ![p][id] = o] /\ seg' = [seg EXCEPT ![s] = g]
      BY <2>1 DEF CreateShmat
    <3> HIDE DEF id, s, o, g
    <3> QED
      BY <1>2, <3>1, OneSlot
  <2>2. CASE CreateShmatFails(p)
    <3> DEFINE o == [obj[p][id] EXCEPT !.shmid = -1]
               g == ShmRmid(seg[s])
    <3>1. obj' = [obj EXCEPT ![p][id] = o] /\ seg' = [seg EXCEPT ![s] = g]
      BY <2>2 DEF CreateShmatFails
    <3> HIDE DEF id, s, o, g
    <3> QED
      BY <1>2, <3>1, OneSlot
  <2> QED
    BY <2>1, <2>2
<1>4. \/ /\ obj'[p][id] = [shmid |-> s, att |-> TRUE, key |-> arg[p].key, size |-> arg[p].size]
         /\ Matches(seg'[s], arg[p].key, arg[p].size)
         /\ Exists(seg'[s]) /\ seg'[s].state # "none" /\ seg'[s].nat[p] > 0
      \/ obj'[p][id].shmid = -1 /\ ~obj'[p][id].att /\ obj'[p][id].key = Private
  <2>1. CASE CreateShmatFails(p)
    <3>1. obj'[p][id] = [obj[p][id] EXCEPT !.shmid = -1]
      BY <1>2, <2>1 DEF CreateShmatFails, TypeInv, TypeOK
    <3>2. obj[p][id] \in SlotType /\ ~obj[p][id].att /\ obj[p][id].key = Private
      BY <1>1, <1>2, SlotFacts DEF TableOK, Reserved
    <3> HIDE DEF id, s
    <3> QED
      BY <3>1, <3>2 DEF SlotType
  <2>2. CASE CreateShmat(p)
    <3>1. /\ obj'[p][id] = [shmid |-> s, att |-> TRUE, key |-> arg[p].key, size |-> arg[p].size]
          /\ seg'[s] = ShmAt(seg[s], p) /\ Exists(seg[s])
      BY <1>2, <2>2 DEF CreateShmat, TypeInv, TypeOK
    <3>2. Matches(seg[s], arg[p].key, arg[p].size)
      BY <1>1 DEF TableOK, Reserved
    <3>3. seg[s] \in SegType /\ seg[s].nat[p] + 1 > 0
      <4>1. seg[s].nat[p] >= 0
        BY <1>2 DEF NatOK
      <4> QED
        <5>1. seg[s] \in SegType
          BY <1>2 DEF TypeInv, TypeOK
        <5> HIDE DEF s
        <5> QED
          BY <4>1, <5>1 DEF SegType
    <3> QED
      BY <3>1, <3>2, <3>3 DEF Matches, ShmAt, Exists, SegType
  <2> QED
    BY <2>1, <2>2
<1>5. \A i \in Slot \ {id} : Used(p, i) => obj[p][i].shmid \in SegId \ {s}
  BY <1>2, SlotFacts DEF TableOK, Apart
<1>6. ASSUME NEW i \in Slot PROVE SlotOK(p, i)'
  <2>1. CASE i = id
    <3> HIDE DEF id, s
    <3>1. s # -1
      BY <1>2
    <3>2. CASE obj'[p][id].shmid = -1
      BY <1>4, <2>1, <3>1, <3>2 DEF SlotOK, Used
    <3>3. CASE obj'[p][id].shmid # -1
      <4>1. /\ obj'[p][id].shmid = s /\ obj'[p][id].key = arg[p].key /\ obj'[p][id].size = arg[p].size
            /\ Matches(seg'[s], arg[p].key, arg[p].size)
            /\ Exists(seg'[s]) /\ seg'[s].state # "none" /\ seg'[s].nat[p] > 0
        BY <1>4, <3>3
      <4> QED
        BY <2>1, <3>3, <4>1, Zenon DEF SlotOK, Used
    <3> QED
      BY <3>2, <3>3
  <2>2. CASE i # id
    <3>1. obj'[p][i] = obj[p][i] /\ SlotOK(p, i) /\ ~Creating(p, i)
      BY <1>3, <2>2 DEF TableOK, Creating
    <3>2. Used(p, i) => seg'[obj[p][i].shmid] = seg[obj[p][i].shmid]
      BY <1>3, <1>5, <2>2
    <3> QED
      BY <3>1, <3>2 DEF SlotOK, Used, Matches, Exists
  <2> QED
    BY <2>1, <2>2
<1>7. Apart(p)'
  <2> HIDE DEF id, s
  <2>1. /\ obj'[p][id].shmid \in {s, -1}
        /\ obj'[p][id].key = Private \/ obj'[p][id].key = arg[p].key
    BY <1>4
  <2>2. \A j \in Slot : obj[p][j].key = arg[p].key => arg[p].key = Private
    BY <1>1 DEF TableOK, Reserved
  <2>3. s # -1 /\ Apart(p)
    BY <1>2 DEF TableOK
  <2> QED
    BY <1>2, <1>3, <1>4, <1>5, <2>1, <2>2, <2>3 DEF Apart, Used
<1> QED
  BY <1>1, <1>6, <1>7 DEF TableOK, Reserved

\* A call that changes one slot and its segment only, and keeps that slot in order.
LEMMA OneSlotKeeps ==
  ASSUME TypeInv, NEW p \in Proc, TableOK(p), NEW id \in Slot, Used(p, id),
         pc[p] = "idle", pc'[p] = "idle",
         \A i \in Slot \ {id} : obj'[p][i] = obj[p][i],
         \A t \in SegId \ {obj[p][id].shmid} : seg'[t] = seg[t],
         \/ obj'[p][id] = FreeSlot
         \/ /\ obj'[p][id].shmid = obj[p][id].shmid /\ obj'[p][id].key = obj[p][id].key
            /\ obj'[p][id].size = obj[p][id].size
            /\ seg'[obj[p][id].shmid].state # "none"
            /\ Matches(seg'[obj[p][id].shmid], obj[p][id].key, obj[p][id].size)
            /\ obj'[p][id].att => /\ Exists(seg'[obj[p][id].shmid])
                                  /\ seg'[obj[p][id].shmid].nat[p] > 0
  PROVE  TableOK(p)'
<1>1. \A i \in Slot \ {id} : Used(p, i) => obj[p][i].shmid \in SegId \ {obj[p][id].shmid}
  BY SlotFacts DEF TableOK, Apart
<1>2. ASSUME NEW i \in Slot PROVE SlotOK(p, i)'
  <2>1. CASE i = id
    BY <2>1 DEF SlotOK, Used, FreeSlot
  <2>2. CASE i # id
    <3>1. obj'[p][i] = obj[p][i] /\ SlotOK(p, i) /\ ~Creating(p, i)
      BY <2>2 DEF TableOK, Creating
    <3>2. Used(p, i) => seg'[obj[p][i].shmid] = seg[obj[p][i].shmid]
      BY <1>1, <2>2
    <3> QED
      BY <3>1, <3>2 DEF SlotOK, Used, Matches, Exists
  <2> QED
    BY <2>1, <2>2
<1>3. Apart(p)'
  BY <1>1 DEF TableOK, Apart, Used, FreeSlot
<1> QED
  BY <1>2, <1>3 DEF TableOK, Reserved

\* shared_attach and shared_detach.
LEMMA AttachKeeps ==
  ASSUME TypeInv, NatOK, NEW p \in Proc, TableOK(p), NEW id \in Slot, Attach(p, id) \/ Detach(p, id)
  PROVE  TableOK(p)'
<1> DEFINE s == obj[p][id].shmid
<1>1. Used(p, id) /\ pc[p] = "idle" /\ pc'[p] = "idle" /\ s \in SegId /\ seg[s] \in SegType
  BY SlotFacts DEF Attach, Detach, Up, Ready, TypeInv, TypeOK
<1>2. seg[s].state # "none" /\ Matches(seg[s], obj[p][id].key, obj[p][id].size)
  BY <1>1 DEF TableOK, SlotOK, Creating
<1>3. CASE Attach(p, id)
  <2>1. /\ obj'[p][id] = [obj[p][id] EXCEPT !.att = TRUE] /\ seg'[s] = ShmAt(seg[s], p)
        /\ \A i \in Slot \ {id} : obj'[p][i] = obj[p][i]
        /\ \A t \in SegId \ {s} : seg'[t] = seg[t]
        /\ Exists(seg[s]) /\ seg[s].nat[p] >= 0
    BY <1>1, <1>3 DEF Attach, NatOK, TypeInv, TypeOK
  <2>2. /\ obj'[p][id].shmid = s /\ obj'[p][id].key = obj[p][id].key
        /\ obj'[p][id].size = obj[p][id].size
    BY <2>1 DEF TypeInv, TypeOK, SlotType
  <2>3. /\ Exists(seg'[s]) /\ seg'[s].state # "none" /\ seg'[s].nat[p] > 0
        /\ Matches(seg'[s], obj[p][id].key, obj[p][id].size)
    <3> HIDE DEF s
    <3> QED
      BY <1>1, <1>2, <2>1 DEF ShmAt, SegType, Exists, Matches
  <2> QED
    BY <1>1, <2>1, <2>2, <2>3, OneSlotKeeps
<1>4. CASE Detach(p, id)
  <2>1. /\ obj'[p][id] = [obj[p][id] EXCEPT !.att = FALSE] /\ seg'[s] = ShmDt(seg[s], p)
        /\ \A i \in Slot \ {id} : obj'[p][i] = obj[p][i]
        /\ \A t \in SegId \ {s} : seg'[t] = seg[t]
    <3> DEFINE o == [obj[p][id] EXCEPT !.att = FALSE]
               g == ShmDt(seg[s], p)
    <3>1. obj' = [obj EXCEPT ![p][id] = o] /\ seg' = [seg EXCEPT ![s] = g]
      BY <1>4 DEF Detach
    <3>2. obj \in [Proc -> [Slot -> SlotType]] /\ seg \in [SegId -> SegType] /\ s \in SegId
      BY <1>1 DEF TypeInv, TypeOK
    <3>3. seg'[s] = g /\ \A t \in SegId \ {s} : seg'[t] = seg[t]
      <4> HIDE DEF s, o, g
      <4> QED
        BY <3>1, <3>2
    <3>4. obj'[p][id] = o /\ \A i \in Slot \ {id} : obj'[p][i] = obj[p][i]
      <4> HIDE DEF s, o, g
      <4> QED
        BY <3>1, <3>2
    <3> QED
      BY <3>3, <3>4
  <2>2. /\ obj'[p][id].shmid = s /\ obj'[p][id].key = obj[p][id].key
        /\ obj'[p][id].size = obj[p][id].size /\ ~obj'[p][id].att
    BY <2>1 DEF TypeInv, TypeOK, SlotType
  <2>3. seg'[s].state # "none" /\ Matches(seg'[s], obj[p][id].key, obj[p][id].size)
    <3> HIDE DEF s
    <3> QED
      BY <1>1, <1>2, <2>1 DEF ShmDt, Reaped, NoSeg, SegType, Exists, Matches
  <2> QED
    BY <1>1, <2>1, <2>2, <2>3, OneSlotKeeps
<1> QED
  BY <1>3, <1>4

\* What shared_destroy leaves of a used slot and of its segment.
LEMMA DestroyedSlot ==
  ASSUME TypeInv, NEW p \in Proc, TableOK(p), pc[p] = "idle", NEW id \in Slot, Used(p, id)
  PROVE  /\ ShmRmid(Unattached(p, id)).state # "none"
         /\ SlotAfterDestroy(p, id) # FreeSlot =>
              /\ SlotAfterDestroy(p, id) = [obj[p][id] EXCEPT !.att = FALSE]
              /\ ~Exists(ShmRmid(Unattached(p, id)))
<1> DEFINE g == seg[obj[p][id].shmid]
<1>1. g \in SegType /\ g.state # "none"
  BY SlotFacts DEF TableOK, SlotOK, TypeInv, TypeOK
<1>2. Unattached(p, id).state # "none"
  BY <1>1 DEF Unattached, ShmDt, Reaped, NoSeg, SegType
<1>3. ASSUME NEW h \in SegType, h.state # "none" PROVE ShmRmid(h).state # "none"
  BY <1>3 DEF ShmRmid, Reaped, NoSeg, SegType
<1>4. ~Exists(Unattached(p, id)) => ShmRmid(Unattached(p, id)) = Unattached(p, id)
  BY DEF ShmRmid
<1> QED
  BY <1>2, <1>3, <1>4, SlotFacts DEF SlotAfterDestroy, RmidReported

\* shared_destroy.
LEMMA DestroyKeeps ==
  ASSUME TypeInv, NEW p \in Proc, TableOK(p), NEW id \in Slot, Destroy(p, id)
  PROVE  TableOK(p)'
<1> DEFINE s == obj[p][id].shmid
<1>1. Used(p, id) /\ pc[p] = "idle" /\ pc'[p] = "idle" /\ s \in SegId
  BY SlotFacts DEF Destroy, Up, Ready, TypeInv, TypeOK
<1>2. /\ obj'[p][id] = SlotAfterDestroy(p, id) /\ seg'[s] = ShmRmid(Unattached(p, id))
      /\ \A i \in Slot \ {id} : obj'[p][i] = obj[p][i]
      /\ \A t \in SegId \ {s} : seg'[t] = seg[t]
  BY <1>1 DEF Destroy, TypeInv, TypeOK
<1>3. obj'[p][id] = FreeSlot \/
        /\ obj'[p][id].shmid = s /\ obj'[p][id].key = obj[p][id].key
        /\ obj'[p][id].size = obj[p][id].size /\ ~obj'[p][id].att
        /\ seg'[s].state # "none" /\ ~Exists(seg'[s])
  <2>1. obj[p][id] \in SlotType
    BY DEF TypeInv, TypeOK
  <2>2. CASE SlotAfterDestroy(p, id) = FreeSlot
    BY <1>2, <2>2
  <2>3. CASE SlotAfterDestroy(p, id) # FreeSlot
    <3>1. obj'[p][id] = [obj[p][id] EXCEPT !.att = FALSE] /\ seg'[s].state # "none" /\ ~Exists(seg'[s])
      BY <1>1, <1>2, <2>3, DestroyedSlot
    <3> QED
      BY <2>1, <3>1 DEF SlotType
  <2> QED
    BY <2>2, <2>3
<1> QED
  BY <1>1, <1>2, <1>3, OneSlotKeeps DEF Matches, Exists

\* shared_fini destroys all slots.
LEMMA FiniKeeps ==
  ASSUME TypeInv, NEW p \in Proc, TableOK(p), Fini(p)
  PROVE  TableOK(p)'
<1>1. pc[p] = "idle" /\ pc'[p] = "idle"
  BY DEF Fini, Up, Ready
<1>2. ASSUME NEW i \in Slot, Used(p, i)
      PROVE  /\ obj'[p][i] = SlotAfterDestroy(p, i)
             /\ seg'[obj[p][i].shmid] = ShmRmid(Unattached(p, i))
  <2> DEFINE s == obj[p][i].shmid
             id == CHOOSE j \in Slot : obj[p][j].shmid = s
  <2>1. id \in Slot /\ obj[p][id].shmid = s /\ Used(p, id)
    BY <1>2 DEF Used
  <2>2. id = i
    BY <2>1 DEF TableOK, Apart
  <2>3. s \in SegId
    BY <1>2, SlotFacts
  <2>4. seg'[s] = ShmRmid(Unattached(p, id))
    BY <2>1, <2>3 DEF Fini
  <2>5. obj'[p][i] = SlotAfterDestroy(p, i)
    BY <1>2 DEF Fini, TypeInv, TypeOK
  <2> QED
    BY <2>2, <2>4, <2>5
<1>3. ASSUME NEW i \in Slot, ~Used(p, i) PROVE obj'[p][i] = obj[p][i]
  BY <1>3 DEF Fini, TypeInv, TypeOK
<1>4. ASSUME NEW i \in Slot, Used(p, i)
      PROVE  \/ obj'[p][i] = FreeSlot
             \/ /\ obj'[p][i].shmid = obj[p][i].shmid /\ obj'[p][i].key = obj[p][i].key
                /\ obj'[p][i].size = obj[p][i].size /\ ~obj'[p][i].att
                /\ seg'[obj[p][i].shmid].state # "none" /\ ~Exists(seg'[obj[p][i].shmid])
  <2>1. obj[p][i] \in SlotType
    BY DEF TypeInv, TypeOK
  <2>2. CASE SlotAfterDestroy(p, i) = FreeSlot
    BY <1>2, <1>4, <2>2
  <2>3. CASE SlotAfterDestroy(p, i) # FreeSlot
    <3>1. /\ obj'[p][i] = [obj[p][i] EXCEPT !.att = FALSE]
          /\ seg'[obj[p][i].shmid].state # "none" /\ ~Exists(seg'[obj[p][i].shmid])
      <4>1. /\ ShmRmid(Unattached(p, i)).state # "none"
            /\ SlotAfterDestroy(p, i) = [obj[p][i] EXCEPT !.att = FALSE]
            /\ ~Exists(ShmRmid(Unattached(p, i)))
        BY <1>1, <1>4, <2>3, DestroyedSlot
      <4> QED
        BY <1>2, <1>4, <4>1
    <3> QED
      BY <2>1, <3>1 DEF SlotType
  <2> QED
    BY <2>2, <2>3
<1>5. ASSUME NEW i \in Slot PROVE SlotOK(p, i)'
  BY <1>1, <1>3, <1>4 DEF TableOK, SlotOK, Used, Creating, Matches, Exists, FreeSlot
<1>6. Apart(p)'
  BY <1>3, <1>4 DEF TableOK, Apart, Used, FreeSlot
<1> QED
  BY <1>1, <1>5, <1>6 DEF TableOK, Reserved

\* shared_init and the end of the process leave an empty table.
LEMMA EmptyKeeps ==
  ASSUME NEW p \in Proc, obj'[p] = EmptyTable, pc'[p] # "shmat"
  PROVE  TableOK(p)'
BY DEF TableOK, SlotOK, Apart, Reserved, Used, EmptyTable, FreeSlot

\* A forked process has its parent's slots without the pointers.
LEMMA ForkKeeps ==
  ASSUME TypeInv, NEW p \in Proc, NEW q \in Proc, TableOK(p), Fork(p, q)
  PROVE  TableOK(p)' /\ TableOK(q)'
<1>1. p # q /\ pc[p] = "idle" /\ pc'[p] = "idle" /\ pc'[q] = "idle"
  BY DEF Fork, Ready, TypeInv, InCreate
<1>2. ASSUME NEW s \in SegId
      PROVE  /\ seg'[s].state = seg[s].state /\ seg'[s].key = seg[s].key
             /\ seg'[s].size = seg[s].size /\ seg'[s].nat[p] = seg[s].nat[p]
  BY <1>1 DEF Fork, TypeInv, TypeOK, SegType
<1>3. \A i \in Slot : /\ obj'[q][i].shmid = obj[p][i].shmid /\ obj'[q][i].key = obj[p][i].key
                      /\ obj'[q][i].size = obj[p][i].size /\ ~obj'[q][i].att
                      /\ obj'[p][i] = obj[p][i]
  BY <1>1 DEF Fork, TypeInv, TypeOK, SlotType
<1>4. \A i \in Slot : Used(p, i) => obj[p][i].shmid \in SegId
  BY SlotFacts
<1>5. ASSUME NEW i \in Slot PROVE SlotOK(p, i)' /\ SlotOK(q, i)'
  <2>1. SlotOK(p, i) /\ ~Creating(p, i)
    BY <1>1 DEF TableOK, Creating
  <2>2. Used(p, i) => /\ seg'[obj[p][i].shmid].state # "none"
                      /\ Matches(seg'[obj[p][i].shmid], obj[p][i].key, obj[p][i].size)
    BY <1>2, <1>4, <2>1 DEF SlotOK, Matches, Exists
  <2>3. SlotOK(p, i)'
    BY <1>2, <1>3, <1>4, <2>1, <2>2 DEF SlotOK, Used, Exists
  <2>4. SlotOK(q, i)'
    BY <1>3, <2>1, <2>2 DEF SlotOK, Used
  <2> QED
    BY <2>3, <2>4
<1>6. Apart(p)' /\ Apart(q)'
  BY <1>3 DEF TableOK, Apart, Used
<1> QED
  BY <1>1, <1>5, <1>6 DEF TableOK, Reserved

\* No call takes away a mapping that is not there.
LEMMA NatStep ==
  ASSUME TypeInv, NatOK, NEW p \in Proc, TableOK(p), AnyCall(p)
  PROVE  NatOK'
<1>1. \A s \in SegId, q \in Proc : seg[s] \in SegType /\ seg[s].nat[q] \in Int /\ seg[s].nat[q] >= 0
  BY DEF NatOK, TypeInv, TypeOK, SegType
<1>2. ASSUME NEW g, NEW q \in Proc, g.nat[q] >= 0 PROVE Reaped(g).nat[q] >= 0
  BY <1>2 DEF Reaped, NoSeg
<1>3. ASSUME NEW g \in SegType, NEW q \in Proc, g.nat[q] >= 0 PROVE ShmRmid(g).nat[q] >= 0
  <2>1. [g EXCEPT !.state = "dest", !.key = Private].nat[q] >= 0
    BY <1>3 DEF SegType
  <2> QED
    BY <1>2, <1>3, <2>1 DEF ShmRmid
<1>4. ASSUME NEW id \in Slot, Used(p, id), obj[p][id].att, NEW q \in Proc
      PROVE  ShmDt(seg[obj[p][id].shmid], p).nat[q] >= 0
  <2> DEFINE g == seg[obj[p][id].shmid]
             down == [g EXCEPT !.nat[p] = @ - 1]
  <2>1. g \in SegType /\ g.nat[p] > 0 /\ g.nat[q] >= 0
    BY <1>1, <1>4, SlotFacts DEF TableOK, SlotOK
  <2>2. down.nat[q] >= 0
    BY <2>1 DEF SegType
  <2>3. ShmDt(g, p) = Reaped(down)
    BY DEF ShmDt
  <2> HIDE DEF g, down
  <2> QED
    BY <1>2, <2>2, <2>3 DEF g
<1>5. ASSUME NEW id \in Slot, Used(p, id), NEW q \in Proc
      PROVE  ShmRmid(Unattached(p, id)).nat[q] >= 0
  <2>1. Unattached(p, id) \in SegType /\ obj[p][id].shmid \in SegId
    BY <1>5, SlotFacts
  <2>2. Unattached(p, id).nat[q] >= 0
    BY <1>1, <1>4, <1>5, <2>1 DEF Unattached
  <2> QED
    BY <1>3, <2>1, <2>2
<1> SUFFICES ASSUME NEW s \in SegId, NEW q \in Proc PROVE seg'[s].nat[q] >= 0
  BY DEF NatOK
<1>6. seg \in [SegId -> SegType]
  BY DEF TypeInv, TypeOK
<1>8. ASSUME NEW k \in AnyKey, NEW n \in Sizes, CreateShmget(p, k, n) PROVE seg'[s].nat[q] >= 0
  <2>1. \/ UNCHANGED seg
        \/ \E t \in FreshSeg : seg' = [seg EXCEPT ![t] = [state |-> "live", key |-> k, size |-> n,
                                                          nat |-> [r \in Proc |-> 0]]]
    BY <1>8, Zenon DEF CreateShmget
  <2> QED
    BY <1>1, <1>6, <2>1 DEF FreshSeg
<1>9. CASE CreateShmat(p) \/ \E id \in Slot : Attach(p, id)
  <2>1. \A t \in SegId : ShmAt(seg[t], p).nat[q] >= 0
    BY <1>1 DEF ShmAt, SegType
  <2>2. CASE CreateShmat(p)
    BY <1>1, <1>6, <2>1, <2>2 DEF CreateShmat
  <2>3. CASE \E id \in Slot : Attach(p, id)
    BY <1>1, <1>6, <2>1, <2>3 DEF Attach
  <2> QED
    BY <1>9, <2>2, <2>3
<1>10. CASE CreateShmatFails(p)
  BY <1>1, <1>3, <1>6, <1>10 DEF CreateShmatFails
<1>11. ASSUME NEW id \in Slot, Detach(p, id) PROVE seg'[s].nat[q] >= 0
  <2>1. Used(p, id) /\ obj[p][id].att /\ seg' = [seg EXCEPT ![obj[p][id].shmid] = ShmDt(@, p)]
    BY <1>11 DEF Detach
  <2> QED
    BY <1>1, <1>4, <1>6, <2>1
<1>12. ASSUME NEW id \in Slot, Destroy(p, id) PROVE seg'[s].nat[q] >= 0
  <2>1. Used(p, id) /\ seg' = [seg EXCEPT ![obj[p][id].shmid] = ShmRmid(Unattached(p, id))]
    BY <1>12 DEF Destroy
  <2> QED
    BY <1>1, <1>5, <1>6, <2>1
<1>13. CASE Fini(p)
  <2>1. CASE \E id \in Slot : obj[p][id].shmid = s
    <3> DEFINE id == CHOOSE i \in Slot : obj[p][i].shmid = s
    <3>1. id \in Slot /\ obj[p][id].shmid = s /\ s # -1
      BY <2>1 DEF SegId
    <3>2. seg'[s] = ShmRmid(Unattached(p, id))
      BY <1>13, <2>1 DEF Fini
    <3> HIDE DEF id
    <3> QED
      BY <1>5, <3>1, <3>2 DEF Used
  <2>2. CASE ~\E id \in Slot : obj[p][id].shmid = s
    BY <1>1, <1>13, <2>2 DEF Fini
  <2> QED
    BY <2>1, <2>2
<1>14. ASSUME NEW c \in Proc, Fork(p, c) PROVE seg'[s].nat[q] >= 0
  BY <1>1, <1>14 DEF Fork, SegType
<1>15. CASE Exit(p)
  <2>1. seg'[s] = Reaped([seg[s] EXCEPT !.nat[p] = 0])
    BY <1>15 DEF Exit
  <2>2. [seg[s] EXCEPT !.nat[p] = 0].nat[q] >= 0
    BY <1>1 DEF SegType
  <2> QED
    BY <1>2, <2>1, <2>2
<1>16. \/ \E v \in BOOLEAN : SetVerbose(p, v)
       \/ \E ini \in BOOLEAN : InitSemget(p, ini)
       \/ InitSemctl(p)
       \/ \E id \in Slot : Lock(p, id) \/ Unlock(p, id)
       => UNCHANGED seg
  BY Zenon DEF SetVerbose, InitSemget, InitSemctl, Lock, Unlock
<1>17. UNCHANGED seg => seg'[s].nat[q] >= 0
  BY <1>1
<1> QED
  BY <1>8, <1>9, <1>10, <1>11, <1>12, <1>13, <1>14, <1>15, <1>16, <1>17 DEF AnyCall

\* A call of p leaves p's own table in order.
LEMMA OwnKeeps ==
  ASSUME TypeInv, NatOK, NEW p \in Proc, TableOK(p), AnyCall(p)
  PROVE  TableOK(p)'
<1>1. /\ obj \in [Proc -> [Slot -> SlotType]] /\ pc \in [Proc -> {"idle", "semctl", "shmat"}]
      /\ \A s \in SegId : seg[s].state # "none" => Later(seg[s], seg[s], p)
  BY DEF TypeInv, TypeOK, Later
<1>2. CASE \/ \E v \in BOOLEAN : SetVerbose(p, v)
           \/ \E id \in Slot : Lock(p, id) \/ Unlock(p, id)
  <2>1. UNCHANGED <<obj, arg, pc, seg>>
    BY <1>2, Zenon DEF SetVerbose, Lock, Unlock
  <2> QED
    BY <1>1, <2>1, TableStays
<1>3. ASSUME NEW ini \in BOOLEAN, InitSemget(p, ini) PROVE TableOK(p)'
  <2>1. obj'[p] = EmptyTable
    BY <1>1, <1>3 DEF InitSemget
  <2>2. pc' = pc \/ pc' = [pc EXCEPT ![p] = "semctl"]
    BY <1>3, Zenon DEF InitSemget
  <2>3. pc'[p] # "shmat"
    BY <1>1, <1>3, <2>2 DEF InitSemget, Ready
  <2> QED
    BY <2>1, <2>3, EmptyKeeps
<1>4. CASE InitSemctl(p)
  <2>1. UNCHANGED <<obj, arg, seg>> /\ pc[p] = "semctl" /\ pc'[p] = "idle"
    BY <1>1, <1>4 DEF InitSemctl
  <2> QED
    BY <1>1, <2>1, TableStays
<1>5. CASE Exit(p)
  <2>1. obj'[p] = EmptyTable /\ pc'[p] = "idle"
    BY <1>1, <1>5 DEF Exit
  <2> QED
    BY <2>1, EmptyKeeps
<1> QED
  BY <1>2, <1>3, <1>4, <1>5, CreateKeeps, MapKeeps, AttachKeeps, DestroyKeeps, FiniKeeps, ForkKeeps
     DEF AnyCall

\* The inductive invariant of the tables.
TablesInv == TypeInv /\ NatOK /\ \A p \in Proc : TableOK(p)

\* The tables are in order at the start and stay so.
LEMMA TablesAlways == Spec => []TablesInv
<1>1. Init => TablesInv
  <2> SUFFICES ASSUME Init PROVE NatOK /\ \A p \in Proc : TableOK(p)
    BY TypeInit DEF TablesInv
  <2>1. NatOK
    BY DEF Init, NatOK, NoSeg
  <2>2. ASSUME NEW p \in Proc PROVE TableOK(p)
    BY DEF Init, LibInit, TableOK, SlotOK, Apart, Reserved, Used, EmptyTable, FreeSlot
  <2> QED
    BY <2>1, <2>2
<1>2. TablesInv /\ [Next]_vars => TablesInv'
  <2> SUFFICES ASSUME TablesInv, [Next]_vars PROVE TablesInv'
    OBVIOUS
  <2> USE DEF TablesInv
  <2>1. ASSUME NEW p \in Proc, Call(p) PROVE TablesInv'
    <3>1. held[p] \subseteq Slot
      BY DEF TypeInv, TypeOK
    <3>2. AnyCall(p)
      BY <2>1, <3>1, Zenon DEF Call, AnyCall
    <3>3. TypeInv' /\ NatOK'
      BY <3>2, TypeStep, NatStep
    <3>4. ASSUME NEW q \in Proc PROVE TableOK(q)'
      BY <3>2, OwnKeeps, OthersStay, ForkKeeps
    <3> QED
      BY <3>3, <3>4
  <2>2. CASE UNCHANGED vars
    <3> USE <2>2 DEF vars, libvars
    <3>1. TypeInv' /\ NatOK'
      BY DEF TypeInv, TypeOK, InCreate, Used, NatOK
    <3>2. ASSUME NEW q \in Proc PROVE TableOK(q)'
      <4>1. (\A i \in Slot : SlotOK(q, i))' <=> (\A i \in Slot : SlotOK(q, i))
        BY Zenon DEF SlotOK, Used, Creating, Matches, Exists
      <4>2. Apart(q)' <=> Apart(q)
        BY Zenon DEF Apart, Used
      <4>3. Reserved(q)' <=> Reserved(q)
        BY Zenon DEF Reserved, Matches, Exists
      <4> QED
        BY <4>1, <4>2, <4>3 DEF TableOK
    <3> QED
      BY <3>1, <3>2
  <2> QED
    BY <2>1, <2>2 DEF Next
<1> QED
  BY <1>1, <1>2, PTL DEF Spec

\* A pointer of an attached slot never dangles and is as large as the checks of shared_read and
\* shared_write take it to be, whatever the other processes destroy.
THEOREM PointersAreValid == Spec => []PointerValid
<1>1. TablesInv => PointerValid
  <2> SUFFICES ASSUME TablesInv, NEW p \in Proc, NEW id \in Slot, obj[p][id].att
               PROVE  LET g == seg[obj[p][id].shmid]
                      IN  Used(p, id) /\ Exists(g) /\ g.nat[p] > 0 /\ obj[p][id].size <= g.size
    BY DEF PointerValid
  <2>1. SlotOK(p, id) /\ Reserved(p)
    BY DEF TablesInv, TableOK
  <2> QED
    BY <2>1 DEF SlotOK, Reserved, Creating, Matches
<1> QED
  BY <1>1, TablesAlways, PTL

\* shared_create gives a key one slot and a segment one slot, so an id stays good until its object
\* is destroyed.
THEOREM KeysHaveOneSlot == Spec => []OneSlotPerKey
<1>1. TablesInv => OneSlotPerKey
  BY DEF TablesInv, TableOK, Apart, OneSlotPerKey, UsedSlots
<1> QED
  BY <1>1, TablesAlways, PTL

-----------------------------------------------------------------------------
\* The number of used slots: shared_cnt, and the one that shared_create has not counted yet.
CountOK(p) == cnt[p] = Cardinality(UsedSlots(p)) - (IF pc[p] = "shmat" THEN 1 ELSE 0)

\* A set of slots is finite, and one slot more or less counts for one.
LEMMA SomeSlots ==
  ASSUME NEW S \in SUBSET Slot
  PROVE  /\ IsFiniteSet(S) /\ Cardinality(S) \in Nat
         /\ \A id \in S : Cardinality(S \ {id}) = Cardinality(S) - 1
         /\ \A id \in Slot \ S : Cardinality(S \cup {id}) = Cardinality(S) + 1
<1>1. IsFiniteSet(Slot)
  BY FS_Interval DEF Slot
<1>2. IsFiniteSet(S)
  BY <1>1, FS_Subset
<1> QED
  BY <1>2, FS_CardinalityType, FS_AddElement, FS_RemoveElement

\* The count stays where the slots stay, or come from the process that forks.
LEMMA CountSame ==
  ASSUME NEW p \in Proc, NEW q \in Proc, CountOK(p), \A i \in Slot : obj'[q][i].shmid = obj[p][i].shmid,
         cnt'[q] = cnt[p], pc'[q] = "shmat" <=> pc[p] = "shmat"
  PROVE  CountOK(q)'
<1>1. UsedSlots(q)' = UsedSlots(p)
  BY DEF UsedSlots, Used
<1> QED
  BY <1>1 DEF CountOK

\* A forked process has the slots and the count of its parent.
LEMMA CountFork ==
  ASSUME TypeInv, NEW p \in Proc, CountOK(p), NEW q \in Proc, Fork(p, q)
  PROVE  CountOK(p)' /\ CountOK(q)'
<1>1. p # q /\ pc[p] = "idle" /\ pc[q] = "idle" /\ pc' = pc
  BY DEF Fork, Ready, TypeInv, InCreate
<1>2. /\ \A i \in Slot : obj'[q][i].shmid = obj[p][i].shmid /\ obj'[p][i] = obj[p][i]
      /\ cnt'[p] = cnt[p] /\ cnt'[q] = cnt[p]
  BY <1>1 DEF Fork, TypeInv, TypeOK, SlotType
<1> QED
  BY <1>1, <1>2, CountSame

\* Every call keeps the count of the process that makes it.
LEMMA CountStep ==
  ASSUME TypeInv, NEW p \in Proc, CountOK(p), AnyCall(p)
  PROVE  CountOK(p)'
<1>1. /\ obj \in [Proc -> [Slot -> SlotType]] /\ pc \in [Proc -> {"idle", "semctl", "shmat"}]
      /\ cnt \in [Proc -> Int] /\ arg \in [Proc -> [id : Slot, key : AnyKey, size : Sizes \cup {0}]]
      /\ UsedSlots(p) \in SUBSET Slot /\ Cardinality(UsedSlots(p)) \in Nat
  BY SomeSlots DEF TypeInv, TypeOK, UsedSlots
<1>2. ASSUME obj'[p] = EmptyTable, cnt'[p] = 0, pc'[p] # "shmat" PROVE CountOK(p)'
  <2>1. UsedSlots(p)' = {}
    BY <1>2 DEF UsedSlots, Used, EmptyTable, FreeSlot
  <2> QED
    BY <1>2, <2>1, FS_EmptySet DEF CountOK
<1>3. CASE \/ \E v \in BOOLEAN : SetVerbose(p, v)
           \/ \E id \in Slot : Lock(p, id) \/ Unlock(p, id)
  <2>1. UNCHANGED <<obj, pc, cnt>>
    BY <1>3, Zenon DEF SetVerbose, Lock, Unlock
  <2> QED
    BY <2>1, CountSame
<1>4. ASSUME NEW ini \in BOOLEAN, InitSemget(p, ini) PROVE CountOK(p)'
  <2>1. obj'[p] = EmptyTable /\ cnt'[p] = 0
    BY <1>1, <1>4 DEF InitSemget
  <2>2. pc' = pc \/ pc' = [pc EXCEPT ![p] = "semctl"]
    BY <1>4, Zenon DEF InitSemget
  <2> QED
    BY <1>1, <1>2, <1>4, <2>1, <2>2 DEF InitSemget, Ready
<1>5. CASE InitSemctl(p)
  <2>1. UNCHANGED <<obj, cnt>> /\ pc[p] = "semctl" /\ pc'[p] = "idle"
    BY <1>1, <1>5 DEF InitSemctl
  <2> QED
    BY <2>1, CountSame
<1>6. ASSUME NEW k \in AnyKey, NEW n \in Sizes, CreateShmget(p, k, n) PROVE CountOK(p)'
  <2>1. PICK id \in FirstFree(p), s \in SegId : obj' = [obj EXCEPT ![p][id].shmid = s]
    BY <1>6, Zenon DEF CreateShmget, WithKey, FreshSeg
  <2>2. id \in Slot \ UsedSlots(p)
    BY DEF FirstFree, UsedSlots
  <2>3. UsedSlots(p)' = UsedSlots(p) \cup {id}
    BY <1>1, <2>1, <2>2 DEF UsedSlots, Used, SegId, SlotType
  <2>4. cnt' = cnt /\ pc[p] = "idle" /\ pc'[p] = "shmat"
    BY <1>1, <1>6 DEF CreateShmget, Up, Ready
  <2>5. Cardinality(UsedSlots(p)') = Cardinality(UsedSlots(p)) + 1
    BY <1>1, <2>2, <2>3, SomeSlots
  <2> QED
    BY <1>1, <2>4, <2>5 DEF CountOK
<1>7. CASE CreateShmat(p)
  <2> DEFINE id == arg[p].id
  <2>1. id \in Slot /\ pc[p] = "shmat" /\ pc'[p] = "idle" /\ cnt'[p] = cnt[p] + 1
    BY <1>1, <1>7 DEF CreateShmat
  <2>2. \A i \in Slot : obj'[p][i].shmid = obj[p][i].shmid
    BY <1>1, <1>7, <2>1 DEF CreateShmat
  <2>3. UsedSlots(p)' = UsedSlots(p)
    BY <2>2 DEF UsedSlots, Used
  <2> QED
    BY <1>1, <2>1, <2>3 DEF CountOK
<1>8. CASE CreateShmatFails(p)
  <2> DEFINE id == arg[p].id
  <2>1. id \in Slot /\ pc[p] = "shmat" /\ pc'[p] = "idle" /\ cnt' = cnt /\ id \in UsedSlots(p)
    BY <1>1, <1>8 DEF CreateShmatFails, TypeInv, InCreate, UsedSlots
  <2>2. obj' = [obj EXCEPT ![p][id].shmid = -1]
    BY <1>8 DEF CreateShmatFails
  <2>3. UsedSlots(p)' = UsedSlots(p) \ {id}
    BY <1>1, <2>1, <2>2 DEF UsedSlots, Used, SlotType
  <2>4. Cardinality(UsedSlots(p)') = Cardinality(UsedSlots(p)) - 1
    BY <1>1, <2>1, <2>3, SomeSlots
  <2> QED
    BY <1>1, <2>1, <2>4 DEF CountOK
<1>9. ASSUME NEW id \in Slot, Attach(p, id) \/ Detach(p, id) PROVE CountOK(p)'
  <2>1. UNCHANGED <<cnt, pc>> /\ \E b \in BOOLEAN : obj' = [obj EXCEPT ![p][id].att = b]
    BY <1>9, Zenon DEF Attach, Detach
  <2>2. \A i \in Slot : obj'[p][i].shmid = obj[p][i].shmid
    BY <1>1, <2>1 DEF SlotType
  <2> QED
    BY <2>1, <2>2, CountSame
<1>10. ASSUME NEW id \in Slot
       PROVE  SlotAfterDestroy(p, id).shmid = IF RmidReported(p, id) THEN obj[p][id].shmid ELSE -1
  BY <1>1 DEF SlotAfterDestroy, FreeSlot, SlotType
<1>11. ASSUME NEW id \in Slot, Destroy(p, id) PROVE CountOK(p)'
  <2>1. /\ id \in UsedSlots(p) /\ pc[p] = "idle" /\ pc' = pc
        /\ cnt'[p] = IF RmidReported(p, id) THEN cnt[p] ELSE cnt[p] - 1
        /\ obj'[p][id] = SlotAfterDestroy(p, id)
        /\ \A i \in Slot \ {id} : obj'[p][i] = obj[p][i]
    BY <1>1, <1>11 DEF Destroy, UsedSlots, Up, Ready
  <2>2. UsedSlots(p)' = IF RmidReported(p, id) THEN UsedSlots(p) ELSE UsedSlots(p) \ {id}
    BY <1>10, <2>1 DEF UsedSlots, Used
  <2>3. Cardinality(UsedSlots(p) \ {id}) = Cardinality(UsedSlots(p)) - 1
    BY <1>1, <2>1, SomeSlots
  <2> QED
    BY <1>1, <2>1, <2>2, <2>3 DEF CountOK
<1>12. CASE Fini(p)
  <2> DEFINE N == {id \in UsedSlots(p) : ~RmidReported(p, id)}
             R == {id \in UsedSlots(p) : RmidReported(p, id)}
  <2>1. pc[p] = "idle" /\ pc' = pc /\ cnt'[p] = cnt[p] - Cardinality(N)
    BY <1>1, <1>12 DEF Fini, Up, Ready
  <2>2. \A id \in Slot : obj'[p][id] = IF Used(p, id) THEN SlotAfterDestroy(p, id) ELSE obj[p][id]
    BY <1>1, <1>12 DEF Fini
  <2>3. UsedSlots(p)' = R
    BY <1>10, <2>2 DEF UsedSlots, Used
  <2>4. UsedSlots(p) = N \cup R /\ N \cap R = {} /\ N \in SUBSET Slot /\ R \in SUBSET Slot
    BY <1>1
  <2>5. /\ IsFiniteSet(N) /\ IsFiniteSet(R) /\ Cardinality(N) \in Nat /\ Cardinality(R) \in Nat
    BY <2>4, SomeSlots
  <2> HIDE DEF N, R
  <2>6. Cardinality(N \cup R) = Cardinality(N) + Cardinality(R) - Cardinality(N \cap R)
    BY <2>5, FS_Union
  <2>7. Cardinality(UsedSlots(p)) = Cardinality(N) + Cardinality(R)
    <3>1. Cardinality(N \cap R) = 0
      BY <2>4, FS_EmptySet
    <3>2. Cardinality(UsedSlots(p)) = Cardinality(N \cup R)
      BY <2>4
    <3> QED
      BY <2>5, <2>6, <3>1, <3>2
  <2> QED
    BY <1>1, <2>1, <2>3, <2>5, <2>7 DEF CountOK
<1>13. CASE Exit(p)
  <2>1. obj'[p] = EmptyTable /\ pc'[p] = "idle" /\ cnt'[p] = 0
    BY <1>1, <1>13 DEF Exit
  <2> QED
    BY <1>2, <2>1
<1> QED
  BY <1>3, <1>4, <1>5, <1>6, <1>7, <1>8, <1>9, <1>11, <1>12, <1>13, CountFork DEF AnyCall

\* shared_cnt is the number of slots in use between the calls, so shared_create looks for a free
\* slot exactly when there is one.
THEOREM CountIsRight == Spec => []CountMatches
<1> DEFINE Inv == TypeInv /\ \A p \in Proc : CountOK(p)
<1>1. Init => Inv
  <2> SUFFICES ASSUME Init, NEW p \in Proc PROVE CountOK(p)
    BY TypeInit
  <2>1. UsedSlots(p) = {} /\ cnt[p] = 0 /\ pc[p] = "idle"
    BY DEF Init, LibInit, UsedSlots, Used, EmptyTable, FreeSlot
  <2> QED
    BY <2>1, FS_EmptySet DEF CountOK
<1>2. Inv /\ [Next]_vars => Inv'
  <2> SUFFICES ASSUME Inv, [Next]_vars PROVE Inv'
    OBVIOUS
  <2>1. ASSUME NEW p \in Proc, Call(p) PROVE Inv'
    <3>1. held[p] \subseteq Slot
      BY DEF TypeInv, TypeOK
    <3>2. AnyCall(p)
      BY <2>1, <3>1, Zenon DEF Call, AnyCall
    <3>3. TypeInv'
      BY <3>2, TypeStep
    <3>4. ASSUME NEW q \in Proc, p # q, ~Fork(p, q) PROVE CountOK(q)'
      <4>1. obj'[q] = obj[q] /\ pc'[q] = pc[q] /\ cnt'[q] = cnt[q]
        BY <3>2, <3>4, OthersSame
      <4> QED
        BY <4>1 DEF CountOK, UsedSlots, Used
    <3> QED
      BY <3>2, <3>3, <3>4, CountStep, CountFork
  <2>2. CASE UNCHANGED vars
    <3>1. TypeInv'
      BY <2>2 DEF vars, libvars, TypeInv, TypeOK, InCreate, Used
    <3> QED
      BY <2>2, <3>1 DEF vars, libvars, CountOK, UsedSlots, Used
  <2> QED
    BY <2>1, <2>2 DEF Next
<1>3. Inv => CountMatches
  <2> SUFFICES ASSUME Inv, NEW p \in Proc, pc[p] # "shmat"
               PROVE  cnt[p] = Cardinality(UsedSlots(p))
    BY DEF CountMatches
  <2>1. Cardinality(UsedSlots(p)) \in Nat
    BY SomeSlots DEF UsedSlots
  <2> QED
    BY <2>1 DEF CountOK
<1> QED
  BY <1>1, <1>2, <1>3, PTL DEF Spec
=============================================================================
