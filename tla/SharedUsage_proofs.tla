------------------------- MODULE SharedUsage_proofs -------------------------
(***************************************************************************)
(* Clients that keep the four rules of SharedUsage exclude each other, for *)
(* any processes, keys and slots.  SlotInv: a segment has the same slot in *)
(* every table.  LockInv: a slot's semaphore is 1 with no holder or 0 with *)
(* one, and what SEM_UNDO would undo is what is held.                      *)
(***************************************************************************)
EXTENDS SharedUsage, SharedLib_proofs

AllRules == Rules = {"init", "fini", "order", "verbose"}

SlotInv ==
  /\ \A p \in Proc, id \in Slot : Used(p, id) =>
       LET g == seg[obj[p][id].shmid]
       IN  /\ g.state # "none"
           /\ g.state = "live" /\ g.key \in Key => id = SlotOf[g.key]
  /\ \A p, q \in Proc, i, j \in Slot :
       Used(p, i) /\ obj[p][i].shmid = obj[q][j].shmid => i = j

NoHolder(id) == \A q \in Proc : id \notin held[q]
OneHolder(id) == \E q \in Proc : /\ id \in held[q]
                                 /\ \A r \in Proc \ {q} : id \notin held[r]

\* Whoever has the library initialised is alive, verbose, and has a live set.
Users == \A p \in Proc : initialized[p] =>
           status[p] = "live" /\ verb[p] /\ SemLive(semid[p])
OneSet == \A i, j \in LiveSems : i = j
HoldersUse == \A p \in Proc : held[p] # {} => initialized[p]
\* While the semaphores are being initialised nobody uses them.
InitAlone == \A p \in Proc : pc[p] = "semctl" =>
               /\ p = Initializer /\ verb[p] /\ status[p] = "live"
               /\ \A q \in Proc : ~initialized[q]
Blank == \A j \in SemId : sem[j].state = "none" => sem[j] = NoSem
UndoIsHeld == \A j \in LiveSems, p \in Proc, id \in Slot :
                sem[j].undo[p][id] = IF id \in held[p] THEN 1 ELSE 0
SemIsHeld == \A p \in Proc, id \in Slot : initialized[p] =>
               \/ sem[semid[p]].val[id] = 1 /\ NoHolder(id)
               \/ sem[semid[p]].val[id] = 0 /\ OneHolder(id)

LockInv == Users /\ OneSet /\ HoldersUse /\ InitAlone /\ Blank /\ UndoIsHeld /\ SemIsHeld

USE LibAssumption, UsageAssumption DEF AnyKey

-----------------------------------------------------------------------------
\* The call a client makes under the rules is a call of the library.
LEMMA RuledCall ==
  ASSUME TypeInv, NEW p \in Proc, UCall(p)
  PROVE  AnyCall(p)
<1>1. held[p] \subseteq Slot
  BY DEF TypeInv, TypeOK
<1> QED
  BY <1>1, Zenon DEF UCall, AnyCall

\* h is what is left of segment g: not a new one, and if live, with g's key.
Remains(g, h) ==
  /\ h.state = "none" <=> g.state = "none"
  /\ h.state = "live" => g.state = "live" /\ h.key = g.key

\* What the kernel operations leave of a segment are its remains.
LEMMA SegRemains ==
  ASSUME NEW g \in SegType, NEW p \in Proc
  PROVE  /\ Remains(g, g)
         /\ Remains(g, Reaped(g))
         /\ Remains(g, ShmAt(g, p))
         /\ Remains(g, ShmDt(g, p))
         /\ Remains(g, ShmRmid(g))
         /\ \A n \in Int : Remains(g, [g EXCEPT !.nat[p] = n])
<1> USE DEF SegType
<1>1. \A h \in SegType : Remains(h, Reaped(h))
  BY DEF Reaped, Remains, NoSeg
<1>2. \A n \in Int : [g EXCEPT !.nat[p] = n] \in SegType /\ Remains(g, [g EXCEPT !.nat[p] = n])
  BY DEF Remains
<1>3. [g EXCEPT !.nat[p] = @ - 1] \in SegType /\ Remains(g, [g EXCEPT !.nat[p] = @ - 1])
  BY DEF Remains
<1>4. Remains(g, ShmDt(g, p))
  BY <1>1, <1>3 DEF ShmDt, Remains
<1>5. Remains(g, ShmAt(g, p))
  BY DEF ShmAt, Remains
<1>6. /\ [g EXCEPT !.state = "dest", !.key = Private] \in SegType
      /\ Exists(g) => Remains(g, [g EXCEPT !.state = "dest", !.key = Private])
  BY DEF Remains, Exists
<1>7. Remains(g, ShmRmid(g))
  BY <1>1, <1>6 DEF ShmRmid, Remains
<1>8. Remains(g, g)
  BY DEF Remains
<1> QED
  BY <1>1, <1>2, <1>4, <1>5, <1>7, <1>8

\* A step that only frees or copies slots and lets segments remain keeps SlotInv.
LEMMA SlotsKept ==
  ASSUME TypeInv, SlotInv,
         \A p \in Proc, id \in Slot :
           \/ obj'[p][id].shmid = -1
           \/ \E q \in Proc : obj'[p][id].shmid = obj[q][id].shmid,
         \A s \in SegId : Remains(seg[s], seg'[s])
  PROVE  SlotInv'
<1>1. \A p \in Proc, id \in Slot : obj[p][id].shmid \in SegId \cup {-1}
  BY DEF TypeInv, TypeOK, SlotType
<1> QED
  BY <1>1 DEF SlotInv, Used, Remains

\* The first free slot of a table is one slot.
LEMMA OneFirstFree ==
  ASSUME NEW p \in Proc, NEW i \in FirstFree(p), NEW j \in FirstFree(p)
  PROVE  i = j
<1>1. i \in Int /\ j \in Int /\ 0 <= i /\ 0 <= j
  BY DEF FirstFree, Slot
<1>2. ~(i < j) /\ ~(j < i)
  BY <1>1 DEF FirstFree
<1> QED
  BY <1>1, <1>2

\* Every call under the rules keeps SlotInv.
LEMMA SlotStep ==
  ASSUME AllRules, TypeInv, SlotInv, NEW p \in Proc, UCall(p)
  PROVE  SlotInv'
<1> DEFINE Kept == /\ \A q \in Proc, id \in Slot :
                        \/ obj'[q][id].shmid = -1
                        \/ \E r \in Proc : obj'[q][id].shmid = obj[r][id].shmid
                   /\ \A s \in SegId : Remains(seg[s], seg'[s])
<1>1. Kept => SlotInv'
  BY SlotsKept
<1>2. /\ obj \in [Proc -> [Slot -> SlotType]]
      /\ seg \in [SegId -> SegType]
  BY DEF TypeInv, TypeOK
<1>3. \A s \in SegId : Remains(seg[s], seg[s])
  BY <1>2, SegRemains
<1>4. UNCHANGED <<obj, seg>> => Kept
  BY <1>3
<1>5. ASSUME NEW ini \in BOOLEAN, InitSemget(p, ini) PROVE Kept
  BY <1>2, <1>3, <1>5 DEF InitSemget, EmptyTable, FreeSlot
<1>6. ASSUME NEW k \in AnyKey, NEW n \in Sizes, MayCreate(p, k), CreateShmget(p, k, n)
      PROVE  SlotInv'
  <2>1. PICK id \in FirstFree(p) :
          \/ \E s \in WithKey(k) :
               obj' = [obj EXCEPT ![p][id].shmid = s] /\ UNCHANGED seg
          \/ \E s \in FreshSeg :
               /\ obj' = [obj EXCEPT ![p][id].shmid = s]
               /\ seg' = [seg EXCEPT ![s] =
                            [state |-> "live", key |-> k, size |-> n,
                             nat |-> [q \in Proc |-> 0]]]
    BY <1>6 DEF CreateShmget
  <2>2. k \in Key => id = SlotOf[k]
    BY <1>6, OneFirstFree DEF MayCreate, AllRules
  <2>3. id \in Slot
    BY DEF FirstFree
  <2>4. ASSUME NEW s \in SegId, obj' = [obj EXCEPT ![p][id].shmid = s]
        PROVE  \A q \in Proc, j \in Slot :
                 obj'[q][j].shmid = IF q = p /\ j = id THEN s ELSE obj[q][j].shmid
    BY <1>2, <2>3, <2>4 DEF SlotType
  <2>5. CASE \E s \in WithKey(k) :
               obj' = [obj EXCEPT ![p][id].shmid = s] /\ UNCHANGED seg
    <3>1. PICK s \in WithKey(k) :
            obj' = [obj EXCEPT ![p][id].shmid = s] /\ UNCHANGED seg
      BY <2>5
    <3>2. /\ s \in SegId /\ s # -1
          /\ seg[s].state = "live" /\ seg[s].key = k /\ k \in Key
      BY DEF WithKey, SegId
    <3>3. \A q \in Proc, j \in Slot : obj[q][j].shmid = s => j = id
      BY <2>2, <3>2 DEF SlotInv, Used
    <3>4. \A q \in Proc, j \in Slot :
            obj'[q][j].shmid = IF q = p /\ j = id THEN s ELSE obj[q][j].shmid
      BY <2>4, <3>1, <3>2
    <3> QED
      BY <2>2, <2>3, <3>1, <3>2, <3>3, <3>4 DEF SlotInv, Used
  <2>6. CASE \E s \in FreshSeg :
               /\ obj' = [obj EXCEPT ![p][id].shmid = s]
               /\ seg' = [seg EXCEPT ![s] =
                            [state |-> "live", key |-> k, size |-> n,
                             nat |-> [q \in Proc |-> 0]]]
    <3>1. PICK s \in FreshSeg :
            /\ obj' = [obj EXCEPT ![p][id].shmid = s]
            /\ seg' = [seg EXCEPT ![s] =
                         [state |-> "live", key |-> k, size |-> n,
                          nat |-> [q \in Proc |-> 0]]]
      BY <2>6
    <3>2. s \in SegId /\ s # -1 /\ seg[s].state = "none"
      BY DEF FreshSeg, SegId
    <3>3. \A q \in Proc, j \in Slot : obj[q][j].shmid # s
      BY <3>2 DEF SlotInv, Used
    <3>4. \A q \in Proc, j \in Slot :
            obj'[q][j].shmid = IF q = p /\ j = id THEN s ELSE obj[q][j].shmid
      BY <2>4, <3>1, <3>2
    <3>5. /\ seg'[s].state = "live" /\ seg'[s].key = k
          /\ \A t \in SegId \ {s} : seg'[t] = seg[t]
      BY <1>2, <3>1, <3>2
    <3>6. \A q \in Proc, j \in Slot : obj[q][j].shmid \in SegId \cup {-1}
      BY <1>2 DEF SlotType
    <3>7. ASSUME NEW q \in Proc, NEW j \in Slot, Used(q, j)'
          PROVE  LET g == seg'[obj'[q][j].shmid]
                 IN  /\ g.state # "none"
                     /\ g.state = "live" /\ g.key \in Key => j = SlotOf[g.key]
      <4>1. CASE q = p /\ j = id
        BY <2>2, <3>4, <3>5, <4>1
      <4>2. CASE ~(q = p /\ j = id)
        <5>1. obj'[q][j].shmid = obj[q][j].shmid /\ Used(q, j)
          BY <3>4, <3>7, <4>2 DEF Used
        <5>2. seg'[obj'[q][j].shmid] = seg[obj[q][j].shmid]
          BY <3>3, <3>5, <3>6, <5>1 DEF Used
        <5> QED
          BY <5>1, <5>2 DEF SlotInv
      <4> QED
        BY <4>1, <4>2
    <3>8. \A q, r \in Proc, i, j \in Slot :
            Used(q, i)' /\ obj'[q][i].shmid = obj'[r][j].shmid => i = j
      BY <3>2, <3>3, <3>4 DEF SlotInv, Used
    <3> QED
      BY <3>7, <3>8 DEF SlotInv
  <2> QED
    BY <2>1, <2>5, <2>6
<1>7. ASSUME CreateShmat(p) PROVE Kept
  <2>1. arg[p].id \in Slot /\ obj[p][arg[p].id].shmid \in SegId
    <3>1. arg[p].id \in Slot /\ Used(p, arg[p].id)
      BY <1>7 DEF CreateShmat, TypeInv, TypeOK, InCreate
    <3> QED
      BY <3>1, SlotFacts
  <2>2. \A q \in Proc, id \in Slot : obj'[q][id].shmid = obj[q][id].shmid
    BY <1>2, <1>7, <2>1 DEF CreateShmat, SlotType
  <2>3. \A s \in SegId : Remains(seg[s], seg'[s])
    BY <1>2, <1>3, <1>7, <2>1, SegRemains DEF CreateShmat
  <2> QED
    BY <2>2, <2>3
<1>8. ASSUME CreateShmatFails(p) PROVE Kept
  <2>1. arg[p].id \in Slot /\ obj[p][arg[p].id].shmid \in SegId
    <3>1. arg[p].id \in Slot /\ Used(p, arg[p].id)
      BY <1>8 DEF CreateShmatFails, TypeInv, TypeOK, InCreate
    <3> QED
      BY <3>1, SlotFacts
  <2>2. \A q \in Proc, id \in Slot : obj'[q][id].shmid \in {-1, obj[q][id].shmid}
    BY <1>2, <1>8, <2>1 DEF CreateShmatFails, SlotType
  <2>3. \A s \in SegId : Remains(seg[s], seg'[s])
    BY <1>2, <1>3, <1>8, <2>1, SegRemains DEF CreateShmatFails
  <2> QED
    BY <2>2, <2>3
<1>9. ASSUME NEW id \in Slot, Attach(p, id) \/ Detach(p, id) PROVE Kept
  <2>1. obj[p][id].shmid \in SegId
    BY <1>9, SlotFacts DEF Attach, Detach
  <2>2. \A q \in Proc, i \in Slot : obj'[q][i].shmid = obj[q][i].shmid
    <3>1. CASE Attach(p, id)
      BY <1>2, <3>1 DEF Attach, SlotType
    <3>2. CASE Detach(p, id)
      BY <1>2, <3>2 DEF Detach, SlotType
    <3> QED
      BY <1>9, <3>1, <3>2
  <2>3. \A s \in SegId : Remains(seg[s], seg'[s])
    BY <1>2, <1>3, <1>9, <2>1, SegRemains DEF Attach, Detach
  <2> QED
    BY <2>2, <2>3
<1>10. ASSUME NEW id \in Slot, Used(p, id)
       PROVE  /\ SlotAfterDestroy(p, id).shmid \in {-1, obj[p][id].shmid}
              /\ Remains(seg[obj[p][id].shmid], ShmRmid(Unattached(p, id)))
  <2>1. SlotAfterDestroy(p, id).shmid \in {-1, obj[p][id].shmid}
    BY <1>2 DEF SlotAfterDestroy, FreeSlot, SlotType
  <2>2. obj[p][id].shmid \in SegId /\ Unattached(p, id) \in SegType
    BY <1>10, SlotFacts
  <2>3. Remains(seg[obj[p][id].shmid], Unattached(p, id))
    BY <1>2, <2>2, SegRemains DEF Unattached
  <2>4. Remains(Unattached(p, id), ShmRmid(Unattached(p, id)))
    BY <2>2, SegRemains
  <2> QED
    BY <2>1, <2>3, <2>4 DEF Remains
<1>11. ASSUME NEW id \in Slot, Destroy(p, id) PROVE Kept
  <2>1. Used(p, id) /\ obj[p][id].shmid \in SegId
    BY <1>11, SlotFacts DEF Destroy
  <2>2. \A q \in Proc, i \in Slot : obj'[q][i].shmid \in {-1, obj[q][i].shmid}
    BY <1>2, <1>10, <1>11, <2>1 DEF Destroy
  <2>3. \A s \in SegId : Remains(seg[s], seg'[s])
    BY <1>2, <1>3, <1>10, <1>11, <2>1 DEF Destroy
  <2> QED
    BY <2>2, <2>3
<1>12. ASSUME Fini(p) PROVE Kept
  <2>1. \A q \in Proc, i \in Slot : obj'[q][i].shmid \in {-1, obj[q][i].shmid}
    BY <1>2, <1>10, <1>12 DEF Fini
  <2>2. ASSUME NEW s \in SegId PROVE Remains(seg[s], seg'[s])
    <3>1. CASE \E id \in Slot : obj[p][id].shmid = s
      <4> DEFINE id == CHOOSE i \in Slot : obj[p][i].shmid = s
      <4>1. id \in Slot /\ obj[p][id].shmid = s /\ Used(p, id)
        BY <3>1 DEF SegId, Used
      <4>2. seg'[s] = ShmRmid(Unattached(p, id))
        BY <1>12, <3>1 DEF Fini
      <4> QED
        BY <1>10, <4>1, <4>2
    <3>2. CASE ~\E id \in Slot : obj[p][id].shmid = s
      BY <1>3, <1>12, <3>2 DEF Fini
    <3> QED
      BY <3>1, <3>2
  <2> QED
    BY <2>1, <2>2
<1>13. ASSUME NEW q \in Proc, Fork(p, q) PROVE Kept
  <2>1. \A id \in Slot : [obj[p][id] EXCEPT !.att = FALSE].shmid = obj[p][id].shmid
    BY <1>2 DEF SlotType
  <2>2. \A r \in Proc, id \in Slot :
          \/ obj'[r][id].shmid = obj[r][id].shmid
          \/ obj'[r][id].shmid = obj[p][id].shmid
    BY <1>2, <1>13, <2>1 DEF Fork
  <2>3. \A s \in SegId : seg[s].nat[p] \in Int
    BY <1>2 DEF SegType
  <2>4. \A s \in SegId : Remains(seg[s], seg'[s])
    BY <1>2, <1>13, <2>3, SegRemains DEF Fork
  <2> QED
    BY <2>2, <2>4
<1>14. ASSUME Exit(p) PROVE Kept
  <2>1. \A q \in Proc, i \in Slot : obj'[q][i].shmid \in {-1, obj[q][i].shmid}
    BY <1>2, <1>14 DEF Exit, EmptyTable, FreeSlot
  <2>2. ASSUME NEW s \in SegId PROVE Remains(seg[s], seg'[s])
    <3> DEFINE g == [seg[s] EXCEPT !.nat[p] = 0]
    <3>1. g \in SegType /\ Remains(seg[s], g)
      <4>1. seg[s] \in SegType
        BY <1>2
      <4>2. \A n \in Int : Remains(seg[s], [seg[s] EXCEPT !.nat[p] = n])
        BY <4>1, SegRemains
      <4> QED
        BY <4>1, <4>2, Edits
    <3>2. Remains(g, Reaped(g))
      BY <3>1, SegRemains
    <3>3. seg'[s] = Reaped(g)
      BY <1>14 DEF Exit
    <3> QED
      BY <3>1, <3>2, <3>3 DEF Remains
  <2> QED
    BY <2>1, <2>2
<1>15. ASSUME \/ \E v \in BOOLEAN : SetVerbose(p, v)
              \/ InitSemctl(p)
              \/ \E id \in Slot : Lock(p, id) \/ Unlock(p, id)
       PROVE  Kept
  BY <1>4, <1>15 DEF SetVerbose, InitSemctl, Lock, Unlock
<1>16. held[p] \subseteq Slot
  BY DEF TypeInv, TypeOK
<1> QED
  BY <1>1, <1>5, <1>6, <1>7, <1>8, <1>9, <1>11, <1>12, <1>13, <1>14, <1>15, <1>16
     DEF UCall

-----------------------------------------------------------------------------
\* Calls that leave alone who has the library, its semaphores and what is held.
LEMMA LocksKept ==
  ASSUME LockInv,
         UNCHANGED <<status, initialized, verb, semid, held, sem>>,
         \A p \in Proc : pc'[p] = "semctl" => pc[p] = "semctl"
  PROVE  LockInv'
BY DEF LockInv, Users, OneSet, HoldersUse, InitAlone, Blank, UndoIsHeld, SemIsHeld,
       SemLive, LiveSems, NoHolder, OneHolder

\* shared_init up to and including semget keeps LockInv.
LEMMA LockStepInit ==
  ASSUME AllRules, TypeInv, LockInv, NEW p \in Proc, NEW ini \in BOOLEAN,
         MayInit(p, ini), InitSemget(p, ini)
  PROVE  LockInv'
<1> USE DEF SemLive, LiveSems
<1>0. /\ verb[p] /\ ~initialized[p] /\ held[p] = {} /\ status[p] = "live" /\ pc[p] = "idle"
      /\ p = Initializer => ini /\ LiveSems = {}
      /\ p # Initializer => ~ini /\ initialized[Initializer]
  BY DEF MayInit, InitSemget, Ready, AllRules
<1>1. /\ UNCHANGED <<status, verb, held>>
      /\ \A q \in Proc \ {p} : initialized'[q] = initialized[q] /\ semid'[q] = semid[q]
                               /\ pc'[q] = pc[q]
  BY DEF InitSemget, TypeInv, TypeOK
<1>2. CASE semid'[p] = -1
  <2>1. UNCHANGED <<pc, initialized, sem>>
    BY <1>0, <1>2 DEF InitSemget, TypeInv, TypeOK, FreshSem, SemId
  <2> QED
    BY <1>0, <1>1, <2>1 DEF LockInv, Users, OneSet, HoldersUse, InitAlone, Blank,
       UndoIsHeld, SemIsHeld, NoHolder, OneHolder
<1>3. CASE semid'[p] # -1 /\ p # Initializer
  <2>1. SemLive(semid[Initializer])
    BY <1>0, <1>3 DEF LockInv, Users
  <2>2. /\ semid'[p] = semid[Initializer] /\ UNCHANGED <<sem, pc>>
        /\ initialized'[p]
    BY <1>0, <1>3, <2>1 DEF InitSemget, TypeInv, TypeOK, LockInv, OneSet
  <2>3. \A q \in Proc : pc[q] # "semctl"
    BY <1>0, <1>3 DEF LockInv, InitAlone
  <2>4. Users' /\ OneSet' /\ HoldersUse' /\ InitAlone' /\ Blank' /\ UndoIsHeld'
    BY <1>0, <1>1, <2>1, <2>2, <2>3 DEF LockInv, Users, OneSet, HoldersUse, InitAlone,
       Blank, UndoIsHeld
  <2>5. SemIsHeld'
    BY <1>0, <1>1, <1>3, <2>2 DEF LockInv, SemIsHeld, NoHolder, OneHolder
  <2> QED
    BY <2>4, <2>5 DEF LockInv
<1>4. CASE semid'[p] # -1 /\ p = Initializer
  <2>1. \A q \in Proc : ~initialized[q] /\ held[q] = {}
    BY <1>0, <1>4 DEF LockInv, Users, HoldersUse
  <2>2. PICK j \in SemId : /\ sem[j] = NoSem
                           /\ sem' = [sem EXCEPT ![j].state = "live"]
    BY <1>0, <1>4 DEF InitSemget, FreshSem, LockInv, Blank, TypeInv, TypeOK
  <2>3. UNCHANGED initialized
    BY <1>0, <1>4 DEF InitSemget
  <2>4. /\ sem'[j].state = "live" /\ sem'[j].undo = NoUndo
        /\ \A h \in SemId \ {j} : sem'[h] = sem[h]
    BY <2>2 DEF NoSem, TypeInv, TypeOK
  <2>5. LiveSems' = {j}
    BY <1>0, <1>4, <2>4
  <2>6. UndoIsHeld'
    BY <1>1, <2>1, <2>4, <2>5 DEF UndoIsHeld, NoUndo
  <2>7. Users' /\ OneSet' /\ HoldersUse' /\ InitAlone' /\ Blank' /\ SemIsHeld'
    BY <1>0, <1>1, <1>4, <2>1, <2>3, <2>4, <2>5 DEF LockInv, Users, OneSet, HoldersUse,
       InitAlone, Blank, SemIsHeld
  <2> QED
    BY <2>6, <2>7 DEF LockInv
<1> QED
  BY <1>2, <1>3, <1>4

\* SETALL, which only the Initializer does and does first, keeps the locks' invariant.
LEMMA LockStepSetAll ==
  ASSUME TypeInv, LockInv, NEW p \in Proc, InitSemctl(p)
  PROVE  LockInv'
<1> USE DEF SemLive, LiveSems
<1>1. /\ p = Initializer /\ verb[p] /\ status[p] = "live"
      /\ \A q \in Proc : ~initialized[q] /\ held[q] = {}
      /\ \A q \in Proc : pc[q] = "semctl" => q = p
  BY DEF InitSemctl, LockInv, InitAlone, HoldersUse
<1>2. /\ UNCHANGED <<status, verb, semid, held>>
      /\ \A q \in Proc \ {p} : ~initialized'[q] /\ pc'[q] = pc[q]
      /\ pc'[p] = "idle"
      /\ initialized'[p] => SemLive(semid[p])
  BY <1>1 DEF InitSemctl, TypeInv, TypeOK
<1>3. CASE ~SemLive(semid[p])
  <2>1. UNCHANGED sem
    BY <1>3 DEF InitSemctl
  <2> QED
    BY <1>1, <1>2, <1>3, <2>1 DEF LockInv, Users, OneSet, HoldersUse, InitAlone, Blank,
       UndoIsHeld, SemIsHeld
<1>4. CASE SemLive(semid[p])
  <2> DEFINE j == semid[p]
  <2>1. /\ sem'[j].state = "live" /\ sem'[j].undo = NoUndo
        /\ \A id \in Slot : sem'[j].val[id] = 1
        /\ \A h \in SemId \ {j} : sem'[h] = sem[h]
    BY <1>4 DEF InitSemctl, SetAll, TypeInv, TypeOK
  <2>2. LiveSems' = LiveSems
    BY <1>4, <2>1
  <2>3. UndoIsHeld'
    BY <1>1, <1>2, <1>4, <2>1, <2>2 DEF LockInv, OneSet, UndoIsHeld, NoUndo
  <2>4. SemIsHeld'
    BY <1>1, <1>2, <2>1 DEF SemIsHeld, NoHolder
  <2>5. Users' /\ OneSet' /\ HoldersUse' /\ InitAlone' /\ Blank'
    BY <1>1, <1>2, <1>4, <2>1, <2>2 DEF LockInv, Users, OneSet, HoldersUse, InitAlone, Blank
  <2> QED
    BY <2>3, <2>4, <2>5 DEF LockInv
<1> QED
  BY <1>3, <1>4

\* shared_fini, called by the last user, keeps the locks' invariant.
LEMMA LockStepFini ==
  ASSUME AllRules, TypeInv, LockInv, NEW p \in Proc, MayFini(p), Fini(p)
  PROVE  LockInv'
<1> USE DEF SemLive, LiveSems
<1>1. /\ held[p] = {} /\ initialized[p] /\ SemLive(semid[p])
      /\ \A q \in Proc \ {p} : ~initialized[q]
      /\ \A q \in Proc : held[q] = {} /\ pc[q] # "semctl"
  BY DEF MayFini, AllRules, Fini, Up, Ready, LockInv, Users, HoldersUse, InitAlone
<1>2. /\ UNCHANGED <<status, verb, semid, pc, held>>
      /\ \A q \in Proc : ~initialized'[q]
  BY <1>1 DEF Fini, TypeInv, TypeOK
<1>3. /\ sem'[semid[p]] = GoneSem
      /\ \A h \in SemId \ {semid[p]} : sem'[h] = sem[h]
  BY <1>1 DEF Fini, TypeInv, TypeOK
<1>4. GoneSem.state = "gone"
  BY DEF GoneSem, NoSem
<1>5. LiveSems' = {}
  BY <1>1, <1>3, <1>4 DEF LockInv, OneSet
<1> QED
  BY <1>1, <1>2, <1>3, <1>4, <1>5 DEF LockInv, Users, OneSet, HoldersUse, InitAlone,
     Blank, UndoIsHeld, SemIsHeld

\* A semop of d on slot id by p, seen from every set, process and slot.
LEMMA SemOpEffect ==
  ASSUME TypeInv, NEW p \in Proc, NEW id \in Slot, NEW d \in {1, -1},
         SemLive(semid[p]),
         sem' = [sem EXCEPT ![semid[p]] = SemOp(@, p, id, d)]
  PROVE  /\ LiveSems' = LiveSems
         /\ \A h \in SemId \ {semid[p]} : sem'[h] = sem[h]
         /\ \A i \in Slot : sem'[semid[p]].val[i] =
              IF i = id THEN sem[semid[p]].val[i] + d ELSE sem[semid[p]].val[i]
         /\ \A q \in Proc, i \in Slot : sem'[semid[p]].undo[q][i] =
              IF q = p /\ i = id THEN sem[semid[p]].undo[q][i] - d
                                 ELSE sem[semid[p]].undo[q][i]
         /\ sem'[semid[p]].state = "live"
<1> DEFINE j == semid[p]
<1>1. j \in SemId /\ sem[j].state = "live"
  BY DEF SemLive
<1>2. sem'[j] = SemOp(sem[j], p, id, d) /\ \A h \in SemId \ {j} : sem'[h] = sem[h]
  BY <1>1 DEF TypeInv, TypeOK
<1>3. sem[j].val \in [Slot -> Int] /\ sem[j].undo \in [Proc -> [Slot -> Int]]
  BY <1>1 DEF TypeInv, TypeOK, SemType
<1>4. sem'[j].state = "live"
  BY <1>1, <1>2 DEF SemOp
<1>5. sem'[j].val = [sem[j].val EXCEPT ![id] = @ + d]
  BY <1>2 DEF SemOp
<1>6. sem'[j].undo = [sem[j].undo EXCEPT ![p][id] = @ - d]
  BY <1>2 DEF SemOp
<1>7. LiveSems' = LiveSems
  BY <1>1, <1>2, <1>4 DEF LiveSems
<1> QED
  BY <1>2, <1>3, <1>4, <1>5, <1>6, <1>7

\* shared_lock takes the semaphore of the slot and nothing else.
LEMMA LockStepLock ==
  ASSUME TypeInv, LockInv, NEW p \in Proc, NEW id \in Slot \ held[p], Lock(p, id)
  PROVE  LockInv'
<1> DEFINE j == semid[p]
<1>1. initialized[p] /\ SemLive(j)
  BY DEF Lock, Up, LockInv, Users
<1>2. /\ sem[j].val[id] > 0
      /\ sem' = [sem EXCEPT ![semid[p]] = SemOp(@, p, id, -1)]
      /\ held' = [held EXCEPT ![p] = @ \cup {id}]
      /\ UNCHANGED <<status, initialized, verb, semid, pc>>
  BY <1>1 DEF Lock
<1>3. sem[j].val[id] = 1 /\ NoHolder(id)
  BY <1>1, <1>2 DEF LockInv, SemIsHeld
<1>4. \A q \in Proc : held'[q] = IF q = p THEN held[p] \cup {id} ELSE held[q]
  BY <1>2 DEF TypeInv, TypeOK
<1>5. LiveSems = {j}
  BY <1>1 DEF LockInv, OneSet, LiveSems, SemLive
<1>6. \A q \in Proc : initialized[q] => semid[q] = j
  BY <1>5 DEF LockInv, Users, SemLive, LiveSems
<1>7. /\ LiveSems' = LiveSems
      /\ \A h \in SemId \ {j} : sem'[h] = sem[h]
      /\ \A i \in Slot : sem'[j].val[i] = IF i = id THEN 0 ELSE sem[j].val[i]
      /\ \A q \in Proc, i \in Slot : sem'[j].undo[q][i] =
           IF q = p /\ i = id THEN sem[j].undo[q][i] + 1 ELSE sem[j].undo[q][i]
      /\ sem'[j].state = "live"
  <2>1. \A q \in Proc, i \in Slot : sem[j].undo[q][i] \in Int
    BY <1>5 DEF LockInv, UndoIsHeld
  <2>2. /\ LiveSems' = LiveSems
        /\ \A h \in SemId \ {j} : sem'[h] = sem[h]
        /\ \A i \in Slot : sem'[j].val[i] =
             IF i = id THEN sem[j].val[i] + (-1) ELSE sem[j].val[i]
        /\ \A q \in Proc, i \in Slot : sem'[j].undo[q][i] =
             IF q = p /\ i = id THEN sem[j].undo[q][i] - (-1) ELSE sem[j].undo[q][i]
        /\ sem'[j].state = "live"
    BY <1>1, <1>2, SemOpEffect, Zenon
  <2> QED
    BY <1>3, <2>1, <2>2
<1>8. UndoIsHeld'
  BY <1>3, <1>4, <1>5, <1>7 DEF LockInv, UndoIsHeld, NoHolder
<1>9. ASSUME NEW q \in Proc, NEW i \in Slot, initialized'[q]
      PROVE  \/ sem'[semid'[q]].val[i] = 1 /\ NoHolder(i)'
             \/ sem'[semid'[q]].val[i] = 0 /\ OneHolder(i)'
  <2>1. semid'[q] = j
    BY <1>2, <1>6, <1>9
  <2>2. CASE i = id
    BY <1>3, <1>4, <1>7, <2>1, <2>2 DEF NoHolder, OneHolder
  <2>3. CASE i # id
    <3>1. \A r \in Proc : i \in held'[r] <=> i \in held[r]
      BY <1>4, <2>3
    <3>2. \/ sem[j].val[i] = 1 /\ NoHolder(i)
          \/ sem[j].val[i] = 0 /\ OneHolder(i)
      BY <1>1 DEF LockInv, SemIsHeld
    <3> QED
      BY <1>7, <2>1, <2>3, <3>1, <3>2 DEF NoHolder, OneHolder
  <2> QED
    BY <2>2, <2>3
<1>10. SemIsHeld'
  BY <1>9 DEF SemIsHeld
<1>11. Users' /\ OneSet' /\ HoldersUse' /\ InitAlone' /\ Blank'
  BY <1>1, <1>2, <1>4, <1>5, <1>6, <1>7 DEF LockInv, Users, OneSet, HoldersUse, InitAlone,
     Blank, SemLive, LiveSems
<1> QED
  BY <1>8, <1>10, <1>11 DEF LockInv

\* shared_unlock gives back the semaphore its caller holds.
LEMMA LockStepUnlock ==
  ASSUME TypeInv, LockInv, NEW p \in Proc, NEW id \in held[p], Unlock(p, id)
  PROVE  LockInv'
<1> DEFINE j == semid[p]
<1>0. id \in Slot
  BY DEF TypeInv, TypeOK
<1>1. initialized[p] /\ SemLive(j)
  BY DEF Unlock, Up, LockInv, Users
<1>2. /\ sem' = [sem EXCEPT ![semid[p]] = SemOp(@, p, id, 1)]
      /\ held' = [held EXCEPT ![p] = @ \ {id}]
      /\ UNCHANGED <<status, initialized, verb, semid, pc>>
  BY <1>1 DEF Unlock
<1>3. sem[j].val[id] = 0 /\ \A r \in Proc \ {p} : id \notin held[r]
  BY <1>0, <1>1 DEF LockInv, SemIsHeld, NoHolder, OneHolder
<1>4. \A q \in Proc : held'[q] = IF q = p THEN held[p] \ {id} ELSE held[q]
  BY <1>2 DEF TypeInv, TypeOK
<1>5. LiveSems = {j}
  BY <1>1 DEF LockInv, OneSet, LiveSems, SemLive
<1>6. \A q \in Proc : initialized[q] => semid[q] = j
  BY <1>5 DEF LockInv, Users, SemLive, LiveSems
<1>7. /\ LiveSems' = LiveSems
      /\ \A h \in SemId \ {j} : sem'[h] = sem[h]
      /\ \A i \in Slot : sem'[j].val[i] = IF i = id THEN 1 ELSE sem[j].val[i]
      /\ \A q \in Proc, i \in Slot : sem'[j].undo[q][i] =
           IF q = p /\ i = id THEN sem[j].undo[q][i] - 1 ELSE sem[j].undo[q][i]
      /\ sem'[j].state = "live"
  <2>1. /\ LiveSems' = LiveSems
        /\ \A h \in SemId \ {j} : sem'[h] = sem[h]
        /\ \A i \in Slot : sem'[j].val[i] =
             IF i = id THEN sem[j].val[i] + 1 ELSE sem[j].val[i]
        /\ \A q \in Proc, i \in Slot : sem'[j].undo[q][i] =
             IF q = p /\ i = id THEN sem[j].undo[q][i] - 1 ELSE sem[j].undo[q][i]
        /\ sem'[j].state = "live"
    BY <1>0, <1>1, <1>2, SemOpEffect, Zenon
  <2> QED
    BY <1>3, <2>1
<1>8. UndoIsHeld'
  BY <1>0, <1>4, <1>5, <1>7 DEF LockInv, UndoIsHeld
<1>9. ASSUME NEW q \in Proc, NEW i \in Slot, initialized'[q]
      PROVE  \/ sem'[semid'[q]].val[i] = 1 /\ NoHolder(i)'
             \/ sem'[semid'[q]].val[i] = 0 /\ OneHolder(i)'
  <2>1. semid'[q] = j
    BY <1>2, <1>6, <1>9
  <2>2. CASE i = id
    BY <1>3, <1>4, <1>7, <2>1, <2>2 DEF NoHolder
  <2>3. CASE i # id
    <3>1. \A r \in Proc : i \in held'[r] <=> i \in held[r]
      BY <1>4, <2>3
    <3>2. \/ sem[j].val[i] = 1 /\ NoHolder(i)
          \/ sem[j].val[i] = 0 /\ OneHolder(i)
      BY <1>1 DEF LockInv, SemIsHeld
    <3> QED
      BY <1>7, <2>1, <2>3, <3>1, <3>2 DEF NoHolder, OneHolder
  <2> QED
    BY <2>2, <2>3
<1>10. SemIsHeld'
  BY <1>9 DEF SemIsHeld
<1>11. Users' /\ OneSet' /\ HoldersUse' /\ InitAlone' /\ Blank'
  BY <1>1, <1>2, <1>4, <1>5, <1>6, <1>7 DEF LockInv, Users, OneSet, HoldersUse, InitAlone,
     Blank, SemLive, LiveSems
<1> QED
  BY <1>8, <1>10, <1>11 DEF LockInv

\* A child inherits the semaphore set but neither holds nor undoes anything.
LEMMA LockStepFork ==
  ASSUME TypeInv, LockInv, NEW p \in Proc, NEW q \in Proc, Fork(p, q)
  PROVE  LockInv'
<1>1. /\ status[p] = "live" /\ status[q] = "unborn"
      /\ UNCHANGED <<pc, held, sem>>
  BY DEF Fork, Ready
<1>2. \A r \in Proc :
        /\ status'[r] = IF r = q THEN "live" ELSE status[r]
        /\ initialized'[r] = IF r = q THEN initialized[p] ELSE initialized[r]
        /\ verb'[r] = IF r = q THEN verb[p] ELSE verb[r]
        /\ semid'[r] = IF r = q THEN semid[p] ELSE semid[r]
  BY DEF Fork, TypeInv, TypeOK
<1>3. pc[q] # "semctl" /\ held[q] = {}
  BY <1>1 DEF TypeInv, InCreate, LockInv, Users, HoldersUse
<1>4. Users' /\ OneSet' /\ HoldersUse' /\ Blank' /\ UndoIsHeld'
  BY <1>1, <1>2, <1>3 DEF LockInv, Users, OneSet, HoldersUse, Blank, UndoIsHeld, SemLive,
     LiveSems
<1>5. InitAlone'
  BY <1>1, <1>2, <1>3 DEF LockInv, InitAlone
<1>6. SemIsHeld'
  BY <1>1, <1>2 DEF LockInv, SemIsHeld, NoHolder, OneHolder
<1> QED
  BY <1>4, <1>5, <1>6 DEF LockInv

\* The kernel gives back exactly what a process that ends was holding.
LEMMA LockStepExit ==
  ASSUME TypeInv, LockInv, NEW p \in Proc, Exit(p)
  PROVE  LockInv'
<1>1. /\ ~initialized'[p] /\ pc'[p] = "idle" /\ held'[p] = {}
      /\ \A q \in Proc \ {p} :
           /\ status'[q] = status[q] /\ initialized'[q] = initialized[q]
           /\ verb'[q] = verb[q] /\ semid'[q] = semid[q]
           /\ pc'[q] = pc[q] /\ held'[q] = held[q]
  BY DEF Exit, TypeInv, TypeOK
<1>2. \A j \in SemId : sem'[j] = IF sem[j].state = "live" THEN SemExit(sem[j], p) ELSE sem[j]
  BY DEF Exit
<1>3. \A j \in LiveSems :
        /\ sem'[j].state = "live"
        /\ \A i \in Slot : sem'[j].val[i] = AtLeast0(sem[j].val[i] + sem[j].undo[p][i])
        /\ \A q \in Proc, i \in Slot :
             sem'[j].undo[q][i] = IF q = p THEN 0 ELSE sem[j].undo[q][i]
  <2> TAKE j \in LiveSems
  <2>1. j \in SemId /\ sem'[j] = SemExit(sem[j], p)
    BY <1>2 DEF LiveSems
  <2>2. sem[j].undo \in [Proc -> [Slot -> Int]] /\ sem[j].state = "live"
    BY <2>1 DEF LiveSems, TypeInv, TypeOK, SemType
  <2>3. /\ sem'[j].state = "live"
        /\ sem'[j].val = [i \in Slot |-> AtLeast0(sem[j].val[i] + sem[j].undo[p][i])]
        /\ sem'[j].undo = [sem[j].undo EXCEPT ![p] = [i \in Slot |-> 0]]
    BY <2>1, <2>2 DEF SemExit
  <2> QED
    BY <2>2, <2>3
<1>4. LiveSems' = LiveSems
  BY <1>2, <1>3 DEF LiveSems
<1>5. \A h : SemLive(h)' <=> SemLive(h)
  BY <1>4 DEF SemLive, LiveSems
<1>6. Users' /\ HoldersUse'
  BY <1>1, <1>5 DEF LockInv, Users, HoldersUse, SemLive
<1>7. OneSet' /\ InitAlone'
  BY <1>1, <1>4 DEF LockInv, OneSet, InitAlone
<1>8. Blank'
  BY <1>2, <1>3 DEF LockInv, Blank, LiveSems
<1>9. UndoIsHeld'
  BY <1>1, <1>3, <1>4 DEF LockInv, UndoIsHeld
<1>10. ASSUME NEW q \in Proc, NEW i \in Slot, initialized'[q]
      PROVE  \/ sem'[semid'[q]].val[i] = 1 /\ NoHolder(i)'
             \/ sem'[semid'[q]].val[i] = 0 /\ OneHolder(i)'
  <2> DEFINE j == semid[q]
  <2>1. q # p /\ semid'[q] = j /\ initialized[q] /\ j \in LiveSems
    BY <1>1, <1>10 DEF LockInv, Users, SemLive, LiveSems
  <2>2. /\ sem[j].undo[p][i] = IF i \in held[p] THEN 1 ELSE 0
        /\ sem'[j].val[i] = AtLeast0(sem[j].val[i] + sem[j].undo[p][i])
    BY <1>3, <2>1 DEF LockInv, UndoIsHeld
  <2>3. CASE sem[j].val[i] = 1 /\ NoHolder(i)
    <3>1. p \in Proc /\ i \notin held[p] /\ sem'[j].val[i] = 1
      BY <2>2, <2>3 DEF NoHolder, AtLeast0
    <3> QED
      BY <1>1, <2>1, <2>3, <3>1 DEF NoHolder
  <2>4. CASE sem[j].val[i] = 0 /\ OneHolder(i) /\ i \in held[p]
    <3>1. sem'[j].val[i] = 1 /\ \A r \in Proc \ {p} : i \notin held[r]
      BY <2>2, <2>4 DEF OneHolder, AtLeast0
    <3> QED
      BY <1>1, <2>1, <3>1 DEF NoHolder
  <2>5. CASE sem[j].val[i] = 0 /\ OneHolder(i) /\ i \notin held[p]
    <3>1. sem'[j].val[i] = 0
      BY <2>2, <2>5 DEF AtLeast0
    <3>2. OneHolder(i)'
      BY <1>1, <2>5 DEF OneHolder
    <3> QED
      BY <2>1, <3>1, <3>2
  <2> QED
    BY <2>1, <2>3, <2>4, <2>5 DEF LockInv, SemIsHeld
<1>11. SemIsHeld'
  BY <1>10 DEF SemIsHeld
<1> QED
  BY <1>6, <1>7, <1>8, <1>9, <1>11 DEF LockInv

\* shared_set_verbose does not touch the locks.
LEMMA LockStepVerbose ==
  ASSUME AllRules, LockInv, TypeInv, NEW p \in Proc, SetVerbose(p, TRUE)
  PROVE  LockInv'
<1>1. /\ UNCHANGED <<status, initialized, semid, pc, held, sem>>
      /\ \A q \in Proc : verb[q] => verb'[q]
  BY DEF SetVerbose, TypeInv, TypeOK
<1> QED
  BY <1>1 DEF LockInv, Users, OneSet, HoldersUse, InitAlone, Blank, UndoIsHeld, SemIsHeld,
     SemLive, LiveSems, NoHolder, OneHolder

\* Every call that keeps the rules keeps the locks' invariant.
LEMMA LockStep ==
  ASSUME AllRules, TypeInv, LockInv, NEW p \in Proc, UCall(p)
  PROVE  LockInv'
<1>1. ASSUME NEW v \in BOOLEAN, "verbose" \in Rules => v, SetVerbose(p, v) PROVE LockInv'
  <2>1. v = TRUE
    BY <1>1 DEF AllRules
  <2> QED
    BY <1>1, <2>1, LockStepVerbose
<1>2. ASSUME NEW k \in AnyKey, NEW n \in Sizes, CreateShmget(p, k, n) PROVE LockInv'
  <2>1. \A q \in Proc : pc'[q] = "semctl" => pc[q] = "semctl"
    BY <1>2 DEF CreateShmget, TypeInv, TypeOK
  <2> QED
    BY <1>2, <2>1, LocksKept DEF CreateShmget
<1>3. ASSUME CreateShmat(p) \/ CreateShmatFails(p) PROVE LockInv'
  <2>1. /\ UNCHANGED <<status, initialized, verb, semid, held, sem>>
        /\ pc' = [pc EXCEPT ![p] = "idle"]
    BY <1>3 DEF CreateShmat, CreateShmatFails
  <2>2. \A q \in Proc : pc'[q] = "semctl" => pc[q] = "semctl"
    BY <2>1 DEF TypeInv, TypeOK
  <2> QED
    BY <2>1, <2>2, LocksKept
<1>4. ASSUME NEW id \in Slot, Attach(p, id) \/ Detach(p, id) \/ Destroy(p, id) PROVE LockInv'
  <2>1. UNCHANGED <<status, initialized, verb, semid, held, sem, pc>>
    BY <1>4 DEF Attach, Detach, Destroy
  <2> QED
    BY <2>1, LocksKept
<1> QED
  BY <1>1, <1>2, <1>3, <1>4, LockStepInit, LockStepSetAll, LockStepFini, LockStepLock,
     LockStepUnlock, LockStepFork, LockStepExit, UCall(p) DEF UCall

-----------------------------------------------------------------------------
\* The invariants hold before anybody has initialised the library.
LEMMA UsageInit == Init => SlotInv /\ LockInv
<1> SUFFICES ASSUME Init PROVE SlotInv /\ LockInv
  OBVIOUS
<1>1. \A p \in Proc : /\ ~initialized[p] /\ held[p] = {} /\ pc[p] = "idle"
                      /\ \A id \in Slot : obj[p][id].shmid = -1
  BY DEF Init, LibInit, EmptyTable, FreeSlot
<1>2. \A j \in SemId : sem[j] = NoSem
  BY DEF Init
<1>3. LiveSems = {}
  BY <1>2 DEF LiveSems, NoSem
<1> QED
  BY <1>1, <1>2, <1>3 DEF SlotInv, LockInv, Users, OneSet, HoldersUse, InitAlone, Blank,
     UndoIsHeld, SemIsHeld, Used

UsageInv == TypeInv /\ SlotInv /\ LockInv

\* The inductive invariant of the library used by its rules.
LEMMA UsageInvariant == ASSUME AllRules PROVE USpec => []UsageInv
<1>1. Init => UsageInv
  BY TypeInit, UsageInit DEF UsageInv
<1>2. UsageInv /\ [UNext]_vars => UsageInv'
  <2> SUFFICES ASSUME UsageInv, [UNext]_vars PROVE UsageInv'
    OBVIOUS
  <2>1. ASSUME NEW p \in Proc, UCall(p) PROVE UsageInv'
    <3>1. TypeInv'
      BY <2>1, RuledCall, TypeStep DEF UsageInv
    <3> QED
      BY <2>1, <3>1, SlotStep, LockStep DEF UsageInv
  <2>2. CASE UNCHANGED vars
    BY <2>2 DEF vars, libvars, UsageInv, TypeInv, TypeOK, InCreate, Used, SlotInv, LockInv,
       Users, OneSet, HoldersUse, InitAlone, Blank, UndoIsHeld, SemIsHeld, SemLive, LiveSems,
       NoHolder, OneHolder
  <2> QED
    BY <2>1, <2>2 DEF UNext
<1> QED
  BY <1>1, <1>2, PTL DEF USpec

(***************************************************************************)
(* Two processes never both hold the lock of one segment (MutualExclusion  *)
(* of SharedUsage), whatever is created, destroyed, forked or killed.      *)
(***************************************************************************)
THEOREM LocksExclude == ASSUME AllRules PROVE USpec => []MutualExclusion
<1>1. UsageInv => MutualExclusion
  <2> SUFFICES ASSUME UsageInv, NEW p \in Proc, NEW q \in Proc,
                      NEW i \in held[p], NEW j \in held[q],
                      p # q, Used(p, i), obj[p][i].shmid = obj[q][j].shmid
               PROVE  FALSE
    BY DEF MutualExclusion
  <2>1. i \in Slot /\ j \in Slot
    BY DEF UsageInv, TypeInv, TypeOK
  <2>2. i = j
    BY <2>1 DEF UsageInv, SlotInv
  <2>3. initialized[p]
    BY DEF UsageInv, LockInv, HoldersUse
  <2>4. NoHolder(i) \/ OneHolder(i)
    BY <2>1, <2>3 DEF UsageInv, LockInv, SemIsHeld
  <2> QED
    BY <2>2, <2>4 DEF NoHolder, OneHolder
<1> QED
  BY <1>1, UsageInvariant, PTL

(***************************************************************************)
(* No semaphore is lost or multiplied (SemaphoreConserved of SharedUsage), *)
(* also when the kernel undoes what a killed process was holding.          *)
(***************************************************************************)
THEOREM SemaphoresConserved == ASSUME AllRules PROVE USpec => []SemaphoreConserved
<1>1. UsageInv => SemaphoreConserved
  BY DEF UsageInv, LockInv, Users, SemIsHeld, NoHolder, OneHolder, SemaphoreConserved
<1> QED
  BY <1>1, UsageInvariant, PTL

-----------------------------------------------------------------------------
\* The refinement mapping of SharedUsage!Locks.
Holder == [id \in Slot |-> IF \E p \in Proc : id \in held[p]
                           THEN CHOOSE p \in Proc : id \in held[p]
                           ELSE Nobody]

Alone == \A id \in Slot, p, q \in Proc : id \in held[p] /\ id \in held[q] => p = q

\* A slot's lock has one holder in all processes.
LEMMA HoldersAlone == ASSUME UsageInv PROVE Alone
<1> SUFFICES ASSUME NEW id \in Slot, NEW p \in Proc, NEW q \in Proc,
                    id \in held[p], id \in held[q]
             PROVE  p = q
  BY DEF Alone
<1>1. NoHolder(id) \/ OneHolder(id)
  BY DEF UsageInv, LockInv, HoldersUse, SemIsHeld
<1> QED
  BY <1>1 DEF NoHolder, OneHolder

\* What the mapping says of one lock.
HolderFacts ==
  \A id \in Slot :
    /\ Holder[id] = Nobody <=> NoHolder(id)
    /\ \A p \in Proc : Holder[id] = p <=> id \in held[p]

\* The holder the refinement mapping chooses is the process that has the lock.
LEMMA HolderIs == Alone => HolderFacts
BY DEF Holder, Alone, NoHolder, HolderFacts

\* How a call changes what is held.
LEMMA HeldStep ==
  ASSUME AllRules, UsageInv, NEW p \in Proc, UCall(p)
  PROVE  \/ UNCHANGED held
         \/ \E id \in Slot : NoHolder(id) /\ held' = [held EXCEPT ![p] = held[p] \cup {id}]
         \/ \E id \in held[p] : held' = [held EXCEPT ![p] = held[p] \ {id}]
         \/ held' = [held EXCEPT ![p] = {}]
<1>1. ASSUME NEW id \in Slot \ held[p], Lock(p, id)
      PROVE  NoHolder(id) /\ held' = [held EXCEPT ![p] = held[p] \cup {id}]
  <2>1. initialized[p] /\ SemLive(semid[p])
    BY <1>1 DEF Lock, Up, UsageInv, LockInv, Users
  <2> QED
    BY <1>1, <2>1 DEF Lock, UsageInv, LockInv, SemIsHeld
<1>2. ASSUME NEW id \in held[p], Unlock(p, id)
      PROVE  held' = [held EXCEPT ![p] = held[p] \ {id}]
  BY <1>2 DEF Unlock
<1>3. ASSUME Exit(p) PROVE held' = [held EXCEPT ![p] = {}]
  BY <1>3 DEF Exit
<1>4. ASSUME \/ \E v \in BOOLEAN : SetVerbose(p, v)
             \/ \E ini \in BOOLEAN : InitSemget(p, ini)
             \/ InitSemctl(p)
             \/ \E k \in AnyKey, n \in Sizes : CreateShmget(p, k, n)
             \/ CreateShmat(p) \/ CreateShmatFails(p)
             \/ \E id \in Slot : Attach(p, id) \/ Detach(p, id) \/ Destroy(p, id)
             \/ Fini(p)
             \/ \E q \in Proc : Fork(p, q)
      PROVE  UNCHANGED held
  BY <1>4 DEF SetVerbose, InitSemget, InitSemctl, CreateShmget, CreateShmat,
     CreateShmatFails, Attach, Detach, Destroy, Fini, Fork
<1> QED
  BY <1>1, <1>2, <1>3, <1>4, UCall(p) DEF UCall

(***************************************************************************)
(* The semaphores of the library implement the abstract Mutex, as long as  *)
(* the rules are kept.                                                     *)
(***************************************************************************)
THEOREM LibraryRefinesMutex == ASSUME AllRules PROVE USpec => ImplementsMutex
<1>1. Init => Locks!MutexInit
  BY DEF Init, LibInit, Locks!MutexInit
<1>2. UsageInv /\ UsageInv' /\ [UNext]_vars => [Locks!MutexNext]_Holder
  <2> SUFFICES ASSUME UsageInv, UsageInv', [UNext]_vars
               PROVE  Locks!MutexNext \/ UNCHANGED Holder
    OBVIOUS
  <2>1. HolderFacts /\ HolderFacts'
    BY HoldersAlone, HolderIs, PTL
  <2>2. /\ held \in [Proc -> SUBSET Slot]
        /\ Holder' = [id \in Slot |-> Holder'[id]]
        /\ \A id \in Slot : Holder[id] \in Proc \cup {Nobody}
        /\ \A id \in Slot : Holder'[id] \in Proc \cup {Nobody}
    BY DEF UsageInv, TypeInv, TypeOK, Holder
  <2>3. ASSUME UNCHANGED held PROVE UNCHANGED Holder
    BY <2>3 DEF Holder
  <2>4. ASSUME NEW p \in Proc, NEW id \in Slot, NoHolder(id),
               held' = [held EXCEPT ![p] = held[p] \cup {id}]
        PROVE  Locks!Acquire(p, id)
    <3>1. Holder[id] = Nobody /\ Holder'[id] = p
      BY <2>1, <2>2, <2>4 DEF HolderFacts
    <3>2. ASSUME NEW i \in Slot, i # id PROVE Holder'[i] = Holder[i]
      <4>1. \A q \in Proc : i \in held'[q] <=> i \in held[q]
        BY <2>2, <2>4, <3>2
      <4> QED
        BY <2>1, <2>2, <4>1 DEF HolderFacts, NoHolder
    <3>3. Holder' = [Holder EXCEPT ![id] = p]
      BY <2>2, <3>1, <3>2 DEF Holder
    <3> QED
      BY <3>1, <3>3 DEF Locks!Acquire, Holder
  <2>5. ASSUME NEW p \in Proc, NEW id \in held[p],
               held' = [held EXCEPT ![p] = held[p] \ {id}]
        PROVE  Locks!Release(p, id)
    <3>1. id \in Slot /\ Holder[id] = p
      BY <2>1, <2>2 DEF HolderFacts
    <3>2. \A q \in Proc \ {p} : id \notin held[q]
      BY <2>1, <3>1 DEF HolderFacts
    <3>3. Holder'[id] = Nobody
      BY <2>1, <2>2, <2>5, <3>1, <3>2 DEF HolderFacts, NoHolder
    <3>4. ASSUME NEW i \in Slot, i # id PROVE Holder'[i] = Holder[i]
      <4>1. \A q \in Proc : i \in held'[q] <=> i \in held[q]
        BY <2>2, <2>5, <3>4
      <4> QED
        BY <2>1, <2>2, <4>1 DEF HolderFacts, NoHolder
    <3>5. Holder' = [Holder EXCEPT ![id] = Nobody]
      BY <2>2, <3>1, <3>3, <3>4 DEF Holder
    <3> QED
      BY <3>1, <3>5 DEF Locks!Release, Holder
  <2>6. ASSUME NEW p \in Proc, held' = [held EXCEPT ![p] = {}]
        PROVE  Locks!End(p)
    <3>1. ASSUME NEW i \in Slot
          PROVE  Holder'[i] = IF Holder[i] = p THEN Nobody ELSE Holder[i]
      <4>1. \A q \in Proc : i \in held'[q] <=> q # p /\ i \in held[q]
        BY <2>2, <2>6
      <4>2. CASE Holder[i] = p
        <5>1. \A q \in Proc \ {p} : i \notin held[q]
          BY <2>1, <4>2 DEF HolderFacts
        <5> QED
          BY <2>1, <4>1, <4>2, <5>1 DEF HolderFacts, NoHolder
      <4>3. CASE Holder[i] # p
        BY <2>1, <2>2, <4>1, <4>3 DEF HolderFacts, NoHolder
      <4> QED
        BY <4>2, <4>3
    <3> QED
      BY <2>2, <3>1 DEF Locks!End, Holder
  <2>7. ASSUME NEW p \in Proc, UCall(p) PROVE Locks!MutexNext \/ UNCHANGED Holder
    <3>1. held[p] \subseteq Slot
      BY <2>2
    <3> QED
      BY <2>3, <2>4, <2>5, <2>6, <2>7, <3>1, HeldStep DEF Locks!MutexNext
  <2>8. CASE UNCHANGED vars
    BY <2>3, <2>8 DEF vars, libvars
  <2> QED
    BY <2>7, <2>8 DEF UNext
<1> QED
  BY <1>1, <1>2, UsageInvariant, PTL DEF USpec, ImplementsMutex, Locks!MutexSpec, Holder
=============================================================================
