----------------------------- MODULE SharedLib -----------------------------
(***************************************************************************)
(* The shared-object library of Code/learning/6prednaska/                  *)
(* 04.sharemem_comm_lepsie (shared.c).  Every process that links the       *)
(* library keeps a private table of SHARED_MAX slots; a slot names a       *)
(* System V segment, remembers its key and size and whether it is mapped.  *)
(* The segments and the one set of binary semaphores live in the kernel    *)
(* and are shared by all processes.  The semaphore that guards slot id is  *)
(* the one with index id.                                                  *)
(*                                                                         *)
(* The kernel part (segments, semaphores, SEM_UNDO, fork, exit) is         *)
(* external: it is modelled from the calls the library makes.  The bytes   *)
(* of the segments are the subject of SharedAccess and of ServerClient.    *)
(***************************************************************************)
EXTENDS Integers, FiniteSets

CONSTANTS
  Proc,         \* the processes that link the library
  Roots,        \* those that exist from the start; the others are forked
  Key,          \* the public keys clients pass to shared_create
  Private,      \* IPC_PRIVATE
  Sizes,        \* the sizes clients pass to shared_create
  SHARED_MAX,   \* slots per table
  MaxSeg,       \* bound: segments the kernel ever creates
  MaxSem,       \* bound: semaphore sets the kernel ever creates
  MaxMap,       \* bound: mappings of one segment in one process
  Faulty        \* the calls the kernel may refuse

ASSUME LibAssumption ==
  /\ Roots \subseteq Proc
  /\ Private \notin Key
  /\ Sizes \subseteq Nat \ {0}
  /\ SHARED_MAX \in Nat \ {0}
  /\ MaxSeg \in Nat /\ MaxSem \in Nat /\ MaxMap \in Nat
  /\ Faulty \subseteq {"semget", "shmat"}

VARIABLES
  status,       \* [Proc -> {"unborn", "live", "dead"}]
  initialized,  \* shared_initialized
  verb,         \* shared_verb
  cnt,          \* shared_cnt
  obj,          \* shared_obj, the slot tables
  semid,        \* shared_semid, -1 when semget failed
  pc,           \* the system call a multi-step library call is about to make
  arg,          \* its local variables: slot, key and size of shared_create
  held,         \* the slots whose shared_lock returned SHARED_OK
  seg,          \* kernel: the segments
  sem           \* kernel: the semaphore sets

libvars == <<status, initialized, verb, cnt, obj, semid, pc, arg, held>>
vars == <<libvars, seg, sem>>

Slot == 0 .. SHARED_MAX - 1
SegId == 1 .. MaxSeg
SemId == 1 .. MaxSem
AnyKey == Key \cup {Private}

FreeSlot == [shmid |-> -1, att |-> FALSE, key |-> Private, size |-> 0]
EmptyTable == [id \in Slot |-> FreeSlot]
NoArg == [id |-> 0, key |-> Private, size |-> 0]

(***************************************************************************)
(* The kernel's segments.  nat[p] counts the mappings process p has.  A    *)
(* segment removed while somebody maps it lives on without its key until   *)
(* the last mapping goes.                                                  *)
(***************************************************************************)
NoSeg == [state |-> "none", key |-> Private, size |-> 0,
          nat |-> [p \in Proc |-> 0]]

Unmapped(g) == \A p \in Proc : g.nat[p] = 0

Exists(g) == g.state \in {"live", "dest"}

Reaped(g) == IF g.state = "dest" /\ Unmapped(g)
             THEN [NoSeg EXCEPT !.state = "gone"] ELSE g

ShmAt(g, p) == [g EXCEPT !.nat[p] = @ + 1]

ShmDt(g, p) == Reaped([g EXCEPT !.nat[p] = @ - 1])

ShmRmid(g) == IF Exists(g)
              THEN Reaped([g EXCEPT !.state = "dest", !.key = Private])
              ELSE g

\* The segments shmget(k) finds, and the ones it may create.
WithKey(k) == {s \in SegId : k # Private /\ seg[s].state = "live" /\ seg[s].key = k}
FreshSeg == {s \in SegId : seg[s].state = "none" /\ \A t \in 1 .. s - 1 : seg[t].state # "none"}

(***************************************************************************)
(* The kernel's semaphore sets, all asked for with the one master key.  A  *)
(* new set starts at zero.  undo is the semadj a process accumulates with  *)
(* SEM_UNDO; SETALL clears it for every process.                           *)
(***************************************************************************)
NoUndo == [p \in Proc |-> [id \in Slot |-> 0]]
NoSem == [state |-> "none", val |-> [id \in Slot |-> 0], undo |-> NoUndo]
GoneSem == [NoSem EXCEPT !.state = "gone"]

SemLive(j) == j \in SemId /\ sem[j].state = "live"
LiveSems == {j \in SemId : sem[j].state = "live"}
FreshSem == {j \in SemId : sem[j].state = "none" /\ \A h \in 1 .. j - 1 : sem[h].state # "none"}

SemOp(m, p, id, d) == [state |-> m.state,
                       val   |-> [m.val EXCEPT ![id] = @ + d],
                       undo  |-> [m.undo EXCEPT ![p][id] = @ - d]]

SetAll(m) == [state |-> m.state, val |-> [id \in Slot |-> 1], undo |-> NoUndo]

AtLeast0(n) == IF n < 0 THEN 0 ELSE n

\* Slip: semop without SEM_UNDO.
SemExitNoUndo(m, p) == m

\* What the kernel does to a set when p exits: it applies p's adjustments.
SemExit(m, p) == [state |-> m.state,
                  val   |-> [id \in Slot |-> AtLeast0(m.val[id] + m.undo[p][id])],
                  undo  |-> [m.undo EXCEPT ![p] = [id \in Slot |-> 0]]]

-----------------------------------------------------------------------------
SlotType == [shmid : SegId \cup {-1}, att : BOOLEAN, key : AnyKey, size : Sizes \cup {0}]

SegType == [state : {"none", "live", "dest", "gone"}, key : AnyKey,
            size : Sizes \cup {0}, nat : [Proc -> Int]]

SemType == [state : {"none", "live", "gone"}, val : [Slot -> Int],
            undo : [Proc -> [Slot -> Int]]]

\* Tables, counters, pending calls and kernel objects have their types in every state.
TypeOK ==
  /\ status \in [Proc -> {"unborn", "live", "dead"}]
  /\ initialized \in [Proc -> BOOLEAN]
  /\ verb \in [Proc -> BOOLEAN]
  /\ cnt \in [Proc -> Int]
  /\ obj \in [Proc -> [Slot -> SlotType]]
  /\ semid \in [Proc -> SemId \cup {-1}]
  /\ pc \in [Proc -> {"idle", "semctl", "shmat"}]
  /\ arg \in [Proc -> [id : Slot, key : AnyKey, size : Sizes \cup {0}]]
  /\ held \in [Proc -> SUBSET Slot]
  /\ seg \in [SegId -> SegType]
  /\ sem \in [SemId -> SemType]

LibInit ==
  /\ status = [p \in Proc |-> IF p \in Roots THEN "live" ELSE "unborn"]
  /\ initialized = [p \in Proc |-> FALSE]
  /\ verb = [p \in Proc |-> FALSE]
  /\ cnt = [p \in Proc |-> 0]
  /\ obj = [p \in Proc |-> EmptyTable]
  /\ semid = [p \in Proc |-> -1]
  /\ pc = [p \in Proc |-> "idle"]
  /\ arg = [p \in Proc |-> NoArg]
  /\ held = [p \in Proc |-> {}]

Init ==
  /\ LibInit
  /\ seg = [s \in SegId |-> NoSeg]
  /\ sem = [j \in SemId |-> NoSem]

\* p is running its own code, between two library calls.
Ready(p) == status[p] = "live" /\ pc[p] = "idle"

\* The library is initialised in p and p is between two calls.
Up(p) == Ready(p) /\ initialized[p]

Used(p, id) == obj[p][id].shmid # -1
UsedSlots(p) == {id \in Slot : Used(p, id)}

-----------------------------------------------------------------------------
SetVerbose(p, v) ==
  /\ Ready(p)
  /\ verb' = [verb EXCEPT ![p] = v]
  /\ UNCHANGED <<status, initialized, cnt, obj, semid, pc, arg, held, seg, sem>>

\* shared_init up to and including semget: the table is wiped whatever it held.
InitSemget(p, initialize) ==
  /\ Ready(p)
  /\ obj' = [obj EXCEPT ![p] = EmptyTable]
  /\ cnt' = [cnt EXCEPT ![p] = 0]
  /\ \/ \E j \in LiveSems : semid' = [semid EXCEPT ![p] = j] /\ UNCHANGED sem
     \/ /\ LiveSems = {}
        /\ \E j \in FreshSem :
             /\ semid' = [semid EXCEPT ![p] = j]
             /\ sem' = [sem EXCEPT ![j].state = "live"]
     \/ "semget" \in Faulty /\ semid' = [semid EXCEPT ![p] = -1] /\ UNCHANGED sem
  /\ IF semid'[p] = -1 /\ verb[p]
     THEN UNCHANGED <<pc, initialized>>
     ELSE IF initialize
          THEN pc' = [pc EXCEPT ![p] = "semctl"] /\ UNCHANGED initialized
          ELSE initialized' = [initialized EXCEPT ![p] = TRUE] /\ UNCHANGED pc
  /\ UNCHANGED <<status, verb, arg, held, seg>>

\* The rest of shared_init(key, SHARED_INITIALIZE): all semaphores become 1.
InitSemctl(p) ==
  /\ status[p] = "live" /\ pc[p] = "semctl"
  /\ IF SemLive(semid[p])
     THEN sem' = [sem EXCEPT ![semid[p]] = SetAll(@)]
     ELSE UNCHANGED sem
  /\ initialized' = [initialized EXCEPT ![p] = @ \/ SemLive(semid[p]) \/ ~verb[p]]
  /\ pc' = [pc EXCEPT ![p] = "idle"]
  /\ UNCHANGED <<status, verb, cnt, obj, semid, arg, held, seg>>

-----------------------------------------------------------------------------
\* Slip: shared_create does not look its key up.
HasKeyNever(p, k) == {}

\* The slots a shared_create(k) of p returns at once: the key is in the table.
HasKey(p, k) == {id \in Slot : k # Private /\ obj[p][id].key = k}

\* Slip: the search for a free slot starts at 1.
FirstFreeFromOne(p) ==
  {id \in 1 .. SHARED_MAX : /\ id < SHARED_MAX => ~Used(p, id)
                            /\ \A i \in 1 .. id - 1 : Used(p, i)}

FirstFree(p) == {id \in Slot : ~Used(p, id) /\ \A i \in 0 .. id - 1 : Used(p, i)}

\* shared_create up to a successful shmget.
CreateShmget(p, k, n) ==
  /\ Up(p)
  /\ cnt[p] # SHARED_MAX
  /\ HasKey(p, k) = {}
  /\ \E id \in FirstFree(p) :
       /\ \/ \E s \in WithKey(k) :
               /\ n <= seg[s].size
               /\ obj' = [obj EXCEPT ![p][id].shmid = s]
               /\ UNCHANGED seg
          \/ /\ WithKey(k) = {}
             /\ \E s \in FreshSeg :
                  /\ obj' = [obj EXCEPT ![p][id].shmid = s]
                  /\ seg' = [seg EXCEPT ![s] =
                               [state |-> "live", key |-> k, size |-> n,
                                nat |-> [q \in Proc |-> 0]]]
       /\ arg' = [arg EXCEPT ![p] = [id |-> id, key |-> k, size |-> n]]
  /\ pc' = [pc EXCEPT ![p] = "shmat"]
  /\ UNCHANGED <<status, initialized, verb, cnt, semid, held, sem>>

\* The rest of shared_create when the segment can be mapped.
CreateShmat(p) ==
  LET id == arg[p].id
      s  == obj[p][id].shmid
  IN  /\ status[p] = "live" /\ pc[p] = "shmat"
      /\ Exists(seg[s]) /\ seg[s].nat[p] < MaxMap
      /\ seg' = [seg EXCEPT ![s] = ShmAt(@, p)]
      /\ obj' = [obj EXCEPT ![p][id] = [shmid |-> s, att |-> TRUE,
                                        key |-> arg[p].key, size |-> arg[p].size]]
      /\ cnt' = [cnt EXCEPT ![p] = @ + 1]
      /\ pc' = [pc EXCEPT ![p] = "idle"]
      /\ arg' = [arg EXCEPT ![p] = NoArg]
      /\ UNCHANGED <<status, initialized, verb, semid, held, sem>>

\* The rest of shared_create when shmat fails: the segment is removed, whoever made it.
CreateShmatFails(p) ==
  LET id == arg[p].id
      s  == obj[p][id].shmid
  IN  /\ status[p] = "live" /\ pc[p] = "shmat"
      /\ "shmat" \in Faulty \/ ~Exists(seg[s])
      /\ seg' = [seg EXCEPT ![s] = ShmRmid(@)]
      /\ obj' = [obj EXCEPT ![p][id].shmid = -1]
      /\ pc' = [pc EXCEPT ![p] = "idle"]
      /\ arg' = [arg EXCEPT ![p] = NoArg]
      /\ UNCHANGED <<status, initialized, verb, cnt, semid, held, sem>>

Attach(p, id) ==
  LET s == obj[p][id].shmid
  IN  /\ Up(p) /\ Used(p, id) /\ ~obj[p][id].att
      /\ Exists(seg[s]) /\ seg[s].nat[p] < MaxMap
      /\ seg' = [seg EXCEPT ![s] = ShmAt(@, p)]
      /\ obj' = [obj EXCEPT ![p][id].att = TRUE]
      /\ UNCHANGED <<status, initialized, verb, cnt, semid, pc, arg, held, sem>>

\* Slip: shared_detach leaves the pointer in the slot.
DetachKeepsPointer(p, id) ==
  /\ Up(p) /\ Used(p, id) /\ obj[p][id].att /\ seg[obj[p][id].shmid].nat[p] > 0
  /\ seg' = [seg EXCEPT ![obj[p][id].shmid] = ShmDt(@, p)]
  /\ UNCHANGED <<libvars, sem>>

Detach(p, id) ==
  /\ Up(p) /\ Used(p, id) /\ obj[p][id].att
  /\ seg' = [seg EXCEPT ![obj[p][id].shmid] = ShmDt(@, p)]
  /\ obj' = [obj EXCEPT ![p][id].att = FALSE]
  /\ UNCHANGED <<status, initialized, verb, cnt, semid, pc, arg, held, sem>>

-----------------------------------------------------------------------------
\* The segment of slot id once p has unmapped it, if it was mapped.
Unattached(p, id) == LET g == seg[obj[p][id].shmid]
                     IN  IF obj[p][id].att THEN ShmDt(g, p) ELSE g

\* Does shmctl(IPC_RMID) fail, and is the failure reported?
RmidReported(p, id) == ~Exists(Unattached(p, id)) /\ verb[p]

\* What detaching and shared_destroy_internal leave of the slot.
SlotAfterDestroy(p, id) == IF RmidReported(p, id)
                           THEN [obj[p][id] EXCEPT !.att = FALSE]
                           ELSE FreeSlot

\* Slip: shared_cnt goes down although the slot stays in use.
DestroyCountsAlways(p, id) ==
  /\ Up(p) /\ Used(p, id)
  /\ seg' = [seg EXCEPT ![obj[p][id].shmid] = ShmRmid(Unattached(p, id))]
  /\ obj' = [obj EXCEPT ![p][id] = SlotAfterDestroy(p, id)]
  /\ cnt' = [cnt EXCEPT ![p] = @ - 1]
  /\ UNCHANGED <<status, initialized, verb, semid, pc, arg, held, sem>>

\* shmdt and shmctl.  That others run between the two is a behaviour too: Detach, then Destroy
\* of a slot without a pointer, which is what is left to do.
Destroy(p, id) ==
  /\ Up(p) /\ Used(p, id)
  /\ seg' = [seg EXCEPT ![obj[p][id].shmid] = ShmRmid(Unattached(p, id))]
  /\ obj' = [obj EXCEPT ![p][id] = SlotAfterDestroy(p, id)]
  /\ cnt' = [cnt EXCEPT ![p] = IF RmidReported(p, id) THEN @ ELSE @ - 1]
  /\ UNCHANGED <<status, initialized, verb, semid, pc, arg, held, sem>>

\* shared_fini: every slot is detached and destroyed, then the semaphore set goes.  With others
\* in between it is the same as Detach and Destroy of one slot after the other, then Fini with
\* an empty table; a process that is killed in between does Exit instead.
Fini(p) ==
  /\ Up(p)
  /\ seg' = [s \in SegId |->
               IF \E id \in Slot : obj[p][id].shmid = s
               THEN ShmRmid(Unattached(p, CHOOSE id \in Slot : obj[p][id].shmid = s))
               ELSE seg[s]]
  /\ obj' = [obj EXCEPT ![p] = [id \in Slot |->
               IF Used(p, id) THEN SlotAfterDestroy(p, id) ELSE obj[p][id]]]
  /\ cnt' = [cnt EXCEPT ![p] =
               @ - Cardinality({id \in UsedSlots(p) : ~RmidReported(p, id)})]
  /\ sem' = IF SemLive(semid[p]) THEN [sem EXCEPT ![semid[p]] = GoneSem] ELSE sem
  /\ initialized' = [initialized EXCEPT ![p] = ~SemLive(semid[p]) /\ verb[p]]
  /\ UNCHANGED <<status, verb, semid, pc, arg, held>>

-----------------------------------------------------------------------------
\* Slip: semop with IPC_NOWAIT, its EAGAIN taken for success.
LockNoWait(p, id) ==
  /\ Up(p) /\ Used(p, id)
  /\ held' = [held EXCEPT ![p] = @ \cup {id}]
  /\ IF SemLive(semid[p]) /\ sem[semid[p]].val[id] > 0
     THEN sem' = [sem EXCEPT ![semid[p]] = SemOp(@, p, id, -1)]
     ELSE UNCHANGED sem
  /\ UNCHANGED <<status, initialized, verb, cnt, obj, semid, pc, arg, seg>>

\* shared_lock: semop(-1) waits for the semaphore; on a removed set it fails,
\* and only a verbose process is told so.
Lock(p, id) ==
  /\ Up(p) /\ Used(p, id)
  /\ \/ /\ SemLive(semid[p])
        /\ sem[semid[p]].val[id] > 0
        /\ sem' = [sem EXCEPT ![semid[p]] = SemOp(@, p, id, -1)]
        /\ held' = [held EXCEPT ![p] = @ \cup {id}]
     \/ /\ ~SemLive(semid[p]) /\ ~verb[p]
        /\ held' = [held EXCEPT ![p] = @ \cup {id}]
        /\ UNCHANGED sem
  /\ UNCHANGED <<status, initialized, verb, cnt, obj, semid, pc, arg, seg>>

\* Slip: the semaphores are opened with SETALL.
UnlockSetsAll(p, id) ==
  /\ Up(p) /\ Used(p, id)
  /\ sem' = IF SemLive(semid[p]) THEN [sem EXCEPT ![semid[p]] = SetAll(@)] ELSE sem
  /\ held' = [held EXCEPT ![p] = @ \ {id}]
  /\ UNCHANGED <<status, initialized, verb, cnt, obj, semid, pc, arg, seg>>

Unlock(p, id) ==
  /\ Up(p) /\ Used(p, id)
  /\ sem' = IF SemLive(semid[p])
            THEN [sem EXCEPT ![semid[p]] = SemOp(@, p, id, 1)] ELSE sem
  /\ held' = [held EXCEPT ![p] = @ \ {id}]
  /\ UNCHANGED <<status, initialized, verb, cnt, obj, semid, pc, arg, seg>>

\* What shared_read and shared_write check before they copy n bytes at from.
Accessible(p, id, from, n) ==
  /\ initialized[p] /\ id \in Slot /\ Used(p, id) /\ obj[p][id].att
  /\ from \in 0 .. obj[p][id].size - 1
  /\ from + n <= obj[p][id].size

-----------------------------------------------------------------------------
\* fork: the child copies the table, shared_init_fork forgets its pointers, but
\* the mappings themselves are inherited.
Fork(p, q) ==
  /\ Ready(p) /\ status[q] = "unborn"
  /\ status' = [status EXCEPT ![q] = "live"]
  /\ initialized' = [initialized EXCEPT ![q] = initialized[p]]
  /\ verb' = [verb EXCEPT ![q] = verb[p]]
  /\ cnt' = [cnt EXCEPT ![q] = cnt[p]]
  /\ obj' = [obj EXCEPT ![q] = [id \in Slot |-> [obj[p][id] EXCEPT !.att = FALSE]]]
  /\ semid' = [semid EXCEPT ![q] = semid[p]]
  /\ seg' = [s \in SegId |-> [seg[s] EXCEPT !.nat[q] = seg[s].nat[p]]]
  /\ UNCHANGED <<pc, arg, held, sem>>

\* A process returns from main or is killed, anywhere: the kernel unmaps its
\* segments and applies its semaphore adjustments.
Exit(p) ==
  /\ status[p] = "live"
  /\ status' = [status EXCEPT ![p] = "dead"]
  /\ initialized' = [initialized EXCEPT ![p] = FALSE]
  /\ cnt' = [cnt EXCEPT ![p] = 0]
  /\ obj' = [obj EXCEPT ![p] = EmptyTable]
  /\ semid' = [semid EXCEPT ![p] = -1]
  /\ pc' = [pc EXCEPT ![p] = "idle"]
  /\ arg' = [arg EXCEPT ![p] = NoArg]
  /\ held' = [held EXCEPT ![p] = {}]
  /\ seg' = [s \in SegId |-> Reaped([seg[s] EXCEPT !.nat[p] = 0])]
  /\ sem' = [j \in SemId |-> IF sem[j].state = "live" THEN SemExit(sem[j], p) ELSE sem[j]]
  /\ verb' = [verb EXCEPT ![p] = FALSE]

-----------------------------------------------------------------------------
\* Any legal sequence of calls.  The one rule the clients follow is the schema
\* of readme.txt: locks and unlocks are paired, and no lock is kept across
\* shared_init, shared_fini or fork.
Call(p) ==
  \/ \E v \in BOOLEAN : SetVerbose(p, v)
  \/ held[p] = {} /\ \E ini \in BOOLEAN : InitSemget(p, ini)
  \/ InitSemctl(p)
  \/ \E k \in AnyKey, n \in Sizes : CreateShmget(p, k, n)
  \/ CreateShmat(p)
  \/ CreateShmatFails(p)
  \/ \E id \in Slot : Attach(p, id)
  \/ \E id \in Slot : Detach(p, id)
  \/ \E id \in Slot : Destroy(p, id)
  \/ held[p] = {} /\ Fini(p)
  \/ \E id \in Slot \ held[p] : Lock(p, id)
  \/ \E id \in held[p] : Unlock(p, id)
  \/ held[p] = {} /\ \E q \in Proc : Fork(p, q)
  \/ Exit(p)

Next == \E p \in Proc : Call(p)

Spec == Init /\ [][Next]_vars

-----------------------------------------------------------------------------
(***************************************************************************)
(* shared_cnt, which alone decides whether shared_create may look for a    *)
(* free slot, is the number of slots in use: the search of shared_create   *)
(* (shared.c:296-298) never runs off the end of the table, and the table   *)
(* is never refused while it has room.                                     *)
(***************************************************************************)
CountMatches ==
  \A p \in Proc : pc[p] # "shmat" => cnt[p] = Cardinality(UsedSlots(p))

(***************************************************************************)
(* A key names at most one slot of a process, so the id a client gets from *)
(* shared_create stays the id of its object until it is destroyed; and no  *)
(* segment has two slots, so it is never unmapped through one while it is  *)
(* used through the other.                                                 *)
(***************************************************************************)
OneSlotPerKey ==
  \A p \in Proc : \A i, j \in UsedSlots(p) :
    (obj[p][i].shmid = obj[p][j].shmid
       \/ (obj[p][i].key = obj[p][j].key /\ obj[p][i].key # Private)) => i = j

(***************************************************************************)
(* The pointer of an attached slot never dangles: whatever the others      *)
(* destroy, the segment still exists, this process maps it, and it is as   *)
(* large as the size shared_read and shared_write check against.           *)
(***************************************************************************)
PointerValid ==
  \A p \in Proc, id \in Slot :
    obj[p][id].att =>
      LET g == seg[obj[p][id].shmid]
      IN  Used(p, id) /\ Exists(g) /\ g.nat[p] > 0 /\ obj[p][id].size <= g.size
=============================================================================
