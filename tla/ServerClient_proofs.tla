------------------------ MODULE ServerClient_proofs ------------------------
(***************************************************************************)
(* server.c and client.c on the library, for messages of every length and  *)
(* tables, keys, segments and semaphore sets of every number: types, and,  *)
(* where the client is started once the server has the lock, the message   *)
(* it reads and the segment the server removes.                            *)
(***************************************************************************)
EXTENDS ServerClient, SharedLib_proofs, SequenceTheorems

USE LibAssumption, ProgramsAssumption DEF AnyKey

Places == {"set_verbose", "init", "init_sem", "create", "shmat", "lock",
           "write", "unlock", "rl_lock", "rl_read", "rl_unlock", "destroy",
           "read", "star", "detach", "return", "returned", "killed"}

\* The object is as large as both programs have asked for.
SizesOK ==
  \A p \in Proc : /\ arg[p].size \in {0, Size}
                  /\ \A id \in Slot : obj[p][id].size \in {0, Size}

ProgInv == TypeInv /\ PTypeOK /\ SizesOK

\* The constants.
LEMMA Consts ==
  /\ Id \in Slot /\ TheKey \in AnyKey /\ TheKey # Private /\ Size \in Sizes
  /\ Server \in Proc /\ Client \in Proc /\ 0 \in Offset
  /\ 0 \in 0 .. Star /\ NUL \in 0 .. Star /\ Star \in 0 .. Star /\ Star \in 1 .. Star
<1>1. TheKey \in Key
  BY DEF TheKey
<1> QED
  BY <1>1 DEF Id, Slot, NUL, Star, Offset

\* The first state.
LEMMA ProgInit == PInit => ProgInv
<1> SUFFICES ASSUME PInit PROVE ProgInv
  OBVIOUS
<1>1. FreeSlot \in SlotType
  BY DEF FreeSlot, SlotType
<1>2. EmptyTable \in [Slot -> SlotType]
  BY <1>1 DEF EmptyTable
<1>3. NoSeg \in SegType
  BY DEF NoSeg, SegType
<1>4. NoSem \in SemType /\ OldSem \in SemType
  <2>1. NoSem \in SemType
    BY DEF NoSem, NoUndo, SemType
  <2>2. \A m \in SemType, f \in [Slot -> Int] : [m EXCEPT !.state = "live", !.val = f] \in SemType
    BY DEF SemType
  <2>3. [id \in Slot |-> 1] \in [Slot -> Int]
    OBVIOUS
  <2> QED
    BY <2>1, <2>2, <2>3, Zenon DEF OldSem
<1>5. sem \in [SemId -> SemType]
  BY <1>4 DEF PInit
<1>6. TypeInv
  BY <1>2, <1>3, <1>5, Consts DEF PInit, LibInit, TypeInv, TypeOK, InCreate, NoArg, Id
<1>7. PTypeOK
  <2>1. printed \in Seq(1 .. Star)
    BY EmptySeq DEF PInit
  <2> QED
    BY <1>6, <2>1, Consts DEF PInit, PTypeOK, TypeInv, Offset
<1>8. SizesOK
  BY DEF PInit, LibInit, SizesOK, NoArg, EmptyTable, FreeSlot
<1> QED
  BY <1>6, <1>7, <1>8 DEF ProgInv

\* The two programs move the library as AnyCall says, or not at all.
LEMMA LibSteps ==
  ASSUME ProgInv, [PNext]_allvars
  PROVE  (\E p \in Proc : AnyCall(p)) \/ UNCHANGED vars
<1>1. CASE UNCHANGED allvars
  BY <1>1 DEF allvars
<1>2. ASSUME NEW p \in Proc, Run(p) \/ PKill(p) PROVE AnyCall(p) \/ UNCHANGED vars
  <2>1. ASSUME PSetVerbose(p) PROVE AnyCall(p)
    BY <2>1, Zenon DEF PSetVerbose, AnyCall
  <2>2. ASSUME PInitLib(p) PROVE AnyCall(p)
    <3>1. (p = Server) \in BOOLEAN
      OBVIOUS
    <3> QED
      BY <2>2, <3>1, Zenon DEF PInitLib, AnyCall
  <2>3. ASSUME PInitSem(p) \/ PShmat(p) \/ PReturn(p) \/ PKill(p) PROVE AnyCall(p)
    BY <2>3, Zenon DEF PInitSem, PShmat, PReturn, PKill, AnyCall
  <2>4. ASSUME PCreate(p) PROVE AnyCall(p)
    BY <2>4, Consts, Zenon DEF PCreate, AnyCall
  <2>5. ASSUME PLock(p) \/ PUnlock(p) PROVE AnyCall(p)
    BY <2>5, Consts, Zenon DEF PLock, PUnlock, AnyCall
  <2>6. ASSUME p = Server, ServerReadLocks \/ ServerReadUnlocks \/ ServerDestroys PROVE AnyCall(p)
    BY <2>6, Consts, Zenon DEF ServerReadLocks, ServerReadUnlocks, ServerDestroys, AnyCall
  <2>7. ASSUME p = Client, ClientDetaches PROVE AnyCall(p)
    BY <2>7, Consts, Zenon DEF ClientDetaches, AnyCall
  <2>8. ASSUME ServerWrites \/ ServerTerminates \/ ServerReads \/ ClientReads \/ ClientStars
        PROVE  UNCHANGED vars
    BY <2>8, Zenon DEF ServerWrites, ServerTerminates, ServerReads, ClientReads, ClientStars
  <2> QED
    BY <1>2, <2>1, <2>2, <2>3, <2>4, <2>5, <2>6, <2>7, <2>8, Zenon DEF Run
<1> QED
  BY <1>1, <1>2, Zenon DEF PNext

\* Sizes come from shared_create alone, which both programs call with Size.
LEMMA SizesStep ==
  ASSUME ProgInv, [PNext]_allvars
  PROVE  SizesOK'
<1>0. /\ obj \in [Proc -> [Slot -> SlotType]] /\ SizesOK
      /\ arg \in [Proc -> [id : Slot, key : AnyKey, size : Sizes \cup {0}]]
  BY DEF ProgInv, TypeInv, TypeOK
<1>1. ASSUME \A q \in Proc : /\ arg'[q].size \in {arg[q].size, 0, Size}
                             /\ \A k \in Slot : obj'[q][k].size \in {obj[q][k].size, arg[q].size, 0}
      PROVE  SizesOK'
  BY <1>0, <1>1 DEF SizesOK
<1>2. CASE UNCHANGED <<obj, arg>>
  BY <1>0, <1>2 DEF SizesOK
<1>3. ASSUME NEW p \in Proc, obj' = [obj EXCEPT ![p] = EmptyTable], arg' = arg \/ arg' = [arg EXCEPT ![p] = NoArg]
      PROVE  SizesOK'
  BY <1>0, <1>1, <1>3 DEF NoArg, EmptyTable, FreeSlot
<1>4. ASSUME NEW p \in Proc, NEW id \in Slot, NEW o \in SlotType, obj' = [obj EXCEPT ![p][id] = o],
             o.size \in {obj[p][id].size, arg[p].size, 0},
             \A q \in Proc : arg'[q].size \in {arg[q].size, 0, Size}
      PROVE  SizesOK'
  <2>1. \A q \in Proc, k \in Slot : obj'[q][k] = IF q = p /\ k = id THEN o ELSE obj[q][k]
    BY <1>0, <1>4
  <2> QED
    BY <1>1, <1>4, <2>1
<1>5. ASSUME NEW p \in Proc, PCreate(p) PROVE SizesOK'
  <2>1. PICK id \in FirstFree(p) : /\ \E s \in SegId : obj' = [obj EXCEPT ![p][id].shmid = s]
                                   /\ arg' = [arg EXCEPT ![p] = [id |-> id, key |-> TheKey, size |-> Size]]
    BY <1>5, Zenon DEF PCreate, CreateShmget, WithKey, FreshSeg
  <2>2. PICK s \in SegId : obj' = [obj EXCEPT ![p][id].shmid = s]
    BY <2>1
  <2>3. id \in Slot
    BY DEF FirstFree
  <2>4. \A q \in Proc, k \in Slot : obj'[q][k].size = obj[q][k].size
    BY <1>0, <2>2, <2>3 DEF SlotType
  <2>5. \A q \in Proc : arg'[q].size \in {arg[q].size, Size}
    BY <1>0, <2>1
  <2> QED
    BY <1>1, <2>4, <2>5
<1>6. ASSUME NEW p \in Proc, PShmat(p) PROVE SizesOK'
  <2>1. arg[p].id \in Slot /\ arg' = [arg EXCEPT ![p] = NoArg]
    BY <1>0, <1>6 DEF PShmat, CreateShmat, CreateShmatFails
  <2>2. \A q \in Proc : arg'[q].size \in {arg[q].size, 0}
    BY <1>0, <2>1 DEF NoArg
  <2> DEFINE id == arg[p].id
             o  == [shmid |-> obj[p][id].shmid, att |-> TRUE, key |-> arg[p].key, size |-> arg[p].size]
             n  == [obj[p][id] EXCEPT !.shmid = -1]
  <2>3. o.size = arg[p].size /\ n.size = obj[p][id].size
    BY <1>0, <2>1 DEF SlotType
  <2>4. obj' = [obj EXCEPT ![p][id] = o] \/ obj' = [obj EXCEPT ![p][id] = n]
    BY <1>6 DEF PShmat, CreateShmat, CreateShmatFails
  <2>5. \A q \in Proc, k \in Slot : q # p \/ k # id => obj'[q][k] = obj[q][k]
    <3> HIDE DEF o, n, id
    <3> QED
      BY <1>0, <2>4
  <2>6. obj'[p][id].size \in {obj[p][id].size, arg[p].size}
    <3> HIDE DEF o, n, id
    <3> QED
      BY <1>0, <2>1, <2>3, <2>4 DEF id
  <2> HIDE DEF id
  <2> QED
    BY <1>1, <2>2, <2>5, <2>6
<1>7. ASSUME Detach(Client, Id) PROVE SizesOK'
  <2>1. arg' = arg /\ \A q \in Proc, k \in Slot : obj'[q][k].size = obj[q][k].size
    BY <1>0, <1>7, Consts DEF Detach, SlotType
  <2> QED
    BY <1>1, <2>1
<1>8. ASSUME Destroy(Server, Id) PROVE SizesOK'
  <2>1. SlotAfterDestroy(Server, Id) \in SlotType
    BY Consts, SlotFacts DEF ProgInv
  <2>2. SlotAfterDestroy(Server, Id).size \in {obj[Server][Id].size, 0}
    BY <1>0, Consts DEF SlotAfterDestroy, FreeSlot, SlotType
  <2>3. obj' = [obj EXCEPT ![Server][Id] = SlotAfterDestroy(Server, Id)] /\ arg' = arg
    BY <1>8 DEF Destroy
  <2> QED
    BY <1>4, <2>1, <2>2, <2>3, Consts
<1>9. ASSUME NEW p \in Proc, PInitLib(p) \/ PReturn(p) \/ PKill(p) PROVE SizesOK'
  BY <1>3, <1>9, Zenon DEF PInitLib, InitSemget, PReturn, PKill, Exit
<1>10. ASSUME NEW p \in Proc, \/ PSetVerbose(p) \/ PInitSem(p) \/ PLock(p) \/ PUnlock(p)
                              \/ ServerWrites \/ ServerTerminates \/ ServerReadLocks \/ ServerReads
                              \/ ServerReadUnlocks \/ ClientReads \/ ClientStars
      PROVE  UNCHANGED <<obj, arg>>
  BY <1>10, Zenon DEF PSetVerbose, SetVerbose, PInitSem, InitSemctl, PLock, Lock, PUnlock, Unlock, ServerWrites,
     ServerTerminates, ServerReadLocks, ServerReads, ServerReadUnlocks, ClientReads, ClientStars, vars, libvars
<1>11. CASE UNCHANGED allvars
  BY <1>2, <1>11 DEF allvars, vars, libvars
<1>12. ASSUME NEW p \in Proc, Run(p) \/ PKill(p) PROVE SizesOK'
  BY <1>2, <1>5, <1>6, <1>7, <1>8, <1>9, <1>10, <1>12, Zenon DEF Run, ServerDestroys, ClientDetaches
<1> QED
  BY <1>11, <1>12, Zenon DEF PNext

\* The programs' own variables keep their types.
LEMMA DataStep ==
  ASSUME ProgInv, [PNext]_allvars
  PROVE  /\ at' \in [Proc -> Places]
         /\ mem' \in [SegId -> [Offset -> 0 .. Star]]
         /\ i' \in [Proc -> 0 .. Size]
         /\ znak' \in [Proc -> 0 .. Star]
         /\ printed' \in Seq(1 .. Star)
<1> DEFINE Goal == /\ at' \in [Proc -> Places] /\ mem' \in [SegId -> [Offset -> 0 .. Star]]
                   /\ i' \in [Proc -> 0 .. Size] /\ znak' \in [Proc -> 0 .. Star] /\ printed' \in Seq(1 .. Star)
<1>0. /\ at \in [Proc -> Places] /\ mem \in [SegId -> [Offset -> 0 .. Star]]
      /\ i \in [Proc -> 0 .. Size] /\ znak \in [Proc -> 0 .. Star] /\ printed \in Seq(1 .. Star)
      /\ obj \in [Proc -> [Slot -> SlotType]]
  BY DEF ProgInv, PTypeOK, TypeInv, TypeOK, Places
<1>1. CASE UNCHANGED pvars
  BY <1>0, <1>1 DEF pvars
<1>2. ASSUME NEW p \in Proc, UNCHANGED Data, \E l \in Places : at' = [at EXCEPT ![p] = l]
      PROVE  Goal
  BY <1>0, <1>2 DEF Data
<1>3. ASSUME NEW p \in Proc, \/ PSetVerbose(p) \/ PInitLib(p) \/ PInitSem(p) \/ PCreate(p) \/ PShmat(p)
                             \/ PLock(p) \/ PUnlock(p) \/ PReturn(p) \/ PKill(p)
      PROVE  Goal
  <2>1. /\ UNCHANGED Data
        /\ \E l \in {"init", "return", "init_sem", "create", "shmat", "lock", "write", "read", "rl_lock",
                     "returned", "killed"} : at' = [at EXCEPT ![p] = l]
    BY <1>3, Zenon DEF PSetVerbose, PInitLib, PInitSem, PCreate, PShmat, PLock, PUnlock, PReturn, PKill, Goto
  <2> QED
    BY <1>2, <2>1 DEF Places
<1>4. ASSUME ServerReadLocks \/ ServerReadUnlocks \/ ServerDestroys PROVE Goal
  <2>1. /\ UNCHANGED Data
        /\ \E l \in {"rl_read", "destroy", "rl_lock", "return"} : at' = [at EXCEPT ![Server] = l]
    BY <1>4, Zenon DEF ServerReadLocks, ServerReadUnlocks, ServerDestroys, Goto
  <2> QED
    BY <1>2, <2>1, Consts DEF Places
<1>5. ASSUME ClientDetaches PROVE Goal
  <2>1. UNCHANGED Data /\ at' = [at EXCEPT ![Client] = "unlock"]
    BY <1>5, Zenon DEF ClientDetaches, Goto
  <2> QED
    BY <1>2, <2>1, Consts DEF Places
<1>6. ASSUME NEW p \in Proc, NEW n, Accessible(p, Id, n, 1) PROVE obj[p][Id].shmid \in SegId /\ n \in Offset /\ n + 1 <= Size
  <2>1. obj[p][Id].shmid \in SegId
    BY <1>6, SlotFacts, Consts DEF Accessible, ProgInv
  <2>2. obj[p][Id].size \in {0, Size} /\ Size \in Nat
    BY Consts DEF ProgInv, SizesOK
  <2> QED
    BY <1>6, <2>1, <2>2 DEF Accessible, Offset
<1>7. ASSUME NEW s \in SegId, NEW o \in Offset, NEW c \in 0 .. Star
      PROVE  [mem EXCEPT ![s][o] = c] \in [SegId -> [Offset -> 0 .. Star]]
  BY <1>0
<1>8. ASSUME ServerWrites PROVE Goal
  <2>1. UNCHANGED <<at, znak, printed>> /\ i' = [i EXCEPT ![Server] = i[Server] + 1] /\ i[Server] < Letters
    BY <1>8 DEF ServerWrites
  <2>2. i' \in [Proc -> 0 .. Size] /\ i[Server] + 1 \in 0 .. Star
    BY <1>0, <2>1, Consts DEF Star
  <2>3. \/ mem' = mem
        \/ Accessible(Server, Id, i[Server], 1) /\ mem' = [mem EXCEPT ![obj[Server][Id].shmid][i[Server]] = i[Server] + 1]
    BY <1>8, Zenon DEF ServerWrites
  <2>4. mem' \in [SegId -> [Offset -> 0 .. Star]]
    <3>1. ASSUME Accessible(Server, Id, i[Server], 1)
          PROVE  obj[Server][Id].shmid \in SegId /\ i[Server] \in Offset
      BY <1>6, <3>1, Consts
    <3>2. mem' # mem => [mem EXCEPT ![obj[Server][Id].shmid][i[Server]] = i[Server] + 1]
                          \in [SegId -> [Offset -> 0 .. Star]]
      BY <1>7, <2>2, <2>3, <3>1
    <3> QED
      BY <1>0, <2>3, <3>2, Zenon
  <2> QED
    BY <1>0, <2>1, <2>2, <2>4
<1>9. ASSUME ServerTerminates PROVE Goal
  BY <1>0, <1>9, Consts DEF ServerTerminates, Goto, Places
<1>10. ASSUME NEW p \in Proc, NEW n, Accessible(p, Id, n, 1) PROVE Bytes(p)[n] \in 0 .. Star
  BY <1>0, <1>6, <1>10 DEF Bytes
<1>11. ASSUME ServerReads PROVE Goal
  <2>1. at' = [at EXCEPT ![Server] = "rl_unlock"] /\ UNCHANGED <<mem, i, printed>>
    BY <1>11 DEF ServerReads, Goto
  <2>2. \/ znak' = [znak EXCEPT ![Server] = znak[Server]]
        \/ Accessible(Server, Id, 0, 1) /\ znak' = [znak EXCEPT ![Server] = Bytes(Server)[0]]
    BY <1>11 DEF ServerReads
  <2>3. znak' \in [Proc -> 0 .. Star]
    BY <1>0, <1>10, <2>2, Consts
  <2> QED
    BY <1>0, <2>1, <2>3, Consts DEF Places
<1>12. ASSUME ClientReads PROVE Goal
  <2> DEFINE read == Accessible(Client, Id, i[Client], 1)
             z    == IF read THEN Bytes(Client)[i[Client]] ELSE znak[Client]
  <2>1. z \in 0 .. Star
    BY <1>0, <1>10, Consts
  <2>2. /\ znak' = [znak EXCEPT ![Client] = z] /\ UNCHANGED mem
        /\ \/ at' = [at EXCEPT ![Client] = "star"] /\ UNCHANGED <<i, printed>>
           \/ UNCHANGED <<at, i, printed>>
           \/ read /\ z # NUL /\ UNCHANGED at /\ i' = [i EXCEPT ![Client] = i[Client] + 1] /\ printed' = Append(printed, z)
    <3>1. z = NUL => at' = [at EXCEPT ![Client] = "star"] /\ UNCHANGED <<i, printed>>
      BY <1>12 DEF ClientReads
    <3>2. z # NUL /\ ~read => UNCHANGED <<at, i, printed>>
      BY <1>0, <1>12, Consts DEF ClientReads
    <3>3. z # NUL /\ read => UNCHANGED at /\ i' = [i EXCEPT ![Client] = i[Client] + 1] /\ printed' = Append(printed, z)
      BY <1>12 DEF ClientReads
    <3>4. znak' = [znak EXCEPT ![Client] = z] /\ UNCHANGED mem
      BY <1>12 DEF ClientReads
    <3> HIDE DEF read, z
    <3> QED
      BY <3>1, <3>2, <3>3, <3>4
  <2>3. read => i[Client] + 1 \in 0 .. Size
    BY <1>0, <1>6, Consts DEF Offset
  <2> HIDE DEF read, z
  <2>4. read /\ z # NUL => Append(printed, z) \in Seq(1 .. Star)
    <3>1. z # NUL => z \in 1 .. Star
      BY <2>1, Consts DEF NUL
    <3> QED
      BY <1>0, <3>1, AppendProperties
  <2>5. znak' \in [Proc -> 0 .. Star] /\ mem' \in [SegId -> [Offset -> 0 .. Star]] /\ at' \in [Proc -> Places]
    BY <1>0, <2>1, <2>2, Consts DEF Places
  <2>6. i' \in [Proc -> 0 .. Size]
    BY <1>0, <2>2, <2>3, Consts
  <2>7. printed' \in Seq(1 .. Star)
    BY <1>0, <2>2, <2>4
  <2> QED
    BY <2>5, <2>6, <2>7
<1>13. ASSUME ClientStars PROVE Goal
  <2>1. /\ at' = [at EXCEPT ![Client] = "detach"] /\ UNCHANGED <<i, printed>> /\ znak' = [znak EXCEPT ![Client] = Star]
    BY <1>13 DEF ClientStars, Goto
  <2>2. \/ mem' = mem
        \/ Accessible(Client, Id, 0, 1) /\ mem' = [mem EXCEPT ![obj[Client][Id].shmid][0] = Star]
    BY <1>13, Zenon DEF ClientStars
  <2>3. mem' \in [SegId -> [Offset -> 0 .. Star]]
    <3>1. ASSUME Accessible(Client, Id, 0, 1)
          PROVE  obj[Client][Id].shmid \in SegId
      BY <1>6, <3>1, Consts
    <3>2. mem' # mem => [mem EXCEPT ![obj[Client][Id].shmid][0] = Star] \in [SegId -> [Offset -> 0 .. Star]]
      BY <1>7, <2>2, <3>1, Consts
    <3> QED
      BY <1>0, <2>2, <3>2, Zenon
  <2>4. at' \in [Proc -> Places] /\ znak' \in [Proc -> 0 .. Star]
    BY <1>0, <2>1, Consts DEF Places
  <2> QED
    BY <1>0, <2>1, <2>3, <2>4, Zenon
<1>14. CASE UNCHANGED allvars
  BY <1>1, <1>14 DEF allvars
<1>15. ASSUME NEW p \in Proc, Run(p) \/ PKill(p) PROVE Goal
  <2> HIDE DEF Goal
  <2> QED
    BY <1>3, <1>4, <1>5, <1>8, <1>9, <1>11, <1>12, <1>13, <1>15, Zenon DEF Run
<1> QED
  BY <1>14, <1>15, Zenon DEF PNext

\* Every step keeps the types and the sizes.
LEMMA ProgStep == ProgInv /\ [PNext]_allvars => ProgInv'
<1> SUFFICES ASSUME ProgInv, [PNext]_allvars PROVE ProgInv'
  OBVIOUS
<1>1. TypeInv'
  <2>1. CASE \E p \in Proc : AnyCall(p)
    BY <2>1, TypeStep DEF ProgInv
  <2>2. CASE UNCHANGED vars
    BY <2>2 DEF ProgInv, vars, libvars, TypeInv, TypeOK, InCreate, Used
  <2> QED
    BY <2>1, <2>2, LibSteps
<1>2. PTypeOK'
  BY <1>1, DataStep, Zenon DEF PTypeOK, TypeInv, Places
<1> QED
  BY <1>1, <1>2, SizesStep, Zenon DEF ProgInv

\* The library's tables and kernel objects, the segment's bytes and the programs' variables have
\* their types: no read or write of either program leaves the object it has mapped.
THEOREM ServerClientTypes == PSpec => []PTypeOK
<1>1. ProgInv => PTypeOK
  BY DEF ProgInv
<1> QED
  BY <1>1, ProgInit, ProgStep, PTL DEF PSpec

-----------------------------------------------------------------------------
(***************************************************************************)
(* The client started once the server has the lock.  The invariant has     *)
(* four parts: what a program has in its own table at each place (CallOK), *)
(* who is inside the critical section (SemOK), which segment there is and  *)
(* whether the client maps it (SegOK), and which letters are in it and on  *)
(* the client's screen (DataOK).                                           *)
(***************************************************************************)
Inside == {"write", "unlock", "rl_read", "rl_unlock", "read", "star", "detach"}
Before == {"set_verbose", "init", "init_sem", "create", "shmat", "lock"}
Past == {"write", "unlock", "rl_lock", "rl_read", "rl_unlock"}
Active == {"init", "create", "shmat", "lock", "read", "star", "detach", "unlock"}
MapsAt == {"lock", "write", "rl_lock", "rl_read", "rl_unlock", "read", "star", "detach"}
Unstarred == {"set_verbose", "init", "create", "shmat", "lock", "read", "star"}

CallOK(p) ==
  /\ p = Server => at[p] \notin {"read", "star", "detach"}
  /\ p = Client => at[p] \notin {"init_sem", "write", "rl_lock", "rl_read", "rl_unlock", "destroy"}
  /\ at[p] = "init" => verb[p]
  /\ at[p] \in {"create", "shmat", "lock", "rl_lock"} \cup Inside => initialized[p]
  /\ at[p] \in {"init_sem", "create", "shmat", "lock", "rl_lock"} \cup Inside => SemLive(semid[p])
  /\ at[p] \in {"init_sem", "create"} => obj[p] = EmptyTable
  /\ at[p] = "shmat" => arg[p] = [id |-> Id, key |-> TheKey, size |-> Size] /\ obj[p][Id].shmid = 1
  /\ at[p] \in MapsAt \/ (p = Server /\ at[p] = "unlock") =>
       obj[p][Id].shmid = 1 /\ obj[p][Id].att /\ obj[p][Id].size = Size

Under(p) == IF at[p] \in Inside THEN 1 ELSE 0

SetOK(m) == /\ \A p \in Proc : m.undo[p][Id] = Under(p)
            /\ m.val[Id] >= 0
            /\ m.val[Id] + Under(Server) + Under(Client) <= 1

SemOK ==
  /\ \A j, h \in LiveSems : j = h
  /\ \A j \in SemId : sem[j].state = "none" => sem[j] = NoSem
  /\ at[Client] = "init" => LiveSems # {}
  /\ \A j \in LiveSems : SetOK(sem[j])

SegOK ==
  /\ \A s \in SegId : s # 1 => seg[s].state = "none"
  /\ at[Server] \in {"set_verbose", "init", "init_sem", "create"} => \A s \in SegId : seg[s].state = "none"
  /\ \A s \in SegId : seg[s].nat[Client] =
       IF s = 1 /\ at[Client] \in {"lock", "read", "star", "detach"} THEN 1 ELSE 0
  /\ at[Client] \in Active \/ (at[Client] = "set_verbose" /\ at[Server] \in {"shmat", "lock"} \cup Past) =>
       1 \in SegId /\ seg[1].state = "live" /\ seg[1].key = TheKey
  /\ at[Client] \in Active => at[Server] \in Past \cup {"killed"}

\* The first n letters are in the segment, and nothing else.
Holds(n) == 1 \in SegId => \A o \in Offset : mem[1][o] = IF o < n THEN o + 1 ELSE NUL

DataOK ==
  /\ at[Server] \in Before => i[Server] = 0 /\ Holds(0)
  /\ at[Server] = "write" => i[Server] <= Letters /\ Holds(i[Server])
  /\ at[Server] = "unlock" => Holds(Letters)
  /\ at[Server] \in {"rl_lock", "rl_read", "rl_unlock"} /\ at[Client] \in Unstarred => Holds(Letters)
  /\ at[Server] = "rl_unlock" /\ znak[Server] = Star => at[Client] \notin Unstarred
  /\ at[Client] \in Before => i[Client] = 0 /\ printed = <<>>
  /\ at[Client] \in {"read", "star"} /\ at[Server] # "killed" =>
       i[Client] <= Letters /\ Len(printed) = i[Client] /\ \A k \in 1 .. i[Client] : printed[k] = k
  /\ at[Client] = "star" /\ at[Server] # "killed" => i[Client] = Letters

SafeInv == ProgInv /\ (\A p \in Proc : CallOK(p)) /\ SemOK /\ SegOK /\ DataOK

\* The first state.
LEMMA SafeInit == PInit => SafeInv
<1> SUFFICES ASSUME PInit PROVE SafeInv
  OBVIOUS
<1>1. \A p \in Proc : at[p] = "set_verbose" /\ i[p] = 0
  BY DEF PInit
<1>2. \A p \in Proc : CallOK(p)
  BY <1>1 DEF CallOK, Inside, MapsAt
<1>3. SemOK
  <2>1. /\ OldSem.val[Id] = 1 /\ \A p \in Proc : OldSem.undo[p][Id] = 0
        /\ OldSem.state = "live" /\ NoSem.state = "none"
    BY Consts DEF OldSem, NoSem, NoUndo
  <2>2. SetOK(OldSem)
    BY <1>1, <2>1, Consts DEF SetOK, Under, Inside
  <2>3. \A j \in SemId : sem[j] = NoSem \/ (j = 1 /\ sem[j] = OldSem)
    BY DEF PInit
  <2> QED
    BY <1>1, <2>1, <2>2, <2>3, Consts DEF SemOK, LiveSems
<1>4. SegOK
  <2>1. \A s \in SegId : seg[s].state = "none" /\ seg[s].nat[Client] = 0
    BY Consts DEF PInit, NoSeg
  <2> QED
    BY <1>1, <2>1, Consts DEF SegOK, Active, Past
<1>5. DataOK
  <2>1. Holds(0) /\ printed = <<>>
    BY DEF PInit, Holds, Offset
  <2> QED
    BY <1>1, <2>1, Consts DEF DataOK, Before
<1> QED
  BY <1>2, <1>3, <1>4, <1>5, ProgInit DEF SafeInv

\* What the programs keep for themselves.
Own(p) == <<at[p], verb[p], initialized[p], semid[p], obj[p], arg[p], i[p], znak[p]>>

\* A step of one program does not touch what the other keeps.
LEMMA OwnSame ==
  ASSUME ProgInv, NEW p \in Proc, NEW q \in Proc, p # q, Run(p) \/ PKill(p)
  PROVE  UNCHANGED Own(q)
<1>0. /\ at \in [Proc -> Places] /\ verb \in [Proc -> BOOLEAN] /\ initialized \in [Proc -> BOOLEAN]
      /\ semid \in [Proc -> SemId \cup {-1}] /\ i \in [Proc -> 0 .. Size] /\ znak \in [Proc -> 0 .. Star]
      /\ obj \in [Proc -> [Slot -> SlotType]]
      /\ arg \in [Proc -> [id : Slot, key : AnyKey, size : Sizes \cup {0}]]
  BY DEF ProgInv, PTypeOK, TypeInv, TypeOK, Places
<1>1. ASSUME PSetVerbose(p) \/ PInitSem(p) \/ PCreate(p) \/ PShmat(p) PROVE UNCHANGED Own(q)
  BY <1>0, <1>1 DEF PSetVerbose, SetVerbose, PInitSem, InitSemctl, PCreate, CreateShmget,
     PShmat, CreateShmat, CreateShmatFails, Goto, Data, Own
<1>2. ASSUME PLock(p) \/ PUnlock(p) \/ PReturn(p) \/ PKill(p) PROVE UNCHANGED Own(q)
  BY <1>0, <1>2 DEF PLock, Lock, PUnlock, Unlock, PReturn, PKill, Exit, Goto, Data, Own
<1>3. ASSUME PInitLib(p) PROVE UNCHANGED Own(q)
  BY <1>0, <1>3 DEF PInitLib, InitSemget, Goto, Data, Own
<1>4. ASSUME p = Server, ServerReadLocks \/ ServerReadUnlocks PROVE UNCHANGED Own(q)
  BY <1>0, <1>4 DEF ServerReadLocks, Lock, ServerReadUnlocks, Unlock, Goto, Data, Own
<1>5. ASSUME p = Server, ServerWrites \/ ServerTerminates \/ ServerReads PROVE UNCHANGED Own(q)
  BY <1>0, <1>5 DEF ServerWrites, ServerTerminates, ServerReads, Goto, Own, vars, libvars
<1>6. ASSUME p = Server, ServerDestroys PROVE UNCHANGED Own(q)
  BY <1>0, <1>6 DEF ServerDestroys, Destroy, Goto, Data, Own
<1>7. ASSUME p = Client, ClientReads PROVE UNCHANGED Own(q)
  <2>1. /\ UNCHANGED vars /\ \E z : znak' = [znak EXCEPT ![Client] = z]
        /\ UNCHANGED at \/ at' = [at EXCEPT ![Client] = "star"]
        /\ UNCHANGED i \/ \E n : i' = [i EXCEPT ![Client] = n]
    BY <1>7, Zenon DEF ClientReads
  <2> QED
    BY <1>0, <1>7, <2>1 DEF Own, vars, libvars
<1>8. ASSUME p = Client, ClientStars \/ ClientDetaches PROVE UNCHANGED Own(q)
  BY <1>0, <1>8 DEF ClientStars, ClientDetaches, Detach, Goto, Data, Own, vars, libvars
<1> QED
  BY <1>1, <1>2, <1>3, <1>4, <1>5, <1>6, <1>7, <1>8, Zenon DEF Run

-----------------------------------------------------------------------------
\* What a step of p does to the semaphore sets and to its place in or out of the critical section.
SemKept(p) == UNCHANGED sem /\ Under(p)' = Under(p)
SemMade(p) == /\ LiveSems = {} /\ \E j \in FreshSem : sem' = [sem EXCEPT ![j].state = "live"]
              /\ at[p] = "init" /\ Under(p)' = 0
SemSet(p) == /\ p = Server /\ at[p] = "init_sem" /\ SemLive(semid[p])
             /\ sem' = [sem EXCEPT ![semid[p]] = SetAll(sem[semid[p]])]
             /\ Under(p)' = 0
SemTaken(p) == /\ SemLive(semid[p]) /\ sem[semid[p]].val[Id] > 0
               /\ sem' = [sem EXCEPT ![semid[p]] = SemOp(sem[semid[p]], p, Id, -1)]
               /\ Under(p) = 0 /\ Under(p)' = 1
SemGiven(p) == /\ SemLive(semid[p])
               /\ sem' = [sem EXCEPT ![semid[p]] = SemOp(sem[semid[p]], p, Id, 1)]
               /\ Under(p) = 1 /\ Under(p)' = 0
SemLeft(p) == /\ sem' = [j \in SemId |-> IF sem[j].state = "live" THEN SemExit(sem[j], p) ELSE sem[j]]
              /\ Under(p)' = 0

\* A place is reached by its own jump.
LEMMA Jump ==
  ASSUME ProgInv, NEW p \in Proc, NEW l, at' = [at EXCEPT ![p] = l]
  PROVE  at'[p] = l /\ \A q \in Proc : q # p => at'[q] = at[q]
BY DEF ProgInv, PTypeOK

\* Each step does one of these.
LEMMA SemForms ==
  ASSUME SafeInv, NEW p \in Proc, Run(p) \/ PKill(p)
  PROVE  SemKept(p) \/ SemMade(p) \/ SemSet(p) \/ SemTaken(p) \/ SemGiven(p) \/ SemLeft(p)
<1>0. ProgInv /\ CallOK(p)
  BY DEF SafeInv
<1>1. ASSUME PSetVerbose(p) \/ PCreate(p) \/ PShmat(p) PROVE SemKept(p)
  <2>1. /\ UNCHANGED sem /\ at[p] \in {"set_verbose", "create", "shmat"}
        /\ \E l \in {"init", "shmat", "lock", "return"} : at' = [at EXCEPT ![p] = l]
    BY <1>1, Zenon DEF PSetVerbose, SetVerbose, PCreate, CreateShmget, PShmat, CreateShmat, CreateShmatFails, Goto
  <2> QED
    BY <1>0, <2>1, Jump DEF SemKept, Under, Inside
<1>2. ASSUME PInitLib(p) PROVE SemKept(p) \/ SemMade(p)
  <2>1. /\ at[p] = "init" /\ \E l \in {"return", "init_sem", "create"} : at' = [at EXCEPT ![p] = l]
        /\ \/ UNCHANGED sem
           \/ LiveSems = {} /\ \E j \in FreshSem : sem' = [sem EXCEPT ![j].state = "live"]
    BY <1>2, Zenon DEF PInitLib, InitSemget, Goto
  <2> QED
    BY <1>0, <2>1, Jump DEF SemKept, SemMade, Under, Inside
<1>3. ASSUME PInitSem(p) PROVE SemSet(p)
  <2>1. /\ at[p] = "init_sem" /\ \E l \in {"return", "create"} : at' = [at EXCEPT ![p] = l]
    BY <1>3, Zenon DEF PInitSem, Goto
  <2>2. p = Server /\ SemLive(semid[p])
    BY <1>0, <2>1, Zenon DEF CallOK, ProgramsAssumption
  <2>3. sem' = [sem EXCEPT ![semid[p]] = SetAll(sem[semid[p]])]
    BY <1>3, <2>2, Zenon DEF PInitSem, InitSemctl
  <2> QED
    BY <1>0, <2>1, <2>2, <2>3, Jump DEF SemSet, Under, Inside
<1>4. ASSUME Lock(p, Id), at[p] \in {"lock", "rl_lock"},
             \E l \in {"write", "read", "rl_read"} : at' = [at EXCEPT ![p] = l]
      PROVE  SemTaken(p)
  <2>1. SemLive(semid[p])
    BY <1>0, <1>4 DEF CallOK
  <2>2. /\ sem[semid[p]].val[Id] > 0
        /\ sem' = [sem EXCEPT ![semid[p]] = SemOp(sem[semid[p]], p, Id, -1)]
    BY <1>4, <2>1, Zenon DEF Lock
  <2> QED
    BY <1>0, <1>4, <2>1, <2>2, Jump DEF SemTaken, Under, Inside
<1>5. ASSUME Unlock(p, Id), at[p] \in {"unlock", "rl_unlock"},
             \E l \in {"rl_lock", "return", "destroy"} : at' = [at EXCEPT ![p] = l]
      PROVE  SemGiven(p)
  <2>1. SemLive(semid[p])
    BY <1>0, <1>5 DEF CallOK, Inside
  <2>2. sem' = [sem EXCEPT ![semid[p]] = SemOp(sem[semid[p]], p, Id, 1)]
    BY <1>5, <2>1, Zenon DEF Unlock
  <2> QED
    BY <1>0, <1>5, <2>1, <2>2, Jump DEF SemGiven, Under, Inside
<1>6. ASSUME PLock(p) PROVE SemTaken(p)
  <2>1. Lock(p, Id) /\ at[p] = "lock" /\ \E l \in {"write", "read"} : at' = [at EXCEPT ![p] = l]
    BY <1>6, Zenon DEF PLock, Goto
  <2> QED
    BY <1>4, <2>1
<1>7. ASSUME PUnlock(p) PROVE SemGiven(p)
  <2>1. Unlock(p, Id) /\ at[p] = "unlock" /\ \E l \in {"rl_lock", "return"} : at' = [at EXCEPT ![p] = l]
    BY <1>7, Zenon DEF PUnlock, Goto
  <2> QED
    BY <1>5, <2>1
<1>8. ASSUME PReturn(p) \/ PKill(p) PROVE SemLeft(p)
  <2>1. Exit(p) /\ \E l \in {"returned", "killed"} : at' = [at EXCEPT ![p] = l]
    BY <1>8, Zenon DEF PReturn, PKill, Goto
  <2>2. sem' = [j \in SemId |-> IF sem[j].state = "live" THEN SemExit(sem[j], p) ELSE sem[j]]
    BY <2>1, Zenon DEF Exit
  <2> QED
    BY <1>0, <2>1, <2>2, Jump DEF SemLeft, Under, Inside
<1>9. ASSUME p = Server, ServerReadLocks PROVE SemTaken(p)
  <2>1. Lock(p, Id) /\ at[p] = "rl_lock" /\ at' = [at EXCEPT ![p] = "rl_read"]
    BY <1>9, Zenon DEF ServerReadLocks, Goto
  <2> QED
    BY <1>4, <2>1
<1>10. ASSUME p = Server, ServerReadUnlocks PROVE SemGiven(p)
  <2>1. Unlock(p, Id) /\ at[p] = "rl_unlock" /\ \E l \in {"rl_lock", "destroy"} : at' = [at EXCEPT ![p] = l]
    BY <1>10, Zenon DEF ServerReadUnlocks, Goto
  <2> QED
    BY <1>5, <2>1
<1>11. ASSUME p = Server, ServerWrites \/ ServerTerminates \/ ServerReads \/ ServerDestroys PROVE SemKept(p)
  <2>1. CASE ServerWrites
    <3>1. UNCHANGED <<sem, at>>
      BY <2>1, Zenon DEF ServerWrites, vars
    <3> QED
      BY <3>1, Zenon DEF SemKept, Under
  <2>2. CASE ServerTerminates \/ ServerReads \/ ServerDestroys
    <3>1. /\ UNCHANGED sem
          /\ \/ at[p] \in {"write", "rl_read"} /\ \E l \in {"unlock", "rl_unlock"} : at' = [at EXCEPT ![p] = l]
             \/ at[p] = "destroy" /\ at' = [at EXCEPT ![p] = "return"]
      BY <1>11, <2>2, Zenon DEF ServerTerminates, ServerReads, ServerDestroys, Destroy, Goto, vars
    <3> QED
      BY <1>0, <3>1, Jump DEF SemKept, Under, Inside
  <2> QED
    BY <1>11, <2>1, <2>2
<1>12. ASSUME p = Client, ClientReads \/ ClientStars \/ ClientDetaches PROVE SemKept(p)
  <2>1. /\ UNCHANGED sem /\ at[p] \in {"read", "star", "detach"}
        /\ UNCHANGED at \/ \E l \in {"star", "detach", "unlock"} : at' = [at EXCEPT ![p] = l]
    BY <1>12, Zenon DEF ClientReads, ClientStars, ClientDetaches, Detach, Goto, vars
  <2> QED
    BY <1>0, <2>1, Jump DEF SemKept, Under, Inside
<1> QED
  BY <1>1, <1>2, <1>3, <1>6, <1>7, <1>8, <1>9, <1>10, <1>11, <1>12, Zenon DEF Run

\* A live semaphore set stays live, and a step makes at most the one set there is.
LEMMA LiveStays ==
  ASSUME SafeInv, NEW p \in Proc, Run(p) \/ PKill(p)
  PROVE  \A j \in SemId : SemLive(j) => SemLive(j)'
<1>1. sem \in [SemId -> SemType]
  BY DEF SafeInv, ProgInv, TypeInv, TypeOK
<1>2. ASSUME NEW j \in SemId, SemLive(j) PROVE sem'[j].state = "live"
  <2>1. sem[j].state = "live"
    BY <1>2 DEF SemLive
  <2>2. CASE SemMade(p)
    BY <1>1, <1>2, <2>1, <2>2 DEF SemMade, FreshSem, SemType
  <2>3. CASE SemSet(p)
    BY <1>1, <1>2, <2>1, <2>3 DEF SemSet, SetAll
  <2>4. CASE SemTaken(p) \/ SemGiven(p)
    BY <1>1, <1>2, <2>1, <2>4 DEF SemTaken, SemGiven, SemOp
  <2>5. CASE SemLeft(p)
    BY <1>2, <2>1, <2>5 DEF SemLeft, SemExit
  <2>6. CASE SemKept(p)
    BY <2>1, <2>6 DEF SemKept
  <2> QED
    BY <2>2, <2>3, <2>4, <2>5, <2>6, SemForms
<1> QED
  BY <1>2 DEF SemLive

\* Who is inside holds the semaphore, and only one program is inside.
LEMMA SemStep ==
  ASSUME ServerFirst, SafeInv, NEW p \in Proc, Run(p) \/ PKill(p)
  PROVE  SemOK'
<1>0. /\ sem \in [SemId -> SemType] /\ SemOK /\ ProgInv
      /\ \A r \in Proc : CallOK(r)
  BY DEF SafeInv, ProgInv, TypeInv, TypeOK
<1>1. \A q \in Proc : q # p => Under(q)' = Under(q)
  BY <1>0, OwnSame DEF Own, Under
<1>2. \A q \in Proc : Under(q) \in {0, 1} /\ Under(q)' \in {0, 1}
  BY DEF Under
<1>3. at'[Client] = "init" => at[Client] = "init" \/ LiveSems # {}
  <2> SUFFICES ASSUME at'[Client] = "init", at[Client] # "init" PROVE LiveSems # {}
    OBVIOUS
  <2>1. p = Client
    BY <1>0, OwnSame, Consts DEF Own
  <2>2. MayStart(Client)
    <3>1. \/ PSetVerbose(p)
          \/ \E l \in Places \ {"init"} : at' = [at EXCEPT ![p] = l]
          \/ UNCHANGED at
      <4>1. PSetVerbose(p) \/ \E l \in {"return", "init_sem", "create", "shmat", "lock", "write", "read", "rl_lock",
              "returned", "killed", "star", "detach", "unlock"} : at' = [at EXCEPT ![p] = l]
            \/ UNCHANGED at
        BY <2>1, Zenon DEF Run, PInitLib, PInitSem, PCreate, PShmat, PLock, PUnlock, PReturn, PKill,
           ClientReads, ClientStars, ClientDetaches, Goto, ProgramsAssumption
      <4> QED
        BY <4>1 DEF Places
    <3> QED
      BY <1>0, <2>1, <3>1, Jump DEF PSetVerbose
  <2>3. at[Server] \in Past
    BY <2>2 DEF MayStart, Past
  <2> QED
    BY <1>0, <2>3, Consts DEF CallOK, Past, Inside, SemLive, LiveSems
<1>4. at'[Client] = "init" => LiveSems' # {}
  <2>1. \A j \in LiveSems : j \in LiveSems'
    BY LiveStays DEF SemLive, LiveSems
  <2>2. CASE at[Client] = "init" \/ LiveSems # {}
    BY <1>0, <2>1, <2>2 DEF SemOK
  <2> QED
    BY <1>3, <2>2
<1>5. ASSUME NEW h \in SemId, SemLive(h), NEW m \in SemType, sem' = [sem EXCEPT ![h] = m], m.state = "live",
             \A q \in Proc : m.undo[q][Id] = Under(q)',
             m.val[Id] >= 0, m.val[Id] + Under(Server)' + Under(Client)' <= 1
      PROVE  SemOK'
  <2>1. h \in LiveSems /\ \A j \in LiveSems : j = h
    BY <1>0, <1>5 DEF SemLive, LiveSems, SemOK
  <2>2. LiveSems' = LiveSems
    BY <1>0, <1>5, <2>1 DEF LiveSems
  <2>3. \A j \in SemId : j # h => sem'[j] = sem[j]
    BY <1>0, <1>5
  <2>4. sem'[h] = m
    BY <1>0, <1>5
  <2>5. SetOK(sem[h])'
    BY <1>5, <2>4 DEF SetOK
  <2> QED
    BY <1>0, <1>4, <1>5, <2>1, <2>2, <2>3, <2>4, <2>5 DEF SemOK
<1>6. CASE SemKept(p)
  <2>1. sem' = sem /\ LiveSems' = LiveSems /\ \A q \in Proc : Under(q)' = Under(q)
    BY <1>1, <1>6 DEF SemKept, LiveSems
  <2>2. \A j \in LiveSems : SetOK(sem[j])'
    BY <1>0, <2>1, Consts DEF SemOK, SetOK
  <2> QED
    BY <1>0, <1>4, <2>1, <2>2 DEF SemOK
<1>7. CASE SemMade(p)
  <2>1. PICK h \in FreshSem : sem' = [sem EXCEPT ![h].state = "live"]
    BY <1>7 DEF SemMade
  <2>2. h \in SemId /\ sem[h] = NoSem /\ \A j \in SemId : sem[j].state # "live"
    BY <1>0, <1>7 DEF SemMade, FreshSem, SemOK, LiveSems
  <2>3. /\ sem'[h].state = "live" /\ sem'[h].val[Id] = 0 /\ \A q \in Proc : sem'[h].undo[q][Id] = 0
        /\ \A j \in SemId : j # h => sem'[j] = sem[j]
    BY <1>0, <2>1, <2>2, Consts DEF NoSem, NoUndo
  <2>4. \A q \in Proc : Under(q)' = 0
    <3>1. ASSUME NEW q \in Proc, q # p PROVE Under(q) = 0
      BY <1>0, <2>2 DEF CallOK, SemLive, Under
    <3> QED
      BY <1>1, <1>7, <3>1 DEF SemMade
  <2>5. LiveSems' = {h}
    BY <2>2, <2>3 DEF LiveSems
  <2>6. SetOK(sem[h])'
    BY <2>3, <2>4, Consts DEF SetOK
  <2> QED
    BY <1>0, <1>4, <2>2, <2>3, <2>5, <2>6 DEF SemOK
<1>8. CASE SemSet(p)
  <2> DEFINE h == semid[p]
             m == SetAll(sem[h])
  <2>1. h \in SemId /\ SemLive(h) /\ sem' = [sem EXCEPT ![h] = m] /\ p = Server /\ at[Server] = "init_sem"
    BY <1>8 DEF SemSet, SemLive
  <2>2. m \in SemType /\ m.state = "live" /\ m.val[Id] = 1 /\ \A q \in Proc : m.undo[q][Id] = 0
    BY <1>0, <2>1, SemOps, Consts DEF SetAll, NoUndo, SemLive
  <2>3. Under(Client) = 0
    <3>1. at[Client] \notin Active
      BY <2>1 DEF SafeInv, SegOK, Past
    <3>2. CallOK(Client)
      BY <1>0, Consts
    <3> QED
      BY <3>1, <3>2, Consts DEF CallOK, Active, Inside, Under
  <2>4. \A q \in Proc : Under(q)' = 0
    BY <1>1, <1>8, <2>1, <2>3 DEF SemSet
  <2> HIDE DEF h, m
  <2>5. \A q \in Proc : m.undo[q][Id] = Under(q)'
    BY <2>2, <2>4
  <2>6. m.val[Id] >= 0 /\ m.val[Id] + Under(Server)' + Under(Client)' <= 1
    BY <2>2, <2>4, Consts
  <2> QED
    BY <1>5, <2>1, <2>2, <2>5, <2>6
<1>9. ASSUME NEW d \in {1, -1}, SemLive(semid[p]), Under(p)' = Under(p) - d, d = -1 => sem[semid[p]].val[Id] > 0,
             sem' = [sem EXCEPT ![semid[p]] = SemOp(sem[semid[p]], p, Id, d)]
      PROVE  SemOK'
  <2> DEFINE h == semid[p]
             m == SemOp(sem[h], p, Id, d)
  <2>1. h \in SemId /\ SemLive(h) /\ SetOK(sem[h]) /\ sem[h] \in SemType
    BY <1>0, <1>9 DEF SemOK, SemLive, LiveSems
  <2>2. m \in SemType /\ m.state = "live"
    BY <1>9, <2>1, SemOps, Consts DEF SemOp, SemLive
  <2>3. /\ m.val[Id] = sem[h].val[Id] + d /\ m.undo[p][Id] = sem[h].undo[p][Id] - d
        /\ \A q \in Proc : q # p => m.undo[q][Id] = sem[h].undo[q][Id]
    BY <2>1, Consts DEF SemOp, SemType
  <2>4. sem[h].val[Id] \in Int
    BY <2>1, Consts DEF SemType
  <2> HIDE DEF h, m
  <2>5. \A q \in Proc : m.undo[q][Id] = Under(q)'
    BY <1>1, <1>9, <2>1, <2>3 DEF SetOK
  <2>6. m.val[Id] >= 0 /\ m.val[Id] + Under(Server)' + Under(Client)' <= 1
    <3>1. sem[h].val[Id] >= 0 /\ sem[h].val[Id] + Under(Server) + Under(Client) <= 1
      BY <2>1 DEF SetOK
    <3>2. d = -1 => sem[h].val[Id] > 0
      BY <1>9 DEF h
    <3> QED
      BY <1>1, <1>2, <1>9, <2>3, <2>4, <3>1, <3>2, Consts
  <2>7. sem' = [sem EXCEPT ![h] = m]
    BY <1>9 DEF h, m
  <2> QED
    BY <1>5, <2>1, <2>2, <2>5, <2>6, <2>7
<1>10. CASE SemTaken(p) \/ SemGiven(p)
  <2>1. CASE SemTaken(p)
    BY <1>9, <2>1 DEF SemTaken
  <2>2. CASE SemGiven(p)
    BY <1>9, <2>2 DEF SemGiven
  <2> QED
    BY <1>10, <2>1, <2>2
<1>11. CASE SemLeft(p)
  <2>1. \A j \in SemId : sem'[j] = IF sem[j].state = "live" THEN SemExit(sem[j], p) ELSE sem[j]
    BY <1>11 DEF SemLeft
  <2>2. LiveSems' = LiveSems /\ \A j \in SemId : sem'[j].state = sem[j].state
    <3>1. \A m : SemExit(m, p).state = m.state
      BY DEF SemExit
    <3>2. \A j \in SemId : sem'[j].state = sem[j].state
      BY <2>1, <3>1
    <3> QED
      BY <3>2, Zenon DEF LiveSems
  <2>3. ASSUME NEW j \in LiveSems PROVE SetOK(sem[j])'
    <3>1. SetOK(sem[j]) /\ sem[j] \in SemType /\ j \in SemId /\ sem[j].state = "live"
      BY <1>0 DEF SemOK, LiveSems
    <3>2. /\ sem[j].val[Id] \in Int /\ sem[j].undo[p][Id] = Under(p)
          /\ sem[j].val[Id] >= 0 /\ sem[j].val[Id] + Under(Server) + Under(Client) <= 1
      BY <3>1, Consts DEF SetOK, SemType
    <3>3. /\ sem'[j].val[Id] = AtLeast0(sem[j].val[Id] + sem[j].undo[p][Id])
          /\ sem'[j].undo[p][Id] = 0
          /\ \A q \in Proc : q # p => sem'[j].undo[q] = sem[j].undo[q]
      <4>1. sem'[j] = SemExit(sem[j], p)
        BY <2>1, <3>1
      <4>2. /\ sem'[j].val = [id \in Slot |-> AtLeast0(sem[j].val[id] + sem[j].undo[p][id])]
            /\ sem'[j].undo = [sem[j].undo EXCEPT ![p] = [id \in Slot |-> 0]]
        BY <4>1 DEF SemExit
      <4>3. sem[j].undo \in [Proc -> [Slot -> Int]]
        BY <3>1 DEF SemType
      <4> QED
        BY <4>2, <4>3, Consts
    <3>4. sem'[j].val[Id] = sem[j].val[Id] + Under(p)
      BY <1>2, <3>2, <3>3 DEF AtLeast0
    <3>5. \A q \in Proc : sem'[j].undo[q][Id] = Under(q)'
      BY <1>1, <1>11, <3>1, <3>3 DEF SemLeft, SetOK
    <3>6. sem'[j].val[Id] >= 0 /\ sem'[j].val[Id] + Under(Server)' + Under(Client)' <= 1
      <4>1. Under(p)' = 0
        BY <1>11 DEF SemLeft
      <4> QED
        BY <1>1, <1>2, <3>2, <3>4, <4>1, Consts
    <3> QED
      BY <3>5, <3>6 DEF SetOK
  <2>4. \A j \in SemId : sem'[j].state = "none" => sem'[j] = NoSem
    BY <1>0, <2>1, <2>2 DEF SemOK
  <2> QED
    BY <1>0, <1>4, <2>2, <2>3, <2>4 DEF SemOK
<1> QED
  BY <1>6, <1>7, <1>8, <1>10, <1>11, SemForms

-----------------------------------------------------------------------------
\* shmget gives both programs the first segment and their first slot.
LEMMA FirstSegment ==
  ASSUME SafeInv, NEW p \in Proc, PCreate(p)
  PROVE  /\ at[p] = "create" /\ at' = [at EXCEPT ![p] = "shmat"]
         /\ 1 \in SegId
         /\ arg' = [arg EXCEPT ![p] = [id |-> Id, key |-> TheKey, size |-> Size]]
         /\ obj' = [obj EXCEPT ![p][Id].shmid = 1]
         /\ \/ UNCHANGED seg
            \/ /\ p = Server
               /\ seg' = [seg EXCEPT ![1] = [state |-> "live", key |-> TheKey, size |-> Size,
                                             nat |-> [q \in Proc |-> 0]]]
         /\ p = Server => seg'[1].state = "live" /\ seg'[1].key = TheKey
<1>0. /\ CallOK(p) /\ CallOK(Client) /\ SegOK /\ seg \in [SegId -> SegType] /\ obj \in [Proc -> [Slot -> SlotType]]
      /\ at[p] = "create" /\ at' = [at EXCEPT ![p] = "shmat"]
  BY Consts DEF SafeInv, ProgInv, TypeInv, TypeOK, PCreate, Goto
<1>1. PICK id \in FirstFree(p) :
        /\ \/ \E s \in WithKey(TheKey) :
                obj' = [obj EXCEPT ![p][id].shmid = s] /\ UNCHANGED seg
           \/ /\ WithKey(TheKey) = {}
              /\ \E s \in FreshSeg :
                   /\ obj' = [obj EXCEPT ![p][id].shmid = s]
                   /\ seg' = [seg EXCEPT ![s] = [state |-> "live", key |-> TheKey, size |-> Size,
                                                 nat |-> [q \in Proc |-> 0]]]
        /\ arg' = [arg EXCEPT ![p] = [id |-> id, key |-> TheKey, size |-> Size]]
  BY Zenon DEF PCreate, CreateShmget
<1>2. id = Id
  <2>1. \A k \in Slot : ~Used(p, k)
    BY <1>0 DEF CallOK, Used, EmptyTable, FreeSlot
  <2> QED
    BY <2>1, Consts DEF FirstFree, Slot, Id
<1>3. \A s \in WithKey(TheKey) : s = 1 /\ p = Client
  <2> SUFFICES ASSUME NEW s \in SegId, seg[s].state = "live" PROVE s = 1 /\ p = Client
    BY DEF WithKey
  <2>1. s = 1
    BY <1>0 DEF SegOK
  <2>2. p # Server
    BY <1>0 DEF SegOK
  <2> QED
    BY <2>1, <2>2
<1>4. WithKey(TheKey) = {} => p = Server /\ \A s \in SegId : seg[s].state = "none"
  <2>1. p = Client => 1 \in WithKey(TheKey)
    BY <1>0, Consts DEF SegOK, Active, WithKey
  <2>2. p = Server => \A s \in SegId : seg[s].state = "none"
    BY <1>0 DEF SegOK
  <2> QED
    BY <2>1, <2>2
<1>5. (\A s \in SegId : seg[s].state = "none") => \A s \in FreshSeg : s = 1
  BY DEF FreshSeg, SegId
<1>6. CASE \E s \in WithKey(TheKey) : obj' = [obj EXCEPT ![p][id].shmid = s] /\ UNCHANGED seg
  <2>1. 1 \in SegId /\ obj' = [obj EXCEPT ![p][id].shmid = 1] /\ UNCHANGED seg /\ p = Client
    BY <1>3, <1>6 DEF WithKey
  <2> QED
    BY <1>0, <1>1, <1>2, <2>1
<1>7. CASE /\ WithKey(TheKey) = {}
           /\ \E s \in FreshSeg :
                   /\ obj' = [obj EXCEPT ![p][id].shmid = s]
                   /\ seg' = [seg EXCEPT ![s] = [state |-> "live", key |-> TheKey, size |-> Size,
                                                 nat |-> [q \in Proc |-> 0]]]
  <2>1. /\ 1 \in SegId /\ obj' = [obj EXCEPT ![p][id].shmid = 1] /\ p = Server
        /\ seg' = [seg EXCEPT ![1] = [state |-> "live", key |-> TheKey, size |-> Size, nat |-> [q \in Proc |-> 0]]]
    BY <1>4, <1>5, <1>7 DEF FreshSeg
  <2>2. seg'[1].state = "live" /\ seg'[1].key = TheKey
    BY <1>0, <2>1
  <2> QED
    BY <1>0, <1>1, <1>2, <2>1, <2>2
<1> QED
  BY <1>1, <1>6, <1>7

\* A program that moves has at its new place what it needs there.
LEMMA OwnStep ==
  ASSUME SafeInv, NEW p \in Proc, Run(p) \/ PKill(p)
  PROVE  CallOK(p)'
<1>0. /\ ProgInv /\ CallOK(p)
      /\ at \in [Proc -> Places] /\ verb \in [Proc -> BOOLEAN] /\ initialized \in [Proc -> BOOLEAN]
      /\ semid \in [Proc -> SemId \cup {-1}]
      /\ obj \in [Proc -> [Slot -> SlotType]]
      /\ arg \in [Proc -> [id : Slot, key : AnyKey, size : Sizes \cup {0}]]
  BY DEF SafeInv, ProgInv, PTypeOK, TypeInv, TypeOK, Places
<1>1. \A j : SemLive(j) => SemLive(j)'
  BY LiveStays DEF SemLive
<1>3. at'[p] \in {"return", "returned", "killed"} => CallOK(p)'
  BY DEF CallOK, Inside, MapsAt
<1>4. ASSUME \E l \in {"return", "returned", "killed"} : at' = [at EXCEPT ![p] = l] PROVE CallOK(p)'
  BY <1>0, <1>3, <1>4, Jump
<1>5. CASE PSetVerbose(p)
  <2>1. at' = [at EXCEPT ![p] = "init"] /\ verb' = [verb EXCEPT ![p] = TRUE]
    BY <1>5 DEF PSetVerbose, SetVerbose, Goto
  <2>2. at'[p] = "init" /\ verb'[p]
    BY <1>0, <2>1
  <2> QED
    BY <2>2 DEF CallOK, Inside, MapsAt
<1>6. CASE PInitLib(p)
  <2>1. CASE semid'[p] = -1
    <3>1. at' = [at EXCEPT ![p] = "return"]
      BY <1>6, <2>1 DEF PInitLib, Goto
    <3> QED
      BY <1>4, <3>1
  <2>2. CASE semid'[p] # -1
    <3>1. /\ at[p] = "init" /\ at' = [at EXCEPT ![p] = IF p = Server THEN "init_sem" ELSE "create"]
          /\ obj' = [obj EXCEPT ![p] = EmptyTable]
      BY <1>6, <2>2, Zenon DEF PInitLib, InitSemget, Goto
    <3>2. p # Server => initialized' = [initialized EXCEPT ![p] = TRUE]
      BY <1>6, <2>2, Zenon DEF PInitLib, InitSemget
    <3>3. SemLive(semid[p])'
      <4>1. CASE \E j \in LiveSems : semid' = [semid EXCEPT ![p] = j] /\ UNCHANGED sem
        BY <1>0, <4>1 DEF LiveSems, SemLive
      <4>2. CASE \E j \in FreshSem : semid' = [semid EXCEPT ![p] = j] /\ sem' = [sem EXCEPT ![j].state = "live"]
        <5>1. PICK j \in FreshSem : semid' = [semid EXCEPT ![p] = j] /\ sem' = [sem EXCEPT ![j].state = "live"]
          BY <4>2
        <5>2. j \in SemId /\ sem \in [SemId -> SemType]
          BY DEF FreshSem, SafeInv, ProgInv, TypeInv, TypeOK
        <5>3. sem'[j].state = "live" /\ semid'[p] = j
          BY <1>0, <5>1, <5>2 DEF SemType
        <5> QED
          BY <5>2, <5>3 DEF SemLive
      <4>3. CASE semid' = [semid EXCEPT ![p] = -1]
        BY <1>0, <2>2, <4>3
      <4> QED
        BY <1>6, <4>1, <4>2, <4>3, Zenon DEF PInitLib, InitSemget
    <3>4. /\ at'[p] = IF p = Server THEN "init_sem" ELSE "create"
          /\ obj'[p] = EmptyTable
          /\ p # Server => initialized'[p]
      BY <1>0, <3>1, <3>2
    <3> QED
      BY <3>3, <3>4, Consts DEF CallOK, Inside, MapsAt
  <2> QED
    BY <2>1, <2>2
<1>7. CASE PInitSem(p)
  <2>1. /\ at[p] = "init_sem" /\ at' = [at EXCEPT ![p] = IF initialized'[p] THEN "create" ELSE "return"]
        /\ UNCHANGED <<obj, semid>>
    BY <1>7, Zenon DEF PInitSem, InitSemctl, Goto
  <2>2. SemLive(semid[p])' /\ obj[p] = EmptyTable /\ p = Server
    BY <1>0, <1>1, <2>1 DEF CallOK, SemLive
  <2>3. CASE initialized'[p]
    <3>1. at'[p] = "create" /\ obj'[p] = EmptyTable
      BY <1>0, <2>1, <2>2, <2>3
    <3> QED
      BY <2>2, <2>3, <3>1 DEF CallOK, Inside, MapsAt
  <2>4. CASE ~initialized'[p]
    BY <1>4, <2>1, <2>4
  <2> QED
    BY <2>3, <2>4
<1>8. CASE PCreate(p)
  <2>1. UNCHANGED <<initialized, semid>>
    BY <1>8, Zenon DEF PCreate, CreateShmget
  <2>2. /\ at[p] = "create" /\ at'[p] = "shmat" /\ initialized'[p] = initialized[p] /\ semid' = semid
        /\ arg'[p] = [id |-> Id, key |-> TheKey, size |-> Size] /\ obj'[p][Id].shmid = 1
    BY <1>0, <1>8, <2>1, FirstSegment, Consts DEF SlotType
  <2>3. SemLive(semid[p])' /\ initialized[p]
    BY <1>0, <1>1, <2>2 DEF CallOK, SemLive
  <2> QED
    BY <2>2, <2>3 DEF CallOK, Inside, MapsAt
<1>9. CASE PShmat(p)
  <2>1. CASE CreateShmatFails(p) /\ Goto(p, "shmat", "return")
    BY <1>4, <2>1 DEF Goto
  <2>2. CASE CreateShmat(p) /\ Goto(p, "shmat", "lock")
    <3>1. /\ at[p] = "shmat" /\ at' = [at EXCEPT ![p] = "lock"] /\ UNCHANGED <<initialized, semid>>
          /\ obj' = [obj EXCEPT ![p][arg[p].id] = [shmid |-> obj[p][arg[p].id].shmid, att |-> TRUE,
                                                   key |-> arg[p].key, size |-> arg[p].size]]
      BY <2>2, Zenon DEF CreateShmat, Goto
    <3>2. /\ arg[p].id = Id /\ arg[p].size = Size /\ obj[p][Id].shmid = 1 /\ initialized[p]
          /\ SemLive(semid[p])'
      BY <1>0, <1>1, <3>1 DEF CallOK, SemLive
    <3>3. obj'[p][Id] = [shmid |-> 1, att |-> TRUE, key |-> arg[p].key, size |-> Size]
      BY <1>0, <3>1, <3>2, Consts
    <3>4. at'[p] = "lock" /\ initialized'[p] /\ obj'[p][Id].shmid = 1 /\ obj'[p][Id].att /\ obj'[p][Id].size = Size
      BY <1>0, <3>1, <3>2, <3>3
    <3> QED
      BY <3>2, <3>4 DEF CallOK, Inside, MapsAt
  <2> QED
    BY <1>9, <2>1, <2>2 DEF PShmat
\* A step that leaves the table alone and goes where it needs no more than it has.
<1>10. ASSUME UNCHANGED <<initialized, semid, obj>>,
              \/ at[p] = "lock" /\ at' = [at EXCEPT ![p] = IF p = Server THEN "write" ELSE "read"]
              \/ /\ p = Server
                 /\ \/ at[p] = "write" /\ at' = [at EXCEPT ![p] = "unlock"]
                    \/ at[p] = "unlock" /\ at' = [at EXCEPT ![p] = "rl_lock"]
                    \/ at[p] = "rl_lock" /\ at' = [at EXCEPT ![p] = "rl_read"]
                    \/ at[p] = "rl_read" /\ at' = [at EXCEPT ![p] = "rl_unlock"]
                    \/ at[p] = "rl_unlock" /\ at' = [at EXCEPT ![p] = "rl_lock"]
                    \/ at[p] = "rl_unlock" /\ at' = [at EXCEPT ![p] = "destroy"]
              \/ p = Client /\ at[p] = "read" /\ at' = [at EXCEPT ![p] = "star"]
              \/ p = Client /\ at[p] = "star" /\ at' = [at EXCEPT ![p] = "detach"]
       PROVE  CallOK(p)'
  <2> DEFINE has == /\ initialized[p] /\ SemLive(semid[p])
                    /\ obj[p][Id].shmid = 1 /\ obj[p][Id].att /\ obj[p][Id].size = Size
  <2>1. has
    BY <1>0, <1>10 DEF CallOK, Inside, MapsAt
  <2>2. has'
    BY <1>1, <1>10, <2>1 DEF SemLive
  <2>3. at'[p] \in IF p = Server THEN {"write", "unlock", "rl_lock", "rl_read", "rl_unlock", "destroy"}
                                 ELSE {"read", "star", "detach"}
    BY <1>0, <1>10, Jump, Consts
  <2> QED
    BY <2>2, <2>3, Consts DEF CallOK
<1>11. CASE PLock(p)
  BY <1>10, <1>11, Zenon DEF PLock, Lock, Goto
<1>12. CASE PUnlock(p)
  <2>1. UNCHANGED <<initialized, semid, obj>>
    BY <1>12, Zenon DEF PUnlock, Unlock
  <2>2. at[p] = "unlock" /\ at' = [at EXCEPT ![p] = IF p = Server THEN "rl_lock" ELSE "return"]
    BY <1>12, Zenon DEF PUnlock, Goto
  <2> QED
    BY <1>4, <1>10, <2>1, <2>2
<1>13. CASE PReturn(p) \/ PKill(p)
  BY <1>4, <1>13 DEF PReturn, PKill, Goto
<1>14. CASE p = Server /\ (ServerReadLocks \/ ServerTerminates \/ ServerReads)
  <2>1. UNCHANGED <<initialized, semid, obj>>
    BY <1>14, Zenon DEF ServerTerminates, ServerReadLocks, Lock, ServerReads, vars, libvars
  <2>2. \/ at[p] = "write" /\ at' = [at EXCEPT ![p] = "unlock"]
        \/ at[p] = "rl_lock" /\ at' = [at EXCEPT ![p] = "rl_read"]
        \/ at[p] = "rl_read" /\ at' = [at EXCEPT ![p] = "rl_unlock"]
    BY <1>14, Zenon DEF ServerTerminates, ServerReadLocks, ServerReads, Goto
  <2> QED
    BY <1>10, <1>14, <2>1, <2>2
<1>15. CASE p = Server /\ ServerReadUnlocks
  <2>1. UNCHANGED <<initialized, semid, obj>>
    BY <1>15, Zenon DEF ServerReadUnlocks, Unlock
  <2>2. /\ at[p] = "rl_unlock"
        /\ at' = [at EXCEPT ![p] = "rl_lock"] \/ at' = [at EXCEPT ![p] = "destroy"]
    BY <1>15, Zenon DEF ServerReadUnlocks, Goto
  <2> QED
    BY <1>10, <1>15, <2>1, <2>2
<1>a. CASE p = Server /\ ServerWrites
  <2>1. UNCHANGED <<at, vars>>
    BY <1>a, Zenon DEF ServerWrites
  <2> QED
    BY <1>0, <1>1, <2>1, Zenon DEF CallOK, SemLive, vars, libvars
<1>17. CASE p = Server /\ ServerDestroys
  BY <1>4, <1>17 DEF ServerDestroys, Goto
<1>18. CASE p = Client /\ (ClientReads \/ ClientStars)
  <2>1. UNCHANGED vars
    BY <1>18, Zenon DEF ClientReads, ClientStars
  <2>2. \/ UNCHANGED at
        \/ at[p] = "read" /\ at' = [at EXCEPT ![p] = "star"]
        \/ at[p] = "star" /\ at' = [at EXCEPT ![p] = "detach"]
    BY <1>18, Zenon DEF ClientReads, ClientStars, Goto
  <2>3. CASE UNCHANGED at
    BY <1>0, <2>1, <2>3, Zenon DEF CallOK, SemLive, vars, libvars
  <2> QED
    BY <1>10, <1>18, <2>1, <2>2, <2>3 DEF vars, libvars
<1>19. CASE p = Client /\ ClientDetaches
  <2>1. /\ at[p] = "detach" /\ at' = [at EXCEPT ![p] = "unlock"] /\ UNCHANGED <<initialized, semid>>
    BY <1>19, Zenon DEF ClientDetaches, Detach, Goto
  <2>2. at'[p] = "unlock" /\ initialized'[p] /\ SemLive(semid[p])'
    BY <1>0, <1>1, <2>1 DEF CallOK, Inside, SemLive
  <2> QED
    BY <1>19, <2>2, Consts DEF CallOK, MapsAt
<1> QED
  BY <1>5, <1>6, <1>7, <1>8, <1>9, <1>11, <1>12, <1>13, <1>14, <1>15, <1>a, <1>17, <1>18, <1>19, Zenon DEF Run

\* Each program has at each place what it needs there.
LEMMA CallStep ==
  ASSUME SafeInv, NEW p \in Proc, Run(p) \/ PKill(p), NEW q \in Proc
  PROVE  CallOK(q)'
<1>1. CASE q # p
  <2>1. ProgInv /\ CallOK(q)
    BY DEF SafeInv
  <2>2. UNCHANGED Own(q)
    BY <1>1, <2>1, OwnSame
  <2>3. SemLive(semid[q]) => SemLive(semid[q])'
    BY <2>2, LiveStays DEF Own, SemLive
  <2> QED
    BY <2>1, <2>2, <2>3 DEF CallOK, Own
<1>2. CASE q = p
  BY <1>2, OwnStep
<1> QED
  BY <1>1, <1>2

-----------------------------------------------------------------------------
\* What an exit of p leaves of a segment.
Left(g, p) == Reaped([g EXCEPT !.nat[p] = 0])

\* What the kernel does to a segment: the mappings it leaves.
LEMMA KernelMaps ==
  ASSUME NEW g \in SegType, NEW p \in Proc
  PROVE  /\ ShmAt(g, p).nat[p] = g.nat[p] + 1
         /\ ShmDt(g, p).nat[p] = g.nat[p] - 1
         /\ Left(g, p).nat[p] = 0
         /\ \A q \in Proc : q # p => /\ ShmAt(g, p).nat[q] = g.nat[q]
                                     /\ ShmDt(g, p).nat[q] = g.nat[q]
                                     /\ Left(g, p).nat[q] = g.nat[q]
         /\ \A q \in Proc : ShmRmid(g).nat[q] = g.nat[q]
<1>1. \A h \in SegType, q \in Proc : Reaped(h).nat[q] = h.nat[q]
  BY DEF Reaped, Unmapped, NoSeg, SegType
<1> DEFINE a == [g EXCEPT !.nat[p] = @ + 1]
           b == [g EXCEPT !.nat[p] = @ - 1]
           c == [g EXCEPT !.nat[p] = 0]
           d == [g EXCEPT !.state = "dest", !.key = Private]
<1>2. /\ a.nat[p] = g.nat[p] + 1 /\ \A q \in Proc : q # p => a.nat[q] = g.nat[q]
      /\ b \in SegType /\ b.nat[p] = g.nat[p] - 1 /\ \A q \in Proc : q # p => b.nat[q] = g.nat[q]
  BY DEF SegType
<1>3. c \in SegType /\ c.nat[p] = 0 /\ \A q \in Proc : q # p => c.nat[q] = g.nat[q]
  BY DEF SegType
<1>4. d \in SegType /\ d.nat = g.nat
  BY DEF SegType
<1>5. /\ ShmAt(g, p) = a /\ ShmDt(g, p) = Reaped(b) /\ Left(g, p) = Reaped(c)
      /\ ShmRmid(g) = IF Exists(g) THEN Reaped(d) ELSE g
  BY DEF ShmAt, ShmDt, ShmRmid, Left
<1> HIDE DEF a, b, c, d
<1> QED
  BY <1>1, <1>2, <1>3, <1>4, <1>5

\* What the kernel does to a segment: a segment never made stays so, and only shmctl takes a live one.
LEMMA KernelStates ==
  ASSUME NEW g \in SegType, NEW p \in Proc
  PROVE  /\ g.state = "none" => /\ ShmAt(g, p).state = "none" /\ ShmDt(g, p).state = "none"
                                /\ Left(g, p).state = "none" /\ ShmRmid(g).state = "none"
         /\ g.state = "live" => /\ ShmAt(g, p).state = "live" /\ ShmAt(g, p).key = g.key
                                /\ ShmDt(g, p).state = "live" /\ ShmDt(g, p).key = g.key
                                /\ Left(g, p).state = "live" /\ Left(g, p).key = g.key
<1>1. \A h \in SegType : h.state # "dest" => Reaped(h) = h
  BY DEF Reaped
<1> DEFINE a == [g EXCEPT !.nat[p] = @ + 1]
           b == [g EXCEPT !.nat[p] = @ - 1]
           c == [g EXCEPT !.nat[p] = 0]
<1>2. a.state = g.state /\ a.key = g.key /\ b \in SegType /\ b.state = g.state /\ b.key = g.key
  BY DEF SegType
<1>3. c \in SegType /\ c.state = g.state /\ c.key = g.key
  BY DEF SegType
<1>4. ShmAt(g, p) = a /\ ShmDt(g, p) = Reaped(b) /\ Left(g, p) = Reaped(c)
  BY DEF ShmAt, ShmDt, Left
<1> HIDE DEF a, b, c
<1>5. g.state = "none" => ShmRmid(g) = g
  BY DEF ShmRmid, Exists
<1> QED
  BY <1>1, <1>2, <1>3, <1>4, <1>5

\* Which segment there is, for the steps that leave the segments and the client's mapping alone.
SegKept == \A s \in SegId : /\ seg'[s].nat[Client] = seg[s].nat[Client]
                            /\ seg[s].state = "none" => seg'[s].state = "none"

\* Two programs are never inside together.
LEMMA NotBothInside ==
  ASSUME SafeInv, at[Server] \in Inside
  PROVE  at[Client] \notin Inside
<1>1. CallOK(Server) /\ SemOK /\ sem \in [SemId -> SemType]
  BY Consts DEF SafeInv, ProgInv, TypeInv, TypeOK
<1>2. semid[Server] \in LiveSems
  BY <1>1 DEF CallOK, SemLive, LiveSems
<1> DEFINE m == sem[semid[Server]]
<1>3. SetOK(m) /\ m.val[Id] \in Int
  BY <1>1, <1>2, Consts DEF SemOK, LiveSems, SemType
<1> HIDE DEF m
<1>4. ~(Under(Server) = 1 /\ Under(Client) = 1)
  BY <1>3 DEF SetOK
<1> QED
  BY <1>4 DEF Under

\* Once the server has seen the star, the client has left the object.
LEMMA StarSeen ==
  ASSUME SafeInv, at[Server] = "rl_unlock", znak[Server] = Star
  PROVE  at[Client] \notin Active
<1>1. at[Client] \notin Unstarred
  BY DEF SafeInv, DataOK
<1>2. at[Client] \notin Inside
  BY NotBothInside DEF Inside
<1> QED
  BY <1>1, <1>2 DEF Active, Unstarred, Inside

\* The server makes the segment before the client starts and removes it after the client has left.
LEMMA ServerSegs ==
  ASSUME SafeInv, Run(Server) \/ PKill(Server)
  PROVE  SegOK'
<1>0. /\ ProgInv /\ CallOK(Server) /\ CallOK(Client) /\ SegOK /\ Server \in Proc /\ Client \in Proc /\ Server # Client
      /\ seg \in [SegId -> SegType] /\ obj \in [Proc -> [Slot -> SlotType]] /\ at'[Client] = at[Client]
  <2>1. ProgInv
    BY DEF SafeInv
  <2>2. at'[Client] = at[Client]
    BY <2>1, OwnSame, Consts DEF Own
  <2> QED
    BY <2>1, <2>2, Consts DEF SafeInv, ProgInv, TypeInv, TypeOK
<1>a. ASSUME NEW s \in SegId
      PROVE  /\ \A h \in {ShmAt(seg[s], Server), Left(seg[s], Server)} :
                  /\ h.nat[Client] = seg[s].nat[Client]
                  /\ seg[s].state = "none" => h.state = "none"
                  /\ seg[s].state = "live" => h.state = "live" /\ h.key = seg[s].key
             /\ \A h \in {ShmRmid(seg[s]), ShmRmid(ShmDt(seg[s], Server))} :
                  /\ h.nat[Client] = seg[s].nat[Client]
                  /\ seg[s].state = "none" => h.state = "none"
  <2>1. seg[s] \in SegType /\ ShmDt(seg[s], Server) \in SegType
    BY <1>0, SegOps
  <2> QED
    BY <2>1, KernelMaps, KernelStates, Consts
<1> DEFINE Early == {"set_verbose", "init", "init_sem", "create"}
<1>1. ASSUME SegKept, at'[Server] \notin Early, at[Client] \notin Active, at'[Server] \notin {"shmat", "lock"} \cup Past
      PROVE  SegOK'
  BY <1>0, <1>1 DEF SegOK, SegKept
<1>2. ASSUME UNCHANGED seg, at[Server] \in {"lock"} \cup Past, at'[Server] \in Past PROVE SegOK'
  BY <1>0, <1>2 DEF SegOK, Past
<1>3. ASSUME UNCHANGED seg, at[Server] \in Early \ {"create"}, at'[Server] \in Early \cup {"return"} PROVE SegOK'
  BY <1>0, <1>3 DEF SegOK, Past
<1>4. ASSUME UNCHANGED seg PROVE SegKept
  BY <1>4 DEF SegKept
<1>5. CASE PSetVerbose(Server) \/ PInitLib(Server) \/ PInitSem(Server)
  <2>1. /\ UNCHANGED seg /\ at[Server] \in {"set_verbose", "init", "init_sem"}
        /\ \E l \in {"init", "init_sem", "create", "return"} : at' = [at EXCEPT ![Server] = l]
    BY <1>5, Zenon DEF PSetVerbose, SetVerbose, PInitLib, InitSemget, PInitSem, InitSemctl, Goto
  <2> QED
    BY <1>0, <1>3, <2>1, Jump
<1>6. CASE PCreate(Server)
  <2>1. /\ at[Server] = "create" /\ at'[Server] = "shmat" /\ 1 \in SegId
        /\ seg'[1].state = "live" /\ seg'[1].key = TheKey
    BY <1>0, <1>6, FirstSegment, Jump
  <2>2. at[Client] \notin Active /\ \A s \in SegId : seg[s].nat[Client] = 0
    BY <1>0, <2>1 DEF SegOK, Past, Active
  <2>3. \A s \in SegId : (s # 1 => seg'[s] = seg[s]) /\ seg'[s].nat[Client] = 0
    BY <1>0, <1>6, <2>2, FirstSegment
  <2> QED
    BY <1>0, <2>1, <2>2, <2>3 DEF SegOK, Active
<1>7. CASE CreateShmat(Server) /\ Goto(Server, "shmat", "lock")
  <2>1. /\ at[Server] = "shmat" /\ at' = [at EXCEPT ![Server] = "lock"]
        /\ seg' = [seg EXCEPT ![obj[Server][arg[Server].id].shmid] = ShmAt(seg[obj[Server][arg[Server].id].shmid], Server)]
    BY <1>7, Zenon DEF CreateShmat, Goto
  <2>2. arg[Server].id = Id /\ obj[Server][Id].shmid = 1
    BY <1>0, <2>1 DEF CallOK
  <2>3. seg' = [seg EXCEPT ![1] = ShmAt(seg[1], Server)]
    BY <2>1, <2>2
  <2>4. at[Client] \notin Active /\ at'[Server] = "lock"
    BY <1>0, <2>1, Jump DEF SegOK, Past
  <2>5. \A s \in SegId : seg'[s] = seg[s] \/ (s = 1 /\ seg'[s] = ShmAt(seg[s], Server))
    BY <1>0, <2>3
  <2>6. \A s \in SegId : /\ seg'[s].nat[Client] = seg[s].nat[Client]
                         /\ seg[s].state = "none" => seg'[s].state = "none"
                         /\ seg[s].state = "live" => seg'[s].state = "live" /\ seg'[s].key = seg[s].key
    BY <1>a, <2>5
  <2> QED
    BY <1>0, <2>1, <2>4, <2>6 DEF SegOK, Past
<1>8. CASE CreateShmatFails(Server) /\ Goto(Server, "shmat", "return")
  <2>1. /\ at[Server] = "shmat" /\ at' = [at EXCEPT ![Server] = "return"]
        /\ seg' = [seg EXCEPT ![obj[Server][arg[Server].id].shmid] = ShmRmid(seg[obj[Server][arg[Server].id].shmid])]
    BY <1>8, Zenon DEF CreateShmatFails, Goto
  <2>2. at[Client] \notin Active /\ at'[Server] = "return"
    BY <1>0, <2>1, Jump DEF SegOK, Past
  <2>3. \A s \in SegId : seg'[s] = seg[s] \/ seg'[s] = ShmRmid(seg[s])
    BY <1>0, <2>1
  <2>4. SegKept
    BY <1>a, <2>3 DEF SegKept
  <2> QED
    BY <1>1, <2>2, <2>4 DEF Past
<1>9. CASE PLock(Server) \/ PUnlock(Server) \/ ServerTerminates \/ ServerReadLocks \/ ServerReads
  <2>1. /\ UNCHANGED seg /\ at[Server] \in {"lock", "unlock", "write", "rl_lock", "rl_read"}
        /\ \E l \in {"write", "rl_lock", "unlock", "rl_read", "rl_unlock"} : at' = [at EXCEPT ![Server] = l]
    BY <1>9, Zenon DEF PLock, Lock, PUnlock, Unlock, ServerTerminates, ServerReadLocks, ServerReads, Goto, vars
  <2> QED
    BY <1>0, <1>2, <2>1, Jump DEF Past
<1>10. CASE ServerWrites
  <2>1. UNCHANGED <<seg, at>>
    BY <1>10, Zenon DEF ServerWrites, vars
  <2> QED
    BY <1>0, <2>1 DEF SegOK
<1>11. CASE ServerReadUnlocks
  <2>1. /\ UNCHANGED seg /\ at[Server] = "rl_unlock"
        /\ at' = [at EXCEPT ![Server] = IF znak[Server] = Star THEN "destroy" ELSE "rl_lock"]
    BY <1>11, Zenon DEF ServerReadUnlocks, Unlock, Goto
  <2>2. CASE znak[Server] = Star
    <3>1. at[Client] \notin Active /\ at'[Server] = "destroy"
      BY <1>0, <2>1, <2>2, StarSeen, Jump
    <3> QED
      BY <1>1, <1>4, <2>1, <3>1 DEF Past
  <2>3. CASE znak[Server] # Star
    <3>1. at'[Server] = "rl_lock"
      BY <1>0, <2>1, <2>3, Jump
    <3> QED
      BY <1>2, <2>1, <3>1 DEF Past
  <2> QED
    BY <2>2, <2>3
<1>12. CASE ServerDestroys
  <2>1. /\ at[Server] = "destroy" /\ at' = [at EXCEPT ![Server] = "return"]
        /\ seg' = [seg EXCEPT ![obj[Server][Id].shmid] = ShmRmid(Unattached(Server, Id))]
    BY <1>12, Zenon DEF ServerDestroys, Destroy, Goto
  <2>2. at[Client] \notin Active /\ at'[Server] = "return"
    BY <1>0, <2>1, Jump DEF SegOK, Past
  <2>3. \A s \in SegId : \/ seg'[s] = seg[s] \/ seg'[s] = ShmRmid(seg[s])
                         \/ seg'[s] = ShmRmid(ShmDt(seg[s], Server))
    BY <1>0, <2>1 DEF Unattached
  <2>5. SegKept
    BY <1>a, <2>3 DEF SegKept
  <2> QED
    BY <1>1, <2>2, <2>5 DEF Past
<1>13. CASE PReturn(Server) \/ PKill(Server)
  <2>1. /\ \E l \in {"returned", "killed"} : at' = [at EXCEPT ![Server] = l]
        /\ at[Server] = "return" \/ at' = [at EXCEPT ![Server] = "killed"]
        /\ seg' = [s \in SegId |-> Left(seg[s], Server)]
    BY <1>13, Zenon DEF Left, PReturn, PKill, Exit, Goto
  <2>2. \A s \in SegId : /\ seg'[s].nat[Client] = seg[s].nat[Client]
                         /\ seg[s].state = "none" => seg'[s].state = "none"
                         /\ seg[s].state = "live" => seg'[s].state = "live" /\ seg'[s].key = seg[s].key
    BY <1>a, <2>1
  <2>3. at'[Server] \in {"returned", "killed"} /\ (at[Client] \in Active => at'[Server] = "killed")
    BY <1>0, <2>1, Jump DEF SegOK, Past
  <2> QED
    BY <1>0, <2>2, <2>3 DEF SegOK, Past
<1> QED
  BY <1>5, <1>6, <1>7, <1>8, <1>9, <1>10, <1>11, <1>12, <1>13, Zenon DEF Run, PShmat, ProgramsAssumption

\* The client starts when the segment is there, and only it changes its own mapping.
LEMMA ClientSegs ==
  ASSUME ServerFirst, SafeInv, Run(Client) \/ PKill(Client)
  PROVE  SegOK'
<1>0. /\ ProgInv /\ CallOK(Client) /\ SegOK /\ Server \in Proc /\ Client \in Proc /\ Server # Client
      /\ seg \in [SegId -> SegType] /\ obj \in [Proc -> [Slot -> SlotType]] /\ at'[Server] = at[Server]
  <2>1. ProgInv
    BY DEF SafeInv
  <2>2. at'[Server] = at[Server]
    BY <2>1, OwnSame, Consts DEF Own
  <2> QED
    BY <2>1, <2>2, Consts DEF SafeInv, ProgInv, TypeInv, TypeOK
<1>a. ASSUME NEW s \in SegId
      PROVE  /\ ShmAt(seg[s], Client).nat[Client] = seg[s].nat[Client] + 1
             /\ ShmDt(seg[s], Client).nat[Client] = seg[s].nat[Client] - 1
             /\ Left(seg[s], Client).nat[Client] = 0
             /\ ShmRmid(seg[s]).nat[Client] = seg[s].nat[Client]
             /\ seg[s].state = "none" => Left(seg[s], Client).state = "none" /\ ShmRmid(seg[s]).state = "none"
             /\ seg[s].state = "live" =>
                  /\ ShmAt(seg[s], Client).state = "live" /\ ShmAt(seg[s], Client).key = seg[s].key
                  /\ ShmDt(seg[s], Client).state = "live" /\ ShmDt(seg[s], Client).key = seg[s].key
  BY <1>0, KernelMaps, KernelStates
<1>s. seg \in [SegId -> SegType]
  BY <1>0
<1>b. \A s \in SegId : s # 1 => seg[s].state = "none" /\ seg[s].nat[Client] = 0
  BY <1>0 DEF SegOK
<1>c. at[Client] \in Active => at[Server] \in Past \cup {"killed"}
  BY <1>0 DEF SegOK
<1> DEFINE Mapping == {"lock", "read", "star", "detach"}
\* A step that leaves the segments alone and does not start or stop the mapping.
<1>1. ASSUME UNCHANGED seg, at[Client] \in Active, at'[Client] \in Active \cup {"return"},
             at'[Client] \in Mapping <=> at[Client] \in Mapping
      PROVE  SegOK'
  BY <1>0, <1>1 DEF SegOK, Active
<1>2. CASE PSetVerbose(Client)
  <2>1. /\ UNCHANGED seg /\ at[Client] = "set_verbose" /\ at' = [at EXCEPT ![Client] = "init"] /\ MayStart(Client)
    BY <1>2, Zenon DEF PSetVerbose, SetVerbose, Goto
  <2>2. at[Server] \in Past /\ at'[Client] = "init"
    BY <1>0, <2>1, Jump DEF MayStart, Past
  <2> QED
    BY <1>0, <2>1, <2>2 DEF SegOK, Past
<1>3. CASE PInitLib(Client) \/ PLock(Client) \/ PUnlock(Client) \/ ClientStars
  <2>1. /\ UNCHANGED seg
        /\ \/ at[Client] = "init" /\ \E l \in {"return", "create"} : at' = [at EXCEPT ![Client] = l]
           \/ at[Client] = "lock" /\ at' = [at EXCEPT ![Client] = "read"]
           \/ at[Client] = "unlock" /\ at' = [at EXCEPT ![Client] = "return"]
           \/ at[Client] = "star" /\ at' = [at EXCEPT ![Client] = "detach"]
    BY <1>0, <1>3, Zenon DEF PInitLib, InitSemget, PLock, Lock, PUnlock, Unlock, ClientStars, Goto, vars
  <2> QED
    BY <1>0, <1>1, <2>1, Jump DEF Active
<1>4. CASE PCreate(Client)
  <2>1. UNCHANGED seg /\ at[Client] = "create" /\ at' = [at EXCEPT ![Client] = "shmat"]
    BY <1>0, <1>4, FirstSegment, Zenon
  <2> QED
    BY <1>0, <1>1, <2>1, Jump DEF Active
<1>5. CASE ClientReads
  <2>1. /\ UNCHANGED seg /\ at[Client] = "read"
        /\ UNCHANGED at \/ at' = [at EXCEPT ![Client] = "star"]
    BY <1>5, Zenon DEF ClientReads, vars
  <2> QED
    BY <1>0, <1>1, <2>1, Jump DEF Active
<1>6. CASE CreateShmat(Client) /\ Goto(Client, "shmat", "lock")
  <2>1. /\ at[Client] = "shmat" /\ at' = [at EXCEPT ![Client] = "lock"]
        /\ seg' = [seg EXCEPT ![obj[Client][arg[Client].id].shmid] = ShmAt(seg[obj[Client][arg[Client].id].shmid], Client)]
    BY <1>6, Zenon DEF CreateShmat, Goto
  <2>2. arg[Client].id = Id /\ obj[Client][Id].shmid = 1
    BY <1>0, <2>1 DEF CallOK
  <2>3. seg' = [seg EXCEPT ![1] = ShmAt(seg[1], Client)]
    BY <2>1, <2>2
  <2>4. 1 \in SegId /\ seg[1].state = "live" /\ seg[1].key = TheKey /\ seg[1].nat[Client] = 0
    BY <1>0, <2>1 DEF SegOK, Active
  <2>5. /\ seg'[1].state = "live" /\ seg'[1].key = TheKey /\ seg'[1].nat[Client] = 1
    BY <1>a, <2>3, <2>4, <1>s
  <2>6. at'[Client] = "lock" /\ \A s \in SegId : s # 1 => seg'[s] = seg[s]
    BY <1>0, <2>1, <2>3, Jump
  <2>7. at'[Server] \in Past \cup {"killed"}
    BY <1>0, <1>c, <2>1 DEF Active
  <2>8. \A s \in SegId : s # 1 => seg'[s].state = "none" /\ seg'[s].nat[Client] = 0
    BY <1>b, <2>6
  <2> QED
    BY <2>4, <2>5, <2>6, <2>7, <2>8 DEF SegOK, Past
<1>7. CASE CreateShmatFails(Client) /\ Goto(Client, "shmat", "return")
  <2>1. /\ at[Client] = "shmat" /\ at' = [at EXCEPT ![Client] = "return"]
        /\ seg' = [seg EXCEPT ![obj[Client][arg[Client].id].shmid] = ShmRmid(seg[obj[Client][arg[Client].id].shmid])]
    BY <1>7, Zenon DEF CreateShmatFails, Goto
  <2>2. \A s \in SegId : seg'[s] = seg[s] \/ seg'[s] = ShmRmid(seg[s])
    BY <1>0, <2>1
  <2>3. SegKept
    BY <1>a, <2>2 DEF SegKept
  <2>4. at'[Client] = "return"
    BY <1>0, <2>1, Jump
  <2>5. \A s \in SegId : seg'[s].nat[Client] = 0
    BY <1>0, <2>1, <2>3 DEF SegOK, SegKept
  <2>6. at'[Server] \in Past \cup {"killed"}
    BY <1>0, <1>c, <2>1 DEF Active
  <2>7. \A s \in SegId : s # 1 => seg'[s].state = "none"
    BY <1>b, <2>3 DEF SegKept
  <2> QED
    BY <2>4, <2>5, <2>6, <2>7 DEF SegOK, Active, Past
<1>8. CASE ClientDetaches
  <2>1. /\ at[Client] = "detach" /\ at' = [at EXCEPT ![Client] = "unlock"]
        /\ seg' = [seg EXCEPT ![obj[Client][Id].shmid] = ShmDt(seg[obj[Client][Id].shmid], Client)]
    BY <1>8, Zenon DEF ClientDetaches, Detach, Goto
  <2>2. obj[Client][Id].shmid = 1
    BY <1>0, <2>1 DEF CallOK, MapsAt
  <2>3. seg' = [seg EXCEPT ![1] = ShmDt(seg[1], Client)]
    BY <2>1, <2>2
  <2>4. 1 \in SegId /\ seg[1].state = "live" /\ seg[1].key = TheKey /\ seg[1].nat[Client] = 1
    BY <1>0, <2>1 DEF SegOK, Active
  <2>5. /\ seg'[1].state = "live" /\ seg'[1].key = TheKey /\ seg'[1].nat[Client] = 0
    BY <1>a, <2>3, <2>4, <1>s
  <2>6. at'[Client] = "unlock" /\ \A s \in SegId : s # 1 => seg'[s] = seg[s]
    BY <1>0, <2>1, <2>3, Jump
  <2>7. at'[Server] \in Past \cup {"killed"}
    BY <1>0, <1>c, <2>1 DEF Active
  <2>8. \A s \in SegId : s # 1 => seg'[s].state = "none" /\ seg'[s].nat[Client] = 0
    BY <1>b, <2>6
  <2> QED
    BY <2>4, <2>5, <2>6, <2>7, <2>8 DEF SegOK, Past
<1>9. CASE PReturn(Client) \/ PKill(Client)
  <2>1. /\ \E l \in {"returned", "killed"} : at' = [at EXCEPT ![Client] = l]
        /\ seg' = [s \in SegId |-> Left(seg[s], Client)]
    BY <1>9, Zenon DEF Left, PReturn, PKill, Exit, Goto
  <2>2. \A s \in SegId : /\ seg'[s].nat[Client] = 0
                         /\ seg[s].state = "none" => seg'[s].state = "none"
    BY <1>a, <2>1
  <2>3. at'[Client] \in {"returned", "killed"}
    BY <1>0, <2>1, Jump
  <2> QED
    BY <1>0, <2>2, <2>3 DEF SegOK, Active
<1>10. ~PInitSem(Client)
  BY <1>0 DEF PInitSem, Goto, CallOK
<1> QED
  BY <1>2, <1>3, <1>4, <1>5, <1>6, <1>7, <1>8, <1>9, <1>10, Zenon DEF Run, PShmat, ProgramsAssumption

\* The segment is there while the client uses it.
LEMMA SegsStep ==
  ASSUME ServerFirst, SafeInv, NEW p \in Proc, Run(p) \/ PKill(p)
  PROVE  SegOK'
BY ServerSegs, ClientSegs, Zenon DEF ProgramsAssumption

-----------------------------------------------------------------------------
\* A program that is to read or write the n-th byte may.
LEMMA MayAccess ==
  ASSUME ProgInv, NEW p \in Proc, CallOK(p), at[p] \in {"write", "rl_read", "read", "star"}, NEW n \in Offset
  PROVE  Accessible(p, Id, n, 1) /\ obj[p][Id].shmid = 1 /\ 1 \in SegId
<1>1. /\ initialized[p] /\ obj[p][Id].shmid = 1 /\ obj[p][Id].att /\ obj[p][Id].size = Size
      /\ Id \in Slot /\ Size \in Nat
  BY Consts DEF CallOK, Inside, MapsAt
<1>2. Accessible(p, Id, n, 1)
  BY <1>1 DEF Accessible, Used, Offset
<1>3. 1 \in SegId
  BY <1>1, SlotFacts DEF ProgInv, Used
<1> QED
  BY <1>1, <1>2, <1>3

\* The server's letters arrive one after the other, and its star is the client's.
LEMMA ServerLetters ==
  ASSUME SafeInv, Run(Server) \/ PKill(Server)
  PROVE  DataOK'
<1>0. /\ ProgInv /\ CallOK(Server) /\ DataOK
      /\ Server \in Proc /\ Client \in Proc /\ Server # Client
      /\ at'[Client] = at[Client] /\ i'[Client] = i[Client]
      /\ i \in [Proc -> 0 .. Size] /\ znak \in [Proc -> 0 .. Star] /\ mem \in [SegId -> [Offset -> 0 .. Star]]
  <2>1. ProgInv
    BY DEF SafeInv
  <2>2. at'[Client] = at[Client] /\ i'[Client] = i[Client]
    BY <2>1, OwnSame, Consts DEF Own
  <2> QED
    BY <2>1, <2>2, Consts DEF SafeInv, ProgInv, PTypeOK
<1>1. UNCHANGED mem => \A n : Holds(n)' <=> Holds(n)
  BY DEF Holds
\* A step that leaves the data alone, at each kind of place.
<1>2. ASSUME UNCHANGED Data, at[Server] \in Before, at'[Server] \in Before \cup {"return"} PROVE DataOK'
  BY <1>0, <1>1, <1>2 DEF DataOK, Before, Data
<1>3. ASSUME UNCHANGED Data, at[Server] = "lock", at'[Server] = "write" PROVE DataOK'
  BY <1>0, <1>1, <1>3 DEF DataOK, Before, Data
<1>4. ASSUME UNCHANGED Data,
             at[Server] \in {"unlock", "rl_lock", "rl_unlock"}, at'[Server] \in {"rl_lock", "rl_read", "destroy"}
      PROVE  DataOK'
  BY <1>0, <1>1, <1>4 DEF DataOK, Before, Data
<1>5. ASSUME UNCHANGED Data, at'[Server] \in {"return", "returned", "killed"},
             at'[Server] = "killed" \/ at[Server] \in {"destroy", "return"}
      PROVE  DataOK'
  BY <1>0, <1>5 DEF DataOK, Before, Data
<1>6. CASE PSetVerbose(Server) \/ PInitLib(Server) \/ PInitSem(Server) \/ PCreate(Server) \/ PShmat(Server)
  <2>1. /\ UNCHANGED Data /\ at[Server] \in {"set_verbose", "init", "init_sem", "create", "shmat"}
        /\ \E l \in {"init", "init_sem", "create", "shmat", "lock", "return"} : at' = [at EXCEPT ![Server] = l]
    BY <1>6, Zenon DEF PSetVerbose, PInitLib, PInitSem, PCreate, PShmat, Goto
  <2>2. at[Server] \in Before /\ at'[Server] \in Before \cup {"return"}
    BY <1>0, <2>1, Jump DEF Before
  <2> QED
    BY <1>2, <2>1, <2>2
<1>7. CASE PLock(Server)
  <2>1. UNCHANGED Data /\ at[Server] = "lock" /\ at' = [at EXCEPT ![Server] = "write"]
    BY <1>7, Zenon DEF PLock, Goto
  <2> QED
    BY <1>0, <1>3, <2>1, Jump
<1>8. CASE PUnlock(Server) \/ ServerReadLocks \/ ServerReadUnlocks
  <2>1. /\ UNCHANGED Data /\ at[Server] \in {"unlock", "rl_lock", "rl_unlock"}
        /\ \E l \in {"rl_lock", "rl_read", "destroy"} : at' = [at EXCEPT ![Server] = l]
    BY <1>8, Zenon DEF PUnlock, ServerReadLocks, ServerReadUnlocks, Goto
  <2> QED
    BY <1>0, <1>4, <2>1, Jump
<1>9. CASE PReturn(Server) \/ PKill(Server) \/ ServerDestroys
  <2>1. /\ UNCHANGED Data
        /\ \/ at[Server] = "return" /\ at' = [at EXCEPT ![Server] = "returned"]
           \/ at[Server] = "destroy" /\ at' = [at EXCEPT ![Server] = "return"]
           \/ at' = [at EXCEPT ![Server] = "killed"]
    BY <1>9, Zenon DEF PReturn, PKill, ServerDestroys, Goto
  <2> QED
    BY <1>0, <1>5, <2>1, Jump
<1>10. CASE ServerWrites
  <2>1. /\ at[Server] = "write" /\ i[Server] < Letters /\ at' = at /\ printed' = printed
        /\ i' = [i EXCEPT ![Server] = i[Server] + 1]
    BY <1>10 DEF ServerWrites
  <2>2. i[Server] \in Offset
    BY <1>0, <2>1, Consts DEF Offset
  <2>3. Accessible(Server, Id, i[Server], 1) /\ obj[Server][Id].shmid = 1 /\ 1 \in SegId
    BY <1>0, <2>1, <2>2, MayAccess
  <2>4. mem' = [mem EXCEPT ![1][i[Server]] = i[Server] + 1]
    BY <1>10, <2>3, Zenon DEF ServerWrites
  <2>5. \A o \in Offset : mem'[1][o] = IF o = i[Server] THEN i[Server] + 1 ELSE mem[1][o]
    BY <1>0, <2>2, <2>3, <2>4
  <2>6. \A o \in Offset : mem[1][o] = IF o < i[Server] THEN o + 1 ELSE NUL
    BY <1>0, <2>1, <2>3 DEF DataOK, Holds
  <2>7. i'[Server] = i[Server] + 1 /\ i'[Server] <= Letters
    BY <1>0, <2>1
  <2>8. Holds(i[Server])'
    <3>1. \A o \in Offset : mem'[1][o] = IF o < i[Server] + 1 THEN o + 1 ELSE NUL
      BY <1>0, <2>2, <2>5, <2>6 DEF Offset
    <3> QED
      BY <2>7, <3>1 DEF Holds
  <2> QED
    BY <1>0, <2>1, <2>7, <2>8 DEF DataOK, Before
<1>11. CASE ServerTerminates
  <2>1. /\ at[Server] = "write" /\ at' = [at EXCEPT ![Server] = "unlock"] /\ i[Server] = Letters
        /\ UNCHANGED <<mem, i, printed>>
    BY <1>11 DEF ServerTerminates, Goto
  <2>2. at'[Server] = "unlock" /\ Holds(Letters)'
    BY <1>0, <1>1, <2>1, Jump DEF DataOK
  <2> QED
    BY <1>0, <2>1, <2>2 DEF DataOK, Before
<1>12. CASE ServerReads
  <2>1. /\ at[Server] = "rl_read" /\ at' = [at EXCEPT ![Server] = "rl_unlock"] /\ UNCHANGED <<mem, i, printed>>
    BY <1>12 DEF ServerReads, Goto
  <2>2. Accessible(Server, Id, 0, 1) /\ obj[Server][Id].shmid = 1 /\ 1 \in SegId
    BY <1>0, <2>1, MayAccess, Consts
  <2>3. znak'[Server] = mem[1][0]
    BY <1>0, <1>12, <2>2 DEF ServerReads, Bytes
  <2>4. at'[Server] = "rl_unlock"
    BY <1>0, <2>1, Jump
  <2>5. ASSUME at[Client] \in Unstarred PROVE Holds(Letters)' /\ znak'[Server] # Star
    <3>1. Holds(Letters) /\ Holds(Letters)'
      BY <1>0, <1>1, <2>1, <2>5 DEF DataOK
    <3>2. mem[1][0] = IF 0 < Letters THEN 1 ELSE 0
      BY <2>2, <3>1, Consts DEF Holds, NUL
    <3> QED
      BY <2>3, <3>1, <3>2 DEF Star
  <2> QED
    BY <1>0, <2>1, <2>4, <2>5 DEF DataOK, Before
<1> QED
  BY <1>6, <1>7, <1>8, <1>9, <1>10, <1>11, <1>12, Zenon DEF Run, ProgramsAssumption

\* The client reads with the letters in the segment, one after the other, and then writes the star.
LEMMA ClientLetters ==
  ASSUME ServerFirst, SafeInv, Run(Client) \/ PKill(Client)
  PROVE  DataOK'
<1>0. /\ ProgInv /\ CallOK(Client) /\ DataOK /\ SegOK
      /\ Server \in Proc /\ Client \in Proc /\ Server # Client
      /\ at'[Server] = at[Server] /\ i'[Server] = i[Server] /\ znak'[Server] = znak[Server]
      /\ i \in [Proc -> 0 .. Size] /\ znak \in [Proc -> 0 .. Star] /\ mem \in [SegId -> [Offset -> 0 .. Star]]
      /\ printed \in Seq(1 .. Star)
  <2>1. ProgInv
    BY DEF SafeInv
  <2>2. at'[Server] = at[Server] /\ i'[Server] = i[Server] /\ znak'[Server] = znak[Server]
    BY <2>1, OwnSame, Consts DEF Own
  <2> QED
    BY <2>1, <2>2, Consts DEF SafeInv, ProgInv, PTypeOK
<1>1. UNCHANGED mem => \A n : Holds(n)' <=> Holds(n)
  BY DEF Holds
\* A step that leaves the data alone, at each kind of place.
<1>2. ASSUME UNCHANGED Data, at[Client] \in Before \cap Unstarred,
             at'[Client] \in (Before \cap Unstarred) \cup {"return"}
      PROVE  DataOK'
  <2>1. /\ UNCHANGED <<mem, i, printed>> /\ at'[Client] \notin {"read", "star"}
        /\ at'[Client] \in Unstarred => at[Client] \in Unstarred
        /\ at'[Client] \in Before => at[Client] \in Before
    BY <1>2 DEF Data, Before, Unstarred
  <2>2. at[Client] \in Unstarred
    BY <1>2
  <2> QED
    BY <1>0, <1>1, <2>1, <2>2 DEF DataOK
<1>3. ASSUME UNCHANGED Data, at'[Client] \in {"unlock", "return", "returned", "killed"} PROVE DataOK'
  <2>1. UNCHANGED <<mem, i, printed>> /\ at'[Client] \notin Unstarred \cup Before
    BY <1>3 DEF Data, Before, Unstarred
  <2>2. at'[Client] \notin {"read", "star"}
    BY <1>3
  <2> QED
    BY <1>0, <1>1, <2>1, <2>2 DEF DataOK
<1>4. CASE PSetVerbose(Client) \/ PInitLib(Client) \/ PCreate(Client) \/ PShmat(Client)
  <2>1. /\ UNCHANGED Data /\ at[Client] \in {"set_verbose", "init", "create", "shmat"}
        /\ \E l \in {"init", "create", "shmat", "lock", "return"} : at' = [at EXCEPT ![Client] = l]
    BY <1>0, <1>4, Zenon DEF PSetVerbose, PInitLib, PCreate, PShmat, Goto
  <2>2. at[Client] \in Before \cap Unstarred /\ at'[Client] \in (Before \cap Unstarred) \cup {"return"}
    BY <1>0, <2>1, Jump DEF Before, Unstarred
  <2> QED
    BY <1>2, <2>1, <2>2
<1>5. CASE PUnlock(Client) \/ ClientDetaches \/ PReturn(Client) \/ PKill(Client)
  <2>1. /\ UNCHANGED Data
        /\ \E l \in {"unlock", "return", "returned", "killed"} : at' = [at EXCEPT ![Client] = l]
    BY <1>0, <1>5, Zenon DEF PUnlock, ClientDetaches, PReturn, PKill, Goto
  <2> QED
    BY <1>0, <1>3, <2>1, Jump
<1>6. CASE PLock(Client)
  <2>1. UNCHANGED Data /\ at[Client] = "lock" /\ at' = [at EXCEPT ![Client] = "read"]
    BY <1>0, <1>6, Zenon DEF PLock, Goto
  <2>2. at'[Client] = "read" /\ UNCHANGED <<mem, i, printed>>
    BY <1>0, <2>1, Jump DEF Data
  <2>3. i'[Client] = 0 /\ printed' = <<>> /\ Len(printed') = 0
    BY <1>0, <2>1, <2>2 DEF DataOK, Before
  <2> QED
    BY <1>0, <1>1, <2>1, <2>2, <2>3 DEF DataOK, Before, Unstarred
\* While the client is inside, the server waits for its lock, or is gone.
<1>7. at[Client] \in {"read", "star"} => at[Server] \in {"rl_lock", "killed"}
  <2> SUFFICES ASSUME at[Client] \in {"read", "star"} PROVE at[Server] \in {"rl_lock", "killed"}
    OBVIOUS
  <2>1. at[Server] \in Past \cup {"killed"}
    BY <1>0 DEF SegOK, Active
  <2>2. at[Server] \notin Inside
    BY NotBothInside DEF Inside
  <2> QED
    BY <2>1, <2>2 DEF Past, Inside
<1>8. CASE ClientReads
  <2>1. at[Client] = "read" /\ UNCHANGED mem
    BY <1>8 DEF ClientReads
  <2>2. at'[Client] \in {"read", "star"}
    <3>1. UNCHANGED at \/ at' = [at EXCEPT ![Client] = "star"]
      BY <1>8, Zenon DEF ClientReads
    <3> QED
      BY <1>0, <2>1, <3>1, Jump
  <2>3. CASE at[Server] = "killed"
    BY <1>0, <2>2, <2>3 DEF DataOK, Before
  <2>4. CASE at[Server] = "rl_lock"
    <3>1. i[Client] <= Letters /\ Len(printed) = i[Client] /\ \A k \in 1 .. i[Client] : printed[k] = k
      BY <1>0, <2>1, <2>4 DEF DataOK
    <3>2. Holds(Letters) /\ i[Client] \in Offset
      BY <1>0, <2>1, <2>4, <3>1, Consts DEF DataOK, Unstarred, Offset
    <3>3. Accessible(Client, Id, i[Client], 1) /\ obj[Client][Id].shmid = 1 /\ 1 \in SegId
      BY <1>0, <2>1, <3>2, MayAccess
    <3> DEFINE z == Bytes(Client)[i[Client]]
    <3>4. z = IF i[Client] < Letters THEN i[Client] + 1 ELSE NUL
      BY <3>2, <3>3 DEF Bytes, Holds
    <3>5. /\ z = NUL => at' = [at EXCEPT ![Client] = "star"] /\ UNCHANGED <<i, printed>>
          /\ z # NUL => UNCHANGED at /\ i' = [i EXCEPT ![Client] = i[Client] + 1] /\ printed' = Append(printed, z)
      BY <1>8, <3>3, Zenon DEF ClientReads
    <3> HIDE DEF z
    <3>6. CASE i[Client] < Letters
      <4>1. z = i[Client] + 1 /\ z # NUL /\ z \in 1 .. Star
        BY <1>0, <3>4, <3>6 DEF NUL, Star
      <4>2. at'[Client] = "read" /\ i'[Client] = i[Client] + 1 /\ printed' = Append(printed, z)
        BY <1>0, <2>1, <3>5, <4>1
      <4>3. Len(printed') = i[Client] + 1 /\ \A k \in 1 .. i[Client] + 1 : printed'[k] = k
        <5>1. /\ Len(Append(printed, z)) = Len(printed) + 1
              /\ \A k \in 1 .. Len(printed) : Append(printed, z)[k] = printed[k]
              /\ Append(printed, z)[Len(printed) + 1] = z
          BY <1>0, <4>1, AppendProperties
        <5> QED
          BY <1>0, <3>1, <4>1, <4>2, <5>1
      <4>4. i'[Client] <= Letters
        BY <1>0, <3>6, <4>2
      <4> QED
        BY <1>0, <1>1, <2>1, <2>4, <4>2, <4>3, <4>4, <3>2 DEF DataOK, Before
    <3>7. CASE ~(i[Client] < Letters)
      <4>1. i[Client] = Letters /\ z = NUL
        BY <1>0, <3>1, <3>4, <3>7
      <4>2. at'[Client] = "star" /\ UNCHANGED <<i, printed>>
        BY <1>0, <3>5, <4>1, Jump
      <4> QED
        BY <1>0, <1>1, <2>1, <2>4, <3>1, <3>2, <4>1, <4>2 DEF DataOK, Before
    <3> QED
      BY <3>6, <3>7
  <2> QED
    BY <1>7, <2>1, <2>3, <2>4
<1>9. CASE ClientStars
  <2>1. at[Client] = "star" /\ at' = [at EXCEPT ![Client] = "detach"]
    BY <1>9, Zenon DEF ClientStars, Goto
  <2>2. at'[Client] = "detach" /\ at'[Server] \in {"rl_lock", "killed"}
    BY <1>0, <1>7, <2>1, Jump
  <2> QED
    BY <2>2 DEF DataOK, Before, Unstarred
<1>10. ~PInitSem(Client)
  BY <1>0 DEF PInitSem, Goto, CallOK
<1> QED
  BY <1>4, <1>5, <1>6, <1>8, <1>9, <1>10, Zenon DEF Run, ProgramsAssumption

\* The invariant holds in every state.
LEMMA SafeAlways ==
  ASSUME ServerFirst
  PROVE  PSpec => []SafeInv
<1>1. SafeInv /\ [PNext]_allvars => SafeInv'
  <2> SUFFICES ASSUME SafeInv, [PNext]_allvars PROVE SafeInv'
    OBVIOUS
  <2>1. ProgInv'
    BY ProgStep DEF SafeInv
  <2>2. ASSUME NEW p \in Proc, Run(p) \/ PKill(p) PROVE SafeInv'
    <3>1. SemOK' /\ SegOK' /\ \A q \in Proc : CallOK(q)'
      BY <2>2, SemStep, SegsStep, CallStep
    <3>2. DataOK'
      BY <2>2, ServerLetters, ClientLetters, Zenon DEF ProgramsAssumption
    <3> QED
      BY <2>1, <3>1, <3>2 DEF SafeInv
  <2>3. CASE UNCHANGED allvars
    <3>1. SemOK' /\ SegOK'
      BY <2>3 DEF allvars, vars, libvars, pvars, SafeInv, SemOK, SegOK, LiveSems, SetOK, Under
    <3>2. DataOK' /\ \A q \in Proc : CallOK(q)'
      BY <2>3 DEF allvars, vars, libvars, pvars, SafeInv, DataOK, Holds, CallOK, SemLive
    <3> QED
      BY <2>1, <3>1, <3>2 DEF SafeInv
  <2> QED
    BY <2>2, <2>3 DEF PNext
<1> QED
  BY <1>1, SafeInit, PTL DEF PSpec

\* Started once the server has its lock, the client reads the whole message, whatever the kernel
\* refuses and whoever is killed, as long as the server is not.
THEOREM MessageIsWhole ==
  ASSUME ServerFirst
  PROVE  PSpec => []WholeMessage
<1>1. SafeInv => WholeMessage
  <2> SUFFICES ASSUME SafeInv, at[Client] = "star", at[Server] # "killed" PROVE printed = Message
    BY DEF WholeMessage
  <2>1. printed \in Seq(1 .. Star) /\ Len(printed) = Letters /\ \A k \in 1 .. Letters : printed[k] = k
    BY DEF SafeInv, DataOK, ProgInv, PTypeOK
  <2> QED
    BY <2>1 DEF Message
<1> QED
  BY <1>1, SafeAlways, PTL

\* The server never removes the segment under the client: what it destroys, nobody else maps.
THEOREM RemovedUnused ==
  ASSUME ServerFirst
  PROVE  PSpec => []DestroyedUnused
<1>1. SafeInv => DestroyedUnused
  BY DEF SafeInv, SegOK, Active, DestroyedUnused
<1> QED
  BY <1>1, SafeAlways, PTL
=============================================================================
