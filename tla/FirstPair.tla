------------------------------ MODULE FirstPair ------------------------------
(***************************************************************************)
(* Code/learning/6prednaska/03.sharemem_comm: server.c and client.c over   *)
(* the wrappers of shm.c.  Both programs create or find the same segment   *)
(* and the same semaphore, both set the semaphore to one, and both remove  *)
(* what they used.  The server writes a message letter by letter, opens    *)
(* the lock and polls the first cell for a star, without the lock; the     *)
(* client reads the message, writes the star and ends.                     *)
(***************************************************************************)
EXTENDS Integers, Sequences, SequencesExt

CONSTANTS
  Letters,    \* letters of the message: 'a' .. 'z'
  MayFail     \* calls the kernel may refuse

\* What the module that instantiates this one assumes.
PairAssumption ==
  /\ Letters \in Nat \ {0}
  /\ MayFail \subseteq {"shmget", "shmat", "semget"}

VARIABLES
  order,      \* "late": the client is started once the server polls; "any"
  at,         \* where each program is
  ret,        \* what each program will return
  segment,    \* the segment the key names, 0 if none
  shm,        \* the segment each program has mapped
  cell,       \* contents of the segments
  semset,     \* the semaphore set the key names, 0 if none
  sem,        \* the set each program uses
  val,        \* the semaphores
  undo,       \* what SEM_UNDO gives back when a program ends: undo[s][p]
  pos,        \* znak - 'a', shm_tmp - shm
  printed     \* what the client has put on stderr

vars == <<order, at, ret, segment, shm, cell, semset, sem, val, undo, pos, printed>>
objects == <<segment, shm, semset, sem, val, undo>>
data == <<cell, pos, printed>>

Program == {"server", "client"}
Other(p) == IF p = "server" THEN "client" ELSE "server"
NUL == 0
Star == Letters + 1
Message == [i \in 1 .. Letters |-> i]
Cells == 0 .. Letters          \* nobody writes beyond the terminating zero
Live == {"open_shm", "shmat", "open_sem", "init_sem", "lock_sem", "write", "read",
         "star", "unlock_sem", "poll", "free_sem", "free_shm"}

\* Programs, segments and semaphores are in their ranges.  No semaphore exceeds two:
\* one for each SETALL that meets a lock already taken.
TypeOK ==
  /\ order \in {"late", "any"}
  /\ at \in [Program -> Live \cup {"returned", "killed"}]
  /\ ret \in [Program -> -5 .. 0]
  /\ segment \in 0 .. 3 /\ shm \in [Program -> 0 .. 3]
  /\ cell \in [1 .. 3 -> [Cells -> NUL .. Star]]
  /\ semset \in 0 .. 2 /\ sem \in [Program -> 0 .. 2]
  /\ val \in [1 .. 2 -> 0 .. 2]
  /\ undo \in [1 .. 2 -> [Program -> -1 .. 1]]
  /\ pos \in [Program -> 0 .. Letters]
  /\ printed \in Seq(1 .. Star)

Blank == [c \in Cells |-> NUL]
\* What programs of an earlier run that were killed may have left behind.
Old == {[c \in Cells |-> IF c = Letters THEN NUL ELSE c + 1],
        [c \in Cells |-> IF c = 0 THEN Star ELSE IF c = Letters THEN NUL ELSE c + 1]}

Init ==
  /\ order \in {"late", "any"}
  /\ at = [p \in Program |-> "open_shm"]
  /\ ret = [p \in Program |-> 0]
  /\ \/ segment = 0 /\ cell = [s \in 1 .. 3 |-> Blank]
     \/ segment = 1 /\ \E old \in Old : cell = [s \in 1 .. 3 |-> IF s = 1 THEN old ELSE Blank]
  /\ shm = [p \in Program |-> 0]
  /\ semset = 0
  /\ sem = [p \in Program |-> 0]
  /\ val = [s \in 1 .. 2 |-> 0]
  /\ undo = [s \in 1 .. 2 |-> [p \in Program |-> 0]]
  /\ pos = [p \in Program |-> 0]
  /\ printed = <<>>

Goto(p, from, to) == at[p] = from /\ at' = [at EXCEPT ![p] = to]
\* ret = r; goto label
Fail(p, from, r, label) == Goto(p, from, label) /\ ret' = [ret EXCEPT ![p] = r]
\* A set that has been removed: semctl and semop fail.
Removed(p) == semset # sem[p]
MayStart(p) == p = "client" /\ order = "late" => at["server"] = "poll"
Started(p) == at[p] # "open_shm"

-----------------------------------------------------------------------------
\* The wrappers of shm.c, as the two programs call them.  open_shm: shmget, which
\* creates a zero-filled segment when the key names none, and shmat.
OpenShm(p) ==
  /\ MayStart(p)
  /\ \/ /\ Goto(p, "open_shm", "shmat")
        /\ segment' = IF segment # 0 THEN segment ELSE IF shm[Other(p)] = 2 THEN 3 ELSE 2
        /\ shm' = [shm EXCEPT ![p] = segment']
        /\ UNCHANGED ret
     \/ "shmget" \in MayFail /\ Fail(p, "open_shm", -1, "returned") /\ UNCHANGED <<segment, shm>>
  /\ UNCHANGED <<order, semset, sem, val, undo, data>>

\* A failed shmat leaves the segment behind.
Attach(p) ==
  /\ \/ Goto(p, "shmat", "open_sem") /\ UNCHANGED ret
     \/ "shmat" \in MayFail /\ Fail(p, "shmat", -1, "returned")
  /\ UNCHANGED <<order, objects, data>>

OpenSem(p) ==
  /\ \/ /\ Goto(p, "open_sem", "init_sem")
        /\ semset' = IF semset # 0 THEN semset
                     ELSE IF sem[Other(p)] = 0 THEN 1 ELSE 2
        /\ sem' = [sem EXCEPT ![p] = semset']
        /\ UNCHANGED ret
     \/ "semget" \in MayFail /\ Fail(p, "open_sem", -2, "free_shm") /\ UNCHANGED <<semset, sem>>
  /\ UNCHANGED <<order, segment, shm, val, undo, data>>

\* SETALL to one, whoever holds the semaphore; it also clears every undo value.
InitSem(p) ==
  /\ at[p] = "init_sem"
  /\ IF Removed(p)
     THEN Fail(p, "init_sem", -3, "free_sem") /\ UNCHANGED <<val, undo>>
     ELSE /\ Goto(p, "init_sem", "lock_sem")
          /\ val' = [val EXCEPT ![sem[p]] = 1]
          /\ undo' = [undo EXCEPT ![sem[p]] = [q \in Program |-> 0]]
          /\ UNCHANGED ret
  /\ UNCHANGED <<order, segment, shm, semset, sem, data>>

LockSem(p) ==
  /\ at[p] = "lock_sem"
  /\ IF Removed(p)
     THEN Fail(p, "lock_sem", -4, "free_sem") /\ UNCHANGED <<val, undo>>
     ELSE /\ val[sem[p]] > 0
          /\ Goto(p, "lock_sem", IF p = "server" THEN "write" ELSE "read")
          /\ val' = [val EXCEPT ![sem[p]] = @ - 1]
          /\ undo' = [undo EXCEPT ![sem[p]][p] = @ + 1]
          /\ UNCHANGED ret
  /\ UNCHANGED <<order, segment, shm, semset, sem, data>>

UnlockSem(p) ==
  /\ at[p] = "unlock_sem"
  /\ IF Removed(p)
     THEN Fail(p, "unlock_sem", -5, "free_sem") /\ UNCHANGED <<val, undo>>
     ELSE /\ Goto(p, "unlock_sem", IF p = "server" THEN "poll" ELSE "free_sem")
          /\ val' = [val EXCEPT ![sem[p]] = @ + 1]
          /\ undo' = [undo EXCEPT ![sem[p]][p] = @ - 1]
          /\ UNCHANGED ret
  /\ UNCHANGED <<order, segment, shm, semset, sem, data>>

\* Removing what the other program has removed fails, and the result is not looked at.
FreeSem(p) ==
  /\ Goto(p, "free_sem", "free_shm")
  /\ semset' = IF Removed(p) THEN semset ELSE 0
  /\ UNCHANGED <<order, ret, segment, shm, sem, val, undo, data>>

\* The end of the program gives back what it still holds.
Exit(p) ==
  /\ val' = [s \in 1 .. 2 |-> IF val[s] + undo[s][p] < 0 THEN 0 ELSE val[s] + undo[s][p]]
  /\ undo' = [s \in 1 .. 2 |-> [undo[s] EXCEPT ![p] = 0]]

\* close_shm, free_shm, return
FreeShm(p) ==
  /\ Goto(p, "free_shm", "returned")
  /\ segment' = IF segment = shm[p] THEN 0 ELSE segment
  /\ Exit(p)
  /\ UNCHANGED <<order, ret, shm, semset, sem, data>>

Kill(p) ==
  /\ at[p] \in Live /\ Started(p)
  /\ at' = [at EXCEPT ![p] = "killed"]
  /\ Exit(p)
  /\ UNCHANGED <<order, ret, segment, shm, semset, sem, data>>

-----------------------------------------------------------------------------
\* server.c: the letters, the terminating zero, and the wait for the star.
Write ==
  /\ at["server"] = "write" /\ pos["server"] < Letters
  /\ cell' = [cell EXCEPT ![shm["server"]][pos["server"]] = pos["server"] + 1]
  /\ pos' = [pos EXCEPT !["server"] = @ + 1]
  /\ UNCHANGED <<order, at, ret, objects, printed>>

\* Slip: the loop stops before the last letter.
TerminateEarly ==
  /\ pos["server"] = Letters - 1
  /\ Goto("server", "write", "unlock_sem")
  /\ cell' = [cell EXCEPT ![shm["server"]][pos["server"]] = NUL]
  /\ UNCHANGED <<order, ret, objects, pos, printed>>

Terminate ==
  /\ pos["server"] = Letters
  /\ Goto("server", "write", "unlock_sem")
  /\ cell' = [cell EXCEPT ![shm["server"]][Letters] = NUL]
  /\ UNCHANGED <<order, ret, objects, pos, printed>>

Poll ==
  /\ Goto("server", "poll", "free_sem")
  /\ cell[shm["server"]][0] = Star
  /\ UNCHANGED <<order, ret, objects, data>>

\* client.c: print up to the zero, then write the star.
Read ==
  LET c == cell[shm["client"]][pos["client"]] IN
  /\ at["client"] = "read"
  /\ IF c = NUL
     THEN at' = [at EXCEPT !["client"] = "star"] /\ UNCHANGED <<pos, printed>>
     ELSE /\ pos' = [pos EXCEPT !["client"] = @ + 1]
          /\ printed' = Append(printed, c)
          /\ UNCHANGED at
  /\ UNCHANGED <<order, ret, objects, cell>>

WriteStar ==
  /\ Goto("client", "star", "unlock_sem")
  /\ cell' = [cell EXCEPT ![shm["client"]][0] = Star]
  /\ UNCHANGED <<order, ret, objects, pos, printed>>

-----------------------------------------------------------------------------
Run(p) ==
  \/ OpenShm(p) \/ Attach(p) \/ OpenSem(p) \/ InitSem(p) \/ LockSem(p)
  \/ UnlockSem(p) \/ FreeSem(p) \/ FreeShm(p)
  \/ p = "server" /\ (Write \/ Terminate \/ Poll)
  \/ p = "client" /\ (Read \/ WriteStar)

Next == \E p \in Program : Run(p) \/ Kill(p)

\* Both programs run on.  Each locks once, so weak fairness serves the lock too.
Spec == Init /\ [][Next]_vars
FairSpec == Spec /\ \A p \in Program : WF_vars(Run(p))

-----------------------------------------------------------------------------
HasRead == at["client"] \in {"star", "unlock_sem", "free_sem", "free_shm", "returned"} /\ ret["client"] \in {0, -5}

(***************************************************************************)
(* A client that is started once the server polls prints the whole message *)
(* (server.c:39-42, client.c:28-34), whatever an earlier run left in the   *)
(* segment.  One that is started earlier sets the semaphore to one under   *)
(* the server (client.c:19) and may read while the server writes: what it  *)
(* prints is then a beginning of the message, unless it got the segment of *)
(* an earlier run.                                                         *)
(***************************************************************************)
MessageWhole ==
  HasRead => IF order = "late" THEN printed = Message
             ELSE IsPrefix(printed, Message) \/ shm["client"] = 1

Ended(p) == at[p] \in {"returned", "killed"}
NoFault == \A p \in Program : at[p] # "killed" /\ ret[p] \notin {-1, -2}

(***************************************************************************)
(* The client ends in every order, also when the server is killed under    *)
(* the lock.  Started late and without faults both end, and segment and    *)
(* semaphore are gone: the star is written where the server looks for it.  *)
(***************************************************************************)
PairEnds ==
  /\ Started("client") ~> Ended("client")
  /\ order = "late" /\ []NoFault =>
       <>[](Ended("server") /\ Ended("client") /\ segment = 0 /\ semset = 0)
=============================================================================
