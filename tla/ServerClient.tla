---------------------------- MODULE ServerClient ----------------------------
(***************************************************************************)
(* The two example programs of the shared library, server.c and client.c,  *)
(* each running once on top of SharedLib.  The server writes a message     *)
(* letter by letter under the lock, opens the lock and waits for a star in *)
(* the first cell; the client reads the message under the lock, writes the *)
(* star, detaches and opens the lock.  Both run with SHARED_VERB.          *)
(***************************************************************************)
EXTENDS SharedLib, Sequences

CONSTANTS
  Server, Client,
  Letters,        \* how many letters the message has
  Size,           \* the size both programs ask for
  ServerFirst,    \* is the client started only once the server has the lock?
  Killable        \* the programs that may be killed

ASSUME ProgramsAssumption ==
  /\ Proc = {Server, Client} /\ Server # Client
  /\ Roots = Proc /\ Key # {}
  /\ Letters \in Nat /\ Size \in Sizes /\ Letters < Size
  /\ ServerFirst \in BOOLEAN
  /\ Killable \subseteq Proc

VARIABLES
  at,       \* where each program is
  mem,      \* the bytes of each segment
  i,        \* how far each program has read or written
  znak,     \* the character the program holds
  printed   \* what the client has put on stderr

pvars == <<at, mem, i, znak, printed>>
allvars == <<vars, pvars>>

NUL == 0
Star == Letters + 1
Message == [n \in 1 .. Letters |-> n]
Offset == 0 .. Size - 1
TheKey == CHOOSE k \in Key : TRUE
Id == 0            \* the slot both tables give the one object
Bytes(p) == mem[obj[p][Id].shmid]

\* The library's state and that of the two programs have their types.
PTypeOK ==
  /\ TypeOK
  /\ at \in [Proc -> {"set_verbose", "init", "init_sem", "create", "shmat", "lock",
                      "write", "unlock", "rl_lock", "rl_read", "rl_unlock", "destroy",
                      "read", "star", "detach", "return", "returned", "killed"}]
  /\ mem \in [SegId -> [Offset -> 0 .. Star]]
  /\ i \in [Proc -> 0 .. Size]
  /\ znak \in [Proc -> 0 .. Star]
  /\ printed \in Seq(1 .. Star)

\* The semaphore set of an earlier run may still exist: server.c never removes it.
OldSem == [NoSem EXCEPT !.state = "live", !.val = [id \in Slot |-> 1]]

PInit ==
  /\ LibInit
  /\ seg = [s \in SegId |-> NoSeg]
  /\ sem \in {[j \in SemId |-> NoSem], [j \in SemId |-> IF j = 1 THEN OldSem ELSE NoSem]}
  /\ at = [p \in Proc |-> "set_verbose"]
  /\ mem = [s \in SegId |-> [o \in Offset |-> NUL]]
  /\ i = [p \in Proc |-> 0]
  /\ znak = [p \in Proc |-> NUL]
  /\ printed = <<>>

Goto(p, from, to) == at[p] = from /\ at' = [at EXCEPT ![p] = to]

Data == <<mem, i, znak, printed>>

-----------------------------------------------------------------------------
\* What both programs do alike.
MayStart(p) == p = Client /\ ServerFirst =>
                 at[Server] \in {"write", "unlock", "rl_lock", "rl_read", "rl_unlock"}

PSetVerbose(p) ==
  /\ MayStart(p)
  /\ SetVerbose(p, TRUE)
  /\ Goto(p, "set_verbose", "init")
  /\ UNCHANGED Data

PInitLib(p) ==
  /\ InitSemget(p, p = Server)
  /\ Goto(p, "init", IF semid'[p] = -1 THEN "return"
                     ELSE IF p = Server THEN "init_sem" ELSE "create")
  /\ UNCHANGED Data

PInitSem(p) ==
  /\ InitSemctl(p)
  /\ Goto(p, "init_sem", IF initialized'[p] THEN "create" ELSE "return")
  /\ UNCHANGED Data

\* A new segment comes zero-filled.
PCreate(p) ==
  /\ CreateShmget(p, TheKey, Size)
  /\ Goto(p, "create", "shmat")
  /\ UNCHANGED Data

\* shared_create's error is SHARED_E_SHM, which the test for -1 lets pass; the
\* lock on that id is what fails.
PShmat(p) ==
  /\ \/ CreateShmat(p) /\ Goto(p, "shmat", "lock")
     \/ CreateShmatFails(p) /\ Goto(p, "shmat", "return")
  /\ UNCHANGED Data

PLock(p) ==
  /\ Lock(p, Id)
  /\ Goto(p, "lock", IF p = Server THEN "write" ELSE "read")
  /\ UNCHANGED Data

PUnlock(p) ==
  /\ Unlock(p, Id)
  /\ Goto(p, "unlock", IF p = Server THEN "rl_lock" ELSE "return")
  /\ UNCHANGED Data

PReturn(p) ==
  /\ Exit(p)
  /\ Goto(p, "return", "returned")
  /\ UNCHANGED Data

PKill(p) ==
  /\ p \in Killable
  /\ Exit(p)
  /\ at' = [at EXCEPT ![p] = "killed"]
  /\ UNCHANGED Data

-----------------------------------------------------------------------------
\* for ( znak = 'a'; ... ) shared_write( shared_id, znak - 'a', &znak, 1 )
ServerWrites ==
  /\ at[Server] = "write" /\ i[Server] < Letters
  /\ mem' = IF Accessible(Server, Id, i[Server], 1)
            THEN [mem EXCEPT ![obj[Server][Id].shmid][i[Server]] = i[Server] + 1]
            ELSE mem
  /\ i' = [i EXCEPT ![Server] = @ + 1]
  /\ UNCHANGED <<vars, at, znak, printed>>

\* znak = '\0'; shared_write( shared_id, znak - 'a', &znak, 1 ): the offset is
\* negative, so nothing is written.
ServerTerminates ==
  /\ i[Server] = Letters
  /\ Goto(Server, "write", "unlock")
  /\ znak' = [znak EXCEPT ![Server] = NUL]
  /\ UNCHANGED <<vars, mem, i, printed>>

\* shared_read_locked( shared_id, 0, &znak, 1 ) in its three steps
ServerReadLocks ==
  /\ Lock(Server, Id)
  /\ Goto(Server, "rl_lock", "rl_read")
  /\ UNCHANGED Data

ServerReads ==
  /\ Goto(Server, "rl_read", "rl_unlock")
  /\ znak' = [znak EXCEPT ![Server] = IF Accessible(Server, Id, 0, 1)
                                      THEN Bytes(Server)[0] ELSE @]
  /\ UNCHANGED <<vars, mem, i, printed>>

ServerReadUnlocks ==
  /\ Unlock(Server, Id)
  /\ Goto(Server, "rl_unlock", IF znak[Server] = Star THEN "destroy" ELSE "rl_lock")
  /\ UNCHANGED Data

ServerDestroys ==
  /\ Destroy(Server, Id)
  /\ Goto(Server, "destroy", "return")
  /\ UNCHANGED Data

-----------------------------------------------------------------------------
\* shared_read( shared_id, i, &znak, 1 ); print it unless it is '\0'.  Past the end
\* of the object the read fails and the old character is printed for ever.
ClientReads ==
  LET read == Accessible(Client, Id, i[Client], 1)
      z    == IF read THEN Bytes(Client)[i[Client]] ELSE znak[Client]
  IN  /\ at[Client] = "read"
      /\ znak' = [znak EXCEPT ![Client] = z]
      /\ IF z = NUL
         THEN at' = [at EXCEPT ![Client] = "star"] /\ UNCHANGED <<i, printed>>
         ELSE /\ i' = [i EXCEPT ![Client] = IF read THEN @ + 1 ELSE @]
              /\ printed' = IF read THEN Append(printed, z) ELSE printed
              /\ UNCHANGED at
      /\ UNCHANGED <<vars, mem>>

\* Slip: the star goes to the cell after the message.
ClientStarsAtEnd ==
  /\ Goto(Client, "star", "detach")
  /\ znak' = [znak EXCEPT ![Client] = Star]
  /\ mem' = IF Accessible(Client, Id, i[Client], 1)
            THEN [mem EXCEPT ![obj[Client][Id].shmid][i[Client]] = Star] ELSE mem
  /\ UNCHANGED <<vars, i, printed>>

ClientStars ==
  /\ Goto(Client, "star", "detach")
  /\ znak' = [znak EXCEPT ![Client] = Star]
  /\ mem' = IF Accessible(Client, Id, 0, 1)
            THEN [mem EXCEPT ![obj[Client][Id].shmid][0] = Star] ELSE mem
  /\ UNCHANGED <<vars, i, printed>>

\* Slip: the client opens the lock without having detached.
ClientDetachesNot ==
  /\ Goto(Client, "detach", "unlock")
  /\ UNCHANGED <<vars, Data>>

ClientDetaches ==
  /\ Detach(Client, Id)
  /\ Goto(Client, "detach", "unlock")
  /\ UNCHANGED Data

-----------------------------------------------------------------------------
Run(p) ==
  \/ PSetVerbose(p) \/ PInitLib(p) \/ PInitSem(p) \/ PCreate(p) \/ PShmat(p)
  \/ PLock(p) \/ PUnlock(p) \/ PReturn(p)
  \/ p = Server /\ (\/ ServerWrites \/ ServerTerminates
                    \/ ServerReadLocks \/ ServerReads \/ ServerReadUnlocks
                    \/ ServerDestroys)
  \/ p = Client /\ (ClientReads \/ ClientStars \/ ClientDetaches)

PNext == \E p \in Proc : Run(p) \/ PKill(p)

(***************************************************************************)
(* Each program runs on.  A process that waits for a semaphore is served   *)
(* in order of arrival, so it is not passed over for ever by the other's   *)
(* polling: strong fairness for the locks.                                 *)
(***************************************************************************)
PSpec == PInit /\ [][PNext]_allvars
PFairSpec == PSpec /\ \A p \in Proc : WF_allvars(Run(p)) /\ SF_allvars(PLock(p))
                   /\ SF_allvars(ServerReadLocks)

-----------------------------------------------------------------------------
(***************************************************************************)
(* The client reads the message only after the server has written its last *)
(* letter (readme.txt:67-68): what it has printed when it writes its star  *)
(* is the whole message, unless the server was killed.                     *)
(***************************************************************************)
WholeMessage == at[Client] = "star" /\ at[Server] # "killed" => printed = Message

(***************************************************************************)
(* The server never removes the object while the client has it mapped: the *)
(* star is written and the segment detached under one lock.                *)
(***************************************************************************)
DestroyedUnused ==
  \A s \in SegId : seg[s].state = "dest" => seg[s].nat[Client] = 0

\* The kernel has refused p its resources.
Refused(p) == at[p] = "return" /\ i[p] = 0

(***************************************************************************)
(* If nobody is killed and the kernel refuses neither program its          *)
(* resources, both finish, and the segment is then gone: the server sees   *)
(* the star, which it polls for under the lock the client needs.  And the  *)
(* client finishes even when the server is killed while it holds the lock: *)
(* SEM_UNDO opens it.                                                      *)
(***************************************************************************)
BothFinish ==
  /\ [](\A p \in Proc : at[p] # "killed" /\ ~Refused(p)) =>
       <>[](/\ \A p \in Proc : at[p] = "returned"
            /\ \A s \in SegId : ~Exists(seg[s]))
  /\ at[Client] = "lock" ~> at[Client] \in {"returned", "killed"}
=============================================================================
