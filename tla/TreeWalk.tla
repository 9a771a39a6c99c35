------------------------------ MODULE TreeWalk ------------------------------
(***************************************************************************)
(* skorozadanie3: zadanie_1_03.c (the master) starts proces2 (the slave),  *)
(* and both list the same directory tree.  The master prints a regular     *)
(* file, signals the slave's process group with SIGUSR1 and waits for a    *)
(* SIGUSR1; the slave waits for the signal first, prints, and signals the  *)
(* master's group.  For a subdirectory either forks a child, which lists   *)
(* it, and waits for it with wait(NULL).                                   *)
(*                                                                         *)
(* No sigset_t of the two programs is initialised before sigaddset, so a   *)
(* set holds any other signals.  Of these SIGUSR1 (in the set of           *)
(* executeChoice), SIGUSR2 (in that of listDir) and SIGCHLD matter, and    *)
(* the model lets them be there or not.                                    *)
(***************************************************************************)
EXTENDS Integers, Sequences, FiniteSets

CONSTANTS
  Dir, Root,   \* the directories
  Trees,       \* what they may hold: functions from Dir to sequences of entries, in
               \* the order in which readdir finds them
  MayFail      \* the calls that may fail: a subset of {"fork", "exec"}

ASSUME TreeAssumption ==
  /\ Root \in Dir /\ IsFiniteSet(Dir)
  /\ \A t \in Trees :
       /\ DOMAIN t = Dir
       /\ \A d \in Dir : t[d] \in Seq({t[d][i] : i \in DOMAIN t[d]})
       \* lstat follows no link, so that a directory is found once, and the first one nowhere.
       /\ \A d, e \in Dir : \A i \in DOMAIN t[d], j \in DOMAIN t[e] :
            t[d][i] \in Dir => t[d][i] # Root /\ (t[d][i] = t[e][j] => d = e /\ i = j)
  /\ MayFail \subseteq {"fork", "exec"}

\* A process is known by the program it runs and the directory it lists.
Program == {"master", "slave"}
Process == Program \X Dir
Master == <<"master", Root>>
Slave == <<"slave", Root>>

VARIABLES
  tree,      \* the directory tree
  mask,      \* what the set of executeChoice holds besides SIGUSR2
  pc, pos,   \* of each process: where it is, and the entry it is at
  blocks,    \* has it blocked SIGUSR1?
  usr1,      \* is a SIGUSR1 pending?
  chld,      \* SIGCHLD: "default", or of a set that holds it "blocked" or "pending"
  usr2,      \* is the SIGUSR2 of the master pending?
  out,       \* what has been printed, and by which program
  killed     \* the processes SIGUSR1 has killed

signals == <<mask, blocks, usr1, chld, usr2, killed>>
vars == <<tree, pc, pos, signals, out>>

Init ==
  /\ tree \in Trees
  /\ mask \in SUBSET {"SIGUSR1", "SIGCHLD"}
  /\ pc = [p \in Process |-> IF p = Master THEN "start" ELSE "none"]
  /\ pos = [p \in Process |-> 1]
  /\ blocks = [p \in Process |-> p = Master /\ "SIGUSR1" \in mask]
  /\ usr1 = [p \in Process |-> FALSE]
  /\ chld = [p \in Process |->
               IF p = Master /\ "SIGCHLD" \in mask THEN "blocked" ELSE "default"]
  /\ usr2 = FALSE
  /\ out = <<>>
  /\ killed = {}

Living(p) == pc[p] \notin {"none", "zombie", "gone"}
Entries(p) == tree[p[2]]
Entry(p) == Entries(p)[pos[p]]
AtEnd(p) == pos[p] > Len(Entries(p))

\* The process that has forked p.
ParentOf(p, q) ==
  \/ p = Slave /\ q = Master
  \/ p # Slave /\ p[1] = q[1] /\ \E i \in DOMAIN Entries(q) : Entries(q)[i] = p[2]

Goto(p, from, to) == pc[p] = from /\ pc' = [pc EXCEPT ![p] = to]

\* The end of a process of the set ps: its parent gets SIGCHLD, which is lost on a
\* parent that has not blocked it.
ChldAfter(ps) ==
  [q \in Process |-> IF chld[q] = "blocked" /\ Living(q) /\ \E p \in ps : ParentOf(p, q)
                     THEN "pending" ELSE chld[q]]

Exit(p) ==
  /\ pc' = [pc EXCEPT ![p] = "zombie"]
  /\ chld' = ChldAfter({p})

-----------------------------------------------------------------------------
\* executeChoice of the master: fork, and sigwait for the signals of its set.
StartProgram ==
  /\ pc[Master] = "start"
  /\ pc' = [pc EXCEPT ![Master] = "await", ![Slave] = "exec"]
  /\ blocks' = [blocks EXCEPT ![Slave] = "SIGUSR1" \in mask]
  /\ UNCHANGED <<tree, pos, mask, usr1, chld, usr2, out, killed>>

StartFails ==
  /\ "fork" \in MayFail
  /\ Goto(Master, "start", "zombie")
  /\ UNCHANGED <<tree, pos, signals, out>>

Await ==
  /\ Goto(Master, "await", "open")
  /\ \/ usr2 /\ usr2' = FALSE /\ UNCHANGED <<usr1, chld>>
     \/ usr1[Master] /\ usr1' = [usr1 EXCEPT ![Master] = FALSE] /\ UNCHANGED <<usr2, chld>>
     \/ chld[Master] = "pending" /\ chld' = [chld EXCEPT ![Master] = "blocked"] /\ UNCHANGED <<usr1, usr2>>
  /\ UNCHANGED <<tree, pos, mask, blocks, out, killed>>

\* The slave: execv, and executeChoice of proces2.
Exec ==
  /\ Goto(Slave, "exec", "usr2")
  /\ UNCHANGED <<tree, pos, signals, out>>

\* The child goes back to main and returns from there.
ExecFails ==
  /\ "exec" \in MayFail
  /\ pc[Slave] = "exec" /\ Exit(Slave)
  /\ UNCHANGED <<tree, pos, mask, blocks, usr1, usr2, out, killed>>

\* Slip: the slave does not tell the master to begin.
SendUsr2Not ==
  /\ Goto(Slave, "usr2", "open")
  /\ UNCHANGED <<tree, pos, signals, out>>

SendUsr2 ==
  /\ Goto(Slave, "usr2", "open")
  /\ usr2' = TRUE
  /\ UNCHANGED <<tree, pos, mask, blocks, usr1, chld, out, killed>>

-----------------------------------------------------------------------------
\* Slip: the signal is not blocked.
BlockNothing(p) ==
  /\ Goto(p, "open", "scan")
  /\ UNCHANGED <<tree, pos, signals, out>>

\* listDir, in both programs: opendir and sigprocmask.  A pending SIGCHLD that is not
\* in the new set is discarded.
Block(p) ==
  /\ Goto(p, "open", "scan")
  /\ blocks' = [blocks EXCEPT ![p] = TRUE]
  /\ \/ chld' = [chld EXCEPT ![p] = "default"]
     \/ chld' = [chld EXCEPT ![p] = IF @ = "pending" THEN @ ELSE "blocked"]
  /\ UNCHANGED <<tree, pos, mask, usr1, usr2, out, killed>>

\* The same sigprocmask, in the master with a SIGUSR2 that is still pending because another
\* signal of the set has ended its wait: it kills it unless the new set holds it by chance.
Unblocks(p) ==
  /\ p = Master /\ pc[p] = "open" /\ usr2
  /\ Exit(p)
  /\ UNCHANGED <<tree, pos, mask, blocks, usr1, usr2, out, killed>>

\* A regular file: the master prints first, the slave waits first.
ScanFile(p) ==
  /\ ~AtEnd(p) /\ Entry(p) \notin Dir
  /\ Goto(p, "scan", IF p[1] = "master" THEN "print" ELSE "sigwait")
  /\ UNCHANGED <<tree, pos, signals, out>>

\* A directory: the child inherits the mask, but no pending signals.
ScanDir(p) ==
  /\ ~AtEnd(p) /\ Entry(p) \in Dir
  /\ pc[p] = "scan"
  /\ LET c == <<p[1], Entry(p)>>
     IN  /\ pc' = [pc EXCEPT ![p] = "wait", ![c] = "open"]
         /\ blocks' = [blocks EXCEPT ![c] = TRUE]
  /\ UNCHANGED <<tree, pos, mask, usr1, chld, usr2, out, killed>>

\* A fork that fails goes on to wait(NULL) like one that succeeds.
ScanDirFails(p) ==
  /\ "fork" \in MayFail
  /\ ~AtEnd(p) /\ Entry(p) \in Dir
  /\ Goto(p, "scan", "wait")
  /\ UNCHANGED <<tree, pos, signals, out>>

\* Slip: the entry after the directory is read and dropped.
WaitSkips(p) ==
  /\ pc[p] = "wait"
  /\ \E c \in Process : /\ ParentOf(c, p) /\ pc[c] = "zombie"
                       /\ pc' = [pc EXCEPT ![p] = "scan", ![c] = "gone"]
  /\ pos' = [pos EXCEPT ![p] = @ + 2]
  /\ UNCHANGED <<tree, signals, out>>

\* wait(NULL) takes any child that has ended, or none if there is none.
Wait(p) ==
  /\ pc[p] = "wait"
  /\ \/ \E c \in Process : /\ ParentOf(c, p) /\ pc[c] = "zombie"
                           /\ pc' = [pc EXCEPT ![p] = "scan", ![c] = "gone"]
     \/ /\ \A c \in Process : ParentOf(c, p) => pc[c] \in {"none", "gone"}
        /\ pc' = [pc EXCEPT ![p] = "scan"]
  /\ pos' = [pos EXCEPT ![p] = @ + 1]
  /\ UNCHANGED <<tree, signals, out>>

\* After the last entry a child exits, and the first process returns from main.
Finish(p) ==
  /\ AtEnd(p) /\ pc[p] = "scan"
  /\ Exit(p)
  /\ UNCHANGED <<tree, pos, mask, blocks, usr1, usr2, out, killed>>

Prints(p) ==
  /\ Goto(p, "print", "kill")
  /\ out' = Append(out, <<p[1], Entry(p)>>)
  /\ UNCHANGED <<tree, pos, signals>>

\* kill( -group, SIGUSR1 ): every process of the other program gets it; one that has
\* not blocked it dies.  A zombie counts as a member of its group.
Members(program) == {p \in Process : p[1] = program /\ pc[p] \notin {"none", "gone"}}
Other(p) == IF p[1] = "master" THEN "slave" ELSE "master"

\* Slip: the master does not wait for the answer.
KillNoWait(p) ==
  LET group == {q \in Members(Other(p)) : Living(q)}
      dying == {q \in group : ~blocks[q]}
  IN  /\ pc[p] = "kill" /\ Members(Other(p)) # {}
      /\ usr1' = [q \in Process |-> usr1[q] \/ (q \in group /\ blocks[q])]
      /\ pc' = [q \in Process |->
                  IF q \in dying THEN "zombie" ELSE IF q = p THEN "scan" ELSE pc[q]]
      /\ pos' = [pos EXCEPT ![p] = @ + 1]
      /\ chld' = ChldAfter(dying)
      /\ killed' = killed \cup dying
      /\ UNCHANGED <<tree, mask, blocks, usr2, out>>

Kill(p) ==
  LET group == {q \in Members(Other(p)) : Living(q)}
      dying == {q \in group : ~blocks[q]}
  IN  /\ pc[p] = "kill" /\ Members(Other(p)) # {}
      /\ usr1' = [q \in Process |-> usr1[q] \/ (q \in group /\ blocks[q])]
      /\ pc' = [q \in Process |->
                  IF q \in dying THEN "zombie"
                  ELSE IF q # p THEN pc[q] ELSE IF p[1] = "master" THEN "sigwait" ELSE "scan"]
      /\ pos' = IF p[1] = "master" THEN pos ELSE [pos EXCEPT ![p] = @ + 1]
      /\ chld' = ChldAfter(dying)
      /\ killed' = killed \cup dying
      /\ UNCHANGED <<tree, mask, blocks, usr2, out>>

\* Nobody is left in the group: CHECK ends the process.
KillFails(p) ==
  /\ pc[p] = "kill" /\ Members(Other(p)) = {}
  /\ Exit(p)
  /\ UNCHANGED <<tree, pos, mask, blocks, usr1, usr2, out, killed>>

\* sigwait( &set, &signum ) for the set that listDir has blocked.
Sigwait(p) ==
  /\ Goto(p, "sigwait", IF p[1] = "master" THEN "scan" ELSE "print")
  /\ \/ usr1[p] /\ usr1' = [usr1 EXCEPT ![p] = FALSE] /\ UNCHANGED chld
     \/ chld[p] = "pending" /\ chld' = [chld EXCEPT ![p] = "blocked"] /\ UNCHANGED usr1
  /\ pos' = IF p[1] = "master" THEN [pos EXCEPT ![p] = @ + 1] ELSE pos
  /\ UNCHANGED <<tree, mask, blocks, usr2, out, killed>>

\* Zombies without a living parent, and the master itself, are taken by init or the shell.
Reap(p) ==
  /\ \A q \in Process : ParentOf(p, q) => ~Living(q)
  /\ Goto(p, "zombie", "gone")
  /\ UNCHANGED <<tree, pos, signals, out>>

-----------------------------------------------------------------------------
ListDir(p) == \/ Block(p) \/ Unblocks(p) \/ ScanFile(p) \/ ScanDir(p) \/ ScanDirFails(p) \/ Wait(p)
              \/ Finish(p) \/ Prints(p) \/ Kill(p) \/ KillFails(p) \/ Sigwait(p)

Start == StartProgram \/ StartFails \/ Await \/ Exec \/ ExecFails \/ SendUsr2

Next == Start \/ \E p \in Process : ListDir(p) \/ Reap(p)

Spec == Init /\ [][Next]_vars

\* The processes run on.
FairSpec == Spec /\ WF_vars(Start) /\ \A p \in Process : WF_vars(ListDir(p))

-----------------------------------------------------------------------------
\* Both programs stay inside their directories, and signals are in a known state.
TypeOK ==
  /\ tree \in Trees
  /\ mask \subseteq {"SIGUSR1", "SIGCHLD"}
  /\ pc \in [Process -> {"none", "start", "await", "exec", "usr2", "open", "scan", "wait",
                         "print", "kill", "sigwait", "zombie", "gone"}]
  /\ \A p \in Process : pos[p] \in 1 .. Len(Entries(p)) + 1
  /\ blocks \in [Process -> BOOLEAN]
  /\ usr1 \in [Process -> BOOLEAN]
  /\ chld \in [Process -> {"default", "blocked", "pending"}]
  /\ usr2 \in BOOLEAN
  /\ \A i \in DOMAIN out : out[i][1] \in Program
  /\ killed \subseteq Process

\* The tree has no subdirectory.
Flat == \A i \in DOMAIN tree[Root] : tree[Root][i] \notin Dir

\* No set holds SIGCHLD by chance.
Clean == mask \cap {"SIGCHLD"} = {} /\ \A p \in Process : chld[p] = "default"

Alternates ==
  \A i \in DOMAIN out : IF i % 2 = 1 THEN out[i][1] = "master"
                        ELSE out[i] = <<"slave", out[i - 1][2]>>

(***************************************************************************)
(* In a directory without subdirectories each file is printed by the       *)
(* master and then by the slave before the next one, unless the slave is   *)
(* killed at the start.                                                    *)
(***************************************************************************)
FlatInTandem == Flat /\ killed = {} => Alternates

(***************************************************************************)
(* The same for every tree (zadanie_1_03.c:39, the help of -p: the program *)
(* prints with the first one in tandem).                                   *)
(***************************************************************************)
InTandem == Clean /\ killed = {} => Alternates

(***************************************************************************)
(* SIGUSR1 kills nobody who has begun to list a directory: only a first    *)
(* process that has not blocked it yet.  The slave, which tells the master *)
(* to begin before it blocks the signal, may meet a master that fast; the  *)
(* master dies only where a set that nobody has initialised holds SIGCHLD, *)
(* and the slave takes the end of its own child for the master's signal.   *)
(***************************************************************************)
OnlyUnprepared ==
  /\ killed \subseteq {Master, Slave}
  /\ Slave \in killed => \A i \in DOMAIN out : out[i][1] = "master"
  /\ Master \in killed => ~Clean /\ \A i \in DOMAIN out : out[i][1] = "slave"

Printed(program) == Cardinality({i \in DOMAIN out : out[i][1] = program})
Subdirectories == {d \in Dir \ {Root} : \E e \in Dir : \E i \in DOMAIN tree[e] : tree[e][i] = d}

(***************************************************************************)
(* A process that waits for a subdirectory keeps one signal of those the   *)
(* others exchange meanwhile, and only one (zadanie_1_03.c:153, 162): the  *)
(* slave gets ahead of the master by at most one file for each             *)
(* subdirectory, and so does the master beyond the one it prints first.    *)
(***************************************************************************)
DriftBounded ==
  LET drift == Cardinality(Subdirectories)
  IN  Clean /\ killed = {} => Printed("master") - Printed("slave") \in -drift .. drift + 1

(***************************************************************************)
(* In a directory without subdirectories both programs come to their end   *)
(* once the slave has been started, unless it is killed right then.        *)
(***************************************************************************)
FlatEnds ==
  Flat /\ pc[Slave] = "usr2" ~> killed # {} \/ (~Living(Master) /\ ~Living(Slave))
=============================================================================
