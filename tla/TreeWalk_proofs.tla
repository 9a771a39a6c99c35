--------------------------- MODULE TreeWalk_proofs ---------------------------
(***************************************************************************)
(* TreeWalk, for every directory tree: types, who may die of SIGUSR1, the  *)
(* tandem in a directory without subdirectories, and how far apart the two *)
(* are in others.                                                          *)
(***************************************************************************)
EXTENDS TreeWalk, SequenceTheorems, FiniteSetTheorems, TLAPS

Places == {"none", "start", "await", "exec", "usr2", "open", "scan", "wait", "print", "kill",
           "sigwait", "zombie", "gone"}
Listing == {"scan", "wait", "print", "kill", "sigwait"}
AtEntry == Listing \ {"scan"}
Over == {"zombie", "gone"}

\* How much there is in the directory of a process, and what may be printed.
Size(p) == Len(Entries(p))
Names == UNION {{tree[d][i] : i \in DOMAIN tree[d]} : d \in Dir}

\* The variables have their types, and a process that is at an entry has one.
PlaceTypes ==
  /\ pc \in [Process -> Places]
  /\ pos \in [Process -> Nat]
  /\ \A p \in Process : pos[p] \in 1 .. Size(p) + 1 /\ (pc[p] \in AtEntry => pos[p] <= Size(p))
SignalTypes ==
  /\ blocks \in [Process -> BOOLEAN]
  /\ usr1 \in [Process -> BOOLEAN]
  /\ chld \in [Process -> {"default", "blocked", "pending"}]
  /\ usr2 \in BOOLEAN
  /\ killed \subseteq Process
WalkTypes ==
  /\ tree \in Trees
  /\ mask \subseteq {"SIGUSR1", "SIGCHLD"}
  /\ PlaceTypes /\ SignalTypes
  /\ out \in Seq(Program \X Names)

\* Only the first process of a program is where only it can be, and the slave is not before the master
\* has forked it.
Firsts ==
  /\ \A p \in Process : /\ pc[p] \in {"start", "await"} => p = Master
                        /\ pc[p] \in {"exec", "usr2"} => p = Slave
  /\ pc[Master] = "start" => \A p \in Process : p # Master => pc[p] = "none" /\ ~blocks[p]

\* Who lists a directory has blocked SIGUSR1; who is not a first process has inherited that.
Prepared ==
  \A p \in Process : /\ pc[p] \in Listing => blocks[p]
                     /\ pc[p] = "open" /\ p \notin {Master, Slave} => blocks[p]

\* As long as its first process has not blocked the signal nobody of a program has begun.
Begun ==
  \A p \in {Master, Slave} : ~blocks[p] =>
    /\ \A q \in Process : q[1] = p[1] /\ q # p => pc[q] = "none"
    /\ \A i \in DOMAIN out : out[i][1] # p[1]

\* Who has been killed is dead, and had not blocked the signal.
Dead ==
  killed \subseteq {Master, Slave} /\ \A p \in killed : pc[p] \in {"zombie", "gone"} /\ ~blocks[p]

\* A directory that has not been reached yet is listed by nobody.
Unreached ==
  \A p \in Process : \A i \in DOMAIN Entries(p) :
    Entries(p)[i] \in Dir /\ (i > pos[p] \/ (i = pos[p] /\ pc[p] # "wait"))
      => pc[<<p[1], Entries(p)[i]>>] = "none"

\* Before it has a set of its own, a process has SIGCHLD in a set only if it is the master.
ChldFresh ==
  \A p \in Process : pc[p] \notin Listing \cup {"zombie", "gone"} /\ chld[p] # "default"
    => p = Master /\ "SIGCHLD" \in mask

\* Where no set holds SIGCHLD, the slave's program goes on only when the master has begun.
Waits ==
  ~blocks[Master] /\ Clean =>
    \A q \in Process : q[1] = "slave" => pc[q] \notin {"print", "kill"} /\ ~usr1[q]

\* The inductive invariant.
WalkInv ==
  /\ WalkTypes /\ Firsts /\ Prepared /\ Begun /\ Dead /\ Unreached /\ ChldFresh /\ Waits
  /\ Master \in killed => ~Clean

(***************************************************************************)
(* A directory without subdirectories.  m and s are the entries both       *)
(* processes are at, and Files is what the directory holds.                *)
(***************************************************************************)
Files == Size(Master)
m == pos[Master]
s == pos[Slave]

\* The slave has not been started yet, or could not execute its program.
Absent == pc[Slave] \in Over /\ s <= Files

\* Where the two are with the file the master is at: nobody has printed it yet; the master
\* has; and it has signalled the slave, which prints it and signals back.
MasterTurn ==
  /\ pc[Master] \in {"start", "await", "open", "scan", "print"} \cup Over
  /\ Len(out) = 2 * (m - 1) /\ s = m /\ ~usr1[Slave]
  /\ usr1[Master] => m = Files + 1 /\ pc[Slave] \in Over
  /\ pc[Slave] \in {"none", "exec", "usr2", "open", "scan", "sigwait"} \cup Over
  /\ pc[Master] \in Over => m = Files + 1 \/ pc[Slave] = "none"
HasPrinted ==
  /\ pc[Master] = "kill"
  /\ Len(out) = 2 * m - 1 /\ s = m /\ ~usr1[Slave] /\ ~usr1[Master]
  /\ pc[Slave] \in {"open", "scan", "sigwait"} \cup Over
Signalled ==
  /\ pc[Master] = "sigwait"
  /\ Len(out) = 2 * m - 1 /\ s = m /\ ~usr1[Master]
  /\ \/ usr1[Slave] /\ pc[Slave] \in {"open", "scan", "sigwait"}
     \/ ~usr1[Slave] /\ pc[Slave] \in {"print"} \cup Over
Answering ==
  /\ pc[Master] = "sigwait" /\ pc[Slave] = "kill"
  /\ Len(out) = 2 * m /\ s = m /\ ~usr1[Slave] /\ ~usr1[Master]
Answered ==
  /\ pc[Master] = "sigwait" /\ pc[Slave] \in {"scan", "sigwait"} \cup Over
  /\ Len(out) = 2 * m /\ s = m + 1 /\ ~usr1[Slave] /\ usr1[Master]

\* The master begins only when the slave has its program or has ended without it, and the end of the slave is
\* no answer.
Begins ==
  /\ usr2 => pc[Slave] \notin {"none", "exec", "usr2"} /\ ~Absent
  /\ usr2 => pc[Master] \in {"start", "await"} \/ pc[Slave] \in Over
  /\ pc[Master] \notin {"start", "await"} => pc[Slave] \notin {"exec", "usr2"}
  /\ pc[Master] \in {"open", "scan", "print", "kill", "sigwait"} => pc[Slave] # "none"
  /\ chld[Master] = "pending" => pc[Slave] \in Over
  /\ pc[Master] \notin {"start", "await"} /\ Absent => chld[Master] # "pending"
  /\ chld[Slave] # "pending"
  /\ pc[Slave] = "gone" => pc[Master] \in Over

Lines ==
  \A i \in 1 .. Len(out) : out[i] = <<IF i % 2 = 1 THEN "master" ELSE "slave", tree[Root][(i + 1) \div 2]>>

Stage == MasterTurn \/ HasPrinted \/ Signalled \/ Answering \/ Answered
Alone == \A p \in Process : p \notin {Master, Slave} => pc[p] = "none"
FlatInv == Flat /\ killed = {} => Alone /\ Stage /\ Begins /\ Lines

-----------------------------------------------------------------------------
\* Processes and directories.
LEMMA Who ==
  /\ Root \in Dir /\ Master \in Process /\ Slave \in Process /\ Master # Slave
  /\ Master[1] = "master" /\ Slave[1] = "slave" /\ Master[2] = Root /\ Slave[2] = Root
  /\ \A p \in Process : p[1] \in Program /\ p[2] \in Dir /\ p = <<p[1], p[2]>>
  /\ \A g \in Program, d \in Dir : <<g, d>> \in Process
BY TreeAssumption DEF Process, Program, Master, Slave

\* The trees.
LEMMA Shape ==
  ASSUME tree \in Trees
  PROVE  \A p \in Process :
           /\ Size(p) \in Nat /\ DOMAIN Entries(p) = 1 .. Size(p)
           /\ \A i \in 1 .. Size(p) : Entries(p)[i] \in Names
           /\ \A i \in 1 .. Size(p) : Entries(p)[i] \in Dir => Entries(p)[i] # Root
<1> TAKE p \in Process
<1>1. p[2] \in Dir
  BY Who
<1>2. Entries(p) \in Seq({Entries(p)[i] : i \in DOMAIN Entries(p)})
  BY <1>1, TreeAssumption DEF Entries
<1>3. Size(p) \in Nat /\ DOMAIN Entries(p) = 1 .. Size(p)
  BY <1>2 DEF Size
<1>4. \A i \in DOMAIN Entries(p) : Entries(p)[i] \in Dir => Entries(p)[i] # Root
  BY <1>1, TreeAssumption DEF Entries
<1>5. \A i \in DOMAIN Entries(p) : Entries(p)[i] \in Names
  BY <1>1 DEF Names, Entries
<1> QED
  BY <1>3, <1>4, <1>5

\* The tree and the set of executeChoice stay.
LEMMA TreeStays ==
  ASSUME [Next]_vars
  PROVE  tree' = tree /\ mask' = mask /\ Names' = Names /\ \A p : Entries(p)' = Entries(p) /\ Size(p)' = Size(p)
<1>1. tree' = tree /\ mask' = mask
  BY Zenon DEF Next, vars, signals, Start, ListDir, StartProgram, StartFails, Await, Exec, ExecFails, SendUsr2,
     Block, ScanFile, ScanDir, ScanDirFails, Wait, Finish, Prints, Kill, KillFails, Unblocks, Sigwait, Reap
<1> QED
  BY <1>1 DEF Names, Entries, Size

\* An entry that is reached.
LEMMA AtOne ==
  ASSUME WalkTypes, NEW p \in Process
  PROVE  /\ AtEnd(p) <=> pos[p] > Size(p)
         /\ ~AtEnd(p) => pos[p] <= Size(p)
         /\ pos[p] <= Size(p) => Entry(p) \in Names
         /\ Entry(p) \in Dir => <<p[1], Entry(p)>> \in Process
<1>1. AtEnd(p) <=> pos[p] > Size(p)
  BY DEF AtEnd, Size
<1>2. Size(p) \in Nat /\ pos[p] \in 1 .. Size(p) + 1 /\ \A i \in 1 .. Size(p) : Entries(p)[i] \in Names
  BY Shape DEF WalkTypes, PlaceTypes
<1> QED
  BY <1>1, <1>2, Who DEF Entry

\* The types at the start.
LEMMA WalkTypesInit == Init => WalkTypes
<1> SUFFICES ASSUME Init PROVE WalkTypes
  OBVIOUS
<1>1. \A p \in Process : Size(p) \in Nat
  BY Shape DEF Init
<1>2. out \in Seq(Program \X Names)
  BY EmptySeq DEF Init
<1>3. PlaceTypes
  <2>1. pc \in [Process -> Places]
    BY DEF Init, Places
  <2>2. \A p \in Process : pc[p] \notin AtEntry /\ pos[p] = 1
    BY DEF Init, AtEntry, Listing
  <2>3. pos \in [Process -> Nat]
    BY DEF Init
  <2> QED
    BY <1>1, <2>1, <2>2, <2>3 DEF PlaceTypes
<1>4. SignalTypes
  <2>1. blocks \in [Process -> BOOLEAN] /\ usr1 \in [Process -> BOOLEAN] /\ usr2 \in BOOLEAN /\ killed \subseteq Process
    BY Zenon DEF Init
  <2>2. chld \in [Process -> {"default", "blocked", "pending"}]
    BY DEF Init
  <2> QED
    BY <2>1, <2>2 DEF SignalTypes
<1> QED
  BY <1>2, <1>3, <1>4, Zenon DEF Init, WalkTypes

\* Places: a process moves on from an entry, to an entry, or otherwise stays where it is in its directory.
Moves ==
  /\ pc' \in [Process -> Places] /\ pos' \in [Process -> Nat]
  /\ \A p \in Process :
       \/ pos'[p] = pos[p] /\ (pc'[p] \in AtEntry => pc[p] \in AtEntry \/ pos[p] <= Size(p))
       \/ pos'[p] = pos[p] + 1 /\ pc[p] \in AtEntry /\ pc'[p] \notin AtEntry

LEMMA MovesType ==
  ASSUME WalkTypes, [Next]_vars, Moves
  PROVE  PlaceTypes'
<1>1. \A p \in Process : Size(p) \in Nat
  BY Shape DEF WalkTypes
<1>2. \A p \in Process : Size(p)' = Size(p)
  BY TreeStays
<1>3. \A p \in Process : pos'[p] \in 1 .. Size(p) + 1 /\ (pc'[p] \in AtEntry => pos'[p] <= Size(p))
  BY <1>1 DEF WalkTypes, PlaceTypes, Moves
<1> QED
  BY <1>2, <1>3 DEF PlaceTypes, Moves

\* Every step moves the processes like that.
LEMMA EveryMove == ASSUME WalkTypes, [Next]_vars PROVE Moves
<1> USE DEF Moves, Places, AtEntry, Listing
<1>0. pc \in [Process -> Places] /\ pos \in [Process -> Nat]
  BY DEF WalkTypes, PlaceTypes
<1>1. CASE UNCHANGED <<pc, pos>>
  BY <1>0, <1>1
<1>2. ASSUME NEW p \in Process, NEW to \in Places \ AtEntry, pc' = [pc EXCEPT ![p] = to], UNCHANGED pos PROVE Moves
  BY <1>0, <1>2
<1>3. ASSUME NEW p \in Process, NEW to \in Places, pos[p] <= Size(p), pc' = [pc EXCEPT ![p] = to], UNCHANGED pos PROVE Moves
  BY <1>0, <1>3
<1>4. CASE StartProgram
  BY <1>0, <1>4, Who DEF StartProgram
<1>5. CASE StartFails \/ Await \/ Exec \/ SendUsr2 \/ ExecFails
  BY <1>2, <1>5, Who DEF StartFails, Await, Exec, SendUsr2, ExecFails, Goto, Exit
<1>6. ASSUME NEW p \in Process, Block(p) \/ Finish(p) \/ KillFails(p) \/ Unblocks(p) \/ Reap(p) PROVE Moves
  BY <1>2, <1>6 DEF Block, Finish, KillFails, Unblocks, Reap, Goto, Exit
<1>7. ASSUME NEW p \in Process, ScanFile(p) \/ ScanDirFails(p) PROVE Moves
  BY <1>3, <1>7, AtOne DEF ScanFile, ScanDirFails, Goto
<1>8. ASSUME NEW p \in Process, ScanDir(p) PROVE Moves
  <2>1. <<p[1], Entry(p)>> \in Process /\ pos[p] <= Size(p)
    BY <1>8, AtOne DEF ScanDir
  <2>2. pc' = [pc EXCEPT ![p] = "wait", ![<<p[1], Entry(p)>>] = "open"] /\ UNCHANGED pos
    BY <1>8 DEF ScanDir
  <2> QED
    BY <1>0, <2>1, <2>2
<1>9. ASSUME NEW p \in Process, Wait(p) PROVE Moves
  <2>1. pc[p] = "wait" /\ pos' = [pos EXCEPT ![p] = @ + 1]
    BY <1>9 DEF Wait
  <2>2. pc' = [pc EXCEPT ![p] = "scan"] \/ \E c \in Process : pc[c] = "zombie" /\ pc' = [pc EXCEPT ![p] = "scan", ![c] = "gone"]
    BY <1>9, Zenon DEF Wait
  <2> QED
    BY <1>0, <2>1, <2>2
<1>10. ASSUME NEW p \in Process, Prints(p) PROVE Moves
  BY <1>0, <1>10 DEF Prints, Goto, signals
<1>11. ASSUME NEW p \in Process, Kill(p) PROVE Moves
  <2> DEFINE dying == {q \in Members(Other(p)) : Living(q) /\ ~blocks[q]}
  <2>1. /\ pc[p] = "kill"
        /\ \A q \in Process : pc'[q] = IF q \in dying THEN "zombie" ELSE IF q # p THEN pc[q]
                                      ELSE IF p[1] = "master" THEN "sigwait" ELSE "scan"
        /\ pc' \in [Process -> Places]
        /\ pos' = IF p[1] = "master" THEN pos ELSE [pos EXCEPT ![p] = @ + 1]
    BY <1>0, <1>11 DEF Kill
  <2>2. p \notin dying
    BY Who DEF Members, Other, Program
  <2> HIDE DEF dying
  <2> QED
    BY <1>0, <2>1, <2>2
<1>12. ASSUME NEW p \in Process, Sigwait(p) PROVE Moves
  BY <1>0, <1>12 DEF Sigwait, Goto
<1> QED
  BY <1>1, <1>4, <1>5, <1>6, <1>7, <1>8, <1>9, <1>10, <1>11, <1>12 DEF Next, Start, ListDir, vars

\* Signals keep their types.
LEMMA SignalTypesStep == ASSUME WalkTypes, [Next]_vars PROVE SignalTypes'
<1> USE DEF SignalTypes
<1>0. SignalTypes
  BY DEF WalkTypes
<1>1. ASSUME NEW ps PROVE ChldAfter(ps) \in [Process -> {"default", "blocked", "pending"}]
  BY <1>0 DEF ChldAfter
<1>2. CASE UNCHANGED signals
  BY <1>0, <1>2 DEF signals
<1>3. CASE StartProgram
  BY <1>0, <1>3, Who DEF StartProgram
<1>4. CASE Await \/ SendUsr2
  BY <1>0, <1>4, Who DEF Await, SendUsr2
<1>5. CASE ExecFails
  BY <1>0, <1>1, <1>5 DEF ExecFails, Exit
<1>6. ASSUME NEW p \in Process, Block(p) PROVE SignalTypes'
  BY <1>0, <1>6 DEF Block
<1>7. ASSUME NEW p \in Process, ScanDir(p) PROVE SignalTypes'
  BY <1>0, <1>7 DEF ScanDir
<1>8. ASSUME NEW p \in Process, Finish(p) \/ KillFails(p) \/ Unblocks(p) PROVE SignalTypes'
  BY <1>0, <1>1, <1>8 DEF Finish, KillFails, Unblocks, Exit
<1>9. ASSUME NEW p \in Process, Kill(p) PROVE SignalTypes'
  <2> DEFINE group == {q \in Members(Other(p)) : Living(q)}
             dying == {q \in group : ~blocks[q]}
  <2>1. /\ usr1' = [q \in Process |-> usr1[q] \/ (q \in group /\ blocks[q])]
        /\ chld' = ChldAfter(dying) /\ killed' = killed \cup dying
        /\ UNCHANGED <<blocks, usr2>>
    BY <1>9, Zenon DEF Kill
  <2>2. dying \subseteq Process
    BY DEF Members
  <2> HIDE DEF group, dying
  <2>3. usr1' \in [Process -> BOOLEAN]
    BY <2>1, Zenon
  <2> QED
    BY <1>0, <1>1, <2>1, <2>2, <2>3
<1>10. ASSUME NEW p \in Process, Sigwait(p) PROVE SignalTypes'
  BY <1>0, <1>10 DEF Sigwait
<1>11. ASSUME NEW p \in Process, ScanFile(p) \/ ScanDirFails(p) \/ Wait(p) \/ Prints(p) \/ Reap(p) PROVE UNCHANGED signals
  BY <1>11, Zenon DEF ScanFile, ScanDirFails, Wait, Prints, Reap
<1>12. ASSUME StartFails \/ Exec PROVE UNCHANGED signals
  BY <1>12, Zenon DEF StartFails, Exec
<1> QED
  BY <1>2, <1>3, <1>4, <1>5, <1>6, <1>7, <1>8, <1>9, <1>10, <1>11, <1>12, Zenon DEF Next, Start, ListDir, vars

\* What is printed is of the two programs and of their directories.
LEMMA OutStep == ASSUME WalkTypes, [Next]_vars PROVE out' = out \/ \E p \in Process : Prints(p)
BY Zenon DEF Next, vars, signals, Start, ListDir, StartProgram, StartFails, Await, Exec, ExecFails, SendUsr2,
   Block, ScanFile, ScanDir, ScanDirFails, Wait, Finish, Kill, KillFails, Unblocks, Sigwait, Reap

LEMMA OutType == ASSUME WalkTypes, [Next]_vars PROVE out' \in Seq(Program \X Names)
<1>1. out \in Seq(Program \X Names)
  BY DEF WalkTypes
<1>2. ASSUME NEW p \in Process, Prints(p) PROVE out' \in Seq(Program \X Names)
  <2>1. pc[p] = "print" /\ out' = Append(out, <<p[1], Entry(p)>>)
    BY <1>2 DEF Prints, Goto
  <2>2. pos[p] <= Size(p) /\ Size(p) \in Nat /\ pos[p] \in Nat
    BY <2>1, Shape DEF WalkTypes, PlaceTypes, AtEntry, Listing
  <2>4. Entry(p) \in Names
    BY <2>2, AtOne
  <2>3. <<p[1], Entry(p)>> \in Program \X Names
    BY <2>4, Who
  <2> QED
    BY <1>1, <2>1, <2>3, AppendProperties
<1> QED
  BY <1>1, <1>2, OutStep

\* Every step keeps the types.
LEMMA WalkTypesStep == ASSUME WalkTypes, [Next]_vars PROVE WalkTypes'
BY MovesType, EveryMove, SignalTypesStep, OutType, TreeStays DEF WalkTypes

\* Types give the type invariant of the model.
LEMMA WalkTypesMean == WalkTypes => TypeOK
<1> SUFFICES ASSUME WalkTypes PROVE TypeOK
  OBVIOUS
<1>1. \A p \in Process : pos[p] \in 1 .. Len(Entries(p)) + 1
  BY DEF WalkTypes, PlaceTypes, Size
<1>2. \A i \in DOMAIN out : out[i][1] \in Program
  <2>1. \A i \in DOMAIN out : out[i] \in Program \X Names
    BY DEF WalkTypes
  <2> QED
    BY <2>1
<1>3. pc \in [Process -> Places]
  BY DEF WalkTypes, PlaceTypes
<1> QED
  BY <1>1, <1>2, <1>3 DEF WalkTypes, SignalTypes, TypeOK, Places

\* How a step may move a process q.
Forked(q) ==
  /\ pc'[q] = "open" /\ blocks'[q] /\ q \notin {Master, Slave} /\ pos' = pos
  /\ \E p \in Process : /\ pc[p] = "scan" /\ p[1] = q[1] /\ pos[p] \in DOMAIN Entries(p) /\ Entries(p)[pos[p]] = q[2]
                        /\ q # p => pc'[p] = "wait"
Started(q) == q = Slave /\ pc[Master] = "start" /\ pc'[q] = "exec" /\ pc'[Master] = "await"
Moved(q) ==
  \/ pc'[q] = pc[q]
  \/ pc'[q] \in Over /\ pc[q] # "none" /\ (pc[q] = "wait" => ~blocks[q])
  \/ pc[q] \in Listing /\ pc'[q] \in Listing /\ (pc[q] = "wait" => pos'[q] = pos[q] + 1)
  \/ pc[q] = "open" /\ pc'[q] = "scan" /\ blocks'[q]
  \/ pc[q] \in {"await", "usr2"} /\ pc'[q] = "open"
  \/ pc[q] = "exec" /\ pc'[q] = "usr2"
  \/ pc[q] = "start" /\ pc'[q] = "await"
  \/ Started(q)
  \/ Forked(q)

LEMMA EveryMoved == ASSUME WalkTypes, [Next]_vars, NEW q \in Process PROVE Moved(q)
<1> USE DEF Moved, Over, Listing
<1>0. pc \in [Process -> Places] /\ pos \in [Process -> Nat] /\ blocks \in [Process -> BOOLEAN]
  BY DEF WalkTypes, PlaceTypes, SignalTypes
<1>1. CASE UNCHANGED pc
  BY <1>1
<1>2. ASSUME NEW p \in Process, NEW from, NEW to, Goto(p, from, to),
             \/ to \in Over /\ from \notin {"none", "wait"}
             \/ from \in Listing \ {"wait"} /\ to \in Listing
             \/ from \in {"await", "usr2"} /\ to = "open"
             \/ from = "exec" /\ to = "usr2"
      PROVE  Moved(q)
  BY <1>0, <1>2 DEF Goto
<1>3. CASE StartProgram
  BY <1>0, <1>3, Who DEF StartProgram, Started
<1>4. CASE StartFails \/ Await \/ Exec \/ SendUsr2
  BY <1>2, <1>4, Who DEF StartFails, Await, Exec, SendUsr2
<1>5. CASE ExecFails
  BY <1>0, <1>5, Who DEF ExecFails, Exit
<1>6. ASSUME NEW p \in Process, Block(p) PROVE Moved(q)
  BY <1>0, <1>6 DEF Block, Goto
<1>7. ASSUME NEW p \in Process, ScanFile(p) \/ ScanDirFails(p) \/ Prints(p) \/ Sigwait(p) \/ Reap(p) PROVE Moved(q)
  BY <1>2, <1>7 DEF ScanFile, ScanDirFails, Prints, Sigwait, Reap
<1>8. ASSUME NEW p \in Process, Finish(p) \/ KillFails(p) \/ Unblocks(p) PROVE Moved(q)
  BY <1>0, <1>8 DEF Finish, KillFails, Unblocks, Exit
<1>9. ASSUME NEW p \in Process, ScanDir(p) PROVE Moved(q)
  <2> DEFINE c == <<p[1], Entry(p)>>
  <2>1. c \in Process /\ pos[p] \in DOMAIN Entries(p) /\ Entry(p) # Root /\ Entry(p) = Entries(p)[pos[p]]
    <3>1. pos[p] <= Size(p) /\ pos[p] \in 1 .. Size(p) + 1 /\ Size(p) \in Nat /\ DOMAIN Entries(p) = 1 .. Size(p)
      BY <1>9, AtOne, Shape DEF ScanDir, WalkTypes, PlaceTypes
    <3>2. pos[p] \in 1 .. Size(p)
      BY <3>1
    <3> QED
      BY <1>9, <3>1, <3>2, AtOne, Shape DEF ScanDir, Entry, WalkTypes
  <2>2. /\ pc[p] = "scan" /\ pos' = pos
        /\ pc' = [pc EXCEPT ![p] = "wait", ![c] = "open"] /\ blocks' = [blocks EXCEPT ![c] = TRUE]
    BY <1>9, Zenon DEF ScanDir
  <2>3. c \notin {Master, Slave} /\ c[1] = p[1] /\ c[2] = Entry(p)
    BY <2>1, Who
  <2> HIDE DEF c
  <2>4. CASE q = c
    BY <1>0, <2>1, <2>2, <2>3, <2>4 DEF Forked
  <2>5. CASE q # c
    BY <1>0, <2>2, <2>5
  <2> QED
    BY <2>4, <2>5
<1>10. ASSUME NEW p \in Process, Wait(p) PROVE Moved(q)
  <2>1. pc[p] = "wait" /\ pos' = [pos EXCEPT ![p] = @ + 1]
    BY <1>10 DEF Wait
  <2>2. pc' = [pc EXCEPT ![p] = "scan"] \/ \E c \in Process : pc[c] = "zombie" /\ pc' = [pc EXCEPT ![p] = "scan", ![c] = "gone"]
    BY <1>10, Zenon DEF Wait
  <2> QED
    BY <1>0, <2>1, <2>2
<1>11. ASSUME NEW p \in Process, Kill(p) PROVE Moved(q)
  <2>1. /\ pc[p] = "kill"
        /\ (pc'[q] = "zombie" /\ Living(q) /\ ~blocks[q]) \/ pc'[q] = pc[q] \/ (q = p /\ pc'[q] \in {"sigwait", "scan"})
    BY <1>11 DEF Kill
  <2> QED
    BY <2>1 DEF Living
<1> QED
  BY <1>1, <1>3, <1>4, <1>5, <1>6, <1>7, <1>8, <1>9, <1>10, <1>11, Zenon DEF Next, Start, ListDir, vars

\* Who blocks SIGUSR1, and when.
LEMMA BlocksGrow ==
  ASSUME WalkTypes, [Next]_vars, NEW q \in Process, blocks'[q] # blocks[q]
  PROVE  \/ pc[q] = "open" /\ blocks'[q]
         \/ q = Slave /\ pc[Master] = "start" /\ pc'[Master] = "await"
         \/ Forked(q)
<1>0. pc \in [Process -> Places] /\ pos \in [Process -> Nat] /\ blocks \in [Process -> BOOLEAN]
  BY DEF WalkTypes, PlaceTypes, SignalTypes
<1>1. blocks' = blocks \/ StartProgram \/ \E p \in Process : Block(p) \/ ScanDir(p)
  BY Zenon DEF Next, vars, signals, Start, ListDir, StartFails, Await, Exec, ExecFails, SendUsr2,
     ScanFile, ScanDirFails, Wait, Finish, Prints, Kill, KillFails, Unblocks, Sigwait, Reap
<1>2. CASE StartProgram
  BY <1>0, <1>2, Who DEF StartProgram
<1>3. ASSUME NEW p \in Process, Block(p) PROVE pc[q] = "open" /\ blocks'[q]
  BY <1>0, <1>3 DEF Block, Goto
<1>4. ASSUME NEW p \in Process, ScanDir(p) PROVE Forked(q)
  <2>1. q = <<p[1], Entry(p)>> /\ Entry(p) \in Dir
    BY <1>0, <1>4 DEF ScanDir
  <2>2. pc' = [pc EXCEPT ![p] = "wait", ![q] = "open"] /\ blocks' = [blocks EXCEPT ![q] = TRUE] /\ pos' = pos /\ pc[p] = "scan"
    BY <1>4, <2>1, Zenon DEF ScanDir
  <2>3. pos[p] <= Size(p) /\ pos[p] \in 1 .. Size(p) + 1 /\ Size(p) \in Nat /\ DOMAIN Entries(p) = 1 .. Size(p)
    BY <1>4, AtOne, Shape DEF ScanDir, WalkTypes, PlaceTypes
  <2>4. pos[p] \in 1 .. Size(p)
    BY <2>3
  <2>5. Entry(p) # Root /\ Entry(p) = Entries(p)[pos[p]]
    BY <2>1, <2>3, <2>4, Shape DEF Entry, WalkTypes
  <2>6. q \notin {Master, Slave} /\ q[1] = p[1] /\ q[2] = Entry(p)
    BY <2>1, <2>5, Who
  <2> QED
    BY <1>0, <2>2, <2>3, <2>4, <2>5, <2>6 DEF Forked
<1> QED
  BY <1>1, <1>2, <1>3, <1>4

\* The parts of the invariant are kept by every step.
LEMMA FirstsStep == ASSUME WalkTypes, Firsts, [Next]_vars PROVE Firsts'
<1>1. ASSUME NEW q \in Process PROVE /\ pc'[q] \in {"start", "await"} => q = Master
                                     /\ pc'[q] \in {"exec", "usr2"} => q = Slave
  BY EveryMoved DEF Moved, Firsts, Over, Listing, Started, Forked
<1>2. ASSUME pc'[Master] = "start", NEW q \in Process, q # Master PROVE pc'[q] = "none" /\ ~blocks'[q]
  <2>1. pc[Master] = "start"
    BY <1>2, EveryMoved, Who DEF Moved, Over, Listing, Started, Forked
  <2>2. pc[q] = "none" /\ ~blocks[q] /\ \A p \in Process : pc[p] \in {"start", "none"}
    BY <1>2, <2>1 DEF Firsts
  <2>3. ASSUME Forked(q) PROVE FALSE
    <3>1. PICK p \in Process : pc[p] = "scan"
      BY <2>3, Zenon DEF Forked
    <3> QED
      BY <2>2, <3>1
  <2>4. pc'[q] = "none"
    BY <1>2, <2>2, <2>3, EveryMoved DEF Moved, Over, Listing, Started
  <2>5. blocks'[q] = blocks[q]
    BY <1>2, <2>2, <2>3, BlocksGrow
  <2> QED
    BY <2>2, <2>4, <2>5
<1> QED
  BY <1>1, <1>2 DEF Firsts

LEMMA PreparedStep == ASSUME WalkTypes, Firsts, Prepared, [Next]_vars PROVE Prepared'
<1> SUFFICES ASSUME NEW q \in Process
             PROVE  /\ pc'[q] \in Listing => blocks'[q]
                    /\ pc'[q] = "open" /\ q \notin {Master, Slave} => blocks'[q]
  BY DEF Prepared
<1>1. blocks[q] /\ pc[q] # "none" => blocks'[q]
  BY BlocksGrow, Who DEF WalkTypes, SignalTypes, Firsts, Forked
<1>2. pc[q] \in Listing => blocks[q] /\ pc[q] # "none"
  BY DEF Prepared, Listing
<1>3. pc[q] = "open" /\ q \notin {Master, Slave} => blocks[q]
  BY DEF Prepared
<1>4. pc[q] \in {"await", "usr2"} => q \in {Master, Slave}
  BY DEF Firsts
<1> QED
  BY <1>1, <1>2, <1>3, <1>4, EveryMoved DEF Moved, Over, Listing, Started, Forked

\* What the steps print, whom they kill, and which signals they give.
LEMMA OutGrows ==
  ASSUME WalkTypes, [Next]_vars, NEW i \in DOMAIN out'
  PROVE  \/ i \in DOMAIN out /\ out'[i] = out[i]
         \/ \E p \in Process : pc[p] = "print" /\ out'[i][1] = p[1]
<1>1. CASE out' = out
  BY <1>1
<1>2. ASSUME NEW p \in Process, Prints(p)
      PROVE  (i \in DOMAIN out /\ out'[i] = out[i]) \/ (pc[p] = "print" /\ out'[i][1] = p[1])
  <2>1. pc[p] = "print" /\ out' = Append(out, <<p[1], Entry(p)>>)
    BY <1>2 DEF Prints, Goto
  <2>2. out \in Seq(Program \X Names)
    BY DEF WalkTypes
  <2>3. /\ DOMAIN out = 1 .. Len(out) /\ Len(out) \in Nat /\ DOMAIN out' = 1 .. Len(out) + 1
        /\ \A j \in 1 .. Len(out) : out'[j] = out[j]
        /\ out'[Len(out) + 1] = <<p[1], Entry(p)>>
    BY <2>1, <2>2
  <2>4. i \in DOMAIN out \/ i = Len(out) + 1
    BY <2>3
  <2> QED
    BY <2>1, <2>3, <2>4
<1> QED
  BY <1>1, <1>2, OutStep

LEMMA KilledGrows ==
  ASSUME WalkTypes, [Next]_vars, NEW q \in killed'
  PROVE  \/ q \in killed
         \/ /\ q \in Process /\ Living(q) /\ ~blocks[q] /\ pc'[q] = "zombie" /\ blocks' = blocks
            /\ \E p \in Process : pc[p] = "kill" /\ p[1] # q[1]
<1>1. killed' = killed \/ \E p \in Process : Kill(p)
  BY Zenon DEF Next, vars, signals, Start, ListDir, StartProgram, StartFails, Await, Exec, ExecFails, SendUsr2,
     Block, ScanFile, ScanDir, ScanDirFails, Wait, Finish, Prints, KillFails, Unblocks, Sigwait, Reap
<1>2. ASSUME NEW p \in Process, Kill(p)
      PROVE  \/ q \in killed
             \/ /\ q \in Process /\ Living(q) /\ ~blocks[q] /\ pc'[q] = "zombie" /\ blocks' = blocks
                /\ pc[p] = "kill" /\ p[1] # q[1]
  <2> DEFINE dying == {r \in {r \in Members(Other(p)) : Living(r)} : ~blocks[r]}
  <2>1. /\ pc[p] = "kill" /\ killed' = killed \cup dying /\ blocks' = blocks
        /\ \A r \in Process : r \in dying => pc'[r] = "zombie"
    BY <1>2 DEF Kill
  <2>2. \A r \in dying : r \in Process /\ Living(r) /\ ~blocks[r] /\ r[1] = Other(p)
    BY DEF Members
  <2>3. Other(p) # p[1]
    BY DEF Other
  <2> HIDE DEF dying
  <2> QED
    BY <2>1, <2>2, <2>3
<1> QED
  BY <1>1, <1>2

LEMMA BegunStep ==
  ASSUME WalkTypes, Firsts, Prepared, Begun, [Next]_vars PROVE Begun'
<1> SUFFICES ASSUME NEW p \in {Master, Slave}, ~blocks'[p]
             PROVE  /\ \A q \in Process : q[1] = p[1] /\ q # p => pc'[q] = "none"
                    /\ \A i \in DOMAIN out' : out'[i][1] # p[1]
  BY DEF Begun
<1>0. p \in Process /\ blocks \in [Process -> BOOLEAN]
  BY Who DEF WalkTypes, SignalTypes
<1>1. ~blocks[p]
  BY <1>0, BlocksGrow, Who DEF Firsts, Forked
<1>2. /\ \A q \in Process : q[1] = p[1] /\ q # p => pc[q] = "none"
      /\ \A i \in DOMAIN out : out[i][1] # p[1]
      /\ pc[p] \notin Listing
  BY <1>0, <1>1 DEF Begun, Prepared
<1>3. \A q \in Process : q[1] = p[1] => pc[q] \notin Listing
  BY <1>2 DEF Listing
<1>4. ASSUME NEW q \in Process, q[1] = p[1], q # p PROVE pc'[q] = "none"
  <2>1. pc[q] = "none" /\ ~Forked(q)
    BY <1>2, <1>3, <1>4 DEF Forked, Listing
  <2>2. q # Slave
    BY <1>4, Who
  <2> QED
    BY <2>1, <2>2, EveryMoved DEF Moved, Started, Listing
<1>5. ASSUME NEW i \in DOMAIN out' PROVE out'[i][1] # p[1]
  BY <1>2, <1>3, OutGrows DEF Listing
<1> QED
  BY <1>4, <1>5

LEMMA DeadStep ==
  ASSUME WalkTypes, Firsts, Prepared, Dead, [Next]_vars PROVE Dead'
<1>1. ASSUME NEW q \in killed PROVE q \in {Master, Slave} /\ pc'[q] \in Over /\ ~blocks'[q]
  <2>1. q \in {Master, Slave} /\ q \in Process /\ pc[q] \in Over /\ ~blocks[q]
    BY Who DEF Dead, Over
  <2>2. ~Forked(q) /\ ~(q = Slave /\ pc[Master] = "start")
    BY <2>1, Who DEF Forked, Firsts, Over
  <2>3. pc'[q] \in Over
    BY <2>1, <2>2, EveryMoved DEF Moved, Started, Over, Listing
  <2>4. blocks'[q] = blocks[q]
    BY <2>1, <2>2, BlocksGrow DEF Over
  <2> QED
    BY <2>1, <2>3, <2>4
<1>2. ASSUME NEW q \in Process, Living(q), ~blocks[q] PROVE q \in {Master, Slave}
  <2>1. pc[q] \in Places
    BY DEF WalkTypes, PlaceTypes
  <2> QED
    BY <1>2, <2>1 DEF Living, Prepared, Firsts, Places, Listing
<1>3. \A q \in killed' : q \in {Master, Slave} /\ pc'[q] \in Over /\ ~blocks'[q]
  BY <1>1, <1>2, KilledGrows DEF Over
<1> QED
  BY <1>3 DEF Dead, Over

LEMMA ForkedNew ==
  ASSUME WalkTypes, Unreached, NEW q \in Process, Forked(q) PROVE pc[q] = "none"
<1>1. \E r \in Process : /\ pc[r] = "scan" /\ r[1] = q[1] /\ pos[r] \in DOMAIN Entries(r)
                         /\ Entries(r)[pos[r]] = q[2]
  BY Zenon DEF Forked
<1>2. PICK r \in Process : /\ pc[r] = "scan" /\ r[1] = q[1] /\ pos[r] \in DOMAIN Entries(r)
                          /\ Entries(r)[pos[r]] = q[2]
  BY <1>1
<1>3. Entries(r)[pos[r]] \in Dir /\ <<r[1], Entries(r)[pos[r]]>> = q
  BY <1>2, Who
<1> QED
  BY <1>2, <1>3 DEF Unreached

LEMMA UnreachedStep ==
  ASSUME WalkTypes, Firsts, Prepared, Unreached, [Next]_vars PROVE Unreached'
<1> SUFFICES ASSUME NEW p \in Process, NEW i \in DOMAIN Entries(p), Entries(p)[i] \in Dir,
                    i > pos'[p] \/ (i = pos'[p] /\ pc'[p] # "wait")
             PROVE  pc'[<<p[1], Entries(p)[i]>>] = "none"
  BY TreeStays DEF Unreached
<1> DEFINE c == <<p[1], Entries(p)[i]>>
<1>0. /\ c \in Process /\ c[1] = p[1] /\ c[2] = Entries(p)[i]
      /\ i \in Nat /\ Size(p) \in Nat /\ pos[p] \in Nat /\ c # Slave
  <2>1. i \in Nat /\ Size(p) \in Nat /\ pos[p] \in Nat /\ Entries(p)[i] # Root
    BY Shape DEF WalkTypes, PlaceTypes
  <2>2. c \in Process /\ c[1] = p[1] /\ c[2] = Entries(p)[i]
    BY Who
  <2> QED
    BY <2>1, <2>2, Who
<1>1. pc[p] = "wait" => pc'[p] = "wait" \/ pos'[p] = pos[p] + 1
  BY EveryMoved, ForkedNew, Who DEF Moved, Prepared, Listing, Started, Firsts
<1>2. pos'[p] = pos[p] \/ pos'[p] = pos[p] + 1
  BY EveryMove DEF Moves
<1>3. i > pos[p] \/ (i = pos[p] /\ pc[p] # "wait")
  BY <1>0, <1>1, <1>2
<1>4. pc[c] = "none"
  BY <1>3 DEF Unreached
<1>5. ASSUME Forked(c) PROVE FALSE
  <2>1. /\ pos' = pos
        /\ \E r \in Process : /\ pc[r] = "scan" /\ r[1] = c[1] /\ pos[r] \in DOMAIN Entries(r)
                             /\ Entries(r)[pos[r]] = c[2] /\ (c # r => pc'[r] = "wait")
    BY <1>5, Zenon DEF Forked
  <2>2. PICK r \in Process : /\ pc[r] = "scan" /\ r[1] = p[1] /\ pos[r] \in DOMAIN Entries(r)
                            /\ Entries(r)[pos[r]] = Entries(p)[i] /\ (c # r => pc'[r] = "wait")
    BY <1>0, <2>1
  <2>3. r[2] = p[2] /\ pos[r] = i
    BY <2>2, Who, TreeAssumption DEF WalkTypes, Entries
  <2>4. r = p
    BY <2>2, <2>3, Who
  <2>5. pc'[p] = "wait"
    BY <1>4, <2>2, <2>4
  <2> QED
    BY <1>0, <2>1, <2>3, <2>4, <2>5
<1> HIDE DEF c
<1>6. pc'[c] = "none"
  BY <1>0, <1>4, <1>5, EveryMoved DEF Moved, Listing, Started
<1> QED
  BY <1>6 DEF c

LEMMA ChldGrows ==
  ASSUME WalkTypes, [Next]_vars, NEW q \in Process
  PROVE  /\ chld'[q] # "default" => chld[q] # "default" \/ pc'[q] = "scan"
         /\ chld[q] # "default" => chld'[q] # "default" \/ pc[q] = "open"
<1>0. pc \in [Process -> Places] /\ chld \in [Process -> {"default", "blocked", "pending"}]
  BY DEF WalkTypes, PlaceTypes, SignalTypes
<1>1. CASE chld' = chld
  BY <1>1
<1>2. ASSUME NEW ps, chld' = ChldAfter(ps) PROVE (chld'[q] = "default") <=> (chld[q] = "default")
  BY <1>0, <1>2 DEF ChldAfter
<1>3. ASSUME NEW p \in Process, Block(p) PROVE chld'[q] = chld[q] \/ (pc[q] = "open" /\ pc'[q] = "scan")
  BY <1>0, <1>3 DEF Block, Goto
<1>4. ASSUME NEW p \in Process, Sigwait(p) PROVE (chld'[q] = "default") <=> (chld[q] = "default")
  BY <1>0, <1>4 DEF Sigwait
<1>5. CASE Await
  BY <1>0, <1>5 DEF Await
<1>6. ASSUME ExecFails \/ \E p \in Process : Finish(p) \/ KillFails(p) \/ Unblocks(p) \/ Kill(p) PROVE \E ps : chld' = ChldAfter(ps)
  BY <1>6, Zenon DEF ExecFails, Finish, KillFails, Unblocks, Kill, Exit
<1>7. \/ chld' = chld \/ Await \/ ExecFails
      \/ \E p \in Process : Block(p) \/ Sigwait(p) \/ Finish(p) \/ KillFails(p) \/ Unblocks(p) \/ Kill(p)
  BY Zenon DEF Next, vars, signals, Start, ListDir, StartProgram, StartFails, Exec, SendUsr2,
     ScanFile, ScanDir, ScanDirFails, Wait, Prints, Reap
<1> QED
  BY <1>1, <1>2, <1>3, <1>4, <1>5, <1>6, <1>7

LEMMA ChldFreshStep ==
  ASSUME WalkTypes, Firsts, Unreached, ChldFresh, [Next]_vars PROVE ChldFresh'
<1> SUFFICES ASSUME NEW q \in Process, pc'[q] \notin Listing \cup Over, chld'[q] # "default"
             PROVE  q = Master /\ "SIGCHLD" \in mask
  BY TreeStays DEF ChldFresh, Over
<1>1. chld[q] # "default"
  BY ChldGrows DEF Listing
<1>2. ASSUME Forked(q) PROVE pc[q] = "none"
  BY <1>2, ForkedNew
<1>3. ASSUME Started(q) PROVE pc[q] = "none"
  BY <1>3, Who DEF Started, Firsts
<1>4. pc[q] \notin Listing \cup Over
  BY <1>2, <1>3, EveryMoved DEF Moved, Listing, Over
<1> QED
  BY <1>1, <1>4 DEF ChldFresh, Over

LEMMA CleanStays ==
  ASSUME WalkTypes, ChldFresh, [Next]_vars, Clean' PROVE Clean
<1>1. "SIGCHLD" \notin mask /\ \A q \in Process : chld'[q] = "default"
  BY TreeStays DEF Clean
<1>2. ASSUME NEW q \in Process PROVE chld[q] = "default"
  BY <1>1, ChldGrows DEF ChldFresh, Listing
<1> QED
  BY <1>1, <1>2 DEF Clean

\* Where signals come from: SIGUSR1 from a process of the other program that is about to send it, and
\* the slave's program prints when it has got one, or the end of a child.
LEMMA Usr1Grows ==
  ASSUME WalkTypes, [Next]_vars, NEW q \in Process
  PROVE  usr1'[q] => usr1[q] \/ \E p \in Process : pc[p] = "kill" /\ p[1] # q[1]
<1>0. usr1 \in [Process -> BOOLEAN]
  BY DEF WalkTypes, SignalTypes
<1>1. CASE usr1' = usr1
  BY <1>1
<1>2. ASSUME NEW p \in Process, Kill(p), usr1'[q] PROVE usr1[q] \/ (pc[p] = "kill" /\ p[1] # q[1])
  <2>1. pc[p] = "kill" /\ (usr1[q] \/ q[1] = Other(p))
    BY <1>2, Zenon DEF Kill, Members
  <2> QED
    BY <2>1 DEF Other
<1>3. ASSUME NEW p \in Process, usr1' = [usr1 EXCEPT ![p] = FALSE], usr1'[q] PROVE usr1[q]
  BY <1>0, <1>3
<1>4. ASSUME Await \/ \E p \in Process : Sigwait(p) PROVE usr1' = usr1 \/ \E p \in Process : usr1' = [usr1 EXCEPT ![p] = FALSE]
  BY <1>4, Who, Zenon DEF Await, Sigwait
<1>5. usr1' = usr1 \/ Await \/ \E p \in Process : Kill(p) \/ Sigwait(p)
  BY Zenon DEF Next, vars, signals, Start, ListDir, StartProgram, StartFails, Exec, ExecFails, SendUsr2,
     Block, ScanFile, ScanDir, ScanDirFails, Wait, Finish, KillFails, Unblocks, Prints, Reap
<1> QED
  BY <1>1, <1>2, <1>3, <1>4, <1>5, Zenon

LEMMA SlaveWaits ==
  ASSUME WalkTypes, [Next]_vars, NEW q \in Process, q[1] = "slave", pc'[q] \in {"print", "kill"}
  PROVE  pc[q] \in {"print", "kill"} \/ usr1[q] \/ chld[q] = "pending"
<1>0. pc \in [Process -> Places]
  BY DEF WalkTypes, PlaceTypes
<1>1. CASE pc' = pc
  BY <1>1
<1>2. ASSUME NEW p \in Process, NEW from, NEW to, Goto(p, from, to), to \notin {"print", "kill"} \/ from = "print"
      PROVE  pc[q] \in {"print", "kill"}
  BY <1>0, <1>2 DEF Goto
<1>3. CASE StartProgram
  BY <1>0, <1>3 DEF StartProgram
<1>4. CASE StartFails \/ Await \/ Exec \/ SendUsr2
  BY <1>2, <1>4, Who DEF StartFails, Await, Exec, SendUsr2
<1>5. CASE ExecFails
  BY <1>0, <1>5 DEF ExecFails, Exit
<1>6. ASSUME NEW p \in Process, Block(p) \/ ScanDirFails(p) \/ Prints(p) \/ Reap(p) PROVE pc[q] \in {"print", "kill"}
  BY <1>2, <1>6 DEF Block, ScanDirFails, Prints, Reap
<1>7. ASSUME NEW p \in Process, ScanFile(p) PROVE pc[q] \in {"print", "kill"}
  BY <1>0, <1>7 DEF ScanFile, Goto
<1>8. ASSUME NEW p \in Process, Finish(p) \/ KillFails(p) \/ Unblocks(p) PROVE pc[q] \in {"print", "kill"}
  BY <1>0, <1>8 DEF Finish, KillFails, Unblocks, Exit
<1>9. ASSUME NEW p \in Process, ScanDir(p) PROVE pc[q] \in {"print", "kill"}
  BY <1>0, <1>9 DEF ScanDir
<1>10. ASSUME NEW p \in Process, Wait(p) PROVE pc[q] \in {"print", "kill"}
  BY <1>0, <1>10 DEF Wait
<1>11. ASSUME NEW p \in Process, Kill(p) PROVE pc[q] \in {"print", "kill"}
  BY <1>0, <1>11 DEF Kill
<1>12. ASSUME NEW p \in Process, Sigwait(p) PROVE pc[q] \in {"print", "kill"} \/ usr1[q] \/ chld[q] = "pending"
  <2>1. /\ pc' = [pc EXCEPT ![p] = IF p[1] = "master" THEN "scan" ELSE "print"]
        /\ usr1[p] \/ chld[p] = "pending"
    BY <1>12, Zenon DEF Sigwait, Goto
  <2> QED
    BY <1>0, <2>1
<1> QED
  BY <1>1, <1>3, <1>4, <1>5, <1>6, <1>7, <1>8, <1>9, <1>10, <1>11, <1>12, Zenon DEF Next, Start, ListDir, vars

LEMMA WaitsStep ==
  ASSUME WalkTypes, Firsts, Prepared, Begun, ChldFresh, Waits, [Next]_vars PROVE Waits'
<1> SUFFICES ASSUME ~blocks'[Master], Clean', NEW q \in Process, q[1] = "slave"
             PROVE  pc'[q] \notin {"print", "kill"} /\ ~usr1'[q]
  BY DEF Waits
<1>1. ~blocks[Master]
  BY BlocksGrow, Who DEF Forked
<1>2. Clean /\ chld[q] = "default"
  BY CleanStays DEF Clean
<1>3. pc[q] \notin {"print", "kill"} /\ ~usr1[q]
  BY <1>1, <1>2 DEF Waits
<1>4. \A p \in Process : p[1] = "master" => pc[p] # "kill"
  BY <1>1, Who DEF Begun, Prepared, Listing
<1>5. ~usr1'[q]
  BY <1>3, <1>4, Usr1Grows, Who DEF Program
<1> QED
  BY <1>2, <1>3, <1>5, SlaveWaits

\* The invariant at the start.
LEMMA WalkInit == Init => WalkInv
<1> SUFFICES ASSUME Init PROVE WalkInv
  OBVIOUS
<1>1. WalkTypes
  BY WalkTypesInit
<1>2. \A p \in Process : pc[p] = (IF p = Master THEN "start" ELSE "none")
  BY DEF Init
<1>3. \A p \in Process : p # Master => ~blocks[p]
  BY DEF Init
<1>4. Firsts /\ Prepared /\ Dead
  BY <1>2, <1>3 DEF Firsts, Prepared, Dead, Listing, Init
<1>5. Begun
  BY <1>2, Who DEF Begun, Init
<1>6. Unreached
  <2>1. ASSUME NEW p \in Process, NEW i \in DOMAIN Entries(p), Entries(p)[i] \in Dir
        PROVE  pc[<<p[1], Entries(p)[i]>>] = "none"
    <3>1. tree \in Trees
      BY DEF Init
    <3>2. Entries(p)[i] # Root
      BY <2>1, <3>1, Shape
    <3>3. <<p[1], Entries(p)[i]>> \in Process /\ <<p[1], Entries(p)[i]>> # Master
      BY <2>1, <3>2, Who DEF Master
    <3> QED
      BY <1>2, <3>3
  <2> QED
    BY <2>1 DEF Unreached
<1>7. ChldFresh /\ Waits
  BY <1>2 DEF ChldFresh, Waits, Init
<1> QED
  BY <1>1, <1>4, <1>5, <1>6, <1>7 DEF WalkInv, Init

\* Every step keeps it.
LEMMA WalkStep == WalkInv /\ [Next]_vars => WalkInv'
<1> SUFFICES ASSUME WalkInv, [Next]_vars PROVE WalkInv'
  OBVIOUS
<1> USE DEF WalkInv
<1>1. ASSUME Master \in killed' PROVE ~Clean'
  <2> SUFFICES ASSUME Clean' PROVE FALSE
    OBVIOUS
  <2>1. Clean
    BY CleanStays
  <2>3. Master \notin killed
    BY <2>1
  <2>2. ~blocks[Master] /\ \E p \in Process : pc[p] = "kill" /\ p[1] # Master[1]
    <3>1. \A q \in killed' : q \in killed \/ (~blocks[q] /\ \E p \in Process : pc[p] = "kill" /\ p[1] # q[1])
      BY KilledGrows, Zenon
    <3> QED
      BY <1>1, <2>3, <3>1, Zenon
  <2> QED
    BY <2>1, <2>2, Who DEF Waits, Program
<1> QED
  BY <1>1, WalkTypesStep, FirstsStep, PreparedStep, BegunStep, DeadStep, UnreachedStep, ChldFreshStep, WaitsStep

\* Types of all processes of both programs, for every directory tree.
THEOREM WalkTypeCorrect == Spec => []TypeOK
<1>1. Init => WalkTypes
  BY WalkTypesInit
<1>2. WalkTypes /\ [Next]_vars => WalkTypes'
  BY WalkTypesStep
<1> QED
  BY <1>1, <1>2, WalkTypesMean, PTL DEF Spec

\* Who dies of SIGUSR1 is a first process that has not begun (zadanie_1_03.c and proces2.c).
THEOREM KilledAreUnprepared == Spec => []OnlyUnprepared
<1>1. WalkInv => OnlyUnprepared
  <2> SUFFICES ASSUME WalkInv PROVE OnlyUnprepared
    OBVIOUS
  <2> USE DEF WalkInv
  <2>1. \A i \in DOMAIN out : out[i][1] \in Program
    BY WalkTypesMean DEF TypeOK
  <2>2. \A p \in killed \cap {Master, Slave} : \A i \in DOMAIN out : out[i][1] # p[1]
    BY DEF Dead, Begun
  <2> QED
    BY <2>1, <2>2, Who DEF OnlyUnprepared, Program, Dead
<1> QED
  BY <1>1, WalkInit, WalkStep, PTL DEF Spec

-----------------------------------------------------------------------------
\* A directory without subdirectories.
LEMMA FlatFacts ==
  ASSUME WalkInv, Flat
  PROVE  /\ pc \in [Process -> Places] /\ pos \in [Process -> Nat] /\ usr1 \in [Process -> BOOLEAN]
         /\ chld \in [Process -> {"default", "blocked", "pending"}] /\ Len(out) \in Nat
         /\ Files \in Nat /\ m \in 1 .. Files + 1 /\ s \in 1 .. Files + 1
         /\ \A p \in {Master, Slave} :
              /\ p \in Process
              /\ pc[p] \in AtEntry => pos[p] <= Files
              /\ AtEnd(p) <=> pos[p] > Files
              /\ AtEnd(p) \/ Entry(p) \notin Dir
              /\ Entry(p) = tree[Root][pos[p]]
              /\ \A q \in Process : ~ParentOf(q, Slave)
              /\ ParentOf(p, Master) => p = Slave
<1>1. tree \in Trees /\ Size(Slave) = Files /\ Entries(Master) = tree[Root] /\ Entries(Slave) = tree[Root]
  BY Who DEF WalkInv, WalkTypes, Files, Size, Entries
<1>2. Files \in Nat /\ DOMAIN tree[Root] = 1 .. Files /\ \A i \in 1 .. Files : tree[Root][i] \notin Dir
  BY <1>1, Shape, Who DEF Flat, Files
<1>3. /\ pc \in [Process -> Places] /\ pos \in [Process -> Nat] /\ usr1 \in [Process -> BOOLEAN]
      /\ chld \in [Process -> {"default", "blocked", "pending"}] /\ Len(out) \in Nat
  BY DEF WalkInv, WalkTypes, PlaceTypes, SignalTypes
<1>4. \A p \in {Master, Slave} : /\ p \in Process /\ pos[p] \in 1 .. Files + 1
                                 /\ pc[p] \in AtEntry => pos[p] <= Files
  BY <1>1, Who DEF WalkInv, WalkTypes, PlaceTypes, Files
<1>5. \A p \in {Master, Slave} : /\ AtEnd(p) <=> pos[p] > Files
                                 /\ Entry(p) = tree[Root][pos[p]]
  BY <1>1, Who DEF AtEnd, Entry, Entries, Files, Size
<1>6. \A p \in {Master, Slave} : AtEnd(p) \/ Entry(p) \notin Dir
  BY <1>2, <1>4, <1>5
<1>7. \A q \in Process : ~ParentOf(q, Slave) /\ (q \in {Master, Slave} /\ ParentOf(q, Master) => q = Slave)
  BY <1>1, <1>2, Who DEF ParentOf
<1> QED
  BY <1>2, <1>3, <1>4, <1>5, <1>6, <1>7 DEF m, s

\* The two processes alone go through the stages.
LEMMA AloneStep == ASSUME WalkInv, Flat, Alone, [Next]_vars PROVE Alone'
<1> SUFFICES ASSUME NEW p \in Process, p \notin {Master, Slave} PROVE pc'[p] = "none"
  BY DEF Alone
<1>1. pc[p] = "none"
  BY DEF Alone
<1>2. ASSUME Forked(p) PROVE FALSE
  <2>1. \E r \in Process : /\ pc[r] = "scan" /\ pos[r] \in DOMAIN Entries(r) /\ Entries(r)[pos[r]] = p[2]
    BY <1>2, Zenon DEF Forked
  <2>2. PICK r \in {Master, Slave} : pos[r] \in DOMAIN Entries(r) /\ Entries(r)[pos[r]] = p[2]
    BY <2>1 DEF Alone
  <2> QED
    BY <2>2, Who DEF Flat, Entries
<1> QED
  BY <1>1, <1>2, EveryMoved DEF WalkInv, Moved, Started, Listing

\* Who takes a step.
LEMMA WhoSteps ==
  ASSUME WalkInv, Alone, Flat, Stage, Begins, [Next]_vars
  PROVE  \/ UNCHANGED vars \/ Start \/ Unblocks(Master)
         \/ \E p \in {Master, Slave} : Block(p) \/ ScanFile(p) \/ Finish(p) \/ Prints(p) \/ Kill(p) \/ Sigwait(p) \/ Reap(p)
<1>1. \A p \in Process : ListDir(p) \/ Reap(p) => p \in {Master, Slave}
  <2>1. \A p \in Process : ListDir(p) \/ Reap(p) => pc[p] # "none"
    BY DEF ListDir, Block, ScanFile, ScanDir, ScanDirFails, Wait, Finish, Prints, Kill, KillFails, Unblocks, Sigwait, Reap, Goto
  <2> QED
    BY <2>1 DEF Alone
<1>2. ASSUME NEW p \in {Master, Slave} PROVE ~ScanDir(p) /\ ~ScanDirFails(p)
  BY FlatFacts, Zenon DEF ScanDir, ScanDirFails
<1>3. ASSUME NEW p \in {Master, Slave} PROVE ~Wait(p)
  BY Who DEF Wait, Stage, MasterTurn, HasPrinted, Signalled, Answering, Answered, Over
<1>4. ASSUME NEW p \in {Master, Slave} PROVE ~KillFails(p)
  <2>1. pc[p] = "kill" => \E q \in {Master, Slave} : q[1] = Other(p) /\ pc[q] \notin {"none", "gone"}
    BY Who DEF Other, Begins, Stage, MasterTurn, HasPrinted, Signalled, Answering, Answered, Over
  <2> QED
    BY <2>1, Who, Zenon DEF KillFails, Members
<1>5. ASSUME NEW p \in {Master, Slave}, Unblocks(p) PROVE Unblocks(Master)
  BY <1>5, Zenon DEF Unblocks
<1> QED
  BY <1>1, <1>2, <1>3, <1>4, <1>5, Zenon DEF Next, ListDir

\* A line is added to what has been printed.
LEMMA OneMore ==
  ASSUME WalkInv, NEW p \in {Master, Slave}, Prints(p)
  PROVE  /\ Len(out') = Len(out) + 1 /\ out'[Len(out) + 1] = <<p[1], Entry(p)>>
         /\ \A i \in 1 .. Len(out) : out'[i] = out[i]
<1>1. out \in Seq(Program \X Names)
  BY DEF WalkInv, WalkTypes
<1>2. pc[p] = "print" /\ out' = Append(out, <<p[1], Entry(p)>>)
  BY DEF Prints, Goto
<1>3. pos[p] <= Size(p) /\ p \in Process
  BY <1>2, Who DEF WalkInv, WalkTypes, PlaceTypes, AtEntry, Listing
<1>4. <<p[1], Entry(p)>> \in Program \X Names
  BY <1>3, AtOne, Who DEF WalkInv
<1> QED
  BY <1>1, <1>2, <1>4, AppendProperties

\* A step of one process, and what of it matters to the two.
LEMMA FlatStage ==
  ASSUME WalkInv, Alone, Flat, Stage, Begins, [Next]_vars, killed = {}, killed' = {}
  PROVE  Stage' /\ Begins'
<1> USE DEF Stage, MasterTurn, HasPrinted, Signalled, Answering, Answered, Begins, Absent, m, s, Over, AtEntry,
            Listing, Places
<1>0. /\ pc \in [Process -> Places] /\ pos \in [Process -> Nat] /\ usr1 \in [Process -> BOOLEAN]
      /\ chld \in [Process -> {"default", "blocked", "pending"}] /\ Len(out) \in Nat
      /\ Files \in Nat /\ m \in 1 .. Files + 1 /\ s \in 1 .. Files + 1
      /\ Master \in Process /\ Slave \in Process /\ Master # Slave
      /\ Master[1] = "master" /\ Slave[1] = "slave"
      /\ pc[Master] \in {"wait", "print", "kill", "sigwait"} => m <= Files
  BY FlatFacts, Who
<1>1. Files' = Files
  BY TreeStays DEF Files
<1>2. CASE UNCHANGED vars
  <2>1. UNCHANGED <<pc, pos, usr1, chld, usr2, out>>
    BY <1>2 DEF vars, signals
  <2> QED
    BY <1>1, <2>1
<1>3. CASE StartProgram
  <2>1. /\ pc[Master] = "start" /\ pc' = [pc EXCEPT ![Master] = "await", ![Slave] = "exec"]
        /\ UNCHANGED <<pos, usr1, chld, usr2, out>>
    BY <1>3, Zenon DEF StartProgram
  <2>2. pc'[Master] = "await" /\ pc'[Slave] = "exec"
    BY <1>0, <2>1
  <2>3. pc[Slave] = "none"
    BY <1>0, <2>1 DEF WalkInv, Firsts
  <2> QED
    BY <1>0, <1>1, <2>1, <2>2, <2>3
<1>4. CASE StartFails
  <2>1. /\ pc[Master] = "start" /\ pc' = [pc EXCEPT ![Master] = "zombie"]
        /\ UNCHANGED <<pos, usr1, chld, usr2, out>>
    BY <1>4, Zenon DEF StartFails, Goto, signals
  <2>2. pc'[Master] = "zombie" /\ pc'[Slave] = pc[Slave]
    BY <1>0, <2>1
  <2>3. pc[Slave] = "none"
    BY <1>0, <2>1 DEF WalkInv, Firsts
  <2> QED
    BY <1>0, <1>1, <2>1, <2>2, <2>3
<1>5. CASE Await
  <2>1. /\ pc[Master] = "await" /\ pc' = [pc EXCEPT ![Master] = "open"]
        /\ UNCHANGED <<pos, out>>
        /\ \/ usr2 /\ usr2' = FALSE /\ UNCHANGED <<usr1, chld>>
           \/ usr1[Master] /\ usr1' = [usr1 EXCEPT ![Master] = FALSE] /\ UNCHANGED <<usr2, chld>>
           \/ chld[Master] = "pending" /\ chld' = [chld EXCEPT ![Master] = "blocked"] /\ UNCHANGED <<usr1, usr2>>
    BY <1>5, Zenon DEF Await, Goto
  <2>2. pc'[Master] = "open" /\ pc'[Slave] = pc[Slave]
    BY <1>0, <2>1
  <2>3. /\ usr1'[Slave] = usr1[Slave] /\ chld'[Slave] = chld[Slave]
        /\ usr1'[Master] => usr1[Master]
        /\ chld'[Master] = "pending" => chld[Master] = "pending" /\ ~Absent
    BY <1>0, <2>1
  <2>4. usr2 \/ usr1[Master] \/ chld[Master] = "pending"
    BY <2>1
  <2>5. usr2' => usr2
    BY <2>1
  <2>6. pc[Slave] \notin {"none", "exec", "usr2"}
    BY <2>1, <2>4
  <2> QED
    BY <1>0, <1>1, <2>1, <2>2, <2>3, <2>5, <2>6
<1>6. CASE Exec
  <2>1. /\ pc[Slave] = "exec" /\ pc' = [pc EXCEPT ![Slave] = "usr2"]
        /\ UNCHANGED <<pos, usr1, chld, usr2, out>>
    BY <1>6, Zenon DEF Exec, Goto, signals
  <2>2. pc'[Slave] = "usr2" /\ pc'[Master] = pc[Master]
    BY <1>0, <2>1
  <2> QED
    BY <1>0, <1>1, <2>1, <2>2
<1>7. CASE SendUsr2
  <2>1. /\ pc[Slave] = "usr2" /\ pc' = [pc EXCEPT ![Slave] = "open"]
        /\ UNCHANGED <<pos, usr1, chld, out>>
    BY <1>7, Zenon DEF SendUsr2, Goto
  <2>2. pc'[Slave] = "open" /\ pc'[Master] = pc[Master]
    BY <1>0, <2>1
  <2> QED
    BY <1>0, <1>1, <2>1, <2>2
\* The end of one of them.
<1>8. ASSUME NEW p \in {Master, Slave}, Exit(p)
      PROVE  /\ pc'[Master] = IF p = Master THEN "zombie" ELSE pc[Master]
             /\ pc'[Slave] = IF p = Slave THEN "zombie" ELSE pc[Slave]
             /\ chld'[Slave] = chld[Slave]
             /\ p = Master => chld'[Master] = chld[Master]
  <2>1. pc' = [pc EXCEPT ![p] = "zombie"] /\ chld' = ChldAfter({p})
    BY <1>8 DEF Exit
  <2>2. ~ParentOf(p, Slave) /\ (ParentOf(p, Master) => p = Slave)
    BY <1>0, FlatFacts
  <2>3. chld'[Slave] = chld[Slave] /\ (p = Master => chld'[Master] = chld[Master])
    BY <1>0, <2>1, <2>2 DEF ChldAfter
  <2> QED
    BY <1>0, <2>1, <2>3
<1>9. CASE ExecFails
  <2>1. pc[Slave] = "exec" /\ Exit(Slave) /\ UNCHANGED <<pos, usr1, usr2, out>>
    BY <1>9, Zenon DEF ExecFails
  <2> QED
    BY <1>0, <1>1, <1>8, <2>1
<1>10. ASSUME NEW p \in {Master, Slave}, Finish(p) PROVE Stage' /\ Begins'
  <2>1. pc[p] = "scan" /\ Exit(p) /\ UNCHANGED <<pos, usr1, usr2, out>> /\ pos[p] = Files + 1
    <3>1. pc[p] = "scan" /\ Exit(p) /\ UNCHANGED <<pos, usr1, usr2, out>> /\ AtEnd(p)
      BY <1>10, Zenon DEF Finish
    <3> QED
      BY <1>0, <3>1, FlatFacts
  <2>2. CASE p = Master
    BY <1>0, <1>1, <1>8, <2>1, <2>2
  <2>3. CASE p = Slave
    BY <1>0, <1>1, <1>8, <2>1, <2>3
  <2> QED
    BY <2>2, <2>3
\* Steps that change one place, and perhaps the SIGCHLD of the process.
<1>11. ASSUME NEW p \in {Master, Slave}, Block(p) PROVE Stage' /\ Begins'
  <2>1. /\ pc[p] = "open" /\ pc' = [pc EXCEPT ![p] = "scan"] /\ UNCHANGED <<pos, usr1, usr2, out>>
        /\ \/ chld' = [chld EXCEPT ![p] = "default"]
           \/ chld' = [chld EXCEPT ![p] = IF chld[p] = "pending" THEN chld[p] ELSE "blocked"]
    BY <1>11, Zenon DEF Block, Goto
  <2>2. /\ chld'[Master] = "pending" => chld[Master] = "pending"
        /\ chld'[Slave] = "pending" => chld[Slave] = "pending"
    BY <1>0, <2>1
  <2>3. CASE p = Master
    BY <1>0, <1>1, <2>1, <2>2, <2>3
  <2>4. CASE p = Slave
    BY <1>0, <1>1, <2>1, <2>2, <2>4
  <2> QED
    BY <2>3, <2>4
<1>12. ASSUME NEW p \in {Master, Slave}, ScanFile(p) PROVE Stage' /\ Begins'
  <2>1. /\ pc[p] = "scan" /\ pc' = [pc EXCEPT ![p] = IF p[1] = "master" THEN "print" ELSE "sigwait"]
        /\ UNCHANGED <<pos, usr1, chld, usr2, out>>
    BY <1>12, Zenon DEF ScanFile, Goto, signals
  <2>2. CASE p = Master
    BY <1>0, <1>1, <2>1, <2>2
  <2>3. CASE p = Slave
    BY <1>0, <1>1, <2>1, <2>3
  <2> QED
    BY <2>2, <2>3
<1>13. ASSUME NEW p \in {Master, Slave}, Prints(p) PROVE Stage' /\ Begins'
  <2>1. /\ pc[p] = "print" /\ pc' = [pc EXCEPT ![p] = "kill"] /\ out' = Append(out, <<p[1], Entry(p)>>)
        /\ UNCHANGED <<pos, usr1, chld, usr2>>
    BY <1>13, Zenon DEF Prints, Goto, signals
  <2>2. Len(out') = Len(out) + 1
    BY <1>13, OneMore
  <2>3. CASE p = Master
    <3>1. pc[Master] = "print" /\ pc'[Master] = "kill" /\ pc'[Slave] = pc[Slave]
      BY <1>0, <2>1, <2>3
    <3>2. MasterTurn
      BY <3>1
    <3>3. HasPrinted'
      BY <1>0, <1>1, <2>1, <2>2, <3>1, <3>2
    <3> QED
      BY <1>0, <1>1, <2>1, <3>1, <3>3
  <2>4. CASE p = Slave
    <3>1. pc[Slave] = "print" /\ pc'[Slave] = "kill" /\ pc'[Master] = pc[Master]
      BY <1>0, <2>1, <2>4
    <3>2. Signalled
      BY <3>1
    <3>3. Answering'
      BY <1>0, <1>1, <2>1, <2>2, <3>1, <3>2
    <3> QED
      BY <1>0, <1>1, <2>1, <3>1, <3>3
  <2> QED
    BY <2>3, <2>4
<1>14. ASSUME NEW p \in {Master, Slave}, Reap(p) PROVE Stage' /\ Begins'
  <2>1. /\ pc[p] = "zombie" /\ pc' = [pc EXCEPT ![p] = "gone"] /\ UNCHANGED <<pos, usr1, chld, usr2, out>>
        /\ \A q \in Process : ParentOf(p, q) => ~Living(q)
    BY <1>14, Zenon DEF Reap, Goto, signals
  <2>2. CASE p = Master
    BY <1>0, <1>1, <2>1, <2>2
  <2>3. CASE p = Slave
    <3>1. ~Living(Master)
      BY <1>0, <2>1, <2>3 DEF ParentOf
    <3>2. pc[Master] \in Over
      BY <3>1 DEF Living
    <3> QED
      BY <1>0, <1>1, <2>1, <2>3, <3>2
  <2> QED
    BY <2>2, <2>3
<1>15. ASSUME NEW p \in {Master, Slave}, Kill(p) PROVE Stage' /\ Begins'
  <2> DEFINE group == {q \in Members(Other(p)) : Living(q)}
             dying == {q \in group : ~blocks[q]}
  <2>1. /\ pc[p] = "kill"
        /\ usr1' = [q \in Process |-> usr1[q] \/ (q \in group /\ blocks[q])]
        /\ pc' = [q \in Process |-> IF q \in dying THEN "zombie" ELSE IF q # p THEN pc[q]
                                    ELSE IF p[1] = "master" THEN "sigwait" ELSE "scan"]
        /\ pos' = IF p[1] = "master" THEN pos ELSE [pos EXCEPT ![p] = pos[p] + 1]
        /\ chld' = ChldAfter(dying) /\ killed' = killed \cup dying /\ UNCHANGED <<usr2, out>>
    BY <1>15, Zenon DEF Kill
  <2>2. dying = {}
    BY <2>1
  <2>3. \A q \in {Master, Slave} : q \in group <=> q # p /\ pc[q] \notin {"none", "zombie", "gone"}
    BY <1>0 DEF Members, Other, Living
  <2>4. \A q \in {Master, Slave} : q \in group => blocks[q]
    BY <2>2
  <2> HIDE DEF group, dying
  <2>5. chld'[Master] = chld[Master] /\ chld'[Slave] = chld[Slave]
    BY <1>0, <2>1, <2>2 DEF ChldAfter
  <2>6. \A q \in {Master, Slave} : usr1'[q] <=> usr1[q] \/ q \in group
    BY <1>0, <2>1, <2>4, Zenon
  <2>7. \A q \in {Master, Slave} : pc'[q] = IF q # p THEN pc[q] ELSE IF p[1] = "master" THEN "sigwait" ELSE "scan"
    BY <1>0, <2>1, <2>2
  <2>8. CASE p = Master
    BY <1>0, <1>1, <2>1, <2>3, <2>5, <2>6, <2>7, <2>8
  <2>9. CASE p = Slave
    BY <1>0, <1>1, <2>1, <2>3, <2>5, <2>6, <2>7, <2>9
  <2> QED
    BY <2>8, <2>9
<1>16. ASSUME NEW p \in {Master, Slave}, Sigwait(p) PROVE Stage' /\ Begins'
  <2>1. /\ pc[p] = "sigwait" /\ pc' = [pc EXCEPT ![p] = IF p[1] = "master" THEN "scan" ELSE "print"]
        /\ pos' = IF p[1] = "master" THEN [pos EXCEPT ![p] = pos[p] + 1] ELSE pos
        /\ UNCHANGED <<usr2, out>>
        /\ \/ usr1[p] /\ usr1' = [usr1 EXCEPT ![p] = FALSE] /\ UNCHANGED chld
           \/ chld[p] = "pending" /\ chld' = [chld EXCEPT ![p] = "blocked"] /\ UNCHANGED usr1
    BY <1>16, Zenon DEF Sigwait, Goto
  <2>2. CASE p = Master
    <3>1. pc'[Master] = "scan" /\ pc'[Slave] = pc[Slave] /\ pos'[Master] = m + 1 /\ pos'[Slave] = s
      BY <1>0, <2>1, <2>2
    <3>2. CASE usr1[Master] /\ usr1' = [usr1 EXCEPT ![Master] = FALSE] /\ UNCHANGED chld
      BY <1>0, <1>1, <2>1, <2>2, <3>1, <3>2
    <3>3. CASE chld[Master] = "pending" /\ chld' = [chld EXCEPT ![Master] = "blocked"] /\ UNCHANGED usr1
      BY <1>0, <1>1, <2>1, <2>2, <3>1, <3>3
    <3> QED
      BY <2>1, <2>2, <3>2, <3>3
  <2>3. CASE p = Slave
    <3>1. pc'[Slave] = "print" /\ pc'[Master] = pc[Master] /\ pos' = pos
      BY <1>0, <2>1, <2>3
    <3>2. usr1[Slave] /\ usr1' = [usr1 EXCEPT ![Slave] = FALSE] /\ UNCHANGED chld
      BY <1>0, <2>1, <2>3
    <3> QED
      BY <1>0, <1>1, <2>1, <2>3, <3>1, <3>2
  <2> QED
    BY <2>2, <2>3
<1>17. CASE Unblocks(Master)
  <2>1. pc[Master] = "open" /\ usr2 /\ Exit(Master) /\ UNCHANGED <<pos, usr1, usr2, out>>
    BY <1>17, Zenon DEF Unblocks
  <2>2. pc[Slave] \in Over /\ m = Files + 1
    BY <1>0, <2>1
  <2> QED
    BY <1>0, <1>1, <1>8, <2>1, <2>2
<1> HIDE DEF Stage, Begins
<1> QED
  BY WhoSteps, <1>2, <1>3, <1>4, <1>5, <1>6, <1>7, <1>9, <1>10, <1>11, <1>12, <1>13, <1>14, <1>15, <1>16, <1>17, Zenon DEF Start

\* Every line is of the program whose turn it was, and of the file both were at.
LEMMA FlatLines ==
  ASSUME WalkInv, Alone, Flat, Stage, Lines, [Next]_vars
  PROVE  Lines'
<1> DEFINE Line(i) == <<IF i % 2 = 1 THEN "master" ELSE "slave", tree[Root][(i + 1) \div 2]>>
<1>1. tree' = tree /\ Len(out) \in Nat
  BY TreeStays, FlatFacts
<1>2. CASE out' = out
  BY <1>1, <1>2 DEF Lines
<1>3. ASSUME NEW p \in {Master, Slave}, Prints(p) PROVE Lines'
  <2>1. pc[p] = "print"
    BY <1>3 DEF Prints, Goto
  <2>2. m \in Nat /\ s \in Nat
    BY FlatFacts
  <2>3. /\ Len(out') = Len(out) + 1 /\ out'[Len(out) + 1] = <<p[1], tree[Root][pos[p]]>>
        /\ \A i \in 1 .. Len(out) : out'[i] = out[i]
    BY <1>3, OneMore, FlatFacts
  <2>4. ASSUME p = Master PROVE out'[Len(out) + 1] = Line(Len(out) + 1)
    <3>1. Len(out) + 1 = 2 * m - 1
      BY <1>1, <2>1, <2>2, <2>4 DEF Stage, MasterTurn, HasPrinted, Signalled, Answering, Answered, Over
    <3>2. (Len(out) + 1) % 2 = 1 /\ (Len(out) + 1 + 1) \div 2 = m
      BY <2>2, <3>1
    <3>3. Line(Len(out) + 1) = <<"master", tree[Root][m]>>
      BY <3>2
    <3> HIDE DEF Line
    <3> QED
      BY <2>3, <2>4, <3>3, Who, Zenon DEF m
  <2>5. ASSUME p = Slave PROVE out'[Len(out) + 1] = Line(Len(out) + 1)
    <3>1. Len(out) + 1 = 2 * m /\ s = m
      BY <1>1, <2>1, <2>2, <2>5, Who DEF Stage, MasterTurn, HasPrinted, Signalled, Answering, Answered, Over
    <3>2. (Len(out) + 1) % 2 = 0 /\ (Len(out) + 1 + 1) \div 2 = m
      BY <2>2, <3>1
    <3>3. Line(Len(out) + 1) = <<"slave", tree[Root][s]>>
      BY <3>1, <3>2
    <3> HIDE DEF Line
    <3> QED
      BY <2>3, <2>5, <3>3, Who, Zenon DEF s
  <2>6. out'[Len(out) + 1] = Line(Len(out) + 1)
    BY <2>4, <2>5, Zenon
  <2>7. \A i \in 1 .. Len(out) : out'[i] = Line(i)
    BY <2>3 DEF Lines
  <2> HIDE DEF Line
  <2>8. \A i \in 1 .. Len(out') : out'[i] = Line(i)
    BY <1>1, <2>3, <2>6, <2>7
  <2> QED
    BY <1>1, <2>8 DEF Lines, Line
<1>4. \A p \in Process : Prints(p) => p \in {Master, Slave}
  BY DEF Prints, Goto, Alone
<1> QED
  BY <1>2, <1>3, <1>4, OutStep DEF WalkInv

\* The stages at the start.
LEMMA FlatInit == Init => FlatInv
<1> SUFFICES ASSUME Init, Flat PROVE Alone /\ Stage /\ Begins /\ Lines
  BY DEF FlatInv
<1>1. Alone /\ pc[Master] = "start" /\ pc[Slave] = "none" /\ m = 1 /\ s = 1
  BY Who DEF Init, Alone, m, s
<1>2. Len(out) = 0
  BY DEF Init
<1>3. ~usr1[Slave] /\ ~usr1[Master] /\ ~usr2
  BY Who, Zenon DEF Init
<1>4. chld[Slave] # "pending" /\ chld[Master] # "pending"
  BY Who DEF Init
<1>5. MasterTurn /\ Begins
  BY <1>1, <1>2, <1>3, <1>4 DEF MasterTurn, Begins, Absent, Over
<1> QED
  BY <1>1, <1>2, <1>5 DEF Stage, Lines

\* Every step keeps them.
LEMMA FlatStep == WalkInv /\ FlatInv /\ [Next]_vars => FlatInv'
<1> SUFFICES ASSUME WalkInv, FlatInv, [Next]_vars, Flat', killed' = {} PROVE (Alone /\ Stage /\ Begins /\ Lines)'
  BY DEF FlatInv
<1>1. Flat
  BY TreeStays DEF Flat
<1>2. killed = {}
  <2>1. killed' = killed \/ \E p \in Process : Kill(p)
    BY Zenon DEF Next, vars, signals, Start, ListDir, StartProgram, StartFails, Await, Exec, ExecFails, SendUsr2,
       Block, ScanFile, ScanDir, ScanDirFails, Wait, Finish, Prints, KillFails, Unblocks, Sigwait, Reap
  <2>2. ASSUME NEW p \in Process, Kill(p) PROVE killed \subseteq killed'
    BY <2>2 DEF Kill
  <2> QED
    BY <2>1, <2>2
<1> QED
  BY <1>1, <1>2, AloneStep, FlatStage, FlatLines DEF FlatInv

\* In a directory without subdirectories the two programs print file by file in turn
\* (listDir of zadanie_1_03.c and of proces2.c).
THEOREM FlatIsTandem == Spec => []FlatInTandem
<1>1. WalkInv /\ FlatInv => FlatInTandem
  <2> SUFFICES ASSUME WalkInv, FlatInv, Flat, killed = {} PROVE Alternates
    BY DEF FlatInTandem
  <2>1. Lines /\ Len(out) \in Nat /\ DOMAIN out = 1 .. Len(out)
    BY FlatFacts DEF FlatInv, WalkInv, WalkTypes
  <2>2. ASSUME NEW i \in 1 .. Len(out), i % 2 = 1 PROVE out[i][1] = "master"
    BY <2>1, <2>2 DEF Lines
  <2>3. ASSUME NEW i \in 1 .. Len(out), i % 2 # 1 PROVE out[i] = <<"slave", out[i - 1][2]>>
    <3>1. i - 1 \in 1 .. Len(out) /\ (i - 1 + 1) \div 2 = (i + 1) \div 2
      BY <2>1, <2>3
    <3>2. out[i - 1][2] = tree[Root][(i + 1) \div 2]
      BY <2>1, <3>1 DEF Lines
    <3>3. out[i] = <<"slave", tree[Root][(i + 1) \div 2]>>
      BY <2>1, <2>3 DEF Lines
    <3> QED
      BY <3>2, <3>3
  <2> QED
    BY <2>1, <2>2, <2>3 DEF Alternates
<1> QED
  BY <1>1, WalkInit, WalkStep, FlatInit, FlatStep, PTL DEF Spec

-----------------------------------------------------------------------------
(***************************************************************************)
(* Trees with subdirectories.  Where nobody is killed and no set holds     *)
(* SIGCHLD, the living processes of a program list the directories of a    *)
(* path from the first one, and all but the last wait; the signals that    *)
(* are kept meanwhile, one by each, are what the drift comes from.         *)
(***************************************************************************)
Calm == Clean /\ killed = {}
Of(g) == {p \in Process : p[1] = g}

\* Who waits is at a directory; before the slave is started there is only the master.
WaitsAtDir == \A p \in Process : pc[p] = "wait" => Entry(p) \in Dir
NotStarted ==
  pc[Slave] = "none" => pc[Master] \in {"start"} \cup Over /\ \A p \in Process : p # Master => pc[p] = "none"

\* The first n directories of path are those that the living processes of g list.
Nested(g, n, path) ==
  /\ \A p \in Of(g) : Living(p) <=> \E i \in 1 .. n : path[i] = p[2]
  /\ \A i \in 1 .. n - 1 : pc[<<g, path[i]>>] = "wait" /\ Entry(<<g, path[i]>>) = path[i + 1]
  /\ n > 0 => path[1] = Root
Stack(g) == \E n \in Nat : \E path \in [1 .. n -> Dir] : Nested(g, n, path)
\* A child that has ended is waited for.
Awaited(g) ==
  \A c \in Of(g) \ {Master, Slave} : pc[c] = "zombie" => \E q \in Of(g) : pc[q] = "wait" /\ Entry(q) = c[2]
Orderly(g) == Stack(g) /\ Awaited(g)

\* A directory is found once.
LEMMA FoundOnce ==
  ASSUME WalkTypes, NEW p \in Process, NEW q \in Process, p[1] = q[1],
         NEW i \in 1 .. Size(p), NEW j \in 1 .. Size(q), Entries(p)[i] \in Dir, Entries(p)[i] = Entries(q)[j]
  PROVE  p = q /\ i = j
<1>1. i \in DOMAIN tree[p[2]] /\ j \in DOMAIN tree[q[2]] /\ p[2] \in Dir /\ q[2] \in Dir
  BY Shape, Who DEF WalkTypes, Entries
<1>2. p[2] = q[2] /\ i = j
  BY <1>1, TreeAssumption DEF WalkTypes, Entries
<1> QED
  BY <1>2, Who

\* A process that waits.
LEMMA AtDir ==
  ASSUME WalkTypes, NEW p \in Process, pc[p] \in AtEntry
  PROVE  /\ pos[p] \in 1 .. Size(p) /\ Entry(p) = Entries(p)[pos[p]] /\ Entry(p) # Root
         /\ \A q \in Process : q[1] = p[1] /\ pc[q] \in AtEntry /\ Entry(q) = Entry(p) /\ Entry(p) \in Dir => q = p
<1>1. ASSUME NEW q \in Process, pc[q] \in AtEntry PROVE pos[q] \in 1 .. Size(q) /\ Entry(q) = Entries(q)[pos[q]]
  BY <1>1, Shape DEF WalkTypes, PlaceTypes, Entry
<1>2. Entry(p) # Root
  BY <1>1, Shape, Who DEF WalkTypes
<1> QED
  BY <1>1, <1>2, FoundOnce

\* The last of the path is the one that does not wait.
LEMMA LastOfPath ==
  ASSUME NEW g \in Program, NEW n \in Nat, NEW path \in [1 .. n -> Dir], Nested(g, n, path),
         NEW p \in Of(g), Living(p), pc[p] # "wait"
  PROVE  n > 0 /\ path[n] = p[2] /\ \A i \in 1 .. n - 1 : path[i] # p[2]
<1>1. p = <<g, p[2]>>
  BY Who DEF Of
<1>2. PICK i \in 1 .. n : path[i] = p[2]
  BY DEF Nested
<1>3. \A j \in 1 .. n - 1 : path[j] # p[2]
  BY <1>1 DEF Nested
<1> QED
  BY <1>2, <1>3

\* The processes of a program that are alive and do not wait: one at most.
LEMMA OneActive ==
  ASSUME NEW g \in Program, Stack(g), NEW p \in Of(g), NEW q \in Of(g),
         Living(p), pc[p] # "wait", Living(q), pc[q] # "wait"
  PROVE  p = q
<1>1. p[2] = q[2]
  BY LastOfPath DEF Stack
<1> QED
  BY <1>1, Who DEF Of

\* Nothing changes for the processes of a program.
LEMMA OrderlyKept ==
  ASSUME WalkInv, [Next]_vars, NEW g \in Program, Orderly(g),
         \A p \in Of(g) : /\ pc'[p] = pc[p] \/ (Living(p) /\ pc[p] # "wait" /\ Living(p)') \/ (pc[p] = "zombie" /\ pc'[p] = "gone")
                          /\ pc[p] = "wait" => pos'[p] = pos[p]
  PROVE  Orderly(g)'
<1>1. \A p \in Of(g) : /\ Living(p)' <=> Living(p)
                       /\ pc[p] = "wait" => pc'[p] = "wait" /\ Entry(p)' = Entry(p)
                       /\ pc'[p] = "zombie" => pc[p] = "zombie"
  <2>1. \A p \in Of(g) : /\ Living(p)' <=> Living(p)
                         /\ pc[p] = "wait" => pc'[p] = "wait" /\ pos'[p] = pos[p]
                         /\ pc'[p] = "zombie" => pc[p] = "zombie"
    BY DEF Living
  <2> QED
    BY <2>1, TreeStays DEF Entry
<1>2. PICK n \in Nat : \E path \in [1 .. n -> Dir] : Nested(g, n, path)
  BY DEF Orderly, Stack
<1>3. PICK path \in [1 .. n -> Dir] : Nested(g, n, path)
  BY <1>2
<1>4. \A i \in 1 .. n - 1 : <<g, path[i]>> \in Of(g)
  BY Who DEF Of
<1>5. Nested(g, n, path)'
  BY <1>1, <1>3, <1>4 DEF Nested, Of
<1>6. Awaited(g)'
  BY <1>1 DEF Orderly, Awaited, Of
<1> QED
  BY <1>5, <1>6 DEF Orderly, Stack

\* A process ends: it was the last of its path, and the one before it waits for it.
LEMMA OrderlyExit ==
  ASSUME WalkInv, [Next]_vars, NEW g \in Program, Orderly(g),
         NEW p \in Of(g), Living(p), pc[p] # "wait", pc' = [pc EXCEPT ![p] = "zombie"], pos' = pos
  PROVE  Orderly(g)'
<1>0. pc \in [Process -> Places] /\ p \in Process
  BY DEF WalkInv, WalkTypes, PlaceTypes, Of
<1>1. \A q \in Of(g) : /\ Living(q)' <=> Living(q) /\ q # p
                       /\ pc[q] = "wait" => pc'[q] = "wait" /\ Entry(q)' = Entry(q)
                       /\ pc'[q] = "zombie" => pc[q] = "zombie" \/ q = p
  <2>1. \A q \in Of(g) : /\ Living(q)' <=> Living(q) /\ q # p
                         /\ pc[q] = "wait" => pc'[q] = "wait"
                         /\ pc'[q] = "zombie" => pc[q] = "zombie" \/ q = p
    BY <1>0 DEF Living, Of
  <2> QED
    BY <2>1, TreeStays DEF Entry
<1>2. PICK n \in Nat : \E path \in [1 .. n -> Dir] : Nested(g, n, path)
  BY DEF Orderly, Stack
<1>3. PICK path \in [1 .. n -> Dir] : Nested(g, n, path)
  BY <1>2
<1>4. \A i \in 1 .. n : <<g, path[i]>> \in Of(g) /\ <<g, path[i]>>[2] = path[i]
  BY Who DEF Of
<1>5. n > 0 /\ path[n] = p[2] /\ \A i \in 1 .. n - 1 : path[i] # p[2]
  BY <1>3, LastOfPath
<1> DEFINE rest == [i \in 1 .. n - 1 |-> path[i]]
<1>6. n - 1 \in Nat /\ rest \in [1 .. n - 1 -> Dir]
  BY <1>5
<1>7. Nested(g, n - 1, rest)'
  <2>1. \A q \in Of(g) : Living(q)' <=> \E i \in 1 .. n - 1 : rest[i] = q[2]
    <3>1. \A q \in Of(g) : q[2] = p[2] => q = p
      BY Who DEF Of
    <3>2. \A q \in Of(g) : Living(q) <=> \E i \in 1 .. n : path[i] = q[2]
      BY <1>3 DEF Nested
    <3>3. ASSUME NEW q \in Of(g), NEW i \in 1 .. n - 1, rest[i] = q[2] PROVE Living(q)'
      BY <1>1, <1>5, <3>2, <3>3
    <3>4. ASSUME NEW q \in Of(g), Living(q)' PROVE \E i \in 1 .. n - 1 : rest[i] = q[2]
      <4>1. Living(q) /\ q # p
        BY <1>1, <3>4
      <4>2. PICK i \in 1 .. n : path[i] = q[2]
        BY <3>2, <4>1
      <4>3. i # n
        BY <1>5, <3>1, <4>1, <4>2
      <4> QED
        BY <4>2, <4>3
    <3> QED
      BY <3>3, <3>4
  <2>2. \A i \in 1 .. n - 2 : pc'[<<g, rest[i]>>] = "wait" /\ Entry(<<g, rest[i]>>)' = rest[i + 1]
    BY <1>1, <1>3, <1>4 DEF Nested
  <2>3. n - 1 > 0 => rest[1] = Root
    BY <1>3 DEF Nested
  <2> HIDE DEF rest
  <2> QED
    BY <2>1, <2>2, <2>3 DEF Nested, Of
<1>8. Awaited(g)'
  <2> SUFFICES ASSUME NEW c \in Of(g) \ {Master, Slave}, pc'[c] = "zombie"
               PROVE  \E q \in Of(g) : pc'[q] = "wait" /\ Entry(q)' = c[2]
    BY DEF Awaited, Of
  <2>1. CASE pc[c] = "zombie"
    BY <1>1, <2>1 DEF Orderly, Awaited
  <2>2. CASE c = p
    <3>1. n # 1
      BY <1>3, <1>5, <2>2, Who DEF Nested, Of, Program, Master, Slave
    <3>2. n - 1 \in 1 .. n - 1 /\ pc[<<g, path[n - 1]>>] = "wait" /\ Entry(<<g, path[n - 1]>>) = path[n - 1 + 1]
      BY <1>3, <1>5, <3>1 DEF Nested
    <3> QED
      BY <1>1, <1>4, <1>5, <2>2, <3>2
  <2> QED
    BY <1>1, <2>1, <2>2
<1> HIDE DEF rest
<1>9. Stack(g)'
  BY <1>6, <1>7 DEF Stack
<1> QED
  BY <1>8, <1>9 DEF Orderly

\* A process forks: its child goes on from the end of the path.
LEMMA OrderlyFork ==
  ASSUME WalkInv, [Next]_vars, NEW g \in Program, Orderly(g), NEW p \in Of(g), ScanDir(p)
  PROVE  Orderly(g)'
<1> DEFINE c == <<p[1], Entry(p)>>
<1>0. /\ pc \in [Process -> Places] /\ p \in Process /\ pc[p] = "scan" /\ Entry(p) \in Dir
      /\ pc' = [pc EXCEPT ![p] = "wait", ![c] = "open"] /\ pos' = pos
  BY DEF WalkInv, WalkTypes, PlaceTypes, Of, ScanDir
<1>1. c \in Of(g) /\ c[2] = Entry(p) /\ c = <<g, Entry(p)>> /\ p = <<g, p[2]>> /\ p[2] \in Dir
  BY <1>0, Who DEF Of
<1>2. pc[c] = "none"
  <2>1. pos[p] \in DOMAIN Entries(p) /\ Entries(p)[pos[p]] = Entry(p)
    BY <1>0, Shape, AtOne DEF WalkInv, WalkTypes, PlaceTypes, ScanDir, Entry
  <2> QED
    BY <1>0, <2>1 DEF WalkInv, Unreached
<1> HIDE DEF c
<1>3. \A q \in Of(g) : /\ Living(q)' <=> Living(q) \/ q = c
                       /\ pc[q] = "wait" => pc'[q] = "wait"
                       /\ pc'[q] = "zombie" => pc[q] = "zombie"
                       /\ Entry(q)' = Entry(q)
  <2>1. \A q \in Of(g) : /\ Living(q)' <=> Living(q) \/ q = c
                         /\ pc[q] = "wait" => pc'[q] = "wait"
                         /\ pc'[q] = "zombie" => pc[q] = "zombie"
    BY <1>0, <1>1, <1>2 DEF Living, Of
  <2> QED
    BY <1>0, <2>1, TreeStays DEF Entry
<1>4. pc'[p] = "wait"
  BY <1>0, <1>1, <1>2 DEF Of
<1>5. PICK n \in Nat : \E path \in [1 .. n -> Dir] : Nested(g, n, path)
  BY DEF Orderly, Stack
<1>6. PICK path \in [1 .. n -> Dir] : Nested(g, n, path)
  BY <1>5
<1>7. n > 0 /\ path[n] = p[2]
  <2>1. Living(p) /\ pc[p] # "wait"
    BY <1>0 DEF Living
  <2> QED
    BY <1>6, <2>1, LastOfPath
<1>8. PICK more \in [1 .. n + 1 -> Dir] : more = [i \in 1 .. n + 1 |-> IF i = n + 1 THEN Entry(p) ELSE path[i]]
  <2>1. [i \in 1 .. n + 1 |-> IF i = n + 1 THEN Entry(p) ELSE path[i]] \in [1 .. n + 1 -> Dir]
    BY <1>0
  <2> QED
    BY <2>1, Zenon
<1>9. Nested(g, n + 1, more)'
  <2>1. \A q \in Of(g) : Living(q)' <=> \E i \in 1 .. n + 1 : more[i] = q[2]
    <3>1. \A q \in Of(g) : q[2] = Entry(p) <=> q = c
      BY <1>1, Who DEF Of
    <3>2. \A q \in Of(g) : Living(q) <=> \E i \in 1 .. n : path[i] = q[2]
      BY <1>6 DEF Nested
    <3>3. ASSUME NEW q \in Of(g), NEW i \in 1 .. n + 1, more[i] = q[2] PROVE Living(q)'
      BY <1>3, <1>8, <3>1, <3>2, <3>3
    <3>4. ASSUME NEW q \in Of(g), Living(q)' PROVE \E i \in 1 .. n + 1 : more[i] = q[2]
      <4>1. CASE q = c
        <5>1. n + 1 \in 1 .. n + 1 /\ more[n + 1] = Entry(p)
          BY <1>8
        <5> QED
          BY <1>1, <4>1, <5>1
      <4>2. CASE Living(q)
        <5>1. PICK i \in 1 .. n : path[i] = q[2]
          BY <3>2, <4>2
        <5>2. i \in 1 .. n + 1 /\ more[i] = path[i]
          BY <1>8
        <5> QED
          BY <5>1, <5>2
      <4> QED
        BY <1>3, <3>4, <4>1, <4>2
    <3> QED
      BY <3>3, <3>4
  <2>2. ASSUME NEW i \in 1 .. n PROVE pc'[<<g, more[i]>>] = "wait" /\ Entry(<<g, more[i]>>)' = more[i + 1]
    <3>1. CASE i = n
      <4>1. more[i] = p[2] /\ more[i + 1] = Entry(p)
        BY <1>7, <1>8, <3>1
      <4>2. <<g, more[i]>> = p
        BY <1>1, <4>1
      <4>3. p \in Of(g) /\ Entry(p)' = Entry(p)
        BY <1>3
      <4> QED
        BY <1>4, <4>1, <4>2, <4>3
    <3>2. CASE i # n
      <4>1. more[i] = path[i] /\ more[i + 1] = path[i + 1] /\ i \in 1 .. n - 1
        BY <1>8, <3>2
      <4>2. pc[<<g, path[i]>>] = "wait" /\ Entry(<<g, path[i]>>) = path[i + 1]
        BY <1>6, <4>1 DEF Nested
      <4>3. <<g, path[i]>> \in Of(g)
        BY Who DEF Of
      <4> QED
        BY <1>3, <4>1, <4>2, <4>3
    <3> QED
      BY <3>1, <3>2
  <2>3. more[1] = Root
    BY <1>6, <1>7, <1>8 DEF Nested
  <2>4. (n + 1) - 1 = n
    OBVIOUS
  <2>5. \A i \in 1 .. (n + 1) - 1 : (pc[<<g, more[i]>>] = "wait" /\ Entry(<<g, more[i]>>) = more[i + 1])'
    BY <2>2, <2>4, Zenon
  <2> QED
    BY <2>1, <2>3, <2>5, Zenon DEF Nested, Of
<1>10. Stack(g)'
  <2>1. n + 1 \in Nat
    OBVIOUS
  <2> QED
    BY <1>9, <2>1 DEF Stack
<1>11. Awaited(g)'
  BY <1>3 DEF Orderly, Awaited, Of
<1> QED
  BY <1>10, <1>11 DEF Orderly

\* A process whose child has ended goes on, and it is the last of the path again.
LEMMA OrderlyWait ==
  ASSUME WalkInv, [Next]_vars, WaitsAtDir, NEW g \in Program, Orderly(g), NEW p \in Of(g), Wait(p),
         p = Master => pc'[Slave] # "gone"
  PROVE  Orderly(g)'
<1>0. /\ pc \in [Process -> Places] /\ pos \in [Process -> Nat] /\ p \in Process /\ pc[p] = "wait" /\ Entry(p) \in Dir
      /\ pos' = [pos EXCEPT ![p] = pos[p] + 1]
  BY DEF WalkInv, WalkTypes, PlaceTypes, Of, Wait, WaitsAtDir
<1>1. \/ \E c \in Process : ParentOf(c, p) /\ pc[c] = "zombie" /\ pc' = [pc EXCEPT ![p] = "scan", ![c] = "gone"]
      \/ (\A c \in Process : ParentOf(c, p) => pc[c] \in {"none", "gone"}) /\ pc' = [pc EXCEPT ![p] = "scan"]
  BY Zenon DEF Wait
\* The child it waits for is not alive, and if another one has ended it is not waited for by p.
<1>2. ASSUME NEW c \in Of(g), c[2] = Entry(p) PROVE ParentOf(c, p) /\ c # Slave
  <2>1. /\ pos[p] \in DOMAIN Entries(p) /\ Entries(p)[pos[p]] = Entry(p) /\ Entry(p) # Root
    BY <1>0, Shape, AtDir DEF WalkInv, WalkTypes, AtEntry, Listing
  <2> QED
    BY <1>2, <2>1, Who DEF ParentOf, Of
<1>3. ASSUME NEW c \in Process, ParentOf(c, p), pc[c] = "zombie", pc' = [pc EXCEPT ![p] = "scan", ![c] = "gone"]
      PROVE  c \in Of(g) /\ c[2] = Entry(p)
  <2>1. c # Slave
    BY <1>0, <1>3, Who DEF ParentOf
  <2>2. PICK i \in DOMAIN Entries(p) : Entries(p)[i] = c[2] /\ c[1] = p[1]
    BY <1>3, <2>1 DEF ParentOf
  <2>3. i \in 1 .. Size(p) /\ c[2] \in Dir /\ c[2] # Root
    BY <1>0, <2>2, Shape, Who DEF WalkInv, WalkTypes
  <2>4. c \in Of(g) \ {Master, Slave}
    BY <2>2, <2>3, Who DEF Of
  <2>5. PICK q \in Of(g) : pc[q] = "wait" /\ Entry(q) = c[2]
    BY <1>3, <2>4 DEF Orderly, Awaited
  <2>6. q \in Process /\ q[1] = p[1] /\ pos[q] \in 1 .. Size(q) /\ Entries(q)[pos[q]] = c[2]
    BY <2>5, AtDir DEF Of, AtEntry, Listing, WalkInv
  <2>7. q = p
    BY <1>0, <2>2, <2>3, <2>6, FoundOnce DEF WalkInv
  <2> QED
    BY <2>4, <2>5, <2>7
<1>4. \A c \in Of(g) : c[2] = Entry(p) => ~Living(c)
  BY <1>1, <1>2, <1>3, Who DEF Living, Of
<1>5. \A q \in Of(g) : /\ Living(q)' <=> Living(q)
                       /\ pc[q] = "wait" /\ q # p => pc'[q] = "wait" /\ Entry(q)' = Entry(q)
                       /\ pc'[q] = "zombie" => pc[q] = "zombie" /\ q[2] # Entry(p)
  <2>1. \A q \in Of(g) : /\ Living(q)' <=> Living(q)
                         /\ pc[q] = "wait" /\ q # p => pc'[q] = "wait" /\ pos'[q] = pos[q]
                         /\ pc'[q] = "zombie" => pc[q] = "zombie"
    BY <1>0, <1>1 DEF Living, Of
  <2>2. ASSUME NEW q \in Of(g), q[2] = Entry(p) PROVE pc'[q] # "zombie"
    <3>1. q # p => (pc[q] = "zombie" => pc'[q] = "gone")
      BY <1>0, <1>1, <1>2, <1>3, <2>2, Who DEF Of
    <3> QED
      BY <1>0, <2>1, <3>1
  <2> QED
    BY <2>1, <2>2, TreeStays DEF Entry
<1>6. PICK n \in Nat : \E path \in [1 .. n -> Dir] : Nested(g, n, path)
  BY DEF Orderly, Stack
<1>7. PICK path \in [1 .. n -> Dir] : Nested(g, n, path)
  BY <1>6
<1>8. \A i \in 1 .. n : <<g, path[i]>> \in Of(g) /\ <<g, path[i]>>[2] = path[i]
  BY Who DEF Of
<1>9. ASSUME NEW i \in 1 .. n - 1 PROVE <<g, path[i]>> # p
  <2>1. i + 1 \in 1 .. n /\ Entry(<<g, path[i]>>) = path[i + 1]
    BY <1>7 DEF Nested
  <2>2. Living(<<g, path[i + 1]>>)
    BY <1>7, <1>8, <2>1 DEF Nested
  <2> QED
    BY <1>4, <1>8, <2>1, <2>2
<1>10. Nested(g, n, path)'
  <2>1. \A q \in Of(g) : Living(q)' <=> \E i \in 1 .. n : path[i] = q[2]
    BY <1>5, <1>7 DEF Nested
  <2>2. ASSUME NEW i \in 1 .. n - 1 PROVE pc'[<<g, path[i]>>] = "wait" /\ Entry(<<g, path[i]>>)' = path[i + 1]
    <3>1. <<g, path[i]>> \in Of(g) /\ <<g, path[i]>> # p
      BY <1>8, <1>9
    <3>2. pc[<<g, path[i]>>] = "wait" /\ Entry(<<g, path[i]>>) = path[i + 1]
      BY <1>7 DEF Nested
    <3> QED
      BY <1>5, <3>1, <3>2
  <2> QED
    BY <1>7, <2>1, <2>2 DEF Nested, Of
<1>11. Awaited(g)'
  <2> SUFFICES ASSUME NEW c \in Of(g) \ {Master, Slave}, pc'[c] = "zombie"
               PROVE  \E q \in Of(g) : pc'[q] = "wait" /\ Entry(q)' = c[2]
    BY DEF Awaited, Of
  <2>1. PICK q \in Of(g) : pc[q] = "wait" /\ Entry(q) = c[2]
    BY <1>5 DEF Orderly, Awaited
  <2>2. q # p
    BY <1>5, <2>1
  <2> QED
    BY <1>5, <2>1, <2>2
<1>12. Stack(g)'
  BY <1>10 DEF Stack
<1> QED
  BY <1>11, <1>12 DEF Orderly

\* Where nobody dies of it, kill() leaves a signal to each living process of the other program.
LEMMA CalmKill ==
  ASSUME WalkInv, Calm, Calm', NEW p \in Process, Kill(p)
  PROVE  /\ pc[p] = "kill" /\ pc' = [pc EXCEPT ![p] = IF p[1] = "master" THEN "sigwait" ELSE "scan"]
         /\ pos' = IF p[1] = "master" THEN pos ELSE [pos EXCEPT ![p] = @ + 1]
         /\ \A q \in Process : usr1'[q] = (usr1[q] \/ (q[1] # p[1] /\ Living(q) /\ blocks[q]))
         /\ UNCHANGED <<tree, out>>
         /\ \E q \in Process : q[1] = Other(p) /\ pc[q] \notin {"none", "gone"}
<1> DEFINE group == {q \in Members(Other(p)) : Living(q)}
           dying == {q \in group : ~blocks[q]}
<1>1. /\ pc[p] = "kill" /\ Members(Other(p)) # {}
      /\ usr1' = [q \in Process |-> usr1[q] \/ (q \in group /\ blocks[q])]
      /\ pc' = [q \in Process |->
                  IF q \in dying THEN "zombie"
                  ELSE IF q # p THEN pc[q] ELSE IF p[1] = "master" THEN "sigwait" ELSE "scan"]
      /\ pos' = IF p[1] = "master" THEN pos ELSE [pos EXCEPT ![p] = @ + 1]
      /\ killed' = killed \cup dying /\ UNCHANGED <<tree, out>>
  BY Zenon DEF Kill
<1>2. dying = {}
  BY <1>1, Zenon DEF Calm
<1>3. \A q \in Process : q \in group <=> q[1] # p[1] /\ Living(q)
  BY Who DEF Members, Living, Other, Program
<1> HIDE DEF group, dying
<1>4. pc' = [pc EXCEPT ![p] = IF p[1] = "master" THEN "sigwait" ELSE "scan"]
  BY <1>1, <1>2 DEF WalkInv, WalkTypes, PlaceTypes
<1>5. \A q \in Process : usr1'[q] = (usr1[q] \/ (q[1] # p[1] /\ Living(q) /\ blocks[q]))
  BY <1>1, <1>3, Zenon
<1>6. \E q \in Process : q[1] = Other(p) /\ pc[q] \notin {"none", "gone"}
  BY <1>1, Zenon DEF Members
<1> QED
  BY <1>1, <1>4, <1>5, <1>6

\* What a process of one program does is nothing to the other, and most of it nothing to the paths.
LEMMA OrderlyStep ==
  ASSUME WalkInv, [Next]_vars, WaitsAtDir, Calm, Calm', NEW g \in Program, Orderly(g),
         g = "master" => pc'[Slave] # "gone"
  PROVE  Orderly(g)'
<1>0. pc \in [Process -> Places] /\ pos \in [Process -> Nat]
  BY DEF WalkInv, WalkTypes, PlaceTypes
<1>1. CASE UNCHANGED vars
  <2>1. pc' = pc /\ pos' = pos
    BY <1>1, Zenon DEF vars
  <2> QED
    BY <2>1, OrderlyKept
<1>2. ASSUME NEW p \in Process, NEW to, pc' = [pc EXCEPT ![p] = to], pc[p] \notin {"none", "wait", "zombie", "gone"},
             to \notin {"none", "zombie", "gone"}, \A q \in Process : q # p => pos'[q] = pos[q]
      PROVE  Orderly(g)'
  <2>1. \A q \in Of(g) : /\ pc'[q] = pc[q] \/ (Living(q) /\ pc[q] # "wait" /\ Living(q)')
                         /\ pc[q] = "wait" => pos'[q] = pos[q]
    BY <1>0, <1>2 DEF Of, Living
  <2> QED
    BY <2>1, OrderlyKept
<1>3. ASSUME NEW p \in Process, pc' = [pc EXCEPT ![p] = "zombie"], pos' = pos, pc[p] \notin {"none", "wait", "zombie", "gone"}
      PROVE  Orderly(g)'
  <2>1. CASE p \in Of(g)
    <3>1. Living(p)
      BY <1>3 DEF Living
    <3> QED
      BY <1>3, <2>1, <3>1, OrderlyExit
  <2>2. CASE p \notin Of(g)
    <3>1. \A q \in Of(g) : pc'[q] = pc[q] /\ pos'[q] = pos[q]
      BY <1>0, <1>3, <2>2 DEF Of
    <3> QED
      BY <3>1, OrderlyKept
  <2> QED
    BY <2>1, <2>2
<1>4. CASE StartProgram
  <2>1. /\ pc' = [pc EXCEPT ![Master] = "await", ![Slave] = "exec"] /\ pos' = pos /\ pc[Master] = "start"
        /\ \A q \in Process : q # Master => pc[q] = "none"
    BY <1>4 DEF StartProgram, WalkInv, Firsts
  <2>2. CASE g = "master"
    <3>1. \A q \in Of(g) : /\ pc'[q] = pc[q] \/ (Living(q) /\ pc[q] # "wait" /\ Living(q)')
                           /\ pos'[q] = pos[q]
      BY <1>0, <2>1, <2>2, Who DEF Of, Living
    <3> QED
      BY <3>1, OrderlyKept
  <2>3. CASE g # "master"
    <3>1. \A q \in Of(g) : pc'[q] = IF q = Slave THEN "exec" ELSE "none"
      BY <1>0, <2>1, <2>3, Who DEF Of
    <3>2. g = "slave" /\ \A q \in Of(g) : q = Slave <=> q[2] = Root
      BY <2>3, Who DEF Program, Of
    <3>3. [i \in 1 .. 1 |-> Root] \in [1 .. 1 -> Dir]
      BY Who
    <3>4. PICK path \in [1 .. 1 -> Dir] : path = [i \in 1 .. 1 |-> Root]
      BY <3>3, Zenon
    <3>5. Nested(g, 1, path)'
      <4>1. \A q \in Of(g) : Living(q)' <=> \E i \in 1 .. 1 : path[i] = q[2]
        BY <3>1, <3>2, <3>4 DEF Living
      <4> QED
        BY <3>4, <4>1 DEF Nested, Of
    <3>6. Stack(g)'
      BY <3>5 DEF Stack
    <3>7. Awaited(g)'
      BY <3>1 DEF Awaited, Of
    <3> QED
      BY <3>6, <3>7 DEF Orderly
  <2> QED
    BY <2>2, <2>3
<1>5. CASE StartFails \/ ExecFails
  <2>1. \E p \in Process : pc' = [pc EXCEPT ![p] = "zombie"] /\ pos' = pos /\ pc[p] \in {"start", "exec"}
    BY <1>5, Who DEF StartFails, ExecFails, Goto, Exit
  <2> QED
    BY <1>3, <2>1
<1>6. CASE Await \/ Exec \/ SendUsr2
  <2>1. \E p \in Process, to \in {"open", "usr2"} : pc' = [pc EXCEPT ![p] = to] /\ pos' = pos /\ pc[p] \in {"await", "exec", "usr2"}
    BY <1>6, Who DEF Await, Exec, SendUsr2, Goto
  <2> QED
    BY <1>2, <2>1
<1>7. ASSUME NEW p \in Process, Block(p) \/ ScanFile(p) \/ ScanDirFails(p) \/ Prints(p) PROVE Orderly(g)'
  <2>1. \E to \in {"scan", "print", "sigwait", "wait", "kill"} :
          pc' = [pc EXCEPT ![p] = to] /\ pos' = pos /\ pc[p] \in {"open", "scan", "print"}
    BY <1>7 DEF Block, ScanFile, ScanDirFails, Prints, Goto
  <2> QED
    BY <1>2, <2>1
<1>8. ASSUME NEW p \in Process, Sigwait(p) PROVE Orderly(g)'
  <2>1. \E to \in {"scan", "print"} : pc' = [pc EXCEPT ![p] = to] /\ pc[p] = "sigwait"
    BY <1>8 DEF Sigwait, Goto
  <2>2. \A q \in Process : q # p => pos'[q] = pos[q]
    BY <1>0, <1>8 DEF Sigwait
  <2> QED
    BY <1>2, <2>1, <2>2
<1>9. ASSUME NEW p \in Process, Finish(p) \/ KillFails(p) \/ Unblocks(p) PROVE Orderly(g)'
  <2>1. pc' = [pc EXCEPT ![p] = "zombie"] /\ pos' = pos /\ pc[p] \in {"open", "scan", "kill"}
    BY <1>9, Zenon DEF Finish, KillFails, Unblocks, Exit
  <2> QED
    BY <1>3, <2>1
<1>10. ASSUME NEW p \in Process, Kill(p) PROVE Orderly(g)'
  <2>1. /\ pc' = [pc EXCEPT ![p] = IF p[1] = "master" THEN "sigwait" ELSE "scan"] /\ pc[p] = "kill"
        /\ pos' = IF p[1] = "master" THEN pos ELSE [pos EXCEPT ![p] = @ + 1]
    BY <1>10, CalmKill
  <2>2. \A q \in Process : q # p => pos'[q] = pos[q]
    BY <1>0, <2>1
  <2> QED
    BY <1>2, <2>1, <2>2
<1>11. ASSUME NEW p \in Process, Reap(p) PROVE Orderly(g)'
  <2>1. pc' = [pc EXCEPT ![p] = "gone"] /\ pos' = pos /\ pc[p] = "zombie"
    BY <1>11, Zenon DEF Reap, Goto
  <2>2. \A q \in Of(g) : (pc'[q] = pc[q] \/ (pc[q] = "zombie" /\ pc'[q] = "gone")) /\ pos'[q] = pos[q]
    BY <1>0, <2>1 DEF Of
  <2> QED
    BY <2>2, OrderlyKept
<1>12. ASSUME NEW p \in Process, ScanDir(p) PROVE Orderly(g)'
  <2>1. CASE p \in Of(g)
    BY <1>12, <2>1, OrderlyFork
  <2>2. CASE p \notin Of(g)
    <3>1. pc' = [pc EXCEPT ![p] = "wait", ![<<p[1], Entry(p)>>] = "open"] /\ pos' = pos
      BY <1>12, Zenon DEF ScanDir
    <3>2. p \notin Of(g) /\ <<p[1], Entry(p)>> \notin Of(g)
      BY <2>2 DEF Of
    <3>3. \A q \in Of(g) : pc'[q] = pc[q] /\ pos'[q] = pos[q]
      BY <1>0, <3>1, <3>2 DEF Of
    <3> QED
      BY <3>3, OrderlyKept
  <2> QED
    BY <2>1, <2>2
<1>13. ASSUME NEW p \in Process, Wait(p) PROVE Orderly(g)'
  <2>1. CASE p \in Of(g)
    <3>1. p = Master => g = "master"
      BY <2>1, Who DEF Of
    <3> QED
      BY <1>13, <2>1, <3>1, OrderlyWait
  <2>2. CASE p \notin Of(g)
    <3>1. pos' = [pos EXCEPT ![p] = @ + 1]
      BY <1>13, Zenon DEF Wait
    <3>2. pc' = [pc EXCEPT ![p] = "scan"] \/ \E c \in Process : pc[c] = "zombie" /\ pc' = [pc EXCEPT ![p] = "scan", ![c] = "gone"]
      BY <1>13, Zenon DEF Wait
    <3>3. \A q \in Of(g) : (pc'[q] = pc[q] \/ (pc[q] = "zombie" /\ pc'[q] = "gone")) /\ pos'[q] = pos[q]
      BY <1>0, <2>2, <3>1, <3>2 DEF Of
    <3> QED
      BY <3>3, OrderlyKept
  <2> QED
    BY <2>1, <2>2
<1> QED
  BY <1>1, <1>4, <1>5, <1>6, <1>7, <1>8, <1>9, <1>10, <1>11, <1>12, <1>13, Zenon DEF Next, Start, ListDir

\* Who waits is at a directory, in every step.
LEMMA WaitsAtDirStep == ASSUME WalkInv, WaitsAtDir, [Next]_vars PROVE WaitsAtDir'
<1> SUFFICES ASSUME NEW q \in Process, pc'[q] = "wait" PROVE Entry(q)' \in Dir
  BY DEF WaitsAtDir
<1>0. pc \in [Process -> Places] /\ pos \in [Process -> Nat]
  BY DEF WalkInv, WalkTypes, PlaceTypes
<1>1. pc[q] = "wait" => pos'[q] = pos[q]
  BY EveryMove DEF WalkInv, Moves, AtEntry, Listing
<1>2. \/ pc[q] = "wait"
      \/ pos' = pos /\ Entry(q) \in Dir
  <2>1. ASSUME NEW p \in Process, NEW to, pc' = [pc EXCEPT ![p] = to], to # "wait" PROVE pc[q] = "wait"
    BY <1>0, <2>1
  <2>2. CASE UNCHANGED vars
    BY <2>2 DEF vars
  <2>3. CASE StartProgram
    BY <1>0, <2>3 DEF StartProgram
  <2>4. CASE StartFails \/ Await \/ Exec \/ SendUsr2 \/ ExecFails
    BY <2>1, <2>4, Who DEF StartFails, Await, Exec, SendUsr2, ExecFails, Goto, Exit
  <2>5. ASSUME NEW p \in Process, Block(p) \/ ScanFile(p) \/ Finish(p) \/ Prints(p) \/ KillFails(p) \/ Unblocks(p) \/ Sigwait(p) \/ Reap(p)
        PROVE  pc[q] = "wait"
    BY <2>1, <2>5 DEF Block, ScanFile, Finish, Prints, KillFails, Unblocks, Sigwait, Reap, Goto, Exit
  <2>6. ASSUME NEW p \in Process, Kill(p) PROVE pc[q] = "wait"
    <3>1. pc' = [r \in Process |-> IF r \in {r2 \in {r2 \in Members(Other(p)) : Living(r2)} : ~blocks[r2]} THEN "zombie"
                   ELSE IF r # p THEN pc[r] ELSE IF p[1] = "master" THEN "sigwait" ELSE "scan"]
      BY <2>6, Zenon DEF Kill
    <3> QED
      BY <3>1
  <2>7. ASSUME NEW p \in Process, Wait(p) PROVE pc[q] = "wait"
    <3>1. pc' = [pc EXCEPT ![p] = "scan"] \/ \E c \in Process : pc' = [pc EXCEPT ![p] = "scan", ![c] = "gone"]
      BY <2>7, Zenon DEF Wait
    <3> QED
      BY <1>0, <3>1
  <2>8. ASSUME NEW p \in Process, ScanDir(p) \/ ScanDirFails(p) PROVE pc[q] = "wait" \/ (pos' = pos /\ Entry(q) \in Dir)
    <3>1. pos' = pos /\ Entry(p) \in Dir /\ \/ pc' = [pc EXCEPT ![p] = "wait"]
                                            \/ pc' = [pc EXCEPT ![p] = "wait", ![<<p[1], Entry(p)>>] = "open"]
      BY <2>8, Zenon DEF ScanDir, ScanDirFails, Goto
    <3> QED
      BY <1>0, <3>1
  <2> QED
    BY <2>2, <2>3, <2>4, <2>5, <2>6, <2>7, <2>8, Zenon DEF Next, Start, ListDir
<1>3. pos'[q] = pos[q] /\ Entry(q) \in Dir
  BY <1>0, <1>1, <1>2 DEF WaitsAtDir
<1> QED
  BY <1>3, TreeStays DEF Entry

\* Before the slave is started only the master can do anything, and that is to start it.
LEMMA NotStartedStep == ASSUME WalkInv, NotStarted, [Next]_vars PROVE NotStarted'
<1> SUFFICES ASSUME pc'[Slave] = "none" PROVE pc'[Master] \in {"start"} \cup Over /\ \A p \in Process : p # Master => pc'[p] = "none"
  BY DEF NotStarted
<1>0. pc \in [Process -> Places]
  BY DEF WalkInv, WalkTypes, PlaceTypes
<1>1. pc[Slave] = "none"
  BY Who, EveryMoved DEF WalkInv, Moved, Over, Listing, Started, Forked
<1>2. pc[Master] \in {"start"} \cup Over /\ \A p \in Process : p # Master => pc[p] = "none"
  BY <1>1 DEF NotStarted
<1>3. \A p \in Process : ~ListDir(p)
  BY <1>2, Who DEF Over, ListDir, Block, ScanFile, ScanDir, ScanDirFails, Wait, Finish, Prints, Kill, KillFails, Unblocks, Sigwait, Goto
<1>4. ~StartProgram /\ ~Await /\ ~Exec /\ ~ExecFails /\ ~SendUsr2
  <2>1. ~StartProgram
    BY <1>0, Who DEF StartProgram
  <2> QED
    BY <1>2, <2>1, Who DEF Over, Await, Exec, ExecFails, SendUsr2, Goto
<1>5. CASE UNCHANGED vars
  BY <1>2, <1>5 DEF vars
<1>6. CASE StartFails
  BY <1>0, <1>2, <1>6, Who DEF StartFails, Goto, Over
<1>7. ASSUME NEW p \in Process, Reap(p) PROVE pc'[Master] \in {"start"} \cup Over /\ \A q \in Process : q # Master => pc'[q] = "none"
  BY <1>0, <1>2, <1>7, Who DEF Reap, Goto, Over
<1> QED
  BY <1>3, <1>4, <1>5, <1>6, <1>7, Zenon DEF Next, Start

\* How many files the programs have printed, and the signals that wait for somebody who is not waiting for a
\* child; the subdirectories that have been left; and whether somebody is at one of the places.
Tokens(g) == {p \in Of(g) : usr1[p] /\ pc[p] # "wait"}
Past(g) == {d \in Dir : \E p \in Of(g) : \E i \in 1 .. Size(p) : i < pos[p] /\ Entries(p)[i] = d}
At(g, places) == IF \E p \in Of(g) : pc[p] \in places THEN 1 ELSE 0

\* A file of the master answers one of the slave's, but for the signals and directories in between, and the
\* other way round.
MasterLead ==
  Printed("master") + Cardinality(Tokens("master")) + At("slave", {"kill"})
    <= Printed("slave") + Cardinality(Past("master")) + At("master", {"kill", "sigwait"})
SlaveLead ==
  Printed("slave") + Cardinality(Tokens("slave")) + At("slave", {"print"}) + At("master", {"kill"})
    <= Printed("master") + Cardinality(Past("slave"))
\* Once the slave is gone, each process of the master's that is not stopped by that prints one file at most
\* before it is.
Free == {p \in Of("master") : Living(p) /\ pc[p] \notin {"wait", "kill"} /\ (pc[p] = "sigwait" => usr1[p])}
Deserted ==
  Printed("master") + Cardinality(Free) <= Printed("slave") + Cardinality(Past("master")) + 1

DriftInv ==
  /\ WaitsAtDir /\ NotStarted
  /\ Calm => /\ Orderly("slave") /\ SlaveLead
             /\ pc[Slave] # "gone" => Orderly("master") /\ MasterLead
             /\ pc[Slave] = "gone" => Deserted

\* Sizes of finite sets.
LEMMA Fewer ==
  ASSUME NEW S, IsFiniteSet(S), NEW T
  PROVE  /\ T \subseteq S => IsFiniteSet(T) /\ Cardinality(T) <= Cardinality(S)
         /\ \A e \in S : T \subseteq S \ {e} => Cardinality(T) + 1 <= Cardinality(S)
         /\ \A e : T \subseteq S \cup {e} => Cardinality(T) <= Cardinality(S) + 1
         /\ \A e \in S : \A f : T \subseteq (S \ {e}) \cup {f} => Cardinality(T) <= Cardinality(S)
<1>1. ASSUME T \subseteq S PROVE IsFiniteSet(T) /\ Cardinality(T) <= Cardinality(S)
  BY <1>1, FS_Subset
<1>2. ASSUME NEW e \in S, T \subseteq S \ {e} PROVE Cardinality(T) + 1 <= Cardinality(S)
  <2>1. IsFiniteSet(S \ {e}) /\ Cardinality(S \ {e}) = Cardinality(S) - 1
    BY FS_RemoveElement
  <2>2. Cardinality(T) <= Cardinality(S \ {e}) /\ IsFiniteSet(T)
    BY <1>2, <2>1, FS_Subset
  <2>3. Cardinality(T) \in Nat /\ Cardinality(S) \in Nat
    BY <2>2, FS_CardinalityType
  <2> QED
    BY <2>1, <2>2, <2>3
<1>3. ASSUME NEW e, T \subseteq S \cup {e} PROVE Cardinality(T) <= Cardinality(S) + 1
  <2>1. IsFiniteSet(S \cup {e}) /\ Cardinality(S \cup {e}) = IF e \in S THEN Cardinality(S) ELSE Cardinality(S) + 1
    BY FS_AddElement
  <2>2. Cardinality(T) <= Cardinality(S \cup {e}) /\ IsFiniteSet(T)
    BY <1>3, <2>1, FS_Subset
  <2>3. Cardinality(T) \in Nat /\ Cardinality(S) \in Nat
    BY <2>2, FS_CardinalityType
  <2> QED
    BY <2>1, <2>2, <2>3
<1>4. ASSUME NEW e \in S, NEW f, T \subseteq (S \ {e}) \cup {f} PROVE Cardinality(T) <= Cardinality(S)
  <2>1. IsFiniteSet(S \ {e}) /\ Cardinality(S \ {e}) = Cardinality(S) - 1
    BY FS_RemoveElement
  <2>2. /\ IsFiniteSet((S \ {e}) \cup {f})
        /\ Cardinality((S \ {e}) \cup {f}) = IF f \in S \ {e} THEN Cardinality(S \ {e}) ELSE Cardinality(S \ {e}) + 1
    BY <2>1, FS_AddElement
  <2>3. Cardinality(T) <= Cardinality((S \ {e}) \cup {f}) /\ IsFiniteSet(T)
    BY <1>4, <2>2, FS_Subset
  <2>4. Cardinality(T) \in Nat /\ Cardinality(S) \in Nat
    BY <2>3, FS_CardinalityType
  <2> QED
    BY <2>1, <2>2, <2>3, <2>4
<1> QED
  BY <1>1, <1>2, <1>3, <1>4

\* What is counted is finite.
LEMMA Counted ==
  ASSUME WalkInv, NEW g \in Program
  PROVE  /\ Printed(g) \in Nat
         /\ IsFiniteSet(Tokens(g)) /\ Cardinality(Tokens(g)) \in Nat
         /\ IsFiniteSet(Past(g)) /\ Cardinality(Past(g)) \in Nat
         /\ IsFiniteSet(Free) /\ Cardinality(Free) \in Nat
<1>1. IsFiniteSet({i \in DOMAIN out : out[i][1] = g})
  <2>1. DOMAIN out = 1 .. Len(out) /\ Len(out) \in Int
    BY DEF WalkInv, WalkTypes
  <2>2. IsFiniteSet(1 .. Len(out))
    BY <2>1, FS_Interval
  <2>3. {i \in DOMAIN out : out[i][1] = g} \subseteq 1 .. Len(out)
    BY <2>1
  <2> QED
    BY <2>2, <2>3, Fewer
<1>2. IsFiniteSet(Process)
  <2>1. Program = ({} \cup {"master"}) \cup {"slave"} /\ IsFiniteSet({})
    BY FS_EmptySet DEF Program
  <2>2. IsFiniteSet({} \cup {"master"})
    BY <2>1, FS_AddElement
  <2>3. IsFiniteSet(Program)
    BY <2>1, <2>2, FS_AddElement
  <2> QED
    BY <2>3, FS_Product, TreeAssumption DEF Process
<1>3. Tokens(g) \subseteq Process /\ Free \subseteq Process /\ Past(g) \subseteq Dir
  BY DEF Tokens, Free, Past, Of
<1>4. IsFiniteSet(Tokens(g)) /\ IsFiniteSet(Free)
  BY <1>2, <1>3, Fewer
<1>5. IsFiniteSet(Past(g))
  BY <1>3, Fewer, TreeAssumption
<1> QED
  BY <1>1, <1>4, <1>5, FS_CardinalityType DEF Printed

Finite ==
  /\ IsFiniteSet(Free) /\ Cardinality(Free) \in Nat
  /\ \A g \in Program : /\ Printed(g) \in Nat
                         /\ IsFiniteSet(Tokens(g)) /\ Cardinality(Tokens(g)) \in Nat
                         /\ IsFiniteSet(Past(g)) /\ Cardinality(Past(g)) \in Nat
LEMMA AllCounted == WalkInv => Finite
BY Counted DEF Finite, Program

\* It stays so.
LEMMA CountedNext == WalkInv /\ [Next]_vars => Finite /\ Finite'
BY AllCounted, WalkStep, PTL

\* The subdirectories that are left are not more than there are.
LEMMA PastIsBounded ==
  ASSUME WalkInv, NEW g \in Program
  PROVE  Cardinality(Subdirectories) \in Nat /\ Cardinality(Past(g)) <= Cardinality(Subdirectories)
<1>1. IsFiniteSet(Subdirectories) /\ Subdirectories \subseteq Dir
  <2>1. Subdirectories \subseteq Dir
    BY DEF Subdirectories
  <2> QED
    BY <2>1, Fewer, TreeAssumption
<1>2. ASSUME NEW d \in Past(g) PROVE d \in Subdirectories
  <2>1. PICK p \in Of(g) : \E i \in 1 .. Size(p) : Entries(p)[i] = d
    BY DEF Past
  <2>2. d \in Dir /\ p \in Process /\ p[2] \in Dir /\ \E i \in DOMAIN tree[p[2]] : tree[p[2]][i] = d
    BY <2>1, Shape, Who DEF Past, Of, Entries, WalkInv, WalkTypes
  <2>3. d # Root
    BY <2>1, <2>2, Shape DEF WalkInv, WalkTypes
  <2> QED
    BY <2>2, <2>3 DEF Subdirectories
<1> QED
  BY <1>1, <1>2, Fewer, FS_CardinalityType

\* What a step of a program prints, and that nobody goes back in a directory.
LEMMA PrintsOne ==
  ASSUME WalkInv, NEW p \in Process, Prints(p), NEW g \in Program
  PROVE  Printed(g)' = IF g = p[1] THEN Printed(g) + 1 ELSE Printed(g)
<1>1. out \in Seq(Program \X Names) /\ IsFiniteSet({i \in DOMAIN out : out[i][1] = g}) /\ Printed(g) \in Nat
  <2>1. out \in Seq(Program \X Names) /\ Len(out) \in Int /\ DOMAIN out = 1 .. Len(out)
    BY DEF WalkInv, WalkTypes
  <2>2. {i \in DOMAIN out : out[i][1] = g} \subseteq 1 .. Len(out)
    BY <2>1
  <2>3. IsFiniteSet(1 .. Len(out))
    BY <2>1, FS_Interval
  <2>4. IsFiniteSet({i \in DOMAIN out : out[i][1] = g})
    BY <2>2, <2>3, Fewer
  <2>5. Printed(g) \in Nat
    BY <2>4, FS_CardinalityType DEF Printed
  <2> QED
    BY <2>1, <2>4, <2>5
<1>2. out' = Append(out, <<p[1], Entry(p)>>)
  BY DEF Prints
<1>3. /\ Len(out) \in Nat /\ DOMAIN out = 1 .. Len(out) /\ DOMAIN out' = 1 .. Len(out) + 1
      /\ out'[Len(out) + 1][1] = p[1]
      /\ \A i \in 1 .. Len(out) : out'[i] = out[i]
  BY <1>1, <1>2
<1> DEFINE before == {i \in DOMAIN out : out[i][1] = g}
           after == {i \in DOMAIN out' : out'[i][1] = g}
<1>4. CASE g = p[1]
  <2>1. after = before \cup {Len(out) + 1} /\ Len(out) + 1 \notin before
    BY <1>3, <1>4
  <2> HIDE DEF before, after
  <2>2. Cardinality(after) = Cardinality(before) + 1
    BY <1>1, <2>1, FS_AddElement DEF before
  <2> QED
    BY <1>4, <2>2 DEF Printed, before, after
<1>5. CASE g # p[1]
  <2>1. after = before
    BY <1>3, <1>5
  <2> HIDE DEF before, after
  <2> QED
    BY <1>5, <2>1 DEF Printed, before, after
<1> QED
  BY <1>4, <1>5

LEMMA PrintedStays == ASSUME UNCHANGED out, NEW g PROVE Printed(g)' = Printed(g)
BY DEF Printed

LEMMA PastGrows ==
  ASSUME WalkInv, [Next]_vars, NEW g \in Program
  PROVE  Past(g) \subseteq Past(g)' /\ Cardinality(Past(g)) <= Cardinality(Past(g)')
<1>0. \A p \in Of(g) : pos[p] \in Nat /\ Size(p) \in Nat /\ (pos'[p] = pos[p] \/ pos'[p] = pos[p] + 1)
  BY EveryMove, Shape DEF WalkInv, Moves, Of, WalkTypes, PlaceTypes
<1>1. Past(g) \subseteq Past(g)'
  <2> SUFFICES ASSUME NEW d \in Past(g) PROVE d \in Past(g)'
    OBVIOUS
  <2>1. PICK p \in Of(g) : \E i \in 1 .. Size(p) : i < pos[p] /\ Entries(p)[i] = d
    BY DEF Past
  <2>2. PICK i \in 1 .. Size(p) : i < pos[p] /\ Entries(p)[i] = d
    BY <2>1
  <2>3. i < pos'[p]
    BY <1>0, <2>2
  <2>4. i \in 1 .. Size(p)' /\ Entries(p)'[i] = d /\ d \in Dir
    BY <2>2, TreeStays DEF Past
  <2> QED
    BY <2>3, <2>4 DEF Past, Of
<1>2. IsFiniteSet(Past(g)')
  BY CountedNext DEF Finite
<1> QED
  BY <1>1, <1>2, Fewer

\* A directory that is left is added.
LEMMA PastOneMore ==
  ASSUME WalkInv, [Next]_vars, WaitsAtDir, NEW p \in Process, Wait(p)
  PROVE  Cardinality(Past(p[1])) + 1 <= Cardinality(Past(p[1])')
<1>0. /\ pc[p] = "wait" /\ pos \in [Process -> Nat] /\ pos' = [pos EXCEPT ![p] = @ + 1] /\ Entry(p) \in Dir /\ p[1] \in Program
      /\ \A q \in Process : Size(q) \in Nat
  BY Who, Shape DEF Wait, WalkInv, WalkTypes, PlaceTypes, WaitsAtDir
<1>1. pos[p] \in 1 .. Size(p) /\ Entry(p) = Entries(p)[pos[p]]
  BY <1>0, AtDir DEF AtEntry, Listing, WalkInv
<1>2. Entry(p) \in Past(p[1])'
  <2>1. pos[p] < pos'[p]
    BY <1>0
  <2> QED
    BY <1>0, <1>1, <2>1, TreeStays DEF Past, Of
<1>3. Entry(p) \notin Past(p[1])
  <2> SUFFICES ASSUME NEW q \in Process, q[1] = p[1], NEW i \in 1 .. Size(q), i < pos[q], Entries(q)[i] = Entry(p) PROVE FALSE
    BY DEF Past, Of
  <2>1. q = p /\ i = pos[p]
    BY <1>0, <1>1, FoundOnce DEF WalkInv
  <2> QED
    BY <1>0, <2>1
<1>4. Past(p[1]) \subseteq Past(p[1])' \ {Entry(p)}
  BY <1>0, <1>3, PastGrows
<1>5. IsFiniteSet(Past(p[1])')
  BY <1>0, CountedNext DEF Finite
<1> QED
  BY <1>2, <1>4, <1>5, Fewer

\* Whether somebody is there, before and after a step.
LEMMA AtIs ==
  ASSUME NEW g, NEW places
  PROVE  /\ At(g, places) \in {0, 1} /\ (At(g, places) = 1 <=> \E p \in Of(g) : pc[p] \in places)
         /\ At(g, places)' \in {0, 1} /\ (At(g, places)' = 1 <=> \E p \in Of(g) : pc'[p] \in places)
BY DEF At, Of

\* What all counts do in a step.
LEMMA Counts ==
  ASSUME WalkInv, [Next]_vars
  PROVE  \A g \in {"master", "slave"} :
           /\ Printed(g) \in Nat /\ Printed(g)' \in Nat
           /\ IsFiniteSet(Tokens(g)) /\ Cardinality(Tokens(g)) \in Nat /\ Cardinality(Tokens(g)') \in Nat
           /\ Cardinality(Past(g)) \in Nat /\ Cardinality(Past(g)') \in Nat /\ Cardinality(Past(g)) <= Cardinality(Past(g)')
BY CountedNext, PastGrows DEF Finite, Program

\* A step of no importance to the leads.
LEMMA MasterLeadKept ==
  ASSUME WalkInv, [Next]_vars, MasterLead, UNCHANGED out, Tokens("master")' \subseteq Tokens("master"),
         \A q \in Of("slave") : pc'[q] = "kill" => pc[q] = "kill",
         \A q \in Of("master") : pc[q] \in {"kill", "sigwait"} => pc'[q] \in {"kill", "sigwait"}
  PROVE  MasterLead'
<1>1. At("slave", {"kill"})' <= At("slave", {"kill"}) /\ At("slave", {"kill"}) \in {0, 1} /\ At("slave", {"kill"})' \in {0, 1}
  BY AtIs
<1>2. /\ At("master", {"kill", "sigwait"}) <= At("master", {"kill", "sigwait"})'
      /\ At("master", {"kill", "sigwait"}) \in {0, 1} /\ At("master", {"kill", "sigwait"})' \in {0, 1}
  BY AtIs
<1>3. Cardinality(Tokens("master")') <= Cardinality(Tokens("master"))
  BY Counts, Fewer
<1>4. Printed("master")' = Printed("master") /\ Printed("slave")' = Printed("slave")
  BY PrintedStays
<1> QED
  BY <1>1, <1>2, <1>3, <1>4, Counts DEF MasterLead

LEMMA SlaveLeadKept ==
  ASSUME WalkInv, [Next]_vars, SlaveLead, UNCHANGED out, Tokens("slave")' \subseteq Tokens("slave"),
         \A q \in Of("slave") : pc'[q] = "print" => pc[q] = "print",
         \A q \in Of("master") : pc'[q] = "kill" => pc[q] = "kill"
  PROVE  SlaveLead'
<1>1. At("slave", {"print"})' <= At("slave", {"print"}) /\ At("slave", {"print"}) \in {0, 1} /\ At("slave", {"print"})' \in {0, 1}
  BY AtIs
<1>2. At("master", {"kill"})' <= At("master", {"kill"}) /\ At("master", {"kill"}) \in {0, 1} /\ At("master", {"kill"})' \in {0, 1}
  BY AtIs
<1>3. Cardinality(Tokens("slave")') <= Cardinality(Tokens("slave"))
  BY Counts, Fewer
<1>4. Printed("master")' = Printed("master") /\ Printed("slave")' = Printed("slave")
  BY PrintedStays
<1> QED
  BY <1>1, <1>2, <1>3, <1>4, Counts DEF SlaveLead

Leads == SlaveLead /\ MasterLead
\* Steps that neither print nor send a signal, or take one in the midst of a file, or go on after a directory.
LEMMA LeadsPlain ==
  ASSUME WalkInv, [Next]_vars, UNCHANGED out,
         \A q \in Process : usr1'[q] => usr1[q],
         \A q \in Process : \/ pc'[q] = pc[q]
                            \/ /\ pc[q] \notin {"wait", "print", "kill", "sigwait"} /\ pc'[q] # "kill"
                               /\ pc'[q] = "print" => q[1] = "master"
  PROVE  (MasterLead => MasterLead') /\ (SlaveLead => SlaveLead')
<1>1. Tokens("master")' \subseteq Tokens("master") /\ Tokens("slave")' \subseteq Tokens("slave")
  BY DEF Tokens, Of
<1>2. \A q \in Of("slave") : (pc'[q] = "print" => pc[q] = "print") /\ (pc'[q] = "kill" => pc[q] = "kill")
  BY DEF Of
<1>3. \A q \in Of("master") : /\ pc'[q] = "kill" => pc[q] = "kill"
                              /\ pc[q] \in {"kill", "sigwait"} => pc'[q] \in {"kill", "sigwait"}
  BY DEF Of
<1> QED
  BY <1>1, <1>2, <1>3, MasterLeadKept, SlaveLeadKept

\* A directory is left: a signal that has been kept counts again.
LEMMA LeadsWait ==
  ASSUME WalkInv, [Next]_vars, WaitsAtDir, NEW p \in Process, Wait(p)
  PROVE  (MasterLead => MasterLead') /\ (SlaveLead => SlaveLead')
<1>0. pc \in [Process -> Places] /\ pc[p] = "wait" /\ usr1' = usr1 /\ out' = out
  BY Zenon DEF Wait, signals, WalkInv, WalkTypes, PlaceTypes
<1>1. pc' = [pc EXCEPT ![p] = "scan"] \/ \E c \in Process : pc[c] = "zombie" /\ pc' = [pc EXCEPT ![p] = "scan", ![c] = "gone"]
  BY Zenon DEF Wait
<1>2. \A q \in Process : /\ pc'[q] = pc[q] \/ (q = p /\ pc[q] = "wait" /\ pc'[q] = "scan") \/ (pc[q] = "zombie" /\ pc'[q] = "gone")
  BY <1>0, <1>1
<1>3. \A g \in Program : /\ Tokens(g)' \subseteq Tokens(g) \cup {p}
                         /\ g # p[1] => Tokens(g)' \subseteq Tokens(g)
  BY <1>0, <1>2 DEF Tokens, Of
<1>4. \A g \in Program : /\ Cardinality(Tokens(g)') <= Cardinality(Tokens(g)) + 1
                         /\ g # p[1] => Cardinality(Tokens(g)') <= Cardinality(Tokens(g))
                         /\ g = p[1] => Cardinality(Past(g)) + 1 <= Cardinality(Past(g)')
  <2>1. \A g \in Program : IsFiniteSet(Tokens(g))
    BY Counts DEF Program
  <2> QED
    BY <1>3, <2>1, PastOneMore, Fewer
<1>5. /\ At("slave", {"kill"})' = At("slave", {"kill"}) /\ At("slave", {"print"})' = At("slave", {"print"})
      /\ At("slave", {"kill"}) \in {0, 1} /\ At("slave", {"print"}) \in {0, 1}
  BY <1>2, AtIs DEF Of
<1>6. /\ At("master", {"kill"})' = At("master", {"kill"}) /\ At("master", {"kill", "sigwait"})' = At("master", {"kill", "sigwait"})
      /\ At("master", {"kill"}) \in {0, 1} /\ At("master", {"kill", "sigwait"}) \in {0, 1}
  BY <1>2, AtIs DEF Of
<1>7. Printed("master")' = Printed("master") /\ Printed("slave")' = Printed("slave")
  BY <1>0, PrintedStays
<1>8. ASSUME MasterLead PROVE MasterLead'
  BY <1>4, <1>5, <1>6, <1>7, <1>8, Counts DEF MasterLead, Program
<1>9. ASSUME SlaveLead PROVE SlaveLead'
  BY <1>4, <1>5, <1>6, <1>7, <1>9, Counts DEF SlaveLead, Program
<1> QED
  BY <1>8, <1>9

\* A file is printed.
LEMMA LeadsPrints ==
  ASSUME WalkInv, [Next]_vars, NEW p \in Process, Prints(p)
  PROVE  /\ Orderly("master") /\ MasterLead => MasterLead'
         /\ Orderly("slave") /\ SlaveLead => SlaveLead'
<1>0. /\ pc \in [Process -> Places] /\ pc[p] = "print" /\ pc' = [pc EXCEPT ![p] = "kill"] /\ usr1' = usr1
      /\ p[1] \in {"master", "slave"}
  BY Who DEF Prints, Goto, signals, WalkInv, WalkTypes, PlaceTypes, Program
<1>1. \A q \in Process : pc'[q] = IF q = p THEN "kill" ELSE pc[q]
  BY <1>0
<1>2. \A g \in {"master", "slave"} : Tokens(g)' = Tokens(g)
  BY <1>0, <1>1 DEF Tokens, Of
<1>3. \A g \in {"master", "slave"} : Printed(g)' = IF g = p[1] THEN Printed(g) + 1 ELSE Printed(g)
  BY PrintsOne DEF Program
\* Nobody else of its program is at work.
<1>4. ASSUME Orderly(p[1]), NEW q \in Of(p[1]), pc[q] \in {"print", "kill", "sigwait"} PROVE q = p
  BY <1>0, <1>4, OneActive DEF Orderly, Of, Living, Program
<1>5. CASE p[1] = "master"
  <2>1. At("slave", {"kill"})' = At("slave", {"kill"}) /\ At("slave", {"print"})' = At("slave", {"print"})
    BY <1>1, <1>5, AtIs DEF Of
  <2>2. At("master", {"kill", "sigwait"})' = 1 /\ At("master", {"kill"})' = 1
    BY <1>1, <1>5, AtIs DEF Of
  <2>3. ASSUME Orderly("master") PROVE At("master", {"kill", "sigwait"}) = 0
    <3>1. \A q \in Of("master") : pc[q] \notin {"kill", "sigwait"}
      BY <1>0, <1>4, <1>5, <2>3
    <3> QED
      BY <3>1, AtIs
  <2>4. At("slave", {"kill"}) \in {0, 1} /\ At("slave", {"print"}) \in {0, 1} /\ At("master", {"kill"}) \in {0, 1}
    BY AtIs
  <2>5. ASSUME Orderly("master"), MasterLead PROVE MasterLead'
    BY <1>2, <1>3, <1>5, <2>1, <2>2, <2>3, <2>4, <2>5, Counts DEF MasterLead
  <2>6. ASSUME SlaveLead PROVE SlaveLead'
    BY <1>2, <1>3, <1>5, <2>1, <2>2, <2>4, <2>6, Counts DEF SlaveLead
  <2> QED
    BY <2>5, <2>6
<1>6. CASE p[1] = "slave"
  <2>1. /\ At("master", {"kill", "sigwait"})' = At("master", {"kill", "sigwait"})
        /\ At("master", {"kill"})' = At("master", {"kill"})
    BY <1>1, <1>6, AtIs DEF Of
  <2>2. At("slave", {"kill"})' = 1 /\ At("slave", {"print"}) = 1
    BY <1>0, <1>1, <1>6, AtIs DEF Of
  <2>3. ASSUME Orderly("slave") PROVE At("slave", {"print"})' = 0
    <3>1. \A q \in Of("slave") : pc'[q] \notin {"print"}
      BY <1>1, <1>4, <1>6, <2>3 DEF Of
    <3> QED
      BY <3>1, AtIs
  <2>4. /\ At("slave", {"kill"}) \in {0, 1} /\ At("master", {"kill"}) \in {0, 1}
        /\ At("master", {"kill", "sigwait"}) \in {0, 1}
    BY AtIs
  <2>5. ASSUME MasterLead PROVE MasterLead'
    BY <1>2, <1>3, <1>6, <2>1, <2>2, <2>4, <2>5, Counts DEF MasterLead
  <2>6. ASSUME Orderly("slave"), SlaveLead PROVE SlaveLead'
    BY <1>2, <1>3, <1>6, <2>1, <2>2, <2>3, <2>4, <2>6, Counts DEF SlaveLead
  <2> QED
    BY <2>5, <2>6
<1> QED
  BY <1>0, <1>5, <1>6

\* A signal is sent: it counts for the one process that does not wait for a child.
LEMMA LeadsKill ==
  ASSUME WalkInv, [Next]_vars, Calm, Calm', NEW p \in Process, Kill(p), Orderly("master"), Orderly("slave")
  PROVE  (MasterLead => MasterLead') /\ (SlaveLead => SlaveLead')
<1>0. /\ pc \in [Process -> Places] /\ pc[p] = "kill" /\ out' = out /\ p[1] \in {"master", "slave"}
      /\ pc' = [pc EXCEPT ![p] = IF p[1] = "master" THEN "sigwait" ELSE "scan"]
      /\ \A q \in Process : usr1'[q] = (usr1[q] \/ (q[1] # p[1] /\ Living(q) /\ blocks[q]))
  BY CalmKill, Who DEF WalkInv, WalkTypes, PlaceTypes, Program
<1>1. \A q \in Process : pc'[q] = IF q = p THEN IF p[1] = "master" THEN "sigwait" ELSE "scan" ELSE pc[q]
  BY <1>0
<1>2. Tokens(p[1])' \subseteq Tokens(p[1])
  BY <1>0, <1>1 DEF Tokens, Of
<1>3. ASSUME NEW g \in {"master", "slave"}, g # p[1] PROVE Cardinality(Tokens(g)') <= Cardinality(Tokens(g)) + 1
  <2>1. \A q \in Tokens(g)' \ Tokens(g) : q \in Of(g) /\ Living(q) /\ pc[q] # "wait"
    <3> SUFFICES ASSUME NEW q \in Process, q[1] = g, usr1'[q], pc'[q] # "wait", q \notin Tokens(g)
                 PROVE  Living(q) /\ pc[q] # "wait"
      BY DEF Tokens, Of
    <3>1. pc[q] # "wait" /\ ~usr1[q]
      BY <1>1, <1>3 DEF Tokens, Of
    <3>2. usr1'[q] = (usr1[q] \/ (q[1] # p[1] /\ Living(q) /\ blocks[q]))
      BY <1>0, Zenon
    <3> QED
      BY <3>1, <3>2, Zenon
  <2>2. \A q, r \in Tokens(g)' \ Tokens(g) : q = r
    BY <2>1, OneActive DEF Orderly, Program
  <2>3. \E e : Tokens(g)' \subseteq Tokens(g) \cup {e}
    <3>1. CASE Tokens(g)' \subseteq Tokens(g)
      BY <3>1
    <3>2. ASSUME NEW e \in Tokens(g)', e \notin Tokens(g) PROVE Tokens(g)' \subseteq Tokens(g) \cup {e}
      BY <2>2, <3>2
    <3> QED
      BY <3>1, <3>2
  <2>4. IsFiniteSet(Tokens(g))
    BY Counts
  <2> QED
    BY <2>3, <2>4, Fewer
<1>4. Printed("master")' = Printed("master") /\ Printed("slave")' = Printed("slave")
  BY <1>0, PrintedStays
<1>5. \A q \in Of(p[1]) : pc[q] = "kill" => q = p
  BY <1>0, OneActive DEF Orderly, Of, Living, Program
<1>6. CASE p[1] = "master"
  <2>1. MasterLead => MasterLead'
    <3>1. \A q \in Of("slave") : pc'[q] = "kill" => pc[q] = "kill"
      BY <1>1, <1>6 DEF Of
    <3>2. \A q \in Of("master") : pc[q] \in {"kill", "sigwait"} => pc'[q] \in {"kill", "sigwait"}
      BY <1>1, <1>6 DEF Of
    <3> QED
      BY <1>0, <1>2, <1>6, <3>1, <3>2, MasterLeadKept
  <2>2. At("master", {"kill"}) = 1 /\ At("master", {"kill"})' = 0
    <3>1. \A q \in Of("master") : pc'[q] \notin {"kill"}
      BY <1>1, <1>5, <1>6 DEF Of
    <3>2. p \in Of("master") /\ pc[p] \in {"kill"}
      BY <1>0, <1>6 DEF Of
    <3> QED
      BY <3>1, <3>2, AtIs
  <2>3. At("slave", {"print"})' = At("slave", {"print"}) /\ At("slave", {"print"}) \in {0, 1}
    BY <1>1, <1>6, AtIs DEF Of
  <2>4. Cardinality(Tokens("slave")') <= Cardinality(Tokens("slave")) + 1
    BY <1>3, <1>6
  <2> QED
    BY <1>4, <2>1, <2>2, <2>3, <2>4, Counts DEF SlaveLead
<1>7. CASE p[1] = "slave"
  <2>1. SlaveLead => SlaveLead'
    <3>1. \A q \in Of("slave") : pc'[q] = "print" => pc[q] = "print"
      BY <1>1, <1>7 DEF Of
    <3>2. \A q \in Of("master") : pc'[q] = "kill" => pc[q] = "kill"
      BY <1>1, <1>7 DEF Of
    <3> QED
      BY <1>0, <1>2, <1>7, <3>1, <3>2, SlaveLeadKept
  <2>2. At("slave", {"kill"}) = 1 /\ At("slave", {"kill"})' = 0
    <3>1. \A q \in Of("slave") : pc'[q] \notin {"kill"}
      BY <1>1, <1>5, <1>7 DEF Of
    <3>2. p \in Of("slave") /\ pc[p] \in {"kill"}
      BY <1>0, <1>7 DEF Of
    <3> QED
      BY <3>1, <3>2, AtIs
  <2>3. /\ At("master", {"kill", "sigwait"})' = At("master", {"kill", "sigwait"})
        /\ At("master", {"kill", "sigwait"}) \in {0, 1}
    BY <1>1, <1>7, AtIs DEF Of
  <2>4. Cardinality(Tokens("master")') <= Cardinality(Tokens("master")) + 1
    BY <1>3, <1>7
  <2> QED
    BY <1>4, <2>1, <2>2, <2>3, <2>4, Counts DEF MasterLead
<1> QED
  BY <1>0, <1>6, <1>7

\* Nobody is there to get the signal.
LEMMA LeadsKillFails ==
  ASSUME WalkInv, [Next]_vars, NEW p \in Process, KillFails(p)
  PROVE  (p[1] = "slave" /\ MasterLead => MasterLead') /\ (SlaveLead => SlaveLead')
<1>0. pc \in [Process -> Places] /\ pc' = [pc EXCEPT ![p] = "zombie"] /\ pc[p] = "kill" /\ usr1' = usr1 /\ out' = out
  BY Zenon DEF KillFails, Exit, WalkInv, WalkTypes, PlaceTypes
<1>1. \A q \in Process : pc'[q] = IF q = p THEN "zombie" ELSE pc[q]
  BY <1>0
<1>2. Tokens("master")' \subseteq Tokens("master") /\ Tokens("slave")' \subseteq Tokens("slave")
  BY <1>0, <1>1 DEF Tokens, Of
<1>3. \A q \in Of("slave") : (pc'[q] = "print" => pc[q] = "print") /\ (pc'[q] = "kill" => pc[q] = "kill")
  BY <1>1 DEF Of
<1>4. \A q \in Of("master") : pc'[q] = "kill" => pc[q] = "kill"
  BY <1>1 DEF Of
<1>5. p[1] = "slave" => \A q \in Of("master") : pc[q] \in {"kill", "sigwait"} => pc'[q] \in {"kill", "sigwait"}
  BY <1>1 DEF Of
<1> QED
  BY <1>0, <1>2, <1>3, <1>4, <1>5, MasterLeadKept, SlaveLeadKept

\* A signal is taken.
LEMMA LeadsSigwait ==
  ASSUME WalkInv, [Next]_vars, Calm, NEW p \in Process, Sigwait(p)
  PROVE  (MasterLead => MasterLead') /\ (SlaveLead => SlaveLead')
<1>0. /\ pc \in [Process -> Places] /\ usr1 \in [Process -> BOOLEAN] /\ pc[p] = "sigwait" /\ out' = out
      /\ p[1] \in {"master", "slave"}
      /\ pc' = [pc EXCEPT ![p] = IF p[1] = "master" THEN "scan" ELSE "print"]
  BY Who DEF Sigwait, Goto, WalkInv, WalkTypes, PlaceTypes, SignalTypes, Program
<1>1. usr1[p] /\ usr1' = [usr1 EXCEPT ![p] = FALSE]
  <2>1. chld[p] # "pending"
    BY DEF Calm, Clean
  <2> QED
    BY <2>1, Zenon DEF Sigwait
<1>2. \A q \in Process : /\ pc'[q] = IF q = p THEN IF p[1] = "master" THEN "scan" ELSE "print" ELSE pc[q]
                         /\ usr1'[q] => usr1[q] /\ q # p
  BY <1>0, <1>1
<1>3. \A g \in {"master", "slave"} : /\ Tokens(g)' \subseteq Tokens(g)
                                     /\ g = p[1] => p \in Tokens(g) /\ Tokens(g)' \subseteq Tokens(g) \ {p}
  BY <1>0, <1>1, <1>2 DEF Tokens, Of
<1>4. \A g \in {"master", "slave"} : g = p[1] => Cardinality(Tokens(g)') + 1 <= Cardinality(Tokens(g))
  <2>1. \A g \in {"master", "slave"} : IsFiniteSet(Tokens(g))
    BY Counts
  <2> QED
    BY <1>3, <2>1, Fewer
<1>5. Printed("master")' = Printed("master") /\ Printed("slave")' = Printed("slave")
  BY <1>0, PrintedStays
<1>6. CASE p[1] = "master"
  <2>1. SlaveLead => SlaveLead'
    <3>1. \A q \in Of("slave") : pc'[q] = "print" => pc[q] = "print"
      BY <1>2, <1>6 DEF Of
    <3>2. \A q \in Of("master") : pc'[q] = "kill" => pc[q] = "kill"
      BY <1>2, <1>6 DEF Of
    <3> QED
      BY <1>0, <1>3, <3>1, <3>2, SlaveLeadKept
  <2>2. At("slave", {"kill"})' = At("slave", {"kill"}) /\ At("slave", {"kill"}) \in {0, 1}
    BY <1>2, <1>6, AtIs DEF Of
  <2>3. At("master", {"kill", "sigwait"}) \in {0, 1} /\ At("master", {"kill", "sigwait"})' \in {0, 1}
    BY AtIs
  <2> QED
    BY <1>4, <1>5, <1>6, <2>1, <2>2, <2>3, Counts DEF MasterLead
<1>7. CASE p[1] = "slave"
  <2>1. MasterLead => MasterLead'
    <3>1. \A q \in Of("slave") : pc'[q] = "kill" => pc[q] = "kill"
      BY <1>2, <1>7 DEF Of
    <3>2. \A q \in Of("master") : pc[q] \in {"kill", "sigwait"} => pc'[q] \in {"kill", "sigwait"}
      BY <1>2, <1>7 DEF Of
    <3> QED
      BY <1>0, <1>3, <3>1, <3>2, MasterLeadKept
  <2>2. At("master", {"kill"})' = At("master", {"kill"}) /\ At("master", {"kill"}) \in {0, 1}
    BY <1>2, <1>7, AtIs DEF Of
  <2>3. At("slave", {"print"}) \in {0, 1} /\ At("slave", {"print"})' \in {0, 1}
    BY AtIs
  <2> QED
    BY <1>4, <1>5, <1>7, <2>1, <2>2, <2>3, Counts DEF SlaveLead
<1> QED
  BY <1>0, <1>6, <1>7

\* When its first process has ended nobody of a program is alive; and if the master has taken note of the end
\* of the slave, nobody of the slave's program is left.
LEMMA FirstIsOver ==
  ASSUME NEW g \in Program, Stack(g), ~Living(<<g, Root>>), NEW q \in Of(g) PROVE ~Living(q)
<1>1. PICK n \in Nat : \E path \in [1 .. n -> Dir] : Nested(g, n, path)
  BY DEF Stack
<1>2. PICK path \in [1 .. n -> Dir] : Nested(g, n, path)
  BY <1>1
<1>3. <<g, Root>> \in Of(g) /\ <<g, Root>>[2] = Root
  BY Who DEF Of
<1>4. n = 0
  BY <1>2, <1>3 DEF Nested
<1> QED
  BY <1>2, <1>4 DEF Nested

LEMMA SlaveIsGone ==
  ASSUME WalkInv, Orderly("slave"), pc[Slave] = "gone", NEW q \in Of("slave") PROVE pc[q] \in {"none", "gone"}
<1>1. \A r \in Of("slave") : ~Living(r)
  <2>1. ~Living(<<"slave", Root>>)
    BY DEF Living, Slave
  <2> QED
    BY <2>1, FirstIsOver DEF Orderly, Program
<1>2. pc[q] # "zombie"
  <2> SUFFICES ASSUME pc[q] = "zombie" PROVE FALSE
    OBVIOUS
  <2>1. q \in Of("slave") \ {Master, Slave}
    BY Who DEF Of
  <2>2. PICK r \in Of("slave") : pc[r] = "wait"
    BY <2>1 DEF Orderly, Awaited
  <2> QED
    BY <1>1, <2>2 DEF Living
<1> QED
  BY <1>1, <1>2 DEF Living

\* As long as it has not, the master's signals reach somebody.
LEMMA SignalsArrive ==
  ASSUME WalkInv, NotStarted, pc[Slave] # "gone", NEW p \in Of("master") PROVE ~KillFails(p)
<1> SUFFICES ASSUME KillFails(p) PROVE FALSE
  OBVIOUS
<1>1. pc[p] = "kill" /\ Slave \notin Members("slave") /\ p \in Process
  BY DEF KillFails, Other, Of
<1>2. pc[Slave] = "none"
  BY <1>1, Who DEF Members
<1> QED
  BY <1>1, <1>2 DEF NotStarted, Over

\* The leads, in every step.
LEMMA LeadsStep ==
  ASSUME WalkInv, [Next]_vars, WaitsAtDir, NotStarted, Calm, Calm', Orderly("slave"), SlaveLead,
         pc[Slave] # "gone" => Orderly("master") /\ MasterLead
  PROVE  SlaveLead' /\ (pc[Slave] # "gone" => MasterLead')
<1>0. /\ pc \in [Process -> Places] /\ usr1 \in [Process -> BOOLEAN]
      /\ \A p \in Process : p \in Of("master") \/ p \in Of("slave")
  BY Who DEF WalkInv, WalkTypes, PlaceTypes, SignalTypes, Of, Program
<1> DEFINE Goal == SlaveLead' /\ (pc[Slave] # "gone" => MasterLead')
<1>1. ASSUME UNCHANGED out,
         \A q \in Process : usr1'[q] => usr1[q],
         \A q \in Process : \/ pc'[q] = pc[q]
                            \/ /\ pc[q] \notin {"wait", "print", "kill", "sigwait"} /\ pc'[q] # "kill"
                               /\ pc'[q] = "print" => q[1] = "master"
      PROVE Goal
  BY <1>1, LeadsPlain
<1>2. CASE UNCHANGED vars
  <2>1. out' = out /\ usr1' = usr1 /\ pc' = pc
    BY <1>2, Zenon DEF vars, signals
  <2> QED
    BY <1>1, <2>1
<1>3. ASSUME NEW p \in Process, NEW from, NEW to, Goto(p, from, to), UNCHANGED out, \A q \in Process : usr1'[q] => usr1[q],
             from \notin {"wait", "print", "kill", "sigwait"}, to # "kill", to = "print" => p[1] = "master"
      PROVE  Goal
  <2>1. \A q \in Process : pc'[q] = pc[q] \/ (q = p /\ pc[q] = from /\ pc'[q] = to)
    BY <1>0, <1>3 DEF Goto
  <2> HIDE DEF Goal
  <2> QED
    BY <1>1, <1>3, <2>1
<1>4. ASSUME StartProgram PROVE Goal
  <2>1. out' = out /\ usr1' = usr1 /\ pc[Master] = "start" /\ pc' = [pc EXCEPT ![Master] = "await", ![Slave] = "exec"] /\ pc[Slave] = "none"
    BY <1>4, Who, Zenon DEF StartProgram, WalkInv, Firsts
  <2>2. \A q \in Process : pc'[q] = pc[q] \/ (pc[q] \in {"start", "none"} /\ pc'[q] \in {"await", "exec"})
    BY <1>0, <2>1
  <2> HIDE DEF Goal
  <2> QED
    BY <1>1, <2>1, <2>2
<1>5. ASSUME StartFails \/ Exec \/ SendUsr2 PROVE Goal
  <2>1. \E p \in Process, from \in {"start", "exec", "usr2"}, to \in {"zombie", "usr2", "open"} :
           Goto(p, from, to) /\ out' = out /\ usr1' = usr1
    BY <1>5, Who DEF StartFails, Exec, SendUsr2, signals
  <2> HIDE DEF Goal
  <2> QED
    BY <1>3, <2>1
<1>6. ASSUME Await PROVE Goal
  <2>1. Goto(Master, "await", "open") /\ out' = out /\ (usr1' = usr1 \/ usr1' = [usr1 EXCEPT ![Master] = FALSE])
    BY <1>6, Zenon DEF Await
  <2>2. \A q \in Process : usr1'[q] => usr1[q]
    BY <1>0, <2>1
  <2> HIDE DEF Goal
  <2> QED
    BY <1>3, <2>1, <2>2, Who
<1>7. ASSUME ExecFails \/ \E p \in Process : Finish(p) \/ Unblocks(p) PROVE Goal
  <2>1. \E p \in Process, from \in {"exec", "open", "scan"} : Goto(p, from, "zombie") /\ out' = out /\ usr1' = usr1
    BY <1>7, Who DEF ExecFails, Finish, Unblocks, Exit, Goto
  <2> HIDE DEF Goal
  <2> QED
    BY <1>3, <2>1
<1>8. ASSUME NEW p \in Process, Block(p) \/ ScanFile(p) \/ ScanDirFails(p) \/ Reap(p) PROVE Goal
  <2>1. /\ out' = out /\ usr1' = usr1
        /\ \E from \in {"open", "scan", "zombie"}, to \in {"scan", "wait", "gone", IF p[1] = "master" THEN "print" ELSE "sigwait"} :
             Goto(p, from, to)
    BY <1>8 DEF Block, ScanFile, ScanDirFails, Reap, signals
  <2> HIDE DEF Goal
  <2> QED
    BY <1>3, <2>1
<1>9. ASSUME NEW p \in Process, ScanDir(p) PROVE Goal
  <2>1. out' = out /\ usr1' = usr1 /\ pc[p] = "scan" /\ Entry(p) \in Dir /\ ~AtEnd(p)
        /\ pc' = [pc EXCEPT ![p] = "wait", ![<<p[1], Entry(p)>>] = "open"]
    BY <1>9, Zenon DEF ScanDir
  <2>2. pc[<<p[1], Entry(p)>>] = "none"
    <3>1. pos[p] \in DOMAIN Entries(p) /\ Entries(p)[pos[p]] = Entry(p)
      BY <2>1, Shape, AtOne DEF WalkInv, WalkTypes, PlaceTypes, Entry
    <3> QED
      BY <2>1, <3>1 DEF WalkInv, Unreached
  <2>3. \A q \in Process : pc'[q] = pc[q] \/ (pc[q] \in {"scan", "none"} /\ pc'[q] \in {"wait", "open"})
    BY <1>0, <2>1, <2>2
  <2> HIDE DEF Goal
  <2> QED
    BY <1>1, <2>1, <2>3
<1>10. ASSUME NEW p \in Process, Wait(p) PROVE Goal
  BY <1>10, LeadsWait
<1>11. ASSUME NEW p \in Process, Prints(p) PROVE Goal
  BY <1>11, LeadsPrints
<1>12. ASSUME NEW p \in Process, Sigwait(p) PROVE Goal
  BY <1>12, LeadsSigwait
<1>13. ASSUME NEW p \in Process, KillFails(p) PROVE Goal
  <2>1. p[1] # "slave" /\ pc[Slave] # "gone" => FALSE
    BY <1>0, <1>13, SignalsArrive DEF Of
  <2> QED
    BY <1>13, <2>1, LeadsKillFails
<1>14. ASSUME NEW p \in Process, Kill(p) PROVE Goal
  <2>1. pc[Slave] # "gone"
    <3> SUFFICES ASSUME pc[Slave] = "gone" PROVE FALSE
      OBVIOUS
    <3>1. \A q \in Of("slave") : pc[q] \in {"none", "gone"}
      BY SlaveIsGone
    <3>2. pc[p] = "kill" /\ \E q \in Process : q[1] = Other(p) /\ pc[q] \notin {"none", "gone"}
      BY <1>14, CalmKill
    <3>3. p \in Of("master")
      BY <1>0, <3>1, <3>2
    <3> QED
      BY <3>1, <3>2, <3>3 DEF Of, Other
  <2> QED
    BY <1>14, <2>1, LeadsKill
<1> QED
  BY <1>2, <1>4, <1>5, <1>6, <1>7, <1>8, <1>9, <1>10, <1>11, <1>12, <1>13, <1>14, Zenon DEF Next, Start, ListDir

\* The slave is taken note of by the master that waits for a directory, or when the master has ended.
LEMMA HowGone ==
  ASSUME WalkInv, [Next]_vars, pc[Slave] # "gone", pc'[Slave] = "gone"
  PROVE  \/ Reap(Slave)
         \/ Wait(Master) /\ pc' = [pc EXCEPT ![Master] = "scan", ![Slave] = "gone"] /\ pc[Slave] = "zombie"
<1>0. pc \in [Process -> Places] /\ Slave \in Process /\ Master \in Process /\ Slave # Master
  BY Who DEF WalkInv, WalkTypes, PlaceTypes
<1>1. ASSUME NEW p \in Process, NEW to, pc' = [pc EXCEPT ![p] = to], to # "gone" PROVE FALSE
  BY <1>0, <1>1
<1>2. CASE UNCHANGED vars
  BY <1>2 DEF vars
<1>3. CASE StartProgram
  BY <1>0, <1>3 DEF StartProgram
<1>4. CASE StartFails \/ Await \/ Exec \/ SendUsr2 \/ ExecFails
  BY <1>0, <1>1, <1>4 DEF StartFails, Await, Exec, SendUsr2, ExecFails, Goto, Exit
<1>5. ASSUME NEW p \in Process, Block(p) \/ ScanFile(p) \/ ScanDirFails(p) \/ Finish(p) \/ Prints(p) \/ KillFails(p) \/ Unblocks(p) \/ Sigwait(p) PROVE FALSE
  BY <1>1, <1>5 DEF Block, ScanFile, ScanDirFails, Finish, Prints, KillFails, Unblocks, Sigwait, Goto, Exit
<1>6. ASSUME NEW p \in Process, ScanDir(p) PROVE FALSE
  BY <1>0, <1>6 DEF ScanDir
<1>7. ASSUME NEW p \in Process, Kill(p) PROVE FALSE
  <2>1. pc' = [r \in Process |-> IF r \in {r2 \in {r2 \in Members(Other(p)) : Living(r2)} : ~blocks[r2]} THEN "zombie"
                 ELSE IF r # p THEN pc[r] ELSE IF p[1] = "master" THEN "sigwait" ELSE "scan"]
    BY <1>7, Zenon DEF Kill
  <2> QED
    BY <1>0, <2>1
<1>8. ASSUME NEW p \in Process, Reap(p) PROVE Reap(Slave)
  <2>1. pc' = [pc EXCEPT ![p] = "gone"]
    BY <1>8 DEF Reap, Goto
  <2>2. p = Slave
    BY <1>0, <2>1
  <2> QED
    BY <1>8, <2>2
<1>9. ASSUME NEW p \in Process, Wait(p)
      PROVE  Wait(Master) /\ pc' = [pc EXCEPT ![Master] = "scan", ![Slave] = "gone"] /\ pc[Slave] = "zombie"
  <2>1. \/ pc' = [pc EXCEPT ![p] = "scan"]
        \/ \E c \in Process : ParentOf(c, p) /\ pc[c] = "zombie" /\ pc' = [pc EXCEPT ![p] = "scan", ![c] = "gone"]
    BY <1>9, Zenon DEF Wait
  <2>2. PICK c \in Process : ParentOf(c, p) /\ pc[c] = "zombie" /\ pc' = [pc EXCEPT ![p] = "scan", ![c] = "gone"]
    BY <1>1, <2>1
  <2>3. c = Slave
    BY <1>0, <2>2
  <2>4. p = Master
    BY <2>2, <2>3 DEF ParentOf
  <2> QED
    BY <1>9, <2>2, <2>3, <2>4
<1> QED
  BY <1>2, <1>3, <1>4, <1>5, <1>6, <1>7, <1>8, <1>9, Zenon DEF Next, Start, ListDir

LEMMA Few ==
  ASSUME NEW T
  PROVE  /\ T \subseteq {} => Cardinality(T) = 0
         /\ \A e : T \subseteq {e} => Cardinality(T) <= 1
         /\ \A e, f : T \subseteq {e, f} => Cardinality(T) <= 2
<1>1. IsFiniteSet({}) /\ Cardinality({}) = 0
  BY FS_EmptySet
<1>2. \A e : IsFiniteSet({e}) /\ Cardinality({e}) = 1
  BY FS_Singleton
<1>3. T \subseteq {} => T = {}
  OBVIOUS
<1>4. ASSUME NEW e, T \subseteq {e} PROVE Cardinality(T) <= 1
  BY <1>2, <1>4, Fewer
<1>5. ASSUME NEW e, NEW f, T \subseteq {e, f} PROVE Cardinality(T) <= 2
  <2>1. T \subseteq {e} \cup {f}
    BY <1>5
  <2>2. IsFiniteSet({e}) /\ Cardinality({e}) = 1
    BY <1>2
  <2>3. Cardinality(T) <= Cardinality({e}) + 1
    BY <2>1, <2>2, Fewer
  <2> QED
    BY <2>2, <2>3
<1> QED
  BY <1>1, <1>3, <1>4, <1>5

\* From then on the master's processes are on their own: the one that has been interrupted by it, and the one
\* it has waited for.
LEMMA Deserts ==
  ASSUME WalkInv, [Next]_vars, WaitsAtDir, Orderly("master"), MasterLead,
         pc[Slave] # "gone", pc'[Slave] = "gone"
  PROVE  Deserted'
<1>0. /\ pc \in [Process -> Places] /\ Slave \in Process /\ Master \in Process /\ Slave # Master
      /\ Master \in Of("master") /\ Slave \notin Of("master") /\ Master = <<"master", Root>>
  BY Who DEF WalkInv, WalkTypes, PlaceTypes, Of, Master
<1>1. Cardinality(Free') \in Nat
  BY CountedNext DEF Finite
<1>2. At("slave", {"kill"}) \in {0, 1} /\ At("master", {"kill", "sigwait"}) \in {0, 1}
  BY AtIs
<1>3. CASE Reap(Slave)
  <2>1. pc' = [pc EXCEPT ![Slave] = "gone"] /\ out' = out /\ ~Living(Master)
    BY <1>0, <1>3, Zenon DEF Reap, Goto, ParentOf, signals
  <2>2. \A q \in Of("master") : ~Living(q)
    BY <1>0, <2>1, FirstIsOver DEF Orderly, Program
  <2>3. \A q \in Of("master") : pc'[q] = pc[q]
    BY <1>0, <2>1 DEF Of
  <2>4. Free' \subseteq {}
    BY <2>2, <2>3 DEF Free, Living, Of
  <2>5. At("master", {"kill", "sigwait"}) = 0
    <3>1. \A q \in Of("master") : pc[q] \notin {"kill", "sigwait"}
      BY <2>2 DEF Living
    <3> QED
      BY <3>1, AtIs
  <2>6. Printed("master")' = Printed("master") /\ Printed("slave")' = Printed("slave")
    BY <2>1, PrintedStays
  <2>7. Cardinality(Free') = 0
    BY <2>4, Few
  <2> QED
    BY <1>2, <2>5, <2>6, <2>7, Counts DEF MasterLead, Deserted
<1>4. CASE Wait(Master) /\ pc' = [pc EXCEPT ![Master] = "scan", ![Slave] = "gone"] /\ pc[Slave] = "zombie"
  <2>1. pc[Master] = "wait" /\ out' = out /\ usr1' = usr1
    BY <1>4, Zenon DEF Wait, signals
  <2>2. \A q \in Of("master") : q # Master => pc'[q] = pc[q]
    BY <1>0, <1>4 DEF Of
  <2>3. Printed("master")' = Printed("master") /\ Printed("slave")' = Printed("slave")
    BY <2>1, PrintedStays
  <2>4. Cardinality(Past("master")) + 1 <= Cardinality(Past("master")')
    BY <1>0, <1>4, PastOneMore, Who
  \* It is enough to compare the processes that are free with those that wait for a signal.
  <2>5. ASSUME Cardinality(Free') <= Cardinality(Tokens("master")) - At("master", {"kill", "sigwait"}) + 2
        PROVE  Deserted'
    BY <1>1, <1>2, <2>3, <2>4, <2>5, Counts DEF MasterLead, Deserted
  <2>6. ASSUME NEW q \in Free', q # Master PROVE q \in Of("master") /\ Living(q) /\ pc[q] \notin {"wait", "kill"} /\ (pc[q] = "sigwait" => usr1[q])
    BY <2>1, <2>2, <2>6 DEF Free, Living, Of
  <2>7. CASE \E q \in Of("master") : pc[q] \in {"kill", "sigwait"}
    <3>1. PICK q \in Of("master") : pc[q] \in {"kill", "sigwait"}
      BY <2>7
    <3>2. At("master", {"kill", "sigwait"}) = 1
      BY <2>7, AtIs
    <3>3. \A r \in Free' : r # Master => r = q /\ pc[q] = "sigwait" /\ usr1[q]
      <4>1. ASSUME NEW r \in Of("master"), Living(r), pc[r] # "wait" PROVE r = q
        BY <3>1, <4>1, OneActive DEF Orderly, Living, Program
      <4> QED
        BY <2>6, <3>1, <4>1
    <3>4. CASE q \in Tokens("master")
      <4>1. Free' \subseteq {Master, q}
        BY <3>3
      <4>2. Cardinality(Free') <= 2
        BY <4>1, Few
      <4>3. Cardinality(Tokens("master")) >= 1
        BY <3>4, Counts, FS_EmptySet
      <4> QED
        BY <1>1, <2>5, <3>2, <4>2, <4>3, Counts
    <3>5. CASE q \notin Tokens("master")
      <4>1. Free' \subseteq {Master}
        BY <3>3, <3>5 DEF Tokens
      <4>2. Cardinality(Free') <= 1
        BY <4>1, Few
      <4> QED
        BY <1>1, <2>5, <3>2, <4>2, Counts
    <3> QED
      BY <3>4, <3>5
  <2>8. CASE \A q \in Of("master") : pc[q] \notin {"kill", "sigwait"}
    <3>1. At("master", {"kill", "sigwait"}) = 0
      BY <2>8, AtIs
    <3>2. \A q, r \in Free' : q # Master /\ r # Master => q = r
      BY <2>6, OneActive DEF Orderly, Program
    <3>3. \E e : Free' \subseteq {Master, e}
      <4>1. CASE Free' \subseteq {Master}
        BY <4>1
      <4>2. ASSUME NEW e \in Free', e # Master PROVE Free' \subseteq {Master, e}
        BY <3>2, <4>2
      <4> QED
        BY <4>1, <4>2
    <3>4. Cardinality(Free') <= 2
      BY <3>3, Few
    <3> QED
      BY <1>1, <2>5, <3>1, <3>4, Counts
  <2> QED
    BY <2>7, <2>8
<1> QED
  BY <1>3, <1>4, HowGone

\* Each of them stops at its next file.
LEMMA DesertedStep ==
  ASSUME WalkInv, [Next]_vars, WaitsAtDir, Calm, Calm', Orderly("slave"), pc[Slave] = "gone", Deserted
  PROVE  Deserted'
<1>0. /\ pc \in [Process -> Places] /\ usr1 \in [Process -> BOOLEAN] /\ Slave \in Process /\ Master \in Process /\ Slave # Master
      /\ \A p \in Process : p \in Of("master") \/ p \in Of("slave")
      /\ \A q \in Of("slave") : pc[q] \in {"none", "gone"}
  BY Who, SlaveIsGone DEF WalkInv, WalkTypes, PlaceTypes, SignalTypes, Of, Program
<1>1. IsFiniteSet(Free) /\ Cardinality(Free) \in Nat /\ Cardinality(Free') \in Nat
  BY CountedNext DEF Finite
<1>2. ASSUME UNCHANGED out, Free' \subseteq Free PROVE Deserted'
  <2>1. Cardinality(Free') <= Cardinality(Free)
    BY <1>1, <1>2, Fewer
  <2>2. Printed("master")' = Printed("master") /\ Printed("slave")' = Printed("slave")
    BY <1>2, PrintedStays
  <2> QED
    BY <1>1, <2>1, <2>2, Counts DEF Deserted
<1>3. ASSUME UNCHANGED out, \A q \in Of("master") : /\ usr1'[q] => usr1[q]
                                                    /\ pc'[q] = pc[q] \/ pc'[q] \in {"wait", "zombie", "gone"} \/ q \in Free
      PROVE  Deserted'
  <2>1. ASSUME NEW q \in Free' PROVE q \in Free
    <3>1. /\ q \in Process /\ q[1] = "master" /\ Living(q)' /\ pc'[q] \notin {"wait", "kill"}
          /\ pc'[q] = "sigwait" => usr1'[q]
      BY Zenon DEF Free, Of
    <3>2. q \in Of("master") /\ pc'[q] \notin {"none", "zombie", "gone"}
      BY <3>1 DEF Of, Living
    <3>3. /\ usr1'[q] => usr1[q]
          /\ pc'[q] = pc[q] \/ pc'[q] \in {"wait", "zombie", "gone"} \/ q \in Free
      BY <1>3, <3>2, Zenon
    <3>4. pc'[q] = pc[q] \/ q \in Free
      BY <3>1, <3>2, <3>3
    <3>5. ASSUME pc'[q] = pc[q] PROVE q \in Free
      <4>1. Living(q) /\ pc[q] \notin {"wait", "kill"}
        BY <3>1, <3>2, <3>5 DEF Living
      <4>2. pc[q] = "sigwait" => usr1[q]
        BY <3>1, <3>3, <3>5, Zenon
      <4> QED
        BY <3>2, <4>1, <4>2, Zenon DEF Free
    <3> QED
      BY <3>4, <3>5
  <2> QED
    BY <1>2, <1>3, <2>1
<1>4. CASE UNCHANGED vars
  <2>1. out' = out /\ usr1' = usr1 /\ pc' = pc
    BY <1>4, Zenon DEF vars, signals
  <2> QED
    BY <1>3, <2>1
<1>5. ~StartProgram /\ ~StartFails /\ ~Exec /\ ~ExecFails /\ ~SendUsr2
  <2>1. pc[Master] # "start"
    BY <1>0 DEF WalkInv, Firsts
  <2> QED
    BY <2>1 DEF StartProgram, StartFails, Exec, ExecFails, SendUsr2, Goto
<1>6. CASE Await
  <2>1. pc[Master] = "await" /\ pc' = [pc EXCEPT ![Master] = "open"] /\ out' = out
        /\ (usr1' = usr1 \/ usr1' = [usr1 EXCEPT ![Master] = FALSE])
    BY <1>6, Zenon DEF Await, Goto
  <2>2. \A q \in Process : (usr1'[q] => usr1[q]) /\ (q # Master => pc'[q] = pc[q])
    BY <1>0, <2>1
  <2>3. Master \in Free
    BY <1>0, <2>1, Who DEF Free, Living, Of
  <2> QED
    BY <1>3, <2>1, <2>2, <2>3 DEF Of
<1>7. ASSUME NEW p \in Process, ListDir(p) \/ Reap(p) PROVE p \in Of("master")
  <2>1. pc[p] \notin {"none", "gone"}
    BY <1>7 DEF ListDir, Block, ScanFile, ScanDir, ScanDirFails, Wait, Finish, Prints, Kill, KillFails, Unblocks, Sigwait, Reap, Goto
  <2> QED
    BY <1>0, <2>1
<1>8. ASSUME NEW p \in Of("master"), NEW from, NEW to, pc[p] = from, pc' = [pc EXCEPT ![p] = to], out' = out, usr1' = usr1,
             to \in {"wait", "zombie", "gone"} \/ from \in {"open", "scan"}
      PROVE  Deserted'
  <2>1. \A q \in Process : q # p => pc'[q] = pc[q]
    BY <1>0, <1>8
  <2>2. p \in Process /\ (from \in {"open", "scan"} => p \in Free)
    BY <1>8 DEF Free, Living, Of
  <2>3. pc'[p] = to
    BY <1>0, <1>8, <2>2
  <2> QED
    BY <1>3, <1>8, <2>1, <2>2, <2>3 DEF Of
<1>9. ASSUME NEW p \in Of("master"), Block(p) \/ ScanFile(p) \/ ScanDirFails(p) \/ Finish(p) \/ KillFails(p) \/ Unblocks(p) \/ Reap(p)
      PROVE  Deserted'
  <2>1. /\ out' = out /\ usr1' = usr1
        /\ \E from \in {"open", "scan", "kill", "zombie"}, to \in {"scan", "print", "sigwait", "wait", "zombie", "gone"} :
             /\ pc[p] = from /\ pc' = [pc EXCEPT ![p] = to]
             /\ to \in {"wait", "zombie", "gone"} \/ from \in {"open", "scan"}
    BY <1>9 DEF Block, ScanFile, ScanDirFails, Finish, KillFails, Unblocks, Reap, Goto, Exit, signals
  <2> QED
    BY <1>8, <2>1
<1>10. ASSUME NEW p \in Of("master"), ScanDir(p) PROVE Deserted'
  <2> DEFINE c == <<p[1], Entry(p)>>
  <2>1. out' = out /\ usr1' = usr1 /\ pc[p] = "scan" /\ pc' = [pc EXCEPT ![p] = "wait", ![c] = "open"]
    BY <1>10, Zenon DEF ScanDir
  <2> HIDE DEF c
  <2>2. p \in Free /\ p \in Process
    BY <2>1 DEF Free, Living, Of
  <2>3. Free' \subseteq (Free \ {p}) \cup {c}
    <3> SUFFICES ASSUME NEW q \in Free', q # c PROVE q \in Free /\ q # p
      OBVIOUS
    <3>1. q \in Of("master") /\ q \in Process /\ pc'[q] # "wait"
      BY DEF Free, Of
    <3>2. q # p
      BY <1>0, <2>1, <2>2, <3>1
    <3>3. pc'[q] = pc[q]
      BY <1>0, <2>1, <3>1, <3>2
    <3> QED
      BY <2>1, <3>1, <3>2, <3>3 DEF Free, Living, Of
  <2>4. Cardinality(Free') <= Cardinality(Free)
    BY <1>1, <2>2, <2>3, Fewer
  <2>5. Printed("master")' = Printed("master") /\ Printed("slave")' = Printed("slave")
    BY <2>1, PrintedStays
  <2> QED
    BY <1>1, <2>4, <2>5, Counts DEF Deserted
<1>11. ASSUME NEW p \in Of("master"), Wait(p) PROVE Deserted'
  <2>1. out' = out /\ usr1' = usr1 /\ p \in Process /\ p[1] = "master"
    BY <1>11, Zenon DEF Wait, signals, Of
  <2>2. pc' = [pc EXCEPT ![p] = "scan"] \/ \E c \in Process : pc[c] = "zombie" /\ pc' = [pc EXCEPT ![p] = "scan", ![c] = "gone"]
    BY <1>11, Zenon DEF Wait
  <2>3. \A q \in Process : q # p => pc'[q] = pc[q] \/ pc'[q] = "gone"
    BY <1>0, <2>2
  <2>4. Free' \subseteq Free \cup {p}
    BY <2>1, <2>3 DEF Free, Living, Of
  <2>5. Cardinality(Free') <= Cardinality(Free) + 1
    BY <1>1, <2>4, Fewer
  <2>6. Cardinality(Past("master")) + 1 <= Cardinality(Past("master")')
    BY <1>11, <2>1, PastOneMore
  <2>7. Printed("master")' = Printed("master") /\ Printed("slave")' = Printed("slave")
    BY <2>1, PrintedStays
  <2> QED
    BY <1>1, <2>5, <2>6, <2>7, Counts DEF Deserted
<1>12. ASSUME NEW p \in Of("master"), Prints(p) PROVE Deserted'
  <2>1. pc[p] = "print" /\ pc' = [pc EXCEPT ![p] = "kill"] /\ usr1' = usr1 /\ p \in Process /\ p[1] = "master"
    BY <1>12 DEF Prints, Goto, signals, Of
  <2>2. p \in Free
    BY <2>1 DEF Free, Living, Of
  <2>3. Free' \subseteq Free \ {p}
    <3>1. \A q \in Process : pc'[q] = IF q = p THEN "kill" ELSE pc[q]
      BY <1>0, <2>1
    <3> QED
      BY <2>1, <3>1 DEF Free, Living, Of
  <2>4. Cardinality(Free') + 1 <= Cardinality(Free)
    BY <1>1, <2>2, <2>3, Fewer
  <2>5. Printed("master")' = Printed("master") + 1 /\ Printed("slave")' = Printed("slave")
    BY <1>12, <2>1, PrintsOne DEF Program
  <2> QED
    BY <1>1, <2>4, <2>5, Counts DEF Deserted
<1>13. ASSUME NEW p \in Of("master"), Sigwait(p) PROVE Deserted'
  <2>1. pc[p] = "sigwait" /\ pc' = [pc EXCEPT ![p] = "scan"] /\ out' = out /\ p \in Process
    BY <1>13 DEF Sigwait, Goto, Of
  <2>2. usr1[p] /\ usr1' = [usr1 EXCEPT ![p] = FALSE]
    <3>1. chld[p] # "pending"
      BY <2>1 DEF Calm, Clean
    <3> QED
      BY <1>13, <3>1, Zenon DEF Sigwait
  <2>3. \A q \in Process : (usr1'[q] => usr1[q]) /\ (q # p => pc'[q] = pc[q])
    BY <1>0, <2>1, <2>2
  <2>4. p \in Free
    BY <2>1, <2>2 DEF Free, Living
  <2> QED
    BY <1>3, <2>1, <2>3, <2>4 DEF Of
<1>14. ASSUME NEW p \in Of("master") PROVE ~Kill(p)
  <2> SUFFICES ASSUME Kill(p) PROVE FALSE
    OBVIOUS
  <2>1. Other(p) = "slave" /\ p \in Process
    BY DEF Other, Of
  <2>2. \E q \in Process : q[1] = Other(p) /\ pc[q] \notin {"none", "gone"}
    BY <2>1, CalmKill
  <2> QED
    BY <1>0, <2>1, <2>2 DEF Of
<1> QED
  BY <1>4, <1>5, <1>6, <1>7, <1>9, <1>10, <1>11, <1>12, <1>13, <1>14, Zenon DEF Next, Start, ListDir

\* The dead stay dead.
LEMMA KilledStay == ASSUME [Next]_vars PROVE killed \subseteq killed'
<1>1. killed' = killed \/ \E p \in Process : Kill(p)
  BY Zenon DEF Next, vars, signals, Start, ListDir, StartProgram, StartFails, Await, Exec, ExecFails, SendUsr2,
     Block, ScanFile, ScanDir, ScanDirFails, Wait, Finish, Prints, KillFails, Unblocks, Sigwait, Reap
<1>2. ASSUME NEW p \in Process, Kill(p) PROVE \E dying : killed' = killed \cup dying
  BY <1>2, Zenon DEF Kill
<1> QED
  BY <1>1, <1>2

LEMMA GoneStays == ASSUME WalkInv, [Next]_vars, pc[Slave] = "gone" PROVE pc'[Slave] = "gone"
<1>0. pc \in [Process -> Places] /\ Slave \in Process /\ Master \in Process /\ Slave # Master
  BY Who DEF WalkInv, WalkTypes, PlaceTypes
<1>1. ASSUME NEW p \in Process, NEW to, pc' = [pc EXCEPT ![p] = to], pc[p] # "gone" PROVE pc'[Slave] = "gone"
  BY <1>0, <1>1
<1>2. CASE UNCHANGED vars
  BY <1>2 DEF vars
<1>3. ~StartProgram
  BY <1>0 DEF StartProgram, WalkInv, Firsts
<1>4. CASE StartFails \/ Await \/ Exec \/ SendUsr2 \/ ExecFails
  BY <1>0, <1>1, <1>4 DEF StartFails, Await, Exec, SendUsr2, ExecFails, Goto, Exit
<1>5. ASSUME NEW p \in Process,
             Block(p) \/ ScanFile(p) \/ ScanDirFails(p) \/ Finish(p) \/ Prints(p) \/ KillFails(p) \/ Unblocks(p) \/ Sigwait(p) \/ Reap(p)
      PROVE  pc'[Slave] = "gone"
  BY <1>1, <1>5 DEF Block, ScanFile, ScanDirFails, Finish, Prints, KillFails, Unblocks, Sigwait, Reap, Goto, Exit
<1>6. ASSUME NEW p \in Process, ScanDir(p) PROVE pc'[Slave] = "gone"
  <2>1. /\ Entry(p) \in Dir /\ pc[p] = "scan" /\ ~AtEnd(p)
        /\ pc' = [pc EXCEPT ![p] = "wait", ![<<p[1], Entry(p)>>] = "open"]
    BY <1>6, Zenon DEF ScanDir
  <2>2. pos[p] \in 1 .. Size(p) /\ Entry(p) = Entries(p)[pos[p]]
    BY <2>1, Shape, AtOne DEF WalkInv, WalkTypes, PlaceTypes, Entry
  <2>3. Entry(p) # Root
    BY <2>1, <2>2, Shape DEF WalkInv, WalkTypes
  <2>4. <<p[1], Entry(p)>> # Slave
    BY <2>3, Who
  <2> QED
    BY <1>0, <2>1, <2>4
<1>7. ASSUME NEW p \in Process, Kill(p) PROVE pc'[Slave] = "gone"
  <2>1. /\ pc[p] = "kill"
        /\ pc' = [r \in Process |-> IF r \in {r2 \in {r2 \in Members(Other(p)) : Living(r2)} : ~blocks[r2]} THEN "zombie"
                    ELSE IF r # p THEN pc[r] ELSE IF p[1] = "master" THEN "sigwait" ELSE "scan"]
    BY <1>7, Zenon DEF Kill
  <2>2. ~Living(Slave)
    BY DEF Living
  <2> QED
    BY <1>0, <2>1, <2>2
<1>8. ASSUME NEW p \in Process, Wait(p) PROVE pc'[Slave] = "gone"
  <2>1. pc[p] = "wait" /\ \/ pc' = [pc EXCEPT ![p] = "scan"]
                          \/ \E c \in Process : pc[c] = "zombie" /\ pc' = [pc EXCEPT ![p] = "scan", ![c] = "gone"]
    BY <1>8, Zenon DEF Wait
  <2> QED
    BY <1>0, <2>1
<1> QED
  BY <1>2, <1>3, <1>4, <1>5, <1>6, <1>7, <1>8, Zenon DEF Next, Start, ListDir

\* The invariant at the start and in every step.
LEMMA DriftInit == Init => DriftInv
<1> SUFFICES ASSUME Init PROVE DriftInv
  OBVIOUS
<1>1. pc = [p \in Process |-> IF p = Master THEN "start" ELSE "none"] /\ Slave # Master /\ Slave \in Process /\ Master \in Process
  BY Who DEF Init
<1>2. WalkInv
  BY WalkInit
<1>3. ASSUME NEW g \in {"master", "slave"} PROVE Tokens(g) \subseteq {} /\ Printed(g) = 0 /\ Cardinality(Past(g)) \in Nat
  <2>1. Tokens(g) \subseteq {}
    BY DEF Init, Tokens, Of
  <2>2. {i \in DOMAIN out : out[i][1] = g} \subseteq {}
    BY DEF Init
  <2>3. Cardinality(Past(g)) \in Nat
    BY <1>2, Counted DEF Program
  <2> QED
    BY <2>1, <2>2, <2>3, Few DEF Printed
<1>4. At("slave", {"kill"}) = 0 /\ At("slave", {"print"}) = 0 /\ At("master", {"kill"}) = 0 /\ At("master", {"kill", "sigwait"}) = 0
  <2>1. \A q \in Process : pc[q] \notin {"kill", "print", "sigwait"}
    BY <1>1
  <2> QED
    BY <2>1, AtIs DEF Of
<1>5. MasterLead /\ SlaveLead
  <2>1. Cardinality(Tokens("master")) = 0 /\ Cardinality(Tokens("slave")) = 0
    BY <1>3, Few
  <2> QED
    BY <1>3, <1>4, <2>1 DEF MasterLead, SlaveLead
<1>6. WaitsAtDir /\ NotStarted
  BY <1>1 DEF WaitsAtDir, NotStarted
<1>7. \A g \in Program : Awaited(g)
  BY <1>1 DEF Awaited, Of
<1>8. Stack("slave")
  <2>1. [i \in 1 .. 0 |-> Root] \in [1 .. 0 -> Dir]
    BY Who
  <2>2. PICK path \in [1 .. 0 -> Dir] : TRUE
    BY <2>1
  <2>3. \A q \in Of("slave") : ~Living(q)
    BY <1>1, Who DEF Of, Living
  <2>4. Nested("slave", 0, path)
    BY <2>3 DEF Nested
  <2> QED
    BY <2>4 DEF Stack
<1>9. Stack("master")
  <2>1. [i \in 1 .. 1 |-> Root] \in [1 .. 1 -> Dir]
    BY Who
  <2>2. PICK path \in [1 .. 1 -> Dir] : path = [i \in 1 .. 1 |-> Root]
    BY <2>1, Zenon
  <2>3. \A q \in Of("master") : Living(q) <=> q[2] = Root
    BY <1>1, Who DEF Of, Living
  <2>4. Nested("master", 1, path)
    BY <2>2, <2>3 DEF Nested
  <2> QED
    BY <2>4 DEF Stack
<1>10. pc[Slave] # "gone"
  BY <1>1
<1> QED
  BY <1>5, <1>6, <1>7, <1>8, <1>9, <1>10 DEF DriftInv, Orderly, Program

LEMMA DriftStep == WalkInv /\ DriftInv /\ [Next]_vars => DriftInv'
<1> SUFFICES ASSUME WalkInv, DriftInv, [Next]_vars PROVE DriftInv'
  OBVIOUS
<1>1. WaitsAtDir' /\ NotStarted'
  BY WaitsAtDirStep, NotStartedStep DEF DriftInv
<1> SUFFICES ASSUME Calm' PROVE (/\ Orderly("slave") /\ SlaveLead
                                 /\ pc[Slave] # "gone" => Orderly("master") /\ MasterLead
                                 /\ pc[Slave] = "gone" => Deserted)'
  BY <1>1 DEF DriftInv
<1>2. Calm
  <2>1. killed = {}
    <3>1. killed \subseteq killed'
      BY KilledStay
    <3> QED
      BY <3>1 DEF Calm
  <2>2. Clean
    BY CleanStays DEF Calm, WalkInv
  <2> QED
    BY <2>1, <2>2 DEF Calm
<1>3. /\ WaitsAtDir /\ NotStarted /\ Orderly("slave") /\ SlaveLead
      /\ pc[Slave] # "gone" => Orderly("master") /\ MasterLead
      /\ pc[Slave] = "gone" => Deserted
  BY <1>2 DEF DriftInv
<1>4. Orderly("slave")'
  BY <1>2, <1>3, OrderlyStep DEF Program
<1>5. SlaveLead' /\ (pc[Slave] # "gone" => MasterLead')
  BY <1>2, <1>3, LeadsStep
<1>6. pc[Slave] = "gone" => pc'[Slave] = "gone"
  BY GoneStays, Who
<1>7. ASSUME pc'[Slave] # "gone" PROVE Orderly("master")' /\ MasterLead'
  <2>1. pc[Slave] # "gone"
    BY <1>6, <1>7
  <2> QED
    BY <1>2, <1>3, <1>5, <1>7, <2>1, OrderlyStep DEF Program
<1>8. ASSUME pc'[Slave] = "gone" PROVE Deserted'
  <2>1. CASE pc[Slave] = "gone"
    BY <1>2, <1>3, <2>1, DesertedStep
  <2>2. CASE pc[Slave] # "gone"
    BY <1>3, <1>8, <2>2, Deserts
  <2> QED
    BY <2>1, <2>2
<1> QED
  BY <1>4, <1>5, <1>7, <1>8

\* For every directory tree, where nobody is killed and no set holds SIGCHLD: the slave is ahead of the master by
\* at most one file for each subdirectory, and the master of the slave by one more (listDir of zadanie_1_03.c and
\* of proces2.c).
THEOREM DriftIsBounded == Spec => []DriftBounded
<1>1. WalkInv /\ DriftInv => DriftBounded
  <2> SUFFICES ASSUME WalkInv, DriftInv, Calm
               PROVE  Printed("master") - Printed("slave") \in -Cardinality(Subdirectories) .. Cardinality(Subdirectories) + 1
    BY DEF DriftBounded, Calm
  <2>1. /\ SlaveLead
        /\ pc[Slave] # "gone" => MasterLead
        /\ pc[Slave] = "gone" => Deserted
    BY DEF DriftInv
  <2>2. \A g \in {"master", "slave"} : /\ Printed(g) \in Nat /\ Cardinality(Tokens(g)) \in Nat /\ Cardinality(Past(g)) \in Nat
                                       /\ Cardinality(Past(g)) <= Cardinality(Subdirectories)
    BY Counted, PastIsBounded DEF Program
  <2>3. Cardinality(Free) \in Nat /\ Cardinality(Subdirectories) \in Nat
    BY Counted, PastIsBounded DEF Program
  <2>4. /\ At("slave", {"kill"}) \in {0, 1} /\ At("slave", {"print"}) \in {0, 1}
        /\ At("master", {"kill"}) \in {0, 1} /\ At("master", {"kill", "sigwait"}) \in {0, 1}
    BY AtIs
  <2>5. Printed("slave") <= Printed("master") + Cardinality(Subdirectories)
    BY <2>1, <2>2, <2>3, <2>4 DEF SlaveLead
  <2>6. Printed("master") <= Printed("slave") + Cardinality(Subdirectories) + 1
    BY <2>1, <2>2, <2>3, <2>4 DEF MasterLead, Deserted
  <2> QED
    BY <2>2, <2>3, <2>5, <2>6
<1> QED
  BY <1>1, WalkInit, WalkStep, DriftInit, DriftStep, PTL DEF Spec
=============================================================================
