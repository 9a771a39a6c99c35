------------------------- MODULE FirstShared_proofs -------------------------
(***************************************************************************)
(* The programs that share memory without the library, for words and       *)
(* messages of every length, every number of iterations and every set of   *)
(* calls that may fail.                                                    *)
(***************************************************************************)
EXTENDS MCFirstShared, SequenceTheorems, TLAPS

\* A step of the run is one of the program that runs; the others stutter.
LEMMA Parts ==
  [MCNext]_<<running, vars, pair, threads>> =>
    [Next]_vars /\ [Pair!Next]_(Pair!vars) /\ [Threads!Next]_(Threads!vars)
BY DEF MCNext, pair, threads, Pair!vars, Threads!vars

-----------------------------------------------------------------------------
(***************************************************************************)
(* The lock of 05.sharedMemory: only one of the three children is between  *)
(* lock_semaphore and unlock_semaphore.  The handlers make this more than  *)
(* a counter: a process that dies under the lock gives it back (SEM_UNDO), *)
(* the reader may remove the semaphore under a writer, who then leaves     *)
(* without opening it, and a child that starts later creates another       *)
(* semaphore, which nobody ever opens.                                     *)
(***************************************************************************)

\* Where a process can be.
Point == {"unborn", "start", "init", "clear", "fork1", "fork2", "fork3", "wait", "fail", "forked",
          "lock", "exit", "zombie", "reaped", "write", "terminate", "print", "unlock"}

\* The ranges of what the lock depends on.
LockTypes ==
  /\ at \in [Process -> Point]
  /\ key \in [Object -> {0} \cup Gen] /\ id \in [Process -> [Object -> {0} \cup Gen]]
  /\ val \in [Gen -> 0 .. 1] /\ undo \in [Gen -> [Process -> 0 .. 1]]

\* Until main.c sets the semaphore to one there are no children and nobody holds it, and
\* main's semaphore is the one of generation 1.
Early ==
  /\ at["main"] \in {"start", "init"} =>
       /\ \A c \in Child : at[c] = "unborn"
       /\ \A p \in Process : undo[1][p] = 0
  /\ at["main"] = "start" => key["sem"] # 2 /\ id["main"]["sem"] = 0
  /\ at["main"] = "init" => id["main"]["sem"] = 1

\* One process at most has taken the semaphore and not given it back; then it is closed.
OneHolder ==
  \A p \in Process : undo[1][p] = 1 => val[1] = 0 /\ \A q \in Process : undo[1][q] = 1 => p = q

\* The second semaphore is never opened.
SecondClosed == val[2] = 0 /\ \A p \in Process : undo[2][p] = 0

\* Who is under the lock has taken the first semaphore; who asks for it has one.
Holds ==
  \A p \in Process :
    /\ at[p] \in Inside => id[p]["sem"] = 1 /\ undo[1][p] = 1
    /\ at[p] = "lock" => id[p]["sem"] \in Gen

\* The inductive invariant.
LockInv == LockTypes /\ Early /\ OneHolder /\ SecondClosed /\ Holds

\* Nobody is under the lock when the program starts.
LEMMA LockInit == Init => LockInv
<1> SUFFICES ASSUME Init PROVE LockInv
    OBVIOUS
<1> QED
    BY SMT DEF Init, LockInv, LockTypes, Early, OneHolder, SecondClosed, Holds, Process, Child,
       Writer, Object, Gen, Inside, Point

\* The end of a process, however it comes, gives back what the process holds.
LEMMA EndsKeepsLock ==
  ASSUME LockInv, NEW p \in Process, NEW pending, Ends(p, pending), at[p] # "unborn",
         key' \in [Object -> {0} \cup Gen]
  PROVE  LockInv'
<1> USE DEF LockInv, Process, Child, Writer, Gen, Point
<1>1. /\ at' \in [Process -> Point] /\ id' = id
      /\ at'[p] \in {"zombie", "reaped"} /\ \A q \in Process \ {p} : at'[q] = at[q]
  BY SMT DEF Ends, LockTypes
<1>2. /\ \A g \in Gen : val'[g] = val[g] + undo[g][p]
      /\ \A g \in Gen, q \in Process : undo'[g][q] = IF q = p THEN 0 ELSE undo[g][q]
  BY SMT DEF Ends, LockTypes
<1>3. LockTypes'
  <2>1. \A g \in Gen : val[g] + undo[g][p] \in 0 .. 1
    BY SMT DEF LockTypes, OneHolder, SecondClosed
  <2> QED
    BY <1>1, <2>1, SMT DEF Ends, LockTypes
<1>4. OneHolder' /\ SecondClosed'
  BY <1>2, SMT DEF LockTypes, OneHolder, SecondClosed
<1>5. Early'
  <2>1. CASE p = "main"
    BY <2>1, <1>1, SMT DEF Early
  <2>2. CASE p # "main"
    <3>1. at'["main"] \notin {"start", "init"}
      BY <2>2, <1>1, SMT DEF Early
    <3> QED
      BY <3>1 DEF Early
  <2> QED
    BY <2>1, <2>2
<1>6. Holds'
  BY <1>1, <1>2, SMT DEF Holds, Inside
<1> QED
  BY <1>3, <1>4, <1>5, <1>6

\* Steps that leave the semaphore alone and take nobody to the lock.
LEMMA OtherKeepsLock ==
  ASSUME LockInv, UNCHANGED <<key, id, val, undo>>, at' \in [Process -> Point],
         \A p \in Process : at'[p] \in Inside => at[p] \in Inside,
         \A p \in Process : at'[p] = "lock" => at[p] = "lock",
         at'["main"] \in {"start", "init"} => at' = at
  PROVE  LockInv'
BY SMT DEF LockInv, LockTypes, Early, OneHolder, SecondClosed, Holds, Process

\* Every step of a process keeps the invariant.
LEMMA RunKeepsLock == ASSUME LockInv, NEW p \in Process, Run(p) PROVE LockInv'
<1> USE DEF Process, Child, Writer, Point
<1>1. at \in [Process -> Point]
  BY DEF LockInv, LockTypes
<1>2. CASE \E q \in Process : Start(q)
  <2> PICK q \in Process : Start(q)
    BY <1>2
  <2>1. /\ key' \in [Object -> Gen] /\ id' = [id EXCEPT ![q] = key']
        /\ key'["sem"] = IF key["sem"] # 0 THEN key["sem"] ELSE IF id["main"]["sem"] = 0 THEN 1 ELSE 2
    BY SMT DEF Start, LockInv, LockTypes, Gen, Object
  <2>2. /\ at[q] = "start" /\ at' = [at EXCEPT ![q] = IF q = "main" THEN "init" ELSE "lock"]
        /\ UNCHANGED <<val, undo>>
    BY SMT DEF Start, Goto, Ready, content
  <2> QED
    BY <2>1, <2>2, SMT DEF LockInv, LockTypes, Early, OneHolder, SecondClosed, Holds, Gen, Object,
       Inside
<1>3. CASE Lock(p) /\ p \in Child
  <2>1. CASE SemGone(p)
    BY <1>1, <1>3, <2>1, OtherKeepsLock, SMT DEF Lock, Ready, Inside, LockInv, Early
  <2>2. CASE ~SemGone(p)
    <3>1. at[p] = "lock" /\ id[p]["sem"] = 1 /\ val[1] = 1
      BY <1>3, <2>2, SMT DEF Lock, Ready, LockInv, LockTypes, Holds, SecondClosed, Gen, Object
    <3>2. /\ at' = [at EXCEPT ![p] = IF p \in Writer THEN "write" ELSE "print"]
          /\ val' = [val EXCEPT ![1] = val[1] - 1]
          /\ undo' = [undo EXCEPT ![1] = [undo[1] EXCEPT ![p] = undo[1][p] + 1]]
          /\ UNCHANGED <<key, id>>
      BY <1>3, <2>2, <3>1, SMT DEF Lock, LockInv, LockTypes, Gen
    <3>3. \A q \in Process : undo[1][q] = 0
      BY <3>1, SMT DEF LockInv, LockTypes, OneHolder, Gen
    <3> QED
      BY <1>3, <3>1, <3>2, <3>3, SMT DEF LockInv, LockTypes, Early, OneHolder, SecondClosed, Holds,
         Gen, Inside
  <2> QED
    BY <2>1, <2>2
<1>4. CASE Unlock(p) /\ p \in Child
  <2>1. CASE SemGone(p)
    BY <1>1, <1>4, <2>1, OtherKeepsLock, SMT DEF Unlock, Ready, Inside, LockInv, Early
  <2>2. CASE ~SemGone(p)
    <3>1. at[p] = "unlock" /\ id[p]["sem"] = 1 /\ val[1] = 0 /\ undo[1][p] = 1
      BY <1>4, SMT DEF Unlock, Ready, LockInv, Holds, OneHolder, Inside
    <3>2. /\ at' = [at EXCEPT ![p] = IF p \in Writer THEN "exit" ELSE "lock"]
          /\ val' = [val EXCEPT ![1] = val[1] + 1]
          /\ undo' = [undo EXCEPT ![1] = [undo[1] EXCEPT ![p] = undo[1][p] - 1]]
          /\ UNCHANGED <<key, id>>
      BY <1>4, <2>2, <3>1, SMT DEF Unlock, LockInv, LockTypes, Gen
    <3> QED
      BY <1>4, <3>1, <3>2, SMT DEF LockInv, LockTypes, Early, OneHolder, SecondClosed, Holds, Gen,
         Inside
  <2> QED
    BY <2>1, <2>2
<1>5. CASE InitSemaphor
  <2>1. at["main"] = "init" /\ id["main"]["sem"] = 1 /\ \A q \in Process : undo[1][q] = 0
    BY <1>5, SMT DEF InitSemaphor, Goto, Ready, LockInv, Early
  <2>2. /\ at' = [at EXCEPT !["main"] = "clear"] /\ val' = [val EXCEPT ![1] = 1]
        /\ UNCHANGED <<key, id, undo>>
    BY <1>5, <2>1, SMT DEF InitSemaphor, Goto
  <2> QED
    BY <2>1, <2>2, SMT DEF LockInv, LockTypes, Early, OneHolder, SecondClosed, Holds, Gen, Inside
<1>6. CASE Clear \/ Wait \/ ChildExit
  BY <1>1, <1>6, OtherKeepsLock, SMT DEF Clear, Wait, ChildExit, Goto, Ready, Inside, content, sigs,
     LockInv, Early
<1>7. ASSUME NEW c \in Child, NEW from, NEW to, Fork(c, from, to), from \notin {"start", "init"},
             to \in Point \ ({"start", "init", "lock"} \cup Inside)
      PROVE  LockInv'
  <2>1. at["main"] = from /\ UNCHANGED <<key, val, undo>>
    BY <1>7, SMT DEF Fork, Ready, content
  <2>2. CASE at' = [at EXCEPT !["main"] = to, ![c] = "forked"] /\ id' = [id EXCEPT ![c] = id["main"]]
    BY <1>7, <2>1, <2>2, SMT DEF LockInv, LockTypes, Early, OneHolder, SecondClosed, Holds, Inside
  <2>3. CASE at' = [at EXCEPT !["main"] = "fail"] /\ UNCHANGED id
    BY <1>1, <1>7, <2>1, <2>3, OtherKeepsLock, SMT DEF Inside
  <2> QED
    BY <1>7, <2>2, <2>3 DEF Fork
<1>8. CASE ForkFailed
  <2>1. at["main"] = "fail" /\ at' = [at EXCEPT !["main"] = "exit"] /\ UNCHANGED <<id, val, undo>>
    BY <1>8, SMT DEF ForkFailed, Goto, Ready, content
  <2>2. key' \in [Object -> {0} \cup Gen]
    BY <1>8, SMT DEF ForkFailed, LockInv, LockTypes, Object
  <2> QED
    BY <2>1, <2>2, SMT DEF LockInv, LockTypes, Early, OneHolder, SecondClosed, Holds, Inside
<1>9. CASE Exec(p) /\ p \in Child
  <2>1. at[p] = "forked" /\ UNCHANGED <<key, val, undo>>
    BY <1>9, SMT DEF Exec, Ready, content
  <2>2. CASE at' = [at EXCEPT ![p] = "start"] /\ id' = [id EXCEPT ![p] = [o \in Object |-> 0]]
    BY <1>9, <2>1, <2>2, SMT DEF LockInv, LockTypes, Early, OneHolder, SecondClosed, Holds, Inside
  <2>3. CASE at' = [at EXCEPT ![p] = "exit"] /\ UNCHANGED id
    BY <1>1, <1>9, <2>1, <2>3, OtherKeepsLock, SMT DEF Inside, LockInv, Early
  <2> QED
    BY <1>9, <2>2, <2>3 DEF Exec
<1>10. CASE (Write(p) \/ Terminate(p)) /\ p \in Writer
  BY <1>1, <1>10, OtherKeepsLock, SMT DEF Write, Terminate, Goto, Ready, Inside, LockInv, Early
<1>11. CASE PrintBuffer
  BY <1>1, <1>11, OtherKeepsLock, SMT DEF PrintBuffer, Ready, Inside, content, data, LockInv, Early
<1>12. ASSUME NEW q \in Process PROVE FreeObjects(q) => key' \in [Object -> {0} \cup Gen]
  BY SMT DEF FreeObjects, LockInv, LockTypes
<1>13. UNCHANGED key => key' \in [Object -> {0} \cup Gen]
  BY DEF LockInv, LockTypes
<1>14. CASE End
  BY <1>12, <1>14, EndsKeepsLock DEF End, Ready
<1>15. CASE Exit(p)
  BY <1>13, <1>15, EndsKeepsLock DEF Exit, Ready
<1>16. CASE ChildHandler(p)
  BY <1>12, <1>13, <1>16, EndsKeepsLock DEF ChildHandler, Takes, Alive
<1>17. CASE \E s \in {"INT", "TERM"} : Killed(p, s) \/ MainHandler(p, s)
  BY <1>12, <1>13, <1>17, EndsKeepsLock DEF Killed, MainHandler, Takes, Alive
<1>18. CASE Main
  <2>1. CASE Fork("write1", "fork1", "fork2")
    BY <1>7, <2>1, SMT DEF Inside
  <2>2. CASE Fork("write2", "fork2", "fork3")
    BY <1>7, <2>2, SMT DEF Inside
  <2>3. CASE Fork("reader", "fork3", "wait")
    BY <1>7, <2>3, SMT DEF Inside
  <2> QED
    BY <1>2, <1>5, <1>6, <1>8, <1>14, <1>18, <2>1, <2>2, <2>3 DEF Main
<1> QED
  BY <1>2, <1>3, <1>4, <1>9, <1>10, <1>11, <1>15, <1>16, <1>17, <1>18 DEF Run

\* So does every step of the system.
LEMMA NextKeepsLock == LockInv /\ [Next]_vars => LockInv'
<1> SUFFICES ASSUME LockInv, [Next]_vars PROVE LockInv'
    OBVIOUS
<1>1. CASE Signal
  BY <1>1 DEF Signal, content, LockInv, LockTypes, Early, OneHolder, SecondClosed, Holds
<1>2. CASE UNCHANGED vars
  BY <1>2 DEF vars, LockInv, LockTypes, Early, OneHolder, SecondClosed, Holds
<1> QED
  BY <1>1, <1>2, RunKeepsLock DEF Next

\* For every word length and every set of failing calls, only one writer or the reader uses
\* the memory at a time (README.txt:9), whoever is killed and whatever is removed.
THEOREM LockExcludes == MCSpec => []OneAtATime
<1>1. LockInv => OneAtATime
  BY DEF LockInv, Holds, OneHolder, OneAtATime, Process
<1>2. MCInit => LockInv
  BY LockInit DEF MCInit
<1>3. LockInv /\ [MCNext]_<<running, vars, pair, threads>> => LockInv'
  BY NextKeepsLock, Parts
<1> QED
  BY <1>1, <1>2, <1>3, PTL DEF MCSpec

-----------------------------------------------------------------------------
(***************************************************************************)
(* What the reader of 05.sharedMemory prints.  A line is whole because the *)
(* offset counts the letters of both writers, each writer is alone from    *)
(* its first letter to the zero behind the last one, and the reader passes *)
(* the buffer from its beginning to the first zero while nobody writes.    *)
(* The buffer may be a new one only after a fork has failed, and then no   *)
(* reader was started.                                                     *)
(***************************************************************************)
\* How many letters a writer has put into the buffer.
Progress(w) == IF n[w] <= Letters THEN n[w] ELSE Letters

\* How far the writers and the reader are in their words and lines.
Counts ==
  /\ \A w \in Writer :
       /\ n[w] \in 0 .. Letters + 1
       /\ at[w] = "write" => n[w] < Letters
       /\ at[w] = "terminate" => n[w] = Letters
       /\ at[w] = "unlock" => n[w] = Letters + 1
       /\ at[w] \in {"unborn", "forked", "start", "lock"} => n[w] = 0
       /\ n[w] \in 1 .. Letters => at[w] \in {"write", "terminate"} \cup Dead
  /\ at["reader"] \in {"unborn", "forked", "start", "lock"} => n["reader"] = 0 /\ line = <<>>

\* The order in which main.c does its work: there are no children before the memory is
\* cleared, and the reader comes last.
InOrder ==
  /\ at["main"] \in {"start", "init", "clear"} => \A c \in Child : at[c] = "unborn"
  /\ at["main"] \in {"fork1", "fork2", "fork3", "fail"} => at["reader"] = "unborn"
  /\ at["main"] = "fork1" => at["write1"] = "unborn"
  /\ at["main"] \in {"fork1", "fork2"} => at["write2"] = "unborn"
  /\ at["main"] = "start" => \A o \in Object : key[o] # 2 /\ id["main"][o] = 0
  /\ at["main"] \in {"init", "clear"} => \A o \in Object : id["main"][o] = 1
  /\ \A p \in Process : at[p] \in Inside \cup {"lock"} => \A o \in Object : id[p][o] \in Gen

\* Offset and semaphore are created and removed together; so is the buffer, unless a fork has
\* failed, and then there is no reader.
WithReader == at["main"] \notin {"exit"} \cup Dead \/ at["reader"] # "unborn"
Together ==
  /\ key["offset"] = key["sem"] /\ \A p \in Process : id[p]["offset"] = id[p]["sem"]
  /\ WithReader => key["mem"] = key["sem"] /\ \A p \in Process : id[p]["mem"] = id[p]["sem"]

\* The offset counts the letters that have been written; behind the last place for a letter
\* there is a zero.
Cleared == at["main"] \in {"fork1", "fork2", "fork3", "wait", "fail"} \/ \E c \in Child : at[c] # "unborn"
Places ==
  /\ Cleared => offset[1] = Progress("write1") + Progress("write2")
  /\ \A g \in Gen : buffer[g][2 * Letters] = NUL

\* The first word, the second one and the zero behind them.
Layout(a, b) ==
  /\ n[b] > 0 => n[a] = Letters + 1
  /\ \A k \in 0 .. Progress(a) - 1 : buffer[1][k] = Letter(a, k)
  /\ \A k \in 0 .. Progress(b) - 1 : buffer[1][Letters + k] = Letter(b, k)
  /\ n[a] = 0 => buffer[1][0] = NUL
  /\ n[a] = Letters + 1 /\ n[b] = 0 => buffer[1][Letters] = NUL
Text == WithReader /\ Cleared /\ (\A w \in Writer : ~Broken(w)) =>
          Layout("write1", "write2") \/ Layout("write2", "write1")

\* The line is what the reader has passed in the buffer.
Reading ==
  at["reader"] \in {"print", "unlock"} =>
    /\ n["reader"] \in 0 .. 2 * Letters /\ Len(line) = n["reader"]
    /\ \A k \in 0 .. n["reader"] - 1 : buffer[1][k] # NUL /\ line[k + 1] = buffer[1][k]
    /\ at["reader"] = "unlock" => buffer[1][n["reader"]] = NUL

\* The inductive invariant of writers and reader.
LineInv == TypeOK /\ LockInv /\ Counts /\ InOrder /\ Together /\ Places /\ Text /\ Reading

\* The invariant of the lock gives the exclusion.
LEMMA Alone == LockInv => OneAtATime
BY DEF LockInv, Holds, OneHolder, OneAtATime, Process

\* The invariant holds at the start.
LEMMA LineInit == Init => LineInv
<1> SUFFICES ASSUME Init PROVE LineInv
    OBVIOUS
<1> USE DEF Process, Child, Writer, Object, Gen, Inside, Dead, Point, Place, NUL
<1> PICK old \in {0, 1} :
      /\ key = [o \in Object |-> old]
      /\ buffer = [g \in Gen |-> IF g = old THEN Full ELSE [k \in Place |-> NUL]]
      /\ offset = [g \in Gen |-> IF g = old THEN 2 * Letters ELSE 0]
  BY DEF Init
<1>4. Full \in [Place -> NUL .. 2 * Letters] /\ [k \in Place |-> NUL] \in [Place -> NUL .. 2 * Letters]
  <2>1. \A k \in Place : (IF k < 2 * Letters THEN k + 1 ELSE NUL) \in NUL .. 2 * Letters
    BY WritersAssumption, SMT
  <2>2. NUL \in NUL .. 2 * Letters
    BY WritersAssumption, SMT
  <2> HIDE DEF NUL, Place
  <2>3. Full \in [Place -> NUL .. 2 * Letters]
    BY <2>1, Zenon DEF Full
  <2>4. [k \in Place |-> NUL] \in [Place -> NUL .. 2 * Letters]
    BY <2>2, Zenon
  <2> QED
    BY <2>3, <2>4
<1>5. buffer \in [Gen -> [Place -> NUL .. 2 * Letters]]
  BY <1>4
<1>6. offset \in [Gen -> 0 .. 2 * Letters] /\ line \in Seq(1 .. 2 * Letters) /\ n \in [Child -> Place]
  BY WritersAssumption, SMT DEF Init
<1>10. /\ pend \in [Process -> SUBSET {"INT", "TERM", "CHLD"}]
       /\ execed \subseteq Child /\ known \in [Process -> SUBSET Child] /\ signalled \in BOOLEAN
  BY DEF Init
<1>11. LockTypes
  BY LockInit DEF LockInv
<1>1. TypeOK
  BY <1>5, <1>6, <1>10, <1>11 DEF LockTypes, TypeOK
<1>9. /\ at["main"] = "start" /\ \A c \in Child : at[c] = "unborn" /\ n[c] = 0
      /\ \A o \in Object : key[o] = old /\ \A p \in Process : id[p][o] = 0
      /\ line = <<>>
  BY DEF Init
<1>2. Counts /\ InOrder /\ Together /\ Reading /\ ~Cleared
  <2>1. Counts
    BY <1>9, WritersAssumption, SMT DEF Counts
  <2>2. InOrder
    BY <1>9, SMT DEF InOrder
  <2>3. Together
    BY <1>9, SMT DEF Together
  <2>4. Reading /\ ~Cleared
    BY <1>9, SMT DEF Reading, Cleared
  <2> QED
    BY <2>1, <2>2, <2>3, <2>4
<1>7. 2 * Letters \in Place /\ Full[2 * Letters] = NUL
  BY WritersAssumption, SMT DEF Full
<1>8. Places
  BY <1>2, <1>7 DEF Places
<1>3. Text
  BY <1>2 DEF Text
<1> QED
  BY <1>1, <1>2, <1>3, <1>8, LockInit DEF LineInv

\* How a step that leaves offset, buffer and line alone moves a child, and the parent.
ChildMoves(c) ==
  \/ at'[c] = at[c]
  \/ at'[c] \in Dead /\ at[c] # "unborn"
  \/ at'[c] = "exit" /\ at[c] \in {"forked", "lock", "unlock"}
  \/ at[c] = "unborn" /\ at'[c] = "forked" /\ at["main"] \in {"fork1", "fork2", "fork3"}
  \/ at[c] = "forked" /\ at'[c] = "start"
  \/ at[c] = "start" /\ at'[c] = "lock"
  \/ at[c] = "lock" /\ at'[c] = IF c = "reader" THEN "print" ELSE "write"
MainMoves ==
  \/ at'["main"] = at["main"]
  \/ at'["main"] \in Dead
  \/ at["main"] = "start" /\ at'["main"] = "init"
  \/ at["main"] = "init" /\ at'["main"] = "clear"
  \/ at["main"] \in {"fork1", "fork2", "fork3"} /\ at'["main"] \in {"fork2", "fork3", "wait", "fail"}
  \/ at["main"] = "fail" /\ at'["main"] = "exit"
Quiet == /\ (\A c \in Child : ChildMoves(c)) /\ MainMoves
         /\ UNCHANGED <<buffer, offset, n, line>>

\* Such a step disturbs neither what is in the memory nor what has been printed.
LEMMA QuietKeeps ==
  ASSUME LineInv, Quiet, \A c \in Child : at[c] \in Dead => at'[c] \in Dead
  PROVE  Counts' /\ Places' /\ Text' /\ Reading'
<1> USE DEF Process, Child, Writer, Inside, Dead
<1>1. Counts' /\ (Cleared' => Cleared) /\ (WithReader' => WithReader)
  <2>1. Counts'
    BY WritersAssumption, SMT DEF LineInv, Counts, Quiet, ChildMoves
  <2>2. (Cleared' => Cleared) /\ (WithReader' => WithReader)
    BY SMT DEF Cleared, WithReader, Quiet, ChildMoves, MainMoves
  <2> QED
    BY <2>1, <2>2
<1>2. Places'
  BY <1>1 DEF LineInv, Places, Progress, Quiet
<1>3. (\A w \in Writer : ~Broken(w)') => \A w \in Writer : ~Broken(w)
  BY SMT DEF LineInv, Counts, Broken, Alive, Quiet, ChildMoves
<1>4. Text'
  BY <1>1, <1>3 DEF LineInv, Text, Layout, Progress, Quiet
<1>5. Reading'
  <2>1. /\ UNCHANGED <<buffer, n, line>> /\ Reading
        /\ at'["reader"] \in {"print", "unlock"} =>
             at'["reader"] = at["reader"] \/ (at["reader"] = "lock" /\ at'["reader"] = "print")
    BY SMT DEF LineInv, Quiet, ChildMoves
  <2>2. CASE at'["reader"] = at["reader"]
    BY <2>1, <2>2 DEF Reading
  <2>3. CASE at["reader"] = "lock" /\ at'["reader"] = "print"
    <3>1. n["reader"] = 0 /\ line = <<>>
      BY <2>3 DEF LineInv, Counts
    <3> QED
      BY <2>1, <2>3, <3>1, WritersAssumption, SMT DEF Reading
  <2> QED
    BY <2>1, <2>2, <2>3 DEF Reading
<1> QED
  BY <1>1, <1>2, <1>4, <1>5

DeadStay == \A c \in Child : at[c] \in Dead => at'[c] \in Dead
DataStep == \/ Clear \/ PrintBuffer \/ Unlock("reader")
            \/ \E w \in Writer : Write(w) \/ Terminate(w)

\* Every step is such a step, or writes, prints or clears.
LEMMA Kinds == ASSUME LineInv, NEW p \in Process, Run(p) PROVE (Quiet /\ DeadStay) \/ DataStep
<1> USE DEF Process, Child, Writer, Dead, Inside, DeadStay
<1>1. at \in [Process -> Point]
  BY DEF LineInv, LockInv, LockTypes
<1>2. ASSUME NEW q \in Process, NEW pending, Ends(q, pending), at[q] # "unborn"
      PROVE  Quiet /\ DeadStay
  BY <1>1, <1>2, SMT DEF Ends, Quiet, ChildMoves, MainMoves, data
<1>3. CASE \E q \in Process : Start(q)
  <2> PICK q \in Process : Start(q)
    BY <1>3
  <2>1. /\ at[q] = "start" /\ at' = [at EXCEPT ![q] = IF q = "main" THEN "init" ELSE "lock"]
        /\ UNCHANGED <<buffer, offset, n, line>>
    BY DEF Start, Goto, Ready, content, data
  <2> QED
    BY <1>1, <2>1, SMT DEF Quiet, ChildMoves, MainMoves
<1>4. CASE \E c \in Child : Lock(c)
  <2> PICK c \in Child : Lock(c)
    BY <1>4
  <2>1. /\ at[c] = "lock" /\ UNCHANGED <<buffer, offset, n, line>>
        /\ \/ at' = [at EXCEPT ![c] = "exit"]
           \/ at' = [at EXCEPT ![c] = IF c \in Writer THEN "write" ELSE "print"]
    BY DEF Lock, Ready, data
  <2> QED
    BY <1>1, <2>1, SMT DEF Quiet, ChildMoves, MainMoves
<1>5. CASE \E c \in Writer : Unlock(c)
  <2> PICK c \in Writer : Unlock(c)
    BY <1>5
  <2>1. /\ at[c] = "unlock" /\ UNCHANGED <<buffer, offset, n, line>>
        /\ at' = [at EXCEPT ![c] = "exit"]
    BY DEF Unlock, Ready
  <2> QED
    BY <1>1, <2>1, SMT DEF Quiet, ChildMoves, MainMoves
<1>6. CASE InitSemaphor \/ ForkFailed
  BY <1>1, <1>6, SMT DEF InitSemaphor, ForkFailed, Goto, Ready, content, data, Quiet, ChildMoves, MainMoves
<1>7. CASE Wait \/ ChildExit
  <2>1. /\ at' = at \/ \E c \in Child : at[c] = "zombie" /\ at' = [at EXCEPT ![c] = "reaped"]
        /\ UNCHANGED <<buffer, offset, n, line>>
    BY <1>7 DEF Wait, ChildExit, content, data
  <2> QED
    BY <1>1, <2>1, SMT DEF Quiet, ChildMoves, MainMoves
<1>8. ASSUME NEW c \in Child, NEW from \in {"fork1", "fork2", "fork3"}, NEW to \in {"fork2", "fork3", "wait"},
             Fork(c, from, to), at[c] = "unborn"
      PROVE  Quiet /\ DeadStay
  <2>1. /\ at["main"] = from /\ UNCHANGED <<buffer, offset, n, line>>
        /\ at' = [at EXCEPT !["main"] = to, ![c] = "forked"] \/ at' = [at EXCEPT !["main"] = "fail"]
    BY <1>8 DEF Fork, Ready, content, data
  <2> QED
    BY <1>1, <1>8, <2>1, SMT DEF Quiet, ChildMoves, MainMoves
<1>9. CASE \E c \in Child : Exec(c)
  <2> PICK c \in Child : Exec(c)
    BY <1>9
  <2>1. /\ at[c] = "forked" /\ UNCHANGED <<buffer, offset, n, line>>
        /\ at' = [at EXCEPT ![c] = "start"] \/ at' = [at EXCEPT ![c] = "exit"]
    BY DEF Exec, Ready, content, data
  <2> QED
    BY <1>1, <2>1, SMT DEF Quiet, ChildMoves, MainMoves
<1>10. CASE End \/ Exit(p) \/ ChildHandler(p) \/ \E s \in {"INT", "TERM"} : Killed(p, s) \/ MainHandler(p, s)
  BY <1>2, <1>10 DEF End, Exit, ChildHandler, Killed, MainHandler, Ready, Takes, Alive
<1>11. CASE Main
  <2>1. CASE Fork("write1", "fork1", "fork2")
    BY <1>8, <2>1, SMT DEF LineInv, InOrder, Fork, Ready
  <2>2. CASE Fork("write2", "fork2", "fork3")
    BY <1>8, <2>2, SMT DEF LineInv, InOrder, Fork, Ready
  <2>3. CASE Fork("reader", "fork3", "wait")
    BY <1>8, <2>3, SMT DEF LineInv, InOrder, Fork, Ready
  <2> QED
    BY <1>3, <1>6, <1>7, <1>10, <1>11, <2>1, <2>2, <2>3 DEF Main, DataStep
<1> QED
  BY <1>3, <1>4, <1>5, <1>9, <1>10, <1>11 DEF Run, DataStep

\* The end of a process and the removal of what it knows keep the order of the work, and
\* offset, semaphore and buffer together.
LEMMA EndsInOrder ==
  ASSUME LineInv, NEW p \in Process, NEW pending, Ends(p, pending), at[p] # "unborn",
         UNCHANGED key \/ FreeObjects(p)
  PROVE  InOrder' /\ Together'
<1> USE DEF Process, Child, Writer, Dead, Inside, Object
<1>1. /\ at \in [Process -> Point] /\ key \in [Object -> {0} \cup Gen] /\ id' = id
      /\ at' \in [Process -> Point] /\ at'[p] \in Dead /\ \A q \in Process \ {p} : at'[q] = at[q]
  BY SMT DEF Ends, LineInv, LockInv, LockTypes, Point
<1>2. key' = key \/ \A o \in Object : key'[o] = IF key[o] = id[p][o] THEN 0 ELSE key[o]
  BY DEF FreeObjects
<1>3. InOrder'
  BY <1>1, <1>2, SMT DEF LineInv, InOrder
<1>4. WithReader' => WithReader
  BY <1>1, SMT DEF WithReader
<1>5. Together'
  BY <1>1, <1>2, <1>4, SMT DEF LineInv, Together
<1> QED
  BY <1>3, <1>5

\* So does a step that only moves a process that is not to die, start or ask for the lock.
LEMMA MoveInOrder ==
  ASSUME LineInv, UNCHANGED <<key, id>>, NEW p \in Process, NEW to,
         at' = at \/ at' = [at EXCEPT ![p] = to], at[p] # "unborn", to \notin {"unborn", "start"},
         to \in Inside \cup {"lock"} => at[p] \in Inside \cup {"lock"},
         p = "main" => (at[p] = "init" /\ to = "clear") \/ (at[p] = "clear" /\ to = "fork1")
  PROVE  InOrder' /\ Together'
<1> USE DEF Process, Child, Writer, Dead, Inside, Object
<1>1. at \in [Process -> Point]
  BY DEF LineInv, LockInv, LockTypes
<1>2. InOrder'
  BY <1>1, SMT DEF LineInv, InOrder
<1>3. WithReader' => WithReader
  BY <1>1, SMT DEF WithReader
<1> QED
  BY <1>2, <1>3 DEF LineInv, Together

\* Every step of a process keeps them.
LEMMA RunInOrder == ASSUME LineInv, NEW p \in Process, Run(p) PROVE InOrder' /\ Together'
<1> USE DEF Process, Child, Writer, Dead, Inside, Object
<1>1. /\ at \in [Process -> Point] /\ id \in [Process -> [Object -> {0} \cup Gen]]
      /\ key \in [Object -> {0} \cup Gen]
  BY DEF LineInv, LockInv, LockTypes
<1>2. CASE \E q \in Process : Start(q)
  <2> PICK q \in Process : Start(q)
    BY <1>2
  <2>1. /\ at[q] = "start" /\ at' = [at EXCEPT ![q] = IF q = "main" THEN "init" ELSE "lock"]
        /\ \A o \in Object : key'[o] = IF key[o] # 0 THEN key[o] ELSE IF id["main"][o] = 0 THEN 1 ELSE 2
        /\ \A o \in Object : key'[o] \in Gen
        /\ id' = [id EXCEPT ![q] = key']
    BY <1>1, SMT DEF Start, Goto, Ready, Gen
  <2>2. InOrder'
    BY <1>1, <2>1, SMT DEF LineInv, InOrder, Gen
  <2>3. WithReader' => WithReader
    BY <1>1, <2>1, SMT DEF WithReader
  <2>4. Together'
    BY <1>1, <2>1, <2>3, SMT DEF LineInv, Together
  <2> QED
    BY <2>2, <2>4
<1>3. CASE p \in Child /\ (Lock(p) \/ Unlock(p))
  <2>1. /\ at[p] \in {"lock", "unlock"} /\ UNCHANGED <<key, id>>
        /\ \E to \in {"exit", "lock", "write", "print"} : at' = [at EXCEPT ![p] = to]
    BY <1>3 DEF Lock, Unlock, Ready
  <2>2. p # "main" /\ at[p] # "unborn" /\ at[p] \in Inside \cup {"lock"}
    BY <1>3, <2>1
  <2> QED
    BY <2>1, <2>2, MoveInOrder
<1>4. CASE InitSemaphor \/ Clear
  <2>1. /\ UNCHANGED <<key, id>>
        /\ \/ at["main"] = "init" /\ at' = [at EXCEPT !["main"] = "clear"]
           \/ at["main"] = "clear" /\ at' = [at EXCEPT !["main"] = "fork1"]
    BY <1>4 DEF InitSemaphor, Clear, Goto, Ready
  <2> QED
    BY <2>1, MoveInOrder, SMT
<1>5. CASE Wait \/ ChildExit
  <2>1. /\ UNCHANGED <<key, id>>
        /\ at' = at \/ \E c \in Child : at[c] = "zombie" /\ at' = [at EXCEPT ![c] = "reaped"]
    BY <1>5 DEF Wait, ChildExit
  <2>2. CASE at' = at
    BY <2>1, <2>2 DEF LineInv, InOrder, Together, WithReader
  <2> QED
    BY <2>1, <2>2, MoveInOrder, SMT
<1>6. CASE \/ p \in Writer /\ (Write(p) \/ Terminate(p))
           \/ p = "reader" /\ PrintBuffer
  <2>1. /\ UNCHANGED <<key, id>> /\ at[p] \in Inside
        /\ at' = at \/ \E to \in Inside : at' = [at EXCEPT ![p] = to]
    BY <1>6 DEF Write, Terminate, PrintBuffer, Goto, Ready, content
  <2> QED
    BY <1>6, <2>1, MoveInOrder, SMT
<1>7. ASSUME NEW c \in Child, NEW from, NEW to, Fork(c, from, to),
             <<c, from, to>> \in {<<"write1", "fork1", "fork2">>, <<"write2", "fork2", "fork3">>,
                                  <<"reader", "fork3", "wait">>}
      PROVE  InOrder' /\ Together'
  <2>1. at["main"] = from /\ UNCHANGED key
    BY <1>7 DEF Fork, Ready
  <2>2. CASE at' = [at EXCEPT !["main"] = to, ![c] = "forked"] /\ id' = [id EXCEPT ![c] = id["main"]]
    <3>1. InOrder'
      BY <1>1, <1>7, <2>1, <2>2, SMT DEF LineInv, InOrder
    <3>2. WithReader
      BY <1>7, <2>1, SMT DEF WithReader
    <3> QED
      BY <1>1, <1>7, <2>1, <2>2, <3>1, <3>2, SMT DEF LineInv, Together
  <2>3. CASE at' = [at EXCEPT !["main"] = "fail"] /\ UNCHANGED id
    <3>1. InOrder'
      BY <1>1, <1>7, <2>1, <2>3, SMT DEF LineInv, InOrder
    <3>2. WithReader
      BY <1>7, <2>1, SMT DEF WithReader
    <3> QED
      BY <2>1, <2>3, <3>1, <3>2 DEF LineInv, Together
  <2> QED
    BY <1>7, <2>2, <2>3 DEF Fork
<1>8. CASE ForkFailed
  <2>1. /\ at["main"] = "fail" /\ at' = [at EXCEPT !["main"] = "exit"] /\ UNCHANGED id
        /\ \A o \in Object \ {"mem"} : key'[o] = key[o]
    BY <1>1, <1>8, SMT DEF ForkFailed, Goto, Ready
  <2>2. ~WithReader'
    BY <1>1, <2>1, SMT DEF WithReader, LineInv, InOrder
  <2> QED
    BY <1>1, <2>1, <2>2, SMT DEF LineInv, InOrder, Together
<1>9. CASE p \in Child /\ Exec(p)
  <2>1. at[p] = "forked" /\ UNCHANGED key
    BY <1>9 DEF Exec, Ready
  <2>2. CASE at' = [at EXCEPT ![p] = "start"] /\ id' = [id EXCEPT ![p] = [o \in Object |-> 0]]
    <3>1. InOrder'
      BY <1>1, <1>9, <2>1, <2>2, SMT DEF LineInv, InOrder
    <3>2. WithReader' => WithReader
      BY <1>1, <1>9, <2>1, <2>2, SMT DEF WithReader
    <3> QED
      BY <1>1, <1>9, <2>1, <2>2, <3>1, <3>2, SMT DEF LineInv, Together
  <2>3. CASE at' = [at EXCEPT ![p] = "exit"] /\ UNCHANGED id
    <3>1. p # "main" /\ at[p] # "unborn"
      BY <1>9, <2>1
    <3>2. "exit" \notin Inside \cup {"lock", "unborn", "start"}
      OBVIOUS
    <3> HIDE DEF Inside, Child
    <3> QED
      BY <2>1, <2>3, <3>1, <3>2, MoveInOrder
  <2> QED
    BY <1>9, <2>2, <2>3 DEF Exec
<1>10. CASE End \/ Exit(p) \/ ChildHandler(p) \/ \E s \in {"INT", "TERM"} : Killed(p, s) \/ MainHandler(p, s)
  BY <1>10, EndsInOrder DEF End, Exit, ChildHandler, Killed, MainHandler, Ready, Takes, Alive
<1>11. CASE Main
  <2>1. CASE \/ Fork("write1", "fork1", "fork2") \/ Fork("write2", "fork2", "fork3")
             \/ Fork("reader", "fork3", "wait")
    BY <1>7, <2>1
  <2> QED
    BY <1>2, <1>4, <1>5, <1>8, <1>10, <1>11, <2>1 DEF Main
<1> QED
  BY <1>2, <1>3, <1>6, <1>9, <1>10, <1>11 DEF Run

\* The signals that are waiting, the children that have exec'ed and the pids that are known
\* stay in their ranges.
SignalTypes ==
  /\ pend \in [Process -> SUBSET {"INT", "TERM", "CHLD"}]
  /\ execed \subseteq Child /\ known \in [Process -> SUBSET Child]
  /\ signalled \in BOOLEAN

\* A signal that is sent waits at those it is sent to.
LEMMA SendType ==
  ASSUME NEW pending \in [Process -> SUBSET {"INT", "TERM", "CHLD"}],
         NEW s \in {"INT", "TERM", "CHLD"}, NEW targets
  PROVE  Send(pending, s, targets) \in [Process -> SUBSET {"INT", "TERM", "CHLD"}]
<1>1. \A p \in Process : (IF p \in targets /\ Alive(p) THEN pending[p] \cup {s} ELSE pending[p])
                           \in SUBSET {"INT", "TERM", "CHLD"}
  OBVIOUS
<1> QED
  BY <1>1, Zenon DEF Send

\* Every step keeps these ranges.
LEMMA SignalsStep == ASSUME SignalTypes, [Next]_vars PROVE SignalTypes'
<1> USE DEF SignalTypes
<1>1. CASE Signal
  <2>1. \A s \in {"INT", "TERM"}, targets \in SUBSET Process :
          Send(pend, s, targets) \in [Process -> SUBSET {"INT", "TERM", "CHLD"}]
    BY SendType
  <2>2. \E s \in {"INT", "TERM"}, targets \in SUBSET Process : pend' = Send(pend, s, targets)
    BY <1>1 DEF Signal, Process
  <2>3. pend' \in [Process -> SUBSET {"INT", "TERM", "CHLD"}]
    BY <2>1, <2>2
  <2> QED
    BY <1>1, <2>3 DEF Signal
<1>2. ASSUME NEW p \in Process, NEW pending \in [Process -> SUBSET {"INT", "TERM", "CHLD"}],
             Ends(p, pending)
      PROVE  SignalTypes'
  <2>1. Send(pending, "CHLD", {"main"}) \in [Process -> SUBSET {"INT", "TERM", "CHLD"}]
    BY SendType
  <2> QED
    BY <1>2, <2>1 DEF Ends
<1>3. ASSUME NEW p \in Process, Run(p) PROVE SignalTypes'
  <2>1. CASE End \/ Exit(p) \/ ChildHandler(p) \/ \E s \in {"INT", "TERM"} : Killed(p, s)
    BY <1>2, <2>1 DEF End, Exit, ChildHandler, Killed, Process
  <2>2. CASE \E s \in {"INT", "TERM"} : MainHandler(p, s)
    <3>1. Send(pend, "TERM", IF known[p] = Child THEN Child ELSE Process)
            \in [Process -> SUBSET {"INT", "TERM", "CHLD"}]
      BY SendType
    <3> QED
      BY <1>2, <2>2, <3>1 DEF MainHandler
  <2>3. ASSUME NEW c \in Child, NEW from, NEW to, Fork(c, from, to) PROVE SignalTypes'
    <3>1. known' \in [Process -> SUBSET Child]
      BY <2>3, SMT DEF Fork, Process
    <3> QED
      BY <2>3, <3>1 DEF Fork
  <2>4. CASE Wait \/ InitSemaphor \/ Clear \/ ForkFailed \/ PrintBuffer \/ Start(p) \/ Lock(p) \/ Unlock(p)
             \/ Write(p) \/ Terminate(p)
    BY <2>4 DEF Wait, InitSemaphor, Clear, ForkFailed, PrintBuffer, Start, Lock, Unlock, Write, Terminate, sigs
  <2>5. CASE ChildExit
    BY <2>5 DEF ChildExit
  <2>6. CASE p \in Child /\ Exec(p)
    BY <2>6 DEF Exec
  <2>7. CASE Main /\ p = "main"
    BY <2>1, <2>3, <2>4, <2>5, <2>7 DEF Main, Child, Writer
  <2> QED
    BY <1>3, <2>1, <2>2, <2>4, <2>6, <2>7 DEF Run
<1>4. CASE UNCHANGED vars
  BY <1>4 DEF vars
<1> QED
  BY <1>1, <1>3, <1>4 DEF Next

\* What is in the buffer and in the line, and where offset and writers are, stays in its range.
DataTypes ==
  /\ buffer \in [Gen -> [Place -> NUL .. 2 * Letters]]
  /\ offset \in [Gen -> 0 .. 2 * Letters]
  /\ n \in [Child -> Place]
  /\ line \in Seq(1 .. 2 * Letters)

\* The parts of TypeOK.
LEMMA TypeParts == TypeOK <=> LockTypes /\ SignalTypes /\ DataTypes
BY DEF TypeOK, LockTypes, SignalTypes, DataTypes, Point, Dead, Inside

\* Clearing the memory, before there are children.
LEMMA ClearKeeps == ASSUME LineInv, Clear PROVE DataTypes' /\ Counts' /\ Places' /\ Text' /\ Reading'
<1> USE DEF Process, Child, Writer, Object, Gen, Inside, Dead
<1>1. /\ at["main"] = "clear" /\ at' = [at EXCEPT !["main"] = "fork1"]
      /\ id["main"]["mem"] = 1 /\ id["main"]["offset"] = 1
      /\ at \in [Process -> Point] /\ \A c \in Child : at[c] = "unborn"
      /\ n["write1"] = 0 /\ n["write2"] = 0 /\ UNCHANGED <<n, line>>
  BY SMT DEF Clear, Goto, Ready, data, LineInv, LockInv, LockTypes, InOrder, Counts
<1>2. DataTypes
  BY TypeParts DEF LineInv
<1> DEFINE cells == [k \in Place |-> IF k < 4 THEN NUL ELSE buffer[1][k]]
<1>3. buffer' = [buffer EXCEPT ![1] = cells] /\ offset' = [offset EXCEPT ![1] = 0]
  BY <1>1 DEF Clear
<1>4. cells \in [Place -> NUL .. 2 * Letters]
  <2>1. NUL \in NUL .. 2 * Letters /\ buffer[1] \in [Place -> NUL .. 2 * Letters]
    BY <1>2, WritersAssumption, SMT DEF DataTypes, NUL
  <2>2. \A k \in Place : (IF k < 4 THEN NUL ELSE buffer[1][k]) \in NUL .. 2 * Letters
    BY <2>1
  <2> QED
    BY <2>2, Zenon
<1>5. cells[0] = NUL /\ cells[2 * Letters] = NUL
  BY WritersAssumption, SMT DEF LineInv, Places, Place
<1> HIDE DEF cells
<1>6. DataTypes'
  <2>1. buffer' \in [Gen -> [Place -> NUL .. 2 * Letters]]
    BY <1>2, <1>3, <1>4 DEF DataTypes
  <2>2. offset' \in [Gen -> 0 .. 2 * Letters]
    BY <1>2, <1>3, WritersAssumption, SMT DEF DataTypes
  <2> QED
    BY <1>1, <1>2, <2>1, <2>2 DEF DataTypes
<1>7. buffer'[1] = cells /\ buffer'[2] = buffer[2] /\ offset'[1] = 0
  BY <1>2, <1>3 DEF DataTypes
<1>8. Counts' /\ Reading'
  BY <1>1, WritersAssumption, SMT DEF LineInv, Counts, Reading
<1>9. Places'
  BY <1>1, <1>5, <1>7, WritersAssumption, SMT DEF LineInv, Places, Progress
<1>10. Layout("write1", "write2")'
  BY <1>1, <1>5, <1>7, WritersAssumption, SMT DEF Layout, Progress
<1> QED
  BY <1>6, <1>8, <1>9, <1>10 DEF Text

\* What a writer knows while it is alone with the memory.
LEMMA WriterInside ==
  ASSUME LineInv, NEW w \in Writer, at[w] \in Inside
  PROVE  /\ id[w]["offset"] = 1 /\ id[w]["mem"] \in Gen
         /\ WithReader => id[w]["mem"] = 1
         /\ \A c \in Child \ {w} : at[c] \notin Inside
         /\ \A v \in Writer \ {w} : ~Broken(v) => n[v] \in {0, Letters + 1}
         /\ \A v \in Writer \ {w} : offset[1] = Progress(w) + Progress(v)
         /\ Cleared
<1> USE DEF Process, Child, Writer, Object, Gen, Inside, Dead
<1>1. id[w]["offset"] = 1 /\ id[w]["mem"] \in Gen /\ (WithReader => id[w]["mem"] = 1)
  BY SMT DEF LineInv, LockInv, Holds, Together, InOrder
<1>2. \A c \in Child \ {w} : at[c] \notin Inside
  BY Alone DEF LineInv, OneAtATime
<1>3. \A v \in Writer \ {w} : ~Broken(v) => n[v] \in {0, Letters + 1}
  BY <1>2, WritersAssumption, SMT DEF LineInv, Counts, Broken, Alive
<1>4. Cleared
  BY SMT DEF Cleared
<1>5. \A v \in Writer \ {w} : offset[1] = Progress(w) + Progress(v)
  BY <1>4, WritersAssumption, SMT DEF LineInv, Places, Progress, Counts
<1> QED
  BY <1>1, <1>2, <1>3, <1>4, <1>5

\* A writer that puts a letter at a place of the memory, or the zero behind its word.
LEMMA PutType ==
  ASSUME DataTypes, NEW w \in Writer, NEW c \in NUL .. 2 * Letters, NEW g \in Gen, NEW k \in Place,
         NEW m \in Place, NEW o \in 0 .. 2 * Letters,
         buffer' = [buffer EXCEPT ![g][k] = c], offset' = [offset EXCEPT ![1] = o],
         n' = [n EXCEPT ![w] = m], UNCHANGED line
  PROVE  DataTypes'
<1>1. buffer' \in [Gen -> [Place -> NUL .. 2 * Letters]]
  BY DEF DataTypes
<1>2. offset' \in [Gen -> 0 .. 2 * Letters] /\ n' \in [Child -> Place]
  BY DEF DataTypes
<1> QED
  BY <1>1, <1>2 DEF DataTypes

\* A letter: the word grows at its end, and the other word is whole or not begun.
LEMMA WriteKeeps ==
  ASSUME LineInv, NEW w \in Writer, Write(w)
  PROVE  DataTypes' /\ Counts' /\ Places' /\ Text' /\ Reading'
<1> USE DEF Process, Child, Writer, Gen
<1> DEFINE o == offset[1]
           g == id[w]["mem"]
<1>1. at[w] = "write" /\ at \in [Process -> Point] /\ DataTypes /\ Counts
  BY TypeParts DEF Write, Ready, LineInv, LockInv, LockTypes
<1>2. PICK v \in Writer : v # w /\ Writer = {v, w}
  OBVIOUS
<1>3. /\ id[w]["offset"] = 1 /\ g \in Gen /\ (WithReader => g = 1)
      /\ \A c \in Child \ {w} : at[c] \notin Inside
      /\ ~Broken(v) => n[v] \in {0, Letters + 1}
      /\ o = Progress(w) + Progress(v) /\ Cleared
  BY <1>1, <1>2, WriterInside DEF Inside
<1>4. /\ n[w] \in 0 .. Letters - 1 /\ n[v] \in 0 .. Letters + 1 /\ o \in 0 .. 2 * Letters - 1
      /\ Progress(w) = n[w] /\ o = n[w] + Progress(v) /\ n[w] + 1 \in Place
  <2>1. n[w] \in 0 .. Letters - 1 /\ n[v] \in 0 .. Letters + 1
    BY <1>1, WritersAssumption, SMT DEF Counts
  <2> QED
    BY <1>3, <2>1, WritersAssumption, SMT DEF Progress, Place
<1>5. /\ buffer' = [buffer EXCEPT ![g][o] = Letter(w, n[w])] /\ offset' = [offset EXCEPT ![1] = o + 1]
      /\ n' = [n EXCEPT ![w] = n[w] + 1] /\ UNCHANGED line
      /\ at' = [at EXCEPT ![w] = IF n[w] + 1 = Letters THEN "terminate" ELSE "write"]
  BY <1>1, <1>3, SMT DEF Write, DataTypes
<1>6. Letter(w, n[w]) \in NUL .. 2 * Letters /\ o \in Place /\ o + 1 \in 0 .. 2 * Letters
  BY <1>4, WritersAssumption, SMT DEF Letter, Place, NUL
<1>7. DataTypes'
  BY <1>1, <1>3, <1>4, <1>5, <1>6, PutType
<1>8. /\ \A h \in Gen, k \in Place : buffer'[h][k] = IF h = g /\ k = o THEN Letter(w, n[w]) ELSE buffer[h][k]
      /\ offset'[1] = o + 1 /\ n'[w] = n[w] + 1 /\ n'[v] = n[v] /\ n'["reader"] = n["reader"]
  <2>1. \A h \in Gen, k \in Place : buffer'[h][k] = IF h = g /\ k = o THEN Letter(w, n[w]) ELSE buffer[h][k]
    BY <1>1, <1>3, <1>5, <1>6, Zenon DEF DataTypes
  <2>2. w \in Child /\ v \in Child /\ v # w /\ "reader" \in Child /\ w # "reader"
    BY <1>2
  <2>3. offset'[1] = o + 1
    BY <1>1, <1>5 DEF DataTypes
  <2>4. n \in [Child -> Place]
    BY <1>1 DEF DataTypes
  <2> HIDE DEF DataTypes
  <2> QED
    BY <1>5, <2>1, <2>2, <2>3, <2>4
<1>9. Counts'
  BY <1>1, <1>2, <1>3, <1>4, <1>5, <1>8, WritersAssumption, SMT DEF Counts, Dead, Inside
<1>10. Progress(w)' = Progress(w) + 1 /\ Progress(v)' = Progress(v)
  BY <1>4, <1>8, WritersAssumption, SMT DEF Progress
<1>11. Places'
  <2>1. 2 * Letters \in Place
    BY WritersAssumption, SMT DEF Place
  <2> QED
    BY <1>2, <1>3, <1>4, <1>8, <1>10, <2>1, WritersAssumption, SMT DEF LineInv, Places, Progress
<1>12. Reading'
  BY <1>1, <1>2, <1>3, <1>5, SMT DEF Reading, Inside
<1>13. ASSUME WithReader', \A q \in Writer : ~Broken(q)' PROVE Layout("write1", "write2")' \/ Layout("write2", "write1")'
  <2>1. WithReader /\ ~Broken(v) /\ ~Broken(w)
    BY <1>1, <1>2, <1>5, <1>8, <1>13, SMT DEF WithReader, Broken, Alive, Dead
  <2>2. Layout(v, w) \/ Layout(w, v)
    BY <1>2, <1>3, <2>1 DEF LineInv, Text
  <2>3. \A k \in Place : buffer'[1][k] = IF k = o THEN Letter(w, n[w]) ELSE buffer[1][k]
    BY <1>3, <1>8, <2>1
  <2>4. CASE n[v] = 0
    <3>1. Layout(w, v)
      BY <1>4, <2>2, <2>4, WritersAssumption, SMT DEF Layout, Progress
    <3>2. o = n[w]
      BY <1>4, <2>4, WritersAssumption, SMT DEF Progress
    <3>3. Layout(w, v)'
      <4>1. \A k \in 0 .. n[w] : buffer'[1][k] = Letter(w, k)
        BY <1>4, <2>3, <3>1, <3>2, WritersAssumption, SMT DEF Layout, Place
      <4> QED
        BY <1>4, <1>8, <1>10, <2>4, <4>1, WritersAssumption, SMT DEF Layout, Progress
    <3> QED
      BY <1>2, <3>3
  <2>5. CASE n[v] = Letters + 1
    <3>1. Layout(v, w)
      BY <1>4, <2>2, <2>5, WritersAssumption, SMT DEF Layout, Progress
    <3>2. o = Letters + n[w] /\ Progress(v) = Letters
      BY <1>4, <2>5, WritersAssumption, SMT DEF Progress
    <3>3. Layout(v, w)'
      <4>1. \A k \in 0 .. n[w] : buffer'[1][Letters + k] = Letter(w, k)
        <5> TAKE k \in 0 .. n[w]
        <5>1. Letters + k \in Place
          BY <1>4, WritersAssumption, SMT DEF Place
        <5>2. CASE k = n[w]
          BY <2>3, <3>2, <5>1, <5>2
        <5>3. CASE k # n[w]
          <6>1. k \in 0 .. Progress(w) - 1 /\ Letters + k # o
            BY <1>4, <3>2, <5>3, WritersAssumption, SMT DEF Progress
          <6>2. buffer[1][Letters + k] = Letter(w, k)
            BY <3>1, <6>1 DEF Layout
          <6> QED
            BY <2>3, <5>1, <6>1, <6>2
        <5> QED
          BY <5>2, <5>3
      <4>2. \A k \in 0 .. Letters - 1 : buffer'[1][k] = Letter(v, k)
        <5> TAKE k \in 0 .. Letters - 1
        <5>1. k \in Place /\ k # o
          BY <1>4, <3>2, WritersAssumption, SMT DEF Place
        <5> QED
          BY <2>3, <3>1, <3>2, <5>1 DEF Layout
      <4> QED
        BY <1>4, <1>8, <1>10, <2>5, <3>2, <4>1, <4>2, WritersAssumption, SMT DEF Layout
    <3> QED
      BY <1>2, <3>3
  <2> QED
    BY <1>3, <2>1, <2>4, <2>5
<1> QED
  BY <1>7, <1>9, <1>11, <1>12, <1>13 DEF Text

\* The zero behind the word.
LEMMA TerminateKeeps ==
  ASSUME LineInv, NEW w \in Writer, Terminate(w)
  PROVE  DataTypes' /\ Counts' /\ Places' /\ Text' /\ Reading'
<1> USE DEF Process, Child, Writer, Gen
<1> DEFINE o == offset[1]
           g == id[w]["mem"]
<1>1. at[w] = "terminate" /\ at \in [Process -> Point] /\ DataTypes /\ Counts
  BY TypeParts DEF Terminate, Goto, Ready, LineInv, LockInv, LockTypes
<1>2. PICK v \in Writer : v # w /\ Writer = {v, w}
  OBVIOUS
<1>3. /\ id[w]["offset"] = 1 /\ g \in Gen /\ (WithReader => g = 1)
      /\ \A c \in Child \ {w} : at[c] \notin Inside
      /\ ~Broken(v) => n[v] \in {0, Letters + 1}
      /\ o = Progress(w) + Progress(v) /\ Cleared
  BY <1>1, <1>2, WriterInside DEF Inside
<1>4. /\ n[w] = Letters /\ n[v] \in 0 .. Letters + 1 /\ o \in Letters .. 2 * Letters
      /\ Progress(w) = Letters /\ o = Letters + Progress(v) /\ n[w] + 1 \in Place
  <2>1. n[w] = Letters /\ n[v] \in 0 .. Letters + 1
    BY <1>1, WritersAssumption, SMT DEF Counts
  <2> QED
    BY <1>3, <2>1, WritersAssumption, SMT DEF Progress, Place
<1>5. /\ buffer' = [buffer EXCEPT ![g][o] = NUL] /\ offset' = offset
      /\ n' = [n EXCEPT ![w] = n[w] + 1] /\ UNCHANGED line
      /\ at' = [at EXCEPT ![w] = "unlock"]
  BY <1>1, <1>3, SMT DEF Terminate, Goto, DataTypes
<1>6. NUL \in NUL .. 2 * Letters /\ o \in Place /\ o \in 0 .. 2 * Letters
  BY <1>4, WritersAssumption, SMT DEF Place, NUL
<1>7. DataTypes'
  <2>1. offset' = [offset EXCEPT ![1] = o]
    BY <1>1, <1>5 DEF DataTypes
  <2> QED
    BY <1>1, <1>3, <1>4, <1>5, <1>6, <2>1, PutType
<1>8. /\ \A h \in Gen, k \in Place : buffer'[h][k] = IF h = g /\ k = o THEN NUL ELSE buffer[h][k]
      /\ n'[w] = Letters + 1 /\ n'[v] = n[v] /\ n'["reader"] = n["reader"]
  <2>1. \A h \in Gen, k \in Place : buffer'[h][k] = IF h = g /\ k = o THEN NUL ELSE buffer[h][k]
    BY <1>1, <1>3, <1>5, <1>6, Zenon DEF DataTypes
  <2>2. w \in Child /\ v \in Child /\ v # w /\ "reader" \in Child /\ w # "reader"
    BY <1>2
  <2> QED
    BY <1>1, <1>4, <1>5, <2>1, <2>2 DEF DataTypes
<1>9. Counts'
  BY <1>1, <1>2, <1>3, <1>4, <1>5, <1>8, WritersAssumption, SMT DEF Counts, Dead, Inside
<1>10. Progress(w)' = Progress(w) /\ Progress(v)' = Progress(v)
  BY <1>4, <1>8, WritersAssumption, SMT DEF Progress
<1>11. Places'
  <2>1. 2 * Letters \in Place
    BY WritersAssumption, SMT DEF Place
  <2> QED
    BY <1>2, <1>3, <1>4, <1>5, <1>8, <1>10, <2>1, WritersAssumption, SMT DEF LineInv, Places, Progress
<1>12. Reading'
  BY <1>1, <1>2, <1>3, <1>5, SMT DEF Reading, Inside
<1>13. ASSUME WithReader', \A q \in Writer : ~Broken(q)' PROVE Layout("write1", "write2")' \/ Layout("write2", "write1")'
  <2>1. WithReader /\ ~Broken(v) /\ ~Broken(w)
    BY <1>1, <1>2, <1>5, <1>8, <1>13, SMT DEF WithReader, Broken, Alive, Dead
  <2>2. Layout(v, w) \/ Layout(w, v)
    BY <1>2, <1>3, <2>1 DEF LineInv, Text
  <2>3. \A k \in Place : buffer'[1][k] = IF k = o THEN NUL ELSE buffer[1][k]
    BY <1>3, <1>8, <2>1
  <2>4. \A k \in 0 .. o - 1 : buffer'[1][k] = buffer[1][k]
    BY <1>4, <2>3, WritersAssumption, SMT DEF Place
  <2>5. CASE n[v] = 0
    <3>1. Layout(w, v)
      BY <1>4, <2>2, <2>5, WritersAssumption, SMT DEF Layout, Progress
    <3>2. o = Letters
      BY <1>4, <2>5, WritersAssumption, SMT DEF Progress
    <3>3. Layout(w, v)'
      BY <1>4, <1>6, <1>8, <1>10, <2>3, <2>4, <2>5, <3>1, <3>2, WritersAssumption, SMT DEF Layout, Progress
    <3> QED
      BY <1>2, <3>3
  <2>6. CASE n[v] = Letters + 1
    <3>1. Layout(v, w)
      BY <1>4, <2>2, <2>6, WritersAssumption, SMT DEF Layout, Progress
    <3>2. o = 2 * Letters /\ Progress(v) = Letters
      BY <1>4, <2>6, WritersAssumption, SMT DEF Progress
    <3>3. Layout(v, w)'
      BY <1>4, <1>8, <1>10, <2>4, <2>6, <3>1, <3>2, WritersAssumption, SMT DEF Layout
    <3> QED
      BY <1>2, <3>3
  <2> QED
    BY <1>3, <2>1, <2>5, <2>6
<1> QED
  BY <1>7, <1>9, <1>11, <1>12, <1>13 DEF Text

\* The reader goes on by one letter, or has come to the zero.
LEMMA PrintKeeps == ASSUME LineInv, PrintBuffer PROVE DataTypes' /\ Counts' /\ Places' /\ Text' /\ Reading'
<1> USE DEF Process, Child, Writer, Gen
<1> DEFINE m == n["reader"]
           c == buffer[1][m]
<1>1. /\ at["reader"] = "print" /\ at \in [Process -> Point] /\ DataTypes /\ Counts /\ Reading
      /\ WithReader /\ UNCHANGED <<buffer, offset>>
  BY TypeParts DEF PrintBuffer, Ready, LineInv, LockInv, LockTypes, WithReader, content
<1>2. id["reader"]["mem"] = 1
  BY <1>1, SMT DEF LineInv, LockInv, Holds, Together, Inside
<1>3. /\ m \in 0 .. 2 * Letters /\ Len(line) = m /\ buffer[1][2 * Letters] = NUL
      /\ \A k \in 0 .. m - 1 : buffer[1][k] # NUL /\ line[k + 1] = buffer[1][k]
  BY <1>1 DEF LineInv, Reading, Places
<1>4. CASE c = NUL
  <2>1. at' = [at EXCEPT !["reader"] = "unlock"] /\ UNCHANGED <<n, line>>
    BY <1>2, <1>4 DEF PrintBuffer, data
  <2>2. DataTypes' /\ Counts'
    BY <1>1, <2>1, SMT DEF DataTypes, Counts
  <2>3. Places' /\ Text'
    BY <1>1, <2>1, SMT DEF LineInv, Places, Text, Layout, Progress, Broken, Alive, WithReader, Cleared
  <2>4. Reading'
    BY <1>1, <1>3, <1>4, <2>1 DEF Reading
  <2> QED
    BY <2>2, <2>3, <2>4
<1>5. CASE c # NUL
  <2>1. UNCHANGED at /\ n' = [n EXCEPT !["reader"] = m + 1] /\ line' = Append(line, c)
    BY <1>1, <1>2, <1>5, SMT DEF PrintBuffer, DataTypes
  <2>2. m \in 0 .. 2 * Letters - 1 /\ m \in Place /\ c \in 1 .. 2 * Letters
    <3>1. m \in 0 .. 2 * Letters - 1 /\ m \in Place
      <4>1. m # 2 * Letters
        BY <1>3, <1>5
      <4> QED
        BY <1>3, <4>1, WritersAssumption, SMT DEF Place
    <3> QED
      BY <1>1, <1>5, <3>1, WritersAssumption, SMT DEF DataTypes, NUL
  <2>3. DataTypes'
    <3>1. m + 1 \in Place
      BY <2>2, WritersAssumption, SMT DEF Place
    <3>2. n' \in [Child -> Place] /\ line' \in Seq(1 .. 2 * Letters)
      BY <1>1, <2>1, <2>2, <3>1, SMT DEF DataTypes
    <3> QED
      BY <1>1, <3>2 DEF DataTypes
  <2>4. n'["reader"] = m + 1 /\ \A w \in Writer : n'[w] = n[w]
    BY <1>1, <2>1, SMT DEF DataTypes
  <2>5. Counts'
    BY <1>1, <2>1, <2>4, SMT DEF Counts
  <2>6. Places' /\ Text'
    <3>1. Progress("write1")' = Progress("write1") /\ Progress("write2")' = Progress("write2")
      BY <2>4 DEF Progress
    <3>2. Places'
      BY <1>1, <2>1, <3>1 DEF LineInv, Places, Cleared
    <3>3. \A w \in Writer : Broken(w)' = Broken(w)
      BY <2>1, <2>4 DEF Broken, Alive
    <3>4. (Layout("write1", "write2") => Layout("write1", "write2")') /\ (Layout("write2", "write1") => Layout("write2", "write1")')
      BY <1>1, <2>4, <3>1 DEF Layout
    <3> QED
      BY <2>1, <3>2, <3>3, <3>4 DEF LineInv, Text, WithReader, Cleared
  <2>7. Reading'
    <3>1. Len(line') = m + 1 /\ \A k \in 0 .. m : line'[k + 1] = buffer[1][k]
      <4>1. line \in Seq(1 .. 2 * Letters) /\ Len(line) = m
        BY <1>1, <1>3 DEF DataTypes
      <4>2. Len(line') = m + 1 /\ line'[m + 1] = c /\ \A k \in 1 .. m : line'[k] = line[k]
        BY <2>1, <2>2, <4>1, SMT
      <4>3. \A k \in 0 .. m - 1 : line'[k + 1] = buffer[1][k]
        BY <1>3, <2>2, <4>2, SMT
      <4> QED
        BY <2>2, <4>2, <4>3, SMT
    <3>2. \A k \in 0 .. m : buffer[1][k] # NUL
      BY <1>3, <1>5, <2>2, SMT
    <3> QED
      <4>1. m + 1 \in 0 .. 2 * Letters /\ (m + 1) - 1 = m
        BY <2>2, WritersAssumption, SMT
      <4>2. at'["reader"] = "print" /\ buffer' = buffer
        BY <1>1, <2>1
      <4> QED
        BY <2>4, <3>1, <3>2, <4>1, <4>2 DEF Reading
  <2> QED
    BY <2>3, <2>5, <2>6, <2>7
<1> QED
  BY <1>4, <1>5

\* The reader ends its line.
LEMMA ReaderUnlockKeeps ==
  ASSUME LineInv, Unlock("reader")
  PROVE  DataTypes' /\ Counts' /\ Places' /\ Text' /\ Reading'
<1> USE DEF Process, Child, Writer, Gen
<1>1. /\ at["reader"] = "unlock" /\ at \in [Process -> Point] /\ DataTypes /\ Counts
      /\ at' \in {[at EXCEPT !["reader"] = "exit"], [at EXCEPT !["reader"] = "lock"]}
      /\ UNCHANGED <<buffer, offset>> /\ line' = <<>> /\ n' = [n EXCEPT !["reader"] = 0]
  BY TypeParts DEF Unlock, Ready, LineInv, LockInv, LockTypes
<1>2. n'["reader"] = 0 /\ \A w \in Writer : n'[w] = n[w] /\ at'[w] = at[w]
  BY <1>1, SMT DEF DataTypes
<1>3. DataTypes'
  <2>1. n' \in [Child -> Place] /\ line' \in Seq(1 .. 2 * Letters)
    BY <1>1, WritersAssumption, SMT DEF DataTypes, Place
  <2> QED
    BY <1>1, <2>1 DEF DataTypes
<1>4. Counts'
  BY <1>1, <1>2, SMT DEF Counts
<1>5. Reading'
  BY <1>1, SMT DEF Reading
<1>6. Places' /\ Text'
  <2>1. Progress("write1")' = Progress("write1") /\ Progress("write2")' = Progress("write2")
    BY <1>2 DEF Progress
  <2>2. WithReader /\ Cleared /\ at'["main"] = at["main"]
    BY <1>1, SMT DEF WithReader, Cleared
  <2>3. Places'
    BY <1>1, <2>1, <2>2 DEF LineInv, Places
  <2>4. \A w \in Writer : Broken(w)' = Broken(w)
    BY <1>2 DEF Broken, Alive
  <2>5. (Layout("write1", "write2") => Layout("write1", "write2")') /\ (Layout("write2", "write1") => Layout("write2", "write1")')
    BY <1>1, <1>2, <2>1 DEF Layout
  <2> QED
    BY <2>2, <2>3, <2>4, <2>5 DEF LineInv, Text
<1> QED
  BY <1>3, <1>4, <1>5, <1>6

\* Every step of the writers and the reader keeps the invariant.
LEMMA LineStep == LineInv /\ [Next]_vars => LineInv'
<1> SUFFICES ASSUME LineInv, [Next]_vars PROVE LineInv'
    OBVIOUS
<1>1. LockInv' /\ LockTypes' /\ SignalTypes'
  BY NextKeepsLock, SignalsStep, TypeParts DEF LineInv, LockInv
<1>2. DataTypes
  BY TypeParts DEF LineInv
<1>3. CASE UNCHANGED <<at, key, id, content, data>>
  <2>1. DataTypes'
    BY <1>2, <1>3 DEF DataTypes, content, data
  <2>2. Counts' /\ InOrder' /\ Together' /\ Places' /\ Text' /\ Reading'
    BY <1>3 DEF LineInv, content, data, Counts, InOrder, Together, Places, Text, Reading, WithReader, Cleared, Layout,
       Broken, Alive, Progress
  <2> QED
    BY <1>1, <2>1, <2>2, TypeParts, PTL DEF LineInv
<1>4. ASSUME NEW p \in Process, Run(p) PROVE LineInv'
  <2>1. InOrder' /\ Together'
    BY <1>4, RunInOrder
  <2>2. CASE Quiet /\ DeadStay
    <3>1. DataTypes'
      BY <1>2, <2>2 DEF Quiet, DataTypes
    <3>2. Counts' /\ Places' /\ Text' /\ Reading'
      BY <2>2, QuietKeeps DEF DeadStay
    <3> QED
      BY <1>1, <2>1, <3>1, <3>2, TypeParts, PTL DEF LineInv
  <2>3. CASE DataStep
    <3>1. DataTypes' /\ Counts' /\ Places' /\ Text' /\ Reading'
      BY <2>3, ClearKeeps, PrintKeeps, ReaderUnlockKeeps, WriteKeeps, TerminateKeeps DEF DataStep
    <3> QED
      BY <1>1, <2>1, <3>1, TypeParts, PTL DEF LineInv
  <2> QED
    BY <1>4, <2>2, <2>3, Kinds
<1>5. CASE Signal
  BY <1>3, <1>5 DEF Signal
<1> QED
  BY <1>3, <1>4, <1>5 DEF Next, vars, content, data

\* A sequence that agrees with a word, or with two, is made of them.
LEMMA OneWord ==
  ASSUME NEW s \in Seq(1 .. 2 * Letters), NEW w \in Writer, Len(s) = Letters,
         \A k \in 0 .. Letters - 1 : s[k + 1] = Letter(w, k)
  PROVE  s = Word(w)
<1>1. \A q \in 1 .. Letters : s[q] = Letter(w, q - 1)
  <2> TAKE q \in 1 .. Letters
  <2>1. q - 1 \in 0 .. Letters - 1 /\ (q - 1) + 1 = q
    BY WritersAssumption, SMT
  <2> QED
    BY <2>1
<1>2. s = [q \in 1 .. Letters |-> s[q]]
  BY SMT
<1> QED
  BY <1>1, <1>2, Zenon DEF Word

LEMMA TwoWords ==
  ASSUME NEW s \in Seq(1 .. 2 * Letters), NEW a \in Writer, NEW b \in Writer, Len(s) = 2 * Letters,
         \A k \in 0 .. Letters - 1 : s[k + 1] = Letter(a, k),
         \A k \in 0 .. Letters - 1 : s[Letters + k + 1] = Letter(b, k)
  PROVE  s = Word(a) \o Word(b)
<1>1. ASSUME NEW w \in Writer
      PROVE  /\ Word(w) \in Seq(1 .. 2 * Letters) /\ Len(Word(w)) = Letters
             /\ \A k \in 0 .. Letters - 1 : Word(w)[k + 1] = Letter(w, k)
  <2>1. \A q \in 1 .. Letters : Letter(w, q - 1) \in 1 .. 2 * Letters
    BY WritersAssumption, SMT DEF Letter
  <2>2. [q \in 1 .. Letters |-> Letter(w, q - 1)] \in Seq(1 .. 2 * Letters)
    BY <2>1, WritersAssumption, SMT
  <2>3. Len([q \in 1 .. Letters |-> Letter(w, q - 1)]) = Letters
    BY WritersAssumption, SMT
  <2>4. \A k \in 0 .. Letters - 1 : Word(w)[k + 1] = Letter(w, k)
    BY WritersAssumption, SMT DEF Word
  <2> QED
    BY <2>2, <2>3, <2>4 DEF Word
<1> DEFINE t == Word(a) \o Word(b)
<1>2. /\ t \in Seq(1 .. 2 * Letters) /\ Len(t) = 2 * Letters
      /\ \A q \in 1 .. Letters : t[q] = Word(a)[q]
      /\ \A q \in Letters + 1 .. 2 * Letters : t[q] = Word(b)[q - Letters]
  <2> DEFINE x == Word(a)
             y == Word(b)
  <2>1. x \in Seq(1 .. 2 * Letters) /\ y \in Seq(1 .. 2 * Letters) /\ Len(x) = Letters /\ Len(y) = Letters
    BY <1>1
  <2> HIDE DEF x, y
  <2>2. /\ x \o y \in Seq(1 .. 2 * Letters) /\ Len(x \o y) = Letters + Letters
        /\ \A q \in 1 .. Letters + Letters : (x \o y)[q] = IF q <= Letters THEN x[q] ELSE y[q - Letters]
    <3>1. /\ x \o y \in Seq(1 .. 2 * Letters) /\ Len(x \o y) = Len(x) + Len(y)
          /\ \A q \in 1 .. Len(x) + Len(y) : (x \o y)[q] = IF q <= Len(x) THEN x[q] ELSE y[q - Len(x)]
      BY <2>1, ConcatProperties, Zenon
    <3> QED
      BY <2>1, <3>1
  <2>3. t = x \o y
    BY DEF x, y
  <2> HIDE DEF t
  <2>4. /\ Len(t) = 2 * Letters
        /\ \A q \in 1 .. Letters : t[q] = x[q]
        /\ \A q \in Letters + 1 .. 2 * Letters : t[q] = y[q - Letters]
    <3>1. Letters + Letters = 2 * Letters
      BY WritersAssumption, SMT
    <3>2. \A q \in 1 .. Letters : q \in 1 .. Letters + Letters /\ q <= Letters
      BY WritersAssumption, SMT
    <3>3. \A q \in Letters + 1 .. 2 * Letters : q \in 1 .. Letters + Letters /\ ~(q <= Letters)
      BY WritersAssumption, SMT
    <3> QED
      BY <2>2, <2>3, <3>1, <3>2, <3>3
  <2> QED
    BY <2>2, <2>3, <2>4 DEF x, y
<1> HIDE DEF t
<1>3. ASSUME NEW q \in 1 .. 2 * Letters PROVE s[q] = t[q]
  <2>1. CASE q <= Letters
    <3>1. q - 1 \in 0 .. Letters - 1 /\ (q - 1) + 1 = q /\ q \in 1 .. Letters
      BY <2>1, WritersAssumption, SMT
    <3>2. s[q] = Letter(a, q - 1) /\ Word(a)[q] = Letter(a, q - 1)
      BY <1>1, <3>1
    <3> QED
      BY <1>2, <3>1, <3>2
  <2>2. CASE q > Letters
    <3> DEFINE k == q - Letters - 1
    <3>1. k \in 0 .. Letters - 1 /\ Letters + k + 1 = q /\ k + 1 = q - Letters /\ q \in Letters + 1 .. 2 * Letters
      BY <2>2, WritersAssumption, SMT
    <3> HIDE DEF k
    <3>2. s[q] = Letter(b, k) /\ Word(b)[q - Letters] = Letter(b, k)
      BY <1>1, <3>1
    <3> QED
      BY <1>2, <3>1, <3>2
  <2> QED
    BY <2>1, <2>2, WritersAssumption, SMT
<1>4. s = t
  BY <1>2, <1>3, SeqEqual
<1> QED
  BY <1>4 DEF t

\* The invariant gives whole lines.
LEMMA LineWhole == LineInv => LinesWhole
<1> SUFFICES ASSUME LineInv, at["reader"] = "unlock", \A w \in Writer : ~Broken(w)
    PROVE  line \in {<<>>, Word("write1"), Word("write2"),
                     Word("write1") \o Word("write2"), Word("write2") \o Word("write1")}
  BY DEF LinesWhole
<1> DEFINE m == n["reader"]
<1>1. \A w \in Writer : n[w] \in {0, Letters + 1}
  <2> TAKE w \in Writer
  <2>1. at[w] \notin Inside
    BY Alone DEF LineInv, OneAtATime, Inside, Child, Writer
  <2>2. n[w] \notin 1 .. Letters
    BY <2>1 DEF LineInv, Counts, Inside, Broken, Alive
  <2> QED
    BY <2>2, WritersAssumption, SMT DEF LineInv, Counts
<1>2. /\ m \in 0 .. 2 * Letters /\ Len(line) = m /\ buffer[1][m] = NUL /\ line \in Seq(1 .. 2 * Letters)
      /\ \A k \in 0 .. m - 1 : buffer[1][k] # NUL /\ line[k + 1] = buffer[1][k]
  BY TypeParts DEF LineInv, Reading, DataTypes
<1>3. Layout("write1", "write2") \/ Layout("write2", "write1")
  BY DEF LineInv, Text, WithReader, Cleared, Child
<1>4. ASSUME NEW a \in Writer, NEW b \in Writer, Layout(a, b)
      PROVE  line \in {<<>>, Word(a), Word(a) \o Word(b)}
  <2>1. \A k \in 0 .. Letters - 1 : Letter(a, k) # NUL /\ Letter(b, k) # NUL
    BY WritersAssumption, SMT DEF Letter, NUL
  <2>2. CASE n[a] = 0
    <3>1. buffer[1][0] = NUL
      BY <1>4, <2>2 DEF Layout
    <3>2. m > 0 => 0 \in 0 .. m - 1
      BY <1>2, SMT
    <3>3. m = 0
      BY <1>2, <3>1, <3>2, WritersAssumption, SMT
    <3> QED
      BY <1>2, <3>3, EmptySeq
  <2>3. CASE n[a] = Letters + 1
    <3>1. Progress(a) = Letters
      BY <2>3, WritersAssumption, SMT DEF Progress
    <3>2. \A k \in 0 .. Letters - 1 : buffer[1][k] = Letter(a, k)
      BY <1>4, <3>1 DEF Layout
    <3>3. m >= Letters
      <4>1. m \notin 0 .. Letters - 1
        BY <1>2, <2>1, <3>2
      <4> QED
        BY <1>2, <4>1, WritersAssumption, SMT
    <3>4. \A k \in 0 .. Letters - 1 : line[k + 1] = Letter(a, k)
      <4>1. \A k \in 0 .. Letters - 1 : k \in 0 .. m - 1
        BY <1>2, <3>3, WritersAssumption, SMT
      <4> QED
        BY <1>2, <3>2, <4>1
    <3>5. CASE n[b] = 0
      <4>1. buffer[1][Letters] = NUL
        BY <1>4, <2>3, <3>5 DEF Layout
      <4>2. m = Letters
        <5>1. m > Letters => Letters \in 0 .. m - 1
          BY <1>2, WritersAssumption, SMT
        <5> QED
          BY <1>2, <3>3, <4>1, <5>1, WritersAssumption, SMT
      <4> QED
        BY <1>2, <3>4, <4>2, OneWord
    <3>6. CASE n[b] = Letters + 1
      <4>1. Progress(b) = Letters
        BY <3>6, WritersAssumption, SMT DEF Progress
      <4>2. \A k \in 0 .. Letters - 1 : buffer[1][Letters + k] = Letter(b, k)
        BY <1>4, <4>1 DEF Layout
      <4>3. ASSUME m < 2 * Letters PROVE FALSE
        <5>1. m - Letters \in 0 .. Letters - 1 /\ Letters + (m - Letters) = m
          BY <1>2, <3>3, <4>3, WritersAssumption, SMT
        <5>2. buffer[1][Letters + (m - Letters)] = Letter(b, m - Letters)
          BY <4>2, <5>1
        <5> QED
          BY <1>2, <2>1, <5>1, <5>2
      <4>4. m = 2 * Letters
        <5>1. m \in 0 .. 2 * Letters
          BY <1>2
        <5> HIDE DEF m
        <5> QED
          BY <4>3, <5>1, WritersAssumption, SMT
      <4>5. \A k \in 0 .. Letters - 1 : line[Letters + k + 1] = Letter(b, k)
        <5> TAKE k \in 0 .. Letters - 1
        <5>1. Letters + k \in 0 .. m - 1
          BY <4>4, WritersAssumption, SMT
        <5> QED
          BY <1>2, <4>2, <5>1
      <4> QED
        BY <1>2, <3>4, <4>4, <4>5, TwoWords
    <3> QED
      BY <1>1, <3>5, <3>6
  <2> QED
    BY <1>1, <2>2, <2>3
<1> QED
  BY <1>3, <1>4 DEF Writer

-----------------------------------------------------------------------------
(***************************************************************************)
(* The semaphore of 03.sharemem_comm.  It is not a lock: a program that    *)
(* starts sets it to one again and clears what the other would give back.  *)
(* What the semaphore and the two undo values add up to stays one, and     *)
(* only one of the two programs can have been cleared under the lock, so   *)
(* the semaphore stays between zero and two.                               *)
(***************************************************************************)
PairPoint == Pair!Live \cup {"returned", "killed"}
\* Up to lock_sem, and between lock_sem and unlock_sem.
Before == {"open_shm", "shmat", "open_sem", "init_sem", "lock_sem"}
Within == {"write", "read", "star", "unlock_sem"}

\* The ranges of what the semaphore depends on.
SemTypes ==
  /\ pat \in [Pair!Program -> PairPoint]
  /\ semset \in 0 .. 2 /\ sem \in [Pair!Program -> 0 .. 2]
  /\ pval \in [1 .. 2 -> 0 .. 2]
  /\ pundo \in [1 .. 2 -> [Pair!Program -> -1 .. 1]]

Total(s) == pval[s] + pundo[s]["server"] + pundo[s]["client"]
\* The other program has set the semaphore while p held it.
WasReset(p) ==
  \/ pat[p] \in Within /\ pundo[sem[p]][p] = 0
  \/ \E s \in 1 .. 2 : pundo[s][p] = -1

Balance ==
  /\ \A p \in Pair!Program :
       /\ pat[p] \in {"init_sem", "lock_sem"} \cup Within => sem[p] # 0
       /\ pat[p] \in Within => pundo[sem[p]][p] # -1 /\ Total(sem[p]) = 1
       /\ \A s \in 1 .. 2 : pundo[s][p] # 0 => s = sem[p] /\ pat[p] \notin Before
  /\ \A s \in 1 .. 2 :
       Total(s) = 1 \/ (pval[s] = 0 /\ pundo[s]["server"] = 0 /\ pundo[s]["client"] = 0)
  /\ ~(WasReset("server") /\ WasReset("client"))

\* The inductive invariant of the semaphore.
SemInv == SemTypes /\ Balance

\* A program that ends gives back what it holds; the sum stays what it was.
LEMMA ExitKeepsSem ==
  ASSUME SemInv, NEW p \in Pair!Program, Pair!Exit(p), UNCHANGED <<sem, semset>>,
         NEW to \in {"returned", "killed"}, pat' = [pat EXCEPT ![p] = to]
  PROVE  SemInv'
<1> USE DEF Pair!Program, PairPoint, Pair!Live, Before, Within
<1>1. \A s \in 1 .. 2 : pval[s] + pundo[s][p] \in 0 .. 2
  BY SMT DEF SemInv, SemTypes, Balance, Total
<1>2. /\ \A s \in 1 .. 2 : pval'[s] = pval[s] + pundo[s][p]
      /\ \A s \in 1 .. 2, q \in Pair!Program : pundo'[s][q] = IF q = p THEN 0 ELSE pundo[s][q]
  BY <1>1, SMT DEF Pair!Exit, SemInv, SemTypes
<1>3. SemTypes'
  <2>1. pval' \in [1 .. 2 -> 0 .. 2]
    BY <1>1, SMT DEF Pair!Exit
  <2>2. pundo' \in [1 .. 2 -> [Pair!Program -> -1 .. 1]]
    BY SMT DEF Pair!Exit, SemInv, SemTypes
  <2> QED
    BY <2>1, <2>2, SMT DEF SemInv, SemTypes
<1>4. /\ pat'[p] \notin Before \cup Within
      /\ \A q \in Pair!Program : q # p => pat'[q] = pat[q]
  BY SMT DEF SemInv, SemTypes
<1>5. Balance'
  BY <1>1, <1>2, <1>4, SMT DEF SemInv, SemTypes, Balance, Total, WasReset
<1> QED
  BY <1>3, <1>5 DEF SemInv

\* A step that leaves the semaphores alone.
LEMMA MoveKeepsSem ==
  ASSUME SemInv, UNCHANGED <<sem, pval, pundo>>, semset' \in 0 .. 2, NEW p \in Pair!Program,
         NEW to \in PairPoint \ {"init_sem", "lock_sem"},
         to \in Within => pat[p] \in Within, to \in Before => pat[p] \in Before,
         pat' = pat \/ pat' = [pat EXCEPT ![p] = to]
  PROVE  SemInv'
<1> USE DEF Pair!Program, PairPoint, Pair!Live, Before, Within
<1>1. SemTypes'
  BY SMT DEF SemInv, SemTypes
<1>2. \A q \in Pair!Program : /\ pat'[q] \in Within => pat[q] \in Within
                              /\ pat'[q] \in Before => pat[q] \in Before
                              /\ pat'[q] \in {"init_sem", "lock_sem"} => pat[q] = pat'[q]
                              /\ pat[q] \in Before => pundo[1][q] = 0 /\ pundo[2][q] = 0
  BY SMT DEF SemInv, SemTypes, Balance
<1>3. \A q \in Pair!Program : pat'[q] \notin Before \/ pat[q] \in Before
  BY <1>2
<1>4. Balance'
  BY <1>2, SMT DEF SemInv, SemTypes, Balance, Total, WasReset
<1> QED
  BY <1>1, <1>4 DEF SemInv

\* A call that fails.
LEMMA FailKeepsSem ==
  ASSUME SemInv, UNCHANGED <<sem, pval, pundo>>, semset' \in 0 .. 2, NEW p \in Pair!Program,
         NEW to \in {"free_sem", "free_shm"}, pat' = [pat EXCEPT ![p] = to]
  PROVE  SemInv'
<1>1. to \in PairPoint \ {"init_sem", "lock_sem"} /\ to \notin Within /\ to \notin Before
  BY DEF PairPoint, Pair!Live, Within, Before
<1> QED
  BY <1>1, MoveKeepsSem

\* Every step of the pair keeps the invariant of the semaphore.
LEMMA SemStep == SemInv /\ [Pair!Next]_(Pair!vars) => SemInv'
<1> SUFFICES ASSUME SemInv, [Pair!Next]_(Pair!vars) PROVE SemInv'
    OBVIOUS
<1> USE DEF Pair!Program, PairPoint, Pair!Live, Before, Within
<1>1. CASE UNCHANGED Pair!vars
  BY <1>1 DEF Pair!vars, SemInv, SemTypes, Balance, Total, WasReset
<1>2. ASSUME NEW p \in Pair!Program, Pair!Run(p) \/ Pair!Kill(p) PROVE SemInv'
  <2>1. semset \in 0 .. 2 /\ sem[p] \in 0 .. 2
    BY DEF SemInv, SemTypes
  <2>2. CASE Pair!OpenSem(p)
    <3>1. CASE /\ pat[p] = "open_sem" /\ pat' = [pat EXCEPT ![p] = "init_sem"]
               /\ semset' \in 1 .. 2 /\ sem' = [sem EXCEPT ![p] = semset'] /\ UNCHANGED <<pval, pundo>>
      BY <3>1, SMT DEF SemInv, SemTypes, Balance, Total, WasReset
    <3>2. CASE UNCHANGED <<sem, semset, pval, pundo>> /\ pat[p] = "open_sem" /\ pat' = [pat EXCEPT ![p] = "free_shm"]
      BY <2>1, <3>2, FailKeepsSem
    <3> QED
      BY <2>1, <2>2, <3>1, <3>2, SMT DEF Pair!OpenSem, Pair!Goto, Pair!Fail
  <2>3. CASE Pair!InitSem(p)
    <3>1. CASE Pair!Removed(p)
      <4>1. UNCHANGED <<sem, semset, pval, pundo>> /\ pat[p] = "init_sem" /\ pat' = [pat EXCEPT ![p] = "free_sem"]
        BY <2>3, <3>1 DEF Pair!InitSem, Pair!Fail, Pair!Goto
      <4> QED
        BY <2>1, <4>1, FailKeepsSem
    <3>2. CASE ~Pair!Removed(p)
      <4>1. /\ pat[p] = "init_sem" /\ pat' = [pat EXCEPT ![p] = "lock_sem"]
            /\ pval' = [pval EXCEPT ![sem[p]] = 1]
            /\ pundo' = [pundo EXCEPT ![sem[p]] = [q \in Pair!Program |-> 0]]
            /\ UNCHANGED <<sem, semset>>
        BY <2>3, <3>2 DEF Pair!InitSem, Pair!Goto
      <4>2. sem[p] \in 1 .. 2
        BY <2>1, <4>1, SMT DEF SemInv, Balance
      <4>3. SemTypes'
        BY <4>1, <4>2, SMT DEF SemInv, SemTypes
      <4>4. /\ \A s \in 1 .. 2 : pval'[s] = IF s = sem[p] THEN 1 ELSE pval[s]
            /\ \A s \in 1 .. 2, q \in Pair!Program : pundo'[s][q] = IF s = sem[p] THEN 0 ELSE pundo[s][q]
        BY <4>1, <4>2, SMT DEF SemInv, SemTypes
      <4>5. ~WasReset(p)'
        BY <4>1, <4>2, <4>4, SMT DEF SemInv, SemTypes, Balance, WasReset
      <4>6. Balance'
        BY <4>1, <4>2, <4>4, <4>5, SMT DEF SemInv, SemTypes, Balance, Total
      <4> QED
        BY <4>3, <4>6 DEF SemInv
    <3> QED
      BY <3>1, <3>2
  <2>4. CASE Pair!LockSem(p)
    <3>1. CASE Pair!Removed(p)
      <4>1. UNCHANGED <<sem, semset, pval, pundo>> /\ pat[p] = "lock_sem" /\ pat' = [pat EXCEPT ![p] = "free_sem"]
        BY <2>4, <3>1 DEF Pair!LockSem, Pair!Fail, Pair!Goto
      <4> QED
        BY <2>1, <4>1, FailKeepsSem
    <3>2. CASE ~Pair!Removed(p)
      <4>1. /\ pat[p] = "lock_sem" /\ pat' = [pat EXCEPT ![p] = IF p = "server" THEN "write" ELSE "read"]
            /\ pval[sem[p]] > 0 /\ UNCHANGED <<sem, semset>>
        BY <2>4, <3>2 DEF Pair!LockSem, Pair!Goto
      <4>2. sem[p] \in 1 .. 2 /\ pundo[sem[p]][p] = 0
        BY <2>1, <4>1, SMT DEF SemInv, Balance
      <4>3. /\ pval' = [pval EXCEPT ![sem[p]] = pval[sem[p]] - 1]
            /\ pundo' = [pundo EXCEPT ![sem[p]] = [pundo[sem[p]] EXCEPT ![p] = 1]]
        BY <2>4, <3>2, <4>2, SMT DEF Pair!LockSem, SemInv, SemTypes
      <4>4. SemTypes'
        BY <4>1, <4>2, <4>3, SMT DEF SemInv, SemTypes
      <4>5. /\ \A s \in 1 .. 2 : pval'[s] = IF s = sem[p] THEN pval[s] - 1 ELSE pval[s]
            /\ \A s \in 1 .. 2, q \in Pair!Program :
                 pundo'[s][q] = IF s = sem[p] /\ q = p THEN 1 ELSE pundo[s][q]
        BY <4>2, <4>3, SMT DEF SemInv, SemTypes
      <4>6. \A q \in Pair!Program : q # p => (WasReset(q)' <=> WasReset(q))
        BY <4>1, <4>5, SMT DEF SemInv, SemTypes, Balance, WasReset
      <4>7. ~WasReset(p)'
        BY <4>1, <4>2, <4>5, SMT DEF SemInv, SemTypes, Balance, WasReset
      <4>8. Balance'
        BY <4>1, <4>2, <4>5, <4>6, <4>7, SMT DEF SemInv, SemTypes, Balance, Total
      <4> QED
        BY <4>4, <4>8 DEF SemInv
    <3> QED
      BY <3>1, <3>2
  <2>5. CASE Pair!UnlockSem(p)
    <3>1. CASE Pair!Removed(p)
      <4>1. UNCHANGED <<sem, semset, pval, pundo>> /\ pat[p] = "unlock_sem" /\ pat' = [pat EXCEPT ![p] = "free_sem"]
        BY <2>5, <3>1 DEF Pair!UnlockSem, Pair!Fail, Pair!Goto
      <4> QED
        BY <2>1, <4>1, FailKeepsSem
    <3>2. CASE ~Pair!Removed(p)
      <4>1. /\ pat[p] = "unlock_sem" /\ pat' = [pat EXCEPT ![p] = IF p = "server" THEN "poll" ELSE "free_sem"]
            /\ UNCHANGED <<sem, semset>>
        BY <2>5, <3>2 DEF Pair!UnlockSem, Pair!Goto
      <4>2. sem[p] \in 1 .. 2 /\ pundo[sem[p]][p] \in 0 .. 1 /\ Total(sem[p]) = 1
        BY <2>1, <4>1, SMT DEF SemInv, SemTypes, Balance
      <4>3. /\ pval' = [pval EXCEPT ![sem[p]] = pval[sem[p]] + 1]
            /\ pundo' = [pundo EXCEPT ![sem[p]] = [pundo[sem[p]] EXCEPT ![p] = pundo[sem[p]][p] - 1]]
        BY <2>5, <3>2, <4>2, SMT DEF Pair!UnlockSem, SemInv, SemTypes
      <4>4. /\ \A s \in 1 .. 2 : pval'[s] = IF s = sem[p] THEN pval[s] + 1 ELSE pval[s]
            /\ \A s \in 1 .. 2, q \in Pair!Program :
                 pundo'[s][q] = IF s = sem[p] /\ q = p THEN pundo[s][q] - 1 ELSE pundo[s][q]
        BY <4>2, <4>3, SMT DEF SemInv, SemTypes
      <4>5. pval[sem[p]] < 2
        <5>1. \A q \in Pair!Program : q # p /\ pundo[sem[p]][p] = 0 => pundo[sem[p]][q] # -1
          BY <4>1, <4>2, SMT DEF SemInv, Balance, WasReset
        <5> QED
          BY <4>2, <5>1, SMT DEF SemInv, SemTypes, Total
      <4>6. SemTypes'
        BY <4>1, <4>2, <4>3, <4>5, SMT DEF SemInv, SemTypes
      <4>7. \A q \in Pair!Program : q # p => (WasReset(q)' <=> WasReset(q))
        BY <4>1, <4>4, SMT DEF SemInv, SemTypes, Balance, WasReset
      <4>8. WasReset(p)' => WasReset(p)
        BY <4>1, <4>2, <4>4, SMT DEF SemInv, SemTypes, Balance, WasReset
      <4>9. Balance'
        BY <4>1, <4>2, <4>4, <4>7, <4>8, SMT DEF SemInv, SemTypes, Balance, Total
      <4> QED
        BY <4>6, <4>9 DEF SemInv
    <3> QED
      BY <3>1, <3>2
  <2>6. CASE Pair!FreeSem(p)
    <3>1. /\ UNCHANGED <<sem, pval, pundo>> /\ semset' \in 0 .. 2
          /\ pat[p] = "free_sem" /\ pat' = [pat EXCEPT ![p] = "free_shm"]
      BY <2>1, <2>6, SMT DEF Pair!FreeSem, Pair!Goto
    <3> QED
      BY <3>1, FailKeepsSem
  <2>7. CASE Pair!FreeShm(p) \/ Pair!Kill(p)
    BY <2>7, ExitKeepsSem DEF Pair!FreeShm, Pair!Kill, Pair!Goto
  <2>8. CASE Pair!OpenShm(p) \/ Pair!Attach(p)
    <3>1. /\ UNCHANGED <<sem, semset, pval, pundo>> /\ pat[p] \in {"open_shm", "shmat"}
          /\ \E to \in {"shmat", "open_sem", "returned"} : pat' = [pat EXCEPT ![p] = to]
      BY <2>8 DEF Pair!OpenShm, Pair!Attach, Pair!Goto, Pair!Fail, Pair!objects
    <3>2. PICK to \in {"shmat", "open_sem", "returned"} : pat' = [pat EXCEPT ![p] = to]
      BY <3>1
    <3>3. to \in PairPoint \ {"init_sem", "lock_sem"} /\ to \notin Within /\ pat[p] \in Before
      BY <3>1
    <3> HIDE DEF Before, Within, PairPoint, Pair!Live
    <3> QED
      BY <2>1, <3>1, <3>2, <3>3, MoveKeepsSem
  <2>9. CASE \/ p = "server" /\ (Pair!Write \/ Pair!Terminate \/ Pair!Poll)
             \/ p = "client" /\ (Pair!Read \/ Pair!WriteStar)
    <3>1. /\ UNCHANGED <<sem, semset, pval, pundo>>
          /\ \/ pat' = pat
             \/ pat' = [pat EXCEPT ![p] = "free_sem"]
             \/ pat[p] \in Within /\ \E to \in {"unlock_sem", "star"} : pat' = [pat EXCEPT ![p] = to]
      BY <2>9 DEF Pair!Write, Pair!Terminate, Pair!Poll, Pair!Read, Pair!WriteStar, Pair!Goto, Pair!objects
    <3>2. CASE pat' = pat
      BY <3>1, <3>2 DEF SemInv, SemTypes, Balance, Total, WasReset
    <3>3. CASE pat' = [pat EXCEPT ![p] = "free_sem"]
      BY <2>1, <3>1, <3>3, FailKeepsSem
    <3>4. ASSUME NEW to \in {"unlock_sem", "star"}, pat[p] \in Within, pat' = [pat EXCEPT ![p] = to]
          PROVE  SemInv'
      <4>1. to \in PairPoint \ {"init_sem", "lock_sem"} /\ to \notin Before
        OBVIOUS
      <4> HIDE DEF Before, Within, PairPoint, Pair!Live
      <4> QED
        BY <2>1, <3>1, <3>4, <4>1, MoveKeepsSem
    <3> QED
      BY <3>1, <3>2, <3>3, <3>4
  <2> QED
    BY <1>2, <2>2, <2>3, <2>4, <2>5, <2>6, <2>7, <2>8, <2>9 DEF Pair!Run
<1> QED
  BY <1>1, <1>2 DEF Pair!Next

-----------------------------------------------------------------------------
(***************************************************************************)
(* What the client of 03.sharemem_comm prints.  It reads up to the first   *)
(* zero, and a segment that this run has created holds the letters the     *)
(* server has written so far and zeros behind them.  A client that is      *)
(* started once the server polls gets the server's segment with the whole  *)
(* message, and nobody changes it until the client writes the star.        *)
(***************************************************************************)
\* The ranges of the rest.
SegmentTypes ==
  /\ order \in {"late", "any"}
  /\ ret \in [Pair!Program -> -5 .. 0]
  /\ segment \in 0 .. 3 /\ shm \in [Pair!Program -> 0 .. 3]
  /\ cell \in [1 .. 3 -> [Pair!Cells -> Pair!NUL .. Pair!Star]]
  /\ pos \in [Pair!Program -> 0 .. PairLetters]
  /\ printed \in Seq(1 .. Pair!Star)

\* Which segments the programs have, and how far they are with the message.
Mapped ==
  /\ \A p \in Pair!Program :
       /\ pat[p] = "open_shm" => shm[p] = 0
       /\ pat[p] \in Pair!Live \ {"open_shm"} => shm[p] # 0
       /\ pat[p] \in Before \cup Within => ret[p] = 0
  /\ pat["server"] \in Before => pos["server"] = 0
  /\ pat["client"] \in Before => pos["client"] = 0 /\ printed = <<>>
  /\ \A s \in 1 .. 3 : cell[s][PairLetters] = Pair!NUL

\* The first letters of the message are in segment s.
Written(s, letters) == \A k \in 0 .. letters - 1 : cell[s][k] = k + 1

\* Until the client has read, a segment of this run holds what the server has written.
Fresh ==
  pat["client"] \in Before \cup {"read"} =>
    \A s \in 2 .. 3 : \A k \in Pair!Cells :
      cell[s][k] = IF shm["server"] = s /\ k < pos["server"] THEN k + 1 ELSE Pair!NUL

\* The client that comes late finds the server's segment, with the message in it.
LateServer ==
  order = "late" /\ pat["client"] = "open_shm" =>
    /\ pat["server"] \in Pair!Live \ {"open_shm"} => segment = shm["server"]
    /\ pat["server"] = "write" => Written(shm["server"], pos["server"])
    /\ pat["server"] \in {"unlock_sem", "poll"} => Written(shm["server"], PairLetters)
LateClient ==
  order = "late" /\ pat["client"] \in (Before \ {"open_shm"}) \cup {"read"} =>
    /\ pat["server"] \in {"poll", "killed"} /\ shm["client"] = shm["server"]
    /\ Written(shm["client"], PairLetters)

\* What has been printed are the first letters.
Copied ==
  /\ order = "late" \/ shm["client"] # 1 =>
       Len(printed) = pos["client"] /\ \A k \in 1 .. pos["client"] : printed[k] = k
  /\ Pair!HasRead /\ order = "late" => pos["client"] = PairLetters

\* The inductive invariant of the pair.
PairInv == SemInv /\ SegmentTypes /\ Mapped /\ Fresh /\ LateServer /\ LateClient /\ Copied

\* A message has at least one letter.
LEMMA SomeLetters == PairLetters \in Nat /\ PairLetters > 0 /\ Pair!Star = PairLetters + 1 /\ Pair!NUL = 0
BY FirstSharedAssumption, SMT DEF Pair!PairAssumption, Pair!Star, Pair!NUL

\* The invariant holds at the start.
LEMMA PairInit == Pair!Init => PairInv
<1> SUFFICES ASSUME Pair!Init PROVE PairInv
    OBVIOUS
<1> USE SomeLetters DEF Pair!Program, PairPoint, Pair!Live, Before, Within
<1>1. SemInv
  BY SMT DEF Pair!Init, SemInv, SemTypes, Balance, Total, WasReset
<1>2. /\ order \in {"late", "any"} /\ segment \in 0 .. 3 /\ printed = <<>>
      /\ \A p \in Pair!Program : pat[p] = "open_shm" /\ ret[p] = 0 /\ shm[p] = 0 /\ pos[p] = 0
      /\ ret \in [Pair!Program -> -5 .. 0] /\ shm \in [Pair!Program -> 0 .. 3]
      /\ pos \in [Pair!Program -> 0 .. PairLetters] /\ printed \in Seq(1 .. Pair!Star)
  BY SMT DEF Pair!Init
<1>3. ASSUME NEW f \in Pair!Old \cup {Pair!Blank}
      PROVE  f \in [Pair!Cells -> Pair!NUL .. Pair!Star] /\ f[PairLetters] = Pair!NUL
  <2>1. /\ \A k \in Pair!Cells : (IF k = PairLetters THEN Pair!NUL ELSE k + 1) \in Pair!NUL .. Pair!Star
        /\ \A k \in Pair!Cells :
             (IF k = 0 THEN Pair!Star ELSE IF k = PairLetters THEN Pair!NUL ELSE k + 1) \in Pair!NUL .. Pair!Star
        /\ Pair!NUL \in Pair!NUL .. Pair!Star
    BY SMT DEF Pair!Cells
  <2>2. f \in [Pair!Cells -> Pair!NUL .. Pair!Star]
    BY <1>3, <2>1, Zenon DEF Pair!Old, Pair!Blank
  <2>3. PairLetters \in Pair!Cells /\ PairLetters # 0
    BY SMT DEF Pair!Cells
  <2> QED
    BY <1>3, <2>2, <2>3 DEF Pair!Old, Pair!Blank
<1>4. /\ cell[2] = Pair!Blank /\ cell[3] = Pair!Blank
      /\ \A s \in 1 .. 3 : cell[s] \in Pair!Old \cup {Pair!Blank}
      /\ cell = [s \in 1 .. 3 |-> cell[s]]
  <2>1. CASE cell = [s \in 1 .. 3 |-> Pair!Blank]
    BY <2>1
  <2>2. CASE \E old \in Pair!Old : cell = [s \in 1 .. 3 |-> IF s = 1 THEN old ELSE Pair!Blank]
    BY <2>2, SMT
  <2> QED
    BY <2>1, <2>2 DEF Pair!Init
<1>5. cell \in [1 .. 3 -> [Pair!Cells -> Pair!NUL .. Pair!Star]] /\ \A s \in 1 .. 3 : cell[s][PairLetters] = Pair!NUL
  BY <1>3, <1>4
<1>6. SegmentTypes /\ Mapped
  BY <1>2, <1>5 DEF SegmentTypes, Mapped
<1>7. \A s \in 2 .. 3 : \A k \in Pair!Cells : cell[s][k] = Pair!NUL
  <2>1. \A s \in 2 .. 3 : cell[s] = Pair!Blank
    BY <1>4, SMT
  <2> QED
    BY <2>1 DEF Pair!Blank
<1>8. Fresh
  <2>1. \A k \in Pair!Cells : ~(k < 0)
    BY SMT DEF Pair!Cells
  <2> QED
    BY <1>2, <1>7, <2>1 DEF Fresh
<1>9. LateServer /\ LateClient /\ Copied
  BY <1>2, SMT DEF LateServer, LateClient, Copied, Pair!HasRead
<1> QED
  BY <1>1, <1>6, <1>8, <1>9 DEF PairInv

\* The part of the invariant that is about segment and message.
MessageInv == SegmentTypes /\ Mapped /\ Fresh /\ LateServer /\ LateClient /\ Copied

\* A step that moves one program and changes neither the message nor what has been read.
LEMMA MoveKeepsMessage ==
  ASSUME PairInv, NEW p \in Pair!Program, NEW to \in PairPoint \ {"open_shm", "shmat", "star"},
         pat' = [pat EXCEPT ![p] = to], pat[p] \in Pair!Live \ {"open_shm"},
         UNCHANGED <<order, shm, cell, pos, printed>>,
         segment' = segment \/ (to = "returned" /\ segment' \in 0 .. 3),
         ret' \in [Pair!Program -> -5 .. 0], \A q \in Pair!Program : ret'[q] = ret[q] \/ (q = p /\ to \notin Before \cup Within),
         to \in Before => pat[p] \in Before,
         to \in Within => \/ p = "server" /\ to = "write" /\ pat[p] = "lock_sem"
                          \/ p = "client" /\ to = "read" /\ pat[p] = "lock_sem"
                          \/ p = "server" /\ to = "unlock_sem" /\ pat[p] = "write" /\ pos[p] = PairLetters
                          \/ p = "client" /\ to = "unlock_sem" /\ pat[p] = "star",
         to = "poll" => p = "server" /\ pat[p] = "unlock_sem",
         p = "server" /\ order = "late" /\ pat["client"] \in (Before \ {"open_shm"}) \cup {"read"} => to = "killed",
         Pair!HasRead' => Pair!HasRead
  PROVE  MessageInv'
<1> USE SomeLetters DEF Pair!Program, PairPoint, Pair!Live, Before, Within
<1>1. pat \in [Pair!Program -> PairPoint] /\ pat'[p] = to /\ \A q \in Pair!Program : q # p => pat'[q] = pat[q]
  BY SMT DEF PairInv, SemInv, SemTypes
<1>2. SegmentTypes'
  BY SMT DEF PairInv, SegmentTypes
<1>3. Mapped'
  BY <1>1, SMT DEF PairInv, Mapped
<1>4. Fresh'
  <2>1. pat'["client"] \in Before \cup {"read"} => pat["client"] \in Before \cup {"read"}
    BY <1>1, SMT
  <2> QED
    BY <2>1 DEF PairInv, Fresh
<1>5. LateServer'
  <2>1. SUFFICES ASSUME order = "late", pat'["client"] = "open_shm"
                 PROVE  /\ pat'["server"] \in Pair!Live \ {"open_shm"} => segment' = shm["server"]
                        /\ pat'["server"] = "write" => Written(shm["server"], pos["server"])
                        /\ pat'["server"] \in {"unlock_sem", "poll"} => Written(shm["server"], PairLetters)
    BY DEF LateServer, Written
  <2>2. p = "server" /\ pat["client"] = "open_shm"
    BY <1>1, <2>1
  <2>3. to = "write" => Written(shm["server"], pos["server"])
    BY <2>2, SMT DEF PairInv, Mapped, Written
  <2> QED
    BY <1>1, <2>1, <2>2, <2>3 DEF PairInv, LateServer
<1>6. LateClient'
  <2>1. SUFFICES ASSUME order = "late", pat'["client"] \in (Before \ {"open_shm"}) \cup {"read"}
                 PROVE  /\ pat'["server"] \in {"poll", "killed"} /\ shm["client"] = shm["server"]
                        /\ Written(shm["client"], PairLetters)
    BY DEF LateClient, Written
  <2>2. pat["client"] \in (Before \ {"open_shm"}) \cup {"read"}
    BY <1>1, <2>1, SMT
  <2> QED
    BY <1>1, <2>1, <2>2 DEF PairInv, LateClient
<1>7. Copied'
  BY DEF PairInv, Copied
<1> QED
  BY <1>2, <1>3, <1>4, <1>5, <1>6, <1>7 DEF MessageInv

\* The calls that only move the program, also when they fail.
LEMMA CallsKeepMessage ==
  ASSUME PairInv, NEW p \in Pair!Program,
         \/ Pair!Attach(p) \/ Pair!OpenSem(p) \/ Pair!InitSem(p) \/ Pair!LockSem(p) \/ Pair!UnlockSem(p)
         \/ Pair!FreeSem(p) \/ Pair!FreeShm(p) \/ Pair!Kill(p)
         \/ p = "server" /\ (Pair!Terminate \/ Pair!Poll)
  PROVE  MessageInv'
<1> USE SomeLetters DEF Pair!Program, PairPoint, Pair!Live, Before, Within
<1>1. SegmentTypes /\ Mapped /\ LateClient /\ pat \in [Pair!Program -> PairPoint]
  BY DEF PairInv, SemInv, SemTypes
<1>2. p = "server" /\ order = "late" /\ pat["client"] \in (Before \ {"open_shm"}) \cup {"read"} =>
        pat["server"] \in {"poll", "killed"} /\ cell[shm["server"]][0] # Pair!Star
  BY <1>1, SMT DEF LateClient, Written
<1>3. ASSUME NEW from, NEW r \in -5 .. -1, NEW to \in {"returned", "free_shm", "free_sem"},
             Pair!Fail(p, from, r, to), from \in {"shmat", "open_sem", "init_sem", "lock_sem", "unlock_sem"},
             r = -5 <=> from = "unlock_sem", UNCHANGED <<order, segment, shm, cell, pos, printed>>
      PROVE  MessageInv'
  <2>1. pat[p] = from /\ pat' = [pat EXCEPT ![p] = to] /\ ret' = [ret EXCEPT ![p] = r]
    BY <1>3 DEF Pair!Fail, Pair!Goto
  <2>2. ret' \in [Pair!Program -> -5 .. 0] /\ ret'[p] = r /\ \A q \in Pair!Program : ret'[q] = ret[q] \/ q = p
    BY <1>1, <2>1, SMT DEF SegmentTypes
  <2>3. Pair!HasRead' => Pair!HasRead
    BY <1>1, <1>3, <2>1, <2>2, SMT DEF Pair!HasRead, Mapped
  <2>4. ~(p = "server" /\ order = "late" /\ pat["client"] \in (Before \ {"open_shm"}) \cup {"read"})
    BY <1>2, <1>3, <2>1
  <2>5. /\ to \in PairPoint \ {"open_shm", "shmat", "star"} /\ to \notin Before \cup Within /\ to # "poll"
        /\ pat[p] \in Pair!Live \ {"open_shm"}
    BY <1>3, <2>1
  <2> HIDE DEF Before, Within, PairPoint, Pair!Live, Pair!Program
  <2> QED
    BY <1>3, <2>1, <2>2, <2>3, <2>4, <2>5, MoveKeepsMessage
<1>4. ASSUME NEW from, NEW to, pat[p] = from, pat' = [pat EXCEPT ![p] = to],
             UNCHANGED <<order, ret, shm, cell, pos, printed>>,
             segment' = segment \/ (to = "returned" /\ segment' \in 0 .. 3),
             \/ <<from, to>> \in {<<"shmat", "open_sem">>, <<"open_sem", "init_sem">>, <<"init_sem", "lock_sem">>,
                                  <<"free_sem", "free_shm">>, <<"free_shm", "returned">>}
             \/ p = "server" /\ <<from, to>> \in {<<"lock_sem", "write">>, <<"unlock_sem", "poll">>}
             \/ p = "server" /\ from = "write" /\ to = "unlock_sem" /\ pos[p] = PairLetters
             \/ p = "server" /\ from = "poll" /\ to = "free_sem" /\ cell[shm["server"]][0] = Pair!Star
             \/ p = "client" /\ <<from, to>> \in {<<"lock_sem", "read">>, <<"unlock_sem", "free_sem">>}
             \/ from \in Pair!Live \ {"open_shm"} /\ to = "killed"
      PROVE  MessageInv'
  <2>1. ret' \in [Pair!Program -> -5 .. 0] /\ \A q \in Pair!Program : ret'[q] = ret[q]
    BY <1>1, <1>4 DEF SegmentTypes
  <2>2. Pair!HasRead' => Pair!HasRead
    BY <1>1, <1>4, SMT DEF Pair!HasRead, Mapped
  <2>3. p = "server" /\ order = "late" /\ pat["client"] \in (Before \ {"open_shm"}) \cup {"read"} => to = "killed"
    BY <1>2, <1>4
  <2>4. /\ to \in PairPoint \ {"open_shm", "shmat", "star"} /\ pat[p] \in Pair!Live \ {"open_shm"}
        /\ to \in Before => pat[p] \in Before
        /\ to \in Within => \/ p = "server" /\ to = "write" /\ pat[p] = "lock_sem"
                            \/ p = "client" /\ to = "read" /\ pat[p] = "lock_sem"
                            \/ p = "server" /\ to = "unlock_sem" /\ pat[p] = "write" /\ pos[p] = PairLetters
                            \/ p = "client" /\ to = "unlock_sem" /\ pat[p] = "star"
        /\ to = "poll" => p = "server" /\ pat[p] = "unlock_sem"
    BY <1>4
  <2> HIDE DEF Before, Within, PairPoint, Pair!Live, Pair!Program
  <2> QED
    BY <1>4, <2>1, <2>2, <2>3, <2>4, MoveKeepsMessage
<1>5. CASE Pair!Attach(p)
  <2>1. UNCHANGED <<order, segment, shm, cell, pos, printed>>
    BY <1>5 DEF Pair!Attach, Pair!objects, Pair!data
  <2> QED
    BY <1>3, <1>4, <1>5, <2>1 DEF Pair!Attach, Pair!Goto
<1>6. CASE Pair!OpenSem(p)
  <2>1. UNCHANGED <<order, segment, shm, cell, pos, printed>>
    BY <1>6 DEF Pair!OpenSem, Pair!data
  <2> QED
    BY <1>3, <1>4, <1>6, <2>1 DEF Pair!OpenSem, Pair!Goto
<1>7. CASE Pair!InitSem(p)
  <2>1. UNCHANGED <<order, segment, shm, cell, pos, printed>>
    BY <1>7 DEF Pair!InitSem, Pair!data
  <2> QED
    BY <1>3, <1>4, <1>7, <2>1 DEF Pair!InitSem, Pair!Goto
<1>8. CASE Pair!LockSem(p)
  <2>1. UNCHANGED <<order, segment, shm, cell, pos, printed>>
    BY <1>8 DEF Pair!LockSem, Pair!data
  <2> QED
    BY <1>3, <1>4, <1>8, <2>1 DEF Pair!LockSem, Pair!Goto
<1>9. CASE Pair!UnlockSem(p)
  <2>1. UNCHANGED <<order, segment, shm, cell, pos, printed>>
    BY <1>9 DEF Pair!UnlockSem, Pair!data
  <2>2. Pair!Fail(p, "unlock_sem", -5, "free_sem") => MessageInv'
    BY <1>3, <2>1
  <2> QED
    BY <1>3, <1>4, <1>9, <2>1, <2>2 DEF Pair!UnlockSem, Pair!Goto
<1>10. CASE Pair!FreeSem(p)
  BY <1>4, <1>10 DEF Pair!FreeSem, Pair!Goto, Pair!data
<1>11. CASE Pair!FreeShm(p)
  <2>1. segment' \in 0 .. 3
    BY <1>1, <1>11, SMT DEF Pair!FreeShm, SegmentTypes
  <2> QED
    BY <1>4, <1>11, <2>1 DEF Pair!FreeShm, Pair!Goto, Pair!data
<1>12. CASE Pair!Kill(p)
  <2>1. /\ pat[p] \in Pair!Live \ {"open_shm"} /\ pat' = [pat EXCEPT ![p] = "killed"]
        /\ UNCHANGED <<order, ret, segment, shm, cell, pos, printed>>
    BY <1>12 DEF Pair!Kill, Pair!Started, Pair!data
  <2> HIDE DEF Pair!Live
  <2> QED
    BY <1>4, <2>1
<1>13. CASE p = "server" /\ Pair!Terminate
  <2>1. shm["server"] \in 1 .. 3 /\ pat["server"] = "write"
    BY <1>1, <1>13, SMT DEF Pair!Terminate, Pair!Goto, SegmentTypes, Mapped
  <2>2. cell' = cell
    <3>1. PairLetters \in Pair!Cells /\ cell[shm["server"]][PairLetters] = Pair!NUL
      BY <1>1, <2>1, SMT DEF Mapped, Pair!Cells
    <3> QED
      BY <1>1, <1>13, <2>1, <3>1, SMT DEF Pair!Terminate, SegmentTypes
  <2> QED
    BY <1>4, <1>13, <2>2 DEF Pair!Terminate, Pair!Goto, Pair!objects
<1>14. CASE p = "server" /\ Pair!Poll
  BY <1>4, <1>14 DEF Pair!Poll, Pair!Goto, Pair!objects, Pair!data
<1> QED
  BY <1>5, <1>6, <1>7, <1>8, <1>9, <1>10, <1>11, <1>12, <1>13, <1>14

\* shmget: the client that comes late finds the segment of the server.
LEMMA OpenKeepsMessage == ASSUME PairInv, NEW p \in Pair!Program, Pair!OpenShm(p) PROVE MessageInv'
<1> USE SomeLetters DEF Pair!Program, PairPoint, Pair!Live, Before, Within
<1>1. /\ SegmentTypes /\ Mapped /\ LateClient /\ LateServer /\ Fresh /\ Copied /\ pat \in [Pair!Program -> PairPoint]
      /\ pat[p] = "open_shm" /\ UNCHANGED <<order, cell, pos, printed>>
  BY DEF PairInv, SemInv, SemTypes, Pair!OpenShm, Pair!Goto, Pair!Fail, Pair!data
<1>2. p = "server" /\ order = "late" => pat["client"] \notin (Before \ {"open_shm"}) \cup {"read"}
  BY <1>1 DEF LateClient
<1>3. CASE UNCHANGED <<segment, shm>> /\ pat' = [pat EXCEPT ![p] = "returned"] /\ ret' = [ret EXCEPT ![p] = -1]
  <2>1. SegmentTypes' /\ Mapped'
    <3>1. SegmentTypes'
      BY <1>1, <1>3, SMT DEF SegmentTypes
    <3>2. Mapped'
      BY <1>1, <1>3, SMT DEF SegmentTypes, Mapped
    <3> QED
      BY <3>1, <3>2
  <2>2. Fresh'
    BY <1>1, <1>3, SMT DEF Fresh
  <2>3. LateServer' /\ LateClient'
    <3>1. LateServer'
      BY <1>1, <1>3 DEF LateServer, Written
    <3>2. LateClient'
      BY <1>1, <1>2, <1>3 DEF LateClient, Written
    <3> QED
      BY <3>1, <3>2
  <2>4. Copied'
    <3>1. Pair!HasRead' => Pair!HasRead
      BY <1>1, <1>3, SMT DEF Pair!HasRead, SegmentTypes
    <3> QED
      BY <1>1, <1>3, <3>1 DEF Copied
  <2> QED
    BY <2>1, <2>2, <2>3, <2>4 DEF MessageInv
<1>4. CASE /\ pat' = [pat EXCEPT ![p] = "shmat"] /\ UNCHANGED ret /\ shm' = [shm EXCEPT ![p] = segment']
           /\ segment' = IF segment # 0 THEN segment ELSE IF shm[Pair!Other(p)] = 2 THEN 3 ELSE 2
  <2>1. segment' \in 1 .. 3 /\ shm'[p] = segment' /\ \A q \in Pair!Program : q # p => shm'[q] = shm[q]
    BY <1>1, <1>4, SMT DEF SegmentTypes
  <2>2. SegmentTypes'
    BY <1>1, <1>4, <2>1, SMT DEF SegmentTypes
  <2>3. Mapped'
    BY <1>1, <1>4, <2>1, SMT DEF Mapped
  <2>4. Fresh'
    <3>1. pos["server"] \in Nat /\ (p = "server" => pos["server"] = 0 /\ shm["server"] = 0)
      BY <1>1, SMT DEF Mapped, SegmentTypes
    <3>2. \A k \in Pair!Cells : ~(k < 0)
      BY SMT DEF Pair!Cells
    <3>3. pat["client"] \in Before \cup {"read"} <=> pat'["client"] \in Before \cup {"read"}
      BY <1>1, <1>4
    <3>4. CASE p = "server"
      BY <1>1, <3>1, <3>2, <3>3, <3>4 DEF Fresh
    <3>5. CASE p = "client"
      BY <1>1, <2>1, <3>3, <3>5 DEF Fresh
    <3> QED
      BY <3>4, <3>5
  <2>5. LateServer'
    BY <1>1, <1>4, <2>1, SMT DEF LateServer, Written
  <2>6. LateClient'
    <3>1. CASE p = "server"
      BY <1>1, <1>2, <1>4, <3>1 DEF LateClient
    <3>2. CASE p = "client" /\ order = "late"
      <4>1. pat["server"] = "poll"
        BY <3>2 DEF Pair!OpenShm, Pair!MayStart
      <4>2. segment = shm["server"] /\ shm["server"] # 0 /\ Written(shm["server"], PairLetters)
        BY <1>1, <3>2, <4>1 DEF LateServer, Mapped
      <4>3. shm'["client"] = shm["server"] /\ shm'["server"] = shm["server"] /\ pat'["server"] = "poll"
        BY <1>1, <1>4, <2>1, <3>2, <4>1, <4>2
      <4> QED
        BY <1>1, <4>2, <4>3 DEF LateClient, Written
    <3>3. CASE order # "late"
      BY <1>1, <3>3 DEF LateClient
    <3> QED
      BY <3>1, <3>2, <3>3
  <2>7. Copied'
    <3>1. pat["client"] = "open_shm" => pos["client"] = 0 /\ printed = <<>>
      BY <1>1 DEF Mapped
    <3>2. ~Pair!HasRead' \/ Pair!HasRead
      BY <1>1, <1>4 DEF Pair!HasRead
    <3>3. CASE p = "client"
      BY <1>1, <3>1, <3>2, <3>3, SMT DEF Copied
    <3>4. CASE p = "server"
      BY <1>1, <2>1, <3>2, <3>4 DEF Copied
    <3> QED
      BY <3>3, <3>4
  <2> QED
    BY <2>2, <2>3, <2>4, <2>5, <2>6, <2>7 DEF MessageInv
<1> QED
  BY <1>3, <1>4 DEF Pair!OpenShm, Pair!Goto, Pair!Fail

\* server.c writes the next letter.
LEMMA WriteKeepsMessage == ASSUME PairInv, Pair!Write PROVE MessageInv'
<1> USE SomeLetters DEF Pair!Program, PairPoint, Pair!Live, Before, Within
<1> DEFINE s == shm["server"]
           m == pos["server"]
<1>1. /\ SegmentTypes /\ Mapped /\ LateClient /\ LateServer /\ Fresh /\ Copied
      /\ pat["server"] = "write" /\ UNCHANGED <<order, pat, ret, segment, shm, printed>>
  BY DEF PairInv, Pair!Write, Pair!objects
<1>2. s \in 1 .. 3 /\ m \in 0 .. PairLetters - 1 /\ m \in Pair!Cells /\ m + 1 \in Pair!NUL .. Pair!Star
  <2>1. s \in 0 .. 3 /\ m \in 0 .. PairLetters
    BY <1>1 DEF SegmentTypes
  <2>2. s # 0
    BY <1>1 DEF Mapped
  <2>3. m < PairLetters
    BY DEF Pair!Write
  <2> HIDE DEF s, m
  <2> QED
    BY <2>1, <2>2, <2>3, SMT DEF Pair!Cells, Pair!NUL, Pair!Star
<1>3. cell' = [cell EXCEPT ![s][m] = m + 1] /\ pos' = [pos EXCEPT !["server"] = m + 1]
  BY <1>1, SMT DEF Pair!Write, SegmentTypes
<1>4. /\ \A g \in 1 .. 3, k \in Pair!Cells : cell'[g][k] = IF g = s /\ k = m THEN m + 1 ELSE cell[g][k]
      /\ pos'["server"] = m + 1 /\ pos'["client"] = pos["client"]
  BY <1>1, <1>2, <1>3, Zenon DEF SegmentTypes
<1>5. SegmentTypes'
  <2>1. cell' \in [1 .. 3 -> [Pair!Cells -> Pair!NUL .. Pair!Star]]
    BY <1>1, <1>2, <1>3 DEF SegmentTypes
  <2>2. pos' \in [Pair!Program -> 0 .. PairLetters]
    BY <1>1, <1>2, <1>3, SMT DEF SegmentTypes
  <2> QED
    BY <1>1, <2>1, <2>2 DEF SegmentTypes
<1>6. Mapped'
  <2>1. \A g \in 1 .. 3 : cell'[g][PairLetters] = Pair!NUL
    BY <1>1, <1>2, <1>4, SMT DEF Mapped, Pair!Cells
  <2> QED
    BY <1>1, <1>4, <2>1 DEF Mapped
<1>7. Fresh'
  <2>1. ASSUME pat["client"] \in Before \cup {"read"}, NEW g \in 2 .. 3, NEW k \in Pair!Cells
        PROVE  cell'[g][k] = IF s = g /\ k < m + 1 THEN k + 1 ELSE Pair!NUL
    <3>1. cell[g][k] = IF s = g /\ k < m THEN k + 1 ELSE Pair!NUL
      BY <1>1, <2>1 DEF Fresh
    <3>2. cell'[g][k] = IF g = s /\ k = m THEN m + 1 ELSE cell[g][k]
      BY <1>4, SMT
    <3>3. k \in Int /\ m \in Int
      BY <1>2, SMT DEF Pair!Cells
    <3> HIDE DEF s, m
    <3> QED
      BY <3>1, <3>2, <3>3, SMT
  <2> QED
    BY <1>1, <1>4, <2>1 DEF Fresh
<1>8. LateServer'
  <2>1. ASSUME order = "late", pat["client"] = "open_shm" PROVE \A k \in 0 .. m : cell'[s][k] = k + 1
    <3>1. \A k \in 0 .. m - 1 : cell[s][k] = k + 1
      BY <1>1, <2>1 DEF LateServer, Written
    <3>2. \A k \in 0 .. m : k \in Pair!Cells /\ (k = m \/ k \in 0 .. m - 1)
      BY <1>2, SMT DEF Pair!Cells
    <3> QED
      BY <1>2, <1>4, <3>1, <3>2
  <2>2. (m + 1) - 1 = m
    BY <1>2, SMT
  <2>3. order = "late" /\ pat["client"] = "open_shm" => segment = shm["server"]
    BY <1>1 DEF LateServer
  <2> QED
    BY <1>1, <1>4, <2>1, <2>2, <2>3 DEF LateServer, Written
<1>9. LateClient'
  BY <1>1 DEF LateClient
<1>10. Copied'
  BY <1>1, <1>4 DEF Copied, Pair!HasRead
<1> QED
  BY <1>5, <1>6, <1>7, <1>8, <1>9, <1>10 DEF MessageInv

\* client.c reads the next letter, or has come to the zero.
LEMMA ReadKeepsMessage == ASSUME PairInv, Pair!Read PROVE MessageInv'
<1> USE SomeLetters DEF Pair!Program, PairPoint, Pair!Live, Before, Within
<1> DEFINE s == shm["client"]
           m == pos["client"]
           c == cell[s][m]
<1>1. /\ SegmentTypes /\ Mapped /\ LateClient /\ LateServer /\ Fresh /\ Copied /\ pat \in [Pair!Program -> PairPoint]
      /\ pat["client"] = "read" /\ UNCHANGED <<order, ret, segment, shm, cell>>
  BY DEF PairInv, SemInv, SemTypes, Pair!Read, Pair!objects
<1>2. s \in 1 .. 3 /\ m \in 0 .. PairLetters /\ m \in Pair!Cells /\ c \in 0 .. Pair!Star
  BY <1>1, SMT DEF SegmentTypes, Mapped, Pair!Cells
<1>3. m = PairLetters => c = Pair!NUL
  BY <1>1, <1>2 DEF Mapped
<1>4. order = "late" => c = IF m < PairLetters THEN m + 1 ELSE 0
  <2>1. order = "late" /\ m < PairLetters => c = m + 1
    <3>1. m < PairLetters => m \in 0 .. PairLetters - 1
      BY <1>2, SMT
    <3> QED
      BY <1>1, <3>1 DEF LateClient, Written
  <2>2. m < PairLetters \/ m = PairLetters
    BY <1>2, SMT
  <2> QED
    BY <1>3, <2>1, <2>2
<1>5. order = "late" \/ s # 1 => c = 0 \/ c = m + 1
  <2>1. s # 1 => s \in 2 .. 3
    BY <1>2, SMT
  <2>2. s # 1 => c = 0 \/ c = m + 1
    BY <1>1, <1>2, <2>1 DEF Fresh
  <2> QED
    BY <1>4, <2>2
<1>6. CASE c = Pair!NUL
  <2>1. pat' = [pat EXCEPT !["client"] = "star"] /\ UNCHANGED <<pos, printed>>
    BY <1>6 DEF Pair!Read
  <2>2. SegmentTypes' /\ Mapped'
    <3>1. SegmentTypes'
      BY <1>1, <2>1 DEF SegmentTypes
    <3>2. Mapped'
      BY <1>1, <2>1, SMT DEF Mapped
    <3> QED
      BY <3>1, <3>2
  <2>3. Fresh' /\ LateServer' /\ LateClient'
    BY <1>1, <2>1 DEF Fresh, LateServer, LateClient
  <2>4. order = "late" => m = PairLetters
    BY <1>2, <1>4, <1>6, SMT
  <2>5. Copied'
    BY <1>1, <2>1, <2>4 DEF Copied
  <2> QED
    BY <2>2, <2>3, <2>5 DEF MessageInv
<1>7. CASE c # Pair!NUL
  <2>1. pat' = pat /\ pos' = [pos EXCEPT !["client"] = m + 1] /\ printed' = Append(printed, c)
    BY <1>1, <1>7, SMT DEF Pair!Read, SegmentTypes
  <2>2. m \in 0 .. PairLetters - 1 /\ c \in 1 .. Pair!Star
    <3>1. m # PairLetters
      BY <1>3, <1>7
    <3>2. m \in 0 .. PairLetters /\ c \in 0 .. Pair!Star /\ c # 0
      BY <1>2, <1>7
    <3> HIDE DEF m, c
    <3> QED
      BY <3>1, <3>2, SMT
  <2>3. pos'["client"] = m + 1 /\ pos'["server"] = pos["server"]
    BY <1>1, <2>1 DEF SegmentTypes
  <2>4. SegmentTypes' /\ Mapped'
    <3>1. pos' \in [Pair!Program -> 0 .. PairLetters]
      <4>1. m + 1 \in 0 .. PairLetters
        <5>1. m \in 0 .. PairLetters - 1
          BY <2>2
        <5> HIDE DEF m
        <5> QED
          BY <5>1, SMT
      <4>2. pos \in [Pair!Program -> 0 .. PairLetters] /\ pos' = [pos EXCEPT !["client"] = m + 1]
        BY <1>1, <2>1 DEF SegmentTypes
      <4> HIDE DEF m
      <4> QED
        BY <4>1, <4>2
    <3>2. printed' \in Seq(1 .. Pair!Star)
      <4>1. printed \in Seq(1 .. Pair!Star)
        BY <1>1 DEF SegmentTypes
      <4> HIDE DEF c
      <4> QED
        BY <2>1, <2>2, <4>1, SMT
    <3> QED
      BY <1>1, <2>1, <2>3, <3>1, <3>2 DEF SegmentTypes, Mapped
  <2>5. Fresh' /\ LateServer' /\ LateClient'
    BY <1>1, <2>1, <2>3 DEF Fresh, LateServer, LateClient, Written
  <2>6. Copied'
    <3>1. ~Pair!HasRead'
      BY <1>1, <2>1 DEF Pair!HasRead
    <3>2. ASSUME order = "late" \/ s # 1
          PROVE  Len(printed') = m + 1 /\ \A k \in 1 .. m + 1 : printed'[k] = k
      <4>1. Len(printed) = m /\ \A k \in 1 .. m : printed[k] = k
        BY <1>1, <3>2 DEF Copied
      <4>2. c = m + 1
        BY <1>5, <1>7, <3>2
      <4>3. printed \in Seq(1 .. Pair!Star) /\ m \in Nat
        BY <1>1, <1>2, SMT DEF SegmentTypes
      <4> HIDE DEF c, m
      <4>4. Len(printed') = m + 1 /\ printed'[m + 1] = c /\ \A k \in 1 .. m : printed'[k] = printed[k]
        BY <2>1, <2>2, <4>1, <4>3, SMT
      <4> QED
        BY <4>1, <4>2, <4>3, <4>4, SMT
    <3> QED
      BY <1>1, <2>3, <3>1, <3>2 DEF Copied
  <2> QED
    BY <2>4, <2>5, <2>6 DEF MessageInv
<1> QED
  BY <1>6, <1>7

\* client.c writes the star; from then on nobody reads.
LEMMA StarKeepsMessage == ASSUME PairInv, Pair!WriteStar PROVE MessageInv'
<1> USE SomeLetters DEF Pair!Program, PairPoint, Pair!Live, Before, Within
<1> DEFINE s == shm["client"]
<1>1. /\ SegmentTypes /\ Mapped /\ Copied /\ pat \in [Pair!Program -> PairPoint]
      /\ pat["client"] = "star" /\ pat' = [pat EXCEPT !["client"] = "unlock_sem"]
      /\ UNCHANGED <<order, ret, segment, shm, pos, printed>> /\ cell' = [cell EXCEPT ![s][0] = Pair!Star]
  BY DEF PairInv, SemInv, SemTypes, Pair!WriteStar, Pair!Goto, Pair!objects
<1>2. s \in 1 .. 3 /\ 0 \in Pair!Cells /\ PairLetters \in Pair!Cells /\ PairLetters # 0 /\ Pair!Star \in Pair!NUL .. Pair!Star
  BY <1>1, SMT DEF SegmentTypes, Mapped, Pair!Cells
<1>3. SegmentTypes'
  <2>1. cell' \in [1 .. 3 -> [Pair!Cells -> Pair!NUL .. Pair!Star]]
    BY <1>1, <1>2 DEF SegmentTypes
  <2> QED
    BY <1>1, <2>1 DEF SegmentTypes
<1>4. \A g \in 1 .. 3 : cell'[g][PairLetters] = Pair!NUL
  BY <1>1, <1>2, Zenon DEF SegmentTypes, Mapped
<1>5. Mapped'
  BY <1>1, <1>4, SMT DEF Mapped
<1>6. Fresh' /\ LateServer' /\ LateClient'
  BY <1>1 DEF Fresh, LateServer, LateClient
<1>7. Pair!HasRead' => Pair!HasRead
  BY <1>1 DEF Pair!HasRead, Mapped
<1>8. Copied'
  BY <1>1, <1>7 DEF Copied
<1> QED
  BY <1>3, <1>5, <1>6, <1>8 DEF MessageInv

\* Every step of the pair keeps the invariant.
LEMMA PairStep == PairInv /\ [Pair!Next]_(Pair!vars) => PairInv'
<1> SUFFICES ASSUME PairInv, [Pair!Next]_(Pair!vars) PROVE PairInv'
    OBVIOUS
<1>1. SemInv'
  BY SemStep DEF PairInv
<1>2. CASE UNCHANGED Pair!vars
  BY <1>1, <1>2 DEF Pair!vars, PairInv, SegmentTypes, Mapped, Fresh, LateServer, LateClient, Written, Copied,
     Pair!HasRead
<1>3. CASE Pair!Next
  <2>1. MessageInv'
    BY <1>3, CallsKeepMessage, OpenKeepsMessage, WriteKeepsMessage, ReadKeepsMessage, StarKeepsMessage
       DEF Pair!Next, Pair!Run
  <2> QED
    BY <1>1, <2>1 DEF PairInv, MessageInv
<1> QED
  BY <1>2, <1>3

\* The first letters of the message are a beginning of it, and all of them are the message.
LEMMA PairWhole == PairInv => Pair!MessageWhole
<1> SUFFICES ASSUME PairInv, Pair!HasRead, order = "late" \/ shm["client"] # 1
    PROVE  /\ Pair!IsPrefix(printed, Pair!Message)
           /\ order = "late" => printed = Pair!Message
  BY DEF Pair!MessageWhole, PairInv, SegmentTypes
<1> DEFINE m == pos["client"]
<1>1. /\ m \in 0 .. PairLetters /\ Len(printed) = m /\ \A k \in 1 .. m : printed[k] = k
      /\ printed \in Seq(1 .. Pair!Star) /\ (order = "late" => m = PairLetters)
  BY DEF PairInv, SegmentTypes, Copied, Pair!Program
<1> HIDE DEF m
<1>2. /\ Pair!Message \in Seq(1 .. Pair!Star) /\ Len(Pair!Message) = PairLetters
      /\ \A k \in 1 .. PairLetters : Pair!Message[k] = k
  <2>1. \A k \in 1 .. PairLetters : k \in 1 .. Pair!Star
    BY SomeLetters, SMT
  <2>2. [k \in 1 .. PairLetters |-> k] \in Seq(1 .. Pair!Star) /\ Len([k \in 1 .. PairLetters |-> k]) = PairLetters
    BY <2>1, SomeLetters, SMT
  <2> QED
    BY <2>2 DEF Pair!Message
<1>3. \A k \in 1 .. m : k \in 1 .. PairLetters /\ 1 + k - 1 = k /\ k \in 1 .. m - 1 + 1
  BY <1>1, SomeLetters, SMT
<1>4. SubSeq(printed, 1, m) = SubSeq(Pair!Message, 1, m)
  <2>1. /\ \A k \in 1 .. m : printed[k] \in 1 .. Pair!Star /\ Pair!Message[k] \in 1 .. Pair!Star
        /\ m \in Int
    <3>1. \A k \in 1 .. m : k \in 1 .. Pair!Star
      BY <1>1, SomeLetters, SMT
    <3> QED
      BY <1>1, <1>2, <1>3, <3>1, SMT
  <2>2. /\ SubSeq(printed, 1, m) \in Seq(1 .. Pair!Star)
        /\ Len(SubSeq(printed, 1, m)) = IF 1 <= m THEN m - 1 + 1 ELSE 0
        /\ \A k \in 1 .. m - 1 + 1 : SubSeq(printed, 1, m)[k] = printed[1 + k - 1]
    BY <2>1, SubSeqProperties
  <2>3. /\ SubSeq(Pair!Message, 1, m) \in Seq(1 .. Pair!Star)
        /\ Len(SubSeq(Pair!Message, 1, m)) = IF 1 <= m THEN m - 1 + 1 ELSE 0
        /\ \A k \in 1 .. m - 1 + 1 : SubSeq(Pair!Message, 1, m)[k] = Pair!Message[1 + k - 1]
    BY <2>1, SubSeqProperties
  <2>4. (IF 1 <= m THEN m - 1 + 1 ELSE 0) = m
    BY <1>1, SomeLetters, SMT
  <2>5. \A k \in 1 .. m : SubSeq(printed, 1, m)[k] = SubSeq(Pair!Message, 1, m)[k]
    BY <1>1, <1>2, <1>3, <2>2, <2>3
  <2> QED
    BY <2>2, <2>3, <2>4, <2>5, SeqEqual
<1>5. Pair!IsPrefix(printed, Pair!Message)
  BY <1>1, <1>2, <1>4, SomeLetters, SMT DEF Pair!IsPrefix
<1>6. order = "late" => printed = Pair!Message
  BY <1>1, <1>2, SeqEqual
<1> QED
  BY <1>5, <1>6

-----------------------------------------------------------------------------
\* For words and messages of every length and every set of calls that may fail, each line of the
\* reader of 05.sharedMemory is made of whole words unless a writer died in its word, and the
\* client of 03.sharemem_comm that comes late prints the whole message, one that comes early a
\* beginning of it.
THEOREM PrintedIsWhole == MCSpec => []PrintedWhole
<1>1. MCInit => LineInv /\ PairInv
  BY LineInit, PairInit DEF MCInit
<1>2. LineInv /\ PairInv /\ [MCNext]_<<running, vars, pair, threads>> => (LineInv /\ PairInv)'
  BY LineStep, PairStep, Parts
<1>3. LineInv /\ PairInv => PrintedWhole
  BY LineWhole, PairWhole DEF PrintedWhole
<1> QED
  BY <1>1, <1>2, <1>3, PTL DEF MCSpec

-----------------------------------------------------------------------------
\* cnt and what is about to be stored never exceed the iterations that are done, and this one.
AtMost ==
  /\ cnt <= ti[1] + ti[2]
  /\ \A t \in Threads!Thread : tat[t] = "store" => tmp[t] <= ti[1] + ti[2] + 1
\* cnt is 1 from the first store on, and what a thread stores after its first iteration is at
\* least 2, so the last store of all leaves at least 2.
AtLeast ==
  /\ ti[1] + ti[2] > 0 => cnt >= 1
  /\ ti[1] = Iter /\ ti[2] = Iter => cnt >= 2
  /\ \A t \in Threads!Thread :
       tat[t] = "store" => tmp[t] >= 1 /\ ti[t] < Iter /\ (ti[t] > 0 => tmp[t] >= 2)
\* How far the threads are when main has come so far.
Joined ==
  /\ main \in {"join1", "join2"} => \A t \in Threads!Thread : tat[t] = "done" => ti[t] = Iter
  /\ main \in {"create1", "create2"} => tat[2] = "none" /\ ti[2] = 0
  /\ main \in {"create1", "create2"} /\ tat[1] = "done" => ti[1] = Iter
  /\ main = "create1" => tat[1] = "none" /\ ti[1] = 0
  /\ main = "join2" => tat[1] = "done"
  /\ main = "printed" => \A t \in Threads!Thread : tat[t] = "done" /\ ti[t] = Iter
\* The inductive invariant.
CountInv == Threads!TypeOK /\ AtMost /\ AtLeast /\ Joined

\* The invariant holds at the start.
LEMMA CounterInit == Threads!Init => CountInv
BY FirstSharedAssumption, SMT DEF Threads!CounterAssumption, Threads!Init, CountInv, Threads!TypeOK,
   AtMost, AtLeast, Joined, Threads!Thread

\* Every step preserves it.
LEMMA CounterStep == CountInv /\ [Threads!Next]_(Threads!vars) => CountInv'
<1> SUFFICES ASSUME CountInv, [Threads!Next]_(Threads!vars) PROVE CountInv'
    OBVIOUS
<1> USE FirstSharedAssumption DEF Threads!CounterAssumption, CountInv, Threads!TypeOK, AtMost, AtLeast,
    Joined, Threads!Thread
<1>1. CASE Threads!Create(1, "create1", "create2")
  BY <1>1, SMT DEF Threads!Create
<1>2. CASE Threads!Create(2, "create2", "join1")
  BY <1>2, SMT DEF Threads!Create
<1>3. CASE Threads!Join(1, "join1", "join2")
  BY <1>3, SMT DEF Threads!Join
<1>4. CASE Threads!Join(2, "join2", "printed")
  BY <1>4, SMT DEF Threads!Join
<1>5. ASSUME NEW t \in Threads!Thread, Threads!Load(t) PROVE CountInv'
  BY <1>5, SMT DEF Threads!Load
<1>6. ASSUME NEW t \in Threads!Thread, Threads!Store(t) PROVE CountInv'
  BY <1>6, SMT DEF Threads!Store
<1>7. ASSUME NEW t \in Threads!Thread, Threads!Return(t) PROVE CountInv'
  BY <1>7, SMT DEF Threads!Return
<1>8. CASE UNCHANGED Threads!vars
  BY <1>8, SMT DEF Threads!vars
<1> QED
  BY <1>1, <1>2, <1>3, <1>4, <1>5, <1>6, <1>7, <1>8 DEF Threads!Next, Threads!Main

\* The invariant gives the bounds.
LEMMA CounterBound == CountInv => CounterBounds
BY FirstSharedAssumption, SMT DEF Threads!CounterAssumption, CountInv, Threads!TypeOK, AtMost, AtLeast,
   Joined, Threads!Thread, CounterBounds, Threads!CounterBounds

\* For every number of iterations, what main.c of 01.cnt prints lies between 2 and 2 * ITER.
THEOREM CounterIsBounded == MCSpec => []CounterBounds
<1>1. MCInit => CountInv
  BY CounterInit DEF MCInit
<1>2. CountInv /\ [MCNext]_<<running, vars, pair, threads>> => CountInv'
  BY CounterStep, Parts
<1> QED
  BY <1>1, <1>2, CounterBound, PTL DEF MCSpec

-----------------------------------------------------------------------------
\* The types of the three programs hold in every reachable state: in particular the semaphore of
\* the writers never exceeds one, and that of the pair, which both set, never exceeds two.
THEOREM SharedTypes == MCSpec => []Types
<1>1. MCInit => LineInv /\ PairInv /\ CountInv
  BY LineInit, PairInit, CounterInit DEF MCInit
<1>2. LineInv /\ PairInv /\ CountInv /\ [MCNext]_<<running, vars, pair, threads>> =>
        (LineInv /\ PairInv /\ CountInv)'
  BY LineStep, PairStep, CounterStep, Parts
<1>3. LineInv /\ PairInv /\ CountInv => Types
  BY DEF LineInv, PairInv, SemInv, SemTypes, SegmentTypes, PairPoint, CountInv, Types, Pair!TypeOK
<1> QED
  BY <1>1, <1>2, <1>3, PTL DEF MCSpec
=============================================================================
