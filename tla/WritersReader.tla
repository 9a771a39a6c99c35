---------------------------- MODULE WritersReader ----------------------------
(***************************************************************************)
(* Code/learning/6prednaska/05.sharedMemory: main.c creates a buffer, an   *)
(* offset and a semaphore and starts write1, write2 and reader.  A writer  *)
(* puts its word behind what is in the buffer, the reader prints the       *)
(* buffer again and again, each under the semaphore.  SIGINT (CTRL-C) to   *)
(* all of them or SIGTERM to one of them ends the programs.                *)
(* A signal is delivered before the next system call of the process that   *)
(* gets it, so nobody who is to die can step while a handler that has sent *)
(* the signal goes on: a handler is one step.  A call and the assignment   *)
(* of its result are one step too.                                         *)
(***************************************************************************)
EXTENDS Integers, Sequences, FiniteSets

CONSTANTS
  Letters,    \* letters of a word: 'a' .. 'z' and 'A' .. 'Z'
  MayFail     \* calls that may fail: "fork", "exec"

ASSUME WritersAssumption ==
  /\ Letters \in Nat \ {0}
  /\ MayFail \subseteq {"fork", "exec"}

VARIABLES
  at,       \* where each process is
  pend,     \* its pending signals
  execed,   \* the children that run a program of their own
  known,    \* the children whose pids a process has in pidG, pidC, pidT
  key,      \* the object each key names, 0 if none
  id,       \* shmid, shmid1 and sem of each process
  buffer, offset, val, undo,    \* contents of the objects
  n,        \* how far a writer has written or the reader has read
  line,     \* what the reader has put on its line
  signalled \* has a signal come from outside?

vars == <<at, pend, execed, known, key, id, buffer, offset, val, undo, n, line, signalled>>
content == <<buffer, offset, val, undo>>
data == <<n, line>>
sigs == <<pend, execed, known, signalled>>

Writer == {"write1", "write2"}
Child == Writer \cup {"reader"}
Process == {"main"} \cup Child
Object == {"mem", "offset", "sem"}
Gen == 1 .. 2                               \* a key is created at most twice
Place == 0 .. 2 * Letters + 1
NUL == 0
Letter(w, i) == IF w = "write1" THEN i + 1 ELSE Letters + i + 1
Word(w) == [i \in 1 .. Letters |-> Letter(w, i - 1)]

Dead == {"zombie", "reaped"}
Inside == {"write", "terminate", "print", "unlock"}   \* between lock_semaphore and unlock_semaphore
Alive(p) == at[p] \notin {"unborn"} \cup Dead
AllDead == \A p \in Process : ~Alive(p)

\* Processes, signals, objects and the letters are in their ranges.  The semaphore
\* never exceeds one: nobody opens it twice and SETALL comes before the forks.
TypeOK ==
  /\ at \in [Process -> {"unborn", "start", "init", "clear", "fork1", "fork2", "fork3", "wait",
                         "fail", "forked", "lock", "exit"} \cup Dead \cup Inside]
  /\ pend \in [Process -> SUBSET {"INT", "TERM", "CHLD"}]
  /\ execed \subseteq Child /\ known \in [Process -> SUBSET Child]
  /\ key \in [Object -> {0} \cup Gen] /\ id \in [Process -> [Object -> {0} \cup Gen]]
  /\ buffer \in [Gen -> [Place -> NUL .. 2 * Letters]]
  /\ offset \in [Gen -> 0 .. 2 * Letters]
  /\ val \in [Gen -> 0 .. 1] /\ undo \in [Gen -> [Process -> 0 .. 1]]
  /\ n \in [Child -> Place]
  /\ line \in Seq(1 .. 2 * Letters)
  /\ signalled \in BOOLEAN

\* An earlier run that was killed may have left its objects behind.
Full == [i \in Place |-> IF i < 2 * Letters THEN i + 1 ELSE NUL]

Init ==
  /\ at = [p \in Process |-> IF p = "main" THEN "start" ELSE "unborn"]
  /\ pend = [p \in Process |-> {}]
  /\ execed = {} /\ known = [p \in Process |-> {}]
  /\ id = [p \in Process |-> [o \in Object |-> 0]]
  /\ \E old \in {0, 1} :
       /\ key = [o \in Object |-> old]
       /\ buffer = [g \in Gen |-> IF g = old THEN Full ELSE [i \in Place |-> NUL]]
       /\ offset = [g \in Gen |-> IF g = old THEN 2 * Letters ELSE 0]
  /\ val = [g \in Gen |-> 0] /\ undo = [g \in Gen |-> [p \in Process |-> 0]]
  /\ n = [p \in Child |-> 0]
  /\ line = <<>>
  /\ signalled = FALSE

-----------------------------------------------------------------------------
\* Processes and signals.
Ready(p, from) == at[p] = from /\ pend[p] = {}
Goto(p, from, to) == Ready(p, from) /\ at' = [at EXCEPT ![p] = to]

\* kill(pid, s) for every pid of targets
Send(pending, s, targets) ==
  [p \in Process |-> IF p \in targets /\ Alive(p) THEN pending[p] \cup {s} ELSE pending[p]]

\* The end of p: SEM_UNDO gives back what p holds, the parent gets SIGCHLD.
Ends(p, pending) ==
  /\ at' = [at EXCEPT ![p] = IF p # "main" /\ Alive("main") THEN "zombie" ELSE "reaped"]
  /\ pend' = [Send(pending, "CHLD", {"main"}) EXCEPT ![p] = {}]
  /\ val' = [g \in Gen |-> val[g] + undo[g][p]]
  /\ undo' = [g \in Gen |-> [undo[g] EXCEPT ![p] = 0]]
  /\ UNCHANGED <<execed, known, id, buffer, offset, data, signalled>>

Exit(p) == Ready(p, "exit") /\ Ends(p, pend) /\ UNCHANGED key

\* free_shared_mem, free_shared_offset, free_semaphor; an id of 0 names no object of
\* these programs.
FreeObjects(p) == key' = [o \in Object |-> IF key[o] = id[p][o] THEN 0 ELSE key[o]]

\* CTRL-C at the terminal, or SIGTERM from another program to one of the processes.
Signal ==
  /\ ~signalled
  /\ \/ Alive("main") /\ pend' \in {Send(pend, "INT", Process), Send(pend, "TERM", {"main"})}
     \/ \E c \in Child : Alive(c) /\ pend' = Send(pend, "TERM", {c})
  /\ signalled' = TRUE
  /\ UNCHANGED <<at, execed, known, key, id, content, data>>

Takes(p, s) == Alive(p) /\ s \in pend[p] /\ (s = "TERM" => "INT" \notin pend[p])
\* Before the calls of signal(), and for SIGINT in the children.
Default(p, s) == at[p] = "start" \/ (s = "INT" /\ p \in execed)

Killed(p, s) == Takes(p, s) /\ Default(p, s) /\ Ends(p, pend) /\ UNCHANGED key

\* default_signal_handler of write1.c and write2.c, and of reader.c.
ChildHandler(p) ==
  /\ Takes(p, "TERM") /\ ~Default(p, "TERM") /\ p \in execed
  /\ IF p \in Writer THEN UNCHANGED key ELSE FreeObjects(p)
  /\ Ends(p, pend)

\* Slip: the parent does not end its children.
MainHandlerSpares(p, s) ==
  /\ Takes(p, s) /\ ~Default(p, s) /\ p \notin execed
  /\ FreeObjects(p)
  /\ Ends(p, pend)

\* default_signal_handler of main.c, also in a child that has not exec'ed yet.  A pid
\* that is still 0 stands for the whole group.
MainHandler(p, s) ==
  /\ Takes(p, s) /\ ~Default(p, s) /\ p \notin execed
  /\ FreeObjects(p)
  /\ Ends(p, Send(pend, "TERM", IF known[p] = Child THEN Child ELSE Process))

\* child_exit_handler: waitpid(0, &status, WNOHANG)
ChildExit ==
  /\ Alive("main") /\ pend["main"] = {"CHLD"}
  /\ \/ \E c \in Child : at[c] = "zombie" /\ at' = [at EXCEPT ![c] = "reaped"]
     \/ (\A c \in Child : at[c] # "zombie") /\ UNCHANGED at
  /\ pend' = [pend EXCEPT !["main"] = {}]
  /\ UNCHANGED <<execed, known, signalled, key, id, content, data>>

-----------------------------------------------------------------------------
\* The calls of signal(), then alloc_shared_mem, alloc_shared_offset and alloc_semaphor,
\* which create what the key does not name.
Start(p) ==
  /\ Goto(p, "start", IF p = "main" THEN "init" ELSE "lock")
  /\ key' = [o \in Object |-> IF key[o] # 0 THEN key[o] ELSE IF id["main"][o] = 0 THEN 1 ELSE 2]
  /\ id' = [id EXCEPT ![p] = key']
  /\ UNCHANGED <<sigs, content, data>>

\* On a set that has been removed semop fails, and the process exits.
SemGone(p) == key["sem"] # id[p]["sem"]

\* Slip: the lock does not wait.
LockNoWait(p) ==
  /\ Goto(p, "lock", IF p \in Writer THEN "write" ELSE "print")
  /\ UNCHANGED <<sigs, key, id, content, data>>

Lock(p) ==
  /\ Ready(p, "lock")
  /\ IF SemGone(p) THEN at' = [at EXCEPT ![p] = "exit"] /\ UNCHANGED <<val, undo>>
     ELSE /\ val[id[p]["sem"]] > 0
          /\ at' = [at EXCEPT ![p] = IF p \in Writer THEN "write" ELSE "print"]
          /\ val' = [val EXCEPT ![id[p]["sem"]] = @ - 1]
          /\ undo' = [undo EXCEPT ![id[p]["sem"]][p] = @ + 1]
  /\ UNCHANGED <<sigs, key, id, buffer, offset, data>>

Unlock(p) ==
  /\ Ready(p, "unlock")
  /\ IF SemGone(p) THEN at' = [at EXCEPT ![p] = "exit"] /\ UNCHANGED <<val, undo>>
     ELSE /\ at' = [at EXCEPT ![p] = IF p \in Writer THEN "exit" ELSE "lock"]
          /\ val' = [val EXCEPT ![id[p]["sem"]] = @ + 1]
          /\ undo' = [undo EXCEPT ![id[p]["sem"]][p] = @ - 1]
  /\ line' = IF p = "reader" THEN <<>> ELSE line
  /\ n' = IF p = "reader" THEN [n EXCEPT ![p] = 0] ELSE n
  /\ UNCHANGED <<sigs, key, id, buffer, offset>>

-----------------------------------------------------------------------------
\* main.c
InitSemaphor ==
  /\ Goto("main", "init", "clear")
  /\ val' = [val EXCEPT ![id["main"]["sem"]] = 1]
  /\ UNCHANGED <<sigs, key, id, buffer, offset, undo, data>>

\* clear_data clears an int, clear_offset the offset.
Clear ==
  /\ Goto("main", "clear", "fork1")
  /\ buffer' = [buffer EXCEPT ![id["main"]["mem"]] = [i \in Place |-> IF i < 4 THEN NUL ELSE @[i]]]
  /\ offset' = [offset EXCEPT ![id["main"]["offset"]] = 0]
  /\ UNCHANGED <<sigs, key, id, val, undo, data>>

Fork(c, from, to) ==
  /\ Ready("main", from)
  /\ \/ /\ at' = [at EXCEPT !["main"] = to, ![c] = "forked"]
        /\ id' = [id EXCEPT ![c] = id["main"]]
        /\ known' = [known EXCEPT ![c] = known["main"], !["main"] = @ \cup {c}]
     \/ "fork" \in MayFail /\ at' = [at EXCEPT !["main"] = "fail"] /\ UNCHANGED <<id, known>>
  /\ UNCHANGED <<pend, execed, signalled, key, content, data>>

\* Only the buffer is removed; the children live on.
ForkFailed ==
  /\ Goto("main", "fail", "exit")
  /\ key' = IF key["mem"] = id["main"]["mem"] THEN [key EXCEPT !["mem"] = 0] ELSE key
  /\ UNCHANGED <<sigs, id, content, data>>

Exec(c) ==
  /\ Ready(c, "forked")
  /\ \/ /\ at' = [at EXCEPT ![c] = "start"]
        /\ id' = [id EXCEPT ![c] = [o \in Object |-> 0]]
        /\ execed' = execed \cup {c}
     \/ "exec" \in MayFail /\ at' = [at EXCEPT ![c] = "exit"] /\ UNCHANGED <<id, execed>>
  /\ UNCHANGED <<pend, known, signalled, key, content, data>>

\* end(): while( wait( NULL ) != -1 ); then the objects are removed.
Wait ==
  /\ Ready("main", "wait")
  /\ \E c \in Child : at[c] = "zombie" /\ at' = [at EXCEPT ![c] = "reaped"]
  /\ UNCHANGED <<sigs, key, id, content, data>>

End ==
  /\ Ready("main", "wait")
  /\ \A c \in Child : at[c] = "reaped"
  /\ FreeObjects("main")
  /\ Ends("main", pend)

-----------------------------------------------------------------------------
\* write1.c and write2.c: a letter at the shared offset, then the next one.
Write(w) ==
  LET o == id[w]["offset"] IN
  /\ Ready(w, "write")
  /\ buffer' = [buffer EXCEPT ![id[w]["mem"]][offset[o]] = Letter(w, n[w])]
  /\ offset' = [offset EXCEPT ![o] = @ + 1]
  /\ n' = [n EXCEPT ![w] = @ + 1]
  /\ at' = [at EXCEPT ![w] = IF n[w] + 1 = Letters THEN "terminate" ELSE "write"]
  /\ UNCHANGED <<sigs, key, id, val, undo, line>>

\* *(++s) = NULL: the cell behind the last letter, which is where the offset points.
Terminate(w) ==
  /\ Goto(w, "terminate", "unlock")
  /\ buffer' = [buffer EXCEPT ![id[w]["mem"]][offset[id[w]["offset"]]] = NUL]
  /\ n' = [n EXCEPT ![w] = @ + 1]
  /\ UNCHANGED <<sigs, key, id, offset, val, undo, line>>

\* reader.c: print the buffer up to the zero.
PrintBuffer ==
  LET c == buffer[id["reader"]["mem"]][n["reader"]] IN
  /\ Ready("reader", "print")
  /\ IF c = NUL THEN at' = [at EXCEPT !["reader"] = "unlock"] /\ UNCHANGED data
     ELSE line' = Append(line, c) /\ n' = [n EXCEPT !["reader"] = @ + 1] /\ UNCHANGED at
  /\ UNCHANGED <<sigs, key, id, content>>

-----------------------------------------------------------------------------
Main ==
  \/ Start("main") \/ InitSemaphor \/ Clear
  \/ Fork("write1", "fork1", "fork2") \/ Fork("write2", "fork2", "fork3")
  \/ Fork("reader", "fork3", "wait") \/ ForkFailed \/ Wait \/ End \/ ChildExit

Run(p) ==
  \/ p = "main" /\ Main
  \/ p \in Child /\ (Exec(p) \/ Start(p) \/ Lock(p) \/ Unlock(p))
  \/ p \in Writer /\ (Write(p) \/ Terminate(p))
  \/ p = "reader" /\ PrintBuffer
  \/ Exit(p) \/ ChildHandler(p)
  \/ \E s \in {"INT", "TERM"} : Killed(p, s) \/ MainHandler(p, s)

Next == Signal \/ \E p \in Process : Run(p)

(***************************************************************************)
(* Every process runs on; the processes that wait for the semaphore are    *)
(* served in their order of arrival, so that the reader, which takes it    *)
(* again and again, does not keep a writer out for ever.  Nobody has to    *)
(* send a signal.                                                          *)
(***************************************************************************)
Spec == Init /\ [][Next]_vars
FairSpec == Spec /\ \A p \in Process : WF_vars(Run(p)) /\ (p # "main" => SF_vars(Lock(p)))

-----------------------------------------------------------------------------
\* A writer that died with its word begun and not ended.
Broken(w) == ~Alive(w) /\ n[w] \in 1 .. Letters

(***************************************************************************)
(* Only one process at a time uses the memory (README.txt:9), also when a  *)
(* writer is killed under the lock, and when the reader's handler removes  *)
(* the semaphore under a writer.                                           *)
(***************************************************************************)
OneAtATime == \A p, q \in Child : at[p] \in Inside /\ at[q] \in Inside => p = q

(***************************************************************************)
(* A line of the reader is made of whole words, each at most once (write1  *)
(* writes a .. z, write2 A .. Z: README.txt:5-7), whatever an earlier run  *)
(* left in the memory, unless a writer died within its word.               *)
(***************************************************************************)
LinesWhole ==
  at["reader"] = "unlock" =>
    \/ line \in {<<>>, Word("write1"), Word("write2"),
                 Word("write1") \o Word("write2"), Word("write2") \o Word("write1")}
    \/ \E w \in Writer : Broken(w)

(***************************************************************************)
(* After CTRL-C, or SIGTERM to the parent, every process ends and no       *)
(* object is left that the parent has created (README.txt:14,              *)
(* default_signal_handler).  A writer that waits for the parent's          *)
(* semaphore gets its turn or an error.                                    *)
(***************************************************************************)
ProgramEnds ==
  /\ {"INT", "TERM"} \cap pend["main"] # {} ~>
       AllDead /\ \A o \in Object : key[o] = id["main"][o] => key[o] = 0
  /\ \A w \in Writer : at[w] = "lock" /\ id[w]["sem"] = 1 ~> ~Alive(w)
=============================================================================
