----------------------------- MODULE DirCounter -----------------------------
(***************************************************************************)
(* spusti.c, which counts the regular files of every directory of a tree.  *)
(* Without an argument a forked child asks for the path and sends it       *)
(* through a fifo, and a handler waits for children whenever SIGCHLD       *)
(* comes, as the recursion does with wait(NULL).  Each directory but the   *)
(* first is listed by a process of its own, here named like its directory. *)
(***************************************************************************)
EXTENDS Integers, Sequences

CONSTANTS
  Dir, Root,   \* the directories, and the one whose path is given
  Subdir,      \* Subdir[d]: the subdirectories of d in the order of readdir (of Root: or none)
  MayFail,     \* calls that may fail: "fork", "mkfifo", "opendir"; "kill": the asker is killed
  MaxRounds    \* how often a path is given

asker == "asker"

\* What the module that instantiates this one assumes.
PathAssumption ==
  /\ Root \in Dir /\ Subdir \in [Dir -> Seq(Dir)]
  \* It is a tree: readdir finds every directory once, and the first one nowhere.
  /\ \A d, e \in Dir : \A i \in DOMAIN Subdir[d], j \in DOMAIN Subdir[e] :
       Subdir[d][i] # Root /\ (Subdir[d][i] = Subdir[e][j] => d = e /\ i = j)
  /\ asker \notin Dir
  /\ MayFail \subseteq {"fork", "mkfifo", "opendir", "kill"}
  /\ MaxRounds \in Nat \ {0}

VARIABLES
  arg,       \* has the path been given as an argument?
  at,        \* where each process is; Root is the first one
  leaf,      \* has the directory that was given no subdirectories?
  next,      \* the next subdirectory
  pend,      \* whose SIGCHLD is pending
  handling,  \* whose handler sleeps in wait
  status,    \* child_status of the first process: has a child failed?
  fifo,      \* is there a fifo in /tmp?
  sent,      \* has the path been written?
  died,      \* has the asker ended before it sent the path?
  refused,   \* has the first process ended because a call failed?
  lateChild, \* has SIGCHLD interrupted the reading of a path?
  overtaken, \* has SIGCHLD interrupted the first process's wait when the asker had ended? (history)
  round

vars == <<arg, at, leaf, next, pend, handling, status, fifo, sent, died, refused, lateChild, overtaken, round>>
signals == <<pend, handling, status>>
path == <<fifo, sent, died, refused, lateChild, overtaken, round>>

Sub(d) == IF d = Root /\ leaf THEN <<>> ELSE Subdir[d]
Process == Dir \cup {asker}
Child(d) == {Subdir[d][i] : i \in DOMAIN Subdir[d]} \cup IF d = Root THEN {asker} ELSE {}
Living(d) == {c \in Child(d) : at[c] \notin {"none", "zombie"}}
Zombie(d) == {c \in Child(d) : at[c] = "zombie"}

\* The processes are where the program can be; the directory read next is one of the list.
TypeOK ==
  /\ arg \in BOOLEAN /\ leaf \in BOOLEAN
  /\ at \in [Process -> {"none", "getpath", "status", "mkfifo", "open", "read", "ask", "unlink",
                         "write", "exit", "opendir", "list", "wait", "asleep",
                         "print", "prompt", "zombie"}]
  /\ next \in [Dir -> Nat] /\ \A d \in Dir : next[d] \in 1 .. Len(Subdir[d]) + 1
  /\ pend \subseteq Dir /\ handling \subseteq Dir /\ status \in BOOLEAN
  /\ fifo \in BOOLEAN /\ sent \in BOOLEAN
  /\ died \in BOOLEAN /\ refused \in BOOLEAN /\ lateChild \in BOOLEAN /\ overtaken \in BOOLEAN
  /\ round \in 1 .. MaxRounds

\* The fifo may be left from an earlier run.
Init ==
  /\ arg \in BOOLEAN /\ leaf \in BOOLEAN
  /\ at = [p \in Process |-> IF p # Root THEN "none" ELSE IF arg THEN "opendir" ELSE "getpath"]
  /\ next = [d \in Dir |-> 1]
  /\ pend = {} /\ handling = {} /\ status = FALSE
  /\ fifo \in BOOLEAN /\ sent = FALSE
  /\ died = FALSE /\ refused = FALSE /\ lateChild = FALSE /\ overtaken = FALSE /\ round = 1

-----------------------------------------------------------------------------
\* A pending SIGCHLD is handled before anything else.
Ready(p, from) == at[p] = from /\ p \notin handling /\ p \notin pend
Goto(p, from, to) == Ready(p, from) /\ at' = [at EXCEPT ![p] = to]

\* A child becomes a zombie until its parent waits; SIGCHLD has a handler only if there
\* was no argument.  Nobody waits for the children of the first process once it has ended.
Parent(p) == IF p = asker THEN Root ELSE CHOOSE d \in Dir : p \in Child(d)
Orphan(p) == p = Root \/ at[Parent(p)] \in {"none", "zombie"}
Ends(p) ==
  /\ at' = [at EXCEPT ![p] = IF Orphan(p) THEN "none" ELSE "zombie"]
  /\ pend' = (IF arg \/ Orphan(p) THEN pend ELSE pend \cup {Parent(p)}) \ {p}
  /\ UNCHANGED <<arg, leaf, next, handling, status>>
Exit(p) == Ready(p, "exit") /\ Ends(p) /\ UNCHANGED path

\* handler: wait.  If the first process sleeps in open, that fails and ends the program; if it
\* sleeps in scanf, buffer stays as it was and readDir gets whatever that is.  A read
\* of the fifo returns: the child that ends has written the path or closed its end.
Resumes(d) ==
  {at[d]} \cup (IF d = Root /\ at[d] = "open" THEN {"exit"} ELSE {})
         \cup (IF d = Root /\ at[d] = "prompt" THEN {"opendir"} ELSE {})
Reaps(d, c, to) ==
  /\ c \in Zombie(d)
  /\ at' = [at EXCEPT ![c] = "none", ![d] = to]
  /\ status' = IF d = Root THEN c = asker /\ died ELSE status

\* Slip: the handler does not wait.
HandlerReturns(d) ==
  /\ d \in pend \ handling /\ at[d] # "asleep"
  /\ pend' = pend \ {d}
  /\ \E to \in Resumes(d) :
       /\ lateChild' = (lateChild \/ (at[d] = "prompt" /\ to # at[d]))
       /\ at' = [at EXCEPT ![d] = to]
  /\ UNCHANGED <<arg, leaf, next, handling, status, fifo, sent, died, refused, overtaken, round>>

Handler(d) ==
  /\ d \in pend \ handling /\ at[d] # "asleep"
  /\ pend' = pend \ {d}
  /\ \E to \in Resumes(d) :
       /\ lateChild' = (lateChild \/ (at[d] = "prompt" /\ to # at[d]))
       /\ \/ /\ \E c \in Zombie(d) : Reaps(d, c, to)
             /\ UNCHANGED handling
          \/ /\ Zombie(d) = {}
             /\ at' = [at EXCEPT ![d] = to]
             /\ handling' = IF Living(d) = {} THEN handling ELSE handling \cup {d}
             /\ UNCHANGED status
  /\ UNCHANGED <<arg, leaf, next, fifo, sent, died, refused, overtaken, round>>

HandlerWaits(d) ==
  /\ d \in handling
  /\ \E c \in Zombie(d) : Reaps(d, c, at[d])
  /\ handling' = handling \ {d}
  /\ UNCHANGED <<arg, leaf, next, pend, path>>

-----------------------------------------------------------------------------
\* getPathFromChild.  The loop on child_status does not wait for anything, and
\* never ends if the child has failed.
GetPath ==
  \/ /\ Ready(Root, "getpath")
     /\ at' = [at EXCEPT ![Root] = "status", ![asker] = "ask"]
     /\ UNCHANGED <<arg, leaf, next, signals, path>>
  \/ /\ "fork" \in MayFail /\ Goto(Root, "getpath", "exit")
     /\ refused' = TRUE
     /\ UNCHANGED <<arg, leaf, next, signals, fifo, sent, died, lateChild, overtaken, round>>
StatusLoop == ~status /\ Goto(Root, "status", "mkfifo") /\ UNCHANGED <<arg, leaf, next, signals, path>>
Mkfifo ==
  /\ Goto(Root, "mkfifo", "open")
  /\ fifo' = TRUE
  /\ UNCHANGED <<arg, leaf, next, signals, sent, died, refused, lateChild, overtaken, round>>
\* Each open waits for the other.
Open ==
  /\ Ready(Root, "open") /\ at[asker] = "open"
  /\ at' = [at EXCEPT ![Root] = "read", ![asker] = "unlink"]
  /\ UNCHANGED <<arg, leaf, next, signals, path>>
\* read ends with less than the whole path when nobody holds the other end.
Read ==
  /\ Goto(Root, "read", IF sent THEN "opendir" ELSE "exit")
  /\ sent \/ at[asker] \in {"none", "zombie"}
  /\ UNCHANGED <<arg, leaf, next, signals, path>>

\* child.
Answer == Goto(asker, "ask", "mkfifo") /\ UNCHANGED <<arg, leaf, next, signals, path>>
AskerMkfifo ==
  \/ /\ Goto(asker, "mkfifo", "open")
     /\ fifo' = TRUE
     /\ UNCHANGED <<arg, leaf, next, signals, sent, died, refused, lateChild, overtaken, round>>
  \/ /\ Goto(asker, "mkfifo", "exit") /\ "mkfifo" \in MayFail
     /\ died' = TRUE
     /\ UNCHANGED <<arg, leaf, next, signals, fifo, sent, refused, lateChild, overtaken, round>>
Unlink ==
  /\ Goto(asker, "unlink", "write")
  /\ fifo' = FALSE
  /\ UNCHANGED <<arg, leaf, next, signals, sent, died, refused, lateChild, overtaken, round>>
Write ==
  /\ Goto(asker, "write", "exit")
  /\ sent' = TRUE
  /\ UNCHANGED <<arg, leaf, next, signals, fifo, died, refused, lateChild, overtaken, round>>
KillAsker ==
  /\ "kill" \in MayFail /\ at[asker] \notin {"none", "zombie", "exit"}
  /\ Ends(asker)
  /\ died' = TRUE
  /\ UNCHANGED <<fifo, sent, refused, lateChild, overtaken, round>>

-----------------------------------------------------------------------------
\* readDir.  A fork that fails is not noticed: there is just no child to wait for.
Opendir(d) ==
  /\ \/ Goto(d, "opendir", "list") /\ UNCHANGED refused
     \/ /\ "opendir" \in MayFail \/ lateChild
        /\ Goto(d, "opendir", "exit")
        /\ refused' = (refused \/ d = Root)
  /\ next' = [next EXCEPT ![d] = 1]
  /\ UNCHANGED <<arg, leaf, signals, fifo, sent, died, lateChild, overtaken, round>>
Entry(d) ==
  /\ Ready(d, "list") /\ next[d] \in DOMAIN Sub(d)
  /\ \/ at' = [at EXCEPT ![d] = "wait", ![Subdir[d][next[d]]] = "opendir"]
     \/ "fork" \in MayFail /\ at' = [at EXCEPT ![d] = "wait"]
  /\ next' = [next EXCEPT ![d] = @ + 1]
  /\ UNCHANGED <<arg, leaf, signals, path>>

\* Slip: the process waits until wait has given it the child of this entry.
WaitForEntry(d) ==
  /\ at[d] = "wait" /\ d \notin handling
  /\ \E c \in Zombie(d) :
       at' = [at EXCEPT ![c] = "none", ![d] = IF c = Subdir[d][next[d] - 1] THEN "list" ELSE "wait"]
  /\ UNCHANGED <<arg, leaf, next, signals, path>>

\* wait(NULL) takes a child that has ended, also before the handler of its SIGCHLD runs; it
\* fails if there is no child, and sleeps otherwise.
Wait(d) ==
  /\ at[d] = "wait" /\ d \notin handling
  /\ \/ \E c \in Zombie(d) : at' = [at EXCEPT ![c] = "none", ![d] = "list"]
     \/ Zombie(d) = {} /\ Living(d) = {} /\ at' = [at EXCEPT ![d] = "list"]
     \/ Zombie(d) = {} /\ Living(d) # {} /\ d \notin pend /\ at' = [at EXCEPT ![d] = "asleep"]
  /\ UNCHANGED <<arg, leaf, next, signals, path>>
\* A child that ends while its parent sleeps is given to it before the handler runs.
WaitReturns(d) ==
  /\ at[d] = "asleep"
  /\ \E c \in Zombie(d) : at' = [at EXCEPT ![c] = "none", ![d] = "list"]
  /\ UNCHANGED <<arg, leaf, next, signals, path>>
\* One that ends after wait has looked for it, and before it sleeps, interrupts it (no SA_RESTART,
\* spusti.c:72-74): the handler takes a child, and readDir goes on as if wait had.
WaitFails(d) ==
  /\ at[d] = "asleep" /\ d \in pend
  /\ \E c \in Zombie(d) : Reaps(d, c, "list")
  /\ pend' = pend \ {d}
  /\ overtaken' = (overtaken \/ asker \in Zombie(d))
  /\ UNCHANGED <<arg, leaf, next, handling, fifo, sent, died, refused, lateChild, round>>
LastEntry(d) ==
  /\ next[d] \notin DOMAIN Sub(d) /\ Goto(d, "list", "print")
  /\ UNCHANGED <<arg, leaf, next, signals, path>>
PrintCount(d) ==
  /\ Goto(d, "print", IF d = Root THEN "prompt" ELSE "exit")
  /\ UNCHANGED <<arg, leaf, next, signals, path>>
ReadDir(d) ==
  \/ Opendir(d) \/ Entry(d) \/ Wait(d) \/ WaitReturns(d) \/ WaitFails(d) \/ LastEntry(d) \/ PrintCount(d)

\* getPath.  A process is named like its directory, so that the tree is given again only when none
\* of its processes is left.
NewPath ==
  /\ round < MaxRounds /\ Goto(Root, "prompt", "opendir")
  /\ round' = round + 1
  /\ leaf' \in BOOLEAN /\ (~leaf' => \A i \in DOMAIN Subdir[Root] : at[Subdir[Root][i]] = "none")
  /\ UNCHANGED <<arg, next, signals, fifo, sent, died, refused, lateChild, overtaken>>

GetPathFromChild == GetPath \/ StatusLoop \/ Mkfifo \/ Open \/ Read
AskerRuns == AskerMkfifo \/ Unlink \/ Write \/ Exit(asker)
Run(d) ==
  \/ Handler(d) \/ HandlerWaits(d) \/ ReadDir(d) \/ Exit(d)
  \/ d = Root /\ GetPathFromChild

Next == AskerRuns \/ Answer \/ NewPath \/ KillAsker \/ \E d \in Dir : Run(d)
Spec == Init /\ [][Next]_vars
\* The scheduler runs every process; the user may never answer, nobody has to be killed.
FairSpec == Spec /\ WF_vars(AskerRuns) /\ \A d \in Dir : WF_vars(Run(d))

-----------------------------------------------------------------------------
\* The line of a directory comes after the lines of its subdirectories: wait(NULL) and the
\* handler compete for the asker and for the process of the subdirectory, but when
\* one of them has got the asker the other one waits for the subdirectory (spusti.c:20-24, 177).
\* Only where the end of the asker interrupts wait(NULL) does the first process go on
\* without its subdirectory, and it is never ahead of more than one.
SubdirFirst ==
  \A d \in Dir : at[d] \in {"list", "print", "prompt"} /\ d \notin pend \cup handling =>
    /\ Living(d) \subseteq {asker} \/ (d = Root /\ overtaken)
    /\ \A b, c \in Living(d) : b = c

\* When the user has answered, the directories are listed and the program asks for the next path, or
\* the first process could not fork or open the directory.  Only if the asker dies before it has
\* sent the path may the program end early, spin in the loop on child_status, or sleep in
\* open for ever (spusti.c:85, 95).
PathCounted == (arg \/ at[asker] = "mkfifo") ~> at[Root] = "prompt" \/ refused \/ died
=============================================================================
