------------------------------ MODULE Homework ------------------------------
(***************************************************************************)
(* Code/6cviko: shareMem.c and mapMem.c with common/homework.c.  The main  *)
(* process creates two semaphores and a piece of shared memory (shareMem)  *)
(* or a temporary file the children map (mapMem), forks a student and a    *)
(* teacher, and waits for both.  The two programs differ in what the main  *)
(* process does between its forks and its end, and in the descriptor the   *)
(* children close after mapping.                                           *)
(***************************************************************************)
EXTENDS Integers, Sequences

CONSTANTS
  Numbers,    \* what rand() % 10 may return
  INT_MIN,    \* stands in the place of a sum that has not been computed
  None,       \* for Assignment
  Faulty,     \* the calls that may fail: a subset of {"fork", "attach"}
  Killable    \* the children somebody may kill

ASSUME HomeworkAssumption ==
  /\ Numbers \subseteq Nat
  /\ INT_MIN \notin Nat /\ None \notin Int \cup (Numbers \X Numbers)
  /\ None # INT_MIN
  /\ Faulty \subseteq {"fork", "attach"}
  /\ Killable \subseteq {"student", "teacher"}

Kid == {"student", "teacher"}
Semaphore == {"ASSIGNED", "COMPLETE"}

VARIABLES
  program,    \* "shareMem" or "mapMem"
  mpc,        \* the main process
  reaped,     \* the children it has waited for
  cpc,        \* the children
  sem,        \* the two semaphores
  homework,   \* the shared structure
  printed,    \* what each child has printed of it
  fds,        \* mapMem: who has the descriptor of the file open
  left        \* what is there in the system: "sem" and "shm", or "sem" and "name"

data == <<sem, homework, printed>>
vars == <<program, mpc, reaped, cpc, data, fds, left>>

Ended == {"exited", "dead"}

Init ==
  /\ program \in {"shareMem", "mapMem"}
  /\ mpc = "fork_student"
  /\ reaped = {}
  /\ cpc = [c \in Kid |-> "unborn"]
  /\ sem = [s \in Semaphore |-> 0]
  /\ homework = [augend |-> 0, addend |-> 0, sum |-> 0]    \* the kernel clears it
  /\ printed = [c \in Kid |-> <<>>]
  /\ fds = IF program = "mapMem" THEN {"main"} ELSE {}
  /\ left = {"sem", IF program = "mapMem" THEN "name" ELSE "shm"}

-----------------------------------------------------------------------------
\* The main process.
MainGoes(from, to) == mpc = from /\ mpc' = to

\* A child has the descriptors of its parent.
Fork(c, from, to) ==
  /\ MainGoes(from, to)
  /\ cpc' = [cpc EXCEPT ![c] = "attach"]
  /\ fds' = IF "main" \in fds THEN fds \cup {c} ELSE fds
  /\ UNCHANGED <<program, reaped, data, left>>

ForkStudent == Fork("student", "fork_student", "fork_teacher")
ForkTeacher == 
  Fork("teacher", "fork_teacher", IF program = "mapMem" THEN "close" ELSE "wait")

\* CHECK( fork() ) ends the main process, which removes nothing.
ForkFails ==
  /\ "fork" \in Faulty
  /\ mpc \in {"fork_student", "fork_teacher"} /\ mpc' = "died"
  /\ fds' = fds \ {"main"}
  /\ UNCHANGED <<program, reaped, cpc, data, left>>

CloseFile ==
  /\ MainGoes("close", "unlink")
  /\ fds' = fds \ {"main"}
  /\ UNCHANGED <<program, reaped, cpc, data, left>>

Unlink ==
  /\ MainGoes("unlink", "wait")
  /\ left' = left \ {"name"}
  /\ UNCHANGED <<program, reaped, cpc, data, fds>>

\* Slip: the main process waits for one child only.
WaitOnce ==
  /\ MainGoes("wait", IF program = "shareMem" THEN "rm_shm" ELSE "rm_sem")
  /\ \E c \in Kid : cpc[c] \in Ended /\ reaped' = reaped \cup {c}
  /\ UNCHANGED <<program, cpc, data, fds, left>>

Wait ==
  /\ mpc = "wait"
  /\ \E c \in Kid \ reaped : cpc[c] \in Ended /\ reaped' = reaped \cup {c}
  /\ mpc' = IF reaped' # Kid THEN "wait" ELSE IF program = "shareMem" THEN "rm_shm" ELSE "rm_sem"
  /\ UNCHANGED <<program, cpc, data, fds, left>>

RemoveShm ==
  /\ MainGoes("rm_shm", "rm_sem")
  /\ left' = left \ {"shm"}
  /\ UNCHANGED <<program, reaped, cpc, data, fds>>

RemoveSem ==
  /\ MainGoes("rm_sem", "returned")
  /\ left' = left \ {"sem"}
  /\ UNCHANGED <<program, reaped, cpc, data, fds>>

Main == \/ ForkStudent \/ ForkTeacher \/ ForkFails \/ CloseFile \/ Unlink \/ Wait
        \/ RemoveShm \/ RemoveSem

-----------------------------------------------------------------------------
\* The children.
unchangedMain == UNCHANGED <<program, mpc, reaped, left>>

Goto(c, from, to) ==
  /\ cpc[c] = from /\ cpc' = [cpc EXCEPT ![c] = to]
  /\ unchangedMain

\* Where a child begins when it has the memory.
Begin == [student |-> "wait", teacher |-> "augend"]

\* shmat, or mmap of the inherited descriptor
Attach(c) ==
  /\ Goto(c, "attach", IF program = "mapMem" THEN "close" ELSE Begin[c])
  /\ UNCHANGED <<data, fds>>

\* A CHECK that fails, or a signal, ends the child.
Dies(c) ==
  /\ \/ c \in Killable /\ cpc[c] \notin {"unborn"} \cup Ended
     \/ "attach" \in Faulty /\ cpc[c] = "attach"
  /\ cpc' = [cpc EXCEPT ![c] = "dead"]
  /\ fds' = fds \ {c}
  /\ UNCHANGED data /\ unchangedMain

Close(c) ==
  /\ Goto(c, "close", Begin[c])
  /\ fds' = fds \ {c}
  /\ UNCHANGED data

\* A descriptor that is still open is closed by the exit.
Detach(c) ==
  /\ Goto(c, "detach", "exited")
  /\ fds' = fds \ {c}
  /\ UNCHANGED data

Prints(c, from, to) ==
  /\ Goto(c, from, to)
  /\ printed' = [printed EXCEPT ![c] = Append(@, homework)]
  /\ UNCHANGED <<sem, homework, fds>>

Post(c, s, to) ==
  /\ Goto(c, "post", to)
  /\ sem' = [sem EXCEPT ![s] = @ + 1]
  /\ UNCHANGED <<homework, printed, fds>>

\* Slip: the semaphore goes below zero.
SemWaitNoWait(c, s, to) ==
  /\ Goto(c, "wait", to)
  /\ sem' = [sem EXCEPT ![s] = @ - 1]
  /\ UNCHANGED <<homework, printed, fds>>

SemWait(c, s, to) ==
  /\ sem[s] > 0
  /\ Goto(c, "wait", to)
  /\ sem' = [sem EXCEPT ![s] = @ - 1]
  /\ UNCHANGED <<homework, printed, fds>>

SetField(c, from, to, field, value) ==
  /\ Goto(c, from, to)
  /\ homework' = [homework EXCEPT ![field] = value]
  /\ UNCHANGED <<sem, printed, fds>>

\* RunTeacherProcess
Generate ==
  \/ \E n \in Numbers : \/ SetField("teacher", "augend", "addend", "augend", n)
                        \/ SetField("teacher", "addend", "sum", "addend", n)
  \/ SetField("teacher", "sum", "print", "sum", INT_MIN)

TeacherPrints == Prints("teacher", "print", "post")
\* Slip: the teacher opens the semaphore it is going to wait for.
TeacherPostsComplete == Post("teacher", "COMPLETE", "wait")

TeacherPosts == Post("teacher", "ASSIGNED", "wait")
TeacherWaits == SemWait("teacher", "COMPLETE", "print_done")
TeacherPrintsDone == Prints("teacher", "print_done", "detach")

Teacher == \/ Attach("teacher") \/ Close("teacher") \/ Generate \/ TeacherPrints \/ TeacherPosts
           \/ TeacherWaits \/ TeacherPrintsDone \/ Detach("teacher")

\* RunStudentProcess
\* Slip: the student does not wait for its task.
StudentWaitsNot ==
  /\ Goto("student", "wait", "print")
  /\ UNCHANGED <<data, fds>>

StudentWaits == SemWait("student", "ASSIGNED", "print")

StudentPrints == Prints("student", "print", "do")

DoHomework == SetField("student", "do", "print_done", "sum", homework.augend + homework.addend)

StudentPrintsDone == Prints("student", "print_done", "post")

\* Slip: the student opens the semaphore it has waited for.
StudentPostsAssigned == Post("student", "ASSIGNED", "detach")

StudentPosts == Post("student", "COMPLETE", "detach")

Student == \/ Attach("student") \/ Close("student") \/ StudentWaits \/ StudentPrints \/ DoHomework
           \/ StudentPrintsDone \/ StudentPosts \/ Detach("student")

Next == Main \/ Student \/ Teacher \/ \E c \in Kid : Dies(c)

Spec == Init /\ [][Next]_vars

\* The processes run on; each semaphore has one process that waits for it.
FairSpec == Spec /\ WF_vars(Main) /\ WF_vars(Student) /\ WF_vars(Teacher)

-----------------------------------------------------------------------------
Task == [augend : Numbers \cup {0}, addend : Numbers \cup {0}, sum : Nat \cup {INT_MIN}]

\* Semaphores never go below zero, and the structure holds what a child has written.
TypeOK ==
  /\ program \in {"shareMem", "mapMem"}
  /\ mpc \in {"fork_student", "fork_teacher", "close", "unlink", "wait", "rm_shm", "rm_sem",
              "returned", "died"}
  /\ reaped \subseteq Kid
  /\ cpc \in [Kid -> {"unborn", "attach", "close", "wait", "augend", "addend", "sum", "print",
                      "do", "print_done", "post", "detach"} \cup Ended]
  /\ sem \in [Semaphore -> Nat]
  /\ homework \in Task
  /\ printed \in [Kid -> Seq(Task)]
  /\ fds \subseteq Kid \cup {"main"}
  /\ left \subseteq {"sem", "shm", "name"}

(***************************************************************************)
(* The student starts from exactly what the teacher has printed, never     *)
(* from a half-written or cleared structure (the comment above             *)
(* RunStudentProcess: it waits until the teacher has assigned the task).   *)
(***************************************************************************)
StudentSeesTask ==
  printed["student"] # <<>> =>
    /\ printed["teacher"] # <<>>
    /\ printed["student"][1] = printed["teacher"][1]
    /\ printed["teacher"][1].sum = INT_MIN

(***************************************************************************)
(* The memory and the semaphores are removed only when nobody uses them,   *)
(* and a main process that returns leaves nothing behind.                  *)
(***************************************************************************)
RemovedAtTheEnd ==
  /\ left \cap {"sem", "shm"} # {"sem", IF program = "shareMem" THEN "shm" ELSE "sem"} =>
       \A c \in Kid : cpc[c] \in Ended
  /\ mpc = "returned" => left = {} /\ fds = {}

\* What the programs print is a run of Assignment.
given == IF printed["teacher"] = <<>> THEN None
         ELSE <<printed["teacher"][1].augend, printed["teacher"][1].addend>>
answer == IF Len(printed["student"]) < 2 THEN None ELSE printed["student"][2].sum
seen == IF Len(printed["teacher"]) < 2 THEN None ELSE printed["teacher"][2].sum

A == INSTANCE Assignment

(***************************************************************************)
(* The teacher's last print shows the student's sum of the numbers the     *)
(* teacher has given, in this order (shareMem.c:4-15).                     *)
(***************************************************************************)
ImplementsAssignment == A!Spec

(***************************************************************************)
(* Nobody waits for ever, except for a partner that has died or was never  *)
(* created: the semaphores have no SEM_UNDO and no timeout, so the death   *)
(* of one child leaves the other one, and the main process, waiting.       *)
(***************************************************************************)
WaitsEnd ==
  /\ cpc["teacher"] = "attach" ~> cpc["teacher"] \in Ended \/ cpc["student"] = "dead"
  /\ cpc["student"] = "attach" ~>
       cpc["student"] \in Ended \/ cpc["teacher"] = "dead" \/ mpc = "died"
  /\ mpc = "wait" ~> mpc = "returned" \/ \E c \in Kid : cpc[c] = "dead"
=============================================================================
