-------------------------- MODULE Processes_proofs --------------------------
(***************************************************************************)
(* Programs of a main process and its children.                            *)
(*                                                                         *)
(* Homework implements Assignment, for every set of numbers and whatever   *)
(* fails or is killed.                                                     *)
(*                                                                         *)
(* The programs of Processes, which meet through system calls alone.       *)
(* DirCounter: types, and subdirectories come first.  SignalSync: types,   *)
(* who may die of the partner's signal, and the turn.  Unix: types.        *)
(***************************************************************************)
EXTENDS Homework, Processes, SequenceTheorems, FiniteSetTheorems, WellFoundedInduction, TLAPS

T == printed["teacher"]
S == printed["student"]
sp == cpc["student"]
tp == cpc["teacher"]

Sems(a, c) == sem["ASSIGNED"] = a /\ sem["COMPLETE"] = c

Idle == {"unborn", "attach", "close", "wait", "dead"}           \* of the student
Pre == {"unborn", "attach", "close", "augend", "addend", "sum", "print", "dead"}   \* of the teacher

Fresh(h) == h.augend \in Numbers /\ h.addend \in Numbers /\ h.sum = INT_MIN
Solved(h) == [augend |-> h.augend, addend |-> h.addend, sum |-> h.augend + h.addend]

\* The task is not yet printed.
Writing ==
  /\ Len(T) = 0 /\ Len(S) = 0 /\ Sems(0, 0)
  /\ sp \in Idle /\ tp \in Pre
  /\ tp \in {"addend", "sum", "print"} => homework.augend \in Numbers
  /\ tp \in {"sum", "print"} => homework.addend \in Numbers
  /\ tp = "print" => homework.sum = INT_MIN

\* Printed, and perhaps posted, but the student has not come to it.
Offered ==
  /\ Len(T) = 1 /\ Len(S) = 0
  /\ \/ Sems(0, 0) /\ tp \in {"post", "dead"}
     \/ Sems(1, 0) /\ tp \in {"wait", "dead"}
  /\ sp \in Idle
  /\ homework = T[1] /\ Fresh(T[1])

\* The student works.
Working ==
  /\ Len(T) = 1 /\ Sems(0, 0) /\ tp \in {"wait", "dead"} /\ Fresh(T[1])
  /\ \/ sp \in {"print", "dead"} /\ Len(S) = 0 /\ homework = T[1]
     \/ sp \in {"do", "dead"} /\ Len(S) = 1 /\ homework = T[1]
     \/ sp \in {"print_done", "dead"} /\ Len(S) = 1 /\ homework = Solved(T[1])
     \/ sp \in {"post", "dead"} /\ Len(S) = 2 /\ homework = Solved(T[1]) /\ S[2] = homework
  /\ Len(S) > 0 => S[1] = T[1]

\* The student has posted.
Answered ==
  /\ Len(S) = 2 /\ sp \in {"detach", "exited", "dead"}
  /\ Fresh(T[1]) /\ S[1] = T[1] /\ homework = Solved(T[1]) /\ S[2] = homework
  /\ \/ Len(T) = 1 /\ Sems(0, 1) /\ tp \in {"wait", "dead"}
     \/ Len(T) = 1 /\ Sems(0, 0) /\ tp \in {"print_done", "dead"}
     \/ Len(T) = 2 /\ Sems(0, 0) /\ tp \in {"detach", "exited", "dead"} /\ T[2] = homework

Handover == Writing \/ Offered \/ Working \/ Answered

-----------------------------------------------------------------------------
\* Nothing is shared or printed when main begins to fork.
LEMMA TypesAtFirst == Init => TypeOK
<1> SUFFICES ASSUME Init PROVE TypeOK
  OBVIOUS
<1>1. homework \in Task
  BY DEF Init, Task
<1>2. printed \in [Kid -> Seq(Task)]
  BY DEF Init
<1>3. fds \subseteq Kid \cup {"main"} /\ left \subseteq {"sem", "shm", "name"}
  BY DEF Init
<1> QED
  BY <1>1, <1>2, <1>3 DEF Init, TypeOK, Kid

\* Adding what the children add to the transcript of a child.
LEMMA PrintedGrows ==
  ASSUME TypeOK, NEW c \in Kid, printed' = [printed EXCEPT ![c] = Append(@, homework)]
  PROVE  /\ printed' \in [Kid -> Seq(Task)]
         /\ Len(printed'[c]) = Len(printed[c]) + 1
         /\ printed'[c][Len(printed[c]) + 1] = homework
         /\ \A i \in 1 .. Len(printed[c]) : printed'[c][i] = printed[c][i]
         /\ \A d \in Kid : d # c => printed'[d] = printed[d]
<1>1. printed \in [Kid -> Seq(Task)] /\ homework \in Task
  BY DEF TypeOK
<1>2. printed'[c] = Append(printed[c], homework) /\ \A d \in Kid : d # c => printed'[d] = printed[d]
  BY <1>1
<1>3. Append(printed[c], homework) \in Seq(Task)
  BY <1>1
<1> QED
  BY <1>1, <1>2, <1>3

\* What DoHomework stores fits the type of the sum.
LEMMA SumInNat == \A a, b \in Numbers \cup {0} : a + b \in Nat
<1>1. Numbers \subseteq Nat
  BY HomeworkAssumption
<1> QED
  BY <1>1

\* Every action of main, teacher and student keeps the types.
LEMMA TypeKept == TypeOK /\ [Next]_vars => TypeOK'
<1> SUFFICES ASSUME TypeOK, [Next]_vars PROVE TypeOK'
  OBVIOUS
<1> USE DEF Ended
<1>1. CASE ForkStudent
  BY <1>1 DEF ForkStudent, Fork, MainGoes, TypeOK, data, Kid
<1>2. CASE ForkTeacher
  BY <1>2 DEF ForkTeacher, Fork, MainGoes, TypeOK, data, Kid
<1>3. CASE ForkFails \/ CloseFile \/ Unlink
  BY <1>3 DEF ForkFails, CloseFile, Unlink, MainGoes, TypeOK, data
<1>4. CASE Wait
  BY <1>4 DEF Wait, TypeOK, data
<1>5. CASE RemoveShm \/ RemoveSem
  BY <1>5 DEF RemoveShm, RemoveSem, MainGoes, TypeOK, data
<1>6. ASSUME NEW c \in Kid, Attach(c) \/ Close(c) \/ Dies(c) \/ Detach(c) PROVE TypeOK'
  <2>1. Begin[c] \in {"wait", "augend"}
    BY DEF Begin, Kid
  <2> QED
    BY <1>6, <2>1 DEF Attach, Close, Dies, Detach, Goto, unchangedMain, TypeOK, data
<1>7. ASSUME NEW c \in Kid, NEW f \in {"print", "print_done"}, NEW t \in {"do", "post", "detach"},
             Prints(c, f, t)
      PROVE  TypeOK'
  <2>1. printed' \in [Kid -> Seq(Task)]
    BY <1>7, PrintedGrows DEF Prints
  <2> QED
    BY <1>7, <2>1 DEF Prints, Goto, unchangedMain, TypeOK
<1>8. ASSUME NEW c \in Kid, NEW s \in Semaphore, NEW t \in {"print", "print_done", "wait", "detach"},
             Post(c, s, t) \/ SemWait(c, s, t)
      PROVE  TypeOK'
  <2>1. sem[s] \in Nat /\ sem \in [Semaphore -> Nat]
    BY DEF TypeOK
  <2>2. CASE Post(c, s, t)
    <3>1. sem' \in [Semaphore -> Nat]
      BY <2>1, <2>2 DEF Post
    <3> QED
      BY <2>2, <3>1 DEF Post, Goto, unchangedMain, TypeOK
  <2>3. CASE SemWait(c, s, t)
    <3>1. sem' \in [Semaphore -> Nat]
      BY <2>1, <2>3 DEF SemWait
    <3> QED
      BY <2>3, <3>1 DEF SemWait, Goto, unchangedMain, TypeOK
  <2> QED
    BY <1>8, <2>2, <2>3
<1>9. CASE Generate
  <2>1. homework' \in Task
    BY <1>9 DEF Generate, SetField, TypeOK, Task
  <2> QED
    BY <1>9, <2>1 DEF Generate, SetField, Goto, unchangedMain, TypeOK
<1>10. CASE DoHomework
  <2>0. homework.augend \in Numbers \cup {0} /\ homework.addend \in Numbers \cup {0}
    BY DEF TypeOK, Task
  <2>1. homework.augend + homework.addend \in Nat
    BY <2>0, SumInNat
  <2>2. homework' \in Task
    BY <1>10, <2>1 DEF DoHomework, SetField, TypeOK, Task
  <2> QED
    BY <1>10, <2>2 DEF DoHomework, SetField, Goto, unchangedMain, TypeOK
<1>11. CASE UNCHANGED vars
  BY <1>11 DEF vars, data, TypeOK
<1>12. "student" \in Kid /\ "teacher" \in Kid /\ "ASSIGNED" \in Semaphore /\ "COMPLETE" \in Semaphore
  BY DEF Kid, Semaphore
<1> QED
  BY <1>1, <1>2, <1>3, <1>4, <1>5, <1>6, <1>7, <1>8, <1>9, <1>10, <1>11, <1>12
  DEF Next, Main, Student, Teacher, StudentWaits, StudentPrints, StudentPrintsDone, StudentPosts,
      TeacherPrints, TeacherPosts, TeacherWaits, TeacherPrintsDone

-----------------------------------------------------------------------------
\* A step that leaves the data alone and the children where they are, or moves one
\* of them within the pcs a stage allows.
LEMMA SameStage ==
  ASSUME Handover, UNCHANGED data,
         \/ sp' = sp
         \/ sp' = "dead"
         \/ sp \in {"unborn", "attach", "close"} /\ sp' \in {"attach", "close", "wait"}
         \/ sp = "detach" /\ sp' = "exited",
         \/ tp' = tp
         \/ tp' = "dead"
         \/ tp \in {"unborn", "attach", "close"} /\ tp' \in {"attach", "close", "augend"}
         \/ tp = "detach" /\ tp' = "exited"
  PROVE  Handover'
<1> USE DEF data, Sems, T, S, Idle, Pre
<1>1. CASE Writing
  BY <1>1 DEF Handover, Writing
<1>2. CASE Offered
  BY <1>2 DEF Handover, Offered, Fresh
<1>3. CASE Working
  BY <1>3 DEF Handover, Working, Fresh, Solved
<1>4. CASE Answered
  BY <1>4 DEF Handover, Answered, Fresh, Solved
<1> QED
  BY <1>1, <1>2, <1>3, <1>4 DEF Handover

\* Where a child is after a step of its own.
LEMMA Moved ==
  ASSUME TypeOK, NEW c \in Kid, NEW f, NEW t, Goto(c, f, t)
  PROVE  cpc[c] = f /\ cpc'[c] = t /\ \A d \in Kid : d # c => cpc'[d] = cpc[d]
BY DEF Goto, TypeOK

\* A child that has not been created yet is unborn.
Born ==
  /\ mpc = "fork_student" => sp = "unborn" /\ tp = "unborn"
  /\ mpc = "fork_teacher" => tp = "unborn"

Inv == TypeOK /\ Born /\ Handover

\* Only a fork begins a child, and it begins it once.
LEMMA BornKept == TypeOK /\ Born /\ [Next]_vars => Born'
<1> SUFFICES ASSUME TypeOK, Born, [Next]_vars PROVE Born'
  OBVIOUS
<1> USE DEF Born, sp, tp
<1>0. "student" \in Kid /\ "teacher" \in Kid
  BY DEF Kid
<1>1. CASE ForkStudent
  BY <1>0, <1>1 DEF ForkStudent, Fork, MainGoes, TypeOK
<1>2. CASE Main /\ ~ForkStudent
  BY <1>2 DEF Main, ForkTeacher, Fork, ForkFails, CloseFile, Unlink, Wait, RemoveShm,
              RemoveSem, MainGoes, TypeOK
<1>3. CASE \E c \in Kid : Dies(c)
  BY <1>0, <1>3 DEF Dies, unchangedMain, TypeOK, Ended
<1>4. CASE Student \/ Teacher
  <2>1. PICK c \in Kid, f \in {"attach", "close", "wait", "augend", "addend", "sum", "print", "do",
                               "print_done", "post", "detach"} : \E t : Goto(c, f, t)
    BY <1>0, <1>4 DEF Student, Teacher, Attach, Close, Detach, Generate, SetField, DoHomework,
      TeacherPrints, TeacherPosts, TeacherWaits, TeacherPrintsDone, StudentWaits, StudentPrints,
      StudentPrintsDone, StudentPosts, Prints, Post, SemWait
  <2>2. cpc[c] = f /\ (\A d \in Kid : d # c => cpc'[d] = cpc[d]) /\ mpc' = mpc
    BY <2>1, Moved DEF Goto, unchangedMain
  <2> QED
    BY <1>0, <2>2
<1>5. CASE UNCHANGED vars
  BY <1>5 DEF vars
<1> QED
  BY <1>1, <1>2, <1>3, <1>4, <1>5 DEF Next

\* Every action keeps the handover of the structure by the two semaphores.
LEMMA HandoverStep == Inv /\ [Next]_vars => Handover'
<1> SUFFICES ASSUME TypeOK, Born, Handover, [Next]_vars PROVE Handover'
  BY DEF Inv
<1>0. "student" \in Kid /\ "teacher" \in Kid /\ Kid = {"student", "teacher"}
  BY DEF Kid
<1>1. CASE ForkFails \/ CloseFile \/ Unlink \/ Wait \/ RemoveShm \/ RemoveSem \/ UNCHANGED vars
  <2>1. cpc' = cpc /\ data' = data
    BY <1>1 DEF ForkFails, CloseFile, Unlink, Wait, RemoveShm, RemoveSem, vars
  <2>2. sp' = sp /\ tp' = tp
    BY <2>1 DEF sp, tp
  <2> QED
    BY <2>1, <2>2, SameStage
<1>2. CASE ForkStudent \/ ForkTeacher
  <2>1. /\ data' = data
        /\ sp' = sp \/ (sp' = "attach" /\ sp = "unborn")
        /\ tp' = tp \/ (tp' = "attach" /\ tp = "unborn")
    BY <1>0, <1>2 DEF ForkStudent, ForkTeacher, Fork, MainGoes, Born, TypeOK, sp, tp
  <2> QED
    BY <2>1, SameStage
<1>3. CASE \E c \in Kid : Dies(c)
  <2>1. data' = data /\ (sp' = sp \/ sp' = "dead") /\ (tp' = tp \/ tp' = "dead")
    BY <1>0, <1>3 DEF Dies, TypeOK, sp, tp
  <2> QED
    BY <2>1, SameStage
<1>4. CASE Attach("student") \/ Close("student") \/ Detach("student")
  <2>1. data' = data /\ tp' = tp
    BY <1>0, <1>4, Moved DEF Attach, Close, Detach, tp, data
  <2>2. \/ sp \in {"attach", "close"} /\ sp' \in {"close", "wait"}
        \/ sp = "detach" /\ sp' = "exited"
    BY <1>0, <1>4, Moved DEF Attach, Close, Detach, sp, Begin
  <2> QED
    BY <2>1, <2>2, SameStage
<1>5. CASE Attach("teacher") \/ Close("teacher") \/ Detach("teacher")
  <2>1. data' = data /\ sp' = sp
    BY <1>0, <1>5, Moved DEF Attach, Close, Detach, sp, data
  <2>2. \/ tp \in {"attach", "close"} /\ tp' \in {"close", "augend"}
        \/ tp = "detach" /\ tp' = "exited"
    BY <1>0, <1>5, Moved DEF Attach, Close, Detach, tp, Begin
  <2> QED
    BY <2>1, <2>2, SameStage
<1> USE DEF Sems, T, S, Idle, Pre
<1>6. CASE Generate
  <2>1. /\ tp \in {"augend", "addend", "sum"} /\ sp' = sp
        /\ UNCHANGED <<sem, printed>>
    BY <1>0, <1>6, Moved DEF Generate, SetField, tp, sp
  <2>2. Writing
    BY <2>1 DEF Handover, Writing, Offered, Working, Answered
  <2>3. /\ tp' \in {"addend", "sum", "print"}
        /\ homework'.augend \in Numbers
        /\ tp' \in {"sum", "print"} => homework'.addend \in Numbers
        /\ tp' = "print" => homework'.sum = INT_MIN
    <3>1. homework \in Task
      BY DEF TypeOK
    <3> QED
      BY <1>0, <1>6, <2>2, <3>1, Moved DEF Generate, SetField, tp, Writing, Task
  <2> QED
    BY <2>1, <2>2, <2>3 DEF Handover, Writing
<1>7. CASE TeacherPrints
  <2>1. tp = "print" /\ tp' = "post" /\ sp' = sp /\ UNCHANGED <<sem, homework>>
    BY <1>0, <1>7, Moved DEF TeacherPrints, Prints, tp, sp
  <2>2. Writing
    BY <2>1 DEF Handover, Writing, Offered, Working, Answered
  <2>3. S' = S /\ Len(T') = 1 /\ T'[1] = homework
    BY <1>0, <1>7, <2>2, PrintedGrows DEF TeacherPrints, Prints, Writing
  <2> QED
    BY <2>1, <2>2, <2>3 DEF Handover, Writing, Offered, Fresh
<1>8. CASE TeacherPosts
  <2>1. tp = "post" /\ tp' = "wait" /\ sp' = sp /\ UNCHANGED <<homework, printed>>
    BY <1>0, <1>8, Moved DEF TeacherPosts, Post, tp, sp
  <2>2. Offered /\ Sems(0, 0)
    BY <2>1 DEF Handover, Writing, Offered, Working, Answered
  <2>3. Sems(1, 0)'
    BY <1>8, <2>2 DEF TeacherPosts, Post, TypeOK, Semaphore
  <2> QED
    BY <2>1, <2>2, <2>3 DEF Handover, Offered, Fresh
<1>9. CASE TeacherWaits
  <2>1. tp = "wait" /\ tp' = "print_done" /\ sp' = sp /\ UNCHANGED <<homework, printed>>
    BY <1>0, <1>9, Moved DEF TeacherWaits, SemWait, tp, sp
  <2>2. sem["COMPLETE"] > 0
    BY <1>9 DEF TeacherWaits, SemWait
  <2>3. Answered /\ Sems(0, 1) /\ Len(T) = 1
    BY <2>1, <2>2 DEF Handover, Writing, Offered, Working, Answered
  <2>4. Sems(0, 0)'
    BY <1>9, <2>3 DEF TeacherWaits, SemWait, TypeOK, Semaphore
  <2> QED
    BY <2>1, <2>3, <2>4 DEF Handover, Answered, Fresh, Solved
<1>10. CASE TeacherPrintsDone
  <2>1. tp = "print_done" /\ tp' = "detach" /\ sp' = sp /\ UNCHANGED <<sem, homework>>
    BY <1>0, <1>10, Moved DEF TeacherPrintsDone, Prints, tp, sp
  <2>2. Answered /\ Sems(0, 0) /\ Len(T) = 1
    BY <2>1 DEF Handover, Writing, Offered, Working, Answered
  <2>3. S' = S /\ Len(T') = 2 /\ T'[1] = T[1] /\ T'[2] = homework
    BY <1>0, <1>10, <2>2, PrintedGrows DEF TeacherPrintsDone, Prints
  <2> QED
    BY <2>1, <2>2, <2>3 DEF Handover, Answered, Fresh, Solved
<1>11. CASE StudentWaits
  <2>1. sp = "wait" /\ sp' = "print" /\ tp' = tp /\ UNCHANGED <<homework, printed>>
    BY <1>0, <1>11, Moved DEF StudentWaits, SemWait, tp, sp
  <2>2. sem["ASSIGNED"] > 0
    BY <1>11 DEF StudentWaits, SemWait
  <2>3. Offered /\ Sems(1, 0) /\ tp \in {"wait", "dead"}
    BY <2>1, <2>2 DEF Handover, Writing, Offered, Working, Answered
  <2>4. Sems(0, 0)'
    BY <1>11, <2>3 DEF StudentWaits, SemWait, TypeOK, Semaphore
  <2> QED
    BY <2>1, <2>3, <2>4 DEF Handover, Offered, Working, Fresh
<1>12. CASE StudentPrints
  <2>1. sp = "print" /\ sp' = "do" /\ tp' = tp /\ UNCHANGED <<sem, homework>>
    BY <1>0, <1>12, Moved DEF StudentPrints, Prints, tp, sp
  <2>2. Working /\ Len(S) = 0 /\ homework = T[1]
    BY <2>1 DEF Handover, Writing, Offered, Working, Answered
  <2>3. T' = T /\ Len(S') = 1 /\ S'[1] = homework
    BY <1>0, <1>12, <2>2, PrintedGrows DEF StudentPrints, Prints
  <2> QED
    BY <2>1, <2>2, <2>3 DEF Handover, Working, Fresh
<1>13. CASE DoHomework
  <2>1. sp = "do" /\ sp' = "print_done" /\ tp' = tp /\ UNCHANGED <<sem, printed>>
    BY <1>0, <1>13, Moved DEF DoHomework, SetField, tp, sp
  <2>2. Working /\ Len(S) = 1 /\ homework = T[1]
    BY <2>1 DEF Handover, Writing, Offered, Working, Answered
  <2>3. homework' = Solved(homework)
    BY <1>13 DEF DoHomework, SetField, TypeOK, Task, Solved
  <2> QED
    BY <2>1, <2>2, <2>3 DEF Handover, Working, Fresh, Solved
<1>14. CASE StudentPrintsDone
  <2>1. sp = "print_done" /\ sp' = "post" /\ tp' = tp /\ UNCHANGED <<sem, homework>>
    BY <1>0, <1>14, Moved DEF StudentPrintsDone, Prints, tp, sp
  <2>2. Working /\ Len(S) = 1 /\ homework = Solved(T[1])
    BY <2>1 DEF Handover, Writing, Offered, Working, Answered
  <2>3. T' = T /\ Len(S') = 2 /\ S'[1] = S[1] /\ S'[2] = homework
    BY <1>0, <1>14, <2>2, PrintedGrows DEF StudentPrintsDone, Prints
  <2> QED
    BY <2>1, <2>2, <2>3 DEF Handover, Working, Fresh, Solved
<1>15. CASE StudentPosts
  <2>1. sp = "post" /\ sp' = "detach" /\ tp' = tp /\ UNCHANGED <<homework, printed>>
    BY <1>0, <1>15, Moved DEF StudentPosts, Post, tp, sp
  <2>2. Working /\ Len(S) = 2 /\ homework = Solved(T[1]) /\ S[2] = homework
    BY <2>1 DEF Handover, Writing, Offered, Working, Answered
  <2>3. Sems(0, 1)'
    BY <1>15, <2>2 DEF StudentPosts, Post, TypeOK, Semaphore, Working
  <2> QED
    BY <2>1, <2>2, <2>3 DEF Handover, Working, Answered, Fresh, Solved
<1> QED
  BY <1>1, <1>2, <1>3, <1>4, <1>5, <1>6, <1>7, <1>8, <1>9, <1>10, <1>11, <1>12, <1>13, <1>14, <1>15
  DEF Next, Main, Student, Teacher

\* The inductive invariant holds when main begins to fork.
LEMMA InvAtFirst == Init => Inv
<1> SUFFICES ASSUME Init PROVE Inv
  OBVIOUS
<1>1. Born /\ Len(T) = 0 /\ Len(S) = 0 /\ Sems(0, 0) /\ sp = "unborn" /\ tp = "unborn"
  BY DEF Init, Born, T, S, Sems, sp, tp, Kid, Semaphore
<1> QED
  BY <1>1, TypesAtFirst DEF Inv, Handover, Writing, Idle, Pre

\* The inductive invariant is kept by every action.
LEMMA InvKept == Inv /\ [Next]_vars => Inv'
BY TypeKept, BornKept, HandoverStep DEF Inv

-----------------------------------------------------------------------------
\* The types are right in every state, for any set of numbers.
THEOREM HomeworkTypeCorrect == Spec => []TypeOK
BY TypesAtFirst, TypeKept, PTL DEF Spec

\* The student never starts from anything but the task as the teacher has
\* printed it (shareMem.c:58-69).
THEOREM StudentStartsFromTask == Spec => []StudentSeesTask
<1>1. Inv => StudentSeesTask
  <2> SUFFICES ASSUME Inv, S # <<>> PROVE T # <<>> /\ S[1] = T[1] /\ T[1].sum = INT_MIN
    BY DEF StudentSeesTask, S, T
  <2>1. S \in Seq(Task) /\ T \in Seq(Task)
    BY DEF Inv, TypeOK, S, T, Kid
  <2>2. Len(S) # 0 /\ Len(S) \in Nat
    BY <2>1, EmptySeq
  <2>3. Len(T) # 0 /\ S[1] = T[1] /\ T[1].sum = INT_MIN
    BY <2>2 DEF Inv, Handover, Writing, Offered, Working, Answered, Fresh
  <2> QED
    BY <2>1, <2>3, EmptySeq
<1> QED
  BY <1>1, InvAtFirst, InvKept, PTL DEF Spec

-----------------------------------------------------------------------------
\* The refinement mapping in terms of the lengths the stages speak of.
Mapped ==
  /\ given = IF Len(T) = 0 THEN None ELSE <<T[1].augend, T[1].addend>>
  /\ answer = IF Len(S) < 2 THEN None ELSE S[2].sum
  /\ seen = IF Len(T) < 2 THEN None ELSE T[2].sum

\* The refinement mapping: the abstract values by how much has been printed.
LEMMA Mapping == TypeOK => Mapped
<1> SUFFICES ASSUME TypeOK PROVE Mapped
  OBVIOUS
<1>1. T \in Seq(Task)
  BY DEF TypeOK, T, Kid
<1> QED
  BY <1>1, EmptySeq DEF Mapped, given, answer, seen, T, S

\* The first state of the programs is a first state of Assignment.
LEMMA MappedInit == Init => A!Init
<1> SUFFICES ASSUME Init PROVE A!Init
  OBVIOUS
<1>1. TypeOK /\ Len(T) = 0 /\ Len(S) = 0
  BY TypesAtFirst DEF Init, T, S, Kid
<1> QED
  BY <1>1, Mapping DEF Mapped, A!Init

\* The two transcripts after a print.
LEMMA TeacherPrinting ==
  ASSUME TypeOK, NEW f, NEW t, Prints("teacher", f, t)
  PROVE  /\ S' = S /\ Len(T') = Len(T) + 1 /\ T'[Len(T) + 1] = homework
         /\ \A i \in 1 .. Len(T) : T'[i] = T[i]
<1>1. "teacher" \in Kid /\ "student" \in Kid
  BY DEF Kid
<1>2. printed' = [printed EXCEPT !["teacher"] = Append(@, homework)]
  BY DEF Prints
<1> QED
  BY <1>1, <1>2, PrintedGrows DEF S, T

\* The same for a print of the student.
LEMMA StudentPrinting ==
  ASSUME TypeOK, NEW f, NEW t, Prints("student", f, t)
  PROVE  /\ T' = T /\ Len(S') = Len(S) + 1 /\ S'[Len(S) + 1] = homework
         /\ \A i \in 1 .. Len(S) : S'[i] = S[i]
<1>1. "teacher" \in Kid /\ "student" \in Kid
  BY DEF Kid
<1>2. printed' = [printed EXCEPT !["student"] = Append(@, homework)]
  BY DEF Prints
<1> QED
  BY <1>1, <1>2, PrintedGrows DEF S, T

\* Every step of the programs is a step of Assignment or none.
LEMMA MappedStep == Inv /\ Inv' /\ [Next]_vars => [A!Next]_<<given, answer, seen>>
<1> SUFFICES ASSUME Inv, Inv', [Next]_vars PROVE A!Next \/ UNCHANGED <<given, answer, seen>>
  OBVIOUS
<1>0. /\ TypeOK /\ Handover /\ TypeOK' /\ Handover'
      /\ "student" \in Kid /\ "teacher" \in Kid
  BY DEF Inv, Kid
<1>m. /\ given = IF Len(T) = 0 THEN None ELSE <<T[1].augend, T[1].addend>>
      /\ answer = IF Len(S) < 2 THEN None ELSE S[2].sum
      /\ seen = IF Len(T) < 2 THEN None ELSE T[2].sum
  BY <1>0, Mapping DEF Mapped
<1>n. /\ given' = IF Len(T') = 0 THEN None ELSE <<T'[1].augend, T'[1].addend>>
      /\ answer' = IF Len(S') < 2 THEN None ELSE S'[2].sum
      /\ seen' = IF Len(T') < 2 THEN None ELSE T'[2].sum
  <2>1. Mapped'
    BY <1>0, Mapping, PTL
  <2> QED
    BY <2>1 DEF Mapped
<1>1. CASE TeacherPrints
  <2>1. tp = "print"
    BY <1>1, Moved, <1>0 DEF TeacherPrints, Prints, tp
  <2>2. Writing
    BY <1>0, <2>1 DEF Handover, Writing, Offered, Working, Answered
  <2>3. Len(T) = 0 /\ homework.augend \in Numbers /\ homework.addend \in Numbers
    BY <2>1, <2>2 DEF Writing
  <2>4. Len(T') = 1 /\ T'[1] = homework /\ S' = S
    BY <1>0, <1>1, <2>3, TeacherPrinting DEF TeacherPrints
  <2>5. given = None /\ given' = <<homework.augend, homework.addend>>
    BY <1>m, <1>n, <2>3, <2>4
  <2>6. UNCHANGED <<answer, seen>>
    BY <1>m, <1>n, <2>3, <2>4
  <2> QED
    BY <2>3, <2>5, <2>6 DEF A!Next, A!Give
<1>2. CASE TeacherPrintsDone
  <2>1. tp = "print_done"
    BY <1>2, Moved, <1>0 DEF TeacherPrintsDone, Prints, tp
  <2>2. Answered /\ Len(T) = 1
    BY <1>0, <2>1 DEF Handover, Writing, Offered, Working, Answered, Pre
  <2>3. Len(T') = 2 /\ T'[1] = T[1] /\ T'[2] = homework /\ S' = S
    BY <1>0, <1>2, <2>2, TeacherPrinting DEF TeacherPrintsDone
  <2>4. Len(S) = 2 /\ S[2] = homework /\ homework.sum = T[1].augend + T[1].addend
        /\ T[1].augend \in Numbers /\ T[1].addend \in Numbers
    BY <2>2 DEF Answered, Solved, Fresh
  <2>5. answer = homework.sum /\ homework.sum \in Nat
    BY <1>m, <2>4, SumInNat
  <2>6. answer # None
    BY <2>5, HomeworkAssumption
  <2>7. seen = None /\ seen' = homework.sum
    BY <1>m, <1>n, <2>2, <2>3
  <2>8. UNCHANGED <<given, answer>>
    BY <1>m, <1>n, <2>2, <2>3
  <2> QED
    BY <2>5, <2>6, <2>7, <2>8 DEF A!Next, A!See
<1>3. CASE StudentPrints
  <2>1. sp = "print"
    BY <1>3, Moved, <1>0 DEF StudentPrints, Prints, sp
  <2>2. Len(S) = 0
    BY <1>0, <2>1 DEF Handover, Writing, Offered, Working, Answered, Idle
  <2>3. Len(S') = 1 /\ T' = T
    BY <1>0, <1>3, <2>2, StudentPrinting DEF StudentPrints
  <2> QED
    BY <1>m, <1>n, <2>2, <2>3
<1>4. CASE StudentPrintsDone
  <2>1. sp = "print_done"
    BY <1>4, Moved, <1>0 DEF StudentPrintsDone, Prints, sp
  <2>2. Working /\ Len(S) = 1 /\ homework = Solved(T[1])
    BY <1>0, <2>1 DEF Handover, Writing, Offered, Working, Answered, Idle
  <2>3. Len(S') = 2 /\ S'[2] = homework /\ T' = T
    BY <1>0, <1>4, <2>2, StudentPrinting DEF StudentPrintsDone
  <2>4. Len(T) = 1 /\ T[1].augend \in Numbers /\ T[1].addend \in Numbers
    BY <2>2 DEF Working, Fresh
  <2>5. given = <<T[1].augend, T[1].addend>>
    BY <1>m, <2>4
  <2>6. given # None
    <3>1. given \in Numbers \X Numbers
      BY <2>4, <2>5
    <3>2. None \notin Int \cup (Numbers \X Numbers)
      BY Zenon, HomeworkAssumption
    <3> QED
      BY <3>1, <3>2
  <2>7. answer = None /\ answer' = given[1] + given[2]
    BY <1>m, <1>n, <2>2, <2>3, <2>5 DEF Solved
  <2>8. UNCHANGED <<given, seen>>
    BY <1>m, <1>n, <2>3, <2>4
  <2> QED
    BY <2>6, <2>7, <2>8 DEF A!Next, A!Solve
<1>5. CASE UNCHANGED printed
  BY <1>5 DEF given, answer, seen
<1> QED
  BY <1>1, <1>2, <1>3, <1>4, <1>5
  DEF Next, Main, Student, Teacher, ForkStudent, ForkTeacher, Fork, ForkFails, CloseFile, Unlink,
      Wait, RemoveShm, RemoveSem, Attach, Close, Detach, Dies, Generate, DoHomework, SetField,
      StudentWaits, StudentPosts, TeacherWaits, TeacherPosts, SemWait, Post, data, vars

\* The two programs implement Assignment: what they print is a task, its
\* sum, and the sum again (shareMem.c:4-15), whatever fails or is killed.
THEOREM HomeworkRefinesAssignment == Spec => ImplementsAssignment
BY MappedInit, MappedStep, InvAtFirst, InvKept, PTL DEF Spec, ImplementsAssignment, A!Spec

-----------------------------------------------------------------------------
\* Clean-up.  What is left in the system follows from where the main
\* process is, and it starts to remove only when it has waited for both
\* children; a child that has ended has no descriptor open.
Removing == {"rm_shm", "rm_sem", "returned"}

WhatIsLeft ==
  IF program = "shareMem"
  THEN IF mpc = "returned" THEN {} ELSE IF mpc = "rm_sem" THEN {"sem"} ELSE {"sem", "shm"}
  ELSE IF mpc = "returned" THEN {} ELSE IF mpc \in {"wait", "rm_sem"} THEN {"sem"} ELSE {"sem", "name"}

MainOf == IF program = "shareMem" THEN {"fork_student", "fork_teacher", "wait", "died"} \cup Removing
          ELSE {"fork_student", "fork_teacher", "close", "unlink", "wait", "died", "rm_sem", "returned"}

CleanUp ==
  /\ mpc \in MainOf /\ left = WhatIsLeft
  /\ \A c \in reaped : cpc[c] \in Ended
  /\ mpc \in Removing => reaped = Kid
  /\ \A c \in Kid : cpc[c] \in Ended => c \notin fds
  /\ "main" \in fds => program = "mapMem" /\ mpc \in {"fork_student", "fork_teacher", "close"}

\* Steps of the main process keep the clean-up.
LEMMA MainCleansUp == ASSUME TypeOK, Born, CleanUp, Main PROVE CleanUp'
<1> USE DEF CleanUp, WhatIsLeft, MainOf, Removing, Ended, Kid
<1>1. ASSUME NEW c \in Kid, NEW from, NEW to, Fork(c, from, to), cpc[c] = "unborn",
             from \in {"fork_student", "fork_teacher"},
             to = "fork_teacher" \/ to = IF program = "mapMem" THEN "close" ELSE "wait"
      PROVE  CleanUp'
  <2>1. /\ mpc = from /\ mpc' = to /\ UNCHANGED <<program, reaped, left>>
        /\ cpc' = [cpc EXCEPT ![c] = "attach"] /\ fds' \in {fds, fds \cup {c}}
        /\ "main" \notin fds => fds' = fds
    BY <1>1 DEF Fork, MainGoes
  <2>2. c \notin reaped
    BY <1>1
  <2>3. to = "wait" => "main" \notin fds
    BY <1>1, <2>1
  <2>4. mpc' \in MainOf' /\ left' = WhatIsLeft' /\ mpc' \notin Removing
    BY <1>1, <2>1 DEF TypeOK
  <2>5. \A d \in reaped' : cpc'[d] \in Ended
    BY <2>1, <2>2 DEF TypeOK
  <2>6. \A d \in Kid : cpc'[d] \in Ended => d \notin fds'
    BY <1>1, <2>1 DEF TypeOK
  <2>7. "main" \in fds' => program' = "mapMem" /\ mpc' \in {"fork_student", "fork_teacher", "close"}
    BY <1>1, <2>1, <2>3 DEF TypeOK
  <2> QED
    BY <2>4, <2>5, <2>6, <2>7
<1>2. CASE ForkStudent \/ ForkTeacher
  BY <1>1, <1>2 DEF ForkStudent, ForkTeacher, Born, MainGoes, Fork, sp, tp
<1>3. CASE ForkFails
  BY <1>3 DEF ForkFails, TypeOK
<1>4. CASE CloseFile \/ Unlink
  BY <1>4 DEF CloseFile, Unlink, MainGoes, TypeOK
<1>5. CASE Wait
  BY <1>5 DEF Wait, TypeOK
<1>6. CASE RemoveShm \/ RemoveSem
  BY <1>6 DEF RemoveShm, RemoveSem, MainGoes, TypeOK
<1> QED
  BY <1>2, <1>3, <1>4, <1>5, <1>6 DEF Main

\* Steps of the children keep it: they only end, and close their descriptor with it.
LEMMA KidsCleanUp ==
  ASSUME TypeOK, CleanUp, Student \/ Teacher \/ \E c \in Kid : Dies(c)
  PROVE  CleanUp'
<1>1. UNCHANGED <<program, mpc, reaped, left>>
  BY DEF Student, Teacher, Attach, Close, Detach, Generate, SetField, DoHomework, TeacherPrints,
     TeacherPosts, TeacherWaits, TeacherPrintsDone, StudentWaits, StudentPrints, StudentPrintsDone,
     StudentPosts, Prints, Post, SemWait, Goto, Dies, unchangedMain
<1>2. PICK c \in Kid :
        /\ cpc[c] \notin Ended /\ \A d \in Kid : d # c => cpc'[d] = cpc[d]
        /\ fds' \in {fds, fds \ {c}} /\ (cpc'[c] \in Ended => fds' = fds \ {c})
  BY DEF Student, Teacher, Attach, Close, Detach, Generate, SetField, DoHomework, TeacherPrints,
     TeacherPosts, TeacherWaits, TeacherPrintsDone, StudentWaits, StudentPrints, StudentPrintsDone,
     StudentPosts, Prints, Post, SemWait, Goto, Dies, unchangedMain, TypeOK, Kid, Ended, Begin
<1> QED
  BY <1>1, <1>2 DEF CleanUp, WhatIsLeft, MainOf, TypeOK

\* The memory and the semaphores are removed only when both children have
\* ended, and a main process that returns has left nothing behind, in both
\* programs and whatever is killed or fails.
THEOREM NothingIsLeft == Spec => []RemovedAtTheEnd
<1>1. Init => CleanUp
  BY DEF Init, CleanUp, WhatIsLeft, MainOf, Removing, Kid, Ended
<1>2. Inv /\ CleanUp /\ [Next]_vars => CleanUp'
  <2> SUFFICES ASSUME Inv, CleanUp, [Next]_vars PROVE CleanUp'
    OBVIOUS
  <2>1. CASE UNCHANGED vars
    BY <2>1 DEF vars, CleanUp, WhatIsLeft, MainOf
  <2> QED
    BY <2>1, MainCleansUp, KidsCleanUp DEF Next, Inv
<1>3. TypeOK /\ CleanUp => RemovedAtTheEnd
  BY DEF TypeOK, CleanUp, WhatIsLeft, MainOf, Removing, RemovedAtTheEnd, Kid
<1> QED
  BY <1>1, <1>2, <1>3, InvAtFirst, InvKept, PTL DEF Spec, Inv

-----------------------------------------------------------------------------
\* spusti.c (DirCounter) for every tree: a process goes on with its
\* directory only when the process of the last subdirectory has ended,
\* whoever of wait(NULL) and the handler has waited for it.  Of the first
\* process this holds until the end of the asker interrupts its wait; from
\* then on it has at most one child more than it waits for.
asker == Paths!asker
DirPlaces == {"none", "getpath", "status", "mkfifo", "open", "read", "ask", "unlink", "write", "exit",
              "opendir", "list", "wait", "asleep", "print", "prompt", "zombie"}
Asking == {"getpath", "status", "mkfifo", "open", "read"}
InWait == {"wait", "asleep"}
Kids(d) == {Subdirectory[d][i] : i \in DOMAIN Subdirectory[d]}
Brood == Kids(Given) \cup {asker}

DirTypes ==
  /\ arg \in BOOLEAN /\ overtaken \in BOOLEAN /\ ended \subseteq Directories /\ handling \subseteq Directories
  /\ dat \in [Directories \cup {asker} -> DirPlaces]
  /\ \A d \in ended \cup handling : dat[d] \notin {"none", "zombie"}

\* The directory read next is one of the list, or the list is at its end.
DirFlags ==
  /\ leaf \in BOOLEAN /\ status \in BOOLEAN /\ fifo \in BOOLEAN /\ dsent \in BOOLEAN
  /\ died \in BOOLEAN /\ refused \in BOOLEAN /\ lateChild \in BOOLEAN /\ dround \in 1 .. MaxRounds
  /\ next \in [Directories -> Nat] /\ \A d \in Directories : next[d] \in 1 .. Len(Subdirectory[d]) + 1

\* With an argument there is no asker, and no handler of SIGCHLD.
WithArgument ==
  /\ arg => ended = {} /\ handling = {} /\ dat[asker] = "none" /\ dat[Given] \notin Asking /\ ~overtaken
  /\ overtaken => dat[Given] \notin Asking

\* The processes that have waited for whom they should.
Orderly == Directories \ IF overtaken THEN {Given} ELSE {}

\* A process has at most one child for its subdirectories.
OneKid ==
  \A d \in Orderly : \A b, c \in Kids(d) : dat[b] # "none" /\ dat[c] # "none" => b = c

\* As long as it is there its parent waits, or the parent's wait has got the asker in its place; then
\* SIGCHLD is pending, or the handler waits in its turn.
KidAwaited ==
  \A d \in Orderly : \A c \in Kids(d) : dat[c] # "none" =>
    \/ dat[d] \in InWait
    \/ d = Given /\ dat[d] = "list" /\ dat[asker] = "none" /\ d \in ended \cup handling

\* Who has ended is seen: by wait(NULL), or SIGCHLD is pending.
KidSeen ==
  \A d \in Orderly : \A c \in Kids(d) : dat[c] = "zombie" => dat[d] \in InWait \/ d \in ended
AskerSeen ==
  dat[asker] = "zombie" =>
    \/ overtaken
    \/ dat[Given] = "none"
    \/ Given \in ended
    \/ dat[Given] \in InWait /\ \A c \in Kids(Given) : dat[c] = "none"

\* Every process of a directory but the first one is somebody's child.
HasParent ==
  \A p \in Directories : dat[p] # "none" => p = Given \/ \E d \in Directories : p \in Kids(d)

\* The first process has at most one child that it does not wait for.
AtMostOne ==
  /\ dat[Given] \notin InWait \cup {"none"} =>
       \A a, b \in Brood : dat[a] # "none" /\ dat[b] # "none" => a = b
  /\ dat[Given] \in InWait =>
       \A a, b, c \in Brood : dat[a] # "none" /\ dat[b] # "none" /\ dat[c] # "none" => a = b \/ a = c \/ b = c

\* No process of a subdirectory that it has still to come to is there.
ToCome ==
  ~leaf =>
    /\ dat[Given] = "opendir" => Given \in handling \/ \A c \in Kids(Given) : dat[c] = "none"
    /\ dat[Given] \in {"list"} \cup InWait =>
         \A i \in DOMAIN Subdirectory[Given] : i >= next[Given] => dat[Subdirectory[Given][i]] = "none"

DirInv ==
  /\ DirTypes /\ WithArgument /\ HasParent /\ OneKid /\ KidAwaited /\ KidSeen /\ AskerSeen
  /\ AtMostOne /\ ToCome

\* The tree: a subdirectory is found once.
LEMMA KidsAreOnce ==
  /\ Given \in Directories /\ asker \notin Directories
  /\ \A d \in Directories : \A c \in Kids(d) : c \in Directories /\ c # Given
  /\ \A d, e \in Directories : \A c \in Kids(d) : c \in Kids(e) => d = e
  /\ \A d \in Directories : Paths!Child(d) = Kids(d) \cup IF d = Given THEN {asker} ELSE {}
<1>1. /\ Given \in Directories /\ asker \notin Directories /\ Subdirectory \in [Directories -> Seq(Directories)]
      /\ \A d, e \in Directories : \A i \in DOMAIN Subdirectory[d], j \in DOMAIN Subdirectory[e] :
           Subdirectory[d][i] # Given /\ (Subdirectory[d][i] = Subdirectory[e][j] => d = e /\ i = j)
  BY ProcessesAssumption DEF Paths!PathAssumption, asker
<1>2. \A d \in Directories : \A i \in DOMAIN Subdirectory[d] : Subdirectory[d][i] \in Directories
  BY <1>1
<1>3. \A d \in Directories : Paths!Child(d) = Kids(d) \cup IF d = Given THEN {asker} ELSE {}
  BY DEF Paths!Child, Kids, asker
<1> QED
  BY <1>1, <1>2, <1>3 DEF Kids

\* The children that are there.
LEMMA WhoIsThere ==
  ASSUME DirInv, NEW d \in Directories
  PROVE  /\ Paths!Zombie(d) = {c \in Kids(d) : dat[c] = "zombie"} \cup
                              IF d = Given /\ dat[asker] = "zombie" THEN {asker} ELSE {}
         /\ Paths!Living(d) = {c \in Kids(d) : dat[c] \notin {"none", "zombie"}} \cup
                              IF d = Given /\ dat[asker] \notin {"none", "zombie"} THEN {asker} ELSE {}
BY KidsAreOnce DEF Paths!Zombie, Paths!Living

\* What becomes of the children of d and of the asker if d is at to and those of gone have been taken.
AwaitedAt(d, to, gone) ==
  /\ d \in Orderly' => \A b \in Kids(d) \ gone : dat[b] # "none" =>
       /\ to \in InWait \/ (d = Given /\ to = "list" /\ (dat[asker] = "none" \/ asker \in gone) /\ d \in ended' \cup handling')
       /\ dat[b] = "zombie" => to \in InWait \/ d \in ended'
  /\ ~overtaken' /\ d = Given /\ dat[asker] = "zombie" /\ asker \notin gone =>
       d \in ended' \/ (to \in InWait /\ \A b \in Kids(d) \ gone : dat[b] = "none")

\* A step of d, of which its signals may be a part.
OnlyOf(d, to) ==
  /\ arg' = arg /\ (arg => ended' = ended /\ handling' = handling) /\ (to \in Asking => dat[d] \in Asking)
  /\ ended' \in {ended, ended \ {d}} /\ handling' \subseteq Directories /\ handling' \ {d} = handling \ {d}

\* The list of the first process stays, or none of its subdirectories has a process.
ListKept ==
  \/ leaf' \/ (leaf' = leaf /\ \A i \in DOMAIN Subdirectory[Given] : i >= next'[Given] => i >= next[Given])
  \/ \A c \in Kids(Given) : dat[c] = "none"

\* Where the first process may be going while subdirectories have processes.
ListAt(to) ==
  \/ leaf' \/ \A c \in Kids(Given) : dat'[c] = "none"
  \/ /\ to = "opendir" => (dat[Given] = "opendir" /\ Given \notin handling) \/ Given \in handling'
     /\ to \in {"list"} \cup InWait => dat[Given] \in {"list"} \cup InWait

LEMMA ToComeKept ==
  ASSUME ToCome, ListKept, ListAt(dat'[Given]), \A c \in Kids(Given) : dat'[c] # "none" => dat[c] # "none"
  PROVE  ToCome'
BY DEF ToCome, ListKept, ListAt, Kids

\* d goes on at to, and those of gone have been taken.
Moves(d, to, gone) ==
  /\ dat' \in [Directories \cup {asker} -> DirPlaces]
  /\ \A q \in Directories \cup {asker} : dat'[q] = IF q \in gone THEN "none" ELSE IF q = d THEN to ELSE dat[q]

\* A process goes from one place to another, and may have waited for a child.
LEMMA GoesOn ==
  ASSUME DirInv, NEW d \in Directories, NEW to \in DirPlaces \ {"none", "zombie"}, NEW gone \in SUBSET Paths!Zombie(d),
         dat[d] \notin {"none", "zombie"}, Moves(d, to, gone),
         overtaken' = overtaken \/ (overtaken' = TRUE /\ d = Given /\ dat[d] \in InWait /\ d \in ended),
         OnlyOf(d, to), AwaitedAt(d, to, gone), ListKept, d = Given => ListAt(to),
         d = Given /\ dat[d] \in InWait => to \in InWait \/ gone # {} \/ \A b \in Brood : dat[b] = "none"
  PROVE  DirInv'
<1> USE DEF DirInv
<1>0. \A c \in gone : dat[c] = "zombie" /\ (c \in Kids(d) \/ (d = Given /\ c = asker)) /\ c # d /\ c # Given
  BY WhoIsThere, KidsAreOnce
<1>1. \A q \in Directories \cup {asker} : dat'[q] = IF q \in gone THEN "none" ELSE IF q = d THEN to ELSE dat[q]
  BY DEF Moves
<1>2. DirTypes'
  <2>1. ended' \subseteq Directories /\ handling' \subseteq Directories /\ arg' \in BOOLEAN /\ overtaken' \in BOOLEAN
    BY DEF DirTypes, OnlyOf
  <2>2. ASSUME NEW e \in ended' \cup handling' PROVE dat'[e] \notin {"none", "zombie"}
    <3>1. e # d => e \in ended \cup handling
      BY DEF OnlyOf
    <3> QED
      BY <1>0, <1>1, <2>1, <3>1 DEF DirTypes
  <2> QED
    BY <2>1, <2>2 DEF DirTypes, Moves
<1>3. WithArgument'
  BY <1>1, KidsAreOnce DEF WithArgument, OnlyOf, InWait, Asking, DirTypes
<1>4. \A q \in Directories \cup {asker} : (dat'[q] # "none" => dat[q] # "none") /\ (dat'[q] = "zombie" => dat[q] = "zombie")
  BY <1>1
<1>5. Orderly' \subseteq Orderly /\ Orderly \subseteq Directories
  BY DEF Orderly, DirTypes
<1>6. OneKid' /\ HasParent'
  BY <1>4, <1>5, KidsAreOnce DEF OneKid, HasParent
<1>7. ASSUME NEW e \in Orderly', NEW b \in Kids(e), dat'[b] # "none"
      PROVE  /\ dat'[e] \in InWait \/ (e = Given /\ dat'[e] = "list" /\ dat'[asker] = "none" /\ e \in ended' \cup handling')
             /\ dat'[b] = "zombie" => dat'[e] \in InWait \/ e \in ended'
  <2>1. b \in Directories /\ e \in Directories /\ b \notin gone /\ dat[b] # "none" /\ (dat'[b] = "zombie" => dat[b] = "zombie")
    BY <1>1, <1>4, <1>5, <1>7, KidsAreOnce
  <2>2. dat[asker] = "none" => dat'[asker] = "none"
    BY <1>4
  <2>3. CASE e = d
    <3>1. dat'[e] = to /\ (asker \in gone => dat'[asker] = "none")
      BY <1>0, <1>1, <2>3
    <3> QED
      BY <1>7, <2>1, <2>2, <2>3, <3>1, KidsAreOnce DEF AwaitedAt
  <2>4. CASE e # d
    <3>1. (e \in ended => e \in ended') /\ (e \in handling => e \in handling')
      BY <2>4 DEF OnlyOf
    <3>2. e \notin gone
      BY <1>0, <1>5, <1>7, <2>1 DEF KidAwaited, InWait
    <3>3. dat'[e] = dat[e]
      BY <1>1, <2>1, <2>4, <3>2
    <3> QED
      BY <1>5, <1>7, <2>1, <2>2, <3>1, <3>3 DEF KidAwaited, KidSeen
  <2> QED
    BY <2>3, <2>4
<1>8. KidAwaited' /\ KidSeen'
  BY <1>7 DEF KidAwaited, KidSeen
<1>9. dat'[Given] = IF d = Given THEN to ELSE dat[Given]
  BY <1>0, <1>1, KidsAreOnce
<1>10. AskerSeen'
  <2>1. \A b \in Kids(Given) : dat[b] = "none" \/ b \in gone => dat'[b] = "none"
    BY <1>1, <1>4, KidsAreOnce
  <2>2. dat'[asker] = "zombie" => dat[asker] = "zombie" /\ asker \notin gone
    BY <1>1, <1>4
  <2>3. CASE d = Given
    BY <1>9, <2>1, <2>2, <2>3 DEF AskerSeen, AwaitedAt
  <2>4. CASE d # Given
    BY <1>9, <2>1, <2>2, <2>4 DEF AskerSeen, OnlyOf
  <2> QED
    BY <2>3, <2>4
<1>11. AtMostOne'
  <2>1. \A b \in Brood : dat'[b] # "none" => dat[b] # "none" /\ b \notin gone
    BY <1>1, <1>4, KidsAreOnce DEF Brood
  <2>2. d = Given => gone \subseteq Brood /\ \A c \in gone : dat[c] # "none"
    BY <1>0 DEF Brood
  <2> QED
    BY <1>9, <2>1, <2>2 DEF AtMostOne
<1>12. ToCome'
  <2>1. \A b \in Kids(Given) : dat'[b] # "none" => dat[b] # "none"
    BY <1>4, KidsAreOnce
  <2>2. ListAt(dat'[Given])
    BY <1>9, KidsAreOnce DEF ListAt, ToCome, OnlyOf
  <2> QED
    BY <2>1, <2>2, ToComeKept
<1> QED
  BY <1>2, <1>3, <1>6, <1>8, <1>10, <1>11, <1>12

LEMMA MovesTo ==
  ASSUME DirInv, NEW d \in Directories, NEW to \in DirPlaces
  PROVE  /\ dat' = [dat EXCEPT ![d] = to] => Moves(d, to, {})
         /\ \A c \in Paths!Zombie(d) : dat[d] # "zombie" /\ dat' = [dat EXCEPT ![c] = "none", ![d] = to] => Moves(d, to, {c})
BY WhoIsThere, KidsAreOnce DEF DirInv, DirTypes, DirPlaces, Moves

\* A process that has nothing to handle and does not wait goes on: there is no child that it should have waited for.
LEMMA GoesAlone ==
  ASSUME DirInv, NEW d \in Directories, NEW to \in DirPlaces \ {"none", "zombie"},
         dat[d] \notin {"none", "zombie"} \cup InWait, d \notin ended \cup handling,
         to \in Asking => dat[d] \in Asking, dat' = [dat EXCEPT ![d] = to], UNCHANGED <<arg, ended, handling, overtaken>>,
         ListKept, d = Given => ListAt(to)
  PROVE  DirInv'
<1>1. d \in Orderly' => \A b \in Kids(d) : dat[b] = "none"
  BY DEF DirInv, KidAwaited, Orderly
<1>2. AwaitedAt(d, to, {})
  BY <1>1 DEF DirInv, AskerSeen, AwaitedAt
<1>3. OnlyOf(d, to)
  BY DEF OnlyOf, DirInv, DirTypes
<1> QED
  BY <1>2, <1>3, MovesTo, GoesOn

\* wait(NULL): it takes a child, also while the process sleeps, it fails, or the process sleeps.
LEMMA DirWaits ==
  ASSUME DirInv, NEW d \in Directories, Paths!Wait(d) \/ Paths!WaitReturns(d)
  PROVE  DirInv'
<1> USE DEF DirInv
<1>0. /\ dat[d] \in InWait /\ UNCHANGED <<arg, leaf, next, ended, handling, overtaken>>
      /\ \/ \E c \in Paths!Zombie(d) : dat' = [dat EXCEPT ![c] = "none", ![d] = "list"]
         \/ Paths!Zombie(d) = {} /\ Paths!Living(d) = {} /\ dat' = [dat EXCEPT ![d] = "list"]
         \/ Paths!Zombie(d) = {} /\ dat' = [dat EXCEPT ![d] = "asleep"]
  BY Zenon DEF Paths!Wait, Paths!WaitReturns, Paths!signals, Paths!path, InWait
<1>1. /\ {"list", "asleep"} \subseteq DirPlaces \ {"none", "zombie"} /\ dat[d] \notin {"none", "zombie"} /\ "asleep" \in InWait
      /\ OnlyOf(d, "list") /\ OnlyOf(d, "asleep") /\ ListKept /\ (d = Given => ListAt("list") /\ ListAt("asleep"))
      /\ (d \in Orderly' => d \in Orderly)
  BY <1>0 DEF DirPlaces, InWait, Asking, OnlyOf, DirTypes, ListKept, ListAt, Orderly
<1>2. ASSUME NEW c \in Paths!Zombie(d), dat' = [dat EXCEPT ![c] = "none", ![d] = "list"] PROVE DirInv'
  <2>1. (c \in Kids(d) /\ dat[c] = "zombie") \/ (d = Given /\ dat[asker] = "zombie" /\ c = asker)
    BY WhoIsThere
  <2>2. AwaitedAt(d, "list", {c})
    BY <1>0, <1>1, <2>1 DEF AwaitedAt, OneKid, AskerSeen, InWait, Orderly
  <2>3. Moves(d, "list", {c})
    BY <1>1, <1>2, MovesTo
  <2> QED
    BY <1>0, <1>1, <2>2, <2>3, GoesOn
<1>3. ASSUME Paths!Zombie(d) = {}, Paths!Living(d) = {}, dat' = [dat EXCEPT ![d] = "list"] PROVE DirInv'
  <2>1. (\A b \in Kids(d) : dat[b] = "none") /\ (d = Given => dat[asker] = "none")
    BY <1>3, WhoIsThere
  <2>2. AwaitedAt(d, "list", {}) /\ (d = Given => \A b \in Brood : dat[b] = "none")
    BY <2>1 DEF AwaitedAt, Brood
  <2> QED
    BY <1>0, <1>1, <1>3, <2>2, MovesTo, GoesOn
<1>4. ASSUME Paths!Zombie(d) = {}, dat' = [dat EXCEPT ![d] = "asleep"] PROVE DirInv'
  <2>1. AwaitedAt(d, "asleep", {})
    BY <1>1, <1>4, WhoIsThere DEF AwaitedAt
  <2> QED
    BY <1>0, <1>1, <1>4, <2>1, MovesTo, GoesOn
<1> QED
  BY <1>0, <1>2, <1>3, <1>4

\* SIGCHLD ends the wait: the handler has taken a child, and if the asker had ended nobody may have waited for the other.
LEMMA DirFails ==
  ASSUME DirInv, NEW d \in Directories, Paths!WaitFails(d)
  PROVE  DirInv'
<1> USE DEF DirInv
<1>0. /\ dat[d] = "asleep" /\ d \in ended /\ ended' = ended \ {d} /\ UNCHANGED <<arg, leaf, next, handling>>
      /\ overtaken' = (overtaken \/ asker \in Paths!Zombie(d))
      /\ \E c \in Paths!Zombie(d) : dat' = [dat EXCEPT ![c] = "none", ![d] = "list"]
  BY Zenon DEF Paths!WaitFails, Paths!Reaps, asker
<1>1. PICK c \in Paths!Zombie(d) : dat' = [dat EXCEPT ![c] = "none", ![d] = "list"]
  BY <1>0
<1>2. /\ (c \in Kids(d) /\ dat[c] = "zombie") \/ (d = Given /\ dat[asker] = "zombie" /\ c = asker)
      /\ asker \in Paths!Zombie(d) <=> d = Given /\ dat[asker] = "zombie"
  BY WhoIsThere, KidsAreOnce
<1>3. OnlyOf(d, "list") /\ ListKept /\ (d = Given => ListAt("list"))
  BY <1>0 DEF OnlyOf, Asking, DirTypes, WithArgument, ListKept, ListAt, InWait
<1>4. AwaitedAt(d, "list", {c})
  BY <1>0, <1>2 DEF AwaitedAt, OneKid, Orderly
<1>5. "list" \in DirPlaces \ {"none", "zombie"} /\ Moves(d, "list", {c}) /\ dat[d] \in InWait
  BY <1>0, <1>1, MovesTo DEF DirPlaces, InWait
<1> QED
  BY <1>0, <1>2, <1>3, <1>4, <1>5, GoesOn DEF DirTypes

\* SIGCHLD: the handler has taken a child, and d goes on where it was, or where an interrupted call leaves it.
LEMMA DirTaken ==
  ASSUME DirInv, NEW d \in Directories, NEW c \in Paths!Zombie(d), NEW to \in Paths!Resumes(d),
         dat' = [dat EXCEPT ![c] = "none", ![d] = to], UNCHANGED <<arg, leaf, next, overtaken>>,
         \/ d \in ended \ handling /\ ended' = ended \ {d} /\ handling' = handling
         \/ d \in handling /\ ended' = ended /\ handling' = handling \ {d} /\ to = dat[d]
  PROVE  DirInv'
<1> USE DEF DirInv
<1>0. /\ (c \in Kids(d) /\ dat[c] = "zombie") \/ (d = Given /\ dat[asker] = "zombie" /\ c = asker)
      /\ to = dat[d] \/ (d = Given /\ dat[d] = "open" /\ to = "exit") \/ (d = Given /\ dat[d] = "prompt" /\ to = "opendir")
  BY WhoIsThere DEF Paths!Resumes
<1>1. ~arg /\ dat[d] \notin {"none", "zombie"} /\ to \in DirPlaces \ {"none", "zombie"} /\ d \in ended \cup handling
  BY <1>0 DEF WithArgument, DirTypes, DirPlaces
<1>2. OnlyOf(d, to) /\ ListKept /\ Moves(d, to, {c})
  BY <1>0, <1>1, MovesTo DEF OnlyOf, Asking, DirTypes, ListKept
<1>3. \A b \in Kids(d) : d \in Orderly /\ dat[b] # "none" /\ b # c => dat[d] \in InWait /\ c = asker
  BY <1>0 DEF KidAwaited, OneKid
<1>4. c \in Kids(d) /\ d = Given /\ dat[asker] = "zombie" /\ ~overtaken => dat[d] \in InWait
  BY <1>0 DEF KidAwaited, Orderly
<1>5. AwaitedAt(d, to, {c})
  BY <1>0, <1>3, <1>4, KidsAreOnce DEF AwaitedAt, Orderly, InWait
<1>6. d = Given => ListAt(to)
  <2>1. CASE d = Given /\ dat[d] \in {"opendir", "prompt"}
    <3>1. \A b \in Kids(d) : dat'[b] = "none"
      BY <1>0, <1>2, <2>1, KidsAreOnce DEF AtMostOne, Brood, InWait, Moves
    <3> QED
      BY <2>1, <3>1 DEF ListAt
  <2> QED
    BY <1>0, <2>1 DEF ListAt, InWait
<1> QED
  BY <1>0, <1>1, <1>2, <1>5, <1>6, GoesOn DEF InWait

\* SIGCHLD, and no child that has ended: the handler sleeps if there is a child at all.
LEMMA DirSleeps ==
  ASSUME DirInv, NEW d \in Directories, NEW to \in Paths!Resumes(d), d \in ended \ handling,
         Paths!Zombie(d) = {}, dat' = [dat EXCEPT ![d] = to], UNCHANGED <<arg, leaf, next, overtaken>>, ended' = ended \ {d},
         handling' = IF Paths!Living(d) = {} THEN handling ELSE handling \cup {d}
  PROVE  DirInv'
<1> USE DEF DirInv
<1>0. to = dat[d] \/ (d = Given /\ dat[d] = "open" /\ to = "exit") \/ (d = Given /\ dat[d] = "prompt" /\ to = "opendir")
  BY DEF Paths!Resumes
<1>1. ~arg /\ dat[d] \notin {"none", "zombie"} /\ to \in DirPlaces \ {"none", "zombie"}
  BY <1>0 DEF WithArgument, DirTypes, DirPlaces
<1>2. OnlyOf(d, to) /\ ListKept /\ Moves(d, to, {})
  BY <1>0, <1>1, MovesTo DEF OnlyOf, Asking, DirTypes, ListKept
<1>3. /\ \A b \in Kids(d) : dat[b] # "zombie" /\ (dat[b] # "none" => d \in handling')
      /\ d = Given => dat[asker] # "zombie"
  BY WhoIsThere
<1>4. AwaitedAt(d, to, {})
  BY <1>0, <1>3 DEF AwaitedAt, KidAwaited, InWait, Orderly
<1>5. d = Given => ListAt(to)
  <2>1. Given \in handling' \/ \A b \in Kids(d) : dat'[b] = "none" \/ d # Given
    BY <1>2, <1>3, KidsAreOnce DEF Moves
  <2> QED
    BY <1>0, <2>1 DEF ListAt, InWait
<1> QED
  BY <1>0, <1>1, <1>2, <1>4, <1>5, GoesOn DEF InWait

\* The process of a subdirectory begins.
LEMMA DirForks ==
  ASSUME DirInv, DirFlags, NEW d \in Directories, Paths!Entry(d)
  PROVE  DirInv'
<1> USE DEF DirInv
<1>0. /\ dat[d] = "list" /\ d \notin ended \cup handling /\ next[d] \in DOMAIN Paths!Sub(d) /\ next' = [next EXCEPT ![d] = next[d] + 1]
      /\ UNCHANGED <<arg, leaf, ended, handling, overtaken>>
      /\ \/ dat' = [dat EXCEPT ![d] = "wait", ![Subdirectory[d][next[d]]] = "opendir"]
         \/ dat' = [dat EXCEPT ![d] = "wait"]
  BY Zenon DEF Paths!Entry, Paths!Ready, Paths!signals, Paths!path
<1>1. next[d] \in DOMAIN Subdirectory[d] /\ (d = Given => ~leaf)
  BY <1>0, KidsAreOnce DEF Paths!Sub
<1> DEFINE c == Subdirectory[d][next[d]]
<1>2. c \in Kids(d)
  BY <1>1 DEF Kids
<1>3. \A i \in DOMAIN Subdirectory[d] : i \in Nat /\ (i # next[d] => Subdirectory[d][i] # c)
  BY <1>1, ProcessesAssumption DEF Paths!PathAssumption
<1>4. next' \in [Directories -> Nat] /\ next'[d] = next[d] + 1 /\ \A e \in Directories : next[e] \in Nat /\ (e # d => next'[e] = next[e])
  BY <1>0 DEF DirFlags
<1>5. dat[c] = "none"
  BY <1>0, <1>1, <1>2, <1>4 DEF KidAwaited, ToCome, Orderly, InWait
<1>6. ASSUME NEW i \in DOMAIN Subdirectory[d], i >= next'[d], d = Given PROVE dat[Subdirectory[d][i]] = "none" /\ Subdirectory[d][i] # c
  BY <1>0, <1>1, <1>3, <1>4, <1>6 DEF ToCome
<1> HIDE DEF c
<1>7. c \in Directories /\ c # asker /\ c # d /\ c # Given
  BY <1>0, <1>2, <1>5, KidsAreOnce
<1>8. \A b \in Kids(c) : dat[b] = "none"
  BY <1>5, <1>7 DEF KidAwaited, Orderly, InWait
<1>9. CASE dat' = [dat EXCEPT ![d] = "wait", ![c] = "opendir"]
  <2>1. \A q \in Directories \cup {asker} : dat'[q] = IF q = c THEN "opendir" ELSE IF q = d THEN "wait" ELSE dat[q]
    BY <1>7, <1>9 DEF DirTypes
  <2>2. DirTypes' /\ WithArgument'
    BY <1>0, <1>7, <1>9, <2>1, KidsAreOnce DEF DirTypes, WithArgument, DirPlaces, Asking
  <2>3. ASSUME NEW e \in Directories, NEW b \in Kids(e), dat'[b] # "none"
        PROVE  \/ e = d /\ b = c
               \/ e = d /\ d = Given /\ overtaken
               \/ e # d /\ e # c /\ b # c /\ dat[b] # "none" /\ dat'[e] = dat[e] /\ (dat'[b] = "zombie" => dat[b] = "zombie")
    BY <1>0, <1>2, <1>8, <2>1, <2>3, KidsAreOnce DEF KidAwaited, Orderly, InWait
  <2>4. OneKid' /\ KidAwaited' /\ KidSeen'
    BY <1>0, <1>7, <2>1, <2>3, KidsAreOnce DEF OneKid, KidAwaited, KidSeen, Orderly, InWait
  <2>5. HasParent'
    BY <1>0, <1>2, <1>7, <2>1 DEF HasParent
  <2>6. CASE d = Given
    <3>1. \A b \in Brood : dat'[b] # "none" => b = c \/ dat[b] # "none"
      BY <2>1, <2>6, KidsAreOnce DEF Brood
    <3>2. AtMostOne'
      BY <1>0, <1>7, <2>1, <2>6, <3>1 DEF AtMostOne, InWait
    <3>3. ToCome'
      BY <1>6, <1>7, <2>1, <2>6, KidsAreOnce DEF ToCome, Kids
    <3>4. AskerSeen'
      BY <1>0, <1>7, <2>1, <2>6, KidsAreOnce DEF AskerSeen, InWait
    <3> QED
      BY <2>2, <2>4, <2>5, <3>2, <3>3, <3>4
  <2>7. CASE d # Given
    <3>1. dat'[Given] = dat[Given] /\ next'[Given] = next[Given] /\ dat'[asker] = dat[asker] /\ \A b \in Kids(Given) : dat'[b] # "none" => dat[b] # "none"
      BY <1>0, <1>2, <1>4, <1>7, <2>1, <2>7, KidsAreOnce
    <3>2. AtMostOne' /\ AskerSeen'
      BY <1>0, <3>1 DEF AtMostOne, AskerSeen, Brood
    <3>3. ToCome'
      BY <1>0, <3>1 DEF ToCome, Kids
    <3> QED
      BY <2>2, <2>4, <2>5, <3>2, <3>3
  <2> QED
    BY <2>6, <2>7
<1>10. CASE dat' = [dat EXCEPT ![d] = "wait"]
  <2>1. "wait" \in DirPlaces \ {"none", "zombie"} /\ "wait" \notin Asking /\ dat[d] \notin {"none", "zombie"} \cup InWait
    BY <1>0 DEF DirPlaces, Asking, InWait
  <2>2. ListKept /\ (d = Given => ListAt("wait"))
    BY <1>0, <1>3, <1>4, KidsAreOnce DEF ListKept, ListAt, DirFlags
  <2> QED
    BY <1>0, <1>10, <2>1, <2>2, GoesAlone
<1> QED
  BY <1>0, <1>9, <1>10 DEF c

\* A process ends.
LEMMA DirEnds ==
  ASSUME DirInv, NEW p \in Directories \cup {asker}, Paths!Ends(p), overtaken' = overtaken, dat[p] \notin {"none", "zombie"},
         p \in Directories => dat[p] \notin InWait \cup {"list"}, p \notin ended \cup handling
  PROVE  DirInv'
<1> USE DEF DirInv
<1>1. /\ dat' = [dat EXCEPT ![p] = IF Paths!Orphan(p) THEN "none" ELSE "zombie"]
      /\ ended' = (IF arg \/ Paths!Orphan(p) THEN ended ELSE ended \cup {Paths!Parent(p)}) \ {p}
      /\ UNCHANGED <<arg, leaf, next, handling, overtaken>>
  BY DEF Paths!Ends
<1>2. \A q \in Directories \cup {asker} : dat'[q] = IF q = p THEN IF Paths!Orphan(p) THEN "none" ELSE "zombie" ELSE dat[q]
  BY <1>1 DEF DirTypes
<1>3. ASSUME NEW d \in Directories, p \in Kids(d) PROVE Paths!Parent(p) = d
  <2>1. p \in Directories /\ p # asker /\ \A e \in Directories : p \in Paths!Child(e) <=> e = d
    BY <1>3, KidsAreOnce
  <2>2. Paths!Parent(p) = CHOOSE e \in Directories : p \in Paths!Child(e)
    BY <2>1 DEF Paths!Parent, asker
  <2>3. (CHOOSE e \in Directories : p \in Paths!Child(e)) \in Directories /\ p \in Paths!Child(CHOOSE e \in Directories : p \in Paths!Child(e))
    BY <2>1, Zenon
  <2> QED
    BY <2>1, <2>2, <2>3
<1>4. p = asker => Paths!Parent(p) = Given
  BY DEF Paths!Parent, asker
<1>5. ASSUME NEW c \in Kids(p), p \in Orderly PROVE dat[c] = "none"
  BY <1>5 DEF KidAwaited, Orderly
<1>6. p = Given => Paths!Orphan(p)
  BY DEF Paths!Orphan
<1>7. ASSUME ~Paths!Orphan(p)
      PROVE  /\ Paths!Parent(p) \in Directories /\ dat[Paths!Parent(p)] \notin {"none", "zombie"} /\ p # Given
             /\ p # asker => p \in Kids(Paths!Parent(p))
  <2>1. p # Given /\ dat[Paths!Parent(p)] \notin {"none", "zombie"}
    BY <1>7 DEF Paths!Orphan
  <2>2. CASE p = asker
    BY <2>1, <2>2, <1>4, KidsAreOnce
  <2>3. CASE p \in Directories
    <3>1. PICK d \in Directories : p \in Kids(d)
      BY <2>1, <2>3 DEF HasParent
    <3> QED
      BY <1>3, <2>1, <3>1
  <2> QED
    BY <2>2, <2>3
<1>8. DirTypes'
  <2>1. ended' \subseteq Directories /\ p \notin ended' \cup handling'
    BY <1>1, <1>7 DEF DirTypes
  <2>2. \A e \in ended' \cup handling' : dat[e] \notin {"none", "zombie"}
    BY <1>1, <1>7 DEF DirTypes
  <2> QED
    BY <1>1, <1>2, <2>1, <2>2 DEF DirTypes, DirPlaces
<1>9. WithArgument'
  BY <1>1, <1>2, KidsAreOnce DEF WithArgument, Asking
<1>10. OneKid' /\ HasParent' /\ AtMostOne' /\ ToCome'
  BY <1>1, <1>2, KidsAreOnce DEF OneKid, HasParent, Orderly, AtMostOne, Brood, InWait, ToCome, Kids
<1>11. ASSUME NEW d \in Orderly, NEW c \in Kids(d), dat'[c] # "none"
       PROVE  /\ dat'[d] \in InWait \/ (d = Given /\ dat'[d] = "list" /\ dat'[asker] = "none" /\ d \in ended' \cup handling')
              /\ dat'[c] = "zombie" => dat'[d] \in InWait \/ d \in ended'
  <2>1. d \in Directories /\ d # p /\ dat[c] # "none" /\ dat'[d] = dat[d] /\ c # asker
    BY <1>2, <1>5, <1>11, KidsAreOnce DEF Orderly
  <2>2. (d \in ended => d \in ended') /\ (d \in handling => d \in handling')
    BY <1>1, <2>1
  <2>3. dat[asker] = "none" => dat'[asker] = "none"
    BY <1>2
  <2>4. CASE c # p
    BY <1>2, <2>1, <2>2, <2>3, <2>4, KidsAreOnce DEF KidAwaited, KidSeen
  <2>5. CASE c = p
    <3>1. ~Paths!Orphan(p) => d \in ended' \/ arg
      BY <1>1, <1>3, <2>1, <2>5
    <3>2. arg => dat[d] \in InWait
      BY <2>1 DEF KidAwaited, WithArgument
    <3> QED
      BY <1>2, <2>1, <2>2, <2>3, <2>5, <3>1, <3>2 DEF KidAwaited
  <2> QED
    BY <2>4, <2>5
<1>12. AskerSeen'
  <2>1. CASE p = Given
    BY <1>2, <1>6, <2>1 DEF AskerSeen
  <2>2. CASE p = asker
    <3>1. ~arg /\ Given # asker
      BY <2>2, KidsAreOnce DEF WithArgument
    <3> QED
      BY <1>1, <1>2, <1>4, <2>2, <3>1, KidsAreOnce DEF AskerSeen
  <2>3. CASE p \notin {Given, asker}
    <3>1. /\ dat'[asker] = dat[asker] /\ dat'[Given] = dat[Given] /\ (Given \in ended => Given \in ended')
          /\ \A c \in Kids(Given) : dat[c] = "none" => dat'[c] = "none"
      BY <1>1, <1>2, <2>3, KidsAreOnce
    <3> QED
      BY <1>1, <3>1 DEF AskerSeen
  <2> QED
    BY <2>1, <2>2, <2>3
<1>13. KidAwaited' /\ KidSeen'
  BY <1>1, <1>11 DEF KidAwaited, KidSeen, Orderly
<1> QED
  BY <1>8, <1>9, <1>10, <1>12, <1>13

\* The asker goes on, or the first process and it meet.
LEMMA AskerGoes ==
  ASSUME DirInv, NEW a \in DirPlaces \ {"none", "zombie"}, NEW g \in DirPlaces,
         \/ g = dat[Given] /\ dat[asker] \notin {"none", "zombie"}
         \/ g \in Asking /\ dat[Given] \in Asking /\ Given \notin ended \cup handling,
         dat' = [dat EXCEPT ![Given] = g, ![asker] = a], UNCHANGED <<arg, leaf, next, ended, handling, overtaken>>
  PROVE  DirInv'
<1> USE DEF DirInv
<1>1. Given # asker /\ Given \in Directories /\ ~arg
  BY KidsAreOnce DEF WithArgument
<1>2. \A q \in Directories \cup {asker} : dat'[q] = IF q = asker THEN a ELSE IF q = Given THEN g ELSE dat[q]
  BY <1>1 DEF DirTypes
<1>3. DirTypes' /\ WithArgument'
  BY <1>1, <1>2 DEF DirTypes, WithArgument, DirPlaces, Asking
<1>4. CASE g = dat[Given] /\ dat[asker] \notin {"none", "zombie"}
  <2>1. \A q \in Directories : dat'[q] = dat[q]
    BY <1>1, <1>2, <1>4, KidsAreOnce
  <2>2. OneKid' /\ HasParent' /\ KidAwaited' /\ KidSeen' /\ AskerSeen'
    BY <1>1, <1>2, <1>4, <2>1, KidsAreOnce DEF OneKid, HasParent, KidAwaited, KidSeen, AskerSeen, Orderly
  <2>3. \A b \in Brood : dat'[b] # "none" => dat[b] # "none"
    BY <1>4, <2>1, KidsAreOnce DEF Brood
  <2>4. AtMostOne' /\ ToCome'
    BY <1>1, <2>1, <2>3, KidsAreOnce DEF AtMostOne, ToCome, Kids
  <2> QED
    BY <1>3, <2>2, <2>4
<1>5. CASE g \in Asking /\ dat[Given] \in Asking /\ Given \notin ended \cup handling
  <2>1. \A c \in Kids(Given) : dat[c] = "none"
    BY <1>1, <1>5 DEF KidAwaited, Asking, InWait, Orderly, WithArgument
  <2>2. \A q \in Directories : (dat'[q] # "none" <=> dat[q] # "none") /\ (dat'[q] = "zombie" <=> dat[q] = "zombie")
                               /\ (q # Given => dat'[q] = dat[q])
    BY <1>1, <1>2, <1>5, KidsAreOnce DEF Asking
  <2>3. OneKid' /\ HasParent' /\ KidAwaited' /\ KidSeen' /\ AskerSeen'
    BY <1>2, <2>1, <2>2, KidsAreOnce DEF OneKid, HasParent, KidAwaited, KidSeen, AskerSeen, Orderly
  <2>4. dat'[Given] = g /\ \A b \in Brood : dat'[b] # "none" => b = asker
    BY <1>1, <1>2, <2>1, <2>2, KidsAreOnce DEF Brood
  <2>5. AtMostOne' /\ ToCome'
    BY <1>5, <2>4 DEF AtMostOne, ToCome, Asking, InWait
  <2> QED
    BY <1>3, <2>3, <2>5
<1> QED
  BY <1>4, <1>5

\* The invariant at the start.
LEMMA DirInit == Paths!Init => DirInv
<1> SUFFICES ASSUME Paths!Init PROVE DirInv
  OBVIOUS
<1>1. \A q \in Directories \cup {asker} : dat[q] = IF q # Given THEN "none" ELSE IF arg THEN "opendir" ELSE "getpath"
  BY DEF Paths!Init, Paths!Process, asker
<1>2. DirTypes
  BY DEF Paths!Init, Paths!Process, asker, DirTypes, DirPlaces
<1>3. ended = {} /\ handling = {} /\ ~overtaken
  BY DEF Paths!Init
<1>4. \A c \in Brood : dat[c] = "none"
  BY <1>1, KidsAreOnce DEF Brood
<1>5. AtMostOne /\ ToCome
  BY <1>1, <1>4, KidsAreOnce DEF AtMostOne, ToCome, InWait, Brood
<1> QED
  BY <1>1, <1>2, <1>3, <1>5, KidsAreOnce DEF DirInv, WithArgument, HasParent, OneKid, KidAwaited, KidSeen, AskerSeen, Asking, Orderly

\* Every step keeps it.
LEMMA DirStep == DirInv /\ DirFlags /\ [Paths!Next]_(Paths!vars) => DirInv'
<1> SUFFICES ASSUME DirInv, DirFlags, [Paths!Next]_(Paths!vars) PROVE DirInv'
  OBVIOUS
<1>0. Given \in Directories /\ asker \notin Directories /\ ended \cup handling \subseteq Directories
  BY KidsAreOnce DEF DirInv, DirTypes
<1>1. CASE UNCHANGED Paths!vars
  BY <1>1 DEF Paths!vars, DirInv, DirTypes, WithArgument, HasParent, Orderly, OneKid, KidAwaited, KidSeen, AskerSeen, AtMostOne, ToCome
\* A process goes on; the list is read anew only if no process of a subdirectory is left.
<1> DEFINE Rest == UNCHANGED <<arg, ended, handling, overtaken>>
<1>2. ASSUME NEW d \in Directories, NEW from \in DirPlaces \ ({"none", "zombie"} \cup InWait),
             NEW to \in DirPlaces \ ({"none", "zombie"} \cup InWait), Paths!Goto(d, from, to),
             to \in Asking => from \in Asking, Rest, ListKept, d = Given => ListAt(to)
      PROVE  DirInv'
  <2>1. dat[d] = from /\ d \notin ended \cup handling /\ dat' = [dat EXCEPT ![d] = to]
    BY <1>2 DEF Paths!Goto, Paths!Ready
  <2> QED
    BY <1>2, <2>1, GoesAlone
<1>3. ASSUME leaf' = leaf, next' = next PROVE ListKept /\ \A to \in DirPlaces \ ({"opendir", "list"} \cup InWait) : ListAt(to)
  BY <1>3 DEF ListKept, ListAt
<1> USE DEF DirPlaces, Asking, InWait
<1>4. CASE Paths!GetPathFromChild
  <2>1. Rest /\ leaf' = leaf /\ next' = next
    BY <1>4, Zenon DEF Paths!GetPathFromChild, Paths!GetPath, Paths!StatusLoop, Paths!Mkfifo, Paths!Open, Paths!Read, Paths!signals, Paths!path
  <2>2. \/ Paths!Ready(Given, "getpath") /\ dat' = [dat EXCEPT ![Given] = "status", ![asker] = "ask"]
        \/ Paths!Ready(Given, "open") /\ dat' = [dat EXCEPT ![Given] = "read", ![asker] = "unlink"]
        \/ Paths!Goto(Given, "getpath", "exit") \/ Paths!Goto(Given, "status", "mkfifo") \/ Paths!Goto(Given, "mkfifo", "open")
        \/ Paths!Goto(Given, "read", "exit") \/ Paths!Goto(Given, "read", "opendir")
    BY <1>4 DEF Paths!GetPathFromChild, Paths!GetPath, Paths!StatusLoop, Paths!Mkfifo, Paths!Open, Paths!Read, asker
  <2>3. ASSUME NEW from \in Asking, NEW to \in {"exit", "mkfifo", "open", "opendir"}, Paths!Goto(Given, from, to) PROVE DirInv'
    <3>1. \A c \in Kids(Given) : dat'[c] = "none"
      BY <1>0, <2>3, KidsAreOnce DEF Paths!Goto, Paths!Ready, DirInv, KidAwaited, WithArgument, Orderly
    <3> QED
      BY <1>0, <1>2, <1>3, <2>1, <2>3, <3>1 DEF ListAt
  <2> QED
    BY <2>1, <2>2, <2>3, AskerGoes DEF Paths!Ready
\* The end of a process.
<1>5. ASSUME NEW p \in Directories \cup {asker}, Paths!Exit(p) \/ (p = asker /\ Paths!KillAsker) PROVE DirInv'
  BY <1>0, <1>5, DirEnds DEF Paths!Exit, Paths!KillAsker, Paths!Ready, Paths!path, asker
\* The asker.
<1>6. CASE Paths!Answer \/ Paths!AskerMkfifo \/ Paths!Unlink \/ Paths!Write
  <2>1. /\ Rest /\ UNCHANGED <<leaf, next>>
        /\ \E from, to \in DirPlaces \ {"none", "zombie"} : dat[asker] = from /\ dat' = [dat EXCEPT ![asker] = to]
    BY <1>6 DEF Paths!Answer, Paths!AskerMkfifo, Paths!Unlink, Paths!Write, Paths!signals, Paths!path, Paths!Goto, Paths!Ready, asker
  <2>2. PICK to \in DirPlaces \ {"none", "zombie"} : dat[asker] \notin {"none", "zombie"} /\ dat' = [dat EXCEPT ![asker] = to]
    BY <2>1
  <2>3. dat[Given] \in DirPlaces /\ dat' = [dat EXCEPT ![Given] = dat[Given], ![asker] = to]
    BY <1>0, <2>2 DEF DirInv, DirTypes
  <2> QED
    BY <2>1, <2>2, <2>3, AskerGoes
\* A directory is listed.
<1>7. CASE Paths!NewPath
  <2>1. /\ Paths!Goto(Given, "prompt", "opendir") /\ Rest /\ leaf' \in BOOLEAN
        /\ ~leaf' => \A i \in DOMAIN Subdirectory[Given] : dat[Subdirectory[Given][i]] = "none"
    BY <1>7, Zenon DEF Paths!NewPath, Paths!signals
  <2>2. ~leaf' => \A c \in Kids(Given) : dat[c] = "none" /\ dat'[c] = "none"
    BY <1>0, <2>1, KidsAreOnce DEF Kids, Paths!Goto, Paths!Ready
  <2> QED
    BY <1>0, <1>2, <2>1, <2>2 DEF ListKept, ListAt
<1>8. ASSUME NEW d \in Directories, Paths!Opendir(d) PROVE DirInv'
  <2>1. /\ Paths!Goto(d, "opendir", "list") \/ Paths!Goto(d, "opendir", "exit")
        /\ Rest /\ leaf' = leaf /\ next' = [next EXCEPT ![d] = 1]
    BY <1>8 DEF Paths!Opendir, Paths!signals
  <2>2. d = Given => leaf' \/ \A c \in Kids(Given) : dat[c] = "none" /\ dat'[c] = "none"
    BY <1>0, <2>1, KidsAreOnce DEF DirInv, DirTypes, DirFlags, ToCome, Paths!Goto, Paths!Ready
  <2>3. d # Given => next'[Given] = next[Given]
    BY <1>0, <2>1 DEF DirFlags
  <2> QED
    BY <1>2, <2>1, <2>2, <2>3 DEF ListKept, ListAt
<1>9. ASSUME NEW d \in Directories, Paths!LastEntry(d) \/ Paths!PrintCount(d) PROVE DirInv'
  <2>1. /\ Paths!Goto(d, "list", "print") \/ Paths!Goto(d, "print", "prompt") \/ Paths!Goto(d, "print", "exit")
        /\ Rest /\ leaf' = leaf /\ next' = next
    BY <1>9 DEF Paths!LastEntry, Paths!PrintCount, Paths!signals, Paths!path
  <2> QED
    BY <1>2, <1>3, <2>1
<1> HIDE DEF DirPlaces, Asking, InWait
\* The handler.
<1>10. ASSUME NEW d \in Directories, Paths!Handler(d) PROVE DirInv'
  <2>1. /\ d \in ended \ handling /\ ended' = ended \ {d} /\ UNCHANGED <<arg, leaf, next, overtaken>>
        /\ \E to \in Paths!Resumes(d) :
             \/ /\ \E c \in Paths!Zombie(d) : dat' = [dat EXCEPT ![c] = "none", ![d] = to]
                /\ handling' = handling
             \/ /\ Paths!Zombie(d) = {} /\ dat' = [dat EXCEPT ![d] = to]
                /\ handling' = IF Paths!Living(d) = {} THEN handling ELSE handling \cup {d}
    BY <1>10, Zenon DEF Paths!Handler, Paths!Reaps
  <2>2. ASSUME NEW to \in Paths!Resumes(d), NEW c \in Paths!Zombie(d), dat' = [dat EXCEPT ![c] = "none", ![d] = to], handling' = handling
        PROVE  DirInv'
    BY <2>1, <2>2, DirTaken
  <2>3. ASSUME NEW to \in Paths!Resumes(d), Paths!Zombie(d) = {}, dat' = [dat EXCEPT ![d] = to],
               handling' = IF Paths!Living(d) = {} THEN handling ELSE handling \cup {d}
        PROVE  DirInv'
    BY <2>1, <2>3, DirSleeps
  <2> QED
    BY <2>1, <2>2, <2>3, Zenon
<1>11. ASSUME NEW d \in Directories, Paths!HandlerWaits(d) PROVE DirInv'
  <2>1. /\ d \in handling /\ handling' = handling \ {d} /\ ended' = ended /\ UNCHANGED <<arg, leaf, next, overtaken>>
        /\ \E c \in Paths!Zombie(d) : dat' = [dat EXCEPT ![c] = "none", ![d] = dat[d]]
    BY <1>11, Zenon DEF Paths!HandlerWaits, Paths!Reaps, Paths!path
  <2>2. dat[d] \in Paths!Resumes(d)
    BY DEF Paths!Resumes
  <2> QED
    BY <2>1, <2>2, DirTaken
<1>12. ASSUME NEW d \in Directories, Paths!Run(d) PROVE DirInv'
  BY <1>4, <1>5, <1>8, <1>9, <1>10, <1>11, <1>12, DirForks, DirWaits, DirFails, Zenon DEF Paths!Run, Paths!ReadDir
<1>13. CASE Paths!AskerRuns
  BY <1>5, <1>6, <1>13, Zenon DEF Paths!AskerRuns, asker
<1> QED
  BY <1>1, <1>5, <1>6, <1>7, <1>12, <1>13 DEF Paths!Next

-----------------------------------------------------------------------------
\* A step of the run is one of the program that runs; the others stutter.
LEMMA RunningParts ==
  [PrNext]_<<running, signalVars, pathVars, callVars>> =>
    [Signals!Next]_(Signals!vars) /\ [Paths!Next]_(Paths!vars) /\ [Calls!Next]_(Calls!vars)
BY DEF PrNext, signalVars, pathVars, callVars, Signals!vars, Paths!vars, Calls!vars

\* The programs about signals (SignalSync): which signals a process can
\* get in which program, and from which place on it has blocked or caught
\* them.
Pair == {"parent", "child"}
Signal == {"INT", "TERM", "USR1", "USR2", "CHLD", "STOP"}
Buried == {"zombie", "reaped"}
Preparing == {"int", "usr", "block", "fork", "exec", "term"}
SigPlaces == {"unborn", "send", "sigwait", "test", "suspend", "asleep", "got", "reset", "answer", "run",
              "stop", "cont", "kill", "wait", "sleep", "exit"} \cup Preparing \cup Buried

SigTypes ==
  /\ prog \in {"sync", "async", "chld", "once", "kill", "wait", "catch", "suspend", "sigwait"}
  /\ sat \in [Pair -> SigPlaces]
  /\ blocked \in [Pair -> SUBSET Signal] /\ caught \in [Pair -> SUBSET Signal]
  /\ how \in [Pair -> {"none", "exit"} \cup Signal] /\ x \in [Pair -> Nat]

\* The places of each program.
SigAt ==
  /\ prog = "sync" => /\ sat["parent"] \in {"int", "block", "fork", "send", "sigwait"} \cup Buried
                      /\ sat["child"] \in {"unborn", "exec", "block", "term", "sigwait", "answer"} \cup Buried
  /\ prog = "async" =>
       /\ sat["parent"] \in {"int", "usr", "fork", "send", "test", "suspend", "asleep", "got", "reset"} \cup Buried
       /\ sat["child"] \in {"unborn", "exec", "term", "usr", "test", "suspend", "asleep", "answer", "reset", "exit"}
                           \cup Buried
  /\ prog \in {"once", "kill", "wait"} => sat["child"] \in {"unborn", "sigwait", "run", "exit"} \cup Buried
  /\ prog = "once" => /\ sat["parent"] \in {"block", "fork", "send", "exit"} \cup Buried
                      /\ sat["child"] # "run"
  /\ prog = "chld" => sat["child"] \in {"unborn", "exec", "exit"} \cup Buried
  /\ prog = "catch" => sat["child"] \in {"usr", "int", "run"} \cup Buried
  /\ prog = "sigwait" => sat["child"] \in {"usr", "block", "sigwait", "exit"} \cup Buried
  /\ prog \in {"catch", "suspend", "sigwait"} => sat["parent"] = "unborn"
  /\ sat["child"] = "asleep" => prog \in {"async", "suspend"}
  /\ sat["parent"] = "asleep" => prog = "async"
  /\ \A p \in Pair : sat[p] \in Buried => how[p] # "none"

\* The signals that may come.
Coming(pp) ==
  /\ pp \in [Pair -> SUBSET Signal]
  /\ \A p \in Pair : sat[p] = "unborn" => pp[p] = {}
  /\ "USR1" \notin pp["parent"] /\ "USR2" \notin pp["child"]
  /\ "USR1" \in pp["child"] => prog \in {"sync", "async", "once", "catch", "suspend", "sigwait"}
  /\ "USR2" \in pp["parent"] => prog \in {"sync", "async"}

\* From which place on the process has blocked the partner's signal, or caught it.
SigReady ==
  /\ prog = "sync" =>
       /\ sat["parent"] \in {"fork", "send", "sigwait"} => "USR2" \in blocked["parent"]
       /\ sat["child"] \in {"term", "sigwait", "answer"} => "USR1" \in blocked["child"]
  /\ prog = "async" =>
       /\ sat["parent"] \in {"fork", "send", "test", "suspend", "asleep", "got", "reset"} => "USR2" \in caught["parent"]
       /\ sat["child"] \in {"test", "suspend", "asleep", "answer", "reset", "exit"} => "USR1" \in caught["child"]
  /\ prog = "once" => /\ sat["parent"] = "fork" => "USR1" \in blocked["parent"]
                      /\ sat["child"] \in {"sigwait", "exit"} => "USR1" \in blocked["child"]
  /\ prog = "catch" => (sat["child"] \in {"int", "run"} => "USR1" \in caught["child"])
  /\ prog = "sigwait" => (sat["child"] \in {"block", "sigwait", "exit"} => "USR1" \in caught["child"])

SigInv == SigTypes /\ SigAt /\ Coming(pend) /\ SigReady

\* The default of a signal that is due.
LEMMA DefaultDoes ==
  ASSUME NEW p, Signals!Default(p)
  PROVE  \E g \in pend[p] \ (blocked[p] \cup caught[p]) :
           /\ sat[p] \notin Buried
           /\ \/ /\ \/ stopped' = stopped
                    \/ g = "STOP" /\ stopped' = stopped \cup {p}
                 /\ g \in {"STOP", "CHLD"} /\ pend' = [pend EXCEPT ![p] = pend[p] \ {g}]
                 /\ UNCHANGED <<prog, sat, blocked, caught, x, finish, how, outside, lost>>
              \/ g \notin {"STOP", "CHLD"} /\ Signals!Ends(p, g, pend)
<1>1. PICK g \in Signals!Due(p) \ caught[p] :
        /\ sat[p] \notin Buried
        /\ CASE g = "STOP" -> /\ stopped' = stopped \cup {p}
                              /\ pend' = [pend EXCEPT ![p] = @ \ {g}]
                              /\ UNCHANGED <<prog, sat, blocked, caught, Signals!user, how, outside>>
             [] g = "CHLD" -> /\ pend' = [pend EXCEPT ![p] = @ \ {g}]
                              /\ UNCHANGED <<prog, sat, blocked, caught, stopped, Signals!user, how, outside>>
             [] OTHER      -> p \notin stopped /\ Signals!Ends(p, g, pend)
  BY Zenon DEF Signals!Default, Signals!Gone, Buried
<1>2. g \in pend[p] \ (blocked[p] \cup caught[p])
  BY DEF Signals!Due
<1>3. CASE g = "STOP"
  BY <1>1, <1>2, <1>3, Zenon DEF Signals!user
<1>4. CASE g = "CHLD"
  BY <1>1, <1>2, <1>4, Zenon DEF Signals!user
<1>5. CASE g \notin {"STOP", "CHLD"}
  BY <1>1, <1>2, <1>5, Zenon
<1> QED
  BY <1>3, <1>4, <1>5

\* A signal that is sent keeps to those that may come.
LEMMA SentComes ==
  ASSUME SigInv, NEW q \in Pair, NEW g \in Signal,
         g = "USR1" => q = "child" /\ prog \in {"sync", "async", "once", "catch", "suspend", "sigwait"},
         g = "USR2" => q = "parent" /\ prog \in {"sync", "async"}
  PROVE  Coming(Signals!Sent(q, g))
BY DEF SigInv, SigTypes, Coming, Signals!Sent, Signals!Alive, Signals!Gone, Pair, Signal, Buried

\* The end of a process.
LEMMA SigEnds ==
  ASSUME SigInv, NEW p \in Pair, NEW h \in {"exit"} \cup Signal, NEW pending, Coming(pending), sat[p] # "unborn",
         Signals!Ends(p, h, pending)
  PROVE  SigInv' /\ how' = [how EXCEPT ![p] = h]
<1>1. /\ sat' = [sat EXCEPT ![p] = IF p = "child" /\ Signals!Alive("parent") THEN "zombie" ELSE "reaped"]
      /\ pend' = [q \in Pair |-> IF q = p THEN {} ELSE IF q = "parent" /\ Signals!Alive(q)
                                 THEN pending[q] \cup {"CHLD"} ELSE pending[q]]
      /\ how' = [how EXCEPT ![p] = h]
      /\ prog' = prog /\ blocked' = blocked /\ caught' = caught /\ x' = x
  BY Zenon DEF Signals!Ends, Signals!Process, Pair, Signals!user
<1>2. PICK to \in Buried : sat' = [sat EXCEPT ![p] = to]
  BY <1>1 DEF Buried
<1>3. SigTypes'
  BY <1>1, <1>2 DEF SigInv, SigTypes, SigPlaces, Pair, Signal, Buried
<1>4. SigAt'
  BY <1>1, <1>2 DEF SigInv, SigTypes, SigAt, Pair, Signal, Buried
<1>5. Coming(pend)'
  BY <1>1, <1>2 DEF SigInv, SigTypes, Coming, Pair, Signal, Buried, Signals!Alive, Signals!Gone
<1>6. SigReady'
  BY <1>1, <1>2 DEF SigInv, SigTypes, SigReady, Pair, Buried
<1> QED
  BY <1>1, <1>3, <1>4, <1>5, <1>6 DEF SigInv

\* A handler takes its signal, and ends a sleep of sigsuspend.
LEMMA SigHandled ==
  ASSUME SigInv, NEW p \in Pair, NEW pending, Coming(pending), sat[p] # "unborn",
         pend' = [pending EXCEPT ![p] = pend'[p]], pend'[p] \subseteq pending[p],
         blocked' = IF sat[p] = "asleep" THEN [blocked EXCEPT ![p] = {}] ELSE blocked,
         Signals!Returns(p), UNCHANGED <<prog, caught, how>>, x' \in [Pair -> Nat]
  PROVE  SigInv'
<1>1. PICK to \in SigPlaces : /\ sat' = [sat EXCEPT ![p] = to]
                              /\ to = sat[p] \/ (sat[p] = "asleep" /\ to = IF p = "parent" THEN "got" ELSE "answer")
  BY DEF Signals!Returns, SigInv, SigTypes, SigPlaces, Pair
<1>2. SigTypes'
  BY <1>1 DEF SigInv, SigTypes, Pair
<1>3. SigAt'
  BY <1>1 DEF SigInv, SigTypes, SigAt, Pair, Buried
<1>4. Coming(pend)'
  BY <1>1 DEF SigInv, SigTypes, Coming, Pair
<1>5. SigReady'
  BY <1>1 DEF SigInv, SigTypes, SigReady, SigAt, Pair
<1> QED
  BY <1>2, <1>3, <1>4, <1>5 DEF SigInv

\* fork: the child begins with the mask and the handlers of its parent.
LEMMA SigForks ==
  ASSUME SigInv, NEW to \in SigPlaces, NEW first \in SigPlaces, Signals!Fork(to, first),
         <<prog, to, first>> \in {<<"sync", "send", "exec">>, <<"async", "send", "exec">>, <<"chld", "sleep", "exec">>,
                                  <<"once", "send", "sigwait">>, <<"kill", "stop", "run">>, <<"wait", "stop", "run">>}
  PROVE  SigInv'
<1>1. CASE Signals!Ends("parent", "exit", pend) /\ sat["parent"] = "fork"
  BY <1>1, SigEnds DEF SigInv, Pair
<1>2. CASE /\ sat["parent"] = "fork"
           /\ sat' = [sat EXCEPT !["parent"] = to, !["child"] = first]
           /\ blocked' = [blocked EXCEPT !["child"] = blocked["parent"]]
           /\ caught' = [caught EXCEPT !["child"] = caught["parent"]]
           /\ prog' = prog /\ pend' = pend /\ x' = x /\ how' = how
  <2>1. SigTypes'
    BY <1>2 DEF SigInv, SigTypes, Pair
  <2>2. SigAt'
    BY <1>2 DEF SigInv, SigTypes, SigAt, Pair, Buried
  <2>3. Coming(pend)'
    BY <1>2 DEF SigInv, SigTypes, Coming, Pair
  <2>4. SigReady'
    BY <1>2 DEF SigInv, SigTypes, SigReady, Pair
  <2> QED
    BY <2>1, <2>2, <2>3, <2>4 DEF SigInv
<1> QED
  BY <1>1, <1>2, Zenon DEF Signals!Fork, Signals!Ready, Signals!user

\* exec: the child keeps its mask and forgets the handlers.
LEMMA SigExecs ==
  ASSUME SigInv, NEW to \in SigPlaces, Signals!Exec(to),
         <<prog, to>> \in {<<"sync", "block">>, <<"async", "term">>, <<"chld", "exit">>}
  PROVE  SigInv'
<1>1. CASE Signals!Ends("child", "exit", pend) /\ sat["child"] = "exec"
  BY <1>1, SigEnds DEF SigInv, Pair
<1>2. CASE /\ sat["child"] = "exec"
           /\ sat' = [sat EXCEPT !["child"] = to]
           /\ caught' = [caught EXCEPT !["child"] = {}]
           /\ prog' = prog /\ pend' = pend /\ blocked' = blocked /\ x' = x /\ how' = how
  BY <1>2 DEF SigInv, SigTypes, SigAt, Coming, SigReady, Pair, Buried
<1> QED
  BY <1>1, <1>2, Zenon DEF Signals!Exec, Signals!Ready, Signals!Goto, Signals!user

\* A process goes from one place to another, and its types and signals are in order.
Goes(p, from, to) ==
  /\ sat[p] = from /\ sat' = [sat EXCEPT ![p] = to]
  /\ prog' = prog /\ how' = how
  /\ \A q \in Pair : caught[q] \subseteq caught'[q] /\ (blocked[q] \subseteq blocked'[q] \/ prog \in {"async", "suspend"})
  /\ SigTypes' /\ Coming(pend)'

\* The calls of a process between two places.
LEMMA CallsGo ==
  ASSUME SigInv, NEW p \in Pair, NEW from \in SigPlaces, NEW to \in SigPlaces, NEW q \in Pair, NEW g \in Signal,
         to # "unborn",
         \/ Signals!Catch(p, from, to, g) \/ Signals!Block(p, from, to, g) \/ Signals!Quiet(p, from, to)
         \/ Signals!Kill(p, from, to, q, g) /\ Coming(Signals!Sent(q, g))
         \/ from = "sigwait" /\ Signals!Sigwait(p, to, g)
         \/ from = "reset" /\ Signals!Reset(p, to)
         \/ Signals!Continue(p, from, to, q)
  PROVE  /\ Goes(p, from, to)
         /\ Signals!Catch(p, from, to, g) => g \in caught'[p]
         /\ Signals!Block(p, from, to, g) => g \in blocked'[p]
<1>1. /\ sat[p] = from /\ sat' = [sat EXCEPT ![p] = to] /\ prog' = prog /\ how' = how
      /\ x' = x \/ x' = [x EXCEPT ![p] = 0]
      /\ \/ pend' = pend
         \/ Coming(Signals!Sent(q, g)) /\ pend' = Signals!Sent(q, g)
         \/ pend' = [pend EXCEPT ![p] = pend[p] \ {g}]
         \/ pend' = [pend EXCEPT ![q] = pend[q] \ {"STOP"}]
      /\ \/ blocked' = blocked /\ caught' = [caught EXCEPT ![p] = caught[p] \cup {g}]
         \/ blocked' = [blocked EXCEPT ![p] = blocked[p] \cup {g}] /\ caught' = caught
         \/ blocked' = blocked /\ caught' = caught
      /\ Signals!Catch(p, from, to, g) => caught' = [caught EXCEPT ![p] = caught[p] \cup {g}]
      /\ Signals!Block(p, from, to, g) => blocked' = [blocked EXCEPT ![p] = blocked[p] \cup {g}]
  BY Zenon DEF Signals!Catch, Signals!Block, Signals!Quiet, Signals!Kill, Signals!Sigwait, Signals!Reset, Signals!Continue,
               Signals!Goto, Signals!Ready, Signals!user, Signals!signals
<1>2. SigTypes'
  BY <1>1 DEF SigInv, SigTypes, Pair
<1>3. Coming(pend)'
  BY <1>1 DEF SigInv, SigTypes, Coming, Pair
<1> QED
  BY <1>1, <1>2, <1>3 DEF SigInv, SigTypes, Goes

\* sigsuspend changes the mask, as long as it sleeps.
LEMMA SuspendGoes ==
  ASSUME SigInv, NEW p \in Pair, NEW set, Signals!Sigsuspend(p, set), prog \in {"async", "suspend"}
  PROVE  Goes(p, "suspend", "asleep")
<1>1. /\ sat[p] = "suspend" /\ sat' = [sat EXCEPT ![p] = "asleep"] /\ prog' = prog /\ how' = how
      /\ blocked' = [blocked EXCEPT ![p] = Signal \ (set \cup {"STOP"})]
      /\ pend' = pend /\ caught' = caught /\ x' = x
  BY Zenon DEF Signals!Sigsuspend, Signals!Goto, Signals!Ready, Signals!user, Signals!Sig, Signal
<1> QED
  BY <1>1 DEF SigInv, SigTypes, SigPlaces, Coming, Goes, Pair

\* Where the program of a process takes it, with the partner's signal blocked or caught in time.
Path(p, from, to) ==
  \/ /\ prog = "sync"
     /\ \/ <<p, from, to>> \in {<<"parent", "int", "block">>, <<"parent", "send", "sigwait">>,
                                <<"parent", "sigwait", "send">>, <<"child", "term", "sigwait">>,
                                <<"child", "sigwait", "answer">>, <<"child", "answer", "sigwait">>}
        \/ <<p, from, to>> = <<"parent", "block", "fork">> /\ "USR2" \in blocked'["parent"]
        \/ <<p, from, to>> = <<"child", "block", "term">> /\ "USR1" \in blocked'["child"]
  \/ /\ prog = "async"
     /\ \/ <<p, from, to>> \in {<<"parent", "int", "usr">>, <<"parent", "send", "test">>, <<"parent", "test", "suspend">>,
                                <<"parent", "test", "got">>, <<"parent", "suspend", "asleep">>,
                                <<"parent", "got", "reset">>, <<"parent", "reset", "send">>,
                                <<"child", "term", "usr">>, <<"child", "test", "suspend">>, <<"child", "test", "answer">>,
                                <<"child", "suspend", "asleep">>, <<"child", "answer", "reset">>,
                                <<"child", "reset", "test">>, <<"child", "reset", "exit">>}
        \/ <<p, from, to>> = <<"parent", "usr", "fork">> /\ "USR2" \in caught'["parent"]
        \/ p = "child" /\ from = "usr" /\ to \in {"test", "exit"} /\ "USR1" \in caught'["child"]
  \/ /\ prog = "once"
     /\ \/ <<p, from, to>> \in {<<"parent", "send", "exit">>, <<"child", "sigwait", "exit">>}
        \/ <<p, from, to>> = <<"parent", "block", "fork">> /\ "USR1" \in blocked'["parent"]
  \/ prog = "chld" /\ <<p, from, to>> \in {<<"parent", "usr", "fork">>, <<"parent", "sleep", "exit">>}
  \/ prog \in {"kill", "wait"}
     /\ <<p, from, to>> \in {<<"parent", "stop", "cont">>, <<"parent", "cont", "kill">>, <<"parent", "kill", "exit">>,
                             <<"parent", "kill", "wait">>, <<"child", "run", "exit">>}
  \/ prog = "catch" /\ p = "child" /\ \/ from = "usr" /\ to = "int" /\ "USR1" \in caught'["child"]
                                      \/ from = "int" /\ to = "run"
  \/ prog = "suspend" /\ p = "child" /\ <<from, to>> \in {<<"int", "suspend">>, <<"suspend", "asleep">>}
  \/ prog = "sigwait" /\ p = "child" /\ \/ from = "usr" /\ to = "block" /\ "USR1" \in caught'["child"]
                                        \/ <<from, to>> \in {<<"block", "sigwait">>, <<"sigwait", "exit">>}

\* That path keeps the invariant.
LEMMA OnThePath ==
  ASSUME SigInv, NEW p \in Pair, NEW from \in SigPlaces, NEW to \in SigPlaces, Goes(p, from, to), Path(p, from, to)
  PROVE  SigInv'
<1>1. SigAt'
  BY DEF SigInv, SigTypes, SigAt, Goes, Path, Pair, Buried
<1>2. SigReady'
  BY DEF SigInv, SigTypes, SigAt, SigReady, Goes, Path, Pair, Buried
<1> QED
  BY <1>1, <1>2 DEF SigInv, Goes

\* The invariant holds at first.
LEMMA SigInit == Signals!Init => SigInv
BY DEF Signals!Init, Signals!Begin, Signals!Receiver, Signals!Pairs, Signals!Receivers, Signals!Process,
       SigInv, SigTypes, SigAt, Coming, SigReady, SigPlaces, Preparing, Pair, Signal, Buried

\* Two processes that take turns by sigwait.
LEMMA SyncStep == ASSUME SigInv, Signals!Sync \/ Signals!SyncChild PROVE SigInv'
<1> USE DEF SigPlaces, Preparing, Pair, Signal
<1>1. prog = "sync"
  BY Zenon DEF Signals!Sync, Signals!SyncChild
<1>2. ASSUME NEW p \in Pair, NEW from \in SigPlaces, NEW to \in SigPlaces, NEW g \in {"INT", "TERM"},
             Signals!Catch(p, from, to, g), <<p, from, to>> \in {<<"parent", "int", "block">>, <<"child", "term", "sigwait">>}
      PROVE  SigInv'
  BY <1>1, <1>2, CallsGo, OnThePath DEF Path
<1>3. ASSUME Signals!Block("parent", "block", "fork", "USR2") PROVE SigInv'
  BY <1>1, <1>3, CallsGo, OnThePath DEF Path
<1>4. ASSUME Signals!Block("child", "block", "term", "USR1") PROVE SigInv'
  BY <1>1, <1>4, CallsGo, OnThePath DEF Path
<1>5. ASSUME Signals!Kill("parent", "send", "sigwait", "child", "USR1") PROVE SigInv'
  BY <1>1, <1>5, SentComes, CallsGo, OnThePath DEF Path
<1>6. ASSUME Signals!Kill("child", "answer", "sigwait", "parent", "USR2") PROVE SigInv'
  BY <1>1, <1>6, SentComes, CallsGo, OnThePath DEF Path
<1>7. ASSUME Signals!Sigwait("parent", "send", "USR2") PROVE SigInv'
  BY <1>1, <1>7, CallsGo, OnThePath DEF Path
<1>8. ASSUME Signals!Sigwait("child", "answer", "USR1") PROVE SigInv'
  BY <1>1, <1>8, CallsGo, OnThePath DEF Path
<1>9. ASSUME Signals!Fork("send", "exec") PROVE SigInv'
  BY <1>1, <1>9, SigForks
<1>10. ASSUME Signals!Exec("block") PROVE SigInv'
  BY <1>1, <1>10, SigExecs
<1>11. ASSUME Signals!Catch("parent", "int", "block", "INT") \/ Signals!Catch("child", "term", "sigwait", "TERM") PROVE SigInv'
  BY <1>11, <1>2
<1> HIDE DEF SigPlaces, Preparing, Pair, Signal
<1> QED
  BY <1>3, <1>4, <1>5, <1>6, <1>7, <1>8, <1>9, <1>10, <1>11, Zenon DEF Signals!Sync, Signals!SyncChild

\* Two processes that take turns by handlers and sigsuspend.
LEMMA AsyncStep == ASSUME SigInv, Signals!Async \/ Signals!AsyncChild PROVE SigInv'
<1> USE DEF SigPlaces, Preparing, Pair, Signal
<1>1. prog = "async"
  BY Zenon DEF Signals!Async, Signals!AsyncChild
<1>2. ASSUME Signals!Catch("parent", "int", "usr", "INT") \/ Signals!Catch("child", "term", "usr", "TERM") PROVE SigInv'
  BY <1>1, <1>2, CallsGo, OnThePath DEF Path
<1>3. ASSUME Signals!Catch("parent", "usr", "fork", "USR2") PROVE SigInv'
  <2>1. Goes("parent", "usr", "fork") /\ "USR2" \in caught'["parent"]
    BY <1>3, CallsGo
  <2> QED
    BY <1>1, <2>1, OnThePath DEF Path
<1>4. ASSUME Signals!Catch("child", "usr", IF finish = {} THEN "test" ELSE "exit", "USR1") PROVE SigInv'
  <2>1. PICK to \in {"test", "exit"} : Signals!Catch("child", "usr", to, "USR1")
    BY <1>4
  <2>2. Goes("child", "usr", to) /\ "USR1" \in caught'["child"]
    BY <2>1, CallsGo
  <2> QED
    BY <1>1, <2>2, OnThePath DEF Path
<1>5. ASSUME Signals!Kill("parent", "send", "test", "child", "USR1") PROVE SigInv'
  <2>1. Goes("parent", "send", "test")
    BY <1>1, <1>5, SentComes, CallsGo
  <2> QED
    BY <1>1, <2>1, OnThePath DEF Path
<1>6. ASSUME Signals!Kill("child", "answer", "reset", "parent", "USR2") PROVE SigInv'
  <2>1. Goes("child", "answer", "reset")
    BY <1>1, <1>6, SentComes, CallsGo
  <2> QED
    BY <1>1, <2>1, OnThePath DEF Path
<1>7. ASSUME NEW p \in Pair, NEW to \in {"got", "answer"}, Signals!Test(p, to), to = IF p = "parent" THEN "got" ELSE "answer"
      PROVE  SigInv'
  <2>1. Signals!Quiet(p, "test", "suspend") \/ Signals!Quiet(p, "test", to)
    BY <1>7, Zenon DEF Signals!Test
  <2>2. Goes(p, "test", "suspend") \/ Goes(p, "test", to)
    BY <2>1, CallsGo
  <2> QED
    BY <1>1, <1>7, <2>2, OnThePath DEF Path
<1>8. ASSUME NEW p \in Pair, NEW set, Signals!Sigsuspend(p, set) PROVE SigInv'
  BY <1>1, <1>8, SuspendGoes, OnThePath DEF Path
<1>9. ASSUME Signals!Quiet("parent", "got", "reset") PROVE SigInv'
  BY <1>1, <1>9, CallsGo, OnThePath DEF Path
<1>10. ASSUME Signals!Reset("parent", "send") PROVE SigInv'
  BY <1>1, <1>10, CallsGo, OnThePath DEF Path
<1>11. ASSUME Signals!Reset("child", IF finish = {} THEN "test" ELSE "exit") PROVE SigInv'
  <2>1. PICK to \in {"test", "exit"} : Signals!Reset("child", to)
    BY <1>11
  <2> QED
    BY <1>1, <2>1, CallsGo, OnThePath DEF Path
<1>12. ASSUME Signals!Fork("send", "exec") PROVE SigInv'
  BY <1>1, <1>12, SigForks
<1>13. ASSUME Signals!Exec("term") PROVE SigInv'
  BY <1>1, <1>13, SigExecs
<1>14. ASSUME Signals!Test("parent", "got") \/ Signals!Test("child", "answer") PROVE SigInv'
  BY <1>14, <1>7
<1>15. ASSUME Signals!Sigsuspend("parent", {"USR2", "INT"}) \/ Signals!Sigsuspend("child", {"TERM", "USR1"}) PROVE SigInv'
  BY <1>15, <1>8
<1> HIDE DEF SigPlaces, Preparing, Pair, Signal
<1> QED
  BY <1>2, <1>3, <1>4, <1>5, <1>6, <1>9, <1>10, <1>11, <1>12, <1>13, <1>14, <1>15, Zenon DEF Signals!Async, Signals!AsyncChild

\* The pairs with one signal.
LEMMA PairStep ==
  ASSUME SigInv, Signals!Chld \/ Signals!ChldChild \/ Signals!Once \/ Signals!OnceChild
                 \/ Signals!KillChild \/ Signals!WaitChild \/ Signals!LoopEnds
  PROVE  SigInv'
<1> USE DEF SigPlaces, Preparing, Pair, Signal
<1>1. ASSUME Signals!Chld PROVE SigInv'
  <2>1. prog = "chld"
    BY <1>1 DEF Signals!Chld
  <2>2. ASSUME Signals!Catch("parent", "usr", "fork", "CHLD") PROVE SigInv'
    BY <2>1, <2>2, CallsGo, OnThePath DEF Path
  <2>3. ASSUME Signals!Fork("sleep", "exec") PROVE SigInv'
    BY <2>1, <2>3, SigForks
  <2>4. ASSUME Signals!Quiet("parent", "sleep", "exit") PROVE SigInv'
    BY <2>1, <2>4, CallsGo, OnThePath DEF Path
  <2> QED
    BY <1>1, <2>2, <2>3, <2>4, Zenon DEF Signals!Chld
<1>2. ASSUME Signals!ChldChild PROVE SigInv'
  BY <1>2, SigExecs DEF Signals!ChldChild
<1>3. ASSUME Signals!Once PROVE SigInv'
  <2>1. prog = "once"
    BY <1>3 DEF Signals!Once
  <2>2. ASSUME Signals!Block("parent", "block", "fork", "USR1") PROVE SigInv'
    BY <2>1, <2>2, CallsGo, OnThePath DEF Path
  <2>3. ASSUME Signals!Fork("send", "sigwait") PROVE SigInv'
    BY <2>1, <2>3, SigForks
  <2>4. ASSUME Signals!Kill("parent", "send", "exit", "child", "USR1") PROVE SigInv'
    BY <2>1, <2>4, SentComes, CallsGo, OnThePath DEF Path
  <2> QED
    BY <1>3, <2>2, <2>3, <2>4, Zenon DEF Signals!Once
<1>4. ASSUME Signals!OnceChild PROVE SigInv'
  <2>1. prog = "once" /\ Signals!Sigwait("child", "exit", "USR1")
    BY <1>4 DEF Signals!OnceChild
  <2> QED
    BY <2>1, CallsGo, OnThePath DEF Path
<1>5. ASSUME prog \in {"kill", "wait"}, NEW to \in {"exit", "wait"}, Signals!StopAndKill(to) PROVE SigInv'
  <2>1. ASSUME Signals!Fork("stop", "run") PROVE SigInv'
    BY <1>5, <2>1, SigForks
  <2>2. ASSUME Signals!Kill("parent", "stop", "cont", "child", "STOP") PROVE SigInv'
    BY <1>5, <2>2, SentComes, CallsGo, OnThePath DEF Path
  <2>3. ASSUME Signals!Continue("parent", "cont", "kill", "child") PROVE SigInv'
    BY <1>5, <2>3, CallsGo, OnThePath DEF Path
  <2>4. ASSUME Signals!Kill("parent", "kill", to, "child", "TERM") PROVE SigInv'
    BY <1>5, <2>4, SentComes, CallsGo, OnThePath DEF Path
  <2> QED
    BY <1>5, <2>1, <2>2, <2>3, <2>4, Zenon DEF Signals!StopAndKill
<1>6. ASSUME prog = "wait", Signals!Wait PROVE SigInv'
  <2>1. /\ sat["parent"] = "wait" /\ sat["child"] = "zombie"
        /\ sat' = [sat EXCEPT !["parent"] = "exit", !["child"] = "reaped"]
        /\ UNCHANGED <<prog, pend, blocked, caught, x, how>>
    BY <1>6, Zenon DEF Signals!Wait, Signals!Ready, Signals!signals, Signals!user
  <2> QED
    BY <1>6, <2>1 DEF SigInv, SigTypes, SigAt, Coming, SigReady, Buried
<1>7. ASSUME Signals!LoopEnds PROVE SigInv'
  <2>1. prog \in {"kill", "wait"} /\ Signals!Quiet("child", "run", "exit")
    BY <1>7 DEF Signals!LoopEnds
  <2> QED
    BY <2>1, CallsGo, OnThePath DEF Path
<1> HIDE DEF SigPlaces, Preparing, Pair, Signal
<1>8. (Signals!KillChild \/ Signals!WaitChild) => SigInv'
  BY <1>5, <1>6 DEF Signals!KillChild, Signals!WaitChild
<1> QED
  BY <1>1, <1>2, <1>3, <1>4, <1>7, <1>8, Zenon

\* The receivers of 4cviko.
LEMMA ReceiverStep ==
  ASSUME SigInv, Signals!ReceiverAsync \/ Signals!ReceiverSync \/ Signals!ReceiverSigwait PROVE SigInv'
<1> USE DEF SigPlaces, Preparing, Pair, Signal
<1>1. ASSUME Signals!ReceiverAsync PROVE SigInv'
  <2>1. prog = "catch" /\ (Signals!Catch("child", "usr", "int", "USR1") \/ Signals!Catch("child", "int", "run", "INT"))
    BY <1>1 DEF Signals!ReceiverAsync
  <2>2. \/ Goes("child", "usr", "int") /\ "USR1" \in caught'["child"]
        \/ Goes("child", "int", "run")
    BY <2>1, CallsGo
  <2> QED
    BY <2>1, <2>2, OnThePath DEF Path
<1>2. ASSUME Signals!ReceiverSync PROVE SigInv'
  <2>1. prog = "suspend" /\ (Signals!Catch("child", "int", "suspend", "INT") \/ Signals!Sigsuspend("child", {"USR1"}))
    BY <1>2 DEF Signals!ReceiverSync
  <2>2. Goes("child", "int", "suspend") \/ Goes("child", "suspend", "asleep")
    BY <2>1, CallsGo, SuspendGoes
  <2> QED
    BY <2>1, <2>2, OnThePath DEF Path
<1>3. ASSUME Signals!ReceiverSigwait PROVE SigInv'
  <2>1. prog = "sigwait"
    BY <1>3 DEF Signals!ReceiverSigwait
  <2>2. ASSUME Signals!Catch("child", "usr", "block", "USR1") PROVE SigInv'
    BY <2>1, <2>2, CallsGo, OnThePath DEF Path
  <2>3. ASSUME Signals!Block("child", "block", "sigwait", "USR1") PROVE SigInv'
    BY <2>1, <2>3, CallsGo, OnThePath DEF Path
  <2>4. ASSUME Signals!Sigwait("child", "exit", "USR1") PROVE SigInv'
    BY <2>1, <2>4, CallsGo, OnThePath DEF Path
  <2> QED
    BY <1>3, <2>2, <2>3, <2>4, Zenon DEF Signals!ReceiverSigwait
<1> QED
  BY <1>1, <1>2, <1>3, Zenon

\* The handlers, and what happens without one.
LEMMA HandlerStep ==
  ASSUME SigInv, \/ Signals!TermHandler \/ Signals!PrintHandler("INT") \/ Signals!PrintHandler("USR1")
                 \/ Signals!ChildTermHandler \/ Signals!ChldHandler
                 \/ \E p \in Pair : Signals!Default(p) \/ Signals!UserHandler(p) \/ Signals!IntHandler(p) \/ Signals!Exit(p)
  PROVE  SigInv'
<1>1. ASSUME NEW p \in Pair, NEW g \in Signal, Signals!Handles(p, g), x' \in [Pair -> Nat] PROVE SigInv'
  <2>1. /\ g \in pend[p] /\ pend' = [pend EXCEPT ![p] = pend[p] \ {g}]
        /\ blocked' = IF sat[p] = "asleep" THEN [blocked EXCEPT ![p] = {}] ELSE blocked
        /\ Signals!Returns(p) /\ UNCHANGED <<prog, caught, how>>
    BY <1>1, Zenon DEF Signals!Handles, Signals!Due
  <2>2. Coming(pend) /\ sat[p] # "unborn"
    BY <2>1 DEF SigInv, Coming
  <2>3. pend' = [pend EXCEPT ![p] = pend'[p]] /\ pend'[p] \subseteq pend[p]
    BY <2>1, <2>2 DEF Coming
  <2> QED
    BY <1>1, <2>1, <2>2, <2>3, SigHandled
<1>2. ASSUME NEW p \in Pair, Signals!UserHandler(p) PROVE SigInv'
  <2>1. PICK g \in {"USR1", "USR2"} : Signals!Handles(p, g) /\ x' = [x EXCEPT ![p] = x[p] + 1]
    BY <1>2 DEF Signals!UserHandler
  <2>2. x' \in [Pair -> Nat]
    BY <2>1 DEF SigInv, SigTypes
  <2> QED
    BY <1>1, <2>1, <2>2 DEF Signal
<1>3. ASSUME Signals!TermHandler \/ Signals!PrintHandler("INT") \/ Signals!PrintHandler("USR1") PROVE SigInv'
  <2>1. PICK g \in Signal : Signals!Handles("child", g) /\ x' = x
    BY <1>3 DEF Signals!TermHandler, Signals!PrintHandler, Signals!user, Signal
  <2> QED
    BY <1>1, <2>1 DEF SigInv, SigTypes, Pair
<1>4. ASSUME Signals!ChildTermHandler PROVE SigInv'
  <2>1. "TERM" \in pend["child"] /\ Signals!Ends("child", "exit", pend)
    BY <1>4 DEF Signals!ChildTermHandler, Signals!Due
  <2>2. Coming(pend) /\ sat["child"] # "unborn"
    BY <2>1 DEF SigInv, Coming, Pair
  <2> QED
    BY <2>1, <2>2, SigEnds DEF Pair
<1>5. ASSUME Signals!ChldHandler PROVE SigInv'
  <2>1. /\ prog = "chld" /\ sat["child"] = "zombie"
        /\ sat' = [sat EXCEPT !["child"] = "reaped"] /\ pend' = [pend EXCEPT !["parent"] = pend["parent"] \ {"CHLD"}]
        /\ UNCHANGED <<prog, blocked, caught, x, how>>
    BY <1>5, Zenon DEF Signals!ChldHandler, Signals!user
  <2> QED
    BY <2>1 DEF SigInv, SigTypes, SigPlaces, SigAt, Coming, SigReady, Pair, Buried
<1>6. ASSUME NEW p \in Pair, Signals!Exit(p) PROVE SigInv'
  <2>1. sat[p] = "exit" /\ Signals!Ends(p, "exit", pend)
    BY <1>6 DEF Signals!Exit, Signals!Ready
  <2> QED
    BY <2>1, SigEnds DEF SigInv
<1>7. ASSUME NEW p \in Pair, Signals!IntHandler(p) PROVE SigInv'
  <2>1. /\ sat[p] # "unborn"
        /\ \/ \E q \in Pair : Signals!Ends(p, "TERM", Signals!Sent(q, "TERM")) \/ Signals!Ends(p, "exit", Signals!Sent(q, "TERM"))
           \/ /\ p = "parent" /\ pend' = [Signals!Sent("child", "TERM") EXCEPT ![p] = Signals!Sent("child", "TERM")[p] \ {"INT"}]
              /\ blocked' = IF sat[p] = "asleep" THEN [blocked EXCEPT ![p] = {}] ELSE blocked
              /\ Signals!Returns(p) /\ UNCHANGED <<prog, caught, how, x>>
    BY <1>7 DEF Signals!IntHandler, Signals!Alive, Signals!Other, Pair, Signals!user
  <2>2. \A q \in Pair : Coming(Signals!Sent(q, "TERM"))
    BY SentComes DEF Signal
  <2>3. ASSUME NEW q \in Pair, NEW h \in {"TERM", "exit"}, Signals!Ends(p, h, Signals!Sent(q, "TERM")) PROVE SigInv'
    BY <2>1, <2>2, <2>3, SigEnds DEF Signal
  <2>4. ASSUME p = "parent", pend' = [Signals!Sent("child", "TERM") EXCEPT ![p] = Signals!Sent("child", "TERM")[p] \ {"INT"}],
               blocked' = IF sat[p] = "asleep" THEN [blocked EXCEPT ![p] = {}] ELSE blocked,
               Signals!Returns(p), UNCHANGED <<prog, caught, how, x>>
        PROVE  SigInv'
    <3> DEFINE pending == Signals!Sent("child", "TERM")
    <3>1. Coming(pending)
      BY <2>2 DEF Pair
    <3>2. pend' = [pending EXCEPT ![p] = pend'[p]] /\ pend'[p] \subseteq pending[p]
      <4> HIDE DEF pending
      <4>1. pend' = [pending EXCEPT ![p] = pending[p] \ {"INT"}]
        BY <2>4 DEF pending
      <4> QED
        BY <3>1, <4>1 DEF Coming
    <3>3. x' \in [Pair -> Nat]
      BY <2>4 DEF SigInv, SigTypes
    <3> HIDE DEF pending
    <3> QED
      BY <2>1, <2>4, <3>1, <3>2, <3>3, SigHandled
  <2> QED
    BY <2>1, <2>3, <2>4, Zenon
<1>8. ASSUME NEW p \in Pair, Signals!Default(p) PROVE SigInv'
  <2>1. PICK g \in pend[p] \ (blocked[p] \cup caught[p]) :
          \/ /\ pend' = [pend EXCEPT ![p] = pend[p] \ {g}]
             /\ UNCHANGED <<prog, sat, blocked, caught, x, finish, how, outside, lost>>
          \/ Signals!Ends(p, g, pend)
    BY <1>8, DefaultDoes, Zenon
  <2>2. Coming(pend) /\ sat[p] # "unborn" /\ g \in Signal
    BY <2>1 DEF SigInv, Coming
  <2>3. CASE Signals!Ends(p, g, pend)
    BY <2>2, <2>3, SigEnds
  <2>4. CASE /\ pend' = [pend EXCEPT ![p] = pend[p] \ {g}]
             /\ UNCHANGED <<prog, sat, blocked, caught, x, finish, how, outside, lost>>
    BY <2>4 DEF SigInv, SigTypes, SigAt, Coming, SigReady, Pair
  <2> QED
    BY <2>1, <2>3, <2>4
<1> QED
  BY <1>2, <1>3, <1>4, <1>5, <1>6, <1>7, <1>8, Zenon

\* Every step keeps it.
LEMMA SigStep == SigInv /\ [Signals!Next]_(Signals!vars) => SigInv'
<1> SUFFICES ASSUME SigInv, [Signals!Next]_(Signals!vars) PROVE SigInv'
  OBVIOUS
<1>1. CASE UNCHANGED Signals!vars
  BY <1>1 DEF Signals!vars, SigInv, SigTypes, SigAt, Coming, SigReady
<1>2. CASE Signals!Outside
  <2>1. /\ UNCHANGED <<prog, sat, blocked, caught, x, how>>
        /\ \/ /\ prog \in {"sync", "async"}
              /\ pend' = [p \in Pair |-> IF Signals!Alive(p) THEN pend[p] \cup {"INT"} ELSE pend[p]]
           \/ prog \in {"catch", "suspend", "sigwait"} /\ \E g \in {"INT", "USR1"} : pend' = Signals!Sent("child", g)
    BY <1>2 DEF Signals!Outside, Signals!user, Signals!Process, Signals!Receivers, Pair
  <2>2. Coming(pend')
    BY <2>1, SentComes DEF SigInv, Coming, Pair, Signal, Signals!Alive
  <2> QED
    BY <2>1, <2>2 DEF SigInv, SigTypes, SigAt, Coming, SigReady
<1>3. CASE Signals!LoopEnds
  BY <1>3, PairStep
<1>4. ASSUME NEW p \in Pair, Signals!Run(p) PROVE SigInv'
  BY <1>4, HandlerStep, SyncStep, AsyncStep, PairStep, ReceiverStep, Zenon DEF Signals!Run
<1> QED
  BY <1>1, <1>2, <1>3, <1>4, Zenon DEF Signals!Next, Signals!Process, Pair

\* Only a signal without a handler ends a process in another way than exit or the SIGTERM that it sends
\* to its own group.
LeftBy(p) == \E h \in {"exit", "TERM"} : how' = [how EXCEPT ![p] = h]
LEMMA HowTheyEnd ==
  ASSUME [Signals!Next]_(Signals!vars)
  PROVE  how' = how \/ \E p \in Pair : LeftBy(p) \/ Signals!Default(p)
<1>1. ASSUME NEW p, NEW h \in {"exit", "TERM"}, NEW pending, Signals!Ends(p, h, pending) PROVE LeftBy(p)
  BY <1>1, Zenon DEF Signals!Ends, LeftBy
<1>2. ASSUME NEW p, NEW from, NEW to, NEW q, NEW g,
             \/ Signals!Catch(p, from, to, g) \/ Signals!Block(p, from, to, g) \/ Signals!Quiet(p, from, to)
             \/ Signals!Kill(p, from, to, q, g) \/ Signals!Sigwait(p, to, g) \/ Signals!Sigsuspend(p, q)
             \/ Signals!Reset(p, to) \/ Signals!Continue(p, from, to, q) \/ Signals!Handles(p, g)
      PROVE  how' = how
  BY <1>2 DEF Signals!Catch, Signals!Block, Signals!Quiet, Signals!Kill, Signals!Sigwait, Signals!Sigsuspend, Signals!Reset,
              Signals!Continue, Signals!Handles
<1>3. \A to, first : Signals!Fork(to, first) => how' = how \/ LeftBy("parent")
  BY <1>1, Zenon DEF Signals!Fork
<1>4. \A to : Signals!Exec(to) => how' = how \/ LeftBy("child")
  BY <1>1, Zenon DEF Signals!Exec
<1>5. \A p, to : Signals!Test(p, to) => how' = how
  BY <1>2, Zenon DEF Signals!Test
<1>6. Signals!Sync \/ Signals!SyncChild \/ Signals!Async \/ Signals!AsyncChild => how' = how \/ LeftBy("parent") \/ LeftBy("child")
  BY <1>2, <1>3, <1>4, <1>5, Zenon DEF Signals!Sync, Signals!SyncChild, Signals!Async, Signals!AsyncChild
<1>7. \/ Signals!Chld \/ Signals!ChldChild \/ Signals!Once \/ Signals!OnceChild \/ Signals!KillChild \/ Signals!WaitChild
      \/ Signals!LoopEnds
      => how' = how \/ LeftBy("parent") \/ LeftBy("child")
  BY <1>2, <1>3, <1>4, Zenon DEF Signals!Chld, Signals!ChldChild, Signals!Once, Signals!OnceChild, Signals!KillChild,
     Signals!WaitChild, Signals!StopAndKill, Signals!Wait, Signals!LoopEnds
<1>8. Signals!ReceiverAsync \/ Signals!ReceiverSync \/ Signals!ReceiverSigwait => how' = how
  BY <1>2, Zenon DEF Signals!ReceiverAsync, Signals!ReceiverSync, Signals!ReceiverSigwait
<1>9. ASSUME NEW p \in Pair, Signals!UserHandler(p) \/ Signals!IntHandler(p) \/ Signals!Exit(p) PROVE how' = how \/ LeftBy(p)
  <2>1. CASE Signals!UserHandler(p)
    BY <2>1, <1>2, Zenon DEF Signals!UserHandler
  <2>2. CASE Signals!IntHandler(p)
    BY <2>2, <1>1, Zenon DEF Signals!IntHandler
  <2>3. CASE Signals!Exit(p)
    BY <2>3, <1>1, Zenon DEF Signals!Exit
  <2> QED
    BY <1>9, <2>1, <2>2, <2>3
<1>10. \/ Signals!TermHandler \/ Signals!PrintHandler("INT") \/ Signals!PrintHandler("USR1") \/ Signals!ChldHandler
       \/ Signals!ChildTermHandler
       => how' = how \/ LeftBy("child")
  BY <1>1, <1>2, Zenon DEF Signals!TermHandler, Signals!PrintHandler, Signals!ChldHandler, Signals!ChildTermHandler
<1>11. UNCHANGED Signals!vars \/ Signals!Outside => how' = how
  BY Zenon DEF Signals!vars, Signals!Outside
<1>12. "parent" \in Pair /\ "child" \in Pair /\ Signals!Process = Pair
  BY DEF Pair, Signals!Process
<1>13. ASSUME NEW p \in Pair, Signals!Run(p) PROVE how' = how \/ LeftBy("parent") \/ LeftBy("child") \/ LeftBy(p) \/ Signals!Default(p)
  BY <1>13, <1>6, <1>7, <1>8, <1>9, <1>10, Zenon DEF Signals!Run
<1> QED
  BY <1>7, <1>11, <1>12, <1>13, Zenon DEF Signals!Next

\* Who is killed by SIGUSR1 or SIGUSR2 without being prepared for it.
LEMMA KilledByDefault ==
  ASSUME SigInv, NEW p \in Pair, NEW g \in {"USR1", "USR2"}, g \in pend[p] \ (blocked[p] \cup caught[p]), sat[p] \notin Buried
  PROVE  sat[p] \in Preparing \/ prog = "suspend"
BY DEF SigInv, SigTypes, SigAt, Coming, SigReady, Pair, Buried, Preparing

\* The step that kills.
LEMMA KillStep ==
  ASSUME SigInv, [Signals!Next]_(Signals!vars), NEW p \in Pair, how[p] = "none", how'[p] \in {"USR1", "USR2"}
  PROVE  sat[p] \in Preparing \/ prog = "suspend"
<1>1. how \in [Pair -> {"none", "exit"} \cup Signal]
  BY DEF SigInv, SigTypes
<1>2. PICK q \in Pair : Signals!Default(q)
  BY <1>1, HowTheyEnd DEF LeftBy
<1>3. PICK g \in pend[q] \ (blocked[q] \cup caught[q]) : sat[q] \notin Buried /\ (how' = how \/ Signals!Ends(q, g, pend))
  BY <1>2, DefaultDoes, Zenon
<1>4. how' = [how EXCEPT ![q] = g]
  BY <1>1, <1>3, Zenon DEF Signals!Ends
<1>5. p = q /\ how'[p] = g
  BY <1>1, <1>4
<1> QED
  BY <1>3, <1>5, KilledByDefault

\* Nobody who has blocked or caught the partner's signal dies of it (README.txt of 02 and 03).
THEOREM KilledBeforePrepared == PrSpec => KilledUnprepared
<1>1. SigInv /\ [Signals!Next]_(Signals!vars) =>
        [\A p \in Signals!Process : how[p] = "none" /\ how'[p] \in {"USR1", "USR2"}
           => sat[p] \in Signals!Setup \/ prog = "suspend"]_(Signals!vars)
  BY KillStep DEF Signals!Process, Pair, Signals!Setup, Preparing
<1>2. PrInit => SigInv
  BY SigInit DEF PrInit
<1>3. SigInv /\ [PrNext]_<<running, signalVars, pathVars, callVars>> => SigInv'
  BY SigStep, RunningParts
<1> QED
  BY <1>1, <1>2, <1>3, RunningParts, PTL DEF PrSpec, KilledUnprepared, Signals!KilledUnprepared

-----------------------------------------------------------------------------
\* The turn of the pairs that exchange SIGUSR1 and SIGUSR2: as long as
\* nothing comes from outside, nobody has ended and no signal has come
\* where its process cannot see it.
Undisturbed ==
  prog \in {"sync", "async"} /\ outside = 0 /\ (\A p \in Pair : how[p] = "none") /\ lost = "no"
ParentsTurn ==
  sat["parent"] \in Preparing \cup {"send", "got", "reset"} \/ (sat["parent"] = "test" /\ x["parent"] > 0)
ToChild == "USR1" \in pend["child"]
ChildsTurn == sat["child"] = "answer" \/ (sat["child"] = "test" /\ x["child"] > 0)
ToParent == "USR2" \in pend["parent"]
OneHasIt ==
  \/ ParentsTurn /\ ~ToChild /\ ~ChildsTurn /\ ~ToParent
  \/ ~ParentsTurn /\ ToChild /\ ~ChildsTurn /\ ~ToParent
  \/ ~ParentsTurn /\ ~ToChild /\ ChildsTurn /\ ~ToParent
  \/ ~ParentsTurn /\ ~ToChild /\ ~ChildsTurn /\ ToParent
Turn ==
  /\ OneHasIt
  /\ pend["parent"] \subseteq {"USR2"} /\ pend["child"] \subseteq {"USR1"}
  /\ finish = {} /\ sat["child"] # "exit"
  /\ sat["parent"] \in {"int", "usr", "block", "fork"} <=> sat["child"] = "unborn"
  /\ sat["child"] \in {"unborn", "exec", "block", "term", "usr"} => "USR1" \notin caught["child"] /\ x["child"] = 0
  /\ "USR1" \notin caught["parent"]
  /\ sat["parent"] \in Preparing \cup {"send", "sigwait"} => x["parent"] = 0
TurnInv == (outside \in Nat) /\ (Undisturbed => Turn)

\* What no step changes, and who changes the rest.
LEMMA WhoChanges ==
  ASSUME [Signals!Next]_(Signals!vars)
  PROVE  /\ prog' = prog
         /\ outside' = outside \/ Signals!Outside
         /\ lost' = lost \/ \E p \in Pair : Signals!UserHandler(p)
<1> DEFINE Same == prog' = prog /\ outside' = outside /\ lost' = lost
<1>1. ASSUME NEW p, NEW from, NEW to, NEW q, NEW g,
             \/ Signals!Catch(p, from, to, g) \/ Signals!Block(p, from, to, g) \/ Signals!Quiet(p, from, to)
             \/ Signals!Kill(p, from, to, q, g) \/ Signals!Sigwait(p, to, g) \/ Signals!Sigsuspend(p, q)
             \/ Signals!Reset(p, to) \/ Signals!Continue(p, from, to, q) \/ Signals!Ends(p, g, q)
      PROVE  Same
  BY <1>1 DEF Signals!Catch, Signals!Block, Signals!Quiet, Signals!Kill, Signals!Sigwait, Signals!Sigsuspend, Signals!Reset,
              Signals!Continue, Signals!Ends, Signals!user
<1>2. ASSUME NEW to, NEW first, Signals!Fork(to, first) PROVE Same
  BY <1>1, <1>2, Zenon DEF Signals!Fork, Signals!user
<1>3. ASSUME NEW to, Signals!Exec(to) PROVE Same
  BY <1>1, <1>3, Zenon DEF Signals!Exec, Signals!user
<1>4. ASSUME NEW p, NEW to, Signals!Test(p, to) PROVE Same
  BY <1>1, <1>4, Zenon DEF Signals!Test
<1>5. ASSUME NEW p, NEW g, Signals!Handles(p, g) PROVE prog' = prog /\ outside' = outside
  BY <1>5, Zenon DEF Signals!Handles
<1> HIDE DEF Same
<1>6. Signals!Sync \/ Signals!SyncChild \/ Signals!Async \/ Signals!AsyncChild => Same
  BY <1>1, <1>2, <1>3, <1>4, Zenon DEF Signals!Sync, Signals!SyncChild, Signals!Async, Signals!AsyncChild
<1>7. Signals!Wait => Same
  BY Zenon DEF Signals!Wait, Signals!user, Same
<1>8. \/ Signals!Chld \/ Signals!ChldChild \/ Signals!Once \/ Signals!OnceChild \/ Signals!KillChild \/ Signals!WaitChild
      \/ Signals!LoopEnds
      => Same
  BY <1>1, <1>2, <1>3, <1>7, Zenon DEF Signals!Chld, Signals!ChldChild, Signals!Once, Signals!OnceChild, Signals!KillChild,
     Signals!WaitChild, Signals!StopAndKill, Signals!LoopEnds
<1>9. Signals!ReceiverAsync \/ Signals!ReceiverSync \/ Signals!ReceiverSigwait => Same
  BY <1>1, Zenon DEF Signals!ReceiverAsync, Signals!ReceiverSync, Signals!ReceiverSigwait
<1>10. ASSUME NEW p, Signals!IntHandler(p) \/ Signals!Exit(p) PROVE Same
  <2>1. CASE Signals!IntHandler(p)
    BY <2>1, <1>1, Zenon DEF Signals!IntHandler, Signals!user, Same
  <2>2. CASE Signals!Exit(p)
    BY <2>2, <1>1, Zenon DEF Signals!Exit
  <2> QED
    BY <1>10, <2>1, <2>2
<1>11. ASSUME NEW p, Signals!Default(p) PROVE Same
  BY <1>1, <1>11, DefaultDoes, Zenon DEF Same
<1>12. \/ Signals!TermHandler \/ Signals!PrintHandler("INT") \/ Signals!PrintHandler("USR1") \/ Signals!ChldHandler
       \/ Signals!ChildTermHandler
       => Same
  BY <1>1, <1>5, Zenon DEF Signals!TermHandler, Signals!PrintHandler, Signals!ChldHandler, Signals!ChildTermHandler, Signals!user, Same
<1>13. ASSUME NEW p, Signals!UserHandler(p) PROVE prog' = prog /\ outside' = outside
  BY <1>13, <1>5, Zenon DEF Signals!UserHandler
<1>14. UNCHANGED Signals!vars => Same
  BY Zenon DEF Signals!vars, Same
<1>15. Signals!Outside => prog' = prog /\ lost' = lost
  BY Zenon DEF Signals!Outside, Signals!user
<1>16. ASSUME NEW p \in Pair, Signals!Run(p) PROVE Same \/ Signals!UserHandler(p)
  BY <1>16, <1>6, <1>8, <1>9, <1>10, <1>11, <1>12, Zenon DEF Signals!Run
<1>17. Signals!Process = Pair
  BY DEF Pair, Signals!Process
<1> QED
  BY <1>8, <1>13, <1>14, <1>15, <1>16, <1>17, Zenon DEF Signals!Next, Same

\* Who is undisturbed has been so.
LEMMA UndisturbedBefore ==
  ASSUME SigInv, TurnInv, [Signals!Next]_(Signals!vars), Undisturbed'
  PROVE  Undisturbed /\ how' = how /\ ~Signals!Outside
<1>1. ~Signals!Outside /\ outside = 0
  BY WhoChanges DEF TurnInv, Undisturbed, Signals!Outside
<1>2. ASSUME NEW p \in Pair, Signals!UserHandler(p) PROVE lost = "no"
  BY <1>2 DEF Signals!UserHandler, Undisturbed
<1>3. lost = "no"
  BY <1>2, WhoChanges DEF Undisturbed
<1>4. how \in [Pair -> {"none", "exit"} \cup Signal]
  BY DEF SigInv, SigTypes
<1>5. ASSUME NEW p \in Pair, LeftBy(p) PROVE FALSE
  BY <1>4, <1>5 DEF LeftBy, Undisturbed
<1>6. ASSUME NEW p \in Pair, Signals!Default(p) PROVE how' = how
  <2>1. PICK g \in pend[p] \ (blocked[p] \cup caught[p]) : how' = how \/ Signals!Ends(p, g, pend)
    BY <1>6, DefaultDoes, Zenon
  <2>2. g \in Signal
    BY <2>1 DEF SigInv, Coming
  <2>3. ASSUME Signals!Ends(p, g, pend) PROVE FALSE
    <3>1. how' = [how EXCEPT ![p] = g]
      BY <2>3, Zenon DEF Signals!Ends
    <3> QED
      BY <1>4, <2>2, <3>1 DEF Undisturbed, Signal
  <2> QED
    BY <2>1, <2>3
<1>7. how' = how
  BY <1>5, <1>6, HowTheyEnd
<1> QED
  BY <1>1, <1>3, <1>7, WhoChanges DEF Undisturbed

\* A call that passes no turn: a signal is blocked or caught, x is tested or the answer given.
LEMMA TurnStays ==
  ASSUME SigInv, Undisturbed, Turn, NEW p \in Pair, NEW from, NEW to, NEW g \in Signal,
         \/ /\ Signals!Block(p, from, to, g)
            /\ <<p, from, to>> \in {<<"parent", "block", "fork">>, <<"child", "block", "term">>}
         \/ /\ Signals!Catch(p, from, to, g)
            /\ <<p, from, to, g>> \in {<<"parent", "int", "block", "INT">>, <<"parent", "int", "usr", "INT">>,
                                       <<"parent", "usr", "fork", "USR2">>, <<"child", "term", "sigwait", "TERM">>,
                                       <<"child", "term", "usr", "TERM">>, <<"child", "usr", "test", "USR1">>}
         \/ Signals!Quiet(p, from, to) /\ <<p, from, to>> = <<"parent", "got", "reset">>
         \/ Signals!Quiet(p, from, to) /\ from = "test" /\ \/ x[p] > 0 /\ to = IF p = "parent" THEN "got" ELSE "answer"
                                                           \/ x[p] = 0 /\ to = "suspend"
  PROVE  Turn'
<1>1. /\ sat[p] = from /\ sat' = [sat EXCEPT ![p] = to]
      /\ pend' = pend /\ x' = x /\ finish' = finish
      /\ caught' = caught \/ caught' = [caught EXCEPT ![p] = caught[p] \cup {g}]
      /\ Signals!Quiet(p, from, to) \/ Signals!Block(p, from, to, g) => caught' = caught
  BY Zenon DEF Signals!Catch, Signals!Block, Signals!Quiet, Signals!Goto, Signals!Ready, Signals!user, Signals!signals
<1>2. OneHasIt'
  BY <1>1 DEF SigInv, SigTypes, Turn, OneHasIt, ParentsTurn, ToChild, ChildsTurn, ToParent, Pair, Preparing
<1>3. (finish = {})' /\ (sat["child"] # "exit")' /\ (pend["parent"] \subseteq {"USR2"} /\ pend["child"] \subseteq {"USR1"})'
  BY <1>1 DEF SigInv, SigTypes, Turn, Pair
<1>4. (sat["parent"] \in {"int", "usr", "block", "fork"} <=> sat["child"] = "unborn")'
  BY <1>1 DEF SigInv, SigTypes, Turn, Pair
<1>5. /\ (sat["child"] \in {"unborn", "exec", "block", "term", "usr"} => "USR1" \notin caught["child"] /\ x["child"] = 0)'
      /\ ("USR1" \notin caught["parent"])'
      /\ (sat["parent"] \in Preparing \cup {"send", "sigwait"} => x["parent"] = 0)'
  BY <1>1 DEF SigInv, SigTypes, Turn, Pair, Preparing
<1> QED
  BY <1>2, <1>3, <1>4, <1>5 DEF Turn

\* Nobody who has not ended is buried, and the parent and its child are there.
LEMMA BothAreThere ==
  ASSUME SigInv, Undisturbed, Turn
  PROVE  /\ Signals!Alive("parent")
         /\ sat["parent"] \notin {"int", "usr", "block", "fork"} => Signals!Alive("child")
BY DEF SigInv, SigTypes, SigAt, Undisturbed, Turn, Pair, Buried, Signals!Alive, Signals!Gone

\* Who has the turn gives it away: to the child, to the parent.
LEMMA TurnSent ==
  ASSUME SigInv, Undisturbed, Turn
  PROVE  /\ \A to \in {"sigwait", "test"} : Signals!Kill("parent", "send", to, "child", "USR1") => Turn'
         /\ \A to \in {"sigwait", "reset"} : Signals!Kill("child", "answer", to, "parent", "USR2") => Turn'
<1>1. ASSUME NEW to \in {"sigwait", "test"}, Signals!Kill("parent", "send", to, "child", "USR1") PROVE Turn'
  <2>1. /\ sat["parent"] = "send" /\ sat' = [sat EXCEPT !["parent"] = to]
        /\ pend' = Signals!Sent("child", "USR1") /\ x' = x /\ finish' = finish /\ caught' = caught
    BY <1>1, Zenon DEF Signals!Kill, Signals!Goto, Signals!Ready, Signals!user
  <2>2. pend' = [pend EXCEPT !["child"] = pend["child"] \cup {"USR1"}]
    BY <2>1, BothAreThere DEF Signals!Sent
  <2>3. OneHasIt'
    BY <2>1, <2>2 DEF SigInv, SigTypes, Coming, Turn, OneHasIt, ParentsTurn, ToChild, ChildsTurn, ToParent, Pair, Preparing
  <2> QED
    BY <2>1, <2>2, <2>3 DEF SigInv, SigTypes, Coming, Turn, Pair, Preparing
<1>2. ASSUME NEW to \in {"sigwait", "reset"}, Signals!Kill("child", "answer", to, "parent", "USR2") PROVE Turn'
  <2>1. /\ sat["child"] = "answer" /\ sat' = [sat EXCEPT !["child"] = to]
        /\ pend' = Signals!Sent("parent", "USR2") /\ x' = x /\ finish' = finish /\ caught' = caught
    BY <1>2, Zenon DEF Signals!Kill, Signals!Goto, Signals!Ready, Signals!user
  <2>2. pend' = [pend EXCEPT !["parent"] = pend["parent"] \cup {"USR2"}]
    BY <2>1, BothAreThere DEF Signals!Sent
  <2>3. OneHasIt'
    BY <2>1, <2>2 DEF SigInv, SigTypes, Coming, Turn, OneHasIt, ParentsTurn, ToChild, ChildsTurn, ToParent, Pair, Preparing
  <2> QED
    BY <2>1, <2>2, <2>3 DEF SigInv, SigTypes, Coming, Turn, Pair, Preparing
<1> QED
  BY <1>1, <1>2

\* Who waits for the turn gets it: by sigwait, or by a handler that counts.
LEMMA TurnTaken ==
  ASSUME SigInv, Undisturbed, Turn
  PROVE  /\ Signals!Sigwait("parent", "send", "USR2") => Turn'
         /\ Signals!Sigwait("child", "answer", "USR1") => Turn'
<1>1. ASSUME NEW p \in Pair, NEW to, NEW g, Signals!Sigwait(p, to, g),
             <<p, to, g>> \in {<<"parent", "send", "USR2">>, <<"child", "answer", "USR1">>}
      PROVE  Turn'
  <2>1. /\ sat[p] = "sigwait" /\ sat' = [sat EXCEPT ![p] = to]
        /\ g \in pend[p] /\ pend' = [pend EXCEPT ![p] = pend[p] \ {g}]
        /\ x' = x /\ finish' = finish /\ caught' = caught
    BY <1>1, Zenon DEF Signals!Sigwait, Signals!Ready, Signals!user
  <2>2. OneHasIt'
    BY <1>1, <2>1 DEF SigInv, SigTypes, Coming, Turn, OneHasIt, ParentsTurn, ToChild, ChildsTurn, ToParent, Pair, Preparing
  <2> QED
    BY <1>1, <2>1, <2>2 DEF SigInv, SigTypes, Coming, Turn, Pair, Preparing
<1> QED
  BY <1>1 DEF Pair

\* fork and exec, which succeed as long as nobody ends.
LEMMA TurnForked ==
  ASSUME SigInv, Undisturbed, Turn, how' = how
  PROVE  /\ Signals!Fork("send", "exec") => Turn'
         /\ \A to \in {"block", "term"} : Signals!Exec(to) => Turn'
<1>1. ASSUME NEW p \in Pair, Signals!Ends(p, "exit", pend) PROVE FALSE
  <2>1. how' = [how EXCEPT ![p] = "exit"]
    BY <1>1, Zenon DEF Signals!Ends
  <2> QED
    BY <2>1 DEF SigInv, SigTypes, Undisturbed
<1>2. ASSUME Signals!Fork("send", "exec") PROVE Turn'
  <2>1. /\ sat["parent"] = "fork" /\ sat' = [sat EXCEPT !["parent"] = "send", !["child"] = "exec"]
        /\ caught' = [caught EXCEPT !["child"] = caught["parent"]]
        /\ pend' = pend /\ x' = x /\ finish' = finish
    BY <1>1, <1>2 DEF Signals!Fork, Signals!Ready, Signals!user, Pair
  <2>2. OneHasIt'
    BY <2>1 DEF SigInv, SigTypes, Turn, OneHasIt, ParentsTurn, ToChild, ChildsTurn, ToParent, Pair, Preparing
  <2> QED
    BY <2>1, <2>2 DEF SigInv, SigTypes, Turn, Pair, Preparing
<1>3. ASSUME NEW to \in {"block", "term"}, Signals!Exec(to) PROVE Turn'
  <2>1. /\ sat["child"] = "exec" /\ sat' = [sat EXCEPT !["child"] = to]
        /\ caught' = [caught EXCEPT !["child"] = {}]
        /\ pend' = pend /\ x' = x /\ finish' = finish
    BY <1>1, <1>3 DEF Signals!Exec, Signals!Goto, Signals!Ready, Signals!user, Pair
  <2>2. OneHasIt'
    BY <2>1 DEF SigInv, SigTypes, Turn, OneHasIt, ParentsTurn, ToChild, ChildsTurn, ToParent, Pair, Preparing
  <2> QED
    BY <2>1, <2>2 DEF SigInv, SigTypes, Turn, Pair, Preparing
<1> QED
  BY <1>2, <1>3

\* sigsuspend waits without a turn; x is set to zero when the turn has been used or given away.
LEMMA TurnAwaited ==
  ASSUME SigInv, Undisturbed, Turn
  PROVE  /\ \A p \in Pair : \A set : Signals!Sigsuspend(p, set) => Turn'
         /\ Signals!Reset("parent", "send") => Turn'
         /\ Signals!Reset("child", IF finish = {} THEN "test" ELSE "exit") => Turn'
<1>1. ASSUME NEW p \in Pair, NEW set, Signals!Sigsuspend(p, set) PROVE Turn'
  <2>1. /\ sat[p] = "suspend" /\ sat' = [sat EXCEPT ![p] = "asleep"]
        /\ pend' = pend /\ x' = x /\ finish' = finish /\ caught' = caught
    BY <1>1, Zenon DEF Signals!Sigsuspend, Signals!Goto, Signals!Ready, Signals!user
  <2>2. OneHasIt'
    BY <2>1 DEF SigInv, SigTypes, Turn, OneHasIt, ParentsTurn, ToChild, ChildsTurn, ToParent, Pair, Preparing
  <2> QED
    BY <2>1, <2>2 DEF SigInv, SigTypes, Turn, Pair, Preparing
<1>2. ASSUME NEW p \in Pair, NEW to, Signals!Reset(p, to), <<p, to>> \in {<<"parent", "send">>, <<"child", "test">>} PROVE Turn'
  <2>1. /\ sat[p] = "reset" /\ sat' = [sat EXCEPT ![p] = to]
        /\ pend' = pend /\ x' = [x EXCEPT ![p] = 0] /\ finish' = finish /\ caught' = caught
    BY <1>2, Zenon DEF Signals!Reset, Signals!Goto, Signals!Ready, Signals!signals
  <2>2. OneHasIt'
    BY <1>2, <2>1 DEF SigInv, SigTypes, Turn, OneHasIt, ParentsTurn, ToChild, ChildsTurn, ToParent, Pair, Preparing
  <2> QED
    BY <1>2, <2>1, <2>2 DEF SigInv, SigTypes, Turn, Pair, Preparing
<1>3. finish = {}
  BY DEF Turn
<1> QED
  BY <1>1, <1>2, <1>3 DEF Pair

\* The handler that counts the partner's signal, where the process will see that it has.
LEMMA TurnCounted ==
  ASSUME SigInv, Undisturbed, Turn, NEW p \in Pair, Signals!UserHandler(p), lost' = "no"
  PROVE  Turn'
<1> DEFINE g == IF p = "child" THEN "USR1" ELSE "USR2"
<1>1. /\ prog = "async" /\ g \in pend[p] /\ g \in caught[p]
      /\ pend' = [pend EXCEPT ![p] = pend[p] \ {g}]
      /\ Signals!Returns(p) /\ x' = [x EXCEPT ![p] = x[p] + 1]
      /\ finish' = finish /\ caught' = caught
  BY Zenon DEF Signals!UserHandler, Signals!Handles, Signals!Due
<1>2. sat[p] \notin {"suspend", "got", "reset"}
  BY DEF Signals!UserHandler
<1>3. sat[p] \in {"test", "asleep"}
  BY <1>1, <1>2 DEF SigInv, SigTypes, SigAt, Undisturbed, Turn, OneHasIt, ParentsTurn, ToChild, ChildsTurn, ToParent,
                    Pair, Preparing, Buried
<1>4. \/ sat[p] = "test" /\ sat' = sat
      \/ sat[p] = "asleep" /\ sat' = [sat EXCEPT ![p] = IF p = "parent" THEN "got" ELSE "answer"]
  BY <1>1, <1>3 DEF Signals!Returns, SigInv, SigTypes
<1>5. x[p] + 1 > 0
  BY DEF SigInv, SigTypes
<1>6. OneHasIt'
  BY <1>1, <1>4, <1>5 DEF SigInv, SigTypes, Coming, Turn, OneHasIt, ParentsTurn, ToChild, ChildsTurn, ToParent, Pair, Preparing
<1> QED
  BY <1>1, <1>4, <1>5, <1>6 DEF SigInv, SigTypes, Coming, Turn, Pair, Preparing

\* Undisturbed, there are no other steps.
LEMMA TurnSteps ==
  ASSUME SigInv, Undisturbed, Turn, how' = how, NEW p \in Pair, Signals!Run(p)
  PROVE  \/ Signals!UserHandler(p)
         \/ Signals!Sync \/ Signals!SyncChild \/ Signals!Async \/ Signals!AsyncChild
<1>1. prog \in {"sync", "async"}
  BY DEF Undisturbed
<1>2. \A q \in Pair : "INT" \notin pend[q] /\ "TERM" \notin pend[q] /\ pend[q] \subseteq {"USR1", "USR2"}
  BY DEF Turn, Pair
<1>3. ~Signals!IntHandler(p) /\ ~Signals!TermHandler /\ ~Signals!ChildTermHandler
  BY <1>2 DEF Signals!IntHandler, Signals!TermHandler, Signals!ChildTermHandler, Signals!Handles, Signals!Due, Pair
<1>4. ASSUME NEW h \in {"exit"} \cup Signal, Signals!Ends(p, h, pend) PROVE FALSE
  <2>1. how' = [how EXCEPT ![p] = h]
    BY <1>4, Zenon DEF Signals!Ends
  <2> QED
    BY <2>1 DEF SigInv, SigTypes, Undisturbed, Signal
<1>5. ~Signals!Exit(p)
  BY <1>4 DEF Signals!Exit
<1>6. ASSUME Signals!Default(p) PROVE FALSE
  <2>1. PICK g \in pend[p] \ (blocked[p] \cup caught[p]) : g \in {"STOP", "CHLD"} \/ Signals!Ends(p, g, pend)
    BY <1>6, DefaultDoes, Zenon
  <2> QED
    BY <1>2, <1>4, <2>1 DEF Signal
<1>7. /\ ~Signals!ChldHandler /\ ~Signals!Chld /\ ~Signals!Once /\ ~Signals!KillChild /\ ~Signals!WaitChild
      /\ ~Signals!PrintHandler("INT") /\ ~Signals!PrintHandler("USR1") /\ ~Signals!ChldChild /\ ~Signals!OnceChild
      /\ ~Signals!ReceiverAsync /\ ~Signals!ReceiverSync /\ ~Signals!ReceiverSigwait
  BY <1>1 DEF Signals!ChldHandler, Signals!Chld, Signals!Once, Signals!KillChild, Signals!WaitChild, Signals!PrintHandler,
     Signals!ChldChild, Signals!OnceChild, Signals!ReceiverAsync, Signals!ReceiverSync, Signals!ReceiverSigwait,
     Signals!Receivers
<1> QED
  BY <1>3, <1>5, <1>6, <1>7, Zenon DEF Signals!Run

\* At first the parent has the turn.
LEMMA TurnInit == Signals!Init => TurnInv
BY DEF Signals!Init, Signals!Begin, Signals!Receiver, Signals!Pairs, Signals!Receivers, Signals!Process,
       TurnInv, Turn, Undisturbed, OneHasIt, ParentsTurn, ToChild, ChildsTurn, ToParent, Preparing, Pair

\* Every step keeps the turn one.
LEMMA TurnStep == SigInv /\ TurnInv /\ [Signals!Next]_(Signals!vars) => TurnInv'
<1> SUFFICES ASSUME SigInv, TurnInv, [Signals!Next]_(Signals!vars), Undisturbed' PROVE Turn'
  <2>1. ASSUME SigInv, TurnInv, [Signals!Next]_(Signals!vars) PROVE outside' \in Nat
    BY <2>1, WhoChanges DEF TurnInv, Signals!Outside
  <2> QED
    BY <2>1 DEF TurnInv
<1>1. Undisturbed /\ Turn /\ how' = how /\ ~Signals!Outside /\ lost' = "no"
  BY UndisturbedBefore DEF TurnInv, Undisturbed
<1>2. CASE UNCHANGED Signals!vars
  BY <1>1, <1>2 DEF Signals!vars, Turn, OneHasIt, ParentsTurn, ToChild, ChildsTurn, ToParent
<1>3. CASE Signals!Sync \/ Signals!SyncChild
  BY <1>1, <1>3, TurnStays, TurnSent, TurnTaken, TurnForked, Zenon DEF Signals!Sync, Signals!SyncChild, Pair, Signal
<1>4. CASE Signals!Async \/ Signals!AsyncChild
  <2> USE DEF Pair, Signal
  <2>1. ASSUME NEW p \in Pair, Signals!Test(p, IF p = "parent" THEN "got" ELSE "answer") PROVE Turn'
    BY <1>1, <2>1, TurnStays DEF Signals!Test
  <2>2. ASSUME Signals!Test("parent", "got") \/ Signals!Test("child", "answer") PROVE Turn'
    BY <2>1, <2>2
  <2>3. ASSUME \/ Signals!Catch("parent", "int", "usr", "INT") \/ Signals!Catch("parent", "usr", "fork", "USR2")
               \/ Signals!Catch("child", "term", "usr", "TERM")
               \/ Signals!Catch("child", "usr", IF finish = {} THEN "test" ELSE "exit", "USR1")
        PROVE  Turn'
    BY <1>1, <2>3, TurnStays DEF Turn
  <2>4. ASSUME Signals!Quiet("parent", "got", "reset") PROVE Turn'
    BY <1>1, <2>4, TurnStays
  <2> HIDE DEF Signal
  <2> QED
    BY <1>1, <1>4, <2>2, <2>3, <2>4, TurnSent, TurnAwaited, TurnForked, Zenon DEF Signals!Async, Signals!AsyncChild
<1>5. ASSUME NEW p \in Pair, Signals!UserHandler(p) PROVE Turn'
  BY <1>1, <1>5, TurnCounted
<1>6. ~Signals!LoopEnds
  BY <1>1 DEF Signals!LoopEnds, Undisturbed
<1>7. ASSUME NEW p \in Pair, Signals!Run(p) PROVE Turn'
  BY <1>1, <1>3, <1>4, <1>5, <1>7, TurnSteps, Zenon
<1> QED
  BY <1>1, <1>2, <1>6, <1>7, Zenon DEF Signals!Next, Signals!Process, Pair

\* The processes of 02 and 03 pass one turn around: nobody prints out of turn, and the turn is lost
\* only as OneTurn says (parent2.c, child2.c, parent3.c, child3.c).
THEOREM TurnIsOne == PrSpec => []OneTurn
<1>1. TurnInv => OneTurn
  <2> SUFFICES ASSUME TurnInv, prog \in {"sync", "async"}, outside = 0, how = [p \in Signals!Process |-> "none"], lost = "no"
               PROVE  \E w \in Signals!Turns : Signals!Turns = {w}
    BY DEF OneTurn, Signals!OneTurn
  <2>1. \A p \in Pair : how[p] = "none"
    BY DEF Signals!Process, Pair
  <2>2. OneHasIt
    BY <2>1 DEF TurnInv, Turn, Undisturbed
  <2>3. \E w : Signals!Turns = {w}
    BY <2>2 DEF Signals!Turns, OneHasIt, ParentsTurn, ToChild, ChildsTurn, ToParent, Signals!Setup, Preparing
  <2> QED
    BY <2>3, Zenon
<1>2. PrInit => SigInv /\ TurnInv
  BY SigInit, TurnInit DEF PrInit
<1>3. SigInv /\ TurnInv /\ [PrNext]_<<running, signalVars, pathVars, callVars>> => SigInv' /\ TurnInv'
  BY SigStep, TurnStep, RunningParts
<1> QED
  BY <1>1, <1>2, <1>3, PTL DEF PrSpec

-----------------------------------------------------------------------------
\* The types of SignalSync.  x stays within its bound because what async
\* can still count is bounded: the turns its processes have or have
\* counted, the signals on their way, and a SIGINT, which makes the parent
\* repeat, are together one more than the signals from outside.  A child
\* that answers has counted something, or SIGINT is about to end it.
\* The turns that a process has, or has counted and will pass on.
ParentHas ==
  IF sat["parent"] \in {"unborn", "send"} \cup Preparing THEN 1 + x["parent"]
  ELSE IF sat["parent"] \in {"got", "reset"} /\ x["parent"] = 0 THEN 1 ELSE x["parent"]
ChildHas == IF sat["child"] \in {"reset", "exit"} \cup Buried /\ x["child"] > 0 THEN x["child"] - 1 ELSE x["child"]
Usr1 == IF "USR1" \in pend["child"] THEN 1 ELSE 0
Usr2 == IF "USR2" \in pend["parent"] THEN 1 ELSE 0
Interrupts == IF "INT" \in pend["parent"] THEN 1 ELSE 0
AllTurns == ParentHas + ChildHas + Usr1 + Usr2 + Interrupts <= 1 + outside
Unblocked == \A p \in Pair : sat[p] \notin {"asleep"} \cup Buried => blocked[p] = {}
Doomed ==
  /\ "INT" \in pend["parent"] \/ "TERM" \in pend["child"] => sat["child"] \in {"unborn"} \cup Buried \/ "INT" \in pend["child"]
  /\ sat["child"] = "answer" /\ x["child"] = 0 => "INT" \in pend["child"]
OneFork == sat["parent"] \in {"int", "usr", "fork"} => sat["child"] = "unborn"
Counting == IF prog = "async" THEN Unblocked /\ OneFork /\ Doomed /\ AllTurns ELSE \A p \in Pair : x[p] = 0
Rest ==
  /\ stopped \subseteq {"child"} /\ "STOP" \notin pend["parent"] /\ finish \subseteq {"child"}
  /\ outside \in 0 .. MaxOutside /\ lost \in {"no", "gap", "reset"}
CountInv == Rest /\ Counting

\* The counts are numbers.
LEMMA HasNat ==
  ASSUME SigInv
  PROVE  /\ ParentHas \in Nat /\ ChildHas \in Nat
         /\ Usr1 \in {0, 1} /\ Usr2 \in {0, 1} /\ Interrupts \in {0, 1}
BY DEF SigInv, SigTypes, ParentHas, ChildHas, Usr1, Usr2, Interrupts, Pair

\* They are after a step, too.
LEMMA HasNatNext == SigInv' => (ParentHas \in Nat /\ ChildHas \in Nat)'
<1>1. SigInv => ParentHas \in Nat /\ ChildHas \in Nat
  BY HasNat
<1> QED
  BY <1>1, PTL

\* No signal is new, and the processes have no more.
LEMMA FewerSignals ==
  ASSUME AllTurns, ParentHas' <= ParentHas, ChildHas' <= ChildHas, ParentHas \in Nat, ChildHas \in Nat,
         ParentHas' \in Nat, ChildHas' \in Nat, outside' = outside, outside \in Nat,
         "USR1" \in pend'["child"] => "USR1" \in pend["child"],
         "USR2" \in pend'["parent"] => "USR2" \in pend["parent"],
         "INT" \in pend'["parent"] => "INT" \in pend["parent"]
  PROVE  AllTurns'
<1>1. Usr1' <= Usr1 /\ Usr1 \in Nat /\ Usr1' \in Nat
  BY DEF Usr1
<1>2. Usr2' <= Usr2 /\ Usr2 \in Nat /\ Usr2' \in Nat
  BY DEF Usr2
<1>3. Interrupts' <= Interrupts /\ Interrupts \in Nat /\ Interrupts' \in Nat
  BY DEF Interrupts
<1> QED
  BY <1>1, <1>2, <1>3 DEF AllTurns

\* What the invariant says of the types.
LEMMA CountMeans == ASSUME SigInv, CountInv PROVE Signals!TypeOK
<1>1. MaxOutside \in Nat
  BY ProcessesAssumption DEF Signals!SignalAssumption
<1>2. \A p \in Pair : x[p] \in 0 .. 2 + MaxOutside
  <2>1. outside \in Nat /\ outside <= MaxOutside /\ x["parent"] \in Nat /\ x["child"] \in Nat
    BY <1>1 DEF SigInv, SigTypes, CountInv, Rest, Pair
  <2>2. CASE prog = "async"
    BY <1>1, <2>1, <2>2 DEF CountInv, Counting, AllTurns, ParentHas, ChildHas, Usr1, Usr2, Interrupts, Pair
  <2>3. CASE prog # "async"
    BY <1>1, <2>3 DEF CountInv, Counting
  <2> QED
    BY <2>2, <2>3
<1>3. x \in [Pair -> 0 .. 2 + MaxOutside]
  BY <1>2 DEF SigInv, SigTypes
<1>4. /\ Signals!Process = Pair /\ Signals!Sig = Signal
      /\ prog \in Signals!Pairs \cup Signals!Receivers
  BY DEF Signals!Process, Signals!Sig, Pair, Signal, SigInv, SigTypes, Signals!Pairs, Signals!Receivers
<1>5. sat \in [Pair -> {"unborn", "send", "sigwait", "test", "suspend", "asleep", "got", "reset",
                         "answer", "run", "stop", "cont", "kill", "wait", "sleep", "exit"}
                        \cup Signals!Setup \cup Signals!Gone]
  BY DEF SigInv, SigTypes, SigPlaces, Preparing, Buried, Signals!Setup, Signals!Gone
<1> QED
  BY <1>3, <1>4, <1>5 DEF Signals!TypeOK, SigInv, SigTypes, Coming, CountInv, Rest

\* It holds at the start.
LEMMA CountInit == Signals!Init => CountInv
<1> SUFFICES ASSUME Signals!Init PROVE CountInv
  OBVIOUS
<1>1. 0 \in 0 .. MaxOutside
  BY ProcessesAssumption DEF Signals!SignalAssumption
<1>2. Rest
  BY <1>1 DEF Signals!Init, Rest, Signals!Process
<1>3. Counting
  BY DEF Signals!Init, Signals!Begin, Signals!Receiver, Signals!Pairs, Signals!Receivers, Signals!Process,
     Counting, Unblocked, OneFork, Doomed, AllTurns, ParentHas, ChildHas, Usr1, Usr2, Interrupts, Preparing, Pair, Buried
<1> QED
  BY <1>2, <1>3 DEF CountInv

\* The end of a process; what it has sent before is TERM, to its group or to the child.
LEMMA CountEnds ==
  ASSUME SigInv, CountInv, NEW p \in Pair, sat[p] \notin {"unborn"} \cup Buried,
         NEW h, NEW pending, Signals!Ends(p, h, pending),
         \/ pending = pend
         \/ \E q \in Pair \ {p} : pending = Signals!Sent(q, "TERM") /\ (q = "child" => "INT" \in pend["parent"])
  PROVE  CountInv'
<1>1. /\ \/ p = "child" /\ sat' = [sat EXCEPT ![p] = "zombie"]
         \/ sat' = [sat EXCEPT ![p] = "reaped"]
      /\ stopped' = stopped \ {p}
      /\ prog' = prog /\ blocked' = blocked /\ x' = x /\ finish' = finish /\ outside' = outside /\ lost' = lost
  BY DEF Signals!Ends, Signals!user
<1>2. pend' = [q \in Pair |-> IF q = p THEN {} ELSE IF q = "parent" /\ Signals!Alive(q)
                              THEN pending[q] \cup {"CHLD"} ELSE pending[q]]
  BY Zenon DEF Signals!Ends, Signals!Process, Pair
<1>3. \A q \in Pair : pending[q] \subseteq pend[q] \cup {"TERM"}
  BY DEF Signals!Sent, SigInv, Coming
<1>4. /\ pend'[p] = {} /\ \A q \in Pair : pend'[q] \subseteq pend[q] \cup {"TERM", "CHLD"}
  BY <1>2, <1>3
<1>5. Rest'
  BY <1>1, <1>4 DEF CountInv, Rest, Pair
<1>6. CASE prog # "async"
  BY <1>1, <1>5, <1>6 DEF CountInv, Counting
<1>7. CASE prog = "async"
  <2>1. Unblocked'
    BY <1>1, <1>7 DEF CountInv, Counting, Unblocked, SigInv, SigTypes, Buried
  <2>0. OneFork'
    BY <1>1, <1>7 DEF CountInv, Counting, OneFork, SigInv, SigTypes, Pair
  <2>2. Doomed'
    <3>1. CASE p = "child"
      BY <1>1, <3>1 DEF Doomed, SigInv, SigTypes, Pair, Buried
    <3>2. CASE p = "parent"
      <4>1. /\ sat'["child"] = sat["child"] /\ x'["child"] = x["child"] /\ pend'["parent"] = {}
            /\ pend'["child"] = pending["child"]
        BY <1>1, <1>2, <3>2 DEF SigInv, SigTypes, Pair
      <4>2. pend["child"] \subseteq pending["child"]
        BY DEF Signals!Sent, SigInv, Coming, Pair
      <4>3. "TERM" \in pending["child"] => "TERM" \in pend["child"] \/ "INT" \in pend["parent"]
        BY <3>2 DEF Signals!Sent, SigInv, Coming, Pair
      <4> QED
        BY <1>7, <4>1, <4>2, <4>3 DEF CountInv, Counting, Doomed
    <3> QED
      BY <3>1, <3>2 DEF Pair
  <2>3. ParentHas' <= ParentHas /\ ChildHas' <= ChildHas /\ ParentHas \in Nat /\ ChildHas \in Nat
       /\ ParentHas' \in Nat /\ ChildHas' \in Nat
    BY <1>1 DEF ParentHas, ChildHas, SigInv, SigTypes, Pair, Buried, Preparing
  <2>4. /\ "USR1" \in pend'["child"] => "USR1" \in pend["child"]
        /\ "USR2" \in pend'["parent"] => "USR2" \in pend["parent"]
        /\ "INT" \in pend'["parent"] => "INT" \in pend["parent"]
    BY <1>4 DEF Pair
  <2>5. outside' = outside /\ outside \in Nat
    BY <1>1 DEF CountInv, Rest
  <2>6. AllTurns
    BY <1>7 DEF CountInv, Counting
  <2>7. AllTurns'
    BY <2>3, <2>4, <2>5, <2>6, FewerSignals
  <2> QED
    BY <1>1, <1>5, <1>7, <2>0, <2>1, <2>2, <2>7 DEF CountInv, Counting
<1> QED
  BY <1>6, <1>7

\* A call by which no turn passes.
LEMMA CountGoes ==
  ASSUME SigInv, SigInv', CountInv, prog = "async", NEW p \in Pair, NEW from, NEW to,
         sat[p] = from, sat' = [sat EXCEPT ![p] = to], UNCHANGED <<prog, pend, stopped, x, finish, outside, lost>>,
         blocked' = blocked \/ (to = "asleep" /\ \A q \in Pair \ {p} : blocked'[q] = blocked[q]),
         \/ <<p, from, to>> \in {<<"parent", "int", "usr">>, <<"parent", "usr", "fork">>, <<"parent", "test", "suspend">>,
                                 <<"parent", "suspend", "asleep">>, <<"parent", "got", "reset">>,
                                 <<"child", "exec", "term">>, <<"child", "term", "usr">>, <<"child", "usr", "test">>,
                                 <<"child", "usr", "exit">>, <<"child", "test", "suspend">>, <<"child", "suspend", "asleep">>}
         \/ <<p, from, to>> \in {<<"parent", "test", "got">>, <<"child", "test", "answer">>} /\ x[p] > 0
  PROVE  CountInv'
<1>1. Rest'
  BY DEF CountInv, Rest
<1>2. Unblocked'
  BY DEF CountInv, Counting, Unblocked, SigInv, SigTypes, Pair, Buried
<1>3. Doomed' /\ OneFork'
  BY DEF CountInv, Counting, Doomed, OneFork, SigInv, SigTypes, Pair, Buried
<1>4. ParentHas' <= ParentHas /\ ChildHas' <= ChildHas
  BY DEF ParentHas, ChildHas, SigInv, SigTypes, Pair, Buried, Preparing
<1>5. AllTurns /\ outside \in Nat
  BY DEF CountInv, Counting, Rest
<1>6. ParentHas \in Nat /\ ChildHas \in Nat /\ ParentHas' \in Nat /\ ChildHas' \in Nat
  BY HasNat, HasNatNext
<1>7. AllTurns'
  BY <1>4, <1>5, <1>6, FewerSignals
<1> QED
  BY <1>1, <1>2, <1>3, <1>7 DEF CountInv, Counting

\* x is set to zero when it has been printed, and when the answer has been given.
LEMMA CountReset ==
  ASSUME SigInv, SigInv', CountInv, prog = "async", NEW p \in Pair, NEW to, Signals!Reset(p, to),
         <<p, to>> \in {<<"parent", "send">>, <<"child", "test">>, <<"child", "exit">>}
  PROVE  CountInv'
<1>1. /\ sat[p] = "reset" /\ sat' = [sat EXCEPT ![p] = to] /\ x' = [x EXCEPT ![p] = 0]
      /\ UNCHANGED <<prog, pend, blocked, stopped, finish, outside, lost>>
  BY Zenon DEF Signals!Reset, Signals!Goto, Signals!Ready, Signals!signals
<1>2. Rest'
  BY <1>1 DEF CountInv, Rest
<1>3. Unblocked' /\ Doomed' /\ OneFork'
  BY <1>1 DEF CountInv, Counting, Unblocked, Doomed, OneFork, SigInv, SigTypes, Pair, Buried
<1>4. ParentHas' <= ParentHas /\ ChildHas' <= ChildHas
  BY <1>1 DEF ParentHas, ChildHas, SigInv, SigTypes, Pair, Buried, Preparing
<1>5. AllTurns /\ outside \in Nat
  BY DEF CountInv, Counting, Rest
<1>6. ParentHas \in Nat /\ ChildHas \in Nat /\ ParentHas' \in Nat /\ ChildHas' \in Nat
  BY HasNat, HasNatNext
<1>7. AllTurns'
  BY <1>1, <1>4, <1>5, <1>6, FewerSignals
<1> QED
  BY <1>1, <1>2, <1>3, <1>7 DEF CountInv, Counting

\* The turn is sent.
LEMMA CountKill ==
  ASSUME SigInv, SigInv', CountInv, prog = "async",
         \/ Signals!Kill("parent", "send", "test", "child", "USR1")
         \/ Signals!Kill("child", "answer", "reset", "parent", "USR2")
  PROVE  CountInv'
<1>1. /\ UNCHANGED <<prog, blocked, stopped, x, finish, outside, lost>>
      /\ \/ /\ sat["parent"] = "send" /\ sat' = [sat EXCEPT !["parent"] = "test"]
            /\ pend' = pend \/ pend' = [pend EXCEPT !["child"] = pend["child"] \cup {"USR1"}]
         \/ /\ sat["child"] = "answer" /\ sat' = [sat EXCEPT !["child"] = "reset"]
            /\ pend["child"] \ blocked["child"] = {}
            /\ pend' = pend \/ pend' = [pend EXCEPT !["parent"] = pend["parent"] \cup {"USR2"}]
  BY Zenon DEF Signals!Kill, Signals!Goto, Signals!Ready, Signals!Due, Signals!Sent, Signals!user
<1>2. Rest'
  BY <1>1 DEF CountInv, Rest, SigInv, Coming, Pair
<1>3. Unblocked'
  BY <1>1 DEF CountInv, Counting, Unblocked, SigInv, SigTypes, Pair, Buried
<1>4. Doomed' /\ OneFork'
  BY <1>1 DEF CountInv, Counting, Doomed, OneFork, SigInv, SigTypes, Coming, Pair, Buried
<1>5. AllTurns /\ outside \in Nat /\ outside' = outside
  BY <1>1 DEF CountInv, Counting, Rest
<1>6. Interrupts' = Interrupts /\ Interrupts \in {0, 1}
  BY <1>1 DEF Interrupts, SigInv, Coming, Pair
<1>7. CASE sat["parent"] = "send" /\ sat' = [sat EXCEPT !["parent"] = "test"]
           /\ (pend' = pend \/ pend' = [pend EXCEPT !["child"] = pend["child"] \cup {"USR1"}])
  <2>1. ParentHas = 1 + x["parent"] /\ ParentHas' = x["parent"] /\ x["parent"] \in Nat /\ ChildHas' = ChildHas
    BY <1>1, <1>7 DEF ParentHas, ChildHas, SigInv, SigTypes, Pair, Preparing
  <2>2. Usr2' = Usr2 /\ Usr1' \in {0, 1}
    BY <1>7 DEF Usr2, Usr1, SigInv, Coming, Pair
  <2> QED
    BY <1>1, <1>2, <1>3, <1>4, <1>5, <1>6, <2>1, <2>2, HasNat DEF CountInv, Counting, AllTurns
<1>8. CASE /\ sat["child"] = "answer" /\ sat' = [sat EXCEPT !["child"] = "reset"]
           /\ pend["child"] \ blocked["child"] = {}
           /\ pend' = pend \/ pend' = [pend EXCEPT !["parent"] = pend["parent"] \cup {"USR2"}]
  <2>1. blocked["child"] = {}
    BY <1>8 DEF CountInv, Counting, Unblocked, Pair, Buried
  <2>2. x["child"] # 0 /\ x["child"] \in Nat
    BY <1>8, <2>1 DEF CountInv, Counting, Doomed, SigInv, SigTypes, Pair
  <2>3. ChildHas = x["child"] /\ ChildHas' = x["child"] - 1 /\ ParentHas' = ParentHas
    BY <1>1, <1>8, <2>2 DEF ParentHas, ChildHas, SigInv, SigTypes, Pair, Buried
  <2>4. Usr1' = Usr1 /\ Usr2' \in {0, 1}
    BY <1>8 DEF Usr2, Usr1, SigInv, Coming, Pair
  <2> QED
    BY <1>1, <1>2, <1>3, <1>4, <1>5, <1>6, <2>2, <2>3, <2>4, HasNat DEF CountInv, Counting, AllTurns
<1> QED
  BY <1>1, <1>7, <1>8

\* fork and exec.
LEMMA CountForks ==
  ASSUME SigInv, SigInv', CountInv, prog = "async", Signals!Fork("send", "exec") \/ Signals!Exec("term")
  PROVE  CountInv'
<1>1. CASE \/ Signals!Ends("parent", "exit", pend) /\ sat["parent"] = "fork"
           \/ Signals!Ends("child", "exit", pend) /\ sat["child"] = "exec"
  BY <1>1, CountEnds DEF Pair, Buried
<1>2. CASE /\ sat["parent"] = "fork" /\ pend["parent"] \ blocked["parent"] = {}
           /\ sat' = [sat EXCEPT !["parent"] = "send", !["child"] = "exec"]
           /\ blocked' = [blocked EXCEPT !["child"] = blocked["parent"]]
           /\ UNCHANGED <<prog, pend, stopped, x, finish, outside, lost>>
  <2>1. blocked["parent"] = {}
    BY <1>2 DEF CountInv, Counting, Unblocked, Pair, Buried
  <2>2. pend["parent"] = {} /\ pend["child"] \subseteq Signal
    BY <1>2, <2>1 DEF SigInv, Coming, Pair
  <2>3. sat["child"] = "unborn" /\ pend["child"] = {}
    BY <1>2 DEF CountInv, Counting, OneFork, SigInv, Coming, Pair
  <2>4. Rest'
    BY <1>2 DEF CountInv, Rest
  <2>5. Unblocked'
    BY <1>2, <2>1 DEF CountInv, Counting, Unblocked, SigInv, SigTypes, Pair, Buried
  <2>6. Doomed' /\ OneFork'
    BY <1>2, <2>2, <2>3 DEF Doomed, OneFork, SigInv, SigTypes, Pair, Buried
  <2>7. ParentHas' <= ParentHas /\ ChildHas' <= ChildHas
    BY <1>2, <2>3 DEF ParentHas, ChildHas, SigInv, SigTypes, Pair, Buried, Preparing
  <2>8. AllTurns'
    BY <1>2, <2>7, HasNat, HasNatNext, FewerSignals DEF CountInv, Counting, Rest
  <2> QED
    BY <1>2, <2>4, <2>5, <2>6, <2>8 DEF CountInv, Counting
<1>3. CASE /\ sat["child"] = "exec" /\ sat' = [sat EXCEPT !["child"] = "term"]
           /\ UNCHANGED <<prog, pend, blocked, stopped, x, finish, outside, lost>>
  BY <1>3, CountGoes DEF Pair
<1> QED
  BY <1>1, <1>2, <1>3, Zenon DEF Signals!Fork, Signals!Exec, Signals!Ready, Signals!Goto, Signals!Due, Signals!user

\* The calls of the two programs.
LEMMA CountAsync ==
  ASSUME SigInv, SigInv', CountInv, Signals!Async \/ Signals!AsyncChild
  PROVE  CountInv'
<1>1. prog = "async"
  BY Zenon DEF Signals!Async, Signals!AsyncChild
<1>2. ASSUME NEW p \in Pair, NEW from, NEW to, NEW g, Signals!Catch(p, from, to, g),
             <<p, from, to>> \in {<<"parent", "int", "usr">>, <<"parent", "usr", "fork">>, <<"child", "term", "usr">>,
                                  <<"child", "usr", "test">>, <<"child", "usr", "exit">>}
      PROVE  CountInv'
  <2>1. /\ sat[p] = from /\ sat' = [sat EXCEPT ![p] = to]
        /\ UNCHANGED <<prog, pend, blocked, stopped, x, finish, outside, lost>>
    BY <1>2, Zenon DEF Signals!Catch, Signals!Goto, Signals!Ready, Signals!user
  <2> QED
    BY <1>1, <1>2, <2>1, CountGoes
<1>3. ASSUME NEW p \in Pair, NEW from, NEW to, Signals!Quiet(p, from, to),
             \/ <<p, from, to>> \in {<<"parent", "test", "suspend">>, <<"parent", "got", "reset">>, <<"child", "test", "suspend">>}
             \/ <<p, from, to>> \in {<<"parent", "test", "got">>, <<"child", "test", "answer">>} /\ x[p] > 0
      PROVE  CountInv'
  <2>1. /\ sat[p] = from /\ sat' = [sat EXCEPT ![p] = to]
        /\ UNCHANGED <<prog, pend, blocked, stopped, x, finish, outside, lost>>
    BY <1>3, Zenon DEF Signals!Quiet, Signals!Goto, Signals!Ready, Signals!user, Signals!signals
  <2> QED
    BY <1>1, <1>3, <2>1, CountGoes
<1>4. ASSUME NEW p \in Pair, NEW set, Signals!Sigsuspend(p, set) PROVE CountInv'
  <2>1. /\ sat[p] = "suspend" /\ sat' = [sat EXCEPT ![p] = "asleep"]
        /\ UNCHANGED <<prog, pend, stopped, x, finish, outside, lost>>
        /\ blocked' = [blocked EXCEPT ![p] = Signals!Sig \ (set \cup {"STOP"})]
    BY <1>4, Zenon DEF Signals!Sigsuspend, Signals!Goto, Signals!Ready, Signals!user
  <2>2. \A q \in Pair \ {p} : blocked'[q] = blocked[q]
    BY <2>1 DEF SigInv, SigTypes
  <2> QED
    BY <1>1, <2>1, <2>2, CountGoes DEF Pair
<1>5. ASSUME Signals!Test("parent", "got") \/ Signals!Test("child", "answer") PROVE CountInv'
  BY <1>3, <1>5 DEF Signals!Test, Pair
<1>6. ASSUME \/ Signals!Catch("parent", "int", "usr", "INT") \/ Signals!Catch("parent", "usr", "fork", "USR2")
             \/ Signals!Catch("child", "term", "usr", "TERM")
             \/ Signals!Catch("child", "usr", IF finish = {} THEN "test" ELSE "exit", "USR1")
      PROVE  CountInv'
  BY <1>2, <1>6 DEF Pair
<1>7. ASSUME Signals!Quiet("parent", "got", "reset") PROVE CountInv'
  BY <1>3, <1>7 DEF Pair
<1>8. ASSUME Signals!Reset("parent", "send") \/ Signals!Reset("child", IF finish = {} THEN "test" ELSE "exit") PROVE CountInv'
  <2>1. Signals!Reset("parent", "send") \/ Signals!Reset("child", "test") \/ Signals!Reset("child", "exit")
    BY <1>8
  <2> QED
    BY <1>1, <2>1, CountReset DEF Pair
<1>9. "parent" \in Pair /\ "child" \in Pair
  BY DEF Pair
<1> QED
  BY <1>1, <1>4, <1>5, <1>6, <1>7, <1>8, <1>9, CountKill, CountForks, Zenon DEF Signals!Async, Signals!AsyncChild

\* Where a handler returns to.
LEMMA ReturnsTo ==
  ASSUME NEW p, Signals!Returns(p)
  PROVE  sat' = [sat EXCEPT ![p] = IF sat[p] # "asleep" THEN sat[p] ELSE IF p = "parent" THEN "got" ELSE "answer"]
BY Zenon DEF Signals!Returns

\* A handler of child3.c or parent3.c: SIGUSR1 and SIGUSR2 are counted, and SIGTERM comes only to a child
\* that SIGINT will end.
LEMMA CountHandled ==
  ASSUME SigInv, SigInv', CountInv, NEW p \in Pair, Signals!UserHandler(p) \/ (Signals!TermHandler /\ p = "child")
  PROVE  CountInv'
<1>1. PICK g \in {"USR1", "USR2", "TERM"} :
        /\ prog = "async" /\ sat[p] \notin Buried /\ g \in pend[p] /\ pend' = [pend EXCEPT ![p] = pend[p] \ {g}]
        /\ blocked' = IF sat[p] = "asleep" THEN [blocked EXCEPT ![p] = {}] ELSE blocked
        /\ Signals!Returns(p)
        /\ UNCHANGED <<prog, stopped, outside>>
        /\ finish' = finish \/ finish' = {"child"}
        /\ lost' = lost \/ lost' \in {"gap", "reset"}
        /\ IF g = "TERM" THEN p = "child" /\ x' = x ELSE x' = [x EXCEPT ![p] = x[p] + 1]
        /\ g = "USR1" => p = "child"
        /\ g = "USR2" => p = "parent"
  BY DEF Signals!UserHandler, Signals!TermHandler, Signals!Handles, Signals!Gone, Signals!Due, Buried, Pair
<1>2. sat' = [sat EXCEPT ![p] = IF sat[p] # "asleep" THEN sat[p] ELSE IF p = "parent" THEN "got" ELSE "answer"]
  <2>1. Signals!Returns(p)
    BY <1>1
  <2> QED
    BY <2>1, ReturnsTo
<1>3. Rest'
  BY <1>1 DEF CountInv, Rest, SigInv, Coming, Pair
<1>4. Unblocked'
  BY <1>1, <1>2 DEF CountInv, Counting, Unblocked, SigInv, SigTypes, Pair, Buried
<1>5. OneFork'
  BY <1>1, <1>2 DEF CountInv, Counting, OneFork, SigInv, SigTypes, Pair
<1>6. "INT" \in pend["child"] \/ g # "TERM"
  BY <1>1 DEF CountInv, Counting, Doomed, SigInv, Coming, Pair
<1>7. "INT" \in pend'["parent"] <=> "INT" \in pend["parent"]
  BY <1>1 DEF SigInv, Coming, Pair
<1>8. "INT" \in pend["child"] => "INT" \in pend'["child"]
  BY <1>1 DEF SigInv, Coming, Pair
<1>9. "TERM" \in pend'["child"] => "TERM" \in pend["child"]
  BY <1>1 DEF SigInv, Coming, Pair
<1>10. sat'["child"] = sat["child"] \/ (sat'["child"] = "answer" /\ sat["child"] = "asleep" /\ p = "child")
  BY <1>2 DEF SigInv, SigTypes, Pair
<1>11. p = "child" /\ g # "TERM" => x'["child"] # 0
  BY <1>1 DEF SigInv, SigTypes, Pair
<1>12. x'["child"] = x["child"] \/ (p = "child" /\ g # "TERM")
  BY <1>1 DEF SigInv, SigTypes, Pair
<1>13. Doomed'
  BY <1>1, <1>6, <1>7, <1>8, <1>9, <1>10, <1>11, <1>12 DEF CountInv, Counting, Doomed, Buried
<1>14. AllTurns /\ outside \in Nat
  BY <1>1 DEF CountInv, Counting, Rest
<1>15. Interrupts' = Interrupts
  BY <1>7 DEF Interrupts
<1>16. CASE g = "TERM"
  <2>1. ParentHas' <= ParentHas /\ ChildHas' <= ChildHas
    BY <1>1, <1>2, <1>16 DEF ParentHas, ChildHas, SigInv, SigTypes, Pair, Buried, Preparing
  <2>2. /\ "USR1" \in pend'["child"] => "USR1" \in pend["child"]
        /\ "USR2" \in pend'["parent"] => "USR2" \in pend["parent"]
    BY <1>1, <1>16 DEF SigInv, Coming, Pair
  <2>3. AllTurns'
    BY <1>1, <1>7, <1>14, <2>1, <2>2, HasNat, HasNatNext, FewerSignals
  <2> QED
    BY <1>1, <1>3, <1>4, <1>5, <1>13, <2>3 DEF CountInv, Counting
<1>17. CASE g = "USR1"
  <2>1. Usr1 = 1 /\ Usr1' = 0 /\ Usr2' = Usr2
    BY <1>1, <1>17 DEF Usr1, Usr2, SigInv, Coming, Pair
  <2>2. ParentHas' = ParentHas /\ ChildHas' <= ChildHas + 1
    BY <1>1, <1>2, <1>17 DEF ParentHas, ChildHas, SigInv, SigTypes, Pair, Buried
  <2>3. AllTurns'
    BY <1>1, <1>14, <1>15, <2>1, <2>2, HasNat, HasNatNext DEF AllTurns
  <2> QED
    BY <1>1, <1>3, <1>4, <1>5, <1>13, <2>3 DEF CountInv, Counting
<1>18. CASE g = "USR2"
  <2>1. Usr2 = 1 /\ Usr2' = 0 /\ Usr1' = Usr1
    BY <1>1, <1>18 DEF Usr1, Usr2, SigInv, Coming, Pair
  <2>2. ChildHas' = ChildHas /\ ParentHas' <= ParentHas + 1
    BY <1>1, <1>2, <1>18 DEF ParentHas, ChildHas, SigInv, SigTypes, Pair, Buried, Preparing
  <2>3. AllTurns'
    BY <1>1, <1>14, <1>15, <2>1, <2>2, HasNat, HasNatNext DEF AllTurns
  <2> QED
    BY <1>1, <1>3, <1>4, <1>5, <1>13, <2>3 DEF CountInv, Counting
<1> QED
  BY <1>16, <1>17, <1>18

\* The handler of SIGINT: it ends its process, or the parent goes on, with a turn from nowhere.
LEMMA CountInt ==
  ASSUME SigInv, SigInv', CountInv, NEW p \in Pair, Signals!IntHandler(p)
  PROVE  CountInv'
<1>1. "INT" \in pend[p] /\ sat[p] \notin {"unborn"} \cup Buried
  BY DEF Signals!IntHandler, Signals!Due, Signals!Alive, Signals!Gone, Buried
<1>2. ASSUME NEW h, NEW q \in Pair \ {p}, Signals!Ends(p, h, Signals!Sent(q, "TERM")) PROVE CountInv'
  <2>1. q = "child" => "INT" \in pend["parent"]
    BY <1>1 DEF Pair
  <2> QED
    BY <1>1, <1>2, <2>1, CountEnds
<1>3. CASE /\ prog = "async" /\ p = "parent" /\ sat["child"] # "unborn"
           /\ pend' = [Signals!Sent("child", "TERM") EXCEPT ![p] = Signals!Sent("child", "TERM")[p] \ {"INT"}]
           /\ blocked' = IF sat[p] = "asleep" THEN [blocked EXCEPT ![p] = {}] ELSE blocked
           /\ Signals!Returns(p)
           /\ UNCHANGED <<prog, stopped, x, finish, outside, lost>>
  <2>1. sat' = [sat EXCEPT ![p] = IF sat[p] # "asleep" THEN sat[p] ELSE IF p = "parent" THEN "got" ELSE "answer"]
    BY <1>3, ReturnsTo
  <2>2. /\ pend'["parent"] = pend["parent"] \ {"INT"}
        /\ pend'["child"] = pend["child"] \/ pend'["child"] = pend["child"] \cup {"TERM"}
    BY <1>3 DEF Signals!Sent, SigInv, Coming, Pair
  <2>3. Rest'
    BY <1>3, <2>2 DEF CountInv, Rest
  <2>4. Unblocked'
    BY <1>3, <2>1 DEF CountInv, Counting, Unblocked, SigInv, SigTypes, Pair, Buried
  <2>5. OneFork'
    BY <1>3, <2>1 DEF CountInv, Counting, OneFork, SigInv, SigTypes, Pair
  <2>6. Doomed'
    BY <1>1, <1>3, <2>1, <2>2 DEF CountInv, Counting, Doomed, SigInv, SigTypes, Pair, Buried
  <2>7. Interrupts = 1 /\ Interrupts' = 0 /\ Usr1' = Usr1 /\ Usr2' = Usr2
    BY <1>1, <1>3, <2>2 DEF Interrupts, Usr1, Usr2
  <2>8. ParentHas' <= ParentHas + 1 /\ ChildHas' = ChildHas
    BY <1>3, <2>1 DEF ParentHas, ChildHas, SigInv, SigTypes, Pair, Buried, Preparing
  <2>9. AllTurns'
    BY <1>3, <2>7, <2>8, HasNat, HasNatNext DEF AllTurns, CountInv, Counting, Rest
  <2> QED
    BY <1>3, <2>3, <2>4, <2>5, <2>6, <2>9 DEF CountInv, Counting
<1> QED
  BY <1>2, <1>3 DEF Signals!IntHandler, Signals!Other, Signals!user, Pair

\* SIGINT from the terminal.
LEMMA CountOutside ==
  ASSUME SigInv, SigInv', CountInv, Signals!Outside
  PROVE  CountInv'
<1>1. /\ UNCHANGED <<prog, sat, blocked, stopped, x, finish, lost>>
      /\ outside < MaxOutside /\ outside' = outside + 1
      /\ \/ /\ prog \in {"sync", "async"}
            /\ pend' = [p \in Pair |-> IF Signals!Alive(p) THEN pend[p] \cup {"INT"} ELSE pend[p]]
         \/ prog \notin {"sync", "async"} /\ \E g \in {"INT", "USR1"} : pend' = Signals!Sent("child", g)
  BY DEF Signals!Outside, Signals!user, Signals!Process, Signals!Receivers, Pair
<1>2. \A p \in Pair : pend[p] \subseteq pend'[p] /\ pend'[p] \subseteq pend[p] \cup {"INT", "USR1"}
  BY <1>1 DEF Signals!Sent, SigInv, Coming, Pair
<1>3. Rest'
  BY <1>1, <1>2, ProcessesAssumption DEF CountInv, Rest, Pair, Signals!SignalAssumption
<1>4. CASE prog # "async"
  BY <1>1, <1>3, <1>4 DEF CountInv, Counting
<1>5. CASE prog = "async"
  <2>1. pend' = [p \in Pair |-> IF Signals!Alive(p) THEN pend[p] \cup {"INT"} ELSE pend[p]]
    BY <1>1, <1>5
  <2>2. Unblocked' /\ OneFork'
    BY <1>1, <1>5 DEF CountInv, Counting, Unblocked, OneFork
  <2>3. Doomed'
    <3>1. sat["child"] \notin {"unborn"} \cup Buried => "INT" \in pend'["child"]
      BY <2>1 DEF Signals!Alive, Signals!Gone, Buried, Pair
    <3>2. sat["child"] = "answer" => "INT" \in pend'["child"]
      BY <3>1 DEF Buried
    <3> QED
      BY <1>1, <3>1, <3>2 DEF Doomed
  <2>4. Usr1' = Usr1 /\ Usr2' = Usr2 /\ Interrupts' \in {0, 1}
    BY <2>1 DEF Usr1, Usr2, Interrupts, Pair
  <2>5. ParentHas' = ParentHas /\ ChildHas' = ChildHas
    BY <1>1 DEF ParentHas, ChildHas
  <2>6. AllTurns'
    BY <1>1, <1>5, <2>4, <2>5, HasNat, HasNatNext DEF AllTurns, CountInv, Counting, Rest
  <2> QED
    BY <1>1, <1>3, <1>5, <2>2, <2>3, <2>6 DEF CountInv, Counting
<1> QED
  BY <1>4, <1>5

\* Without a handler.
LEMMA CountDefault ==
  ASSUME SigInv, SigInv', CountInv, NEW p \in Pair, Signals!Default(p)
  PROVE  CountInv'
<1>1. PICK g \in pend[p] \ (blocked[p] \cup caught[p]) :
        /\ sat[p] \notin Buried
        /\ \/ /\ \/ stopped' = stopped
                 \/ g = "STOP" /\ stopped' = stopped \cup {p}
              /\ g \in {"STOP", "CHLD"} /\ pend' = [pend EXCEPT ![p] = pend[p] \ {g}]
              /\ UNCHANGED <<prog, sat, blocked, caught, x, finish, how, outside, lost>>
           \/ g \notin {"STOP", "CHLD"} /\ Signals!Ends(p, g, pend)
  BY DefaultDoes, Zenon
<1>2. sat[p] # "unborn"
  BY <1>1 DEF SigInv, Coming
<1>3. CASE Signals!Ends(p, g, pend)
  BY <1>1, <1>2, <1>3, CountEnds
<1>4. CASE /\ \/ stopped' = stopped
              \/ g = "STOP" /\ stopped' = stopped \cup {p}
           /\ g \in {"STOP", "CHLD"} /\ pend' = [pend EXCEPT ![p] = pend[p] \ {g}]
           /\ UNCHANGED <<prog, sat, blocked, caught, x, finish, how, outside, lost>>
  <2>1. Rest'
    BY <1>1, <1>4 DEF CountInv, Rest, SigInv, Coming, Pair
  <2>2. \A q \in Pair : \A h \in Signal \ {"STOP", "CHLD"} : h \in pend'[q] <=> h \in pend[q]
    BY <1>4 DEF SigInv, Coming
  <2>3. CASE prog # "async"
    BY <1>4, <2>1, <2>3 DEF CountInv, Counting
  <2>4. CASE prog = "async"
    <3>1. Unblocked' /\ OneFork' /\ Doomed'
      BY <1>4, <2>2, <2>4 DEF CountInv, Counting, Unblocked, OneFork, Doomed, Pair, Signal
    <3>2. Usr1' = Usr1 /\ Usr2' = Usr2 /\ Interrupts' = Interrupts /\ ParentHas' = ParentHas /\ ChildHas' = ChildHas
      BY <1>4, <2>2 DEF Usr1, Usr2, Interrupts, ParentHas, ChildHas, Pair, Signal
    <3> QED
      BY <1>4, <2>1, <2>4, <3>1, <3>2 DEF CountInv, Counting, AllTurns
  <2> QED
    BY <2>3, <2>4
<1> QED
  BY <1>1, <1>3, <1>4, Zenon

\* A call of a program without x: nothing is counted, and SIGSTOP comes from the parent only.
Plain ==
  /\ UNCHANGED <<prog, x, finish, outside, lost>> /\ stopped' \subseteq stopped
  /\ "STOP" \in pend'["parent"] => "STOP" \in pend["parent"]

\* Such a call keeps the count.
LEMMA PlainCount == ASSUME CountInv, Plain, prog # "async" PROVE CountInv'
BY DEF CountInv, Rest, Counting, Plain

\* The calls, the handlers and the ends that are plain.
LEMMA PlainCalls ==
  ASSUME SigInv, NEW p \in Pair, NEW from, NEW to, NEW g,
         \/ Signals!Catch(p, from, to, g) \/ Signals!Block(p, from, to, g) \/ Signals!Quiet(p, from, to)
         \/ Signals!Sigwait(p, to, g) \/ Signals!Sigsuspend(p, g) \/ Signals!Fork(from, to) \/ Signals!Exec(to)
         \/ Signals!Kill(p, from, to, "child", g) \/ Signals!Kill(p, from, to, "parent", "USR2")
         \/ Signals!Continue(p, from, to, "child") \/ Signals!Wait \/ (Signals!Handles(p, g) /\ UNCHANGED <<x, finish, lost>>)
         \/ Signals!Ends(p, g, pend) \/ Signals!ChldHandler
  PROVE  Plain
<1>0. "parent" \in Pair /\ "child" \in Pair /\ "STOP" # "USR2" /\ "parent" # "child"
  BY DEF Pair
<1>1. ASSUME \/ Signals!Catch(p, from, to, g) \/ Signals!Block(p, from, to, g) \/ Signals!Quiet(p, from, to)
             \/ Signals!Sigsuspend(p, g) \/ Signals!Wait
      PROVE  Plain
  BY <1>1 DEF Plain, Signals!Catch, Signals!Block, Signals!Quiet, Signals!Sigsuspend, Signals!Wait, Signals!user, Signals!signals
<1>2. ASSUME Signals!Sigwait(p, to, g) \/ (Signals!Handles(p, g) /\ UNCHANGED <<x, finish, lost>>) PROVE Plain
  <2>1. /\ UNCHANGED <<prog, x, finish, outside, lost, stopped>>
        /\ pend' = [pend EXCEPT ![p] = pend[p] \ {g}]
    BY <1>2, Zenon DEF Signals!Sigwait, Signals!Handles, Signals!user
  <2> QED
    BY <1>0, <2>1 DEF Plain, SigInv, Coming
<1>3. ASSUME NEW q \in Pair, NEW h, Signals!Ends(q, h, pend) PROVE Plain
  <2>1. /\ UNCHANGED <<prog, x, finish, outside, lost>> /\ stopped' = stopped \ {q}
        /\ pend' = [r \in Pair |-> IF r = q THEN {} ELSE IF r = "parent" /\ Signals!Alive(r)
                                   THEN pend[r] \cup {"CHLD"} ELSE pend[r]]
    BY <1>3, Zenon DEF Signals!Ends, Signals!user, Signals!Process, Pair
  <2> QED
    BY <1>0, <2>1 DEF Plain
<1>4. ASSUME Signals!Fork(from, to) PROVE Plain
  <2>1. CASE Signals!Ends("parent", "exit", pend)
    BY <1>0, <1>3, <2>1
  <2>2. CASE UNCHANGED <<prog, pend, stopped, x, finish, lost, how, outside>>
    BY <2>2 DEF Plain
  <2> QED
    BY <1>4, <2>1, <2>2, Zenon DEF Signals!Fork, Signals!user
<1>5. ASSUME Signals!Exec(to) PROVE Plain
  <2>1. CASE Signals!Ends("child", "exit", pend)
    BY <1>0, <1>3, <2>1
  <2>2. CASE UNCHANGED <<prog, pend, stopped, x, finish, lost, how, outside>>
    BY <2>2 DEF Plain
  <2> QED
    BY <1>5, <2>1, <2>2, Zenon DEF Signals!Exec, Signals!user
<1>6. ASSUME NEW q \in Pair, NEW h, Signals!Kill(p, from, to, q, h), q = "child" \/ h = "USR2" PROVE Plain
  <2>1. /\ UNCHANGED <<prog, x, finish, outside, lost, stopped>>
        /\ pend' = pend \/ pend' = [pend EXCEPT ![q] = pend[q] \cup {h}]
    BY <1>6, Zenon DEF Signals!Kill, Signals!Sent, Signals!user
  <2> QED
    BY <1>0, <1>6, <2>1 DEF Plain, SigInv, Coming
<1>7. ASSUME Signals!Continue(p, from, to, "child") PROVE Plain
  <2>1. /\ UNCHANGED <<prog, x, finish, outside, lost>> /\ stopped' = stopped \ {"child"}
        /\ pend' = [pend EXCEPT !["child"] = pend["child"] \ {"STOP"}]
    BY <1>7, Zenon DEF Signals!Continue, Signals!user
  <2> QED
    BY <1>0, <2>1 DEF Plain, SigInv, Coming
<1>8. ASSUME Signals!ChldHandler PROVE Plain
  <2>1. /\ UNCHANGED <<prog, x, finish, outside, lost, stopped>>
        /\ pend' = [pend EXCEPT !["parent"] = pend["parent"] \ {"CHLD"}]
    BY <1>8, Zenon DEF Signals!ChldHandler, Signals!user
  <2> QED
    BY <1>0, <2>1 DEF Plain, SigInv, Coming
<1>9. ASSUME Signals!Kill(p, from, to, "child", g) \/ Signals!Kill(p, from, to, "parent", "USR2") PROVE Plain
  BY <1>0, <1>6, <1>9
<1>10. ASSUME Signals!Ends(p, g, pend) PROVE Plain
  BY <1>3, <1>10
<1>11. ASSUME Signals!Catch(p, from, to, g) \/ Signals!Block(p, from, to, g) \/ Signals!Quiet(p, from, to) PROVE Plain
  BY <1>1, <1>11
<1>12. ASSUME Signals!Sigsuspend(p, g) \/ Signals!Wait PROVE Plain
  BY <1>1, <1>12
<1>13. ASSUME Signals!Sigwait(p, to, g) \/ (Signals!Handles(p, g) /\ UNCHANGED <<x, finish, lost>>) PROVE Plain
  BY <1>2, <1>13
<1> QED
  BY <1>4, <1>5, <1>7, <1>8, <1>9, <1>10, <1>11, <1>12, <1>13, Zenon

\* The programs without x, and a process that exits.
LEMMA CountOthers ==
  ASSUME SigInv, CountInv, NEW p \in Pair,
         \/ Signals!Sync \/ Signals!SyncChild \/ Signals!Chld \/ Signals!ChldChild \/ Signals!Once \/ Signals!OnceChild
         \/ Signals!KillChild \/ Signals!WaitChild \/ Signals!LoopEnds \/ Signals!ReceiverAsync \/ Signals!ReceiverSync
         \/ Signals!ReceiverSigwait \/ Signals!PrintHandler("INT") \/ Signals!PrintHandler("USR1")
         \/ Signals!ChldHandler \/ Signals!ChildTermHandler \/ Signals!Exit(p)
  PROVE  CountInv'
<1>0. "parent" \in Pair /\ "child" \in Pair
  BY DEF Pair
<1>1. CASE Signals!Exit(p)
  BY <1>1, CountEnds DEF Signals!Exit, Signals!Ready, Buried
<1>2. CASE Signals!Sync \/ Signals!SyncChild
  <2>1. prog # "async"
    BY <1>2 DEF Signals!Sync, Signals!SyncChild
  <2>2. Plain
    BY <1>0, <1>2, PlainCalls, Zenon DEF Signals!Sync, Signals!SyncChild
  <2> QED
    BY <2>1, <2>2, PlainCount
<1>3. CASE Signals!Chld \/ Signals!ChldChild \/ Signals!ChldHandler \/ Signals!Once \/ Signals!OnceChild
  <2>1. prog # "async"
    BY <1>3 DEF Signals!Chld, Signals!ChldChild, Signals!ChldHandler, Signals!Once, Signals!OnceChild
  <2>2. Plain
    BY <1>0, <1>3, PlainCalls, Zenon DEF Signals!Chld, Signals!ChldChild, Signals!Once, Signals!OnceChild
  <2> QED
    BY <2>1, <2>2, PlainCount
<1>4. CASE Signals!KillChild \/ Signals!WaitChild \/ Signals!LoopEnds
  <2>1. prog # "async"
    BY <1>4 DEF Signals!KillChild, Signals!WaitChild, Signals!LoopEnds
  <2>2. ASSUME NEW to, Signals!StopAndKill(to) PROVE Plain
    <3>1. CASE Signals!Fork("stop", "run")
      BY <1>0, <3>1, PlainCalls
    <3>2. CASE Signals!Kill("parent", "stop", "cont", "child", "STOP") \/ Signals!Kill("parent", "kill", to, "child", "TERM")
      BY <1>0, <3>2, PlainCalls
    <3>3. CASE Signals!Continue("parent", "cont", "kill", "child")
      BY <1>0, <3>3, PlainCalls, Zenon
    <3> QED
      BY <2>2, <3>1, <3>2, <3>3, Zenon DEF Signals!StopAndKill
  <2>3. Plain
    <3>1. CASE Signals!Wait \/ Signals!Quiet("child", "run", "exit")
      BY <1>0, <3>1, PlainCalls, Zenon
    <3> QED
      BY <1>4, <2>2, <3>1, Zenon DEF Signals!KillChild, Signals!WaitChild, Signals!LoopEnds
  <2> QED
    BY <2>1, <2>3, PlainCount
<1>5. CASE Signals!ReceiverAsync \/ Signals!ReceiverSync \/ Signals!ReceiverSigwait
  <2>1. prog # "async"
    BY <1>5 DEF Signals!ReceiverAsync, Signals!ReceiverSync, Signals!ReceiverSigwait
  <2>2. Plain
    BY <1>0, <1>5, PlainCalls, Zenon DEF Signals!ReceiverAsync, Signals!ReceiverSync, Signals!ReceiverSigwait
  <2> QED
    BY <2>1, <2>2, PlainCount
<1>6. ASSUME NEW g, Signals!PrintHandler(g) PROVE CountInv'
  <2>1. prog # "async"
    BY <1>6 DEF Signals!PrintHandler, Signals!Receivers
  <2>2. Plain
    BY <1>0, <1>6, PlainCalls, Zenon DEF Signals!PrintHandler, Signals!user
  <2> QED
    BY <2>1, <2>2, PlainCount
<1>7. CASE Signals!ChildTermHandler
  <2>1. prog # "async" /\ Signals!Ends("child", "exit", pend)
    BY <1>7 DEF Signals!ChildTermHandler
  <2>2. Plain
    BY <1>0, <2>1, PlainCalls
  <2> QED
    BY <2>1, <2>2, PlainCount
<1> QED
  BY <1>1, <1>2, <1>3, <1>4, <1>5, <1>6, <1>7, Zenon

\* Every step keeps it.
LEMMA CountStep == SigInv /\ CountInv /\ [Signals!Next]_(Signals!vars) => CountInv'
<1> SUFFICES ASSUME SigInv, CountInv, [Signals!Next]_(Signals!vars) PROVE CountInv'
  OBVIOUS
<1>0. SigInv' /\ "parent" \in Pair /\ "child" \in Pair /\ Signals!Process = Pair
  BY SigStep DEF Pair, Signals!Process
<1>1. CASE Signals!Outside \/ Signals!LoopEnds
  BY <1>0, <1>1, CountOutside, CountOthers
<1>2. ASSUME NEW p \in Pair, Signals!Run(p) PROVE CountInv'
  <2>1. CASE Signals!Default(p) \/ Signals!IntHandler(p) \/ Signals!UserHandler(p)
    BY <1>0, <1>2, <2>1, CountDefault, CountInt, CountHandled
  <2>2. CASE Signals!TermHandler
    BY <1>0, <2>2, CountHandled
  <2>3. CASE Signals!Async \/ Signals!AsyncChild
    BY <1>0, <2>3, CountAsync
  <2> QED
    BY <1>0, <1>2, <2>1, <2>2, <2>3, CountOthers, Zenon DEF Signals!Run
<1>3. CASE UNCHANGED Signals!vars
  BY <1>3 DEF Signals!vars, CountInv, Rest, Counting, Unblocked, OneFork, Doomed, AllTurns, ParentHas, ChildHas, Usr1, Usr2, Interrupts
<1> QED
  BY <1>0, <1>1, <1>2, <1>3, Zenon DEF Signals!Next

\* The processes of SignalSync stay in their programs, and x counts at most two signals and one for each
\* signal from outside (child3.c, parent3.c).
THEOREM SignalsTyped == PrSpec => []Signals!TypeOK
<1>1. SigInv /\ CountInv => Signals!TypeOK
  BY CountMeans
<1>2. PrInit => SigInv /\ CountInv
  BY SigInit, CountInit DEF PrInit
<1>3. SigInv /\ CountInv /\ [PrNext]_<<running, signalVars, pathVars, callVars>> => (SigInv /\ CountInv)'
  BY SigStep, CountStep, RunningParts
<1> QED
  BY <1>1, <1>2, <1>3, PTL DEF PrSpec

-----------------------------------------------------------------------------
\* The types of DirCounter, and the order of the directories.
\* Every step keeps the flags.
LEMMA FlagsStep == DirFlags /\ [Paths!Next]_(Paths!vars) => DirFlags'
<1> SUFFICES ASSUME DirFlags, [Paths!Next]_(Paths!vars) PROVE DirFlags'
  OBVIOUS
<1> DEFINE Flags == /\ leaf' \in BOOLEAN /\ fifo' \in BOOLEAN /\ dsent' \in BOOLEAN
                    /\ died' \in BOOLEAN /\ refused' \in BOOLEAN /\ dround' = dround /\ next' = next
<1>0. ASSUME Flags, status' \in BOOLEAN, lateChild' \in BOOLEAN PROVE DirFlags'
  BY <1>0 DEF DirFlags
<1>1. ASSUME NEW d \in Directories, \/ Paths!GetPathFromChild \/ Paths!AskerRuns \/ Paths!Answer \/ Paths!KillAsker \/ Paths!Exit(d)
                                    \/ Paths!Wait(d) \/ Paths!WaitReturns(d) \/ Paths!LastEntry(d) \/ Paths!PrintCount(d)
      PROVE  DirFlags'
  <2>1. Flags /\ status' = status /\ lateChild' = lateChild
    BY <1>1 DEF DirFlags, Paths!GetPathFromChild, Paths!AskerRuns, Paths!Answer, Paths!KillAsker, Paths!GetPath,
       Paths!StatusLoop, Paths!Mkfifo, Paths!Open, Paths!Read, Paths!AskerMkfifo, Paths!Unlink, Paths!Write, Paths!Exit,
       Paths!Ends, Paths!Wait, Paths!WaitReturns, Paths!LastEntry, Paths!PrintCount, Paths!signals, Paths!path
  <2> QED
    BY <1>0, <2>1 DEF DirFlags
<1>2. CASE Paths!NewPath
  BY <1>2, ProcessesAssumption DEF Paths!NewPath, Paths!signals, DirFlags, Paths!PathAssumption
<1>3. ASSUME NEW d \in Directories, Paths!Handler(d) \/ Paths!HandlerWaits(d) \/ Paths!WaitFails(d) PROVE DirFlags'
  <2>1. /\ UNCHANGED <<leaf, next, fifo, dsent, died, refused, dround>>
        /\ lateChild' = lateChild \/ lateChild' \in BOOLEAN
        /\ status' = status \/ \E c : status' = (IF d = Given THEN c = Paths!asker /\ died ELSE status)
    BY <1>3, Zenon DEF Paths!Handler, Paths!HandlerWaits, Paths!WaitFails, Paths!Reaps, Paths!path
  <2> QED
    BY <1>0, <2>1 DEF DirFlags
<1>4. ASSUME NEW d \in Directories, Paths!Opendir(d) PROVE DirFlags'
  <2>1. /\ next' = [next EXCEPT ![d] = 1] /\ UNCHANGED <<leaf, status, fifo, dsent, died, lateChild, dround>>
        /\ refused' \in BOOLEAN
    BY <1>4 DEF DirFlags, Paths!Opendir, Paths!signals
  <2>2. \A e \in Directories : Len(Subdirectory[e]) \in Nat
    BY ProcessesAssumption DEF Paths!PathAssumption
  <2> QED
    BY <2>1, <2>2 DEF DirFlags
<1>5. ASSUME NEW d \in Directories, Paths!Entry(d) PROVE DirFlags'
  <2>1. /\ next' = [next EXCEPT ![d] = next[d] + 1] /\ next[d] \in DOMAIN Paths!Sub(d)
        /\ UNCHANGED <<leaf, status, fifo, dsent, died, refused, lateChild, dround>>
    BY <1>5, Zenon DEF Paths!Entry, Paths!signals, Paths!path
  <2>2. Subdirectory[d] \in Seq(Directories) /\ \A e \in Directories : Len(Subdirectory[e]) \in Nat
    BY ProcessesAssumption DEF Paths!PathAssumption
  <2>3. next[d] \in 1 .. Len(Subdirectory[d])
    BY <2>1, <2>2 DEF Paths!Sub
  <2> QED
    BY <2>1, <2>2, <2>3 DEF DirFlags
<1>6. CASE UNCHANGED Paths!vars
  BY <1>6 DEF Paths!vars, DirFlags
<1>7. ASSUME NEW d \in Directories, Paths!Run(d) PROVE DirFlags'
  BY <1>1, <1>3, <1>4, <1>5, <1>7, Zenon DEF Paths!Run, Paths!ReadDir
<1> QED
  BY <1>1, <1>2, <1>6, <1>7, KidsAreOnce, Zenon DEF Paths!Next

\* With the invariant of the processes it is the type invariant.
LEMMA FlagsMean == DirInv /\ DirFlags => Paths!TypeOK
BY DEF DirInv, DirTypes, DirFlags, Paths!TypeOK, Paths!Process, asker, DirPlaces

\* It holds at the start.
LEMMA FlagsInit == Paths!Init => DirFlags
<1>1. MaxRounds \in Nat \ {0} /\ \A e \in Directories : Len(Subdirectory[e]) \in Nat
  BY ProcessesAssumption DEF Paths!PathAssumption
<1> SUFFICES ASSUME Paths!Init PROVE DirFlags
  OBVIOUS
<1>2. /\ leaf \in BOOLEAN /\ status \in BOOLEAN /\ fifo \in BOOLEAN /\ dsent \in BOOLEAN
      /\ died \in BOOLEAN /\ refused \in BOOLEAN /\ lateChild \in BOOLEAN /\ dround = 1
      /\ next = [d \in Directories |-> 1]
  BY DEF Paths!Init
<1> QED
  BY <1>1, <1>2 DEF DirFlags

\* The processes of spusti.c stay in their program, and next never goes beyond the end of the list.
THEOREM PathsTyped == PrSpec => []Paths!TypeOK
<1>1. PrInit => DirInv /\ DirFlags
  BY DirInit, FlagsInit DEF PrInit
<1>2. DirInv /\ DirFlags /\ [PrNext]_<<running, signalVars, pathVars, callVars>> => (DirInv /\ DirFlags)'
  BY DirStep, FlagsStep, RunningParts
<1> QED
  BY <1>1, <1>2, FlagsMean, PTL DEF PrSpec

\* The line of a directory comes after the lines of its subdirectories, but for one process
\* of which the first directory is ahead after the end of the asker has interrupted its wait
\* (spusti.c:20-24, 72-74, 177).
THEOREM SubdirectoriesComeFirst == PrSpec => []SubdirFirst
<1>1. DirInv => SubdirFirst
  <2> SUFFICES ASSUME DirInv, NEW d \in Directories, dat[d] \in {"list", "print", "prompt"}, d \notin ended \cup handling
               PROVE  (Paths!Living(d) \subseteq {asker} \/ (d = Given /\ overtaken)) /\ \A b, c \in Paths!Living(d) : b = c
    BY DEF SubdirFirst, Paths!SubdirFirst, asker
  <2>1. d \in Orderly => \A c \in Kids(d) : dat[c] = "none"
    BY DEF DirInv, KidAwaited, InWait
  <2>2. d = Given => \A b, c \in Paths!Living(d) : b = c
    BY WhoIsThere DEF DirInv, AtMostOne, Brood, InWait
  <2> QED
    BY <2>1, <2>2, WhoIsThere DEF Orderly
<1>2. PrInit => DirInv /\ DirFlags
  BY DirInit, FlagsInit DEF PrInit
<1>3. DirInv /\ DirFlags /\ [PrNext]_<<running, signalVars, pathVars, callVars>> => (DirInv /\ DirFlags)'
  BY DirStep, FlagsStep, RunningParts
<1> QED
  BY <1>1, <1>2, <1>3, PTL DEF PrSpec

-----------------------------------------------------------------------------
\* The types of Unix.  The descriptors of a process decide whether a call
\* finds a free one, and whether a message is read from a channel at all;
\* so the inductive invariant says what each descriptor leads to at every
\* place of every program.  A layout is the descriptors 0 to 4, each with
\* a letter: the terminal, the file, the end of a pipe or fifo to read or
\* to write, either end of a socket, or none.  The tables name the layout
\* before each call; an exercise without a table never changes its first
\* one.
Layout ==
  [rtt |-> <<"r", "t", "t", ".", ".">>, t_t |-> <<"t", ".", "t", ".", ".">>,
   tft |-> <<"t", "f", "t", ".", ".">>, ttt |-> <<"t", "t", "t", ".", ".">>,
   twt |-> <<"t", "w", "t", ".", ".">>, _ttr |-> <<".", "t", "t", "r", ".">>,
   rttr |-> <<"r", "t", "t", "r", ".">>, t_tf |-> <<"t", ".", "t", "f", ".">>,
   t_tw |-> <<"t", ".", "t", "w", ".">>, tftf |-> <<"t", "f", "t", "f", ".">>,
   ttta |-> <<"t", "t", "t", "a", ".">>, tttf |-> <<"t", "t", "t", "f", ".">>,
   tttr |-> <<"t", "t", "t", "r", ".">>, ttts |-> <<"t", "t", "t", "s", ".">>,
   tttw |-> <<"t", "t", "t", "w", ".">>, twtw |-> <<"t", "w", "t", "w", ".">>,
   _ttrw |-> <<".", "t", "t", "r", "w">>, rtt_w |-> <<"r", "t", "t", ".", "w">>,
   rttrw |-> <<"r", "t", "t", "r", "w">>, t_trw |-> <<"t", ".", "t", "r", "w">>,
   tftrf |-> <<"t", "f", "t", "r", "f">>, ttt_w |-> <<"t", "t", "t", ".", "w">>,
   tttrf |-> <<"t", "t", "t", "r", "f">>, tttrw |-> <<"t", "t", "t", "r", "w">>,
   twt_w |-> <<"t", "w", "t", ".", "w">>, twtrw |-> <<"t", "w", "t", "r", "w">>]

In_childpipe ==
  [main |-> <<"ttt", "tttrw", "tttrw", "ttt_w", "ttt_w", "ttt">>,
   child |-> <<"tttrw", "tttr", "tttr", "ttt">>]
In_parent2child ==
  [main |-> <<"ttt", "tttrw", "tttrw", "t_trw", "twtrw", "twt_w", "twt", "twt", "t_t", "t_t">>,
   child |-> <<"tttrw", "_ttrw", "rttrw", "rtt_w", "rtt", "rtt">>]
In_who2my_cut ==
  [main |-> <<"ttt", "tttrw", "tttrw", "tttr", "tttr", "tttr">>,
   child |-> <<"tttrw", "t_trw", "t_trw", "twtrw", "twt_w", "twt", "twt">>,
   printer |-> <<"twt", "twt">>]
In_who2cut ==
  [main |-> <<"ttt", "tttrw", "tttrw", "tttrw", "tttrw">>,
   child |-> <<"tttrw", "_ttrw", "rttrw", "rtt_w", "rtt", "rtt">>,
   reader |-> <<"rtt", "rtt">>,
   child2 |-> <<"tttrw", "t_trw", "twtrw", "twt_w", "twt", "twt">>,
   printer |-> <<"twt", "twt">>]
In_dup2sort ==
  [main |-> <<"ttt", "tttrw", "tttrw", "ttt_w", "ttt_w", "ttt", "ttt">>,
   child |-> <<"tttrw", "tttr", "rttr", "rttr">>,
   reader |-> <<"rttr", "rttr">>]
In_stdout2file ==
  [main |-> <<"ttt", "ttt", "ttt">>,
   child |-> <<"ttt", "tttf", "t_tf", "tftf", "tft", "tft">>,
   printer |-> <<"tft", "tft">>]
In_popen ==
  [main |-> <<"ttt", "tttrw", "tttrw", "tttr", "tttrf", "tftrf", "tftrf">>,
   child |-> <<"tttrw", "ttt_w", "twt_w", "twt", "twt">>,
   printer |-> <<"twt", "twt">>]
In_pipe1 ==
  [main |-> <<"ttt", "tttrw", "tttrw", "tttr", "tttr", "tttr", "ttt", "ttt">>,
   child |-> <<"tttrw", "ttt_w", "twt_w", "twt_w">>,
   printer |-> <<"twt_w", "twt_w">>,
   child2 |-> <<"tttr", "tttr", "rttr", "rttr">>,
   reader |-> <<"rttr", "rttr">>]
In_fifo3 ==
  [main |-> <<"ttt", "ttt", "tttr", "tttr", "_ttr", "rttr", "rtt", "rtt">>,
   reader |-> <<"rtt", "rtt">>,
   other |-> <<"ttt", "ttt", "tttw", "tttw", "t_tw", "twtw", "twt", "twt">>,
   printer |-> <<"twt", "twt">>]
In_local ==
  [main |-> <<"ttt", "ttt", "ttts", "ttts", "ttts">>,
   other |-> <<"ttt", "ttta", "ttta", "ttta", "ttt">>]
In_studentFifo ==
  [main |-> <<"ttt", "ttt", "tttr", "tttr", "tttr", "tttr", "ttt">>,
   other |-> <<"ttt", "ttt", "tttw", "tttw", "tttw", "ttt">>]
In_studentSocket ==
  [main |-> <<"ttt", "ttt", "ttts", "ttts", "ttts", "ttt">>,
   other |-> <<"ttt", "ttta", "ttta", "ttta", "ttt">>]
In_procesy ==
  [main |-> <<"ttt", "ttt", "ttt", "ttt">>,
   child |-> <<"ttt", "tttf", "tttf", "ttt">>]
In_presmer ==
  [main |-> <<"ttt", "tttf", "t_tf", "tftf", "tft", "tft">>]
In_presmerovanie ==
  [main |-> <<"ttt", "tttf", "t_tf", "tftf", "tft", "tft", "tft">>,
   printer |-> <<"tft", "tft">>]
Views ==
  [childpipe |-> In_childpipe, parent2child |-> In_parent2child, who2my_cut |-> In_who2my_cut,
   who2cut |-> In_who2cut, dup2sort |-> In_dup2sort, stdout2file |-> In_stdout2file, popen |-> In_popen,
   pipe |-> In_dup2sort, pipe1 |-> In_pipe1, fifo3 |-> In_fifo3, local |-> In_local,
   studentFifo |-> In_studentFifo, studentSocket |-> In_studentSocket, procesy |-> In_procesy,
   presmer |-> In_presmer, presmerovanie |-> In_presmerovanie]

View(e, r, k) == IF e \in DOMAIN Views THEN Views[e][r][k] ELSE "ttt"
Letter(v, n) == Layout[v][n + 1]
Takes(v, w, n, l) == \A i \in 0 .. 4 : Letter(w, i) = IF i = n THEN l ELSE Letter(v, i)
FirstFree(v, n) == Letter(v, n) = "." /\ \A i \in 0 .. 4 : i < n => Letter(v, i) # "."

Piped == {"childpipe", "parent2child", "who2my_cut", "who2cut", "dup2sort", "popen", "pipe", "pipe1"}
Fifos == {"fifo3", "studentFifo"}
Sockets == {"local", "studentSocket"}
Queues == {"fronta", "studentQueue"}
Thrice == "studentPipe"
Execs == {"spawn", "lsko", "execRun", "execOnly"}
\* The programs that run in an exercise.
Runs(e) == IF e \in DOMAIN Views THEN DOMAIN Views[e]
                               ELSE DOMAIN Calls!Code[e] \cup (IF e \in Execs THEN {"printer"} ELSE {})

\* Where a program opens its file, fifo or socket, and the number a variable has.
OpenedAt(e, r) ==
  IF r = "main" THEN IF e = "popen" THEN 4 ELSE IF e \in Fifos \cup Sockets THEN 2
                     ELSE IF e \in {"presmer", "presmerovanie"} THEN 1 ELSE 100
  ELSE IF r = "other" THEN IF e \in Fifos THEN 2 ELSE IF e \in Sockets THEN 1 ELSE 100
  ELSE IF r = "child" /\ e \in {"stdout2file", "procesy"} THEN 1 ELSE 100
Opens(e) == IF e = "popen" THEN 4 ELSE 3
Number(e, r, k, f) ==
  CASE f = "in" -> 0 [] f = "out" -> 1 [] f = "err" -> 2
    [] f = "r" -> IF e \in Piped /\ (r # "main" \/ k > 1) THEN 3 ELSE -1
    [] f = "w" -> IF e \in Piped /\ (r # "main" \/ k > 1) THEN 4 ELSE -1
    [] f = "fd" -> IF k > OpenedAt(e, r) THEN Opens(e) ELSE -1

\* Where a program begins to write, and whether it writes as many messages as there are lines.
WrittenAt(e, r) ==
  IF r = "main"
  THEN IF e \in {"forkWrite", "forkPrintf"} THEN 2 ELSE IF e \in {"fronta", "local"} THEN 3
       ELSE IF e \in {"childpipe", "dup2sort", "pipe", "studentPipe", "studentSocket"} THEN 4
       ELSE IF e \in {"multiproc", "presmer", "presmerovanie"} THEN 5 ELSE IF e = "parent2child" THEN 7 ELSE 100
  ELSE IF r = "other"
  THEN IF e = "local" THEN 3 ELSE IF e = "studentFifo" THEN 4
       ELSE IF e \in {"fronta", "studentQueue", "studentSocket"} THEN 2 ELSE 100
  ELSE IF r = "child" /\ e = "procesy" THEN 2
  ELSE IF r = "printer" \/ (r \in {"child", "child2"} /\ e \in {"forkWrite", "forkPrintf",
       "multiproc"}) THEN 1 ELSE 100
Lines(e, r) == r = "printer" \/ e \in {"childpipe", "parent2child", "dup2sort", "pipe", "local", "studentFifo"}

Names == {"in", "out", "err", "r", "w", "fd"}
Kept == {"fork", "exec", "wait", "readfile", "write", "copy", "mkfifo", "opened", "unlink", "listen",
         "msgget", "msgsnd", "msgrcv", "rmid"}
\* Which program makes a call, and where.
Sits(e, r, k) ==
  LET c == Calls!Program(e, r)[k] IN
  /\ c.op # "again"
  /\ c.op \in {"close", "dup", "dup2", "write", "copy"} => c.f \in Names
  /\ c.op \in {"dup2", "copy"} => c.g \in Names
  /\ c.op = "pipe" <=> e \in Piped /\ r = "main" /\ k = 1
  /\ c.op \in {"creat", "open", "connect", "accept"} <=> k = OpenedAt(e, r)
  /\ c.op = "fork" => r = "main" /\ c.child \in Runs(e) \cap {"child", "child2"} /\ c.fail \in {Calls!TheEnd, k + 1}
  /\ c.op = "exec" => c.program \in Runs(e) \cap {"reader", "printer"} /\ e # "local"
  /\ c.op = "write" => IF c.n = "one" THEN k >= WrittenAt(e, r) /\ ~Lines(e, r)
                                      ELSE k = WrittenAt(e, r) /\ Lines(e, r)
  /\ c.op = "copy" /\ c.n = "lines" => e = "local" /\ k = (IF r = "main" THEN 4 ELSE 2)
  /\ c.op = "creat" => e \notin Queues
  /\ c.op = "mkfifo" => e \in Fifos /\ k = 1 /\ r \in {"main", "other"}
  /\ c.op \in {"open", "opened", "unlink"} => e \in Fifos /\ k > 1
  /\ c.op = "open" => c.end \in {"r", "w"}
  /\ c.op = "connect" => e \in Sockets /\ k = 1 /\ r = "other"
  /\ c.op \in {"listen", "accept"} => e \in Sockets
  /\ c.op \in {"msgget", "msgsnd", "msgrcv", "rmid"} => e \in Queues /\ r \in {"main", "other"}
  /\ e \in Queues /\ r \in {"main", "other"} /\ k = 1 => c.op = "msgget"
  /\ c.op = "msgget" => k = 1
  /\ c.op = "msgsnd" => k >= WrittenAt(e, r) /\ ~Lines(e, r) /\ c.type \in 1 .. 2
  /\ c.op = "rmid" => r = "main"
\* The descriptors before a call and after it.
Fits(e, r, k) ==
  LET c == Calls!Program(e, r)[k]  v == View(e, r, k)  w == View(e, r, k + 1)  num(f) == Number(e, r, k, f) IN
  /\ c.op \in Kept => w = v
  /\ c.op = "pipe" => v = "ttt" /\ w = "tttrw"
  /\ c.op = "fork" => View(e, c.child, 1) = v
  /\ c.op = "exec" => View(e, c.program, 1) = v
  /\ c.op = "close" => num(c.f) \in 0 .. 4 /\ Takes(v, w, num(c.f), ".")
  /\ c.op = "dup" => num(c.f) \in 0 .. 4 /\ \E n \in 0 .. 1 : FirstFree(v, n) /\ Takes(v, w, n, Letter(v, num(c.f)))
  /\ c.op = "dup2" => num(c.f) \in 0 .. 4 /\ num(c.g) \in 0 .. 1 /\ Takes(v, w, num(c.g), Letter(v, num(c.f)))
  /\ c.op = "creat" => FirstFree(v, Opens(e)) /\ Takes(v, w, Opens(e), "f")
  /\ c.op = "open" => FirstFree(v, 3) /\ Takes(v, w, 3, c.end)
  /\ c.op = "connect" => FirstFree(v, 3) /\ Takes(v, w, 3, "a")
  /\ c.op = "accept" => FirstFree(v, 3) /\ Takes(v, w, 3, "s")
  /\ c.op = "write" => num(c.f) \in 0 .. 4
  /\ c.op = "copy" => /\ num(c.f) \in 0 .. 4 /\ num(c.g) \in 0 .. 4
                      /\ Letter(v, num(c.f)) \in {"r", "a", "s"} /\ Letter(v, num(c.g)) \in {"t", "f"}
Row(e, r) ==
  /\ Len(Calls!Program(e, r)) \in Nat /\ DOMAIN Calls!Program(e, r) = 1 .. Len(Calls!Program(e, r))
  /\ \A k \in DOMAIN Calls!Program(e, r) :
       Sits(e, r, k) /\ Fits(e, r, k) /\ (Lines(e, r) \/ k <= WrittenAt(e, r) + 2)
\* The programs that begin an exercise do so at the terminal.
Begins(e) ==
  /\ "main" \in Runs(e) /\ View(e, "main", 1) = "ttt"
  /\ Calls!Pair(e) => "other" \in Runs(e) /\ View(e, "other", 1) = "ttt" /\ e \notin Piped
Rows(e) == Begins(e) /\ \A r \in Runs(e) : Row(e, r)

\* What one call makes of a layout, for all changes the exercises make.
LEMMA Changes ==
  /\ Takes("_ttr", "rttr", 0, "r") /\ Takes("_ttrw", "rttrw", 0, "r") /\ Takes("rtt_w", "rtt", 4, ".")
  /\ Takes("rttr", "rtt", 3, ".") /\ Takes("rttrw", "rtt_w", 3, ".") /\ Takes("t_tf", "tftf", 1, "f")
  /\ Takes("t_trw", "t_trw", 1, ".") /\ Takes("t_trw", "twtrw", 1, "w") /\ Takes("t_tw", "twtw", 1, "w")
  /\ Takes("tftf", "tft", 3, ".") /\ Takes("ttt", "ttta", 3, "a") /\ Takes("ttt", "tttf", 3, "f")
  /\ Takes("ttt", "tttr", 3, "r") /\ Takes("ttt", "ttts", 3, "s") /\ Takes("ttt", "tttw", 3, "w")
  /\ Takes("ttt_w", "ttt", 4, ".") /\ Takes("ttt_w", "twt_w", 1, "w") /\ Takes("ttta", "ttt", 3, ".")
  /\ Takes("tttf", "t_tf", 1, ".") /\ Takes("tttf", "ttt", 3, ".") /\ Takes("tttr", "_ttr", 0, ".")
  /\ Takes("tttr", "rttr", 0, "r") /\ Takes("tttr", "ttt", 3, ".") /\ Takes("tttr", "tttr", 4, ".")
  /\ Takes("tttr", "tttrf", 4, "f") /\ Takes("tttrf", "tftrf", 1, "f") /\ Takes("tttrw", "_ttrw", 0, ".")
  /\ Takes("tttrw", "t_trw", 1, ".") /\ Takes("tttrw", "ttt_w", 3, ".") /\ Takes("tttrw", "tttr", 4, ".")
  /\ Takes("ttts", "ttt", 3, ".") /\ Takes("tttw", "t_tw", 1, ".") /\ Takes("tttw", "ttt", 3, ".")
  /\ Takes("twt", "t_t", 1, ".") /\ Takes("twt_w", "twt", 4, ".") /\ Takes("twtrw", "twt_w", 3, ".")
  /\ Takes("twtw", "twt", 3, ".")
<1>1. /\ Takes("_ttr", "rttr", 0, "r") /\ Takes("_ttrw", "rttrw", 0, "r") /\ Takes("rtt_w", "rtt", 4, ".")
      /\ Takes("rttr", "rtt", 3, ".") /\ Takes("rttrw", "rtt_w", 3, ".") /\ Takes("t_tf", "tftf", 1, "f")
      /\ Takes("t_trw", "t_trw", 1, ".") /\ Takes("t_trw", "twtrw", 1, "w") /\ Takes("t_tw", "twtw", 1, "w")
      /\ Takes("tftf", "tft", 3, ".")
  BY DEF Takes, Letter, Layout
<1>2. /\ Takes("ttt", "ttta", 3, "a") /\ Takes("ttt", "tttf", 3, "f") /\ Takes("ttt", "tttr", 3, "r")
      /\ Takes("ttt", "ttts", 3, "s") /\ Takes("ttt", "tttw", 3, "w") /\ Takes("ttt_w", "ttt", 4, ".")
      /\ Takes("ttt_w", "twt_w", 1, "w") /\ Takes("ttta", "ttt", 3, ".") /\ Takes("tttf", "t_tf", 1, ".")
      /\ Takes("tttf", "ttt", 3, ".")
  BY DEF Takes, Letter, Layout
<1>3. /\ Takes("tttr", "_ttr", 0, ".") /\ Takes("tttr", "rttr", 0, "r") /\ Takes("tttr", "ttt", 3, ".")
      /\ Takes("tttr", "tttr", 4, ".") /\ Takes("tttr", "tttrf", 4, "f") /\ Takes("tttrf", "tftrf", 1, "f")
      /\ Takes("tttrw", "_ttrw", 0, ".") /\ Takes("tttrw", "t_trw", 1, ".") /\ Takes("tttrw", "ttt_w", 3, ".")
      /\ Takes("tttrw", "tttr", 4, ".")
  BY DEF Takes, Letter, Layout
<1>4. /\ Takes("ttts", "ttt", 3, ".") /\ Takes("tttw", "t_tw", 1, ".") /\ Takes("tttw", "ttt", 3, ".")
      /\ Takes("twt", "t_t", 1, ".") /\ Takes("twt_w", "twt", 4, ".") /\ Takes("twtrw", "twt_w", 3, ".")
      /\ Takes("twtw", "twt", 3, ".")
  BY DEF Takes, Letter, Layout
<1> QED
  BY <1>1, <1>2, <1>3, <1>4

\* The lowest free descriptor of a layout.
LEMMA Lowest ==
  /\ FirstFree("_ttr", 0) /\ FirstFree("_ttrw", 0) /\ FirstFree("t_tf", 1) /\ FirstFree("t_trw", 1)
  /\ FirstFree("t_tw", 1) /\ FirstFree("ttt", 3) /\ FirstFree("tttr", 4)
<1>1. Letter("_ttr", 0) = "." /\ Letter("_ttrw", 0) = "." /\ Letter("t_tf", 1) = "." /\ Letter("t_trw",
        1) = "." /\ Letter("t_tw", 1) = "." /\ Letter("ttt", 3) = "." /\ Letter("tttr", 4) = "."
  BY DEF Letter, Layout
<1>2. Letter("t_tf", 0) # "." /\ Letter("t_trw", 0) # "." /\ Letter("t_tw", 0) # "." /\ Letter("ttt", 0) # "."
        /\ Letter("ttt", 1) # "." /\ Letter("ttt", 2) # "." /\ Letter("tttr", 0) # "." /\ Letter("tttr",
        1) # "." /\ Letter("tttr", 2) # "." /\ Letter("tttr", 3) # "."
  BY DEF Letter, Layout
<1> QED
  BY <1>1, <1>2 DEF FirstFree

\* Where the descriptors that are read or written lead.
LEMMA Letters ==
  /\ Letter("_ttr", 3) = "r" /\ Letter("_ttrw", 3) = "r" /\ Letter("rtt", 0) = "r" /\ Letter("rtt", 1) = "t"
  /\ Letter("rtt", 2) = "t" /\ Letter("rttr", 0) = "r" /\ Letter("rttr", 1) = "t" /\ Letter("t_tf", 3) = "f"
  /\ Letter("t_trw", 4) = "w" /\ Letter("t_tw", 3) = "w" /\ Letter("tft", 1) = "f" /\ Letter("tftrf", 1) = "f"
  /\ Letter("tftrf", 3) = "r" /\ Letter("ttt_w", 4) = "w" /\ Letter("ttta", 1) = "t" /\ Letter("ttta", 3) = "a"
  /\ Letter("tttf", 3) = "f" /\ Letter("tttr", 1) = "t" /\ Letter("tttr", 3) = "r" /\ Letter("tttrf", 4) = "f"
  /\ Letter("ttts", 1) = "t" /\ Letter("ttts", 3) = "s" /\ Letter("tttw", 3) = "w" /\ Letter("twt", 1) = "w"
  /\ Letter("twt_w", 1) = "w"
BY DEF Letter, Layout

\* The numbers of the variables.
LEMMA NumberOf ==
  \A e, r, k : /\ Number(e, r, k, "in") = 0 /\ Number(e, r, k, "out") = 1 /\ Number(e, r, k, "err") = 2
               /\ e \in Piped /\ (r # "main" \/ k > 1) => Number(e, r, k, "r") = 3 /\ Number(e, r, k, "w") = 4
               /\ Number(e, r, k, "fd") = IF k > OpenedAt(e, r) THEN Opens(e) ELSE -1
BY DEF Number

\* The programs of an exercise, and their layouts.
LEMMA CodeOf ==
  /\ Calls!Code["childpipe"] = Calls!Childpipe /\ Calls!Code["parent2child"] = Calls!Parent2child
       /\ Calls!Code["who2my_cut"] = Calls!Who2myCut
  /\ Calls!Code["who2cut"] = Calls!Who2cut /\ Calls!Code["dup2sort"] = Calls!Dup2sort
       /\ Calls!Code["stdout2file"] = Calls!Stdout2file
  /\ Calls!Code["popen"] = Calls!Popen /\ Calls!Code["pipe"] = Calls!PipeToSort
       /\ Calls!Code["pipe1"] = Calls!PsToWc
  /\ Calls!Code["fifo3"] = [main |-> Calls!Rfifo3, other |-> Calls!Wfifo3]
  /\ Calls!Code["fronta"] = [main |-> Calls!QueueServer, other |-> Calls!QueueClient]
  /\ Calls!Code["local"] = [main |-> Calls!LocalServer, other |-> Calls!LocalClient]
       /\ Calls!Code["studentPipe"] = Calls!StudentPipe
  /\ Calls!Code["studentFifo"] = [main |-> Calls!FifoReceiver, other |-> Calls!FifoSender]
  /\ Calls!Code["studentQueue"] = [main |-> Calls!MsgQueueReceiver, other |-> Calls!MsgQueueSender]
  /\ Calls!Code["studentSocket"] = [main |-> Calls!SocketServer, other |-> Calls!SocketClient]
       /\ Calls!Code["spawn"] = Calls!Spawn
  /\ Calls!Code["lsko"] = Calls!Lsko /\ Calls!Code["execRun"] = Calls!ExecRun
       /\ Calls!Code["execOnly"] = Calls!ExecOnly
  /\ Calls!Code["forkWrite"] = Calls!ForkWrite /\ Calls!Code["forkPrintf"] = Calls!ForkPrintf
       /\ Calls!Code["forkOnly"] = Calls!ForkOnly
  /\ Calls!Code["forkZombie"] = Calls!ForkZombie /\ Calls!Code["forkWait"] = Calls!ForkWait
       /\ Calls!Code["waitStatus"] = Calls!WaitStatus
  /\ Calls!Code["returncode"] = Calls!ReturnCode /\ Calls!Code["bothWait"] = Calls!BothWait
       /\ Calls!Code["multiproc"] = Calls!Multiproc
  /\ Calls!Code["procesy"] = Calls!Procesy /\ Calls!Code["presmer"] = Calls!Presmer
       /\ Calls!Code["presmerovanie"] = Calls!Presmerovanie
BY DEF Calls!Code

LEMMA ViewsOf ==
  /\ DOMAIN Views = {"childpipe", "parent2child", "who2my_cut", "who2cut", "dup2sort", "stdout2file", "popen",
       "pipe", "pipe1",
       "fifo3", "local", "studentFifo", "studentSocket", "procesy", "presmer", "presmerovanie"}
  /\ Views["childpipe"] = In_childpipe /\ Views["parent2child"] = In_parent2child
  /\ Views["who2my_cut"] = In_who2my_cut /\ Views["who2cut"] = In_who2cut /\ Views["dup2sort"] = In_dup2sort
  /\ Views["stdout2file"] = In_stdout2file /\ Views["popen"] = In_popen /\ Views["pipe"] = In_dup2sort
  /\ Views["pipe1"] = In_pipe1 /\ Views["fifo3"] = In_fifo3 /\ Views["local"] = In_local
  /\ Views["studentFifo"] = In_studentFifo /\ Views["studentSocket"] = In_studentSocket
  /\ Views["procesy"] = In_procesy /\ Views["presmer"] = In_presmer
  /\ Views["presmerovanie"] = In_presmerovanie
BY DEF Views

\* The tables fit the programs, exercise by exercise.
LEMMA Row_childpipe == Rows("childpipe")
<1> DEFINE e == "childpipe"
<1>1. Runs(e) = {"main", "child"} /\ e \in DOMAIN Views /\ Views[e] = In_childpipe
  BY ViewsOf, CodeOf DEF Runs, Execs, In_childpipe
<1>2. \A r, k : View(e, r, k) = In_childpipe[r][k]
  BY <1>1 DEF View
<1>b. Begins(e)
  BY <1>1, <1>2, CodeOf DEF Begins, Calls!Pair, Piped, In_childpipe, Calls!Childpipe
<1> USE <1>1, <1>2 DEF Kept, Names, Piped, Fifos, Sockets, Queues, Calls!TheEnd, Calls!Close, Calls!Copy,
  Calls!Fork, Calls!Pipe, Calls!Write
<1>3. Row(e, "main")
  <2> DEFINE p == Calls!Program(e, "main")
  <2>1. p = <<Calls!Pipe, Calls!Fork("child", Calls!TheEnd), Calls!Close("r"), Calls!Write("w", "lines"),
          Calls!Close("w")>>
    BY CodeOf DEF Calls!Program, Calls!Childpipe
  <2>2. OpenedAt(e, "main") = 100 /\ Opens(e) = 3 /\ WrittenAt(e, "main") = 4 /\ Lines(e, "main")
    BY DEF OpenedAt, Opens, WrittenAt, Lines
  <2>3. /\ In_childpipe["main"] = <<"ttt", "tttrw", "tttrw", "ttt_w", "ttt_w", "ttt">>
        /\ In_childpipe["child"] = <<"tttrw", "tttr", "tttr", "ttt">>
    BY DEF In_childpipe
  <2>4. \A k \in 1 .. 5 : Fits(e, "main", k)
    BY <2>1, <2>2, <2>3, NumberOf, Changes, Lowest, Letters DEF Fits
  <2>5. \A k \in 1 .. 5 : Sits(e, "main", k)
    BY <2>1, <2>2 DEF Sits
  <2>6. Len(p) = 5 /\ DOMAIN p = 1 .. 5
    BY <2>1
  <2> QED
    BY <2>2, <2>4, <2>5, <2>6 DEF Row
<1>4. Row(e, "child")
  <2> DEFINE p == Calls!Program(e, "child")
  <2>1. p = <<Calls!Close("w"), Calls!Copy("r", "out", "all"), Calls!Close("r")>>
    BY CodeOf DEF Calls!Program, Calls!Childpipe
  <2>2. OpenedAt(e, "child") = 100 /\ Opens(e) = 3 /\ WrittenAt(e, "child") = 100 /\ Lines(e, "child")
    BY DEF OpenedAt, Opens, WrittenAt, Lines
  <2>3. In_childpipe["child"] = <<"tttrw", "tttr", "tttr", "ttt">>
    BY DEF In_childpipe
  <2>4. \A k \in 1 .. 3 : Fits(e, "child", k)
    BY <2>1, <2>2, <2>3, NumberOf, Changes, Lowest, Letters DEF Fits
  <2>5. \A k \in 1 .. 3 : Sits(e, "child", k)
    BY <2>1, <2>2 DEF Sits
  <2>6. Len(p) = 3 /\ DOMAIN p = 1 .. 3
    BY <2>1
  <2> QED
    BY <2>2, <2>4, <2>5, <2>6 DEF Row
<1> QED
  BY <1>b, <1>3, <1>4 DEF Rows

LEMMA Row_parent2child == Rows("parent2child")
<1> DEFINE e == "parent2child"
<1>1. Runs(e) = {"main", "child"} /\ e \in DOMAIN Views /\ Views[e] = In_parent2child
  BY ViewsOf, CodeOf DEF Runs, Execs, In_parent2child
<1>2. \A r, k : View(e, r, k) = In_parent2child[r][k]
  BY <1>1 DEF View
<1>b. Begins(e)
  BY <1>1, <1>2, CodeOf DEF Begins, Calls!Pair, Piped, In_parent2child, Calls!Parent2child
<1> USE <1>1, <1>2 DEF Kept, Names, Piped, Fifos, Sockets, Queues, Calls!TheEnd, Calls!Close, Calls!Copy,
  Calls!Dup, Calls!Fork, Calls!Pipe, Calls!Wait,
  Calls!Write
<1>3. Row(e, "main")
  <2> DEFINE p == Calls!Program(e, "main")
  <2>1. p = <<Calls!Pipe, Calls!Fork("child", Calls!TheEnd), Calls!Close("out"), Calls!Dup("w"),
          Calls!Close("r"), Calls!Close("w"), Calls!Write("out", "lines"), Calls!Close("out"), Calls!Wait>>
    BY CodeOf DEF Calls!Program, Calls!Parent2child
  <2>2. OpenedAt(e, "main") = 100 /\ Opens(e) = 3 /\ WrittenAt(e, "main") = 7 /\ Lines(e, "main")
    BY DEF OpenedAt, Opens, WrittenAt, Lines
  <2>3. /\ In_parent2child["main"] = <<"ttt", "tttrw", "tttrw", "t_trw", "twtrw", "twt_w", "twt", "twt", "t_t",
             "t_t">>
        /\ In_parent2child["child"] = <<"tttrw", "_ttrw", "rttrw", "rtt_w", "rtt", "rtt">>
    BY DEF In_parent2child
  <2>4. \A k \in 1 .. 9 : Fits(e, "main", k)
    BY <2>1, <2>2, <2>3, NumberOf, Changes, Lowest, Letters DEF Fits
  <2>5. \A k \in 1 .. 9 : Sits(e, "main", k)
    BY <2>1, <2>2 DEF Sits
  <2>6. Len(p) = 9 /\ DOMAIN p = 1 .. 9
    BY <2>1
  <2> QED
    BY <2>2, <2>4, <2>5, <2>6 DEF Row
<1>4. Row(e, "child")
  <2> DEFINE p == Calls!Program(e, "child")
  <2>1. p = <<Calls!Close("in"), Calls!Dup("r"), Calls!Close("r"), Calls!Close("w"), Calls!Copy("in", "err",
          "all")>>
    BY CodeOf DEF Calls!Program, Calls!Parent2child
  <2>2. OpenedAt(e, "child") = 100 /\ Opens(e) = 3 /\ WrittenAt(e, "child") = 100 /\ Lines(e, "child")
    BY DEF OpenedAt, Opens, WrittenAt, Lines
  <2>3. In_parent2child["child"] = <<"tttrw", "_ttrw", "rttrw", "rtt_w", "rtt", "rtt">>
    BY DEF In_parent2child
  <2>4. \A k \in 1 .. 5 : Fits(e, "child", k)
    BY <2>1, <2>2, <2>3, NumberOf, Changes, Lowest, Letters DEF Fits
  <2>5. \A k \in 1 .. 5 : Sits(e, "child", k)
    BY <2>1, <2>2 DEF Sits
  <2>6. Len(p) = 5 /\ DOMAIN p = 1 .. 5
    BY <2>1
  <2> QED
    BY <2>2, <2>4, <2>5, <2>6 DEF Row
<1> QED
  BY <1>b, <1>3, <1>4 DEF Rows

LEMMA Row_who2my_cut == Rows("who2my_cut")
<1> DEFINE e == "who2my_cut"
<1>1. Runs(e) = {"main", "child", "printer"} /\ e \in DOMAIN Views /\ Views[e] = In_who2my_cut
  BY ViewsOf, CodeOf DEF Runs, Execs, In_who2my_cut
<1>2. \A r, k : View(e, r, k) = In_who2my_cut[r][k]
  BY <1>1 DEF View
<1>b. Begins(e)
  BY <1>1, <1>2, CodeOf DEF Begins, Calls!Pair, Piped, In_who2my_cut, Calls!Who2myCut
<1> USE <1>1, <1>2 DEF Kept, Names, Piped, Fifos, Sockets, Queues, Calls!TheEnd, Calls!Close, Calls!Copy,
  Calls!Dup, Calls!Exec, Calls!Fork, Calls!Pipe,
  Calls!Wait, Calls!Write
<1>3. Row(e, "main")
  <2> DEFINE p == Calls!Program(e, "main")
  <2>1. p = <<Calls!Pipe, Calls!Fork("child", Calls!TheEnd), Calls!Close("w"), Calls!Copy("r", "out", "all"),
          Calls!Wait>>
    BY CodeOf DEF Calls!Program, Calls!Who2myCut
  <2>2. OpenedAt(e, "main") = 100 /\ Opens(e) = 3 /\ WrittenAt(e, "main") = 100 /\ ~Lines(e, "main")
    BY DEF OpenedAt, Opens, WrittenAt, Lines
  <2>3. /\ In_who2my_cut["main"] = <<"ttt", "tttrw", "tttrw", "tttr", "tttr", "tttr">>
        /\ In_who2my_cut["child"] = <<"tttrw", "t_trw", "t_trw", "twtrw", "twt_w", "twt", "twt">>
    BY DEF In_who2my_cut
  <2>4. \A k \in 1 .. 5 : Fits(e, "main", k)
    BY <2>1, <2>2, <2>3, NumberOf, Changes, Lowest, Letters DEF Fits
  <2>5. \A k \in 1 .. 5 : Sits(e, "main", k)
    BY <2>1, <2>2 DEF Sits
  <2>6. Len(p) = 5 /\ DOMAIN p = 1 .. 5
    BY <2>1
  <2> QED
    BY <2>2, <2>4, <2>5, <2>6 DEF Row
<1>4. Row(e, "child")
  <2> DEFINE p == Calls!Program(e, "child")
  <2>1. p = <<Calls!Close("out"), Calls!Close("out"), Calls!Dup("w"), Calls!Close("r"), Calls!Close("w"),
          Calls!Exec("printer")>>
    BY CodeOf DEF Calls!Program, Calls!Who2myCut
  <2>2. OpenedAt(e, "child") = 100 /\ Opens(e) = 3 /\ WrittenAt(e, "child") = 100 /\ ~Lines(e, "child")
    BY DEF OpenedAt, Opens, WrittenAt, Lines
  <2>3. /\ In_who2my_cut["child"] = <<"tttrw", "t_trw", "t_trw", "twtrw", "twt_w", "twt", "twt">>
        /\ In_who2my_cut["printer"] = <<"twt", "twt">>
    BY DEF In_who2my_cut
  <2>4. \A k \in 1 .. 6 : Fits(e, "child", k)
    BY <2>1, <2>2, <2>3, NumberOf, Changes, Lowest, Letters DEF Fits
  <2>5. \A k \in 1 .. 6 : Sits(e, "child", k)
    BY <2>1, <2>2 DEF Sits
  <2>6. Len(p) = 6 /\ DOMAIN p = 1 .. 6
    BY <2>1
  <2> QED
    BY <2>2, <2>4, <2>5, <2>6 DEF Row
<1>5. Row(e, "printer")
  <2> DEFINE p == Calls!Program(e, "printer")
  <2>1. p = <<Calls!Write("out", "lines")>>
    BY CodeOf DEF Calls!Program, Calls!Printer
  <2>2. OpenedAt(e, "printer") = 100 /\ Opens(e) = 3 /\ WrittenAt(e, "printer") = 1 /\ Lines(e, "printer")
    BY DEF OpenedAt, Opens, WrittenAt, Lines
  <2>3. In_who2my_cut["printer"] = <<"twt", "twt">>
    BY DEF In_who2my_cut
  <2>4. \A k \in 1 .. 1 : Fits(e, "printer", k)
    BY <2>1, <2>2, <2>3, NumberOf, Changes, Lowest, Letters DEF Fits
  <2>5. \A k \in 1 .. 1 : Sits(e, "printer", k)
    BY <2>1, <2>2 DEF Sits
  <2>6. Len(p) = 1 /\ DOMAIN p = 1 .. 1
    BY <2>1
  <2> QED
    BY <2>2, <2>4, <2>5, <2>6 DEF Row
<1> QED
  BY <1>b, <1>3, <1>4, <1>5 DEF Rows

LEMMA Row_who2cut == Rows("who2cut")
<1> DEFINE e == "who2cut"
<1>1. Runs(e) = {"main", "child", "reader", "child2", "printer"} /\ e \in DOMAIN Views /\ Views[e] = In_who2cut
  BY ViewsOf, CodeOf DEF Runs, Execs, In_who2cut
<1>2. \A r, k : View(e, r, k) = In_who2cut[r][k]
  BY <1>1 DEF View
<1>b. Begins(e)
  BY <1>1, <1>2, CodeOf DEF Begins, Calls!Pair, Piped, In_who2cut, Calls!Who2cut
<1> USE <1>1, <1>2 DEF Kept, Names, Piped, Fifos, Sockets, Queues, Calls!TheEnd, Calls!Close, Calls!Copy,
  Calls!Dup, Calls!Exec, Calls!Fork, Calls!Pipe,
  Calls!Wait, Calls!Write
<1>3. Row(e, "main")
  <2> DEFINE p == Calls!Program(e, "main")
  <2>1. p = <<Calls!Pipe, Calls!Fork("child", Calls!TheEnd), Calls!Fork("child2", Calls!TheEnd), Calls!Wait>>
    BY CodeOf DEF Calls!Program, Calls!Who2cut
  <2>2. OpenedAt(e, "main") = 100 /\ Opens(e) = 3 /\ WrittenAt(e, "main") = 100 /\ ~Lines(e, "main")
    BY DEF OpenedAt, Opens, WrittenAt, Lines
  <2>3. /\ In_who2cut["main"] = <<"ttt", "tttrw", "tttrw", "tttrw", "tttrw">>
        /\ In_who2cut["child"] = <<"tttrw", "_ttrw", "rttrw", "rtt_w", "rtt", "rtt">>
        /\ In_who2cut["child2"] = <<"tttrw", "t_trw", "twtrw", "twt_w", "twt", "twt">>
    BY DEF In_who2cut
  <2>4. \A k \in 1 .. 4 : Fits(e, "main", k)
    BY <2>1, <2>2, <2>3, NumberOf, Changes, Lowest, Letters DEF Fits
  <2>5. \A k \in 1 .. 4 : Sits(e, "main", k)
    BY <2>1, <2>2 DEF Sits
  <2>6. Len(p) = 4 /\ DOMAIN p = 1 .. 4
    BY <2>1
  <2> QED
    BY <2>2, <2>4, <2>5, <2>6 DEF Row
<1>4. Row(e, "child")
  <2> DEFINE p == Calls!Program(e, "child")
  <2>1. p = <<Calls!Close("in"), Calls!Dup("r"), Calls!Close("r"), Calls!Close("w"), Calls!Exec("reader")>>
    BY CodeOf DEF Calls!Program, Calls!Who2cut
  <2>2. OpenedAt(e, "child") = 100 /\ Opens(e) = 3 /\ WrittenAt(e, "child") = 100 /\ ~Lines(e, "child")
    BY DEF OpenedAt, Opens, WrittenAt, Lines
  <2>3. /\ In_who2cut["child"] = <<"tttrw", "_ttrw", "rttrw", "rtt_w", "rtt", "rtt">>
        /\ In_who2cut["reader"] = <<"rtt", "rtt">>
    BY DEF In_who2cut
  <2>4. \A k \in 1 .. 5 : Fits(e, "child", k)
    BY <2>1, <2>2, <2>3, NumberOf, Changes, Lowest, Letters DEF Fits
  <2>5. \A k \in 1 .. 5 : Sits(e, "child", k)
    BY <2>1, <2>2 DEF Sits
  <2>6. Len(p) = 5 /\ DOMAIN p = 1 .. 5
    BY <2>1
  <2> QED
    BY <2>2, <2>4, <2>5, <2>6 DEF Row
<1>5. Row(e, "reader")
  <2> DEFINE p == Calls!Program(e, "reader")
  <2>1. p = <<Calls!Copy("in", "out", "all")>>
    BY CodeOf DEF Calls!Program, Calls!Reader
  <2>2. OpenedAt(e, "reader") = 100 /\ Opens(e) = 3 /\ WrittenAt(e, "reader") = 100 /\ ~Lines(e, "reader")
    BY DEF OpenedAt, Opens, WrittenAt, Lines
  <2>3. In_who2cut["reader"] = <<"rtt", "rtt">>
    BY DEF In_who2cut
  <2>4. \A k \in 1 .. 1 : Fits(e, "reader", k)
    BY <2>1, <2>2, <2>3, NumberOf, Changes, Lowest, Letters DEF Fits
  <2>5. \A k \in 1 .. 1 : Sits(e, "reader", k)
    BY <2>1, <2>2 DEF Sits
  <2>6. Len(p) = 1 /\ DOMAIN p = 1 .. 1
    BY <2>1
  <2> QED
    BY <2>2, <2>4, <2>5, <2>6 DEF Row
<1>6. Row(e, "child2")
  <2> DEFINE p == Calls!Program(e, "child2")
  <2>1. p = <<Calls!Close("out"), Calls!Dup("w"), Calls!Close("r"), Calls!Close("w"), Calls!Exec("printer")>>
    BY CodeOf DEF Calls!Program, Calls!Who2cut
  <2>2. OpenedAt(e, "child2") = 100 /\ Opens(e) = 3 /\ WrittenAt(e, "child2") = 100 /\ ~Lines(e, "child2")
    BY DEF OpenedAt, Opens, WrittenAt, Lines
  <2>3. /\ In_who2cut["child2"] = <<"tttrw", "t_trw", "twtrw", "twt_w", "twt", "twt">>
        /\ In_who2cut["printer"] = <<"twt", "twt">>
    BY DEF In_who2cut
  <2>4. \A k \in 1 .. 5 : Fits(e, "child2", k)
    BY <2>1, <2>2, <2>3, NumberOf, Changes, Lowest, Letters DEF Fits
  <2>5. \A k \in 1 .. 5 : Sits(e, "child2", k)
    BY <2>1, <2>2 DEF Sits
  <2>6. Len(p) = 5 /\ DOMAIN p = 1 .. 5
    BY <2>1
  <2> QED
    BY <2>2, <2>4, <2>5, <2>6 DEF Row
<1>7. Row(e, "printer")
  <2> DEFINE p == Calls!Program(e, "printer")
  <2>1. p = <<Calls!Write("out", "lines")>>
    BY CodeOf DEF Calls!Program, Calls!Printer
  <2>2. OpenedAt(e, "printer") = 100 /\ Opens(e) = 3 /\ WrittenAt(e, "printer") = 1 /\ Lines(e, "printer")
    BY DEF OpenedAt, Opens, WrittenAt, Lines
  <2>3. In_who2cut["printer"] = <<"twt", "twt">>
    BY DEF In_who2cut
  <2>4. \A k \in 1 .. 1 : Fits(e, "printer", k)
    BY <2>1, <2>2, <2>3, NumberOf, Changes, Lowest, Letters DEF Fits
  <2>5. \A k \in 1 .. 1 : Sits(e, "printer", k)
    BY <2>1, <2>2 DEF Sits
  <2>6. Len(p) = 1 /\ DOMAIN p = 1 .. 1
    BY <2>1
  <2> QED
    BY <2>2, <2>4, <2>5, <2>6 DEF Row
<1> QED
  BY <1>b, <1>3, <1>4, <1>5, <1>6, <1>7 DEF Rows

LEMMA Row_dup2sort == ASSUME NEW e \in {"dup2sort", "pipe"} PROVE Rows(e)
<1>1. Runs(e) = {"main", "child", "reader"} /\ e \in DOMAIN Views /\ Views[e] = In_dup2sort
  BY ViewsOf, CodeOf DEF Runs, Execs, In_dup2sort
<1>2. \A r, k : View(e, r, k) = In_dup2sort[r][k]
  BY <1>1 DEF View
<1>b. Begins(e)
  BY <1>1, <1>2, CodeOf DEF Begins, Calls!Pair, Piped, In_dup2sort, Calls!Dup2sort, Calls!PipeToSort
<1> USE <1>1, <1>2 DEF Kept, Names, Piped, Fifos, Sockets, Queues, Calls!TheEnd, Calls!Close, Calls!Copy,
  Calls!Dup2, Calls!Exec, Calls!Fork, Calls!Pipe,
  Calls!Wait, Calls!Write
<1>3. Row(e, "main")
  <2> DEFINE p == Calls!Program(e, "main")
  <2>1. p = <<Calls!Pipe, Calls!Fork("child", Calls!TheEnd), Calls!Close("r"), Calls!Write("w", "lines"),
          Calls!Close("w"), Calls!Wait>>
    BY CodeOf DEF Calls!Program, Calls!Dup2sort, Calls!PipeToSort
  <2>2. OpenedAt(e, "main") = 100 /\ Opens(e) = 3 /\ WrittenAt(e, "main") = 4 /\ Lines(e, "main")
    BY DEF OpenedAt, Opens, WrittenAt, Lines
  <2>3. /\ In_dup2sort["main"] = <<"ttt", "tttrw", "tttrw", "ttt_w", "ttt_w", "ttt", "ttt">>
        /\ In_dup2sort["child"] = <<"tttrw", "tttr", "rttr", "rttr">>
    BY DEF In_dup2sort
  <2>4. \A k \in 1 .. 6 : Fits(e, "main", k)
    BY <2>1, <2>2, <2>3, NumberOf, Changes, Lowest, Letters DEF Fits
  <2>5. \A k \in 1 .. 6 : Sits(e, "main", k)
    BY <2>1, <2>2 DEF Sits
  <2>6. Len(p) = 6 /\ DOMAIN p = 1 .. 6
    BY <2>1
  <2> QED
    BY <2>2, <2>4, <2>5, <2>6 DEF Row
<1>4. Row(e, "child")
  <2> DEFINE p == Calls!Program(e, "child")
  <2>1. p = <<Calls!Close("w"), Calls!Dup2("r", "in"), Calls!Exec("reader")>>
    BY CodeOf DEF Calls!Program, Calls!Dup2sort, Calls!PipeToSort
  <2>2. OpenedAt(e, "child") = 100 /\ Opens(e) = 3 /\ WrittenAt(e, "child") = 100 /\ Lines(e, "child")
    BY DEF OpenedAt, Opens, WrittenAt, Lines
  <2>3. /\ In_dup2sort["child"] = <<"tttrw", "tttr", "rttr", "rttr">>
        /\ In_dup2sort["reader"] = <<"rttr", "rttr">>
    BY DEF In_dup2sort
  <2>4. \A k \in 1 .. 3 : Fits(e, "child", k)
    BY <2>1, <2>2, <2>3, NumberOf, Changes, Lowest, Letters DEF Fits
  <2>5. \A k \in 1 .. 3 : Sits(e, "child", k)
    BY <2>1, <2>2 DEF Sits
  <2>6. Len(p) = 3 /\ DOMAIN p = 1 .. 3
    BY <2>1
  <2> QED
    BY <2>2, <2>4, <2>5, <2>6 DEF Row
<1>5. Row(e, "reader")
  <2> DEFINE p == Calls!Program(e, "reader")
  <2>1. p = <<Calls!Copy("in", "out", "all")>>
    BY CodeOf DEF Calls!Program, Calls!Reader
  <2>2. OpenedAt(e, "reader") = 100 /\ Opens(e) = 3 /\ WrittenAt(e, "reader") = 100 /\ Lines(e, "reader")
    BY DEF OpenedAt, Opens, WrittenAt, Lines
  <2>3. In_dup2sort["reader"] = <<"rttr", "rttr">>
    BY DEF In_dup2sort
  <2>4. \A k \in 1 .. 1 : Fits(e, "reader", k)
    BY <2>1, <2>2, <2>3, NumberOf, Changes, Lowest, Letters DEF Fits
  <2>5. \A k \in 1 .. 1 : Sits(e, "reader", k)
    BY <2>1, <2>2 DEF Sits
  <2>6. Len(p) = 1 /\ DOMAIN p = 1 .. 1
    BY <2>1
  <2> QED
    BY <2>2, <2>4, <2>5, <2>6 DEF Row
<1> QED
  BY <1>b, <1>3, <1>4, <1>5 DEF Rows

LEMMA Row_stdout2file == Rows("stdout2file")
<1> DEFINE e == "stdout2file"
<1>1. Runs(e) = {"main", "child", "printer"} /\ e \in DOMAIN Views /\ Views[e] = In_stdout2file
  BY ViewsOf, CodeOf DEF Runs, Execs, In_stdout2file
<1>2. \A r, k : View(e, r, k) = In_stdout2file[r][k]
  BY <1>1 DEF View
<1>b. Begins(e)
  BY <1>1, <1>2, CodeOf DEF Begins, Calls!Pair, Piped, In_stdout2file, Calls!Stdout2file
<1> USE <1>1, <1>2 DEF Kept, Names, Piped, Fifos, Sockets, Queues, Calls!TheEnd, Calls!Close, Calls!Creat,
  Calls!Dup, Calls!Exec, Calls!Fork, Calls!Wait,
  Calls!Write
<1>3. Row(e, "main")
  <2> DEFINE p == Calls!Program(e, "main")
  <2>1. p = <<Calls!Fork("child", Calls!TheEnd), Calls!Wait>>
    BY CodeOf DEF Calls!Program, Calls!Stdout2file
  <2>2. OpenedAt(e, "main") = 100 /\ Opens(e) = 3 /\ WrittenAt(e, "main") = 100 /\ ~Lines(e, "main")
    BY DEF OpenedAt, Opens, WrittenAt, Lines
  <2>3. /\ In_stdout2file["main"] = <<"ttt", "ttt", "ttt">>
        /\ In_stdout2file["child"] = <<"ttt", "tttf", "t_tf", "tftf", "tft", "tft">>
    BY DEF In_stdout2file
  <2>4. \A k \in 1 .. 2 : Fits(e, "main", k)
    BY <2>1, <2>2, <2>3, NumberOf, Changes, Lowest, Letters DEF Fits
  <2>5. \A k \in 1 .. 2 : Sits(e, "main", k)
    BY <2>1, <2>2 DEF Sits
  <2>6. Len(p) = 2 /\ DOMAIN p = 1 .. 2
    BY <2>1
  <2> QED
    BY <2>2, <2>4, <2>5, <2>6 DEF Row
<1>4. Row(e, "child")
  <2> DEFINE p == Calls!Program(e, "child")
  <2>1. p = <<Calls!Creat, Calls!Close("out"), Calls!Dup("fd"), Calls!Close("fd"), Calls!Exec("printer")>>
    BY CodeOf DEF Calls!Program, Calls!Stdout2file
  <2>2. OpenedAt(e, "child") = 1 /\ Opens(e) = 3 /\ WrittenAt(e, "child") = 100 /\ ~Lines(e, "child")
    BY DEF OpenedAt, Opens, WrittenAt, Lines
  <2>3. /\ In_stdout2file["child"] = <<"ttt", "tttf", "t_tf", "tftf", "tft", "tft">>
        /\ In_stdout2file["printer"] = <<"tft", "tft">>
    BY DEF In_stdout2file
  <2>4. \A k \in 1 .. 5 : Fits(e, "child", k)
    BY <2>1, <2>2, <2>3, NumberOf, Changes, Lowest, Letters DEF Fits
  <2>5. \A k \in 1 .. 5 : Sits(e, "child", k)
    BY <2>1, <2>2 DEF Sits
  <2>6. Len(p) = 5 /\ DOMAIN p = 1 .. 5
    BY <2>1
  <2> QED
    BY <2>2, <2>4, <2>5, <2>6 DEF Row
<1>5. Row(e, "printer")
  <2> DEFINE p == Calls!Program(e, "printer")
  <2>1. p = <<Calls!Write("out", "lines")>>
    BY CodeOf DEF Calls!Program, Calls!Printer
  <2>2. OpenedAt(e, "printer") = 100 /\ Opens(e) = 3 /\ WrittenAt(e, "printer") = 1 /\ Lines(e, "printer")
    BY DEF OpenedAt, Opens, WrittenAt, Lines
  <2>3. In_stdout2file["printer"] = <<"tft", "tft">>
    BY DEF In_stdout2file
  <2>4. \A k \in 1 .. 1 : Fits(e, "printer", k)
    BY <2>1, <2>2, <2>3, NumberOf, Changes, Lowest, Letters DEF Fits
  <2>5. \A k \in 1 .. 1 : Sits(e, "printer", k)
    BY <2>1, <2>2 DEF Sits
  <2>6. Len(p) = 1 /\ DOMAIN p = 1 .. 1
    BY <2>1
  <2> QED
    BY <2>2, <2>4, <2>5, <2>6 DEF Row
<1> QED
  BY <1>b, <1>3, <1>4, <1>5 DEF Rows

LEMMA Row_popen == Rows("popen")
<1> DEFINE e == "popen"
<1>1. Runs(e) = {"main", "child", "printer"} /\ e \in DOMAIN Views /\ Views[e] = In_popen
  BY ViewsOf, CodeOf DEF Runs, Execs, In_popen
<1>2. \A r, k : View(e, r, k) = In_popen[r][k]
  BY <1>1 DEF View
<1>b. Begins(e)
  BY <1>1, <1>2, CodeOf DEF Begins, Calls!Pair, Piped, In_popen, Calls!Popen
<1> USE <1>1, <1>2 DEF Kept, Names, Piped, Fifos, Sockets, Queues, Calls!TheEnd, Calls!Close, Calls!Copy,
  Calls!Creat, Calls!Dup2, Calls!Exec, Calls!Fork,
  Calls!Pipe, Calls!Write
<1>3. Row(e, "main")
  <2> DEFINE p == Calls!Program(e, "main")
  <2>1. p = <<Calls!Pipe, Calls!Fork("child", Calls!TheEnd), Calls!Close("w"), Calls!Creat, Calls!Dup2("fd",
          "out"), Calls!Copy("r", "out", "all")>>
    BY CodeOf DEF Calls!Program, Calls!Popen
  <2>2. OpenedAt(e, "main") = 4 /\ Opens(e) = 4 /\ WrittenAt(e, "main") = 100 /\ ~Lines(e, "main")
    BY DEF OpenedAt, Opens, WrittenAt, Lines
  <2>3. /\ In_popen["main"] = <<"ttt", "tttrw", "tttrw", "tttr", "tttrf", "tftrf", "tftrf">>
        /\ In_popen["child"] = <<"tttrw", "ttt_w", "twt_w", "twt", "twt">>
    BY DEF In_popen
  <2>4. \A k \in 1 .. 6 : Fits(e, "main", k)
    BY <2>1, <2>2, <2>3, NumberOf, Changes, Lowest, Letters DEF Fits
  <2>5. \A k \in 1 .. 6 : Sits(e, "main", k)
    BY <2>1, <2>2 DEF Sits
  <2>6. Len(p) = 6 /\ DOMAIN p = 1 .. 6
    BY <2>1
  <2> QED
    BY <2>2, <2>4, <2>5, <2>6 DEF Row
<1>4. Row(e, "child")
  <2> DEFINE p == Calls!Program(e, "child")
  <2>1. p = <<Calls!Close("r"), Calls!Dup2("w", "out"), Calls!Close("w"), Calls!Exec("printer")>>
    BY CodeOf DEF Calls!Program, Calls!Popen
  <2>2. OpenedAt(e, "child") = 100 /\ Opens(e) = 4 /\ WrittenAt(e, "child") = 100 /\ ~Lines(e, "child")
    BY DEF OpenedAt, Opens, WrittenAt, Lines
  <2>3. /\ In_popen["child"] = <<"tttrw", "ttt_w", "twt_w", "twt", "twt">>
        /\ In_popen["printer"] = <<"twt", "twt">>
    BY DEF In_popen
  <2>4. \A k \in 1 .. 4 : Fits(e, "child", k)
    BY <2>1, <2>2, <2>3, NumberOf, Changes, Lowest, Letters DEF Fits
  <2>5. \A k \in 1 .. 4 : Sits(e, "child", k)
    BY <2>1, <2>2 DEF Sits
  <2>6. Len(p) = 4 /\ DOMAIN p = 1 .. 4
    BY <2>1
  <2> QED
    BY <2>2, <2>4, <2>5, <2>6 DEF Row
<1>5. Row(e, "printer")
  <2> DEFINE p == Calls!Program(e, "printer")
  <2>1. p = <<Calls!Write("out", "lines")>>
    BY CodeOf DEF Calls!Program, Calls!Printer
  <2>2. OpenedAt(e, "printer") = 100 /\ Opens(e) = 4 /\ WrittenAt(e, "printer") = 1 /\ Lines(e, "printer")
    BY DEF OpenedAt, Opens, WrittenAt, Lines
  <2>3. In_popen["printer"] = <<"twt", "twt">>
    BY DEF In_popen
  <2>4. \A k \in 1 .. 1 : Fits(e, "printer", k)
    BY <2>1, <2>2, <2>3, NumberOf, Changes, Lowest, Letters DEF Fits
  <2>5. \A k \in 1 .. 1 : Sits(e, "printer", k)
    BY <2>1, <2>2 DEF Sits
  <2>6. Len(p) = 1 /\ DOMAIN p = 1 .. 1
    BY <2>1
  <2> QED
    BY <2>2, <2>4, <2>5, <2>6 DEF Row
<1> QED
  BY <1>b, <1>3, <1>4, <1>5 DEF Rows

LEMMA Row_pipe1 == Rows("pipe1")
<1> DEFINE e == "pipe1"
<1>1. Runs(e) = {"main", "child", "printer", "child2", "reader"} /\ e \in DOMAIN Views /\ Views[e] = In_pipe1
  BY ViewsOf, CodeOf DEF Runs, Execs, In_pipe1
<1>2. \A r, k : View(e, r, k) = In_pipe1[r][k]
  BY <1>1 DEF View
<1>b. Begins(e)
  BY <1>1, <1>2, CodeOf DEF Begins, Calls!Pair, Piped, In_pipe1, Calls!PsToWc
<1> USE <1>1, <1>2 DEF Kept, Names, Piped, Fifos, Sockets, Queues, Calls!TheEnd, Calls!Close, Calls!Copy,
  Calls!Dup2, Calls!Exec, Calls!Fork, Calls!Pipe,
  Calls!Wait, Calls!Write
<1>3. Row(e, "main")
  <2> DEFINE p == Calls!Program(e, "main")
  <2>1. p = <<Calls!Pipe, Calls!Fork("child", Calls!TheEnd), Calls!Close("w"), Calls!Wait, Calls!Fork("child2",
          Calls!TheEnd), Calls!Close("r"), Calls!Wait>>
    BY CodeOf DEF Calls!Program, Calls!PsToWc
  <2>2. OpenedAt(e, "main") = 100 /\ Opens(e) = 3 /\ WrittenAt(e, "main") = 100 /\ ~Lines(e, "main")
    BY DEF OpenedAt, Opens, WrittenAt, Lines
  <2>3. /\ In_pipe1["main"] = <<"ttt", "tttrw", "tttrw", "tttr", "tttr", "tttr", "ttt", "ttt">>
        /\ In_pipe1["child"] = <<"tttrw", "ttt_w", "twt_w", "twt_w">>
        /\ In_pipe1["child2"] = <<"tttr", "tttr", "rttr", "rttr">>
    BY DEF In_pipe1
  <2>4. \A k \in 1 .. 7 : Fits(e, "main", k)
    BY <2>1, <2>2, <2>3, NumberOf, Changes, Lowest, Letters DEF Fits
  <2>5. \A k \in 1 .. 7 : Sits(e, "main", k)
    BY <2>1, <2>2 DEF Sits
  <2>6. Len(p) = 7 /\ DOMAIN p = 1 .. 7
    BY <2>1
  <2> QED
    BY <2>2, <2>4, <2>5, <2>6 DEF Row
<1>4. Row(e, "child")
  <2> DEFINE p == Calls!Program(e, "child")
  <2>1. p = <<Calls!Close("r"), Calls!Dup2("w", "out"), Calls!Exec("printer")>>
    BY CodeOf DEF Calls!Program, Calls!PsToWc
  <2>2. OpenedAt(e, "child") = 100 /\ Opens(e) = 3 /\ WrittenAt(e, "child") = 100 /\ ~Lines(e, "child")
    BY DEF OpenedAt, Opens, WrittenAt, Lines
  <2>3. /\ In_pipe1["child"] = <<"tttrw", "ttt_w", "twt_w", "twt_w">>
        /\ In_pipe1["printer"] = <<"twt_w", "twt_w">>
    BY DEF In_pipe1
  <2>4. \A k \in 1 .. 3 : Fits(e, "child", k)
    BY <2>1, <2>2, <2>3, NumberOf, Changes, Lowest, Letters DEF Fits
  <2>5. \A k \in 1 .. 3 : Sits(e, "child", k)
    BY <2>1, <2>2 DEF Sits
  <2>6. Len(p) = 3 /\ DOMAIN p = 1 .. 3
    BY <2>1
  <2> QED
    BY <2>2, <2>4, <2>5, <2>6 DEF Row
<1>5. Row(e, "printer")
  <2> DEFINE p == Calls!Program(e, "printer")
  <2>1. p = <<Calls!Write("out", "lines")>>
    BY CodeOf DEF Calls!Program, Calls!Printer
  <2>2. OpenedAt(e, "printer") = 100 /\ Opens(e) = 3 /\ WrittenAt(e, "printer") = 1 /\ Lines(e, "printer")
    BY DEF OpenedAt, Opens, WrittenAt, Lines
  <2>3. In_pipe1["printer"] = <<"twt_w", "twt_w">>
    BY DEF In_pipe1
  <2>4. \A k \in 1 .. 1 : Fits(e, "printer", k)
    BY <2>1, <2>2, <2>3, NumberOf, Changes, Lowest, Letters DEF Fits
  <2>5. \A k \in 1 .. 1 : Sits(e, "printer", k)
    BY <2>1, <2>2 DEF Sits
  <2>6. Len(p) = 1 /\ DOMAIN p = 1 .. 1
    BY <2>1
  <2> QED
    BY <2>2, <2>4, <2>5, <2>6 DEF Row
<1>6. Row(e, "child2")
  <2> DEFINE p == Calls!Program(e, "child2")
  <2>1. p = <<Calls!Close("w"), Calls!Dup2("r", "in"), Calls!Exec("reader")>>
    BY CodeOf DEF Calls!Program, Calls!PsToWc
  <2>2. OpenedAt(e, "child2") = 100 /\ Opens(e) = 3 /\ WrittenAt(e, "child2") = 100 /\ ~Lines(e, "child2")
    BY DEF OpenedAt, Opens, WrittenAt, Lines
  <2>3. /\ In_pipe1["child2"] = <<"tttr", "tttr", "rttr", "rttr">>
        /\ In_pipe1["reader"] = <<"rttr", "rttr">>
    BY DEF In_pipe1
  <2>4. \A k \in 1 .. 3 : Fits(e, "child2", k)
    BY <2>1, <2>2, <2>3, NumberOf, Changes, Lowest, Letters DEF Fits
  <2>5. \A k \in 1 .. 3 : Sits(e, "child2", k)
    BY <2>1, <2>2 DEF Sits
  <2>6. Len(p) = 3 /\ DOMAIN p = 1 .. 3
    BY <2>1
  <2> QED
    BY <2>2, <2>4, <2>5, <2>6 DEF Row
<1>7. Row(e, "reader")
  <2> DEFINE p == Calls!Program(e, "reader")
  <2>1. p = <<Calls!Copy("in", "out", "all")>>
    BY CodeOf DEF Calls!Program, Calls!Reader
  <2>2. OpenedAt(e, "reader") = 100 /\ Opens(e) = 3 /\ WrittenAt(e, "reader") = 100 /\ ~Lines(e, "reader")
    BY DEF OpenedAt, Opens, WrittenAt, Lines
  <2>3. In_pipe1["reader"] = <<"rttr", "rttr">>
    BY DEF In_pipe1
  <2>4. \A k \in 1 .. 1 : Fits(e, "reader", k)
    BY <2>1, <2>2, <2>3, NumberOf, Changes, Lowest, Letters DEF Fits
  <2>5. \A k \in 1 .. 1 : Sits(e, "reader", k)
    BY <2>1, <2>2 DEF Sits
  <2>6. Len(p) = 1 /\ DOMAIN p = 1 .. 1
    BY <2>1
  <2> QED
    BY <2>2, <2>4, <2>5, <2>6 DEF Row
<1> QED
  BY <1>b, <1>3, <1>4, <1>5, <1>6, <1>7 DEF Rows

LEMMA Row_fifo3 == Rows("fifo3")
<1> DEFINE e == "fifo3"
<1>1. Runs(e) = {"main", "reader", "other", "printer"} /\ e \in DOMAIN Views /\ Views[e] = In_fifo3
  BY ViewsOf, CodeOf DEF Runs, Execs, In_fifo3
<1>2. \A r, k : View(e, r, k) = In_fifo3[r][k]
  BY <1>1 DEF View
<1>b. Begins(e)
  BY <1>1, <1>2, CodeOf DEF Begins, Calls!Pair, Piped, In_fifo3, Calls!Rfifo3, Calls!Wfifo3
<1> USE <1>1, <1>2 DEF Kept, Names, Piped, Fifos, Sockets, Queues, Calls!TheEnd, Calls!Close, Calls!Copy,
  Calls!Dup, Calls!Exec, Calls!Mkfifo, Calls!Open,
  Calls!Opened, Calls!Write
<1>3. Row(e, "main")
  <2> DEFINE p == Calls!Program(e, "main")
  <2>1. p = <<Calls!Mkfifo, Calls!Open("r"), Calls!Opened("r"), Calls!Close("in"), Calls!Dup("fd"),
          Calls!Close("fd"), Calls!Exec("reader")>>
    BY CodeOf DEF Calls!Program, Calls!Rfifo3, Calls!Wfifo3
  <2>2. OpenedAt(e, "main") = 2 /\ Opens(e) = 3 /\ WrittenAt(e, "main") = 100 /\ ~Lines(e, "main")
    BY DEF OpenedAt, Opens, WrittenAt, Lines
  <2>3. /\ In_fifo3["main"] = <<"ttt", "ttt", "tttr", "tttr", "_ttr", "rttr", "rtt", "rtt">>
        /\ In_fifo3["reader"] = <<"rtt", "rtt">>
    BY DEF In_fifo3
  <2>4. \A k \in 1 .. 7 : Fits(e, "main", k)
    BY <2>1, <2>2, <2>3, NumberOf, Changes, Lowest, Letters DEF Fits
  <2>5. \A k \in 1 .. 7 : Sits(e, "main", k)
    BY <2>1, <2>2 DEF Sits
  <2>6. Len(p) = 7 /\ DOMAIN p = 1 .. 7
    BY <2>1
  <2> QED
    BY <2>2, <2>4, <2>5, <2>6 DEF Row
<1>4. Row(e, "reader")
  <2> DEFINE p == Calls!Program(e, "reader")
  <2>1. p = <<Calls!Copy("in", "out", "all")>>
    BY CodeOf DEF Calls!Program, Calls!Reader
  <2>2. OpenedAt(e, "reader") = 100 /\ Opens(e) = 3 /\ WrittenAt(e, "reader") = 100 /\ ~Lines(e, "reader")
    BY DEF OpenedAt, Opens, WrittenAt, Lines
  <2>3. In_fifo3["reader"] = <<"rtt", "rtt">>
    BY DEF In_fifo3
  <2>4. \A k \in 1 .. 1 : Fits(e, "reader", k)
    BY <2>1, <2>2, <2>3, NumberOf, Changes, Lowest, Letters DEF Fits
  <2>5. \A k \in 1 .. 1 : Sits(e, "reader", k)
    BY <2>1, <2>2 DEF Sits
  <2>6. Len(p) = 1 /\ DOMAIN p = 1 .. 1
    BY <2>1
  <2> QED
    BY <2>2, <2>4, <2>5, <2>6 DEF Row
<1>5. Row(e, "other")
  <2> DEFINE p == Calls!Program(e, "other")
  <2>1. p = <<Calls!Mkfifo, Calls!Open("w"), Calls!Opened("w"), Calls!Close("out"), Calls!Dup("fd"),
          Calls!Close("fd"), Calls!Exec("printer")>>
    BY CodeOf DEF Calls!Program, Calls!Rfifo3, Calls!Wfifo3
  <2>2. OpenedAt(e, "other") = 2 /\ Opens(e) = 3 /\ WrittenAt(e, "other") = 100 /\ ~Lines(e, "other")
    BY DEF OpenedAt, Opens, WrittenAt, Lines
  <2>3. /\ In_fifo3["other"] = <<"ttt", "ttt", "tttw", "tttw", "t_tw", "twtw", "twt", "twt">>
        /\ In_fifo3["printer"] = <<"twt", "twt">>
    BY DEF In_fifo3
  <2>4. \A k \in 1 .. 7 : Fits(e, "other", k)
    BY <2>1, <2>2, <2>3, NumberOf, Changes, Lowest, Letters DEF Fits
  <2>5. \A k \in 1 .. 7 : Sits(e, "other", k)
    BY <2>1, <2>2 DEF Sits
  <2>6. Len(p) = 7 /\ DOMAIN p = 1 .. 7
    BY <2>1
  <2> QED
    BY <2>2, <2>4, <2>5, <2>6 DEF Row
<1>6. Row(e, "printer")
  <2> DEFINE p == Calls!Program(e, "printer")
  <2>1. p = <<Calls!Write("out", "lines")>>
    BY CodeOf DEF Calls!Program, Calls!Printer
  <2>2. OpenedAt(e, "printer") = 100 /\ Opens(e) = 3 /\ WrittenAt(e, "printer") = 1 /\ Lines(e, "printer")
    BY DEF OpenedAt, Opens, WrittenAt, Lines
  <2>3. In_fifo3["printer"] = <<"twt", "twt">>
    BY DEF In_fifo3
  <2>4. \A k \in 1 .. 1 : Fits(e, "printer", k)
    BY <2>1, <2>2, <2>3, NumberOf, Changes, Lowest, Letters DEF Fits
  <2>5. \A k \in 1 .. 1 : Sits(e, "printer", k)
    BY <2>1, <2>2 DEF Sits
  <2>6. Len(p) = 1 /\ DOMAIN p = 1 .. 1
    BY <2>1
  <2> QED
    BY <2>2, <2>4, <2>5, <2>6 DEF Row
<1> QED
  BY <1>b, <1>3, <1>4, <1>5, <1>6 DEF Rows

LEMMA Row_fronta == Rows("fronta")
<1> DEFINE e == "fronta"
<1>1. Runs(e) = {"main", "other"} /\ "fronta" \notin DOMAIN Views
  BY ViewsOf, CodeOf DEF Runs, Execs, Calls!QueueClient, Calls!QueueServer
<1>2. \A r, k : View(e, r, k) = "ttt"
  BY <1>1 DEF View
<1>b. Begins(e)
  BY <1>1, <1>2, CodeOf DEF Begins, Calls!Pair, Piped, Calls!QueueClient, Calls!QueueServer
<1> USE <1>1, <1>2 DEF Kept, Names, Piped, Fifos, Sockets, Queues, Calls!TheEnd, Calls!Msgget, Calls!Msgrcv,
  Calls!Msgsnd, Calls!Rmid
<1>3. Row(e, "main")
  <2> DEFINE p == Calls!Program(e, "main")
  <2>1. p = <<Calls!Msgget("create"), Calls!Msgrcv(0), Calls!Msgsnd(2), Calls!Rmid>>
    BY CodeOf DEF Calls!Program, Calls!QueueClient, Calls!QueueServer
  <2>2. OpenedAt(e, "main") = 100 /\ Opens(e) = 3 /\ WrittenAt(e, "main") = 3 /\ ~Lines(e, "main")
    BY DEF OpenedAt, Opens, WrittenAt, Lines
  <2>4. \A k \in 1 .. 4 : Fits(e, "main", k)
    BY <2>1, <2>2, NumberOf, Changes, Lowest, Letters DEF Fits
  <2>5. \A k \in 1 .. 4 : Sits(e, "main", k)
    BY <2>1, <2>2 DEF Sits
  <2>6. Len(p) = 4 /\ DOMAIN p = 1 .. 4
    BY <2>1
  <2> QED
    BY <2>2, <2>4, <2>5, <2>6 DEF Row
<1>4. Row(e, "other")
  <2> DEFINE p == Calls!Program(e, "other")
  <2>1. p = <<Calls!Msgget("create"), Calls!Msgsnd(1), Calls!Msgrcv(2)>>
    BY CodeOf DEF Calls!Program, Calls!QueueClient, Calls!QueueServer
  <2>2. OpenedAt(e, "other") = 100 /\ Opens(e) = 3 /\ WrittenAt(e, "other") = 2 /\ ~Lines(e, "other")
    BY DEF OpenedAt, Opens, WrittenAt, Lines
  <2>4. \A k \in 1 .. 3 : Fits(e, "other", k)
    BY <2>1, <2>2, NumberOf, Changes, Lowest, Letters DEF Fits
  <2>5. \A k \in 1 .. 3 : Sits(e, "other", k)
    BY <2>1, <2>2 DEF Sits
  <2>6. Len(p) = 3 /\ DOMAIN p = 1 .. 3
    BY <2>1
  <2> QED
    BY <2>2, <2>4, <2>5, <2>6 DEF Row
<1> QED
  BY <1>b, <1>3, <1>4 DEF Rows

LEMMA Row_local == Rows("local")
<1> DEFINE e == "local"
<1>1. Runs(e) = {"main", "other"} /\ e \in DOMAIN Views /\ Views[e] = In_local
  BY ViewsOf, CodeOf DEF Runs, Execs, In_local
<1>2. \A r, k : View(e, r, k) = In_local[r][k]
  BY <1>1 DEF View
<1>b. Begins(e)
  BY <1>1, <1>2, CodeOf DEF Begins, Calls!Pair, Piped, In_local, Calls!LocalClient, Calls!LocalServer
<1> USE <1>1, <1>2 DEF Kept, Names, Piped, Fifos, Sockets, Queues, Calls!TheEnd, Calls!Accept, Calls!Close,
  Calls!Connect, Calls!Copy, Calls!Listen,
  Calls!Write
<1>3. Row(e, "main")
  <2> DEFINE p == Calls!Program(e, "main")
  <2>1. p = <<Calls!Listen, Calls!Accept, Calls!Write("fd", "lines"), Calls!Copy("fd", "out", "lines")>>
    BY CodeOf DEF Calls!Program, Calls!LocalClient, Calls!LocalServer
  <2>2. OpenedAt(e, "main") = 2 /\ Opens(e) = 3 /\ WrittenAt(e, "main") = 3 /\ Lines(e, "main")
    BY DEF OpenedAt, Opens, WrittenAt, Lines
  <2>3. In_local["main"] = <<"ttt", "ttt", "ttts", "ttts", "ttts">>
    BY DEF In_local
  <2>4. \A k \in 1 .. 4 : Fits(e, "main", k)
    BY <2>1, <2>2, <2>3, NumberOf, Changes, Lowest, Letters DEF Fits
  <2>5. \A k \in 1 .. 4 : Sits(e, "main", k)
    BY <2>1, <2>2 DEF Sits
  <2>6. Len(p) = 4 /\ DOMAIN p = 1 .. 4
    BY <2>1
  <2> QED
    BY <2>2, <2>4, <2>5, <2>6 DEF Row
<1>4. Row(e, "other")
  <2> DEFINE p == Calls!Program(e, "other")
  <2>1. p = <<Calls!Connect, Calls!Copy("fd", "out", "lines"), Calls!Write("fd", "lines"), Calls!Close("fd")>>
    BY CodeOf DEF Calls!Program, Calls!LocalClient, Calls!LocalServer
  <2>2. OpenedAt(e, "other") = 1 /\ Opens(e) = 3 /\ WrittenAt(e, "other") = 3 /\ Lines(e, "other")
    BY DEF OpenedAt, Opens, WrittenAt, Lines
  <2>3. In_local["other"] = <<"ttt", "ttta", "ttta", "ttta", "ttt">>
    BY DEF In_local
  <2>4. \A k \in 1 .. 4 : Fits(e, "other", k)
    BY <2>1, <2>2, <2>3, NumberOf, Changes, Lowest, Letters DEF Fits
  <2>5. \A k \in 1 .. 4 : Sits(e, "other", k)
    BY <2>1, <2>2 DEF Sits
  <2>6. Len(p) = 4 /\ DOMAIN p = 1 .. 4
    BY <2>1
  <2> QED
    BY <2>2, <2>4, <2>5, <2>6 DEF Row
<1> QED
  BY <1>b, <1>3, <1>4 DEF Rows

LEMMA Row_studentFifo == Rows("studentFifo")
<1> DEFINE e == "studentFifo"
<1>1. Runs(e) = {"main", "other"} /\ e \in DOMAIN Views /\ Views[e] = In_studentFifo
  BY ViewsOf, CodeOf DEF Runs, Execs, In_studentFifo
<1>2. \A r, k : View(e, r, k) = In_studentFifo[r][k]
  BY <1>1 DEF View
<1>b. Begins(e)
  BY <1>1, <1>2, CodeOf DEF Begins, Calls!Pair, Piped, In_studentFifo, Calls!FifoReceiver, Calls!FifoSender
<1> USE <1>1, <1>2 DEF Kept, Names, Piped, Fifos, Sockets, Queues, Calls!TheEnd, Calls!Close, Calls!Copy,
  Calls!Mkfifo, Calls!Open, Calls!Opened,
  Calls!Unlink, Calls!Write
<1>3. Row(e, "main")
  <2> DEFINE p == Calls!Program(e, "main")
  <2>1. p = <<Calls!Mkfifo, Calls!Open("r"), Calls!Opened("r"), Calls!Unlink, Calls!Copy("fd", "out", "all"),
          Calls!Close("fd")>>
    BY CodeOf DEF Calls!Program, Calls!FifoReceiver, Calls!FifoSender
  <2>2. OpenedAt(e, "main") = 2 /\ Opens(e) = 3 /\ WrittenAt(e, "main") = 100 /\ Lines(e, "main")
    BY DEF OpenedAt, Opens, WrittenAt, Lines
  <2>3. In_studentFifo["main"] = <<"ttt", "ttt", "tttr", "tttr", "tttr", "tttr", "ttt">>
    BY DEF In_studentFifo
  <2>4. \A k \in 1 .. 6 : Fits(e, "main", k)
    BY <2>1, <2>2, <2>3, NumberOf, Changes, Lowest, Letters DEF Fits
  <2>5. \A k \in 1 .. 6 : Sits(e, "main", k)
    BY <2>1, <2>2 DEF Sits
  <2>6. Len(p) = 6 /\ DOMAIN p = 1 .. 6
    BY <2>1
  <2> QED
    BY <2>2, <2>4, <2>5, <2>6 DEF Row
<1>4. Row(e, "other")
  <2> DEFINE p == Calls!Program(e, "other")
  <2>1. p = <<Calls!Mkfifo, Calls!Open("w"), Calls!Opened("w"), Calls!Write("fd", "lines"), Calls!Close("fd")>>
    BY CodeOf DEF Calls!Program, Calls!FifoReceiver, Calls!FifoSender
  <2>2. OpenedAt(e, "other") = 2 /\ Opens(e) = 3 /\ WrittenAt(e, "other") = 4 /\ Lines(e, "other")
    BY DEF OpenedAt, Opens, WrittenAt, Lines
  <2>3. In_studentFifo["other"] = <<"ttt", "ttt", "tttw", "tttw", "tttw", "ttt">>
    BY DEF In_studentFifo
  <2>4. \A k \in 1 .. 5 : Fits(e, "other", k)
    BY <2>1, <2>2, <2>3, NumberOf, Changes, Lowest, Letters DEF Fits
  <2>5. \A k \in 1 .. 5 : Sits(e, "other", k)
    BY <2>1, <2>2 DEF Sits
  <2>6. Len(p) = 5 /\ DOMAIN p = 1 .. 5
    BY <2>1
  <2> QED
    BY <2>2, <2>4, <2>5, <2>6 DEF Row
<1> QED
  BY <1>b, <1>3, <1>4 DEF Rows

LEMMA Row_studentQueue == Rows("studentQueue")
<1> DEFINE e == "studentQueue"
<1>1. Runs(e) = {"main", "other"} /\ "studentQueue" \notin DOMAIN Views
  BY ViewsOf, CodeOf DEF Runs, Execs, Calls!MsgQueueReceiver, Calls!MsgQueueSender
<1>2. \A r, k : View(e, r, k) = "ttt"
  BY <1>1 DEF View
<1>b. Begins(e)
  BY <1>1, <1>2, CodeOf DEF Begins, Calls!Pair, Piped, Calls!MsgQueueReceiver, Calls!MsgQueueSender
<1> USE <1>1, <1>2 DEF Kept, Names, Piped, Fifos, Sockets, Queues, Calls!TheEnd, Calls!Msgget, Calls!Msgrcv,
  Calls!Msgsnd, Calls!Rmid
<1>3. Row(e, "main")
  <2> DEFINE p == Calls!Program(e, "main")
  <2>1. p = <<Calls!Msgget("get"), Calls!Msgrcv(1), Calls!Msgrcv(2), Calls!Msgrcv(2), Calls!Rmid>>
    BY CodeOf DEF Calls!Program, Calls!MsgQueueReceiver, Calls!MsgQueueSender
  <2>2. OpenedAt(e, "main") = 100 /\ Opens(e) = 3 /\ WrittenAt(e, "main") = 100 /\ ~Lines(e, "main")
    BY DEF OpenedAt, Opens, WrittenAt, Lines
  <2>4. \A k \in 1 .. 5 : Fits(e, "main", k)
    BY <2>1, <2>2, NumberOf, Changes, Lowest, Letters DEF Fits
  <2>5. \A k \in 1 .. 5 : Sits(e, "main", k)
    BY <2>1, <2>2 DEF Sits
  <2>6. Len(p) = 5 /\ DOMAIN p = 1 .. 5
    BY <2>1
  <2> QED
    BY <2>2, <2>4, <2>5, <2>6 DEF Row
<1>4. Row(e, "other")
  <2> DEFINE p == Calls!Program(e, "other")
  <2>1. p = <<Calls!Msgget("excl"), Calls!Msgsnd(1), Calls!Msgsnd(2), Calls!Msgsnd(2)>>
    BY CodeOf DEF Calls!Program, Calls!MsgQueueReceiver, Calls!MsgQueueSender
  <2>2. OpenedAt(e, "other") = 100 /\ Opens(e) = 3 /\ WrittenAt(e, "other") = 2 /\ ~Lines(e, "other")
    BY DEF OpenedAt, Opens, WrittenAt, Lines
  <2>4. \A k \in 1 .. 4 : Fits(e, "other", k)
    BY <2>1, <2>2, NumberOf, Changes, Lowest, Letters DEF Fits
  <2>5. \A k \in 1 .. 4 : Sits(e, "other", k)
    BY <2>1, <2>2 DEF Sits
  <2>6. Len(p) = 4 /\ DOMAIN p = 1 .. 4
    BY <2>1
  <2> QED
    BY <2>2, <2>4, <2>5, <2>6 DEF Row
<1> QED
  BY <1>b, <1>3, <1>4 DEF Rows

LEMMA Row_studentSocket == Rows("studentSocket")
<1> DEFINE e == "studentSocket"
<1>1. Runs(e) = {"main", "other"} /\ e \in DOMAIN Views /\ Views[e] = In_studentSocket
  BY ViewsOf, CodeOf DEF Runs, Execs, In_studentSocket
<1>2. \A r, k : View(e, r, k) = In_studentSocket[r][k]
  BY <1>1 DEF View
<1>b. Begins(e)
  BY <1>1, <1>2, CodeOf DEF Begins, Calls!Pair, Piped, In_studentSocket, Calls!SocketClient, Calls!SocketServer
<1> USE <1>1, <1>2 DEF Kept, Names, Piped, Fifos, Sockets, Queues, Calls!TheEnd, Calls!Accept, Calls!Close,
  Calls!Connect, Calls!Copy, Calls!Listen,
  Calls!Write
<1>3. Row(e, "main")
  <2> DEFINE p == Calls!Program(e, "main")
  <2>1. p = <<Calls!Listen, Calls!Accept, Calls!Copy("fd", "out", "one"), Calls!Write("fd", "one"),
          Calls!Close("fd")>>
    BY CodeOf DEF Calls!Program, Calls!SocketClient, Calls!SocketServer
  <2>2. OpenedAt(e, "main") = 2 /\ Opens(e) = 3 /\ WrittenAt(e, "main") = 4 /\ ~Lines(e, "main")
    BY DEF OpenedAt, Opens, WrittenAt, Lines
  <2>3. In_studentSocket["main"] = <<"ttt", "ttt", "ttts", "ttts", "ttts", "ttt">>
    BY DEF In_studentSocket
  <2>4. \A k \in 1 .. 5 : Fits(e, "main", k)
    BY <2>1, <2>2, <2>3, NumberOf, Changes, Lowest, Letters DEF Fits
  <2>5. \A k \in 1 .. 5 : Sits(e, "main", k)
    BY <2>1, <2>2 DEF Sits
  <2>6. Len(p) = 5 /\ DOMAIN p = 1 .. 5
    BY <2>1
  <2> QED
    BY <2>2, <2>4, <2>5, <2>6 DEF Row
<1>4. Row(e, "other")
  <2> DEFINE p == Calls!Program(e, "other")
  <2>1. p = <<Calls!Connect, Calls!Write("fd", "one"), Calls!Copy("fd", "out", "one"), Calls!Close("fd")>>
    BY CodeOf DEF Calls!Program, Calls!SocketClient, Calls!SocketServer
  <2>2. OpenedAt(e, "other") = 1 /\ Opens(e) = 3 /\ WrittenAt(e, "other") = 2 /\ ~Lines(e, "other")
    BY DEF OpenedAt, Opens, WrittenAt, Lines
  <2>3. In_studentSocket["other"] = <<"ttt", "ttta", "ttta", "ttta", "ttt">>
    BY DEF In_studentSocket
  <2>4. \A k \in 1 .. 4 : Fits(e, "other", k)
    BY <2>1, <2>2, <2>3, NumberOf, Changes, Lowest, Letters DEF Fits
  <2>5. \A k \in 1 .. 4 : Sits(e, "other", k)
    BY <2>1, <2>2 DEF Sits
  <2>6. Len(p) = 4 /\ DOMAIN p = 1 .. 4
    BY <2>1
  <2> QED
    BY <2>2, <2>4, <2>5, <2>6 DEF Row
<1> QED
  BY <1>b, <1>3, <1>4 DEF Rows

LEMMA Row_spawn == Rows("spawn")
<1> DEFINE e == "spawn"
<1>1. Runs(e) = {"main", "child", "printer"} /\ "spawn" \notin DOMAIN Views
  BY ViewsOf, CodeOf DEF Runs, Execs, Calls!Spawn
<1>2. \A r, k : View(e, r, k) = "ttt"
  BY <1>1 DEF View
<1>b. Begins(e)
  BY <1>1, <1>2, CodeOf DEF Begins, Calls!Pair, Piped, Calls!Spawn
<1> USE <1>1, <1>2 DEF Kept, Names, Piped, Fifos, Sockets, Queues, Calls!TheEnd, Calls!Exec, Calls!Fork,
  Calls!Wait, Calls!Write
<1>3. Row(e, "main")
  <2> DEFINE p == Calls!Program(e, "main")
  <2>1. p = <<Calls!Fork("child", 2), Calls!Wait>>
    BY CodeOf DEF Calls!Program, Calls!Spawn
  <2>2. OpenedAt(e, "main") = 100 /\ Opens(e) = 3 /\ WrittenAt(e, "main") = 100 /\ ~Lines(e, "main")
    BY DEF OpenedAt, Opens, WrittenAt, Lines
  <2>4. \A k \in 1 .. 2 : Fits(e, "main", k)
    BY <2>1, <2>2, NumberOf, Changes, Lowest, Letters DEF Fits
  <2>5. \A k \in 1 .. 2 : Sits(e, "main", k)
    BY <2>1, <2>2 DEF Sits
  <2>6. Len(p) = 2 /\ DOMAIN p = 1 .. 2
    BY <2>1
  <2> QED
    BY <2>2, <2>4, <2>5, <2>6 DEF Row
<1>4. Row(e, "child")
  <2> DEFINE p == Calls!Program(e, "child")
  <2>1. p = <<Calls!Exec("printer")>>
    BY CodeOf DEF Calls!Program, Calls!Spawn
  <2>2. OpenedAt(e, "child") = 100 /\ Opens(e) = 3 /\ WrittenAt(e, "child") = 100 /\ ~Lines(e, "child")
    BY DEF OpenedAt, Opens, WrittenAt, Lines
  <2>4. \A k \in 1 .. 1 : Fits(e, "child", k)
    BY <2>1, <2>2, NumberOf, Changes, Lowest, Letters DEF Fits
  <2>5. \A k \in 1 .. 1 : Sits(e, "child", k)
    BY <2>1, <2>2 DEF Sits
  <2>6. Len(p) = 1 /\ DOMAIN p = 1 .. 1
    BY <2>1
  <2> QED
    BY <2>2, <2>4, <2>5, <2>6 DEF Row
<1>5. Row(e, "printer")
  <2> DEFINE p == Calls!Program(e, "printer")
  <2>1. p = <<Calls!Write("out", "lines")>>
    BY CodeOf DEF Calls!Program, Calls!Printer
  <2>2. OpenedAt(e, "printer") = 100 /\ Opens(e) = 3 /\ WrittenAt(e, "printer") = 1 /\ Lines(e, "printer")
    BY DEF OpenedAt, Opens, WrittenAt, Lines
  <2>4. \A k \in 1 .. 1 : Fits(e, "printer", k)
    BY <2>1, <2>2, NumberOf, Changes, Lowest, Letters DEF Fits
  <2>5. \A k \in 1 .. 1 : Sits(e, "printer", k)
    BY <2>1, <2>2 DEF Sits
  <2>6. Len(p) = 1 /\ DOMAIN p = 1 .. 1
    BY <2>1
  <2> QED
    BY <2>2, <2>4, <2>5, <2>6 DEF Row
<1> QED
  BY <1>b, <1>3, <1>4, <1>5 DEF Rows

LEMMA Row_lsko == Rows("lsko")
<1> DEFINE e == "lsko"
<1>1. Runs(e) = {"main", "child", "printer"} /\ "lsko" \notin DOMAIN Views
  BY ViewsOf, CodeOf DEF Runs, Execs, Calls!Lsko
<1>2. \A r, k : View(e, r, k) = "ttt"
  BY <1>1 DEF View
<1>b. Begins(e)
  BY <1>1, <1>2, CodeOf DEF Begins, Calls!Pair, Piped, Calls!Lsko
<1> USE <1>1, <1>2 DEF Kept, Names, Piped, Fifos, Sockets, Queues, Calls!TheEnd, Calls!Exec, Calls!Fork, Calls!Write
<1>3. Row(e, "main")
  <2> DEFINE p == Calls!Program(e, "main")
  <2>1. p = <<Calls!Fork("child", 2)>>
    BY CodeOf DEF Calls!Program, Calls!Lsko
  <2>2. OpenedAt(e, "main") = 100 /\ Opens(e) = 3 /\ WrittenAt(e, "main") = 100 /\ ~Lines(e, "main")
    BY DEF OpenedAt, Opens, WrittenAt, Lines
  <2>4. \A k \in 1 .. 1 : Fits(e, "main", k)
    BY <2>1, <2>2, NumberOf, Changes, Lowest, Letters DEF Fits
  <2>5. \A k \in 1 .. 1 : Sits(e, "main", k)
    BY <2>1, <2>2 DEF Sits
  <2>6. Len(p) = 1 /\ DOMAIN p = 1 .. 1
    BY <2>1
  <2> QED
    BY <2>2, <2>4, <2>5, <2>6 DEF Row
<1>4. Row(e, "child")
  <2> DEFINE p == Calls!Program(e, "child")
  <2>1. p = <<Calls!Exec("printer")>>
    BY CodeOf DEF Calls!Program, Calls!Lsko
  <2>2. OpenedAt(e, "child") = 100 /\ Opens(e) = 3 /\ WrittenAt(e, "child") = 100 /\ ~Lines(e, "child")
    BY DEF OpenedAt, Opens, WrittenAt, Lines
  <2>4. \A k \in 1 .. 1 : Fits(e, "child", k)
    BY <2>1, <2>2, NumberOf, Changes, Lowest, Letters DEF Fits
  <2>5. \A k \in 1 .. 1 : Sits(e, "child", k)
    BY <2>1, <2>2 DEF Sits
  <2>6. Len(p) = 1 /\ DOMAIN p = 1 .. 1
    BY <2>1
  <2> QED
    BY <2>2, <2>4, <2>5, <2>6 DEF Row
<1>5. Row(e, "printer")
  <2> DEFINE p == Calls!Program(e, "printer")
  <2>1. p = <<Calls!Write("out", "lines")>>
    BY CodeOf DEF Calls!Program, Calls!Printer
  <2>2. OpenedAt(e, "printer") = 100 /\ Opens(e) = 3 /\ WrittenAt(e, "printer") = 1 /\ Lines(e, "printer")
    BY DEF OpenedAt, Opens, WrittenAt, Lines
  <2>4. \A k \in 1 .. 1 : Fits(e, "printer", k)
    BY <2>1, <2>2, NumberOf, Changes, Lowest, Letters DEF Fits
  <2>5. \A k \in 1 .. 1 : Sits(e, "printer", k)
    BY <2>1, <2>2 DEF Sits
  <2>6. Len(p) = 1 /\ DOMAIN p = 1 .. 1
    BY <2>1
  <2> QED
    BY <2>2, <2>4, <2>5, <2>6 DEF Row
<1> QED
  BY <1>b, <1>3, <1>4, <1>5 DEF Rows

LEMMA Row_execRun == Rows("execRun")
<1> DEFINE e == "execRun"
<1>1. Runs(e) = {"main", "child", "printer"} /\ "execRun" \notin DOMAIN Views
  BY ViewsOf, CodeOf DEF Runs, Execs, Calls!ExecRun
<1>2. \A r, k : View(e, r, k) = "ttt"
  BY <1>1 DEF View
<1>b. Begins(e)
  BY <1>1, <1>2, CodeOf DEF Begins, Calls!Pair, Piped, Calls!ExecRun
<1> USE <1>1, <1>2 DEF Kept, Names, Piped, Fifos, Sockets, Queues, Calls!TheEnd, Calls!Exec, Calls!Fork,
  Calls!Wait, Calls!Write
<1>3. Row(e, "main")
  <2> DEFINE p == Calls!Program(e, "main")
  <2>1. p = <<Calls!Fork("child", 2), Calls!Wait>>
    BY CodeOf DEF Calls!Program, Calls!ExecRun
  <2>2. OpenedAt(e, "main") = 100 /\ Opens(e) = 3 /\ WrittenAt(e, "main") = 100 /\ ~Lines(e, "main")
    BY DEF OpenedAt, Opens, WrittenAt, Lines
  <2>4. \A k \in 1 .. 2 : Fits(e, "main", k)
    BY <2>1, <2>2, NumberOf, Changes, Lowest, Letters DEF Fits
  <2>5. \A k \in 1 .. 2 : Sits(e, "main", k)
    BY <2>1, <2>2 DEF Sits
  <2>6. Len(p) = 2 /\ DOMAIN p = 1 .. 2
    BY <2>1
  <2> QED
    BY <2>2, <2>4, <2>5, <2>6 DEF Row
<1>4. Row(e, "child")
  <2> DEFINE p == Calls!Program(e, "child")
  <2>1. p = <<Calls!Exec("printer"), Calls!Wait>>
    BY CodeOf DEF Calls!Program, Calls!ExecRun
  <2>2. OpenedAt(e, "child") = 100 /\ Opens(e) = 3 /\ WrittenAt(e, "child") = 100 /\ ~Lines(e, "child")
    BY DEF OpenedAt, Opens, WrittenAt, Lines
  <2>4. \A k \in 1 .. 2 : Fits(e, "child", k)
    BY <2>1, <2>2, NumberOf, Changes, Lowest, Letters DEF Fits
  <2>5. \A k \in 1 .. 2 : Sits(e, "child", k)
    BY <2>1, <2>2 DEF Sits
  <2>6. Len(p) = 2 /\ DOMAIN p = 1 .. 2
    BY <2>1
  <2> QED
    BY <2>2, <2>4, <2>5, <2>6 DEF Row
<1>5. Row(e, "printer")
  <2> DEFINE p == Calls!Program(e, "printer")
  <2>1. p = <<Calls!Write("out", "lines")>>
    BY CodeOf DEF Calls!Program, Calls!Printer
  <2>2. OpenedAt(e, "printer") = 100 /\ Opens(e) = 3 /\ WrittenAt(e, "printer") = 1 /\ Lines(e, "printer")
    BY DEF OpenedAt, Opens, WrittenAt, Lines
  <2>4. \A k \in 1 .. 1 : Fits(e, "printer", k)
    BY <2>1, <2>2, NumberOf, Changes, Lowest, Letters DEF Fits
  <2>5. \A k \in 1 .. 1 : Sits(e, "printer", k)
    BY <2>1, <2>2 DEF Sits
  <2>6. Len(p) = 1 /\ DOMAIN p = 1 .. 1
    BY <2>1
  <2> QED
    BY <2>2, <2>4, <2>5, <2>6 DEF Row
<1> QED
  BY <1>b, <1>3, <1>4, <1>5 DEF Rows

LEMMA Row_execOnly == Rows("execOnly")
<1> DEFINE e == "execOnly"
<1>1. Runs(e) = {"main", "printer"} /\ "execOnly" \notin DOMAIN Views
  BY ViewsOf, CodeOf DEF Runs, Execs, Calls!ExecOnly
<1>2. \A r, k : View(e, r, k) = "ttt"
  BY <1>1 DEF View
<1>b. Begins(e)
  BY <1>1, <1>2, CodeOf DEF Begins, Calls!Pair, Piped, Calls!ExecOnly
<1> USE <1>1, <1>2 DEF Kept, Names, Piped, Fifos, Sockets, Queues, Calls!TheEnd, Calls!Exec, Calls!Write
<1>3. Row(e, "main")
  <2> DEFINE p == Calls!Program(e, "main")
  <2>1. p = <<Calls!Exec("printer")>>
    BY CodeOf DEF Calls!Program, Calls!ExecOnly
  <2>2. OpenedAt(e, "main") = 100 /\ Opens(e) = 3 /\ WrittenAt(e, "main") = 100 /\ ~Lines(e, "main")
    BY DEF OpenedAt, Opens, WrittenAt, Lines
  <2>4. \A k \in 1 .. 1 : Fits(e, "main", k)
    BY <2>1, <2>2, NumberOf, Changes, Lowest, Letters DEF Fits
  <2>5. \A k \in 1 .. 1 : Sits(e, "main", k)
    BY <2>1, <2>2 DEF Sits
  <2>6. Len(p) = 1 /\ DOMAIN p = 1 .. 1
    BY <2>1
  <2> QED
    BY <2>2, <2>4, <2>5, <2>6 DEF Row
<1>4. Row(e, "printer")
  <2> DEFINE p == Calls!Program(e, "printer")
  <2>1. p = <<Calls!Write("out", "lines")>>
    BY CodeOf DEF Calls!Program, Calls!Printer
  <2>2. OpenedAt(e, "printer") = 100 /\ Opens(e) = 3 /\ WrittenAt(e, "printer") = 1 /\ Lines(e, "printer")
    BY DEF OpenedAt, Opens, WrittenAt, Lines
  <2>4. \A k \in 1 .. 1 : Fits(e, "printer", k)
    BY <2>1, <2>2, NumberOf, Changes, Lowest, Letters DEF Fits
  <2>5. \A k \in 1 .. 1 : Sits(e, "printer", k)
    BY <2>1, <2>2 DEF Sits
  <2>6. Len(p) = 1 /\ DOMAIN p = 1 .. 1
    BY <2>1
  <2> QED
    BY <2>2, <2>4, <2>5, <2>6 DEF Row
<1> QED
  BY <1>b, <1>3, <1>4 DEF Rows

LEMMA Row_forkWrite == ASSUME NEW e \in {"forkWrite", "forkPrintf"} PROVE Rows(e)
<1>1. Runs(e) = {"main", "child"} /\ e \notin DOMAIN Views
  BY ViewsOf, CodeOf DEF Runs, Execs, Calls!ForkPrintf, Calls!ForkWrite
<1>2. \A r, k : View(e, r, k) = "ttt"
  BY <1>1 DEF View
<1>b. Begins(e)
  BY <1>1, <1>2, CodeOf DEF Begins, Calls!Pair, Piped, Calls!ForkPrintf, Calls!ForkWrite
<1> USE <1>1, <1>2 DEF Kept, Names, Piped, Fifos, Sockets, Queues, Calls!TheEnd, Calls!Fork, Calls!Write
<1>3. Row(e, "main")
  <2> DEFINE p == Calls!Program(e, "main")
  <2>1. p = <<Calls!Fork("child", 2), Calls!Write("out", "one")>>
    BY CodeOf DEF Calls!Program, Calls!ForkPrintf, Calls!ForkWrite
  <2>2. OpenedAt(e, "main") = 100 /\ Opens(e) = 3 /\ WrittenAt(e, "main") = 2 /\ ~Lines(e, "main")
    BY DEF OpenedAt, Opens, WrittenAt, Lines
  <2>4. \A k \in 1 .. 2 : Fits(e, "main", k)
    BY <2>1, <2>2, NumberOf, Changes, Lowest, Letters DEF Fits
  <2>5. \A k \in 1 .. 2 : Sits(e, "main", k)
    BY <2>1, <2>2 DEF Sits
  <2>6. Len(p) = 2 /\ DOMAIN p = 1 .. 2
    BY <2>1
  <2> QED
    BY <2>2, <2>4, <2>5, <2>6 DEF Row
<1>4. Row(e, "child")
  <2> DEFINE p == Calls!Program(e, "child")
  <2>1. p = <<Calls!Write("out", "one")>>
    BY CodeOf DEF Calls!Program, Calls!ForkPrintf, Calls!ForkWrite
  <2>2. OpenedAt(e, "child") = 100 /\ Opens(e) = 3 /\ WrittenAt(e, "child") = 1 /\ ~Lines(e, "child")
    BY DEF OpenedAt, Opens, WrittenAt, Lines
  <2>4. \A k \in 1 .. 1 : Fits(e, "child", k)
    BY <2>1, <2>2, NumberOf, Changes, Lowest, Letters DEF Fits
  <2>5. \A k \in 1 .. 1 : Sits(e, "child", k)
    BY <2>1, <2>2 DEF Sits
  <2>6. Len(p) = 1 /\ DOMAIN p = 1 .. 1
    BY <2>1
  <2> QED
    BY <2>2, <2>4, <2>5, <2>6 DEF Row
<1> QED
  BY <1>b, <1>3, <1>4 DEF Rows

LEMMA Row_forkOnly == ASSUME NEW e \in {"forkOnly", "forkZombie"} PROVE Rows(e)
<1>1. Runs(e) = {"main", "child"} /\ e \notin DOMAIN Views
  BY ViewsOf, CodeOf DEF Runs, Execs, Calls!ForkOnly, Calls!ForkZombie
<1>2. \A r, k : View(e, r, k) = "ttt"
  BY <1>1 DEF View
<1>b. Begins(e)
  BY <1>1, <1>2, CodeOf DEF Begins, Calls!Pair, Piped, Calls!ForkOnly, Calls!ForkZombie
<1> USE <1>1, <1>2 DEF Kept, Names, Piped, Fifos, Sockets, Queues, Calls!TheEnd, Calls!Fork
<1>3. Row(e, "main")
  <2> DEFINE p == Calls!Program(e, "main")
  <2>1. p = <<Calls!Fork("child", Calls!TheEnd)>>
    BY CodeOf DEF Calls!Program, Calls!ForkOnly, Calls!ForkZombie
  <2>2. OpenedAt(e, "main") = 100 /\ Opens(e) = 3 /\ WrittenAt(e, "main") = 100 /\ ~Lines(e, "main")
    BY DEF OpenedAt, Opens, WrittenAt, Lines
  <2>4. \A k \in 1 .. 1 : Fits(e, "main", k)
    BY <2>1, <2>2, NumberOf, Changes, Lowest, Letters DEF Fits
  <2>5. \A k \in 1 .. 1 : Sits(e, "main", k)
    BY <2>1, <2>2 DEF Sits
  <2>6. Len(p) = 1 /\ DOMAIN p = 1 .. 1
    BY <2>1
  <2> QED
    BY <2>2, <2>4, <2>5, <2>6 DEF Row
<1>4. Row(e, "child")
  <2> DEFINE p == Calls!Program(e, "child")
  <2>1. p = <<>>
    BY CodeOf DEF Calls!Program, Calls!ForkOnly, Calls!ForkZombie
  <2>2. OpenedAt(e, "child") = 100 /\ Opens(e) = 3 /\ WrittenAt(e, "child") = 100 /\ ~Lines(e, "child")
    BY DEF OpenedAt, Opens, WrittenAt, Lines
  <2>4. \A k \in 1 .. 0 : Fits(e, "child", k)
    BY <2>1, <2>2, NumberOf, Changes, Lowest, Letters DEF Fits
  <2>5. \A k \in 1 .. 0 : Sits(e, "child", k)
    BY <2>1, <2>2 DEF Sits
  <2>6. Len(p) = 0 /\ DOMAIN p = 1 .. 0
    BY <2>1
  <2> QED
    BY <2>2, <2>4, <2>5, <2>6 DEF Row
<1> QED
  BY <1>b, <1>3, <1>4 DEF Rows

LEMMA Row_forkWait == ASSUME NEW e \in {"forkWait", "waitStatus", "returncode"} PROVE Rows(e)
<1>1. Runs(e) = {"main", "child"} /\ e \notin DOMAIN Views
  BY ViewsOf, CodeOf DEF Runs, Execs, Calls!ForkWait, Calls!ReturnCode, Calls!WaitStatus
<1>2. \A r, k : View(e, r, k) = "ttt"
  BY <1>1 DEF View
<1>b. Begins(e)
  BY <1>1, <1>2, CodeOf DEF Begins, Calls!Pair, Piped, Calls!ForkWait, Calls!ReturnCode, Calls!WaitStatus
<1> USE <1>1, <1>2 DEF Kept, Names, Piped, Fifos, Sockets, Queues, Calls!TheEnd, Calls!Fork, Calls!Wait
<1>3. Row(e, "main")
  <2> DEFINE p == Calls!Program(e, "main")
  <2>1. p = <<Calls!Fork("child", Calls!TheEnd), Calls!Wait>>
    BY CodeOf DEF Calls!Program, Calls!ForkWait, Calls!ReturnCode, Calls!WaitStatus
  <2>2. OpenedAt(e, "main") = 100 /\ Opens(e) = 3 /\ WrittenAt(e, "main") = 100 /\ ~Lines(e, "main")
    BY DEF OpenedAt, Opens, WrittenAt, Lines
  <2>4. \A k \in 1 .. 2 : Fits(e, "main", k)
    BY <2>1, <2>2, NumberOf, Changes, Lowest, Letters DEF Fits
  <2>5. \A k \in 1 .. 2 : Sits(e, "main", k)
    BY <2>1, <2>2 DEF Sits
  <2>6. Len(p) = 2 /\ DOMAIN p = 1 .. 2
    BY <2>1
  <2> QED
    BY <2>2, <2>4, <2>5, <2>6 DEF Row
<1>4. Row(e, "child")
  <2> DEFINE p == Calls!Program(e, "child")
  <2>1. p = <<>>
    BY CodeOf DEF Calls!Program, Calls!ForkWait, Calls!ReturnCode, Calls!WaitStatus
  <2>2. OpenedAt(e, "child") = 100 /\ Opens(e) = 3 /\ WrittenAt(e, "child") = 100 /\ ~Lines(e, "child")
    BY DEF OpenedAt, Opens, WrittenAt, Lines
  <2>4. \A k \in 1 .. 0 : Fits(e, "child", k)
    BY <2>1, <2>2, NumberOf, Changes, Lowest, Letters DEF Fits
  <2>5. \A k \in 1 .. 0 : Sits(e, "child", k)
    BY <2>1, <2>2 DEF Sits
  <2>6. Len(p) = 0 /\ DOMAIN p = 1 .. 0
    BY <2>1
  <2> QED
    BY <2>2, <2>4, <2>5, <2>6 DEF Row
<1> QED
  BY <1>b, <1>3, <1>4 DEF Rows

LEMMA Row_bothWait == Rows("bothWait")
<1> DEFINE e == "bothWait"
<1>1. Runs(e) = {"main", "child"} /\ "bothWait" \notin DOMAIN Views
  BY ViewsOf, CodeOf DEF Runs, Execs, Calls!BothWait
<1>2. \A r, k : View(e, r, k) = "ttt"
  BY <1>1 DEF View
<1>b. Begins(e)
  BY <1>1, <1>2, CodeOf DEF Begins, Calls!Pair, Piped, Calls!BothWait
<1> USE <1>1, <1>2 DEF Kept, Names, Piped, Fifos, Sockets, Queues, Calls!TheEnd, Calls!Fork, Calls!Wait
<1>3. Row(e, "main")
  <2> DEFINE p == Calls!Program(e, "main")
  <2>1. p = <<Calls!Fork("child", 2), Calls!Wait>>
    BY CodeOf DEF Calls!Program, Calls!BothWait
  <2>2. OpenedAt(e, "main") = 100 /\ Opens(e) = 3 /\ WrittenAt(e, "main") = 100 /\ ~Lines(e, "main")
    BY DEF OpenedAt, Opens, WrittenAt, Lines
  <2>4. \A k \in 1 .. 2 : Fits(e, "main", k)
    BY <2>1, <2>2, NumberOf, Changes, Lowest, Letters DEF Fits
  <2>5. \A k \in 1 .. 2 : Sits(e, "main", k)
    BY <2>1, <2>2 DEF Sits
  <2>6. Len(p) = 2 /\ DOMAIN p = 1 .. 2
    BY <2>1
  <2> QED
    BY <2>2, <2>4, <2>5, <2>6 DEF Row
<1>4. Row(e, "child")
  <2> DEFINE p == Calls!Program(e, "child")
  <2>1. p = <<Calls!Wait>>
    BY CodeOf DEF Calls!Program, Calls!BothWait
  <2>2. OpenedAt(e, "child") = 100 /\ Opens(e) = 3 /\ WrittenAt(e, "child") = 100 /\ ~Lines(e, "child")
    BY DEF OpenedAt, Opens, WrittenAt, Lines
  <2>4. \A k \in 1 .. 1 : Fits(e, "child", k)
    BY <2>1, <2>2, NumberOf, Changes, Lowest, Letters DEF Fits
  <2>5. \A k \in 1 .. 1 : Sits(e, "child", k)
    BY <2>1, <2>2 DEF Sits
  <2>6. Len(p) = 1 /\ DOMAIN p = 1 .. 1
    BY <2>1
  <2> QED
    BY <2>2, <2>4, <2>5, <2>6 DEF Row
<1> QED
  BY <1>b, <1>3, <1>4 DEF Rows

LEMMA Row_multiproc == Rows("multiproc")
<1> DEFINE e == "multiproc"
<1>1. Runs(e) = {"main", "child", "child2"} /\ "multiproc" \notin DOMAIN Views
  BY ViewsOf, CodeOf DEF Runs, Execs, Calls!Multiproc
<1>2. \A r, k : View(e, r, k) = "ttt"
  BY <1>1 DEF View
<1>b. Begins(e)
  BY <1>1, <1>2, CodeOf DEF Begins, Calls!Pair, Piped, Calls!Multiproc
<1> USE <1>1, <1>2 DEF Kept, Names, Piped, Fifos, Sockets, Queues, Calls!TheEnd, Calls!Fork, Calls!Wait, Calls!Write
<1>3. Row(e, "main")
  <2> DEFINE p == Calls!Program(e, "main")
  <2>1. p = <<Calls!Fork("child", Calls!TheEnd), Calls!Fork("child2", Calls!TheEnd), Calls!Wait, Calls!Wait,
          Calls!Write("out", "one")>>
    BY CodeOf DEF Calls!Program, Calls!Multiproc
  <2>2. OpenedAt(e, "main") = 100 /\ Opens(e) = 3 /\ WrittenAt(e, "main") = 5 /\ ~Lines(e, "main")
    BY DEF OpenedAt, Opens, WrittenAt, Lines
  <2>4. \A k \in 1 .. 5 : Fits(e, "main", k)
    BY <2>1, <2>2, NumberOf, Changes, Lowest, Letters DEF Fits
  <2>5. \A k \in 1 .. 5 : Sits(e, "main", k)
    BY <2>1, <2>2 DEF Sits
  <2>6. Len(p) = 5 /\ DOMAIN p = 1 .. 5
    BY <2>1
  <2> QED
    BY <2>2, <2>4, <2>5, <2>6 DEF Row
<1>4. Row(e, "child")
  <2> DEFINE p == Calls!Program(e, "child")
  <2>1. p = <<Calls!Write("out", "one")>>
    BY CodeOf DEF Calls!Program, Calls!Multiproc
  <2>2. OpenedAt(e, "child") = 100 /\ Opens(e) = 3 /\ WrittenAt(e, "child") = 1 /\ ~Lines(e, "child")
    BY DEF OpenedAt, Opens, WrittenAt, Lines
  <2>4. \A k \in 1 .. 1 : Fits(e, "child", k)
    BY <2>1, <2>2, NumberOf, Changes, Lowest, Letters DEF Fits
  <2>5. \A k \in 1 .. 1 : Sits(e, "child", k)
    BY <2>1, <2>2 DEF Sits
  <2>6. Len(p) = 1 /\ DOMAIN p = 1 .. 1
    BY <2>1
  <2> QED
    BY <2>2, <2>4, <2>5, <2>6 DEF Row
<1>5. Row(e, "child2")
  <2> DEFINE p == Calls!Program(e, "child2")
  <2>1. p = <<Calls!Write("out", "one")>>
    BY CodeOf DEF Calls!Program, Calls!Multiproc
  <2>2. OpenedAt(e, "child2") = 100 /\ Opens(e) = 3 /\ WrittenAt(e, "child2") = 1 /\ ~Lines(e, "child2")
    BY DEF OpenedAt, Opens, WrittenAt, Lines
  <2>4. \A k \in 1 .. 1 : Fits(e, "child2", k)
    BY <2>1, <2>2, NumberOf, Changes, Lowest, Letters DEF Fits
  <2>5. \A k \in 1 .. 1 : Sits(e, "child2", k)
    BY <2>1, <2>2 DEF Sits
  <2>6. Len(p) = 1 /\ DOMAIN p = 1 .. 1
    BY <2>1
  <2> QED
    BY <2>2, <2>4, <2>5, <2>6 DEF Row
<1> QED
  BY <1>b, <1>3, <1>4, <1>5 DEF Rows

LEMMA Row_procesy == Rows("procesy")
<1> DEFINE e == "procesy"
<1>1. Runs(e) = {"main", "child"} /\ e \in DOMAIN Views /\ Views[e] = In_procesy
  BY ViewsOf, CodeOf DEF Runs, Execs, In_procesy
<1>2. \A r, k : View(e, r, k) = In_procesy[r][k]
  BY <1>1 DEF View
<1>b. Begins(e)
  BY <1>1, <1>2, CodeOf DEF Begins, Calls!Pair, Piped, In_procesy, Calls!Procesy
<1> USE <1>1, <1>2 DEF Kept, Names, Piped, Fifos, Sockets, Queues, Calls!TheEnd, Calls!Close, Calls!Creat,
  Calls!Fork, Calls!ReadFile, Calls!Wait,
  Calls!Write
<1>3. Row(e, "main")
  <2> DEFINE p == Calls!Program(e, "main")
  <2>1. p = <<Calls!Fork("child", Calls!TheEnd), Calls!Wait, Calls!ReadFile>>
    BY CodeOf DEF Calls!Program, Calls!Procesy
  <2>2. OpenedAt(e, "main") = 100 /\ Opens(e) = 3 /\ WrittenAt(e, "main") = 100 /\ ~Lines(e, "main")
    BY DEF OpenedAt, Opens, WrittenAt, Lines
  <2>3. /\ In_procesy["main"] = <<"ttt", "ttt", "ttt", "ttt">>
        /\ In_procesy["child"] = <<"ttt", "tttf", "tttf", "ttt">>
    BY DEF In_procesy
  <2>4. \A k \in 1 .. 3 : Fits(e, "main", k)
    BY <2>1, <2>2, <2>3, NumberOf, Changes, Lowest, Letters DEF Fits
  <2>5. \A k \in 1 .. 3 : Sits(e, "main", k)
    BY <2>1, <2>2 DEF Sits
  <2>6. Len(p) = 3 /\ DOMAIN p = 1 .. 3
    BY <2>1
  <2> QED
    BY <2>2, <2>4, <2>5, <2>6 DEF Row
<1>4. Row(e, "child")
  <2> DEFINE p == Calls!Program(e, "child")
  <2>1. p = <<Calls!Creat, Calls!Write("fd", "one"), Calls!Close("fd")>>
    BY CodeOf DEF Calls!Program, Calls!Procesy
  <2>2. OpenedAt(e, "child") = 1 /\ Opens(e) = 3 /\ WrittenAt(e, "child") = 2 /\ ~Lines(e, "child")
    BY DEF OpenedAt, Opens, WrittenAt, Lines
  <2>3. In_procesy["child"] = <<"ttt", "tttf", "tttf", "ttt">>
    BY DEF In_procesy
  <2>4. \A k \in 1 .. 3 : Fits(e, "child", k)
    BY <2>1, <2>2, <2>3, NumberOf, Changes, Lowest, Letters DEF Fits
  <2>5. \A k \in 1 .. 3 : Sits(e, "child", k)
    BY <2>1, <2>2 DEF Sits
  <2>6. Len(p) = 3 /\ DOMAIN p = 1 .. 3
    BY <2>1
  <2> QED
    BY <2>2, <2>4, <2>5, <2>6 DEF Row
<1> QED
  BY <1>b, <1>3, <1>4 DEF Rows

LEMMA Row_presmer == Rows("presmer")
<1> DEFINE e == "presmer"
<1>1. Runs(e) = {"main"} /\ e \in DOMAIN Views /\ Views[e] = In_presmer
  BY ViewsOf, CodeOf DEF Runs, Execs, In_presmer
<1>2. \A r, k : View(e, r, k) = In_presmer[r][k]
  BY <1>1 DEF View
<1>b. Begins(e)
  BY <1>1, <1>2, CodeOf DEF Begins, Calls!Pair, Piped, In_presmer, Calls!Presmer
<1> USE <1>1, <1>2 DEF Kept, Names, Piped, Fifos, Sockets, Queues, Calls!TheEnd, Calls!Close, Calls!Creat,
  Calls!Dup, Calls!Write
<1>3. Row(e, "main")
  <2> DEFINE p == Calls!Program(e, "main")
  <2>1. p = <<Calls!Creat, Calls!Close("out"), Calls!Dup("fd"), Calls!Close("fd"), Calls!Write("out", "one")>>
    BY CodeOf DEF Calls!Program, Calls!Presmer
  <2>2. OpenedAt(e, "main") = 1 /\ Opens(e) = 3 /\ WrittenAt(e, "main") = 5 /\ ~Lines(e, "main")
    BY DEF OpenedAt, Opens, WrittenAt, Lines
  <2>3. In_presmer["main"] = <<"ttt", "tttf", "t_tf", "tftf", "tft", "tft">>
    BY DEF In_presmer
  <2>4. \A k \in 1 .. 5 : Fits(e, "main", k)
    BY <2>1, <2>2, <2>3, NumberOf, Changes, Lowest, Letters DEF Fits
  <2>5. \A k \in 1 .. 5 : Sits(e, "main", k)
    BY <2>1, <2>2 DEF Sits
  <2>6. Len(p) = 5 /\ DOMAIN p = 1 .. 5
    BY <2>1
  <2> QED
    BY <2>2, <2>4, <2>5, <2>6 DEF Row
<1> QED
  BY <1>b, <1>3 DEF Rows

LEMMA Row_presmerovanie == Rows("presmerovanie")
<1> DEFINE e == "presmerovanie"
<1>1. Runs(e) = {"main", "printer"} /\ e \in DOMAIN Views /\ Views[e] = In_presmerovanie
  BY ViewsOf, CodeOf DEF Runs, Execs, In_presmerovanie
<1>2. \A r, k : View(e, r, k) = In_presmerovanie[r][k]
  BY <1>1 DEF View
<1>b. Begins(e)
  BY <1>1, <1>2, CodeOf DEF Begins, Calls!Pair, Piped, In_presmerovanie, Calls!Presmerovanie
<1> USE <1>1, <1>2 DEF Kept, Names, Piped, Fifos, Sockets, Queues, Calls!TheEnd, Calls!Close, Calls!Creat,
  Calls!Dup2, Calls!Exec, Calls!Write
<1>3. Row(e, "main")
  <2> DEFINE p == Calls!Program(e, "main")
  <2>1. p = <<Calls!Creat, Calls!Close("out"), Calls!Dup2("fd", "out"), Calls!Close("fd"), Calls!Write("out",
          "one"), Calls!Exec("printer")>>
    BY CodeOf DEF Calls!Program, Calls!Presmerovanie
  <2>2. OpenedAt(e, "main") = 1 /\ Opens(e) = 3 /\ WrittenAt(e, "main") = 5 /\ ~Lines(e, "main")
    BY DEF OpenedAt, Opens, WrittenAt, Lines
  <2>3. /\ In_presmerovanie["main"] = <<"ttt", "tttf", "t_tf", "tftf", "tft", "tft", "tft">>
        /\ In_presmerovanie["printer"] = <<"tft", "tft">>
    BY DEF In_presmerovanie
  <2>4. \A k \in 1 .. 6 : Fits(e, "main", k)
    BY <2>1, <2>2, <2>3, NumberOf, Changes, Lowest, Letters DEF Fits
  <2>5. \A k \in 1 .. 6 : Sits(e, "main", k)
    BY <2>1, <2>2 DEF Sits
  <2>6. Len(p) = 6 /\ DOMAIN p = 1 .. 6
    BY <2>1
  <2> QED
    BY <2>2, <2>4, <2>5, <2>6 DEF Row
<1>4. Row(e, "printer")
  <2> DEFINE p == Calls!Program(e, "printer")
  <2>1. p = <<Calls!Write("out", "lines")>>
    BY CodeOf DEF Calls!Program, Calls!Printer
  <2>2. OpenedAt(e, "printer") = 100 /\ Opens(e) = 3 /\ WrittenAt(e, "printer") = 1 /\ Lines(e, "printer")
    BY DEF OpenedAt, Opens, WrittenAt, Lines
  <2>3. In_presmerovanie["printer"] = <<"tft", "tft">>
    BY DEF In_presmerovanie
  <2>4. \A k \in 1 .. 1 : Fits(e, "printer", k)
    BY <2>1, <2>2, <2>3, NumberOf, Changes, Lowest, Letters DEF Fits
  <2>5. \A k \in 1 .. 1 : Sits(e, "printer", k)
    BY <2>1, <2>2 DEF Sits
  <2>6. Len(p) = 1 /\ DOMAIN p = 1 .. 1
    BY <2>1
  <2> QED
    BY <2>2, <2>4, <2>5, <2>6 DEF Row
<1> QED
  BY <1>b, <1>3, <1>4 DEF Rows

\* So they do for all of them.
LEMMA AllRows == \A e \in Calls!Exercise \ {Thrice} : Rows(e)
<1> SUFFICES ASSUME NEW e \in Calls!Exercise \ {Thrice} PROVE Rows(e)
  OBVIOUS
<1>1. e \in {"childpipe", "parent2child", "who2my_cut", "who2cut", "dup2sort", "stdout2file", "popen", "pipe",
        "pipe1",
              "fifo3", "fronta", "local", "studentFifo", "studentQueue", "studentSocket", "spawn", "lsko",
              "execRun", "execOnly", "forkWrite", "forkPrintf", "forkOnly", "forkZombie", "forkWait",
              "waitStatus", "returncode", "bothWait", "multiproc", "procesy", "presmer", "presmerovanie"}
  BY DEF Calls!Exercise, Calls!Code, Thrice
<1> QED
  BY <1>1, Row_childpipe, Row_parent2child, Row_who2my_cut, Row_who2cut, Row_dup2sort, Row_stdout2file,
    Row_popen, Row_pipe1, Row_fifo3, Row_fronta, Row_local, Row_studentFifo, Row_studentQueue,
    Row_studentSocket, Row_spawn, Row_lsko, Row_execRun, Row_execOnly, Row_forkWrite, Row_forkOnly,
    Row_forkWait, Row_bothWait, Row_multiproc, Row_procesy, Row_presmer, Row_presmerovanie
-----------------------------------------------------------------------------
\* What a process has at a place of its program: descriptors, variables
\* and counts that fit the tables.  After its call it has what the next
\* place asks for.
\* What a descriptor leads to.
Carries(d, l) ==
  /\ d \in Calls!Descriptor
  /\ l = "t" => d = Calls!Tty
  /\ l = "f" => d = [in |-> 0, out |-> Calls!File]
  /\ l \in {"r", "a", "s"} => d.in \in 3 .. 5
FdFits(g, v) == DOMAIN g = {n \in 0 .. 4 : Letter(v, n) # "."} /\ \A n \in DOMAIN g : Carries(g[n], Letter(v, n))
EnvFits(h, e, r, k) == \A f \in Names : Number(e, r, k, f) # -1 => h[f] = Number(e, r, k, f)
SentFits(n, l, e, r, k) ==
  IF Lines(e, r) THEN n <= l /\ (k <= WrittenAt(e, r) => n < l)
                 ELSE n <= (IF k > WrittenAt(e, r) THEN k - WrittenAt(e, r) ELSE 0)
GotFits(n, l, e, r, k) ==
  IF e = "local" THEN n <= l /\ (k <= (IF r = "main" THEN 4 ELSE 2) => n < l) ELSE n = 0
KeyFits(h, e, r, k) == e \in Queues /\ r \in {"main", "other"} /\ k > 1 => h["fd"] \in Calls!Queue
\* A process with variables h, descriptors g and what it has written and read.
Here(e, r, k, h, g, n, t, l) ==
  /\ r \in Runs(e) /\ k \in 1 .. Len(Calls!Program(e, r)) + 1
  /\ FdFits(g, View(e, r, k)) /\ EnvFits(h, e, r, k) /\ KeyFits(h, e, r, k)
  /\ SentFits(n, l, e, r, k) /\ GotFits(t, l, e, r, k)

\* What is known of a call.
LEMMA CallFacts ==
  ASSUME NEW e \in Calls!Exercise \ {Thrice}, NEW r \in Runs(e), NEW k \in DOMAIN Calls!Program(e, r)
  PROVE  /\ Sits(e, r, k) /\ Fits(e, r, k) /\ k \in 1 .. Len(Calls!Program(e, r)) /\ k \in Nat /\ k >= 1
         /\ k + 1 \in 1 .. Len(Calls!Program(e, r)) + 1 /\ Len(Calls!Program(e, r)) \in Nat
         /\ (Lines(e, r) \/ k <= WrittenAt(e, r) + 2)
<1>1. Row(e, r)
  BY AllRows DEF Rows
<1> QED
  BY <1>1 DEF Row

\* The numbers of variables to which a call does not assign stay.
LEMMA NumbersStay ==
  ASSUME NEW e \in Calls!Exercise \ {Thrice}, NEW r \in Runs(e), NEW k \in DOMAIN Calls!Program(e, r),
         Calls!Program(e, r)[k].op # "pipe", NEW f \in Names,
         f # "fd" \/ Calls!Program(e, r)[k].op \notin {"creat", "open", "connect", "accept"}
  PROVE  Number(e, r, k + 1, f) = Number(e, r, k, f)
<1>1. ~(e \in Piped /\ r = "main" /\ k = 1) /\ k \in Nat /\ k >= 1 /\ (f # "fd" \/ k # OpenedAt(e, r))
  BY CallFacts DEF Sits
<1>2. OpenedAt(e, r) \in Nat
  BY DEF OpenedAt
<1>3. (f = "fd" => (k + 1 > OpenedAt(e, r)) = (k > OpenedAt(e, r)))
      /\ (e \in Piped => (r # "main" \/ k + 1 > 1) = (r # "main" \/ k > 1))
  BY <1>1, <1>2
<1> QED
  BY <1>3 DEF Number, Names

\* The places are numbers.
LEMMA WrittenSomewhere == \A e, r : WrittenAt(e, r) \in Nat
BY DEF WrittenAt

\* The counts fit the next place too.
LEMMA CountsStay ==
  ASSUME NEW n \in Nat, NEW t \in Nat, NEW l \in Nat, NEW e, NEW r, NEW k \in Nat,
         SentFits(n, l, e, r, k), GotFits(t, l, e, r, k)
  PROVE  SentFits(n, l, e, r, k + 1) /\ GotFits(t, l, e, r, k + 1)
BY WrittenSomewhere DEF SentFits, GotFits

\* A call that changes neither descriptors nor variables.
LEMMA GoesToNext ==
  ASSUME NEW e \in Calls!Exercise \ {Thrice}, NEW r \in Runs(e), NEW k \in DOMAIN Calls!Program(e, r), NEW h, NEW g,
         NEW n \in Nat, NEW t \in Nat, NEW l \in Nat,
         Here(e, r, k, h, g, n, t, l), Calls!Program(e, r)[k].op \in Kept \ {"msgget"}
  PROVE  Here(e, r, k + 1, h, g, n, t, l)
<1>1. /\ Sits(e, r, k) /\ Fits(e, r, k) /\ k \in Nat /\ k + 1 \in 1 .. Len(Calls!Program(e, r)) + 1 /\ k >= 1
  BY CallFacts
<1>2. View(e, r, k + 1) = View(e, r, k)
  BY <1>1 DEF Fits
<1>3. EnvFits(h, e, r, k + 1)
  <2>1. Calls!Program(e, r)[k].op \notin {"pipe", "creat", "open", "connect", "accept"}
    BY DEF Kept
  <2> QED
    BY <2>1, NumbersStay DEF Here, EnvFits
<1>4. KeyFits(h, e, r, k + 1)
  BY <1>1 DEF Here, KeyFits, Sits
<1> QED
  BY <1>1, <1>2, <1>3, <1>4, CountsStay DEF Here

\* A message that is written counts.
LEMMA WritesOne ==
  ASSUME NEW e \in Calls!Exercise \ {Thrice}, NEW r \in Runs(e), NEW k \in DOMAIN Calls!Program(e, r), NEW h, NEW g,
         NEW n \in Nat, NEW t \in Nat, NEW l \in Nat,
         Here(e, r, k, h, g, n, t, l), Calls!Program(e, r)[k].op \in {"write", "msgsnd"}
  PROVE  /\ (Calls!Program(e, r)[k].op = "msgsnd" \/ Calls!Program(e, r)[k].n = "one" \/ n + 1 = l)
              => Here(e, r, k + 1, h, g, n + 1, t, l)
         /\ (Calls!Program(e, r)[k].op = "write" /\ Calls!Program(e, r)[k].n # "one" /\ n + 1 # l)
              => Here(e, r, k, h, g, n + 1, t, l)
         /\ (n + 1 <= l \/ n + 1 <= 3)
<1>1. Sits(e, r, k) /\ k \in Nat /\ k >= 1 /\ (Lines(e, r) \/ k <= WrittenAt(e, r) + 2)
  BY CallFacts
<1>2. Here(e, r, k + 1, h, g, n, t, l)
  BY GoesToNext DEF Kept
<1>3. CASE Lines(e, r)
  <2>1. Calls!Program(e, r)[k].op = "write" /\ Calls!Program(e, r)[k].n # "one" /\ k = WrittenAt(e, r)
    BY <1>1, <1>3 DEF Sits
  <2>2. n < l
    BY <1>1, <1>3, <2>1 DEF Here, SentFits
  <2>3. SentFits(n + 1, l, e, r, k + 1) /\ (n + 1 # l => SentFits(n + 1, l, e, r, k))
    BY <1>1, <1>3, <2>1, <2>2 DEF SentFits
  <2> QED
    BY <1>2, <2>1, <2>2, <2>3 DEF Here
<1>4. CASE ~Lines(e, r)
  <2>1. k >= WrittenAt(e, r) /\ (Calls!Program(e, r)[k].op = "msgsnd" \/ Calls!Program(e, r)[k].n = "one")
    BY <1>1, <1>4 DEF Sits
  <2>2. n <= k - WrittenAt(e, r)
    BY <1>1, <1>4, <2>1, WrittenSomewhere DEF Here, SentFits
  <2>3. SentFits(n + 1, l, e, r, k + 1) /\ n + 1 <= 3
    BY <1>1, <1>4, <2>1, <2>2, WrittenSomewhere DEF SentFits
  <2> QED
    BY <1>2, <2>1, <2>3 DEF Here
<1> QED
  BY <1>3, <1>4

-----------------------------------------------------------------------------
\* Descriptors: the lowest free one, one more, one less.
Put(g, n, d) == [m \in DOMAIN g \cup {n} |-> IF m = n THEN d ELSE g[m]]
Drop(g, n) == [m \in DOMAIN g \ {n} |-> g[m]]

\* Least is the smallest.
LEMMA LeastIs ==
  ASSUME NEW set \in SUBSET Nat, NEW n \in set, \A i \in set : n <= i
  PROVE  Calls!Least(set) = n
<1>1. \A i \in set : (\A j \in set : i <= j) => i = n
  OBVIOUS
<1> QED
  BY <1>1 DEF Calls!Least

\* A set of numbers has a smallest one.
LEMMA LowestNat == ASSUME NEW set \in SUBSET Nat, set # {} PROVE \E j \in set : \A k \in set : j <= k
<1>1. \E z \in set : \A y \in set : ~(<<y, z>> \in OpToRel(<, Nat))
  BY WFMin, NatLessThanWellFounded, Zenon
<1>2. PICK z \in set : \A y \in set : ~(<<y, z>> \in OpToRel(<, Nat))
  BY <1>1, Zenon
<1>3. \A y \in set : ~(y < z)
  BY <1>2 DEF OpToRel
<1> QED
  BY <1>3

\* The lowest free descriptor is what the layout says.
LEMMA LowestFree ==
  ASSUME NEW g, NEW v, NEW n \in 0 .. 4, FdFits(g, v), FirstFree(v, n)
  PROVE  Calls!Least((0 .. Calls!MaxFd) \ DOMAIN g) = n
<1>1. n \in (0 .. Calls!MaxFd) \ DOMAIN g /\ \A i \in 0 .. 4 : i < n => i \in DOMAIN g
  BY DEF FdFits, FirstFree, Calls!MaxFd
<1>2. \A i \in (0 .. Calls!MaxFd) \ DOMAIN g : n <= i
  BY <1>1 DEF Calls!MaxFd
<1> QED
  BY <1>1, <1>2, LeastIs DEF Calls!MaxFd

\* With a descriptor opened, and with one closed.
LEMMA OneMore ==
  ASSUME NEW g, NEW v, NEW w, NEW n \in 0 .. 4, NEW l, NEW d,
         FdFits(g, v), Takes(v, w, n, l), l # ".", Carries(d, l)
  PROVE  FdFits(Put(g, n, d), w)
<1> DEFINE g2 == [i \in DOMAIN g \cup {n} |-> IF i = n THEN d ELSE g[i]]
<1>1. DOMAIN g2 = {i \in 0 .. 4 : Letter(w, i) # "."}
  BY DEF FdFits, Takes
<1>2. \A i \in DOMAIN g2 : Carries(g2[i], Letter(w, i))
  BY DEF FdFits, Takes
<1> QED
  BY <1>1, <1>2 DEF FdFits, Put

LEMMA OneLess ==
  ASSUME NEW g, NEW v, NEW w, NEW n \in 0 .. 4, FdFits(g, v), Takes(v, w, n, ".")
  PROVE  FdFits(Drop(g, n), w)
<1> DEFINE g2 == [i \in DOMAIN g \ {n} |-> g[i]]
<1>1. DOMAIN g2 = {i \in 0 .. 4 : Letter(w, i) # "."}
  BY DEF FdFits, Takes
<1>2. \A i \in DOMAIN g2 : Carries(g2[i], Letter(w, i))
  BY DEF FdFits, Takes
<1> QED
  BY <1>1, <1>2 DEF FdFits, Drop

\* A variable that is used has its number.
LEMMA HasNumber ==
  ASSUME NEW h, NEW e, NEW r, NEW k, NEW f \in Names, EnvFits(h, e, r, k), Number(e, r, k, f) \in 0 .. 4
  PROVE  h[f] = Number(e, r, k, f)
BY DEF EnvFits

\* The rest of what a place asks for goes on.
LEMMA RestGoesOn ==
  ASSUME NEW e \in Calls!Exercise \ {Thrice}, NEW r \in Runs(e), NEW k \in DOMAIN Calls!Program(e, r), NEW h, NEW g,
         NEW n \in Nat, NEW t \in Nat, NEW l \in Nat, Here(e, r, k, h, g, n, t, l),
         Calls!Program(e, r)[k].op # "msgget"
  PROVE  \A h2, g2 : FdFits(g2, View(e, r, k + 1)) /\ EnvFits(h2, e, r, k + 1) /\ (h2 = h \/ e \notin Queues)
                     => Here(e, r, k + 1, h2, g2, n, t, l)
<1>1. Sits(e, r, k) /\ k \in Nat /\ k + 1 \in 1 .. Len(Calls!Program(e, r)) + 1 /\ k >= 1
  BY CallFacts
<1>2. KeyFits(h, e, r, k + 1)
  BY <1>1 DEF Here, KeyFits, Sits
<1>3. SentFits(n, l, e, r, k + 1) /\ GotFits(t, l, e, r, k + 1)
  BY <1>1, CountsStay DEF Here
<1> QED
  BY <1>1, <1>2, <1>3 DEF Here, KeyFits

\* A call that assigns to no variable.
LEMMA EnvStays ==
  ASSUME NEW e \in Calls!Exercise \ {Thrice}, NEW r \in Runs(e), NEW k \in DOMAIN Calls!Program(e, r), NEW h,
         EnvFits(h, e, r, k), Calls!Program(e, r)[k].op \notin {"pipe", "creat", "open", "connect", "accept"}
  PROVE  EnvFits(h, e, r, k + 1)
BY NumbersStay DEF EnvFits

\* close, and pipe.
LEMMA Closes ==
  ASSUME NEW e \in Calls!Exercise \ {Thrice}, NEW r \in Runs(e), NEW k \in DOMAIN Calls!Program(e, r), NEW h, NEW g,
         NEW n \in Nat, NEW t \in Nat, NEW l \in Nat, Here(e, r, k, h, g, n, t, l),
         Calls!Program(e, r)[k].op = "close"
  PROVE  Here(e, r, k + 1, h, Drop(g, h[Calls!Program(e, r)[k].f]), n, t, l)
<1> DEFINE f == Calls!Program(e, r)[k].f
<1>1. Sits(e, r, k) /\ Fits(e, r, k)
  BY CallFacts
<1>2. f \in Names /\ Number(e, r, k, f) \in 0 .. 4
      /\ Takes(View(e, r, k), View(e, r, k + 1), Number(e, r, k, f), ".")
  BY <1>1 DEF Sits, Fits
<1>3. EnvFits(h, e, r, k) /\ FdFits(g, View(e, r, k))
  BY DEF Here
<1>4. h[f] = Number(e, r, k, f)
  BY <1>2, <1>3, HasNumber
<1>5. FdFits(Drop(g, h[f]), View(e, r, k + 1))
  BY <1>2, <1>3, <1>4, OneLess
<1>6. EnvFits(h, e, r, k + 1)
  BY <1>3, EnvStays
<1> QED
  BY <1>5, <1>6, RestGoesOn

\* What dup and dup2 copy keeps its letter.
LEMMA Copies ==
  ASSUME NEW e \in Calls!Exercise \ {Thrice}, NEW r \in Runs(e), NEW k \in DOMAIN Calls!Program(e, r), NEW h, NEW g,
         NEW n \in Nat, NEW t \in Nat, NEW l \in Nat, Here(e, r, k, h, g, n, t, l),
         Calls!Program(e, r)[k].op \in {"dup", "dup2"}, h[Calls!Program(e, r)[k].f] \in DOMAIN g,
         NEW i, i = IF Calls!Program(e,
              r)[k].op = "dup" THEN Calls!Least((0 .. Calls!MaxFd) \ DOMAIN g) ELSE h[Calls!Program(e, r)[k].g]
  PROVE  Here(e, r, k + 1, h, Put(g, i, g[h[Calls!Program(e, r)[k].f]]), n, t, l)
<1> DEFINE f == Calls!Program(e, r)[k].f
           v == View(e, r, k)
           w == View(e, r, k + 1)
<1>1. Sits(e, r, k) /\ Fits(e, r, k)
  BY CallFacts
<1>2. f \in Names /\ Number(e, r, k, f) \in 0 .. 4
  BY <1>1 DEF Sits, Fits
<1>3. EnvFits(h, e, r, k) /\ FdFits(g, v)
  BY DEF Here
<1>4. h[f] = Number(e, r, k, f)
  BY <1>2, <1>3, HasNumber
<1>5. i \in 0 .. 1 /\ Takes(v, w, i, Letter(v, h[f]))
  <2>1. CASE Calls!Program(e, r)[k].op = "dup"
    <3>1. PICK a \in 0 .. 1 : FirstFree(v, a) /\ Takes(v, w, a, Letter(v, h[f]))
      BY <1>1, <1>4, <2>1 DEF Fits
    <3>2. a \in 0 .. 4
      OBVIOUS
    <3>3. i = a
      BY <1>3, <2>1, <3>1, <3>2, LowestFree
    <3> QED
      BY <3>1, <3>3
  <2>2. CASE Calls!Program(e, r)[k].op = "dup2"
    <3>1. Calls!Program(e, r)[k].g \in Names /\ Number(e, r, k, Calls!Program(e, r)[k].g) \in 0 .. 1
          /\ Takes(v, w, Number(e, r, k, Calls!Program(e, r)[k].g), Letter(v, h[f]))
      BY <1>1, <1>4, <2>2 DEF Sits, Fits
    <3>2. i = Number(e, r, k, Calls!Program(e, r)[k].g)
      BY <1>3, <2>2, <3>1, HasNumber
    <3> QED
      BY <3>1, <3>2
  <2> QED
    BY <2>1, <2>2
<1>6. Letter(v, h[f]) # "." /\ Carries(g[h[f]], Letter(v, h[f])) /\ i \in 0 .. 4
  BY <1>3, <1>5 DEF FdFits
<1>7. FdFits(Put(g, i, g[h[f]]), w)
  BY <1>3, <1>5, <1>6, OneMore
<1>8. EnvFits(h, e, r, k + 1)
  BY <1>3, EnvStays
<1> QED
  BY <1>7, <1>8, RestGoesOn

\* A file, a fifo or a socket takes the lowest free descriptor.
LEMMA Opening ==
  ASSUME NEW e \in Calls!Exercise \ {Thrice}, NEW r \in Runs(e), NEW k \in DOMAIN Calls!Program(e, r), NEW h, NEW g,
         NEW n \in Nat, NEW t \in Nat, NEW l \in Nat, Here(e, r, k, h, g, n, t, l), DOMAIN h = Names,
         Calls!Program(e, r)[k].op \in {"creat", "open", "connect", "accept"}, NEW d, NEW b, Carries(d, b),
         Calls!Program(e, r)[k].op = "creat" => b = "f", Calls!Program(e, r)[k].op = "open"
              => b = Calls!Program(e, r)[k].end,
         Calls!Program(e, r)[k].op = "connect" => b = "a", Calls!Program(e, r)[k].op = "accept" => b = "s",
         NEW a, a = Calls!Least((0 .. Calls!MaxFd) \ DOMAIN g)
  PROVE  Here(e, r, k + 1, [h EXCEPT !["fd"] = a], Put(g, a, d), n, t, l) /\ a \in 3 .. 4
<1> DEFINE v == View(e, r, k)
           w == View(e, r, k + 1)
           h2 == [h EXCEPT !["fd"] = a]
<1>1. Sits(e, r, k) /\ Fits(e, r, k) /\ k \in Nat
  BY CallFacts
<1>2. EnvFits(h, e, r, k) /\ FdFits(g, v)
  BY DEF Here
<1>3. Opens(e) \in 3 .. 4 /\ FirstFree(v, Opens(e)) /\ Takes(v, w, Opens(e), b) /\ b # "."
  <2>1. CASE Calls!Program(e, r)[k].op = "creat"
    BY <1>1, <2>1 DEF Fits, Opens
  <2>2. CASE Calls!Program(e, r)[k].op = "open"
    BY <1>1, <2>2 DEF Fits, Opens, Sits, Fifos
  <2>3. CASE Calls!Program(e, r)[k].op = "connect"
    BY <1>1, <2>3 DEF Fits, Opens, Sits, Sockets
  <2>4. CASE Calls!Program(e, r)[k].op = "accept"
    BY <1>1, <2>4 DEF Fits, Opens, Sits, Sockets
  <2> QED
    BY <2>1, <2>2, <2>3, <2>4
<1>4. a = Opens(e) /\ Opens(e) \in 0 .. 4
  BY <1>2, <1>3, LowestFree
<1>5. FdFits(Put(g, a, d), w)
  BY <1>2, <1>3, <1>4, OneMore
<1>6. EnvFits(h2, e, r, k + 1)
  <2> SUFFICES ASSUME NEW f \in Names, Number(e, r, k + 1, f) # -1 PROVE h2[f] = Number(e, r, k + 1, f)
    BY DEF EnvFits
  <2>1. CASE f = "fd"
    <3>1. k + 1 > OpenedAt(e, r)
      BY <1>1 DEF Sits
    <3> QED
      BY <1>4, <2>1, <3>1, NumberOf
  <2>2. CASE f # "fd"
    BY <1>2, <2>2, NumbersStay DEF EnvFits
  <2> QED
    BY <2>1, <2>2
<1>7. e \notin Queues
  BY <1>1 DEF Sits, Fifos, Sockets, Queues
<1> QED
  BY <1>3, <1>4, <1>5, <1>6, <1>7, RestGoesOn

\* The ends of a pipe or fifo.
LEMMA Ends2 ==
  ASSUME NEW c \in 3 .. 5
  PROVE  Carries([in |-> c, out |-> 0], "r") /\ Carries([in |-> 0, out |-> c], "w")
<1>1. [in |-> c, out |-> 0] \in Calls!Descriptor /\ [in |-> 0, out |-> c] \in Calls!Descriptor /\ [in |-> c,
        out |-> 0].in = c
  BY DEF Calls!Descriptor
<1> QED
  BY <1>1 DEF Carries

\* A pipe takes the two lowest free descriptors.
LEMMA Piping ==
  ASSUME NEW e \in Calls!Exercise \ {Thrice}, NEW r \in Runs(e), NEW k \in DOMAIN Calls!Program(e, r), NEW h, NEW g,
         NEW n \in Nat, NEW t \in Nat, NEW l \in Nat, Here(e, r, k, h, g, n, t, l), DOMAIN h = Names,
         Calls!Program(e, r)[k].op = "pipe", NEW d1, NEW d2, Carries(d1, "r"), Carries(d2, "w")
  PROVE  /\ Calls!Least((0 .. Calls!MaxFd) \ DOMAIN g) = 3
              /\ Calls!Least((0 .. Calls!MaxFd) \ (DOMAIN g \cup {3})) = 4
         /\ Here(e, r, k + 1, [h EXCEPT !["r"] = 3, !["w"] = 4],
                 Put(Put(g, 3, d1), 4, d2), n, t, l)
<1> DEFINE h2 == [h EXCEPT !["r"] = 3, !["w"] = 4]
           g1 == Put(g, 3, d1)
           g2 == Put(g1, 4, d2)
<1>1. Sits(e, r, k) /\ Fits(e, r, k) /\ k \in Nat
  BY CallFacts
<1>2. EnvFits(h, e, r, k) /\ FdFits(g, "ttt") /\ View(e, r, k) = "ttt" /\ View(e, r, k + 1) = "tttrw"
  BY <1>1 DEF Here, Fits
<1>3. /\ Takes("ttt", "tttr", 3, "r") /\ Takes("tttr", "tttrw", 4, "w")
      /\ FirstFree("ttt", 3) /\ FirstFree("tttr", 4)
  BY DEF Takes, FirstFree, Letter, Layout
<1>4. 3 \in 0 .. 4 /\ 4 \in 0 .. 4 /\ "r" # "." /\ "w" # "."
  OBVIOUS
<1>5. FdFits(g1, "tttr")
  <2> HIDE DEF h2
  <2> QED
    BY <1>2, <1>3, <1>4, OneMore
<1>6. FdFits(g2, "tttrw")
  <2> HIDE DEF h2
  <2> QED
    BY <1>3, <1>4, <1>5, OneMore
<1>7. DOMAIN g1 = DOMAIN g \cup {3}
  BY DEF Put
<1>8. Calls!Least((0 .. Calls!MaxFd) \ DOMAIN g) = 3 /\ Calls!Least((0 .. Calls!MaxFd) \ (DOMAIN g \cup {3})) = 4
  BY <1>2, <1>3, <1>5, <1>7, LowestFree
<1>9. EnvFits(h2, e, r, k + 1)
  <2> SUFFICES ASSUME NEW f \in Names, Number(e, r, k + 1, f) # -1 PROVE h2[f] = Number(e, r, k + 1, f)
    BY DEF EnvFits
  <2>0. e \in Piped /\ r = "main" /\ k = 1 /\ OpenedAt(e, r) \in Nat /\ OpenedAt(e, r) # 1
    BY <1>1 DEF Sits, OpenedAt
  <2>1. CASE f \in {"r", "w"}
    BY <2>0, <2>1, NumberOf DEF Names
  <2>2. CASE f = "fd"
    <3>1. Number(e, r, k + 1, f) = Number(e, r, k, f)
      BY <2>0, <2>2 DEF Number
    <3> QED
      BY <1>2, <2>2, <3>1 DEF EnvFits
  <2>3. CASE f \in {"in", "out", "err"}
    BY <1>2, <2>3, NumberOf DEF EnvFits
  <2> QED
    BY <2>1, <2>2, <2>3 DEF Names
<1>10. e \notin Queues
  BY <1>1 DEF Sits, Piped, Queues
<1> QED
  BY <1>2, <1>6, <1>8, <1>9, <1>10, RestGoesOn

\* The number of the queue.
LEMMA GetsQueue ==
  ASSUME NEW e \in Calls!Exercise \ {Thrice}, NEW r \in Runs(e), NEW k \in DOMAIN Calls!Program(e, r), NEW h, NEW g,
         NEW n \in Nat, NEW t \in Nat, NEW l \in Nat, Here(e, r, k, h, g, n, t, l), DOMAIN h = Names,
         Calls!Program(e, r)[k].op = "msgget", NEW q \in Calls!Queue
  PROVE  Here(e, r, k + 1, [h EXCEPT !["fd"] = q], g, n, t, l)
<1> DEFINE h2 == [h EXCEPT !["fd"] = q]
<1>1. /\ Sits(e, r, k) /\ Fits(e, r, k) /\ k \in Nat /\ k + 1 \in 1 .. Len(Calls!Program(e, r)) + 1
  BY CallFacts
<1>2. e \in Queues /\ r \in {"main", "other"} /\ k = 1 /\ k # OpenedAt(e, r) /\ OpenedAt(e, r) = 100
  BY <1>1 DEF Sits, OpenedAt, Queues, Fifos, Sockets
<1>3. View(e, r, k + 1) = View(e, r, k)
  BY <1>1 DEF Fits, Kept
<1>4. EnvFits(h2, e, r, k + 1)
  <2> SUFFICES ASSUME NEW f \in Names, Number(e, r, k + 1, f) # -1 PROVE h2[f] = Number(e, r, k + 1, f)
    BY DEF EnvFits
  <2>1. f # "fd"
    BY <1>2, NumberOf
  <2>2. Number(e, r, k + 1, f) = Number(e, r, k, f)
    BY <2>1, NumbersStay
  <2> QED
    BY <2>1, <2>2 DEF Here, EnvFits
<1>5. KeyFits(h2, e, r, k + 1)
  BY DEF KeyFits, Names
<1>6. SentFits(n, l, e, r, k + 1) /\ GotFits(t, l, e, r, k + 1)
  BY <1>1, CountsStay DEF Here
<1> QED
  BY <1>1, <1>3, <1>4, <1>5, <1>6 DEF Here

\* A child and a program that is executed begin with what they are given.
LEMMA BeginsWith ==
  ASSUME NEW e \in Calls!Exercise \ {Thrice}, NEW r \in Runs(e), NEW k \in DOMAIN Calls!Program(e, r), NEW h, NEW g,
         NEW n \in Nat, NEW t \in Nat, NEW l \in Nat \ {0}, Here(e, r, k, h, g, n, t, l), NEW q,
         \/ Calls!Program(e, r)[k].op = "fork" /\ q = Calls!Program(e, r)[k].child
         \/ Calls!Program(e, r)[k].op = "exec" /\ q = Calls!Program(e, r)[k].program
  PROVE  /\ q \in {"child", "child2", "reader", "printer"} /\ Here(e, q, 1, h, g, 0, 0, l)
         /\ (Calls!Program(e, r)[k].op = "exec" => Here(e, q, 1, h, g, 0, t, l))
<1>1. Sits(e, r, k) /\ Fits(e, r, k) /\ k \in Nat /\ k >= 1
  BY CallFacts
<1>2. /\ q \in Runs(e) /\ q \in {"child", "child2", "reader", "printer"} /\ View(e, q, 1) = View(e, r, k)
      /\ (Calls!Program(e, r)[k].op = "exec" => e # "local")
  BY <1>1 DEF Sits, Fits
<1>3. 1 \in 1 .. Len(Calls!Program(e, q)) + 1
  BY <1>2, AllRows DEF Rows, Row
<1>4. EnvFits(h, e, q, 1)
  <2> SUFFICES ASSUME NEW f \in Names, Number(e, q, 1, f) # -1 PROVE h[f] = Number(e, q, 1, f)
    BY DEF EnvFits
  <2>1. f # "fd"
    BY NumberOf, <1>2 DEF OpenedAt
  <2>2. e \in Piped => r # "main" \/ k > 1
    BY <1>1 DEF Sits
  <2>3. Number(e, r, k, f) = Number(e, q, 1, f)
    BY <1>2, <2>1, <2>2 DEF Number, Names
  <2> QED
    BY <2>3 DEF Here, EnvFits
<1>5. KeyFits(h, e, q, 1)
  BY DEF KeyFits
<1>6. SentFits(0, l, e, q, 1) /\ GotFits(0, l, e, q, 1)
  BY WrittenSomewhere DEF SentFits, GotFits
<1>7. Calls!Program(e, r)[k].op = "exec" => GotFits(t, l, e, q, 1)
  BY <1>2 DEF Here, GotFits
<1> QED
  BY <1>2, <1>3, <1>4, <1>5, <1>6, <1>7 DEF Here

\* What is read as often as there are lines is counted.
LEMMA ReadsOne ==
  ASSUME NEW e \in Calls!Exercise \ {Thrice}, NEW r \in Runs(e), NEW k \in DOMAIN Calls!Program(e, r), NEW h, NEW g,
         NEW n \in Nat, NEW t \in Nat, NEW l \in Nat,
         Here(e, r, k, h, g, n, t, l), Calls!Program(e, r)[k].op = "copy", Calls!Program(e, r)[k].n = "lines"
  PROVE  /\ Here(e, r, k + 1, h, g, n, t + 1, l) /\ t + 1 <= l
         /\ (t + 1 # l => Here(e, r, k, h, g, n, t + 1, l))
<1>1. e = "local" /\ k = (IF r = "main" THEN 4 ELSE 2) /\ k \in Nat
  BY CallFacts DEF Sits
<1>2. t < l
  BY <1>1 DEF Here, GotFits
<1>3. GotFits(t + 1, l, e, r, k + 1) /\ (t + 1 # l => GotFits(t + 1, l, e, r, k))
  BY <1>1, <1>2 DEF GotFits
<1>4. Here(e, r, k + 1, h, g, n, t, l)
  BY GoesToNext DEF Kept
<1> QED
  BY <1>2, <1>3, <1>4 DEF Here

\* From where a message is read and to where it goes.
LEMMA ReadsFrom ==
  ASSUME NEW e \in Calls!Exercise \ {Thrice}, NEW r \in Runs(e), NEW k \in DOMAIN Calls!Program(e, r), NEW h, NEW g,
         NEW n, NEW t, NEW l, Here(e, r, k, h, g, n, t, l), Calls!Program(e, r)[k].op = "copy"
  PROVE  g[h[Calls!Program(e, r)[k].f]].in \in 3 .. 5 /\ g[h[Calls!Program(e,
           r)[k].g]].out \in {Calls!Terminal, Calls!File}
<1> DEFINE v == View(e, r, k)
           f == Calls!Program(e, r)[k].f
           f2 == Calls!Program(e, r)[k].g
<1>1. /\ f \in Names /\ f2 \in Names /\ Number(e, r, k, f) \in 0 .. 4 /\ Number(e, r, k, f2) \in 0 .. 4
      /\ Letter(v, Number(e, r, k, f)) \in {"r", "a", "s"} /\ Letter(v, Number(e, r, k, f2)) \in {"t", "f"}
  BY CallFacts DEF Sits, Fits
<1>2. EnvFits(h, e, r, k) /\ FdFits(g, v)
  BY DEF Here
<1>3. h[f] = Number(e, r, k, f) /\ h[f2] = Number(e, r, k, f2)
  BY <1>1, <1>2, HasNumber
<1>4. Carries(g[h[f]], Letter(v, h[f])) /\ Carries(g[h[f2]], Letter(v, h[f2]))
  BY <1>1, <1>2, <1>3 DEF FdFits
<1> QED
  BY <1>1, <1>3, <1>4 DEF Carries, Calls!Tty

-----------------------------------------------------------------------------
\* The shape of the state: what TypeOK says, and what the invariant needs
\* besides.
Lives == {"none", "alive", "zombie", "gone"}
Parcel == [type : 1 .. 2, msg : Calls!Message]
FixOK == exercise \in Calls!Exercise /\ lines \in 1 .. MaxLines /\ stale \in BOOLEAN
ProcOK ==
  /\ life \in [Calls!Process -> Lives] /\ role \in [Calls!Process -> Calls!Role] /\ upc \in [Calls!Process -> Nat]
  /\ env \in [Calls!Process -> [Names -> -1 .. Calls!MaxFd]] /\ fd = [p \in Calls!Process |-> fd[p]]
  /\ sent \in [Calls!Process -> 0 .. MaxLines + 3] /\ got \in [Calls!Process -> 0 .. MaxLines]
  /\ \A p \in Calls!Process : life[p] # "alive" => fd[p] = <<>>
BufOK ==
  /\ buf \in [Calls!Channel -> Seq(Calls!Message)]
  /\ \A c \in Calls!Channel : c > Calls!File => Len(buf[c]) <= Cap
LinkOK ==
  /\ used \in 2 .. 5 /\ named \in {0} \cup (3 .. 5) /\ met \subseteq Calls!Channel \X {"r", "w"} /\ round \in 1 .. 3
  /\ listening \in BOOLEAN /\ backlog \in Seq({3}) /\ failed \subseteq Calls!Process
QueueOK ==
  /\ key \in 0 .. 2 /\ made \in 0 .. 2 /\ queue \in [Calls!Queue -> Seq(Parcel)]
  /\ asleep \subseteq Calls!Process /\ \A q \in asleep : Calls!At(q, "msgrcv")
Shapes == FixOK /\ ProcOK /\ BufOK /\ LinkOK /\ QueueOK

\* Where every process is.
Good(p) ==
  life[p] = "alive" =>
    /\ Here(exercise, role[p], upc[p], env[p], fd[p], sent[p], got[p], lines)
    /\ (role[p] = "main" => p = Calls!Main) /\ (role[p] = "other" => p = Calls!Other)
First(p) == life[p] = "alive" /\ role[p] \in {"main", "other"} /\ upc[p] = 1
\* How many channels and queues there can be.
UsedOK ==
  /\ exercise \in Piped => used \in 2 .. 3 /\ (First(Calls!Main) => used = 2)
  /\ exercise \in Fifos => /\ (First(Calls!Main) => used <= 4) /\ (First(Calls!Other) => used <= 4)
                           /\ (First(Calls!Main) /\ First(Calls!Other) => used <= 3)
  /\ exercise \in Sockets => used \in {2, 4} /\ (First(Calls!Other) => used = 2)
  /\ (First(Calls!Main) => key = made) /\ (First(Calls!Main) \/ First(Calls!Other) => made <= 1)
Everywhere == (\A p \in Calls!Process : Good(p)) /\ UsedOK

\* A process that does not move stays where it should be.
LEMMA Kept2 ==
  ASSUME NEW q, Good(q), exercise' = exercise, lines' = lines,
         life'[q] = "alive" => /\ life[q] = "alive" /\ role'[q] = role[q] /\ upc'[q] = upc[q] /\ env'[q] = env[q]
                               /\ fd'[q] = fd[q] /\ sent'[q] = sent[q] /\ got'[q] = got[q]
  PROVE  Good(q)'
BY DEF Good

\* Nobody comes to the first place again.
LEMMA UsedKept ==
  ASSUME UsedOK, exercise' = exercise, used' = used, key' = key, made' = made,
         First(Calls!Main)' => First(Calls!Main), First(Calls!Other)' => First(Calls!Other)
  PROVE  UsedOK'
BY DEF UsedOK

\* A step of one process in its program.
LEMMA OneMoves ==
  ASSUME Everywhere, ProcOK, NEW p \in Calls!Process, life[p] = "alive", Calls!cfg' = Calls!cfg, life' = life,
           role' = role,
         NEW k \in Nat, k > 1 \/ k = upc[p], upc' = [upc EXCEPT ![p] = k],
         \A q \in Calls!Process \ {p} : env'[q] = env[q] /\ fd'[q] = fd[q] /\ sent'[q] = sent[q]
              /\ got'[q] = got[q],
         Here(exercise, role[p], k, env'[p], fd'[p], sent'[p], got'[p], lines)
  PROVE  /\ \A q \in Calls!Process : Good(q)'
         /\ (First(Calls!Main)' => First(Calls!Main) /\ (k = 1 \/ p # Calls!Main))
         /\ (First(Calls!Other)' => First(Calls!Other) /\ (k = 1 \/ p # Calls!Other))
<1>1. \A q \in Calls!Process \ {p} : upc'[q] = upc[q]
  BY DEF ProcOK
<1>2. upc'[p] = k
  BY DEF ProcOK
<1>3. \A q \in Calls!Process \ {p} : Good(q)'
  <2> TAKE q \in Calls!Process \ {p}
  <2>1. Good(q)
    BY DEF Everywhere
  <2> QED
    BY <1>1, <2>1, Kept2 DEF Calls!cfg
<1>4. Good(p)'
  <2>1. Good(p)
    BY DEF Everywhere
  <2> QED
    BY <1>2, <2>1 DEF Good, Calls!cfg
<1>5. (First(Calls!Main)' => First(Calls!Main) /\ (k = 1 \/ p # Calls!Main)) /\ (First(Calls!Other)'
        => First(Calls!Other) /\ (k = 1 \/ p # Calls!Other))
  BY <1>1, <1>2 DEF First, Calls!Process
<1> QED
  BY <1>3, <1>4, <1>5

\* The same, with nothing created.
LEMMA OneMovesOn ==
  ASSUME Everywhere, ProcOK, NEW p \in Calls!Process, life[p] = "alive", Calls!cfg' = Calls!cfg, life' = life,
           role' = role,
         UNCHANGED <<used, key, made>>, NEW k \in Nat, k > 1 \/ k = upc[p], upc' = [upc EXCEPT ![p] = k],
         \A q \in Calls!Process \ {p} : env'[q] = env[q] /\ fd'[q] = fd[q] /\ sent'[q] = sent[q]
              /\ got'[q] = got[q],
         Here(exercise, role[p], k, env'[p], fd'[p], sent'[p], got'[p], lines)
  PROVE  Everywhere'
<1>1. /\ \A q \in Calls!Process : Good(q)'
      /\ (First(Calls!Main)' => First(Calls!Main)) /\ (First(Calls!Other)' => First(Calls!Other))
  BY OneMoves
<1> QED
  BY <1>1, UsedKept DEF Everywhere, Calls!cfg

\* What is known of a process that makes a call.
LEMMA AtFacts ==
  ASSUME Shapes, Everywhere, exercise # Thrice, NEW p \in Calls!Process, NEW op, Calls!At(p, op)
  PROVE  /\ exercise \in Calls!Exercise \ {Thrice} /\ role[p] \in Runs(exercise)
         /\ upc[p] \in DOMAIN Calls!Program(exercise, role[p]) /\ upc[p] \in Nat /\ upc[p] >= 1
         /\ Here(exercise, role[p], upc[p], env[p], fd[p], sent[p], got[p], lines)
         /\ Calls!Program(exercise, role[p])[upc[p]].op = op /\ life[p] = "alive"
         /\ (role[p] = "main" => p = Calls!Main) /\ (role[p] = "other" => p = Calls!Other)
         /\ sent[p] \in Nat /\ got[p] \in Nat /\ lines \in Nat \ {0} /\ DOMAIN env[p] = Names
<1>1. Good(p) /\ life[p] = "alive"
  BY DEF Everywhere, Calls!At
<1>2. Here(exercise, role[p], upc[p], env[p], fd[p], sent[p], got[p], lines) /\ role[p] \in Runs(exercise)
  BY <1>1 DEF Good, Here
<1>3. sent[p] \in Nat /\ got[p] \in Nat /\ lines \in Nat \ {0} /\ DOMAIN env[p] = Names
  BY ProcessesAssumption DEF Shapes, ProcOK, FixOK, Calls!UnixAssumption
<1>4. upc[p] \in DOMAIN Calls!Program(exercise, role[p]) /\ Calls!Program(exercise, role[p])[upc[p]].op = op
  BY DEF Calls!At, Calls!Call
<1>5. exercise \in Calls!Exercise \ {Thrice}
  BY DEF Shapes, FixOK
<1>6. upc[p] \in Nat /\ upc[p] >= 1
  BY <1>2, <1>4, <1>5, CallFacts
<1> QED
  BY <1>1, <1>2, <1>3, <1>4, <1>5, <1>6 DEF Good

\* Nobody else wakes in msgrcv.
LEMMA StillAsleep ==
  ASSUME QueueOK, NEW p, ~Calls!At(p, "msgrcv"), exercise' = exercise, UNCHANGED Calls!queues,
         \A q \in Calls!Process \ {p} : life[q] = "alive" => life'[q] = "alive" /\ role'[q] = role[q]
              /\ upc'[q] = upc[q]
  PROVE  QueueOK'
<1>1. \A q \in asleep : Calls!At(q, "msgrcv")'
  <2> TAKE q \in asleep
  <2>1. Calls!At(q, "msgrcv") /\ q # p /\ q \in Calls!Process
    BY DEF QueueOK
  <2> QED
    BY <2>1 DEF Calls!At, Calls!Call
<1> QED
  BY <1>1 DEF QueueOK, Calls!queues

\* A process is at one call.
LEMMA NotAsleep ==
  ASSUME NEW p, NEW op, Calls!At(p, op), op # "msgrcv"
  PROVE  ~Calls!At(p, "msgrcv")
BY DEF Calls!At

-----------------------------------------------------------------------------
\* Every call keeps the shape.  What it needs to know of the process is an
\* assumption.
\* The variables after one assignment, and after two.
LEMMA EnvShape ==
  ASSUME ProcOK, NEW p \in Calls!Process, NEW f \in Names, NEW n \in -1 .. Calls!MaxFd
  PROVE  [env EXCEPT ![p][f] = n] \in [Calls!Process -> [Names -> -1 .. Calls!MaxFd]]
BY DEF ProcOK

LEMMA EnvShape2 ==
  ASSUME ProcOK, NEW p \in Calls!Process, NEW f \in Names, NEW n \in -1 .. Calls!MaxFd, NEW f2 \in Names,
           NEW n2 \in -1 .. Calls!MaxFd
  PROVE  [env EXCEPT ![p][f] = n, ![p][f2] = n2] \in [Calls!Process -> [Names -> -1 .. Calls!MaxFd]]
BY DEF ProcOK

\* Call by call.
LEMMA RedirectShape == ASSUME Shapes, NEW p \in Calls!Process, Calls!Redirect(p) PROVE Shapes'
<1>1. life[p] = "alive" /\ ~Calls!At(p, "msgrcv")
  BY DEF Calls!Redirect, Calls!At
<1>2. ProcOK'
  <2>1. fd' = [q \in Calls!Process |-> fd'[q]] /\ \A q \in Calls!Process \ {p} : fd'[q] = fd[q]
    BY DEF Calls!Redirect, Shapes, ProcOK
  <2>2. upc' \in [Calls!Process -> Nat]
    BY DEF Calls!Redirect, Calls!Step, Shapes, ProcOK
  <2> QED
    BY <1>1, <2>1, <2>2 DEF Calls!Redirect, Shapes, ProcOK, Calls!counts
<1>3. QueueOK'
  <2>1. \A q \in Calls!Process \ {p} : upc'[q] = upc[q]
    BY DEF Calls!Redirect, Calls!Step, Shapes, ProcOK
  <2> QED
    BY <1>1, <2>1, StillAsleep DEF Calls!Redirect, Calls!cfg, Shapes
<1> QED
  BY <1>2, <1>3 DEF Calls!Redirect, Shapes, FixOK, BufOK, LinkOK, Calls!cfg, Calls!counts, Calls!channels,
    Calls!fifos, Calls!sockets

LEMMA PipeShape ==
  ASSUME Shapes, NEW p \in Calls!Process, Calls!PipeCall(p), used <= 4, Calls!Free(p) \in 0 .. Calls!MaxFd,
         Calls!Least((0 .. Calls!MaxFd) \ (DOMAIN fd[p] \cup {Calls!Free(p)})) \in 0 .. Calls!MaxFd
  PROVE  Shapes'
<1>1. life[p] = "alive" /\ ~Calls!At(p, "msgrcv")
  BY DEF Calls!PipeCall, Calls!At
<1>2. ProcOK'
  <2>1. fd' = [q \in Calls!Process |-> fd'[q]] /\ \A q \in Calls!Process \ {p} : fd'[q] = fd[q]
    BY DEF Calls!PipeCall, Shapes, ProcOK
  <2>2. upc' \in [Calls!Process -> Nat]
    BY DEF Calls!PipeCall, Calls!Step, Shapes, ProcOK
  <2>3. env' \in [Calls!Process -> [Names -> -1 .. Calls!MaxFd]]
    <3> DEFINE r == Calls!Free(p)
               w == Calls!Least((0 .. Calls!MaxFd) \ (DOMAIN fd[p] \cup {r}))
    <3>1. env' = [env EXCEPT ![p]["r"] = r, ![p]["w"] = w]
      BY DEF Calls!PipeCall
    <3>2. r \in -1 .. Calls!MaxFd /\ w \in -1 .. Calls!MaxFd /\ "r" \in Names /\ "w" \in Names /\ ProcOK
      BY DEF Names, Calls!MaxFd, Shapes
    <3> HIDE DEF r, w
    <3> QED
      BY <3>1, <3>2, EnvShape2
  <2>4. UNCHANGED <<life, role, Calls!counts>>
    BY DEF Calls!PipeCall
  <2> QED
    BY <1>1, <2>1, <2>2, <2>3, <2>4 DEF Shapes, ProcOK, Calls!counts
<1>3. QueueOK'
  <2>1. \A q \in Calls!Process \ {p} : upc'[q] = upc[q]
    BY DEF Calls!PipeCall, Calls!Step, Shapes, ProcOK
  <2> QED
    BY <1>1, <2>1, StillAsleep DEF Calls!PipeCall, Calls!cfg, Shapes
<1> QED
  BY <1>2, <1>3 DEF Calls!PipeCall, Shapes, FixOK, BufOK, LinkOK, Calls!cfg, Calls!counts, Calls!fifos,
    Calls!sockets

LEMMA CreatShape ==
  ASSUME Shapes, NEW p \in Calls!Process, Calls!CreatCall(p), Calls!Free(p) \in 0 .. Calls!MaxFd
  PROVE  Shapes'
<1>1. life[p] = "alive" /\ ~Calls!At(p, "msgrcv")
  BY DEF Calls!CreatCall, Calls!At
<1>2. ProcOK'
  <2>1. fd' = [q \in Calls!Process |-> fd'[q]] /\ \A q \in Calls!Process \ {p} : fd'[q] = fd[q]
    BY DEF Calls!CreatCall, Shapes, ProcOK
  <2>2. upc' \in [Calls!Process -> Nat]
    BY DEF Calls!CreatCall, Calls!Step, Shapes, ProcOK
  <2>3. env' \in [Calls!Process -> [Names -> -1 .. Calls!MaxFd]]
    <3>1. Calls!Free(p) \in -1 .. Calls!MaxFd /\ "fd" \in Names
      BY DEF Names, Calls!MaxFd
    <3>2. ProcOK /\ env' = [env EXCEPT ![p]["fd"] = Calls!Free(p)]
      BY DEF Calls!CreatCall, Shapes
    <3> QED
      BY <3>1, <3>2, EnvShape
  <2> QED
    BY <1>1, <2>1, <2>2, <2>3 DEF Calls!CreatCall, Shapes, ProcOK, Calls!counts
<1>3. QueueOK'
  <2>1. \A q \in Calls!Process \ {p} : upc'[q] = upc[q]
    BY DEF Calls!CreatCall, Calls!Step, Shapes, ProcOK
  <2> QED
    BY <1>1, <2>1, StillAsleep DEF Calls!CreatCall, Calls!cfg, Shapes
<1> QED
  BY <1>2, <1>3 DEF Calls!CreatCall, Shapes, FixOK, BufOK, LinkOK, Calls!cfg, Calls!counts, Calls!channels,
    Calls!fifos, Calls!sockets

LEMMA ReadFileShape == ASSUME Shapes, NEW p \in Calls!Process, Calls!ReadFileCall(p) PROVE Shapes'
<1>1. life[p] = "alive" /\ ~Calls!At(p, "msgrcv")
  BY DEF Calls!ReadFileCall, Calls!At
<1>2. ProcOK'
  BY DEF Calls!ReadFileCall, Calls!Step, Shapes, ProcOK, Calls!counts
<1>3. QueueOK'
  <2>1. \A q \in Calls!Process \ {p} : upc'[q] = upc[q]
    BY DEF Calls!ReadFileCall, Calls!Step, Shapes, ProcOK
  <2> QED
    BY <1>1, <2>1, StillAsleep DEF Calls!ReadFileCall, Calls!cfg, Shapes
<1>4. BufOK'
  <2>1. buf[Calls!Terminal] \o buf[Calls!File] \in Seq(Calls!Message)
    BY DEF Shapes, BufOK, Calls!Channel, Calls!Terminal, Calls!File
  <2>2. buf' = [buf EXCEPT ![Calls!Terminal] = buf[Calls!Terminal] \o buf[Calls!File]]
    BY DEF Calls!ReadFileCall
  <2> HIDE DEF Calls!Message
  <2> QED
    BY <2>1, <2>2 DEF Shapes, BufOK, Calls!Channel, Calls!Terminal, Calls!File
<1> QED
  BY <1>2, <1>3, <1>4 DEF Calls!ReadFileCall, Shapes, FixOK, LinkOK, Calls!cfg, Calls!counts, Calls!fifos,
    Calls!sockets

LEMMA WaitShape == ASSUME Shapes, NEW p \in Calls!Process, Calls!WaitCall(p) PROVE Shapes'
<1>1. life[p] = "alive" /\ ~Calls!At(p, "msgrcv")
  BY DEF Calls!WaitCall, Calls!At
<1>2. life' \in [Calls!Process -> Lives] /\ \A q \in Calls!Process : life'[q] = life[q] \/ (life[q] = "zombie"
        /\ life'[q] = "none")
  BY DEF Calls!WaitCall, Shapes, ProcOK, Lives
<1>3. upc' \in [Calls!Process -> Nat] /\ \A q \in Calls!Process \ {p} : upc'[q] = upc[q]
  BY DEF Calls!WaitCall, Calls!Step, Shapes, ProcOK
<1>4. UNCHANGED <<Calls!cfg, role, env, fd, Calls!counts, Calls!channels, Calls!fifos, Calls!sockets,
        Calls!queues, failed>>
  BY DEF Calls!WaitCall
<1>5. ProcOK'
  BY <1>2, <1>3, <1>4 DEF Shapes, ProcOK, Calls!counts
<1>6. QueueOK'
  BY <1>1, <1>2, <1>3, <1>4, StillAsleep DEF Calls!cfg, Shapes
<1> QED
  BY <1>4, <1>5, <1>6 DEF Shapes, FixOK, BufOK, LinkOK, Calls!cfg, Calls!counts, Calls!channels, Calls!fifos,
    Calls!sockets

\* The end of a process.
LEMMA EndsFor ==
  ASSUME ProcOK, NEW p \in Calls!Process, life[p] = "alive", NEW bad, Calls!Ends(p, bad)
  PROVE  /\ life' \in [Calls!Process -> Lives] /\ life'[p] # "alive" /\ UNCHANGED <<role, upc, env>>
         /\ \A q \in Calls!Process \ {p} : (life'[q] = "alive") = (life[q] = "alive") /\ fd'[q] = fd[q]
         /\ fd'[p] = <<>> /\ fd' = [q \in Calls!Process |-> fd'[q]]
BY DEF Calls!Ends, ProcOK, Lives

\* A process that ends, for whatever reason.
LEMMA EndsShape ==
  ASSUME Shapes, NEW p \in Calls!Process, life[p] = "alive", NEW bad \in BOOLEAN, Calls!Ends(p, bad),
         UNCHANGED <<Calls!cfg, Calls!counts, Calls!channels, Calls!fifos, key, made, queue>>,
         asleep' = asleep \ {p} \/ (asleep' = asleep /\ ~Calls!At(p, "msgrcv"))
  PROVE  Shapes'
<1>1. /\ life' \in [Calls!Process -> Lives] /\ life'[p] # "alive" /\ UNCHANGED <<role, upc, env>>
      /\ \A q \in Calls!Process \ {p} : (life'[q] = "alive") = (life[q] = "alive") /\ fd'[q] = fd[q]
      /\ fd'[p] = <<>> /\ fd' = [q \in Calls!Process |-> fd'[q]]
  BY EndsFor DEF Shapes
<1>2. ProcOK'
  BY <1>1 DEF Shapes, ProcOK, Calls!counts
<1>3. QueueOK'
  <2>1. \A q \in asleep' : Calls!At(q, "msgrcv")'
    <3> TAKE q \in asleep'
    <3>1. Calls!At(q, "msgrcv") /\ q # p /\ q \in Calls!Process
      BY DEF Shapes, QueueOK
    <3> QED
      BY <1>1, <3>1 DEF Calls!At, Calls!Call, Calls!cfg
  <2> QED
    BY <2>1 DEF Shapes, QueueOK
<1>4. LinkOK'
  <2>1. listening' \in BOOLEAN
    BY DEF Calls!Ends, Shapes, LinkOK
  <2>2. backlog' \in Seq({3})
    BY DEF Calls!Ends, Shapes, LinkOK
  <2>3. failed' \subseteq Calls!Process
    BY DEF Calls!Ends, Shapes, LinkOK
  <2> QED
    BY <2>1, <2>2, <2>3 DEF Shapes, LinkOK, Calls!counts, Calls!channels, Calls!fifos
<1> QED
  BY <1>2, <1>3, <1>4 DEF Shapes, FixOK, BufOK, Calls!cfg, Calls!channels

LEMMA ReturnShape == ASSUME Shapes, NEW p \in Calls!Process, Calls!Return(p) PROVE Shapes'
<1>1. life[p] = "alive" /\ Calls!Ends(p, FALSE) /\ ~Calls!At(p, "msgrcv") /\ UNCHANGED <<Calls!cfg,
        Calls!counts, Calls!channels, Calls!fifos, Calls!queues>>
  BY DEF Calls!Return, Calls!At
<1> QED
  BY <1>1, EndsShape DEF Calls!queues

LEMMA FailsShape == ASSUME Shapes, NEW p \in Calls!Process, Calls!Fails(p) PROVE Shapes'
<1>1. /\ life[p] = "alive" /\ Calls!Ends(p, TRUE) /\ asleep' = asleep \ {p}
      /\ UNCHANGED <<Calls!cfg, Calls!counts, Calls!channels, Calls!fifos, key, made, queue>>
  BY Zenon DEF Calls!Fails, Calls!At
<1> QED
  BY <1>1, EndsShape

\* Outside its domain a function does not change.
LEMMA NoEffect ==
  ASSUME NEW set, NEW range, NEW a \in [set -> range], NEW c, c \notin set, NEW v
  PROVE  [a EXCEPT ![c] = v] = a
OBVIOUS

\* The message that is written next.
LEMMA NextMessage ==
  ASSUME NEW r \in Calls!Role, NEW n \in Nat, MaxLines \in Nat, n + 1 <= MaxLines + 3
  PROVE  <<r, n + 1>> \in Calls!Message
BY DEF Calls!Message

LEMMA WriteShape ==
  ASSUME Shapes, NEW p \in Calls!Process, Calls!WriteCall(p), sent[p] + 1 <= MaxLines + 3
  PROVE  Shapes'
<1> DEFINE c == fd[p][Calls!Fd(p, Calls!Call(p).f)].out
           msg == <<role[p], sent[p] + 1>>
<1>1. life[p] = "alive" /\ ~Calls!At(p, "msgrcv")
  BY Zenon DEF Calls!WriteCall, Calls!At
<1>2. CASE c \notin {Calls!Terminal, Calls!File} /\ ~Calls!HasReader(c) /\ Calls!Ends(p, TRUE)
             /\ UNCHANGED <<buf, sent>>
  <2>1. UNCHANGED <<Calls!cfg, Calls!counts, Calls!channels, Calls!fifos, Calls!queues>>
    BY <1>2, Zenon DEF Calls!WriteCall, Calls!counts, Calls!channels
  <2> QED
    BY <1>1, <1>2, <2>1, EndsShape, Zenon DEF Calls!queues
<1>3. CASE /\ c \in {Calls!Terminal, Calls!File} \/ (Calls!HasReader(c) /\ Len(buf[c]) < Cap)
           /\ buf' = [buf EXCEPT ![c] = Append(@, msg)]
           /\ sent' = [sent EXCEPT ![p] = @ + 1]
           /\ upc' = [upc EXCEPT ![p] = IF Calls!Call(p).n = "one" \/ sent[p] + 1 = lines THEN @ + 1 ELSE @]
           /\ UNCHANGED <<life, role, env, fd, Calls!sockets, failed>>
  <2>1. sent[p] \in Nat /\ role[p] \in Calls!Role /\ MaxLines \in Nat /\ Cap \in Nat
    BY ProcessesAssumption DEF Shapes, ProcOK, Calls!UnixAssumption
  <2>2. msg \in Calls!Message
    BY <2>1, NextMessage, Zenon
  <2>3. UNCHANGED <<Calls!cfg, got, round, used, Calls!fifos, Calls!queues>>
    BY Zenon DEF Calls!WriteCall
  <2> HIDE DEF msg, c
  <2>4. upc' \in [Calls!Process -> Nat] /\ \A q \in Calls!Process \ {p} : upc'[q] = upc[q]
    BY <1>3 DEF Shapes, ProcOK
  <2>5. sent' \in [Calls!Process -> 0 .. MaxLines + 3]
    BY <1>3, <2>1 DEF Shapes, ProcOK
  <2>6. ProcOK'
    BY <1>3, <2>3, <2>4, <2>5, Zenon DEF Shapes, ProcOK
  <2>7. QueueOK'
    BY <1>1, <1>3, <2>3, <2>4, StillAsleep DEF Calls!cfg, Shapes
  <2>8. BufOK'
    <3>1. BufOK /\ buf \in [Calls!Channel -> Seq(Calls!Message)]
      BY DEF Shapes, BufOK
    <3>2. CASE c \notin Calls!Channel
      <4>1. buf' = buf
        BY <1>3, <3>1, <3>2, NoEffect
      <4> QED
        BY <3>1, <4>1 DEF BufOK
    <3>3. CASE c \in Calls!Channel
      <4>1. Append(buf[c], msg) \in Seq(Calls!Message) /\ Len(Append(buf[c], msg)) = Len(buf[c]) + 1
              /\ Len(buf[c]) \in Nat
        BY <2>2, <3>1, <3>3
      <4>2. buf' = [buf EXCEPT ![c] = Append(buf[c], msg)]
        BY <1>3
      <4>3. buf' \in [Calls!Channel -> Seq(Calls!Message)]
        BY <3>1, <3>3, <4>1, <4>2
      <4>4. c > Calls!File => Len(buf'[c]) <= Cap
        BY <1>3, <2>1, <3>1, <3>3, <4>1, <4>2 DEF Calls!Terminal, Calls!File
      <4>5. \A d \in Calls!Channel \ {c} : buf'[d] = buf[d]
        BY <3>1, <4>2
      <4> QED
        BY <3>1, <4>3, <4>4, <4>5 DEF BufOK
    <3> QED
      BY <3>2, <3>3
  <2> QED
    BY <1>3, <2>3, <2>6, <2>7, <2>8 DEF Shapes, FixOK, LinkOK, Calls!cfg, Calls!fifos, Calls!sockets
<1> QED
  BY <1>2, <1>3, Zenon DEF Calls!WriteCall

LEMMA CopyShape ==
  ASSUME Shapes, NEW p \in Calls!Process, Calls!CopyCall(p), fd[p][Calls!Fd(p, Calls!Call(p).f)].in \in 3 .. 5,
         fd[p][Calls!Fd(p, Calls!Call(p).g)].out \in {Calls!Terminal, Calls!File}, Calls!Call(p).n = "lines"
              => got[p] + 1 <= MaxLines
  PROVE  Shapes'
<1> DEFINE c == fd[p][Calls!Fd(p, Calls!Call(p).f)].in
           to == fd[p][Calls!Fd(p, Calls!Call(p).g)].out
<1>1. life[p] = "alive" /\ ~Calls!At(p, "msgrcv")
  BY Zenon DEF Calls!CopyCall, Calls!At
<1>2. UNCHANGED <<Calls!cfg, life, role, env, fd, sent, round, used, Calls!fifos, Calls!sockets, Calls!queues>>
  BY Zenon DEF Calls!CopyCall
<1>3. got[p] \in Nat /\ MaxLines \in Nat
  BY ProcessesAssumption DEF Shapes, ProcOK, Calls!UnixAssumption
<1>4. upc' \in [Calls!Process -> Nat] /\ \A q \in Calls!Process \ {p} : upc'[q] = upc[q]
  <2>1. upc \in [Calls!Process -> Nat]
    BY Zenon DEF Shapes, ProcOK
  <2>2. \/ upc' = [upc EXCEPT ![p] = @ + 1]
        \/ upc' = [upc EXCEPT ![p] = IF Calls!Call(p).n = "one" \/ (Calls!Call(p).n = "lines"
             /\ got[p] + 1 = lines) THEN @ + 1 ELSE @]
    BY Zenon DEF Calls!CopyCall, Calls!Step
  <2> QED
    BY <2>1, <2>2
<1>5. got' \in [Calls!Process -> 0 .. MaxLines] /\ failed' = failed
  <2>1. got \in [Calls!Process -> 0 .. MaxLines]
    BY Zenon DEF Shapes, ProcOK
  <2>2. failed' = failed /\ (got' = got
          \/ got' = [got EXCEPT ![p] = IF Calls!Call(p).n = "lines" THEN @ + 1 ELSE @])
    BY Zenon DEF Calls!CopyCall
  <2> QED
    BY <1>3, <2>1, <2>2
<1>6. ProcOK'
  BY <1>2, <1>4, <1>5 DEF Shapes, ProcOK
<1>7. QueueOK'
  BY <1>1, <1>2, <1>4, StillAsleep DEF Calls!cfg, Shapes
<1>8. BufOK'
  <2>1. buf' = buf \/ (buf[c] # <<>> /\ buf' = [buf EXCEPT ![c] = Tail(@), ![to] = Append(@, Head(buf[c]))])
    BY Zenon DEF Calls!CopyCall
  <2>2. c \in Calls!Channel /\ to \in Calls!Channel /\ c # to /\ c > Calls!File /\ ~(to > Calls!File)
          /\ buf \in [Calls!Channel -> Seq(Calls!Message)]
        /\ \A d \in Calls!Channel : d > Calls!File => Len(buf[d]) <= Cap
    BY DEF Calls!Channel, Calls!Terminal, Calls!File, Shapes, BufOK
  <2> HIDE DEF c, to
  <2>3. CASE buf[c] # <<>> /\ buf' = [buf EXCEPT ![c] = Tail(@), ![to] = Append(@, Head(buf[c]))]
    <3>1. /\ buf[c] \in Seq(Calls!Message) /\ Head(buf[c]) \in Calls!Message /\ Tail(buf[c]) \in Seq(Calls!Message)
          /\ Len(Tail(buf[c])) = Len(buf[c]) - 1 /\ Append(buf[to], Head(buf[c])) \in Seq(Calls!Message)
               /\ Len(buf[c]) \in Nat
      BY <2>2, <2>3
    <3>2. /\ buf'[c] = Tail(buf[c]) /\ buf'[to] = Append(buf[to], Head(buf[c]))
          /\ \A d \in Calls!Channel \ {c, to} : buf'[d] = buf[d]
      BY <2>2, <2>3
    <3>3. buf' \in [Calls!Channel -> Seq(Calls!Message)]
      BY <2>2, <2>3, <3>1
    <3>4. \A d \in Calls!Channel : d > Calls!File => Len(buf'[d]) <= Cap
      <4>1. Len(buf'[c]) <= Cap
        <5>1. Len(buf[c]) <= Cap /\ Cap \in Nat
          BY <2>2, ProcessesAssumption DEF Calls!UnixAssumption
        <5> QED
          BY <3>1, <3>2, <5>1
      <4> QED
        BY <2>2, <3>2, <4>1
    <3> QED
      BY <3>3, <3>4 DEF BufOK
  <2> QED
    BY <2>1, <2>3, Zenon DEF BufOK, Shapes
<1> QED
  BY <1>2, <1>5, <1>6, <1>7, <1>8, Zenon DEF Shapes, FixOK, LinkOK, Calls!cfg, Calls!fifos, Calls!sockets

LEMMA ForkShape ==
  ASSUME Shapes, NEW p \in Calls!Process, Calls!ForkCall(p), Calls!Call(p).child \in Calls!Role,
           Calls!Call(p).fail # Calls!TheEnd => Calls!Call(p).fail \in Nat
  PROVE  Shapes'
<1>1. life[p] = "alive" /\ ~Calls!At(p, "msgrcv") /\ UNCHANGED <<Calls!cfg, Calls!channels, Calls!fifos,
        Calls!queues>>
  BY DEF Calls!ForkCall, Calls!At
<1>2. CASE \E q \in {q \in Calls!Child : life[q] # "alive" /\ life[q] # "zombie"} :
             /\ life' = [life EXCEPT ![q] = "alive"]
             /\ role' = [role EXCEPT ![q] = Calls!Call(p).child]
             /\ upc' = [upc EXCEPT ![p] = @ + 1, ![q] = 1]
             /\ env' = [env EXCEPT ![q] = env[p]]
             /\ fd' = [fd EXCEPT ![q] = fd[p]]
             /\ sent' = [sent EXCEPT ![q] = 0]
             /\ got' = [got EXCEPT ![q] = 0]
             /\ UNCHANGED <<round, Calls!sockets, failed>>
  <2>1. PICK q \in Calls!Child :
             /\ life[q] # "alive" /\ life' = [life EXCEPT ![q] = "alive"]
             /\ role' = [role EXCEPT ![q] = Calls!Call(p).child]
             /\ upc' = [upc EXCEPT ![p] = @ + 1, ![q] = 1]
             /\ env' = [env EXCEPT ![q] = env[p]]
             /\ fd' = [fd EXCEPT ![q] = fd[p]]
             /\ sent' = [sent EXCEPT ![q] = 0]
             /\ got' = [got EXCEPT ![q] = 0]
             /\ UNCHANGED <<round, Calls!sockets, failed>>
    BY <1>2
  <2>2. q \in Calls!Process /\ q # p
    BY <1>1, <2>1 DEF Calls!Process
  <2>3. life' \in [Calls!Process -> Lives] /\ life'[q] = "alive"
          /\ \A i \in Calls!Process \ {q} : life'[i] = life[i] /\ fd'[i] = fd[i]
    BY <2>1, <2>2 DEF Shapes, ProcOK, Lives
  <2>4. role' \in [Calls!Process -> Calls!Role] /\ \A i \in Calls!Process \ {q} : role'[i] = role[i]
    BY <2>1, <2>2 DEF Shapes, ProcOK
  <2>5. upc' \in [Calls!Process -> Nat] /\ \A i \in Calls!Process \ {p, q} : upc'[i] = upc[i]
    <3>1. upc \in [Calls!Process -> Nat] /\ upc' = [upc EXCEPT ![p] = upc[p] + 1, ![q] = 1]
      BY <2>1 DEF Shapes, ProcOK
    <3> QED
      BY <3>1, <2>2
  <2>6. env' \in [Calls!Process -> [Names -> -1 .. Calls!MaxFd]]
    <3>1. env \in [Calls!Process -> [Names -> -1 .. Calls!MaxFd]] /\ env' = [env EXCEPT ![q] = env[p]]
      BY <2>1 DEF Shapes, ProcOK
    <3> QED
      BY <3>1, <2>2
  <2>7. fd' = [i \in Calls!Process |-> fd'[i]]
    BY <2>1, <2>2 DEF Shapes, ProcOK
  <2>8. sent' \in [Calls!Process -> 0 .. MaxLines + 3] /\ got' \in [Calls!Process -> 0 .. MaxLines]
    <3>1. sent \in [Calls!Process -> 0 .. MaxLines + 3] /\ got \in [Calls!Process -> 0 .. MaxLines]
            /\ MaxLines \in Nat
      BY ProcessesAssumption DEF Shapes, ProcOK, Calls!UnixAssumption
    <3>2. sent' = [sent EXCEPT ![q] = 0] /\ got' = [got EXCEPT ![q] = 0]
      BY <2>1
    <3>3. 0 \in 0 .. MaxLines + 3 /\ 0 \in 0 .. MaxLines
      BY <3>1
    <3> QED
      BY <3>1, <3>2, <3>3
  <2>9. ProcOK'
    BY <2>3, <2>4, <2>5, <2>6, <2>7, <2>8 DEF Shapes, ProcOK
  <2>10. QueueOK'
    <3>1. \A i \in Calls!Process \ {p} : life[i] = "alive" => life'[i] = "alive" /\ role'[i] = role[i]
            /\ upc'[i] = upc[i]
      BY <2>1, <2>3, <2>4, <2>5
    <3> QED
      BY <1>1, <3>1, StillAsleep DEF Shapes, Calls!cfg
  <2> QED
    BY <1>1, <2>1, <2>9, <2>10 DEF Shapes, FixOK, BufOK, LinkOK, Calls!cfg, Calls!channels, Calls!fifos,
      Calls!sockets
<1>3. CASE /\ Calls!Call(p).fail # Calls!TheEnd /\ upc' = [upc EXCEPT ![p] = Calls!Call(p).fail]
                /\ failed' = failed \cup {p}
           /\ UNCHANGED <<life, role, env, fd, Calls!counts, Calls!sockets>>
  <2>1. upc' \in [Calls!Process -> Nat] /\ \A i \in Calls!Process \ {p} : upc'[i] = upc[i]
    BY <1>3 DEF Shapes, ProcOK
  <2>2. ProcOK'
    BY <1>3, <2>1 DEF Shapes, ProcOK, Calls!counts
  <2>3. QueueOK'
    BY <1>1, <1>3, <2>1, StillAsleep DEF Shapes, Calls!cfg
  <2> QED
    BY <1>1, <1>3, <2>2, <2>3 DEF Shapes, FixOK, BufOK, LinkOK, Calls!cfg, Calls!channels, Calls!fifos,
      Calls!sockets, Calls!counts
<1>4. CASE Calls!Ends(p, TRUE) /\ UNCHANGED Calls!counts
  BY <1>1, <1>4, EndsShape DEF Calls!queues
<1> QED
  BY <1>2, <1>3, <1>4 DEF Calls!ForkCall

LEMMA ExecShape ==
  ASSUME Shapes, NEW p \in Calls!Process, Calls!ExecCall(p), Calls!Call(p).program \in Calls!Role
  PROVE  Shapes'
<1>1. life[p] = "alive" /\ ~Calls!At(p, "msgrcv")
      /\ UNCHANGED <<Calls!cfg, life, env, fd, got, round, Calls!channels, Calls!fifos, Calls!sockets,
           Calls!queues>>
  BY DEF Calls!ExecCall, Calls!At
<1>2. upc' \in [Calls!Process -> Nat] /\ \A i \in Calls!Process \ {p} : upc'[i] = upc[i]
  <2>1. upc \in [Calls!Process -> Nat] /\ \E n \in {1, upc[p] + 1} : upc' = [upc EXCEPT ![p] = n]
    BY DEF Calls!ExecCall, Calls!Step, Shapes, ProcOK
  <2> QED
    BY <2>1
<1>3. role' \in [Calls!Process -> Calls!Role] /\ \A i \in Calls!Process \ {p} : role'[i] = role[i]
  BY DEF Calls!ExecCall, Shapes, ProcOK
<1>4. sent' \in [Calls!Process -> 0 .. MaxLines + 3] /\ failed' \subseteq Calls!Process
  <2>1. sent \in [Calls!Process -> 0 .. MaxLines + 3] /\ failed \subseteq Calls!Process /\ 0 \in 0 .. MaxLines + 3
    BY ProcessesAssumption DEF Shapes, ProcOK, LinkOK, Calls!UnixAssumption
  <2>2. (sent' = sent \/ sent' = [sent EXCEPT ![p] = 0]) /\ (failed' = failed \/ failed' = failed \cup {p})
    BY DEF Calls!ExecCall
  <2> QED
    BY <2>1, <2>2
<1>5. ProcOK'
  BY <1>1, <1>2, <1>3, <1>4 DEF Shapes, ProcOK
<1>6. QueueOK'
  BY <1>1, <1>2, <1>3, StillAsleep DEF Shapes, Calls!cfg
<1> QED
  BY <1>1, <1>4, <1>5, <1>6 DEF Shapes, FixOK, BufOK, LinkOK, Calls!cfg, Calls!channels, Calls!fifos, Calls!sockets

LEMMA AgainShape ==
  ASSUME Shapes, NEW p \in Calls!Process, Calls!AgainCall(p), Calls!Call(p).n = 3
  PROVE  Shapes'
<1>1. life[p] = "alive" /\ ~Calls!At(p, "msgrcv")
      /\ UNCHANGED <<Calls!cfg, life, role, env, fd, sent, got, Calls!channels, Calls!fifos, Calls!sockets,
           Calls!queues, failed>>
  BY DEF Calls!AgainCall, Calls!At
<1>2. upc' \in [Calls!Process -> Nat] /\ \A i \in Calls!Process \ {p} : upc'[i] = upc[i]
  <2>1. upc \in [Calls!Process -> Nat]
    BY DEF Shapes, ProcOK
  <2>2. upc' = [upc EXCEPT ![p] = IF round < Calls!Call(p).n THEN 1 ELSE @ + 1]
    BY DEF Calls!AgainCall
  <2> QED
    BY <2>1, <2>2
<1>3. ProcOK'
  BY <1>1, <1>2 DEF Shapes, ProcOK
<1>4. QueueOK'
  BY <1>1, <1>2, StillAsleep DEF Shapes, Calls!cfg
<1>5. round' \in 1 .. 3
  BY DEF Calls!AgainCall, Shapes, LinkOK
<1> QED
  BY <1>1, <1>3, <1>4, <1>5 DEF Shapes, FixOK, BufOK, LinkOK, Calls!cfg, Calls!channels, Calls!fifos, Calls!sockets

LEMMA FifoShape ==
  ASSUME Shapes, NEW p \in Calls!Process, Calls!Fifo(p),
         Calls!At(p, "open") => Calls!Call(p).end \in {"r", "w"} /\ Calls!Free(p) \in 0 .. Calls!MaxFd,
         Calls!At(p, "mkfifo") => used <= 4
  PROVE  Shapes'
<1>1. life[p] = "alive" /\ ~Calls!At(p, "msgrcv")
      /\ UNCHANGED <<Calls!cfg, life, role, Calls!counts, buf, Calls!sockets, Calls!queues, failed>>
  BY DEF Calls!Fifo, Calls!At
<1>2. upc' \in [Calls!Process -> Nat] /\ \A i \in Calls!Process \ {p} : upc'[i] = upc[i]
  BY DEF Calls!Fifo, Calls!Step, Shapes, ProcOK
<1>3. /\ env' = env \/ (Calls!Free(p) \in 0 .. Calls!MaxFd /\ env' = [env EXCEPT ![p]["fd"] = Calls!Free(p)])
      /\ fd' = fd \/ \E g : fd' = [fd EXCEPT ![p] = g]
  BY DEF Calls!Fifo
<1>4. env' \in [Calls!Process -> [Names -> -1 .. Calls!MaxFd]]
  <2>1. ProcOK /\ "fd" \in Names /\ \A n \in 0 .. Calls!MaxFd : n \in -1 .. Calls!MaxFd
    BY DEF Shapes, Names, Calls!MaxFd
  <2>2. Calls!Free(p) \in 0 .. Calls!MaxFd
          => [env EXCEPT ![p]["fd"] = Calls!Free(p)] \in [Calls!Process -> [Names -> -1 .. Calls!MaxFd]]
    BY <2>1, EnvShape
  <2> QED
    BY <1>3, <2>1, <2>2 DEF ProcOK
<1>5. fd' = [q \in Calls!Process |-> fd'[q]] /\ \A q \in Calls!Process \ {p} : fd'[q] = fd[q]
  BY <1>3 DEF Shapes, ProcOK
<1>6. ProcOK'
  BY <1>1, <1>2, <1>4, <1>5 DEF Shapes, ProcOK, Calls!counts
<1>7. QueueOK'
  BY <1>1, <1>2, StillAsleep DEF Shapes, Calls!cfg
<1>8. used' \in 2 .. 5 /\ named' \in {0} \cup (3 .. 5) /\ met' \subseteq Calls!Channel \X {"r", "w"}
  <2>1. used \in 2 .. 5 /\ named \in {0} \cup (3 .. 5) /\ met \subseteq Calls!Channel \X {"r", "w"}
    BY DEF Shapes, LinkOK
  <2>2. CASE /\ Calls!At(p, "mkfifo")
             /\ named' = IF named = 0 THEN used + 1 ELSE named
             /\ used' = IF named = 0 THEN used + 1 ELSE used
             /\ UNCHANGED <<env, fd, met>>
    BY <2>1, <2>2
  <2>3. CASE Calls!At(p, "open") /\ named # 0 /\ met' = met \cup {<<named, Calls!Call(p).end>>}
               /\ UNCHANGED <<named, used>>
    BY <2>1, <2>3 DEF Calls!Channel
  <2>4. CASE UNCHANGED <<met, used>> /\ (named' = named \/ named' = 0)
    BY <2>1, <2>4
  <2> QED
    BY <2>2, <2>3, <2>4 DEF Calls!Fifo
<1> QED
  BY <1>1, <1>6, <1>7, <1>8 DEF Shapes, FixOK, BufOK, LinkOK, Calls!cfg, Calls!counts, Calls!sockets

LEMMA SocketShape ==
  ASSUME Shapes, NEW p \in Calls!Process, Calls!Socket(p), Calls!At(p, "connect") => used = 2,
         Calls!At(p, "connect") \/ Calls!At(p, "accept") => Calls!Free(p) \in 0 .. Calls!MaxFd
  PROVE  Shapes'
<1>1. life[p] = "alive" /\ ~Calls!At(p, "msgrcv")
      /\ UNCHANGED <<Calls!cfg, life, role, Calls!counts, buf, Calls!fifos, Calls!queues, failed>>
  BY DEF Calls!Socket, Calls!At
<1>2. upc' \in [Calls!Process -> Nat] /\ \A i \in Calls!Process \ {p} : upc'[i] = upc[i]
  BY DEF Calls!Socket, Calls!Step, Shapes, ProcOK
<1>3. /\ env' = env \/ (Calls!Free(p) \in 0 .. Calls!MaxFd /\ env' = [env EXCEPT ![p]["fd"] = Calls!Free(p)])
      /\ fd' = fd \/ \E g : fd' = [fd EXCEPT ![p] = g]
  BY DEF Calls!Socket
<1>4. env' \in [Calls!Process -> [Names -> -1 .. Calls!MaxFd]]
  <2>1. ProcOK /\ "fd" \in Names /\ \A n \in 0 .. Calls!MaxFd : n \in -1 .. Calls!MaxFd
    BY DEF Shapes, Names, Calls!MaxFd
  <2>2. Calls!Free(p) \in 0 .. Calls!MaxFd
          => [env EXCEPT ![p]["fd"] = Calls!Free(p)] \in [Calls!Process -> [Names -> -1 .. Calls!MaxFd]]
    BY <2>1, EnvShape
  <2> QED
    BY <1>3, <2>1, <2>2 DEF ProcOK
<1>5. fd' = [q \in Calls!Process |-> fd'[q]] /\ \A q \in Calls!Process \ {p} : fd'[q] = fd[q]
  BY <1>3 DEF Shapes, ProcOK
<1>6. ProcOK'
  BY <1>1, <1>2, <1>4, <1>5 DEF Shapes, ProcOK, Calls!counts
<1>7. QueueOK'
  BY <1>1, <1>2, StillAsleep DEF Shapes, Calls!cfg
<1>8. used' \in 2 .. 5 /\ listening' \in BOOLEAN /\ backlog' \in Seq({3})
  <2>1. used \in 2 .. 5 /\ listening \in BOOLEAN /\ backlog \in Seq({3})
    BY DEF Shapes, LinkOK
  <2>2. CASE listening' = TRUE /\ UNCHANGED <<used, backlog>>
    BY <2>1, <2>2
  <2>3. CASE Calls!At(p, "connect") /\ used' = used + 2 /\ backlog' = Append(backlog, used + 1)
               /\ UNCHANGED listening
    <3>1. Append(backlog, 3) \in Seq({3})
      BY <2>1
    <3> QED
      BY <2>1, <2>3, <3>1
  <2>4. CASE backlog # <<>> /\ backlog' = Tail(backlog) /\ UNCHANGED <<listening, used>>
    <3>1. Tail(backlog) \in Seq({3})
      BY <2>1, <2>4
    <3> QED
      BY <2>1, <2>4, <3>1
  <2> QED
    BY <2>2, <2>3, <2>4 DEF Calls!Socket
<1> QED
  BY <1>1, <1>6, <1>7, <1>8 DEF Shapes, FixOK, BufOK, LinkOK, Calls!cfg, Calls!counts, Calls!fifos

LEMMA MsggetShape ==
  ASSUME Shapes, NEW p \in Calls!Process, Calls!MsggetCall(p), key = 0 => made <= 1
  PROVE  Shapes'
<1>1. life[p] = "alive" /\ ~Calls!At(p, "msgrcv")
      /\ UNCHANGED <<Calls!cfg, life, role, fd, Calls!counts, Calls!channels, Calls!fifos, Calls!sockets,
           queue, asleep, failed>>
  BY DEF Calls!MsggetCall, Calls!At
<1>2. upc' \in [Calls!Process -> Nat] /\ \A i \in Calls!Process \ {p} : upc'[i] = upc[i]
  BY DEF Calls!MsggetCall, Calls!Step, Shapes, ProcOK
<1>3. key' \in 0 .. 2 /\ made' \in 0 .. 2
  BY DEF Calls!MsggetCall, Shapes, QueueOK
<1>4. env' \in [Calls!Process -> [Names -> -1 .. Calls!MaxFd]]
  <2>1. ProcOK /\ key' \in -1 .. Calls!MaxFd /\ "fd" \in Names /\ env' = [env EXCEPT ![p]["fd"] = key']
    BY <1>3 DEF Calls!MsggetCall, Shapes, Names, Calls!MaxFd
  <2> QED
    BY <2>1, EnvShape
<1>5. ProcOK'
  BY <1>1, <1>2, <1>4 DEF Shapes, ProcOK, Calls!counts
<1>6. \A q \in asleep : Calls!At(q, "msgrcv")'
  <2> TAKE q \in asleep
  <2>1. Calls!At(q, "msgrcv") /\ q # p /\ q \in Calls!Process
    BY <1>1 DEF Shapes, QueueOK
  <2> QED
    BY <1>1, <1>2, <2>1 DEF Calls!At, Calls!Call, Calls!cfg
<1>7. QueueOK'
  BY <1>1, <1>3, <1>6 DEF Shapes, QueueOK
<1> QED
  BY <1>1, <1>5, <1>7 DEF Shapes, FixOK, BufOK, LinkOK, Calls!cfg, Calls!counts, Calls!channels, Calls!fifos,
    Calls!sockets

\* A step at the queue that is there.
LEMMA QueueAfter ==
  ASSUME QueueOK, key \in Calls!Queue, NEW s \in Seq(Parcel)
  PROVE  [queue EXCEPT ![key] = s] \in [Calls!Queue -> Seq(Parcel)]
BY DEF QueueOK

\* What is printed goes to the terminal.
LEMMA PrintedShape ==
  ASSUME BufOK, NEW type, NEW msg \in Calls!Message
  PROVE  /\ Calls!Printed(type, msg) \in [Calls!Channel -> Seq(Calls!Message)]
         /\ \A c \in Calls!Channel : c > Calls!File => Len(Calls!Printed(type, msg)[c]) <= Cap
<1> HIDE DEF Calls!Message
<1> DEFINE b == [buf EXCEPT ![Calls!Terminal] = Append(@, msg)]
<1>1. Calls!Terminal \in Calls!Channel /\ ~(Calls!Terminal > Calls!File)
        /\ buf \in [Calls!Channel -> Seq(Calls!Message)]
  BY DEF Calls!Terminal, Calls!File, Calls!Channel, BufOK
<1>2. Append(buf[Calls!Terminal], msg) \in Seq(Calls!Message)
  BY <1>1
<1>3. b \in [Calls!Channel -> Seq(Calls!Message)] /\ \A c \in Calls!Channel \ {Calls!Terminal} : b[c] = buf[c]
  BY <1>1, <1>2
<1>4. \A c \in Calls!Channel : c > Calls!File => Len(b[c]) <= Cap
  BY <1>1, <1>3 DEF BufOK
<1> QED
  BY <1>1, <1>3, <1>4 DEF Calls!Printed, BufOK

LEMMA MsgsndShape ==
  ASSUME Shapes, NEW p \in Calls!Process, Calls!MsgsndCall(p), key \in Calls!Queue, Calls!Call(p).type \in 1 .. 2,
         sent[p] + 1 <= MaxLines + 3
  PROVE  Shapes'
<1> DEFINE type == Calls!Call(p).type
           msg == <<role[p], sent[p] + 1>>
           sleepers == {q \in asleep : Calls!Msqid(q) = key /\ Calls!Matches(q, type)}
<1>1. /\ life[p] = "alive" /\ ~Calls!At(p, "msgrcv") /\ sent' = [sent EXCEPT ![p] = @ + 1]
      /\ UNCHANGED <<Calls!cfg, life, role, env, fd, got, round, used, Calls!fifos, Calls!sockets, key, made,
           failed>>
  BY DEF Calls!MsgsndCall, Calls!At
<1>2. msg \in Calls!Message /\ sent' \in [Calls!Process -> 0 .. MaxLines + 3]
  <2>1. sent \in [Calls!Process -> 0 .. MaxLines + 3] /\ role[p] \in Calls!Role /\ MaxLines \in Nat
    BY ProcessesAssumption DEF Shapes, ProcOK, Calls!UnixAssumption
  <2>2. sent[p] + 1 \in 1 .. MaxLines + 3
    BY <2>1
  <2> QED
    BY <1>1, <2>1, <2>2 DEF Calls!Message
<1> HIDE DEF msg
<1>3. CASE \E q \in sleepers : /\ upc' = [upc EXCEPT ![p] = @ + 1, ![q] = @ + 1] /\ asleep' = asleep \ {q}
                              /\ buf' = Calls!Printed(type, msg) /\ UNCHANGED queue
  <2>1. PICK q \in asleep : /\ upc' = [upc EXCEPT ![p] = @ + 1, ![q] = @ + 1] /\ asleep' = asleep \ {q}
                            /\ buf' = Calls!Printed(type, msg) /\ UNCHANGED queue
    BY <1>3
  <2>2. q \in Calls!Process /\ q # p
    BY <1>1 DEF Shapes, QueueOK
  <2>3. upc' \in [Calls!Process -> Nat] /\ \A i \in Calls!Process \ {p, q} : upc'[i] = upc[i]
    <3>1. upc \in [Calls!Process -> Nat] /\ upc' = [upc EXCEPT ![p] = upc[p] + 1, ![q] = upc[q] + 1]
      BY <2>1, <2>2 DEF Shapes, ProcOK
    <3> QED
      BY <3>1, <2>2
  <2>4. ProcOK'
    BY <1>1, <1>2, <2>3 DEF Shapes, ProcOK
  <2>5. \A i \in asleep' : Calls!At(i, "msgrcv")'
    <3> TAKE i \in asleep'
    <3>1. Calls!At(i, "msgrcv") /\ i # p /\ i # q /\ i \in Calls!Process
      BY <1>1, <2>1 DEF Shapes, QueueOK
    <3> QED
      BY <1>1, <2>3, <3>1 DEF Calls!At, Calls!Call, Calls!cfg
  <2>6. QueueOK'
    BY <1>1, <2>1, <2>5 DEF Shapes, QueueOK
  <2>7. BufOK'
    BY <1>2, <2>1, PrintedShape DEF Shapes, BufOK
  <2> QED
    BY <1>1, <2>4, <2>6, <2>7 DEF Shapes, FixOK, LinkOK, Calls!cfg, Calls!fifos, Calls!sockets
<1>4. CASE /\ queue' = [queue EXCEPT ![key] = Append(@, [type |-> type, msg |-> msg])]
           /\ Calls!Step(p) /\ UNCHANGED <<buf, asleep>>
  <2>1. upc' \in [Calls!Process -> Nat] /\ \A i \in Calls!Process \ {p} : upc'[i] = upc[i]
    BY <1>4 DEF Calls!Step, Shapes, ProcOK
  <2>2. ProcOK'
    BY <1>1, <1>2, <2>1 DEF Shapes, ProcOK
  <2>3. queue' \in [Calls!Queue -> Seq(Parcel)]
    <3>1. [type |-> type, msg |-> msg] \in Parcel
      BY <1>2 DEF Parcel
    <3>2. queue[key] \in Seq(Parcel) /\ QueueOK
      BY DEF Shapes, QueueOK
    <3>3. Append(queue[key], [type |-> type, msg |-> msg]) \in Seq(Parcel)
      BY <3>1, <3>2
    <3> QED
      BY <1>4, <3>2, <3>3, QueueAfter
  <2>4. \A i \in asleep : Calls!At(i, "msgrcv")'
    <3> TAKE i \in asleep
    <3>1. Calls!At(i, "msgrcv") /\ i # p /\ i \in Calls!Process
      BY <1>1 DEF Shapes, QueueOK
    <3> QED
      BY <1>1, <2>1, <3>1 DEF Calls!At, Calls!Call, Calls!cfg
  <2>5. QueueOK'
    BY <1>1, <1>4, <2>3, <2>4 DEF Shapes, QueueOK
  <2> QED
    BY <1>1, <1>4, <2>2, <2>5 DEF Shapes, FixOK, BufOK, LinkOK, Calls!cfg, Calls!fifos, Calls!sockets
<1> QED
  BY <1>3, <1>4 DEF Calls!MsgsndCall, msg

\* A sequence without one of its elements.
LEMMA SeqWithout ==
  ASSUME NEW set, NEW s \in Seq(set), NEW i \in DOMAIN s
  PROVE  SubSeq(s, 1, i - 1) \o SubSeq(s, i + 1, Len(s)) \in Seq(set) /\ s[i] \in set
<1>1. i \in 1 .. Len(s) /\ Len(s) \in Nat /\ s[i] \in set
  OBVIOUS
<1>2. SubSeq(s, 1, i - 1) \in Seq(set)
  <2>1. \A j \in 1 .. i - 1 : s[j] \in set
    BY <1>1
  <2> QED
    BY <1>1, <2>1, SubSeqProperties
<1>3. SubSeq(s, i + 1, Len(s)) \in Seq(set)
  <2>1. \A j \in i + 1 .. Len(s) : j \in 1 .. Len(s)
    BY <1>1
  <2> QED
    BY <1>1, <2>1, ElementOfSeq, SubSeqProperties
<1> QED
  BY <1>1, <1>2, <1>3

LEMMA MsgrcvShape ==
  ASSUME Shapes, NEW p \in Calls!Process, Calls!MsgrcvCall(p), key \in Calls!Queue
  PROVE  Shapes'
<1> DEFINE fits == {i \in DOMAIN queue[key] : Calls!Matches(p, queue[key][i].type)}
<1>1. /\ life[p] = "alive" /\ p \notin asleep /\ Calls!At(p, "msgrcv")
      /\ UNCHANGED <<Calls!cfg, life, role, env, fd, Calls!counts, used, Calls!fifos, Calls!sockets, key, made,
           failed>>
  BY DEF Calls!MsgrcvCall, Calls!At
<1>2. queue[key] \in Seq(Parcel) /\ QueueOK
  BY DEF Shapes, QueueOK
<1>3. CASE /\ fits # {} /\ Calls!Step(p) /\ UNCHANGED asleep
           /\ buf' = Calls!Printed(queue[key][Calls!Least(fits)].type, queue[key][Calls!Least(fits)].msg)
           /\ queue' = [queue EXCEPT ![key] = SubSeq(@, 1, Calls!Least(fits) - 1) \o SubSeq(@,
                Calls!Least(fits) + 1, Len(@))]
  <2> DEFINE i == Calls!Least(fits)
  <2>1. i \in DOMAIN queue[key]
    <3>1. PICK j \in fits : \A k \in fits : j <= k
      <4>1. fits \in SUBSET Nat
        BY <1>2
      <4> QED
        BY <1>3, <4>1, LowestNat
    <3>2. fits \in SUBSET Nat
      BY <1>2
    <3>3. Calls!Least(fits) = j
      BY <3>1, <3>2, LeastIs
    <3> QED
      BY <3>1, <3>3, Zenon
  <2> HIDE DEF i
  <2>2. queue[key][i] \in Parcel /\ SubSeq(queue[key], 1, i - 1) \o SubSeq(queue[key], i + 1,
          Len(queue[key])) \in Seq(Parcel)
    BY <1>2, <2>1, SeqWithout, Zenon
  <2>3. queue' \in [Calls!Queue -> Seq(Parcel)]
    BY <1>2, <1>3, <2>2, QueueAfter, Zenon DEF i
  <2>4. BufOK'
    <3>1. queue[key][i].msg \in Calls!Message
      BY <2>2, Zenon DEF Parcel
    <3> QED
      BY <1>3, <3>1, PrintedShape, Zenon DEF i, Shapes, BufOK
  <2>5. upc' \in [Calls!Process -> Nat] /\ \A q \in Calls!Process \ {p} : upc'[q] = upc[q]
    BY <1>3 DEF Calls!Step, Shapes, ProcOK
  <2>6. ProcOK'
    BY <1>1, <2>5 DEF Shapes, ProcOK, Calls!counts
  <2>7. \A q \in asleep : Calls!At(q, "msgrcv")'
    <3> TAKE q \in asleep
    <3>1. Calls!At(q, "msgrcv") /\ q # p /\ q \in Calls!Process
      BY <1>1, Zenon DEF Shapes, QueueOK
    <3> QED
      BY <1>1, <2>5, <3>1 DEF Calls!At, Calls!Call, Calls!cfg
  <2>8. QueueOK'
    BY <1>1, <1>3, <2>3, <2>7 DEF Shapes, QueueOK
  <2> QED
    BY <1>1, <2>4, <2>6, <2>8 DEF Shapes, FixOK, LinkOK, Calls!cfg, Calls!counts, Calls!fifos, Calls!sockets
<1>4. CASE fits = {} /\ asleep' = asleep \cup {p} /\ UNCHANGED <<upc, buf, queue>>
  <2>1. ProcOK'
    BY <1>1, <1>4 DEF Shapes, ProcOK, Calls!counts
  <2>2. \A q \in asleep' : Calls!At(q, "msgrcv")'
    <3> TAKE q \in asleep'
    <3>1. Calls!At(q, "msgrcv") /\ q \in Calls!Process
      BY <1>1, <1>4 DEF Shapes, QueueOK
    <3> QED
      BY <1>1, <1>4, <3>1 DEF Calls!At, Calls!Call, Calls!cfg
  <2>3. QueueOK'
    BY <1>1, <1>4, <2>2 DEF Shapes, QueueOK
  <2> QED
    BY <1>1, <1>4, <2>1, <2>3 DEF Shapes, FixOK, BufOK, LinkOK, Calls!cfg, Calls!counts, Calls!fifos, Calls!sockets
<1> QED
  BY <1>3, <1>4, Zenon DEF Calls!MsgrcvCall

LEMMA RmidShape ==
  ASSUME Shapes, NEW p \in Calls!Process, Calls!RmidCall(p), key \in Calls!Queue
  PROVE  Shapes'
<1>1. /\ life[p] = "alive" /\ ~Calls!At(p, "msgrcv") /\ key' = 0 /\ queue' = [queue EXCEPT ![key] = <<>>]
      /\ UNCHANGED <<Calls!cfg, life, role, env, fd, Calls!counts, Calls!channels, Calls!fifos, Calls!sockets,
           made, asleep, failed>>
  BY DEF Calls!RmidCall, Calls!At
<1>2. upc' \in [Calls!Process -> Nat] /\ \A q \in Calls!Process \ {p} : upc'[q] = upc[q]
  BY DEF Calls!RmidCall, Calls!Step, Shapes, ProcOK
<1>3. ProcOK'
  BY <1>1, <1>2 DEF Shapes, ProcOK, Calls!counts
<1>4. \A q \in asleep : Calls!At(q, "msgrcv")'
  <2> TAKE q \in asleep
  <2>1. Calls!At(q, "msgrcv") /\ q # p /\ q \in Calls!Process
    BY <1>1 DEF Shapes, QueueOK
  <2> QED
    BY <1>1, <1>2, <2>1 DEF Calls!At, Calls!Call, Calls!cfg
<1>5. queue' \in [Calls!Queue -> Seq(Parcel)]
  <2>1. <<>> \in Seq(Parcel) /\ QueueOK
    BY DEF Shapes
  <2> QED
    BY <1>1, <2>1, QueueAfter
<1>6. QueueOK'
  BY <1>1, <1>4, <1>5 DEF Shapes, QueueOK
<1> QED
  BY <1>1, <1>3, <1>6 DEF Shapes, FixOK, BufOK, LinkOK, Calls!cfg, Calls!counts, Calls!channels, Calls!fifos,
    Calls!sockets

-----------------------------------------------------------------------------
\* Every call keeps the processes where they should be.
\* A step to the next call.
LEMMA StepsOn ==
  ASSUME Everywhere, Shapes, NEW p \in Calls!Process, life[p] = "alive", upc[p] >= 1, Calls!Step(p),
           Calls!cfg' = Calls!cfg,
         UNCHANGED <<life, role>>,
         \A q \in Calls!Process \ {p} : env'[q] = env[q] /\ fd'[q] = fd[q] /\ sent'[q] = sent[q]
              /\ got'[q] = got[q],
         Here(exercise, role[p], upc[p] + 1, env'[p], fd'[p], sent'[p], got'[p], lines)
  PROVE  /\ \A q \in Calls!Process : Good(q)'
         /\ (First(Calls!Main)' => First(Calls!Main) /\ p # Calls!Main) /\ (First(Calls!Other)'
              => First(Calls!Other) /\ p # Calls!Other)
<1> DEFINE j == upc[p] + 1
<1>1. j \in Nat /\ j > 1 /\ upc' = [upc EXCEPT ![p] = j] /\ ProcOK
  BY DEF Calls!Step, Shapes, ProcOK
<1> HIDE DEF j
<1>2. Here(exercise, role[p], j, env'[p], fd'[p], sent'[p], got'[p], lines)
  BY DEF j
<1>3. /\ \A q \in Calls!Process : Good(q)'
      /\ (First(Calls!Main)' => First(Calls!Main) /\ (j = 1 \/ p # Calls!Main))
      /\ (First(Calls!Other)' => First(Calls!Other) /\ (j = 1 \/ p # Calls!Other))
  BY <1>1, <1>2, OneMoves
<1> QED
  BY <1>1, <1>3

\* The same, when nothing is created.
LEMMA NextPlace ==
  ASSUME Everywhere, Shapes, NEW p \in Calls!Process, life[p] = "alive", upc[p] >= 1, Calls!Step(p),
           Calls!cfg' = Calls!cfg,
         UNCHANGED <<life, role, used, key, made>>,
         \A q \in Calls!Process \ {p} : env'[q] = env[q] /\ fd'[q] = fd[q] /\ sent'[q] = sent[q]
              /\ got'[q] = got[q],
         Here(exercise, role[p], upc[p] + 1, env'[p], fd'[p], sent'[p], got'[p], lines)
  PROVE  Everywhere'
<1>1. upc[p] + 1 \in Nat /\ upc[p] + 1 > 1 /\ upc' = [upc EXCEPT ![p] = upc[p] + 1] /\ ProcOK
  BY DEF Calls!Step, Shapes, ProcOK
<1> QED
  BY <1>1, OneMovesOn

\* Call by call.
LEMMA RedirectMoves ==
  ASSUME Shapes, Everywhere, exercise # Thrice, NEW p \in Calls!Process, Calls!Redirect(p)
  PROVE  Everywhere'
<1> DEFINE e == exercise
           r == role[p]
           k == upc[p]
<1>1. /\ Calls!Step(p)
      /\ UNCHANGED <<Calls!cfg, life, role, env, Calls!counts, Calls!channels, Calls!fifos, Calls!sockets,
           Calls!queues, failed>>
  BY DEF Calls!Redirect
<1>2. PICK op \in {"close", "dup", "dup2"} : Calls!At(p, op)
  BY DEF Calls!Redirect
<1>3. /\ e \in Calls!Exercise \ {Thrice} /\ r \in Runs(e) /\ k \in DOMAIN Calls!Program(e, r) /\ k >= 1
      /\ Here(e, r, k, env[p], fd[p], sent[p], got[p], lines) /\ Calls!Program(e, r)[k].op = op
      /\ life[p] = "alive" /\ sent[p] \in Nat /\ got[p] \in Nat /\ lines \in Nat
  BY <1>2, AtFacts
<1>4. fd = [q \in Calls!Process |-> fd[q]]
  BY DEF Shapes, ProcOK
<1>5. CASE op = "close"
  <2>1. fd' = [fd EXCEPT ![p] = Calls!Without(p, Calls!Fd(p, Calls!Call(p).f))]
    BY <1>2, <1>5 DEF Calls!Redirect, Calls!At
  <2>2. fd'[p] = Drop(fd[p], env[p][Calls!Program(e, r)[k].f]) /\ \A q \in Calls!Process \ {p} : fd'[q] = fd[q]
    BY <1>4, <2>1 DEF Calls!Without, Drop, Calls!Fd, Calls!Call
  <2>3. Here(e, r, k + 1, env[p], fd'[p], sent[p], got[p], lines)
    <3>1. Here(e, r, k + 1, env[p], Drop(fd[p], env[p][Calls!Program(e, r)[k].f]), sent[p], got[p], lines)
      BY <1>3, <1>5, Closes, Zenon
    <3> QED
      BY <2>2, <3>1, Zenon
  <2> QED
    BY <1>1, <1>3, <2>2, <2>3, NextPlace DEF Calls!counts, Calls!channels, Calls!queues
<1>6. CASE op \in {"dup", "dup2"}
  <2> DEFINE i == IF Calls!Program(e,
        r)[k].op = "dup" THEN Calls!Least((0 .. Calls!MaxFd) \ DOMAIN fd[p]) ELSE env[p][Calls!Program(e, r)[k].g]
             j == env[p][Calls!Program(e, r)[k].f]
  <2>1. Calls!Holds(p, Calls!Call(p).f) /\ fd' = [fd EXCEPT ![p] = Calls!With(p, i, fd[p][j])]
    <3>1. CASE op = "dup"
      BY <1>2, <1>3, <3>1 DEF Calls!Redirect, Calls!At, Calls!Fd, Calls!Call, Calls!Free
    <3>2. CASE op = "dup2"
      BY <1>2, <1>3, <3>2, Zenon DEF Calls!Redirect, Calls!At, Calls!Fd, Calls!Call
    <3> QED
      BY <1>6, <3>1, <3>2
  <2>2. fd'[p] = Put(fd[p], i, fd[p][j]) /\ \A q \in Calls!Process \ {p} : fd'[q] = fd[q]
    BY <1>4, <2>1, Zenon DEF Calls!With, Put
  <2>3. j \in DOMAIN fd[p]
    BY <2>1 DEF Calls!Holds, Calls!Fd, Calls!Call
  <2>4. Here(e, r, k + 1, env[p], fd'[p], sent[p], got[p], lines)
    <3> HIDE DEF e, r, k
    <3>1. i = IF Calls!Program(e,
            r)[k].op = "dup" THEN Calls!Least((0 .. Calls!MaxFd) \ DOMAIN fd[p]) ELSE env[p][Calls!Program(e,
            r)[k].g]
      OBVIOUS
    <3> HIDE DEF i
    <3>2. Calls!Program(e, r)[k].op \in {"dup", "dup2"} /\ env[p][Calls!Program(e, r)[k].f] \in DOMAIN fd[p]
      BY <1>3, <1>6, <2>3
    <3>3. Here(e, r, k + 1, env[p], Put(fd[p], i, fd[p][env[p][Calls!Program(e, r)[k].f]]), sent[p], got[p], lines)
      BY <1>3, <3>1, <3>2, Copies
    <3> QED
      BY <2>2, <3>3
  <2> QED
    BY <1>1, <1>3, <2>2, <2>4, NextPlace DEF Calls!counts, Calls!channels, Calls!queues
<1> QED
  BY <1>5, <1>6

LEMMA CreatMoves ==
  ASSUME Shapes, Everywhere, exercise # Thrice, NEW p \in Calls!Process, Calls!CreatCall(p)
  PROVE  Everywhere' /\ Calls!Free(p) \in 0 .. Calls!MaxFd
<1> DEFINE e == exercise
           r == role[p]
           k == upc[p]
           a == Calls!Free(p)
           d == [in |-> 0, out |-> Calls!File]
<1>1. /\ Calls!Step(p) /\ Calls!At(p, "creat")
      /\ UNCHANGED <<Calls!cfg, life, role, Calls!counts, Calls!channels, Calls!fifos, Calls!sockets,
           Calls!queues, failed>>
      /\ env' = [env EXCEPT ![p]["fd"] = a] /\ fd' = [fd EXCEPT ![p] = Calls!With(p, a, d)]
  BY DEF Calls!CreatCall
<1>2. /\ e \in Calls!Exercise \ {Thrice} /\ r \in Runs(e) /\ k \in DOMAIN Calls!Program(e, r) /\ k >= 1
      /\ Here(e, r, k, env[p], fd[p], sent[p], got[p], lines) /\ Calls!Program(e, r)[k].op = "creat"
      /\ life[p] = "alive" /\ sent[p] \in Nat /\ got[p] \in Nat /\ lines \in Nat /\ DOMAIN env[p] = Names
  BY <1>1, AtFacts
<1>3. fd = [q \in Calls!Process |-> fd[q]] /\ env \in [Calls!Process -> [Names -> -1 .. Calls!MaxFd]]
  BY DEF Shapes, ProcOK
<1>4. env'[p] = [env[p] EXCEPT !["fd"] = a] /\ \A q \in Calls!Process \ {p} : env'[q] = env[q]
  BY <1>1, <1>3
<1>5. fd'[p] = Put(fd[p], a, d) /\ \A q \in Calls!Process \ {p} : fd'[q] = fd[q]
  BY <1>1, <1>3 DEF Calls!With, Put
<1>6. Carries(d, "f")
  BY DEF Carries, Calls!Descriptor, Calls!File
<1>7. Here(e, r, k + 1, env'[p], fd'[p], sent[p], got[p], lines) /\ a \in 3 .. 4
  <2>1. a = Calls!Least((0 .. Calls!MaxFd) \ DOMAIN fd[p])
    BY DEF Calls!Free
  <2> HIDE DEF e, r, k, a, d
  <2>2. Here(e, r, k + 1, [env[p] EXCEPT !["fd"] = a], Put(fd[p], a, d), sent[p], got[p], lines) /\ a \in 3 .. 4
    BY <1>2, <1>6, <2>1, Opening
  <2> QED
    BY <1>4, <1>5, <2>2
<1> QED
  BY <1>1, <1>2, <1>4, <1>5, <1>7, NextPlace DEF Calls!counts, Calls!channels, Calls!queues, Calls!MaxFd

LEMMA ReadFileMoves ==
  ASSUME Shapes, Everywhere, exercise # Thrice, NEW p \in Calls!Process, Calls!ReadFileCall(p)
  PROVE  Everywhere'
<1>1. /\ Calls!Step(p) /\ Calls!At(p, "readfile")
      /\ UNCHANGED <<Calls!cfg, life, role, env, fd, Calls!counts, used, Calls!fifos, Calls!sockets,
           Calls!queues, failed>>
  BY DEF Calls!ReadFileCall
<1>2. Here(exercise, role[p], upc[p] + 1, env[p], fd[p], sent[p], got[p], lines) /\ life[p] = "alive" /\ upc[p] >= 1
  BY <1>1, AtFacts, GoesToNext DEF Kept
<1> QED
  BY <1>1, <1>2, NextPlace DEF Calls!counts, Calls!queues

LEMMA EndsMoves ==
  ASSUME Shapes, Everywhere, NEW p \in Calls!Process, life[p] = "alive", NEW bad, Calls!Ends(p, bad),
         UNCHANGED <<Calls!cfg, sent, got, used, key, made>>
  PROVE  Everywhere'
<1>1. /\ life'[p] # "alive" /\ UNCHANGED <<role, upc, env>>
      /\ \A q \in Calls!Process \ {p} : (life'[q] = "alive") = (life[q] = "alive") /\ fd'[q] = fd[q]
  BY EndsFor DEF Shapes
<1>2. \A q \in Calls!Process : Good(q)'
  <2> TAKE q \in Calls!Process
  <2>1. CASE q = p
    BY <1>1, <2>1 DEF Good
  <2>2. CASE q # p
    BY <1>1, <2>2, Kept2 DEF Everywhere, Calls!cfg
  <2> QED
    BY <2>1, <2>2
<1>3. (First(Calls!Main)' => First(Calls!Main)) /\ (First(Calls!Other)' => First(Calls!Other))
  <2>1. Calls!Main \in Calls!Process /\ Calls!Other \in Calls!Process
    BY DEF Calls!Process
  <2> QED
    BY <1>1, <2>1 DEF First
<1> QED
  BY <1>2, <1>3, UsedKept DEF Everywhere, Calls!cfg

LEMMA ReturnMoves ==
  ASSUME Shapes, Everywhere, NEW p \in Calls!Process, Calls!Return(p)
  PROVE  Everywhere'
<1>1. life[p] = "alive" /\ Calls!Ends(p, FALSE) /\ UNCHANGED <<Calls!cfg, Calls!counts, Calls!channels,
        Calls!fifos, Calls!queues>>
  BY DEF Calls!Return
<1> QED
  BY <1>1, EndsMoves DEF Calls!counts, Calls!channels, Calls!queues

LEMMA FailsMoves == ASSUME Shapes, Everywhere, NEW p \in Calls!Process, Calls!Fails(p) PROVE Everywhere'
<1>1. life[p] = "alive" /\ Calls!Ends(p, TRUE) /\ UNCHANGED <<Calls!cfg, Calls!counts, Calls!channels,
        Calls!fifos, key, made, queue>>
  BY DEF Calls!Fails, Calls!At
<1> QED
  BY <1>1, EndsMoves DEF Calls!counts, Calls!channels

LEMMA WaitMoves ==
  ASSUME Shapes, Everywhere, exercise # Thrice, NEW p \in Calls!Process, Calls!WaitCall(p)
  PROVE  Everywhere'
<1>1. /\ Calls!Step(p) /\ Calls!At(p, "wait") /\ UNCHANGED <<Calls!cfg, role, env, fd, Calls!counts,
           Calls!channels, Calls!fifos, Calls!sockets, Calls!queues, failed>>
      /\ \A q \in Calls!Process : life'[q] = life[q] \/ (life[q] = "zombie" /\ life'[q] = "none")
  BY DEF Calls!WaitCall, Shapes, ProcOK
<1>2. Here(exercise, role[p], upc[p] + 1, env[p], fd[p], sent[p], got[p], lines) /\ life[p] = "alive"
        /\ upc[p] \in Nat
      /\ upc[p] >= 1
  BY <1>1, AtFacts, GoesToNext DEF Kept
<1>3. upc'[p] = upc[p] + 1 /\ \A q \in Calls!Process \ {p} : upc'[q] = upc[q]
  BY <1>1 DEF Calls!Step, Shapes, ProcOK
<1>4. \A q \in Calls!Process : Good(q)'
  <2> TAKE q \in Calls!Process
  <2>1. Good(q) /\ UNCHANGED <<exercise, lines, role, env, fd, sent, got>>
    BY <1>1 DEF Everywhere, Calls!counts, Calls!cfg
  <2>2. CASE q = p
    BY <1>2, <1>3, <2>1, <2>2 DEF Good
  <2>3. CASE q # p
    BY <1>1, <1>3, <2>1, <2>3, Kept2
  <2> QED
    BY <2>2, <2>3
<1>5. (First(Calls!Main)' => First(Calls!Main)) /\ (First(Calls!Other)' => First(Calls!Other))
  <2>1. Calls!Main \in Calls!Process /\ Calls!Other \in Calls!Process
    BY Zenon DEF Calls!Process
  <2> QED
    BY <1>1, <1>2, <1>3, <2>1 DEF First
<1> QED
  BY <1>1, <1>4, <1>5, UsedKept DEF Everywhere, Calls!cfg, Calls!channels, Calls!queues

LEMMA WriteMoves ==
  ASSUME Shapes, Everywhere, exercise # Thrice, NEW p \in Calls!Process, Calls!WriteCall(p)
  PROVE  Everywhere' /\ sent[p] + 1 <= MaxLines + 3
<1> DEFINE e == exercise
           r == role[p]
           k == upc[p]
           last == Calls!Call(p).n = "one" \/ sent[p] + 1 = lines
<1>1. Calls!At(p, "write") /\ UNCHANGED <<Calls!cfg, got, round, used, Calls!fifos, Calls!queues>>
  BY Zenon DEF Calls!WriteCall
<1>2. /\ e \in Calls!Exercise \ {Thrice} /\ r \in Runs(e) /\ k \in DOMAIN Calls!Program(e, r) /\ k >= 1 /\ k \in Nat
      /\ Here(e, r, k, env[p], fd[p], sent[p], got[p], lines) /\ Calls!Program(e, r)[k].op = "write"
      /\ life[p] = "alive" /\ sent[p] \in Nat /\ got[p] \in Nat /\ lines \in Nat
  BY <1>1, AtFacts
<1>3. /\ (last => Here(e, r, k + 1, env[p], fd[p], sent[p] + 1, got[p], lines))
      /\ (~last => Here(e, r, k, env[p], fd[p], sent[p] + 1, got[p], lines))
      /\ (sent[p] + 1 <= lines \/ sent[p] + 1 <= 3)
  BY <1>2, WritesOne DEF Calls!Call
<1>4. sent[p] + 1 <= MaxLines + 3
  BY <1>2, <1>3, ProcessesAssumption DEF Shapes, FixOK, Calls!UnixAssumption
<1>5. CASE Calls!Ends(p, TRUE) /\ UNCHANGED <<buf, sent>>
  BY <1>1, <1>2, <1>4, <1>5, EndsMoves DEF Calls!queues
<1>6. CASE /\ sent' = [sent EXCEPT ![p] = @ + 1] /\ upc' = [upc EXCEPT ![p] = IF last THEN @ + 1 ELSE @]
           /\ UNCHANGED <<life, role, env, fd, Calls!sockets, failed>>
  <2> DEFINE j == IF last THEN k + 1 ELSE k
  <2>1. upc' = [upc EXCEPT ![p] = j] /\ j \in Nat /\ (j > 1 \/ j = upc[p])
    BY <1>2, <1>6
  <2>2. sent'[p] = sent[p] + 1 /\ \A q \in Calls!Process \ {p} : sent'[q] = sent[q]
    BY <1>6 DEF Shapes, ProcOK
  <2>3. Here(e, r, j, env'[p], fd'[p], sent'[p], got'[p], lines)
    BY <1>1, <1>3, <1>6, <2>2
  <2> HIDE DEF j, last
  <2>4. ProcOK /\ UNCHANGED <<used, key, made>>
    BY <1>1 DEF Shapes, Calls!queues
  <2>5. Everywhere'
    <3>1. Calls!cfg' = Calls!cfg /\ life' = life /\ role' = role
          /\ \A q \in Calls!Process \ {p} : env'[q] = env[q] /\ fd'[q] = fd[q] /\ sent'[q] = sent[q]
               /\ got'[q] = got[q]
      BY <1>1, <1>6, <2>2
    <3> QED
      BY <1>2, <2>1, <2>3, <2>4, <3>1, OneMovesOn
  <2> QED
    BY <1>4, <2>5
<1> QED
  BY <1>5, <1>6, Zenon DEF Calls!WriteCall

LEMMA CopyMoves ==
  ASSUME Shapes, Everywhere, exercise # Thrice, NEW p \in Calls!Process, Calls!CopyCall(p)
  PROVE  /\ Everywhere' /\ fd[p][Calls!Fd(p, Calls!Call(p).f)].in \in 3 .. 5 /\ fd[p][Calls!Fd(p,
              Calls!Call(p).g)].out \in {Calls!Terminal, Calls!File}
         /\ (Calls!Call(p).n = "lines" => got[p] + 1 <= MaxLines)
<1> DEFINE e == exercise
           r == role[p]
           k == upc[p]
           n == Calls!Call(p).n
           last == n = "one" \/ (n = "lines" /\ got[p] + 1 = lines)
<1>1. Calls!At(p, "copy") /\ UNCHANGED <<Calls!cfg, life, role, env, fd, sent, round, used, Calls!fifos,
        Calls!sockets, Calls!queues>>
  BY Zenon DEF Calls!CopyCall
<1>2. /\ e \in Calls!Exercise \ {Thrice} /\ r \in Runs(e) /\ k \in DOMAIN Calls!Program(e, r) /\ k >= 1 /\ k \in Nat
      /\ Here(e, r, k, env[p], fd[p], sent[p], got[p], lines) /\ Calls!Program(e, r)[k].op = "copy"
      /\ life[p] = "alive" /\ sent[p] \in Nat /\ got[p] \in Nat /\ lines \in Nat
  BY <1>1, AtFacts
<1>3. Here(e, r, k + 1, env[p], fd[p], sent[p], got[p], lines)
  BY <1>2, GoesToNext DEF Kept
<1>4. n = "lines" => /\ Here(e, r, k + 1, env[p], fd[p], sent[p], got[p] + 1, lines) /\ got[p] + 1 <= lines
                     /\ (got[p] + 1 # lines => Here(e, r, k, env[p], fd[p], sent[p], got[p] + 1, lines))
  BY <1>2, ReadsOne, Zenon DEF Calls!Call
<1>5. fd[p][Calls!Fd(p, Calls!Call(p).f)].in \in 3 .. 5 /\ fd[p][Calls!Fd(p,
        Calls!Call(p).g)].out \in {Calls!Terminal, Calls!File}
  BY <1>2, ReadsFrom DEF Calls!Call, Calls!Fd
<1>6. n = "lines" => got[p] + 1 <= MaxLines
  BY <1>2, <1>4, ProcessesAssumption DEF Shapes, FixOK, Calls!UnixAssumption
<1>7. ProcOK /\ UNCHANGED <<used, key, made>>
  BY <1>1 DEF Shapes, Calls!queues
<1>8. CASE /\ got' = [got EXCEPT ![p] = IF n = "lines" THEN @ + 1 ELSE @]
           /\ upc' = [upc EXCEPT ![p] = IF last THEN @ + 1 ELSE @]
  <2> DEFINE j == IF last THEN k + 1 ELSE k
             t == IF n = "lines" THEN got[p] + 1 ELSE got[p]
  <2>1. upc' = [upc EXCEPT ![p] = j] /\ j \in Nat /\ (j > 1 \/ j = upc[p])
    BY <1>2, <1>8
  <2>2. got'[p] = t /\ \A q \in Calls!Process \ {p} : got'[q] = got[q]
    BY <1>8 DEF Shapes, ProcOK
  <2>3. Here(e, r, j, env[p], fd[p], sent[p], t, lines)
    <3>1. CASE n = "lines"
      BY <1>4, <3>1
    <3>2. CASE n # "lines"
      BY <1>2, <1>3, <3>2
    <3> QED
      BY <3>1, <3>2
  <2>4. Here(e, r, j, env'[p], fd'[p], sent'[p], got'[p], lines)
    BY <1>1, <2>2, <2>3
  <2> HIDE DEF j, last, t
  <2>5. /\ Calls!cfg' = Calls!cfg /\ life' = life /\ role' = role
        /\ \A q \in Calls!Process \ {p} : env'[q] = env[q] /\ fd'[q] = fd[q] /\ sent'[q] = sent[q]
             /\ got'[q] = got[q]
    BY <1>1, <2>2
  <2>6. Everywhere'
    BY <1>2, <1>7, <2>1, <2>4, <2>5, OneMovesOn
  <2> QED
    BY <1>5, <1>6, <2>6
<1>9. CASE Calls!Step(p) /\ UNCHANGED <<buf, got, failed>>
  <2>1. Everywhere'
    BY <1>1, <1>2, <1>3, <1>7, <1>9, NextPlace
  <2> QED
    BY <1>5, <1>6, <2>1
<1> QED
  BY <1>8, <1>9, Zenon DEF Calls!CopyCall

LEMMA ExecMoves ==
  ASSUME Shapes, Everywhere, exercise # Thrice, NEW p \in Calls!Process, Calls!ExecCall(p)
  PROVE  Everywhere' /\ Calls!Call(p).program \in Calls!Role
<1> DEFINE e == exercise
           r == role[p]
           k == upc[p]
           q == Calls!Program(e, r)[k].program
<1>1. Calls!At(p, "exec") /\ UNCHANGED <<Calls!cfg, life, env, fd, got, round, Calls!channels, Calls!fifos,
        Calls!sockets, Calls!queues>>
  BY DEF Calls!ExecCall
<1>2. /\ e \in Calls!Exercise \ {Thrice} /\ r \in Runs(e) /\ k \in DOMAIN Calls!Program(e, r) /\ k >= 1 /\ k \in Nat
      /\ Here(e, r, k, env[p], fd[p], sent[p], got[p], lines) /\ Calls!Program(e, r)[k].op = "exec"
      /\ life[p] = "alive" /\ sent[p] \in Nat /\ got[p] \in Nat /\ lines \in Nat \ {0}
  BY <1>1, AtFacts
<1>3. q \in {"child", "child2", "reader", "printer"} /\ Here(e, q, 1, env[p], fd[p], 0, got[p], lines)
  <2>1. q = Calls!Program(e, r)[k].program
    OBVIOUS
  <2> HIDE DEF e, r, k, q
  <2> QED
    BY <1>2, <2>1, BeginsWith
<1>4. Calls!Call(p).program \in Calls!Role
  BY <1>3 DEF Calls!Call, Calls!Role
<1>5. CASE role' = [role EXCEPT ![p] = Calls!Call(p).program] /\ upc' = [upc EXCEPT ![p] = 1]
             /\ sent' = [sent EXCEPT ![p] = 0]
  <2>1. /\ role'[p] = q /\ upc'[p] = 1 /\ sent'[p] = 0
        /\ \A i \in Calls!Process \ {p} : role'[i] = role[i] /\ upc'[i] = upc[i] /\ sent'[i] = sent[i]
    BY <1>5 DEF Shapes, ProcOK, Calls!Call
  <2>2. \A i \in Calls!Process : Good(i)'
    <3> TAKE i \in Calls!Process
    <3>1. CASE i = p
      BY <1>1, <1>3, <2>1, <3>1 DEF Good, Calls!cfg
    <3>2. CASE i # p
      <4>1. Good(i)
        BY DEF Everywhere
      <4> QED
        BY <1>1, <2>1, <3>2, <4>1, Kept2 DEF Calls!cfg
    <3> QED
      BY <3>1, <3>2
  <2>3. (First(Calls!Main)' => First(Calls!Main)) /\ (First(Calls!Other)' => First(Calls!Other))
    <3>1. Calls!Main \in Calls!Process /\ Calls!Other \in Calls!Process /\ q \notin {"main", "other"}
      BY <1>3 DEF Calls!Process
    <3> HIDE DEF q
    <3> QED
      BY <1>1, <2>1, <3>1 DEF First
  <2>4. Everywhere'
    BY <1>1, <2>2, <2>3, UsedKept DEF Everywhere, Calls!cfg, Calls!channels, Calls!queues
  <2> QED
    BY <1>4, <2>4
<1>6. CASE Calls!Step(p) /\ UNCHANGED <<role, sent>>
  <2>1. Here(e, r, k + 1, env[p], fd[p], sent[p], got[p], lines)
    BY <1>2, GoesToNext DEF Kept
  <2> QED
    BY <1>1, <1>2, <1>4, <1>6, <2>1, NextPlace DEF Calls!channels, Calls!queues
<1> QED
  BY <1>5, <1>6 DEF Calls!ExecCall

LEMMA ForkMoves ==
  ASSUME Shapes, Everywhere, exercise # Thrice, NEW p \in Calls!Process, Calls!ForkCall(p)
  PROVE  Everywhere' /\ Calls!Call(p).child \in Calls!Role /\ (Calls!Call(p).fail # Calls!TheEnd
           => Calls!Call(p).fail \in Nat)
<1> DEFINE e == exercise
           r == role[p]
           k == upc[p]
           c == Calls!Program(e, r)[k].child
<1>1. Calls!At(p, "fork") /\ UNCHANGED <<Calls!cfg, Calls!channels, Calls!fifos, Calls!queues>>
  BY DEF Calls!ForkCall
<1>2. /\ e \in Calls!Exercise \ {Thrice} /\ r \in Runs(e) /\ k \in DOMAIN Calls!Program(e, r) /\ k >= 1 /\ k \in Nat
      /\ Here(e, r, k, env[p], fd[p], sent[p], got[p], lines) /\ Calls!Program(e, r)[k].op = "fork"
      /\ life[p] = "alive" /\ sent[p] \in Nat /\ got[p] \in Nat /\ lines \in Nat \ {0}
  BY <1>1, AtFacts
<1>3. c \in {"child", "child2", "reader", "printer"} /\ Here(e, c, 1, env[p], fd[p], 0, 0, lines)
  BY <1>2, BeginsWith
<1>4. Here(e, r, k + 1, env[p], fd[p], sent[p], got[p], lines)
  BY <1>2, GoesToNext DEF Kept
<1>5. Calls!Call(p).child \in Calls!Role /\ Calls!Call(p).fail \in {Calls!TheEnd, k + 1}
  BY <1>2, <1>3, CallFacts DEF Calls!Call, Calls!Role, Sits
<1>6. CASE \E q \in {q \in Calls!Child : life[q] # "alive" /\ life[q] # "zombie"} :
             /\ life' = [life EXCEPT ![q] = "alive"]
             /\ role' = [role EXCEPT ![q] = Calls!Call(p).child]
             /\ upc' = [upc EXCEPT ![p] = @ + 1, ![q] = 1]
             /\ env' = [env EXCEPT ![q] = env[p]]
             /\ fd' = [fd EXCEPT ![q] = fd[p]]
             /\ sent' = [sent EXCEPT ![q] = 0]
             /\ got' = [got EXCEPT ![q] = 0]
  <2>1. PICK q \in Calls!Child :
             /\ life[q] # "alive" /\ life' = [life EXCEPT ![q] = "alive"]
             /\ role' = [role EXCEPT ![q] = Calls!Call(p).child]
             /\ upc' = [upc EXCEPT ![p] = @ + 1, ![q] = 1]
             /\ env' = [env EXCEPT ![q] = env[p]]
             /\ fd' = [fd EXCEPT ![q] = fd[p]]
             /\ sent' = [sent EXCEPT ![q] = 0]
             /\ got' = [got EXCEPT ![q] = 0]
    BY <1>6
  <2>2. q \in Calls!Process /\ q # p /\ q # Calls!Main /\ q # Calls!Other
    BY <1>2, <2>1 DEF Calls!Process, Calls!Child, Calls!Main, Calls!Other
  <2>3. /\ role'[q] = c /\ env'[q] = env[p] /\ fd'[q] = fd[p] /\ sent'[q] = 0 /\ got'[q] = 0
        /\ \A i \in Calls!Process \ {q} : /\ life'[i] = life[i] /\ role'[i] = role[i] /\ env'[i] = env[i]
             /\ fd'[i] = fd[i]
                                    /\ sent'[i] = sent[i] /\ got'[i] = got[i]
    BY <2>1, <2>2 DEF Shapes, ProcOK, Calls!Call
  <2>4. upc'[q] = 1 /\ upc'[p] = k + 1 /\ \A i \in Calls!Process \ {p, q} : upc'[i] = upc[i]
    <3>1. upc \in [Calls!Process -> Nat] /\ upc' = [upc EXCEPT ![p] = k + 1, ![q] = 1]
      BY <2>1 DEF Shapes, ProcOK
    <3> QED
      BY <2>2, <3>1
  <2> HIDE DEF c
  <2>5. \A i \in Calls!Process : Good(i)'
    <3> TAKE i \in Calls!Process
    <3>1. CASE i = q
      BY <1>1, <1>3, <2>3, <2>4, <3>1 DEF Good, Calls!cfg
    <3>2. CASE i = p
      <4>1. Good(p)
        BY DEF Everywhere
      <4> QED
        BY <1>1, <1>2, <1>4, <2>2, <2>3, <2>4, <3>2, <4>1 DEF Good, Calls!cfg
    <3>3. CASE i # p /\ i # q
      <4>1. Good(i)
        BY DEF Everywhere
      <4> QED
        BY <1>1, <2>3, <2>4, <3>3, <4>1, Kept2 DEF Calls!cfg
    <3> QED
      BY <3>1, <3>2, <3>3
  <2>6. (First(Calls!Main)' => First(Calls!Main)) /\ (First(Calls!Other)' => First(Calls!Other))
    <3>1. Calls!Main \in Calls!Process /\ Calls!Other \in Calls!Process /\ k + 1 # 1
      BY <1>2 DEF Calls!Process
    <3> QED
      BY <2>2, <2>3, <2>4, <3>1 DEF First
  <2>7. Everywhere'
    BY <1>1, <2>5, <2>6, UsedKept DEF Everywhere, Calls!cfg, Calls!channels, Calls!queues
  <2> QED
    BY <1>2, <1>5, <2>7
<1>7. CASE Calls!Call(p).fail # Calls!TheEnd /\ upc' = [upc EXCEPT ![p] = Calls!Call(p).fail]
             /\ UNCHANGED <<life, role, env, fd, Calls!counts>>
  <2>1. Calls!Step(p) /\ Calls!Call(p).fail \in Nat
    <3>1. Calls!Call(p).fail = k + 1
      BY <1>5, <1>7
    <3>2. upc' = [upc EXCEPT ![p] = k + 1]
      BY <1>7, <3>1
    <3> QED
      BY <1>2, <3>1, <3>2 DEF Calls!Step
  <2> QED
    BY <1>1, <1>2, <1>4, <1>5, <1>7, <2>1, NextPlace DEF Calls!channels, Calls!queues, Calls!counts
<1>8. CASE Calls!Ends(p, TRUE) /\ UNCHANGED Calls!counts
  <2>1. Everywhere'
    BY <1>1, <1>2, <1>8, EndsMoves DEF Calls!counts, Calls!channels, Calls!queues
  <2> QED
    BY <1>2, <1>5, <2>1
<1> QED
  BY <1>6, <1>7, <1>8 DEF Calls!ForkCall

LEMMA PipeMoves ==
  ASSUME Shapes, Everywhere, exercise # Thrice, NEW p \in Calls!Process, Calls!PipeCall(p)
  PROVE  /\ Everywhere' /\ used <= 4 /\ Calls!Free(p) \in 0 .. Calls!MaxFd
         /\ Calls!Least((0 .. Calls!MaxFd) \ (DOMAIN fd[p] \cup {Calls!Free(p)})) \in 0 .. Calls!MaxFd
<1> DEFINE e == exercise
           r == role[p]
           k == upc[p]
           c == used + 1
           d1 == [in |-> c, out |-> 0]
           d2 == [in |-> 0, out |-> c]
<1>1. Calls!At(p, "pipe") /\ Calls!Step(p) /\ UNCHANGED <<Calls!cfg, life, role, Calls!counts, buf,
        Calls!fifos, Calls!sockets, Calls!queues, failed>> /\ used' = c
  BY DEF Calls!PipeCall
<1>2. /\ e \in Calls!Exercise \ {Thrice} /\ r \in Runs(e) /\ k \in DOMAIN Calls!Program(e, r) /\ k >= 1 /\ k \in Nat
      /\ Here(e, r, k, env[p], fd[p], sent[p], got[p], lines) /\ Calls!Program(e, r)[k].op = "pipe"
      /\ life[p] = "alive" /\ sent[p] \in Nat /\ got[p] \in Nat /\ lines \in Nat /\ DOMAIN env[p] = Names
  BY <1>1, AtFacts
<1>3. e \in Piped /\ r = "main" /\ k = 1 /\ p = Calls!Main /\ First(Calls!Main) /\ used = 2
  <2>1. e \in Piped /\ r = "main" /\ k = 1 /\ p = Calls!Main
    BY <1>1, <1>2, CallFacts, AtFacts DEF Sits
  <2> QED
    BY <1>2, <2>1 DEF First, Everywhere, UsedOK
<1>4. Carries(d1, "r") /\ Carries(d2, "w")
  BY <1>3, Ends2
<1>5. Calls!Free(p) = Calls!Least((0 .. Calls!MaxFd) \ DOMAIN fd[p])
  BY DEF Calls!Free
<1> HIDE DEF e, r, k, d1, d2
<1>6. /\ Calls!Least((0 .. Calls!MaxFd) \ DOMAIN fd[p]) = 3
           /\ Calls!Least((0 .. Calls!MaxFd) \ (DOMAIN fd[p] \cup {3})) = 4
      /\ Here(e, r, k + 1, [env[p] EXCEPT !["r"] = 3, !["w"] = 4], Put(Put(fd[p], 3, d1), 4, d2), sent[p],
           got[p], lines)
  BY <1>2, <1>4, Piping
<1>7. Calls!Free(p) = 3 /\ Calls!Least((0 .. Calls!MaxFd) \ (DOMAIN fd[p] \cup {Calls!Free(p)})) = 4
  BY <1>5, <1>6
<1>8. env' = [env EXCEPT ![p]["r"] = 3, ![p]["w"] = 4]
  BY <1>7 DEF Calls!PipeCall
<1>9. fd' = [fd EXCEPT ![p] = [m \in DOMAIN @ \cup {3, 4} |->
               IF m = 3 THEN d1 ELSE IF m = 4 THEN d2 ELSE @[m]]]
  BY <1>7 DEF Calls!PipeCall, d1, d2
<1>10. fd = [q \in Calls!Process |-> fd[q]] /\ env \in [Calls!Process -> [Names -> -1 .. Calls!MaxFd]]
  BY DEF Shapes, ProcOK
<1>11. env'[p] = [env[p] EXCEPT !["r"] = 3, !["w"] = 4] /\ \A q \in Calls!Process \ {p} : env'[q] = env[q]
  BY <1>8, <1>10
<1>12. fd'[p] = Put(Put(fd[p], 3, d1), 4, d2) /\ \A q \in Calls!Process \ {p} : fd'[q] = fd[q]
  <2>1. fd'[p] = [m \in DOMAIN fd[p] \cup {3, 4} |-> IF m = 3 THEN d1 ELSE IF m = 4 THEN d2 ELSE fd[p][m]]
    BY <1>9, <1>10
  <2>2. \A q \in Calls!Process \ {p} : fd'[q] = fd[q]
    BY <1>9, <1>10
  <2> QED
    BY <2>1, <2>2 DEF Put
<1>13. Here(e, r, k + 1, env'[p], fd'[p], sent'[p], got'[p], lines)
  <2>1. sent' = sent /\ got' = got
    BY <1>1 DEF Calls!counts
  <2> QED
    BY <1>6, <1>11, <1>12, <2>1
<1>14. (\A q \in Calls!Process : Good(q)') /\ ~First(Calls!Main)' /\ (First(Calls!Other)' => First(Calls!Other))
  <2>1. Calls!cfg' = Calls!cfg /\ UNCHANGED <<life, role>>
        /\ \A q \in Calls!Process \ {p} : env'[q] = env[q] /\ fd'[q] = fd[q] /\ sent'[q] = sent[q]
             /\ got'[q] = got[q]
    BY <1>1, <1>11, <1>12 DEF Calls!counts
  <2> QED
    BY <1>1, <1>2, <1>3, <1>13, <2>1, StepsOn DEF e, r, k
<1>15. UsedOK'
  <2>1. exercise' = exercise /\ exercise \notin Fifos /\ exercise \notin Sockets /\ used' = 3
          /\ UNCHANGED <<key, made>>
    BY <1>1, <1>3 DEF e, Piped, Fifos, Sockets, Calls!cfg, Calls!queues
  <2> QED
    BY <1>3, <1>14, <2>1 DEF UsedOK, Everywhere
<1> QED
  BY <1>3, <1>7, <1>14, <1>15 DEF Everywhere, Calls!MaxFd

LEMMA FifoMoves ==
  ASSUME Shapes, Everywhere, exercise # Thrice, NEW p \in Calls!Process, Calls!Fifo(p)
  PROVE  /\ Everywhere' /\ (Calls!At(p, "open") => Calls!Call(p).end \in {"r", "w"}
              /\ Calls!Free(p) \in 0 .. Calls!MaxFd)
         /\ (Calls!At(p, "mkfifo") => used <= 4)
<1> DEFINE e == exercise
           r == role[p]
           k == upc[p]
<1>1. Calls!Step(p) /\ UNCHANGED <<Calls!cfg, life, role, Calls!counts, buf, Calls!sockets, Calls!queues, failed>>
  BY DEF Calls!Fifo
<1>2. PICK op \in {"mkfifo", "open", "opened", "unlink"} : Calls!At(p, op)
  BY DEF Calls!Fifo
<1>3. /\ e \in Calls!Exercise \ {Thrice} /\ r \in Runs(e) /\ k \in DOMAIN Calls!Program(e, r) /\ k >= 1
      /\ Here(e, r, k, env[p], fd[p], sent[p], got[p], lines) /\ Calls!Program(e, r)[k].op = op
      /\ life[p] = "alive" /\ sent[p] \in Nat /\ got[p] \in Nat /\ lines \in Nat /\ DOMAIN env[p] = Names
      /\ (r = "main" => p = Calls!Main) /\ (r = "other" => p = Calls!Other)
  BY <1>2, AtFacts
<1>4. Sits(e, r, k)
  BY <1>3, CallFacts
<1>5. fd = [q \in Calls!Process |-> fd[q]] /\ env \in [Calls!Process -> [Names -> -1 .. Calls!MaxFd]]
        /\ named \in {0} \cup (3 .. 5)
  BY DEF Shapes, ProcOK, LinkOK
<1>6. \A a, b : Calls!At(p, a) /\ Calls!At(p, b) => a = b
  BY DEF Calls!At
<1>7. CASE op = "mkfifo"
  <2>1. e \in Fifos /\ First(p) /\ p \in {Calls!Main, Calls!Other} /\ used <= 4
    <3>1. e \in Fifos /\ First(p) /\ p \in {Calls!Main, Calls!Other}
      BY <1>3, <1>4, <1>7 DEF Sits, First
    <3> QED
      BY <3>1 DEF Everywhere, UsedOK
  <2>2. UNCHANGED <<env, fd, met>> /\ used' \in {used, used + 1}
    BY <1>2, <1>6, <1>7 DEF Calls!Fifo
  <2>3. Here(e, r, k + 1, env[p], fd[p], sent[p], got[p], lines)
    BY <1>3, <1>7, GoesToNext DEF Kept
  <2>4. /\ \A q \in Calls!Process : Good(q)'
        /\ (First(Calls!Main)' => First(Calls!Main) /\ p # Calls!Main) /\ (First(Calls!Other)'
             => First(Calls!Other) /\ p # Calls!Other)
    BY <1>1, <1>3, <2>2, <2>3, StepsOn DEF Calls!counts
  <2>5. exercise' = exercise /\ exercise \notin Piped /\ exercise \notin Sockets /\ UNCHANGED <<key, made>>
          /\ used \in 2 .. 5
    BY <1>1, <2>1 DEF Piped, Fifos, Sockets, Calls!cfg, Calls!queues, Shapes, LinkOK
  <2>6. UsedOK'
    BY <2>1, <2>2, <2>4, <2>5 DEF UsedOK, Everywhere, Calls!Main, Calls!Other
  <2> QED
    BY <1>2, <1>6, <1>7, <2>1, <2>4, <2>6 DEF Everywhere
<1>8. CASE op = "open"
  <2> DEFINE a == Calls!Free(p)
             end == Calls!Program(e, r)[k].end
             d == IF end = "r" THEN [in |-> named, out |-> 0] ELSE [in |-> 0, out |-> named]
  <2>1. /\ named # 0 /\ env' = [env EXCEPT ![p]["fd"] = a] /\ fd' = [fd EXCEPT ![p] = Calls!With(p, a, d)]
             /\ used' = used
    BY <1>2, <1>6, <1>8 DEF Calls!Fifo, Calls!Call
  <2>2. end \in {"r", "w"}
    BY <1>3, <1>4, <1>8 DEF Sits
  <2>3. Carries(d, end)
    BY <1>5, <2>1, <2>2, Ends2
  <2>4. env'[p] = [env[p] EXCEPT !["fd"] = a] /\ \A q \in Calls!Process \ {p} : env'[q] = env[q]
    BY <1>5, <2>1
  <2>5. fd'[p] = Put(fd[p], a, d) /\ \A q \in Calls!Process \ {p} : fd'[q] = fd[q]
    BY <1>5, <2>1 DEF Calls!With, Put
  <2>6. a = Calls!Least((0 .. Calls!MaxFd) \ DOMAIN fd[p])
    BY DEF Calls!Free
  <2>7. end = Calls!Program(e, r)[k].end
    OBVIOUS
  <2>8. Here(e, r, k + 1, [env[p] EXCEPT !["fd"] = a], Put(fd[p], a, d), sent[p], got[p], lines) /\ a \in 3 .. 4
    <3> HIDE DEF e, r, k, a, d, end
    <3>1. /\ Calls!Program(e, r)[k].op \in {"creat", "open", "connect", "accept"}
          /\ Calls!Program(e, r)[k].op = "creat" => end = "f"
          /\ Calls!Program(e, r)[k].op = "open" => end = Calls!Program(e, r)[k].end
          /\ Calls!Program(e, r)[k].op = "connect" => end = "a"
          /\ Calls!Program(e, r)[k].op = "accept" => end = "s"
      BY <1>3, <1>8, <2>7
    <3> QED
      BY <1>3, <2>3, <2>6, <3>1, Opening, ZenonT(40)
  <2>9. Everywhere'
    <3>1. Here(e, r, k + 1, env'[p], fd'[p], sent'[p], got'[p], lines)
      BY <1>1, <2>4, <2>5, <2>8 DEF Calls!counts
    <3> QED
      BY <1>1, <1>3, <2>1, <2>4, <2>5, <3>1, NextPlace DEF Calls!counts, Calls!queues
  <2> QED
    BY <1>2, <1>6, <1>8, <2>2, <2>8, <2>9 DEF Calls!Call, Calls!MaxFd
<1>9. CASE op \in {"opened", "unlink"}
  <2>1. UNCHANGED <<env, fd, used>>
    BY <1>2, <1>6, <1>9 DEF Calls!Fifo
  <2>2. Here(e, r, k + 1, env[p], fd[p], sent[p], got[p], lines)
    BY <1>3, <1>9, GoesToNext DEF Kept
  <2>3. Everywhere'
    BY <1>1, <1>3, <2>1, <2>2, NextPlace DEF Calls!counts, Calls!queues
  <2> QED
    BY <1>2, <1>6, <1>9, <2>3
<1> QED
  BY <1>7, <1>8, <1>9

LEMMA SocketMoves ==
  ASSUME Shapes, Everywhere, exercise # Thrice, NEW p \in Calls!Process, Calls!Socket(p)
  PROVE  /\ Everywhere' /\ (Calls!At(p, "connect") \/ Calls!At(p, "accept") => Calls!Free(p) \in 0 .. Calls!MaxFd)
         /\ (Calls!At(p, "connect") => used = 2)
<1> DEFINE e == exercise
           r == role[p]
           k == upc[p]
           a == Calls!Free(p)
<1>1. Calls!Step(p) /\ UNCHANGED <<Calls!cfg, life, role, Calls!counts, buf, Calls!fifos, Calls!queues, failed>>
  BY DEF Calls!Socket
<1>2. PICK op \in {"listen", "connect", "accept"} : Calls!At(p, op)
  BY DEF Calls!Socket
<1>3. /\ e \in Calls!Exercise \ {Thrice} /\ r \in Runs(e) /\ k \in DOMAIN Calls!Program(e, r) /\ k >= 1
      /\ Here(e, r, k, env[p], fd[p], sent[p], got[p], lines) /\ Calls!Program(e, r)[k].op = op
      /\ life[p] = "alive" /\ sent[p] \in Nat /\ got[p] \in Nat /\ lines \in Nat /\ DOMAIN env[p] = Names
      /\ (r = "main" => p = Calls!Main) /\ (r = "other" => p = Calls!Other)
  BY <1>2, AtFacts
<1>4. Sits(e, r, k)
  BY <1>3, CallFacts
<1>5. fd = [q \in Calls!Process |-> fd[q]] /\ env \in [Calls!Process -> [Names -> -1 .. Calls!MaxFd]]
        /\ backlog \in Seq({3})
  BY DEF Shapes, ProcOK, LinkOK
<1>6. \A i, j : Calls!At(p, i) /\ Calls!At(p, j) => i = j
  BY DEF Calls!At
<1>7. CASE op = "listen"
  <2>1. UNCHANGED <<env, fd, used>>
    BY <1>2, <1>6, <1>7 DEF Calls!Socket
  <2>2. Here(e, r, k + 1, env[p], fd[p], sent[p], got[p], lines)
    BY <1>3, <1>7, GoesToNext DEF Kept
  <2>3. Everywhere'
    BY <1>1, <1>3, <2>1, <2>2, NextPlace DEF Calls!counts, Calls!queues
  <2> QED
    BY <1>2, <1>6, <1>7, <2>3
<1>8. ASSUME NEW d, NEW b, Carries(d, b), op = "connect" => b = "a", op = "accept" => b = "s",
               op \in {"connect", "accept"},
             env' = [env EXCEPT ![p]["fd"] = a], fd' = [fd EXCEPT ![p] = Calls!With(p, a, d)]
      PROVE  /\ Here(e, r, k + 1, env'[p], fd'[p], sent'[p], got'[p], lines) /\ a \in 3 .. 4
             /\ \A q \in Calls!Process \ {p} : env'[q] = env[q] /\ fd'[q] = fd[q] /\ sent'[q] = sent[q]
                  /\ got'[q] = got[q]
  <2>1. env'[p] = [env[p] EXCEPT !["fd"] = a] /\ \A q \in Calls!Process \ {p} : env'[q] = env[q]
    BY <1>5, <1>8
  <2>2. fd'[p] = Put(fd[p], a, d) /\ \A q \in Calls!Process \ {p} : fd'[q] = fd[q]
    BY <1>5, <1>8 DEF Calls!With, Put
  <2>3. a = Calls!Least((0 .. Calls!MaxFd) \ DOMAIN fd[p])
    BY DEF Calls!Free
  <2>4. Here(e, r, k + 1, [env[p] EXCEPT !["fd"] = a], Put(fd[p], a, d), sent[p], got[p], lines) /\ a \in 3 .. 4
    <3> HIDE DEF e, r, k, a
    <3> QED
      BY <1>3, <1>8, <2>3, Opening, ZenonT(40)
  <2> QED
    BY <1>1, <2>1, <2>2, <2>4 DEF Calls!counts
<1>9. CASE op = "connect"
  <2> DEFINE d == [in |-> used + 2, out |-> used + 1]
  <2>1. /\ env' = [env EXCEPT ![p]["fd"] = a] /\ fd' = [fd EXCEPT ![p] = Calls!With(p, a, d)] /\ used' = used + 2
    BY <1>2, <1>6, <1>9 DEF Calls!Socket
  <2>2. e \in Sockets /\ First(Calls!Other) /\ p = Calls!Other /\ used = 2
    <3>1. e \in Sockets /\ First(Calls!Other) /\ p = Calls!Other
      BY <1>3, <1>4, <1>9 DEF Sits, First
    <3> QED
      BY <3>1 DEF Everywhere, UsedOK
  <2>3. Carries(d, "a")
    <3>1. d.in = 4 /\ d \in Calls!Descriptor
      BY <2>2 DEF Calls!Descriptor
    <3> HIDE DEF d
    <3> QED
      BY <3>1 DEF Carries
  <2> HIDE DEF d
  <2>4. /\ Here(e, r, k + 1, env'[p], fd'[p], sent'[p], got'[p], lines) /\ a \in 3 .. 4
        /\ \A q \in Calls!Process \ {p} : env'[q] = env[q] /\ fd'[q] = fd[q] /\ sent'[q] = sent[q]
             /\ got'[q] = got[q]
    BY <1>8, <1>9, <2>1, <2>3
  <2>5. /\ \A q \in Calls!Process : Good(q)'
        /\ (First(Calls!Main)' => First(Calls!Main) /\ p # Calls!Main) /\ (First(Calls!Other)'
             => First(Calls!Other) /\ p # Calls!Other)
    BY <1>1, <1>3, <2>4, StepsOn
  <2>6. UsedOK'
    <3>1. exercise' = exercise /\ exercise \notin Piped /\ exercise \notin Fifos /\ used' = 4
            /\ UNCHANGED <<key, made>>
      BY <1>1, <2>1, <2>2 DEF Piped, Fifos, Sockets, Calls!cfg, Calls!queues
    <3> QED
      BY <2>2, <2>5, <3>1 DEF UsedOK, Everywhere
  <2> QED
    BY <2>2, <2>4, <2>5, <2>6 DEF Everywhere, Calls!MaxFd
<1>10. CASE op = "accept"
  <2> DEFINE d == [in |-> Head(backlog), out |-> Head(backlog) + 1]
  <2>1. /\ env' = [env EXCEPT ![p]["fd"] = a] /\ fd' = [fd EXCEPT ![p] = Calls!With(p, a, d)] /\ used' = used
             /\ backlog # <<>>
    BY <1>2, <1>6, <1>10 DEF Calls!Socket
  <2>2. Carries(d, "s")
    <3>1. Head(backlog) = 3
      <4>1. Head(backlog) \in {3}
        BY <1>5, <2>1
      <4> QED
        BY <4>1
    <3>2. d.in = 3 /\ d \in Calls!Descriptor
      BY <3>1 DEF Calls!Descriptor
    <3> HIDE DEF d
    <3> QED
      BY <3>2 DEF Carries
  <2> HIDE DEF d
  <2>3. /\ Here(e, r, k + 1, env'[p], fd'[p], sent'[p], got'[p], lines) /\ a \in 3 .. 4
        /\ \A q \in Calls!Process \ {p} : env'[q] = env[q] /\ fd'[q] = fd[q] /\ sent'[q] = sent[q]
             /\ got'[q] = got[q]
    BY <1>8, <1>10, <2>1, <2>2
  <2>4. Everywhere'
    BY <1>1, <1>3, <2>1, <2>3, NextPlace DEF Calls!queues
  <2> QED
    BY <1>2, <1>6, <1>10, <2>3, <2>4 DEF Calls!MaxFd
<1> QED
  BY <1>7, <1>9, <1>10

LEMMA MsggetMoves ==
  ASSUME Shapes, Everywhere, exercise # Thrice, NEW p \in Calls!Process, Calls!MsggetCall(p)
  PROVE  Everywhere' /\ (key = 0 => made <= 1)
<1> DEFINE e == exercise
           r == role[p]
           k == upc[p]
<1>1. /\ Calls!Step(p) /\ Calls!At(p, "msgget") /\ env' = [env EXCEPT ![p]["fd"] = key']
      /\ key' = (IF key # 0 THEN key ELSE made + 1) /\ made' = (IF key # 0 THEN made ELSE made + 1)
      /\ UNCHANGED <<Calls!cfg, life, role, fd, Calls!counts, Calls!channels, Calls!fifos, Calls!sockets,
           queue, asleep, failed>>
  BY DEF Calls!MsggetCall
<1>2. /\ e \in Calls!Exercise \ {Thrice} /\ r \in Runs(e) /\ k \in DOMAIN Calls!Program(e, r) /\ k >= 1
      /\ Here(e, r, k, env[p], fd[p], sent[p], got[p], lines) /\ Calls!Program(e, r)[k].op = "msgget"
      /\ life[p] = "alive" /\ sent[p] \in Nat /\ got[p] \in Nat /\ lines \in Nat /\ DOMAIN env[p] = Names
      /\ (r = "main" => p = Calls!Main) /\ (r = "other" => p = Calls!Other)
  BY <1>1, AtFacts
<1>3. e \in Queues /\ First(p) /\ p \in {Calls!Main, Calls!Other}
  BY <1>2, CallFacts DEF Sits, First
<1>4. /\ made <= 1 /\ (First(Calls!Main) => key = made) /\ key \in 0 .. 2 /\ made \in 0 .. 2
  BY <1>3 DEF Everywhere, UsedOK, Shapes, QueueOK
<1>5. key' \in Calls!Queue
  BY <1>1, <1>4 DEF Calls!Queue
<1>6. env'[p] = [env[p] EXCEPT !["fd"] = key'] /\ \A q \in Calls!Process \ {p} : env'[q] = env[q]
  BY <1>1 DEF Shapes, ProcOK
<1>7. Here(e, r, k + 1, env'[p], fd'[p], sent'[p], got'[p], lines)
  <2> DEFINE q == key'
  <2> HIDE DEF e, r, k, q
  <2>1. Here(e, r, k + 1, [env[p] EXCEPT !["fd"] = q], fd[p], sent[p], got[p], lines)
    BY <1>2, <1>5, GetsQueue DEF q
  <2> QED
    BY <1>1, <1>6, <2>1 DEF q, Calls!counts
<1>8. /\ \A q \in Calls!Process : Good(q)'
      /\ (First(Calls!Main)' => First(Calls!Main) /\ p # Calls!Main) /\ (First(Calls!Other)'
           => First(Calls!Other) /\ p # Calls!Other)
  BY <1>1, <1>2, <1>6, <1>7, StepsOn DEF Calls!counts
<1>9. UsedOK'
  <2>1. exercise' = exercise /\ exercise \notin Piped /\ exercise \notin Fifos /\ exercise \notin Sockets
    BY <1>1, <1>3 DEF Piped, Fifos, Sockets, Queues, Calls!cfg
  <2>2. (First(Calls!Main)' => key' = made') /\ (First(Calls!Main)' \/ First(Calls!Other)' => made' <= 1)
    BY <1>1, <1>3, <1>4, <1>8
  <2> QED
    BY <2>1, <2>2 DEF UsedOK
<1> QED
  BY <1>4, <1>8, <1>9 DEF Everywhere

\* The queue that a process uses.
LEMMA KeyIsQueue ==
  ASSUME Shapes, Everywhere, exercise # Thrice, NEW p \in Calls!Process, NEW op \in {"msgsnd", "msgrcv", "rmid"},
         Calls!At(p, op), Calls!Msqid(p) = key
  PROVE  key \in Calls!Queue /\ (op = "rmid" => p = Calls!Main /\ ~First(Calls!Main))
<1>1. /\ exercise \in Calls!Exercise \ {Thrice} /\ role[p] \in Runs(exercise)
      /\ upc[p] \in DOMAIN Calls!Program(exercise, role[p])
      /\ Here(exercise, role[p], upc[p], env[p], fd[p], sent[p], got[p], lines)
      /\ Calls!Program(exercise, role[p])[upc[p]].op = op /\ (role[p] = "main" => p = Calls!Main)
  BY AtFacts
<1>2. /\ exercise \in Queues /\ role[p] \in {"main", "other"} /\ upc[p] # 1 /\ upc[p] \in Nat /\ upc[p] >= 1
      /\ (op = "rmid" => role[p] = "main")
  BY <1>1, CallFacts DEF Sits
<1>3. env[p]["fd"] \in Calls!Queue
  BY <1>1, <1>2 DEF Here, KeyFits
<1> QED
  BY <1>1, <1>2, <1>3 DEF Calls!Msqid, First

LEMMA RmidMoves ==
  ASSUME Shapes, Everywhere, exercise # Thrice, NEW p \in Calls!Process, Calls!RmidCall(p)
  PROVE  Everywhere' /\ key \in Calls!Queue
<1>1. /\ Calls!Step(p) /\ Calls!At(p, "rmid") /\ Calls!Msqid(p) = key
      /\ UNCHANGED <<Calls!cfg, life, role, env, fd, Calls!counts, Calls!channels, Calls!fifos, Calls!sockets,
           made, asleep, failed>>
  BY DEF Calls!RmidCall
<1>2. Here(exercise, role[p], upc[p] + 1, env[p], fd[p], sent[p], got[p], lines) /\ life[p] = "alive" /\ upc[p] >= 1
  BY <1>1, AtFacts, GoesToNext DEF Kept
<1>3. key \in Calls!Queue /\ p = Calls!Main /\ ~First(Calls!Main)
  BY <1>1, KeyIsQueue
<1>4. /\ \A q \in Calls!Process : Good(q)'
      /\ (First(Calls!Main)' => First(Calls!Main) /\ p # Calls!Main) /\ (First(Calls!Other)'
           => First(Calls!Other) /\ p # Calls!Other)
  BY <1>1, <1>2, StepsOn DEF Calls!counts
<1>5. UsedOK'
  BY <1>1, <1>3, <1>4 DEF UsedOK, Everywhere, Calls!cfg, Calls!channels, First
<1> QED
  BY <1>3, <1>4, <1>5 DEF Everywhere

LEMMA MsgrcvMoves ==
  ASSUME Shapes, Everywhere, exercise # Thrice, NEW p \in Calls!Process, Calls!MsgrcvCall(p)
  PROVE  Everywhere' /\ key \in Calls!Queue
<1>1. /\ Calls!At(p, "msgrcv") /\ Calls!Msqid(p) = key /\ (Calls!Step(p) \/ UNCHANGED upc)
      /\ UNCHANGED <<Calls!cfg, life, role, env, fd, Calls!counts, used, Calls!fifos, Calls!sockets, key, made,
           failed>>
  BY DEF Calls!MsgrcvCall
<1>2. /\ Here(exercise, role[p], upc[p] + 1, env[p], fd[p], sent[p], got[p], lines) /\ life[p] = "alive"
           /\ upc[p] >= 1
  BY <1>1, AtFacts, GoesToNext DEF Kept
<1>3. key \in Calls!Queue
  BY <1>1, KeyIsQueue
<1>4. CASE Calls!Step(p)
  BY <1>1, <1>2, <1>3, <1>4, NextPlace DEF Calls!counts
<1>5. CASE UNCHANGED upc
  <2>1. \A q \in Calls!Process : Good(q)'
    BY <1>1, <1>5, Kept2 DEF Calls!counts, Calls!cfg, Everywhere
  <2>2. (First(Calls!Main)' => First(Calls!Main)) /\ (First(Calls!Other)' => First(Calls!Other))
    BY <1>1, <1>5 DEF First
  <2> QED
    BY <1>1, <1>3, <2>1, <2>2, UsedKept DEF Everywhere, Calls!cfg
<1> QED
  BY <1>1, <1>4, <1>5, Zenon

LEMMA MsgsndMoves ==
  ASSUME Shapes, Everywhere, exercise # Thrice, NEW p \in Calls!Process, Calls!MsgsndCall(p)
  PROVE  /\ Everywhere' /\ key \in Calls!Queue /\ Calls!Call(p).type \in 1 .. 2 /\ sent[p] + 1 <= MaxLines + 3
<1> DEFINE e == exercise
           r == role[p]
           k == upc[p]
<1>1. /\ Calls!At(p, "msgsnd") /\ Calls!Msqid(p) = key /\ sent' = [sent EXCEPT ![p] = @ + 1]
      /\ UNCHANGED <<Calls!cfg, life, role, env, fd, got, round, used, Calls!fifos, Calls!sockets, key, made,
           failed>>
  BY DEF Calls!MsgsndCall
<1>2. /\ e \in Calls!Exercise \ {Thrice} /\ r \in Runs(e) /\ k \in DOMAIN Calls!Program(e, r) /\ k >= 1 /\ k \in Nat
      /\ Here(e, r, k, env[p], fd[p], sent[p], got[p], lines) /\ Calls!Program(e, r)[k].op = "msgsnd"
      /\ life[p] = "alive" /\ sent[p] \in Nat /\ got[p] \in Nat /\ lines \in Nat
  BY <1>1, AtFacts
<1>3. Here(e, r, k + 1, env[p], fd[p], sent[p] + 1, got[p], lines) /\ (sent[p] + 1 <= lines \/ sent[p] + 1 <= 3)
  BY <1>2, WritesOne
<1>4. sent[p] + 1 <= MaxLines + 3
  BY <1>2, <1>3, ProcessesAssumption DEF Shapes, FixOK, Calls!UnixAssumption
<1>5. key \in Calls!Queue /\ Calls!Call(p).type \in 1 .. 2
  BY <1>1, <1>2, KeyIsQueue, CallFacts DEF Calls!Call, Sits
<1>6. sent'[p] = sent[p] + 1 /\ \A i \in Calls!Process \ {p} : sent'[i] = sent[i]
  BY <1>1 DEF Shapes, ProcOK
<1>7. Here(e, r, k + 1, env'[p], fd'[p], sent'[p], got'[p], lines)
  BY <1>1, <1>3, <1>6
<1>8. CASE Calls!Step(p)
  <2>1. Everywhere'
    BY <1>1, <1>2, <1>6, <1>7, <1>8, NextPlace
  <2> QED
    BY <1>4, <1>5, <2>1
<1>9. CASE \E q \in asleep : upc' = [upc EXCEPT ![p] = @ + 1, ![q] = @ + 1]
  <2>1. PICK q \in asleep : upc' = [upc EXCEPT ![p] = @ + 1, ![q] = @ + 1]
    BY <1>9
  <2>2. q \in Calls!Process /\ q # p /\ Calls!At(q, "msgrcv")
    BY <1>1 DEF Shapes, QueueOK, Calls!At
  <2>3. upc'[p] = k + 1 /\ upc'[q] = upc[q] + 1 /\ \A i \in Calls!Process \ {p, q} : upc'[i] = upc[i]
    <3>1. upc \in [Calls!Process -> Nat] /\ upc' = [upc EXCEPT ![p] = upc[p] + 1, ![q] = upc[q] + 1]
      BY <2>1, <2>2 DEF Shapes, ProcOK
    <3> QED
      BY <2>2, <3>1
  <2>4. upc[q] >= 1 /\ upc[q] \in Nat /\ Here(exercise, role[q], upc[q] + 1, env[q], fd[q], sent[q], got[q], lines)
    BY <2>2, AtFacts, GoesToNext DEF Kept
  <2>5. \A i \in Calls!Process : Good(i)'
    <3> TAKE i \in Calls!Process
    <3>1. Good(i) /\ UNCHANGED <<exercise, lines, life, role, env, fd, got>>
      BY <1>1 DEF Everywhere, Calls!cfg
    <3>2. CASE i = p
      BY <1>2, <1>7, <2>3, <3>1, <3>2 DEF Good
    <3>3. CASE i = q
      BY <1>6, <2>2, <2>3, <2>4, <3>1, <3>3 DEF Good
    <3>4. CASE i # p /\ i # q
      BY <1>6, <2>3, <3>1, <3>4, Kept2
    <3> QED
      BY <3>2, <3>3, <3>4
  <2>6. (First(Calls!Main)' => First(Calls!Main)) /\ (First(Calls!Other)' => First(Calls!Other))
    <3>1. Calls!Main \in Calls!Process /\ Calls!Other \in Calls!Process /\ k + 1 # 1 /\ upc[q] + 1 # 1
      BY <1>2, <2>4 DEF Calls!Process
    <3> QED
      BY <1>1, <2>3, <3>1 DEF First
  <2>7. Everywhere'
    BY <1>1, <2>5, <2>6, UsedKept DEF Everywhere, Calls!cfg
  <2> QED
    BY <1>4, <1>5, <2>7
<1> QED
  BY <1>8, <1>9 DEF Calls!MsgsndCall

\* No other program begins again.
LEMMA NotAgain ==
  ASSUME Shapes, Everywhere, exercise # Thrice, NEW p \in Calls!Process
  PROVE  ~Calls!AgainCall(p)
<1>1. SUFFICES ASSUME Calls!At(p, "again") PROVE FALSE
  BY DEF Calls!AgainCall
<1>2. /\ exercise \in Calls!Exercise \ {Thrice} /\ role[p] \in Runs(exercise)
           /\ upc[p] \in DOMAIN Calls!Program(exercise, role[p])
      /\ Calls!Program(exercise, role[p])[upc[p]].op = "again"
  BY <1>1, AtFacts
<1> QED
  BY <1>2, CallFacts DEF Sits

\* The exercises but one.
LEMMA OthersStep ==
  ASSUME Shapes, Everywhere, exercise # Thrice, NEW p \in Calls!Process, Calls!Run(p)
  PROVE  Shapes' /\ Everywhere'
<1>1. CASE Calls!Return(p)
  BY <1>1, ReturnShape, ReturnMoves
<1>2. CASE Calls!ForkCall(p)
  BY <1>2, ForkShape, ForkMoves
<1>3. CASE Calls!ExecCall(p)
  BY <1>3, ExecShape, ExecMoves
<1>4. CASE Calls!WaitCall(p)
  BY <1>4, WaitShape, WaitMoves
<1>5. CASE Calls!PipeCall(p)
  BY <1>5, PipeShape, PipeMoves
<1>6. CASE Calls!Redirect(p)
  BY <1>6, RedirectShape, RedirectMoves
<1>7. CASE Calls!CreatCall(p)
  BY <1>7, CreatShape, CreatMoves
<1>8. CASE Calls!ReadFileCall(p)
  BY <1>8, ReadFileShape, ReadFileMoves
<1>9. CASE Calls!WriteCall(p)
  BY <1>9, WriteShape, WriteMoves
<1>10. CASE Calls!CopyCall(p)
  BY <1>10, CopyShape, CopyMoves
<1>11. CASE Calls!Fifo(p)
  BY <1>11, FifoShape, FifoMoves
<1>12. CASE Calls!Socket(p)
  BY <1>12, SocketShape, SocketMoves
<1>13. CASE Calls!MsggetCall(p)
  BY <1>13, MsggetShape, MsggetMoves
<1>14. CASE Calls!MsgsndCall(p)
  BY <1>14, MsgsndShape, MsgsndMoves
<1>15. CASE Calls!MsgrcvCall(p)
  BY <1>15, MsgrcvShape, MsgrcvMoves
<1>16. CASE Calls!RmidCall(p)
  BY <1>16, RmidShape, RmidMoves
<1>17. CASE Calls!Fails(p)
  BY <1>17, FailsShape, FailsMoves
<1> QED
  BY <1>1, <1>2, <1>3, <1>4, <1>5, <1>6, <1>7, <1>8, <1>9, <1>10, <1>11, <1>12, <1>13, <1>14, <1>15, <1>16, <1>17,
     NotAgain DEF Calls!Run

-----------------------------------------------------------------------------
\* StudentPipe: its parent makes three pipes, and keeps the descriptors
\* where a fork fails, so that no table can say which numbers they have.
Ours(h, g) == /\ {0, 1, 2} \subseteq DOMAIN g /\ g[1] = Calls!Tty /\ h["out"] = 1
              /\ \A n \in DOMAIN g : g[n] \in Calls!Descriptor
HasPipe(h) == h["r"] \in 3 .. Calls!MaxFd /\ h["w"] \in 3 .. Calls!MaxFd /\ h["r"] # h["w"]
CanRead(h, g) == h["r"] \in DOMAIN g /\ g[h["r"]].in \in 3 .. 5
ParentAt(k, h, g, n, i, u) ==
  /\ k \in 1 .. 8 /\ Ours(h, g) /\ (k > 1 => HasPipe(h)) /\ (k = 2 => CanRead(h, g))
  /\ DOMAIN g \subseteq 0 .. 2 * i + (IF k = 1 THEN 0 ELSE 2)
  /\ u = i + (IF k = 1 THEN 1 ELSE 2) /\ n <= (IF k <= 4 THEN i - 1 ELSE i)
ChildAt(k, h, g, n) == /\ k \in 1 .. 4 /\ Ours(h, g) /\ HasPipe(h) /\ DOMAIN g \subseteq 0 .. Calls!MaxFd /\ n = 0
                       /\ (k <= 2 => CanRead(h, g))
InTurn(p) ==
  life[p] = "alive" =>
    IF p = Calls!Main THEN role[p] = "main" /\ ParentAt(upc[p], env[p], fd[p], sent[p], round, used)
                ELSE p \in Calls!Child /\ role[p] = "child" /\ ChildAt(upc[p], env[p], fd[p], sent[p])
ThreeTimes == \A p \in Calls!Process : InTurn(p)

\* The programs of StudentPipe.
LEMMA OurPrograms ==
  /\ Calls!Program(Thrice, "main") = <<Calls!Pipe, Calls!Fork("child", 7), Calls!Close("r"), Calls!Write("w",
       "one"), Calls!Close("w"), Calls!Wait, Calls!Again(3)>>
  /\ Calls!Program(Thrice, "child") = <<Calls!Close("w"), Calls!Copy("r", "out", "all"), Calls!Close("r")>>
BY DEF Calls!Program, Calls!Code, Calls!StudentPipe, Thrice

\* What its processes do, and where.
OurCall(p, op) ==
  LET k == upc[p]  c == Calls!Call(p) IN
  IF p = Calls!Main
  THEN \/ op = "pipe" /\ k = 1
       \/ op = "fork" /\ k = 2 /\ c.child = "child" /\ c.fail = 7
       \/ op = "close" /\ ((k = 3 /\ c.f = "r") \/ (k = 5 /\ c.f = "w"))
       \/ op = "write" /\ k = 4 /\ c.f = "w" /\ c.n = "one"
       \/ op = "wait" /\ k = 6
       \/ op = "again" /\ k = 7 /\ c.n = 3
  ELSE \/ op = "close" /\ ((k = 1 /\ c.f = "w") \/ (k = 3 /\ c.f = "r"))
       \/ op = "copy" /\ k = 2 /\ c.f = "r" /\ c.g = "out" /\ c.n = "all"

\* What its processes know at a call.
LEMMA OurCalls ==
  ASSUME ThreeTimes, exercise = Thrice, NEW p \in Calls!Process, NEW op, Calls!At(p, op)
  PROVE  /\ OurCall(p, op) /\ life[p] = "alive"
         /\ (p = Calls!Main => ParentAt(upc[p], env[p], fd[p], sent[p], round, used))
         /\ (p # Calls!Main => p \in Calls!Child /\ ChildAt(upc[p], env[p], fd[p], sent[p]))
<1>1. InTurn(p) /\ life[p] = "alive"
  BY DEF ThreeTimes, Calls!At
<1>2. CASE p = Calls!Main
  <2>1. role[p] = "main" /\ upc[p] \in 1 .. 8 /\ ParentAt(upc[p], env[p], fd[p], sent[p], round, used)
    BY <1>1, <1>2 DEF InTurn, ParentAt
  <2>2. upc[p] \in 1 .. 7 /\ op = Calls!Call(p).op
    BY <2>1, OurPrograms DEF Calls!At
  <2>3. Calls!Call(p) = <<Calls!Pipe, Calls!Fork("child", 7), Calls!Close("r"), Calls!Write("w", "one"),
          Calls!Close("w"), Calls!Wait, Calls!Again(3)>>[upc[p]]
    BY <2>1, OurPrograms DEF Calls!Call
  <2>4. OurCall(p, op)
    BY <1>2, <2>2, <2>3 DEF OurCall, Calls!Pipe, Calls!Fork, Calls!Close, Calls!Write, Calls!Wait, Calls!Again
  <2> QED
    BY <1>1, <1>2, <2>1, <2>4
<1>3. CASE p # Calls!Main
  <2>1. role[p] = "child" /\ upc[p] \in 1 .. 4 /\ ChildAt(upc[p], env[p], fd[p], sent[p]) /\ p \in Calls!Child
    BY <1>1, <1>3 DEF InTurn, ChildAt
  <2>2. upc[p] \in 1 .. 3 /\ op = Calls!Call(p).op
    BY <2>1, OurPrograms DEF Calls!At
  <2>3. Calls!Call(p) = <<Calls!Close("w"), Calls!Copy("r", "out", "all"), Calls!Close("r")>>[upc[p]]
    BY <2>1, OurPrograms DEF Calls!Call
  <2>4. OurCall(p, op)
    BY <1>3, <2>2, <2>3 DEF OurCall, Calls!Close, Calls!Copy
  <2> QED
    BY <1>1, <1>3, <2>1, <2>4
<1> QED
  BY <1>2, <1>3

\* A process that does nothing.
LEMMA WaitsTurn ==
  ASSUME NEW q, InTurn(q), q = Calls!Main => UNCHANGED <<round, used>>,
         life'[q] = "alive" => /\ life[q] = "alive" /\ role'[q] = role[q] /\ upc'[q] = upc[q] /\ env'[q] = env[q]
                               /\ fd'[q] = fd[q] /\ sent'[q] = sent[q]
  PROVE  InTurn(q)'
BY DEF InTurn

\* A step of one process.
LEMMA TakesTurn ==
  ASSUME ThreeTimes, NEW p \in Calls!Process, life[p] = "alive", role' = role,
         \A q \in Calls!Process : life'[q] = "alive" => life[q] = "alive", p # Calls!Main => UNCHANGED <<round,
              used>>,
         \A q \in Calls!Process \ {p} : upc'[q] = upc[q] /\ env'[q] = env[q] /\ fd'[q] = fd[q]
              /\ sent'[q] = sent[q],
         p = Calls!Main => ParentAt(upc'[p], env'[p], fd'[p], sent'[p], round', used'),
         p # Calls!Main => ChildAt(upc'[p], env'[p], fd'[p], sent'[p])
  PROVE  ThreeTimes'
<1> SUFFICES ASSUME NEW q \in Calls!Process PROVE InTurn(q)'
  BY DEF ThreeTimes
<1>1. InTurn(q) /\ InTurn(p)
  BY DEF ThreeTimes
<1>2. CASE q # p
  BY <1>1, <1>2, WaitsTurn
<1>3. CASE q = p
  BY <1>1, <1>3 DEF InTurn
<1> QED
  BY <1>2, <1>3

\* The end of a process.
LEMMA EndsTurn ==
  ASSUME Shapes, ThreeTimes, NEW p \in Calls!Process, life[p] = "alive", NEW bad, Calls!Ends(p, bad),
           UNCHANGED <<sent, round, used>>
  PROVE  ThreeTimes'
<1>1. /\ life'[p] # "alive" /\ UNCHANGED <<role, upc, env>>
      /\ \A q \in Calls!Process \ {p} : (life'[q] = "alive") = (life[q] = "alive") /\ fd'[q] = fd[q]
  BY EndsFor DEF Shapes
<1> SUFFICES ASSUME NEW q \in Calls!Process PROVE InTurn(q)'
  BY DEF ThreeTimes
<1>2. InTurn(q)
  BY DEF ThreeTimes
<1>3. CASE q = p
  BY <1>1, <1>3 DEF InTurn
<1>4. CASE q # p
  BY <1>1, <1>2, <1>4, WaitsTurn
<1> QED
  BY <1>3, <1>4

\* Where no descriptor above n is open, the two lowest free ones are at most n + 2.
LEMMA LowestTwo ==
  ASSUME NEW g, NEW n \in 2 .. 6, {0, 1, 2} \subseteq DOMAIN g, DOMAIN g \subseteq 0 .. n
  PROVE  LET a == Calls!Least((0 .. Calls!MaxFd) \ DOMAIN g)
             b == Calls!Least((0 .. Calls!MaxFd) \ (DOMAIN g \cup {a}))
         IN  a \in 3 .. n + 1 /\ b \in 3 .. n + 2 /\ a # b
<1> DEFINE some == (0 .. Calls!MaxFd) \ DOMAIN g
           a == Calls!Least(some)
           rest == (0 .. Calls!MaxFd) \ (DOMAIN g \cup {a})
           b == Calls!Least(rest)
<1>1. n + 1 \in some /\ some \in SUBSET Nat /\ \A i \in some : i >= 3
  BY DEF Calls!MaxFd
<1>2. PICK z \in some : \A i \in some : z <= i
  BY <1>1, LowestNat
<1>3. a = z
  BY <1>1, <1>2, LeastIs
<1>4. a \in some /\ a <= n + 1 /\ a >= 3
  BY <1>1, <1>2, <1>3
<1> HIDE DEF a
<1>5. n + 2 \in rest /\ rest \in SUBSET Nat /\ rest \subseteq some
  BY <1>1, <1>4 DEF Calls!MaxFd
<1>6. PICK y \in rest : \A i \in rest : y <= i
  BY <1>5, LowestNat
<1>7. b = y
  BY <1>5, <1>6, LeastIs
<1>8. b \in rest /\ b <= n + 2 /\ b >= 3
  BY <1>1, <1>5, <1>6, <1>7
<1>9. a \in 3 .. n + 1 /\ b \in 3 .. n + 2 /\ a # b
  BY <1>1, <1>4, <1>5, <1>8
<1> QED
  BY <1>9 DEF a

\* With a descriptor closed.
LEMMA OursLess ==
  ASSUME NEW h, NEW g, Ours(h, g), NEW m0, m0 \in 3 .. Calls!MaxFd
  PROVE  /\ Ours(h, Drop(g, m0)) /\ DOMAIN Drop(g, m0) \subseteq DOMAIN g
         /\ (CanRead(h, g) /\ h["r"] # m0 => CanRead(h, Drop(g, m0)))
<1> DEFINE g2 == [m \in DOMAIN g \ {m0} |-> g[m]]
<1>1. DOMAIN g2 = DOMAIN g \ {m0} /\ \A m \in DOMAIN g \ {m0} : g2[m] = g[m]
  OBVIOUS
<1>2. {0, 1, 2} \subseteq DOMAIN g \ {m0}
  BY DEF Ours, Calls!MaxFd
<1> HIDE DEF g2
<1>3. Ours(h, g2)
  <2>1. {0, 1, 2} \subseteq DOMAIN g2 /\ g2[1] = Calls!Tty
    BY <1>1, <1>2 DEF Ours
  <2> QED
    BY <1>1, <2>1 DEF Ours
<1>4. CanRead(h, g) /\ h["r"] # m0 => CanRead(h, g2)
  BY <1>1 DEF CanRead
<1> QED
  BY <1>1, <1>3, <1>4 DEF Drop, g2

\* Call by call.
LEMMA OurRedirect ==
  ASSUME Shapes, ThreeTimes, exercise = Thrice, NEW p \in Calls!Process, Calls!Redirect(p)
  PROVE  ThreeTimes'
<1>1. /\ Calls!Step(p) /\ UNCHANGED <<Calls!cfg, life, role, env, Calls!counts, Calls!channels>>
  BY DEF Calls!Redirect
<1>2. PICK op \in {"close", "dup", "dup2"} : Calls!At(p, op)
  BY DEF Calls!Redirect
<1>3. /\ OurCall(p, op) /\ life[p] = "alive"
      /\ (p = Calls!Main => ParentAt(upc[p], env[p], fd[p], sent[p], round, used))
      /\ (p # Calls!Main => p \in Calls!Child /\ ChildAt(upc[p], env[p], fd[p], sent[p]))
  BY <1>2, OurCalls
<1>4. op = "close"
  BY <1>3 DEF OurCall
<1> DEFINE m0 == env[p][Calls!Call(p).f]
<1>5. m0 = env[p]["r"] \/ m0 = env[p]["w"]
  BY <1>3, <1>4 DEF OurCall
<1>6. fd' = [fd EXCEPT ![p] = Calls!Without(p, m0)]
  BY <1>2, <1>4 DEF Calls!Redirect, Calls!At, Calls!Fd
<1>7. fd'[p] = Drop(fd[p], m0) /\ upc'[p] = upc[p] + 1
      /\ \A q \in Calls!Process \ {p} : upc'[q] = upc[q] /\ fd'[q] = fd[q]
  BY <1>1, <1>6 DEF Calls!Without, Drop, Calls!Step, Shapes, ProcOK
<1>8. round \in 1 .. 3 /\ sent[p] \in Nat
  BY ProcessesAssumption DEF Shapes, LinkOK, ProcOK, Calls!UnixAssumption
<1>9. CASE p = Calls!Main
  <2>1. upc[p] \in {3, 5} /\ ParentAt(upc[p], env[p], fd[p], sent[p], round, used)
    BY <1>3, <1>4, <1>9 DEF OurCall
  <2>2. Ours(env[p], fd[p]) /\ HasPipe(env[p]) /\ m0 \in 3 .. Calls!MaxFd
    BY <1>5, <2>1 DEF ParentAt, HasPipe
  <2> HIDE DEF m0
  <2>3. Ours(env[p], Drop(fd[p], m0)) /\ DOMAIN Drop(fd[p], m0) \subseteq DOMAIN fd[p]
    BY <2>2, OursLess
  <2>4. ParentAt(upc[p] + 1, env[p], Drop(fd[p], m0), sent[p], round, used)
    <3>1. CASE upc[p] = 3
      BY <1>8, <2>1, <2>2, <2>3, <3>1 DEF ParentAt
    <3>2. CASE upc[p] = 5
      BY <1>8, <2>1, <2>2, <2>3, <3>2 DEF ParentAt
    <3> QED
      BY <2>1, <3>1, <3>2
  <2>5. ParentAt(upc'[p], env'[p], fd'[p], sent'[p], round', used')
    BY <1>1, <1>7, <2>4 DEF Calls!counts, Calls!channels
  <2> QED
    BY <1>1, <1>3, <1>7, <1>9, <2>5, TakesTurn DEF Calls!counts, Calls!channels
<1>10. CASE p # Calls!Main
  <2>1. upc[p] \in {1, 3} /\ ChildAt(upc[p], env[p], fd[p], sent[p]) /\ (upc[p] = 1 => m0 = env[p]["w"])
    BY <1>3, <1>4, <1>10 DEF OurCall
  <2>2. Ours(env[p], fd[p]) /\ HasPipe(env[p]) /\ m0 \in 3 .. Calls!MaxFd /\ (upc[p] = 1 => CanRead(env[p],
          fd[p]) /\ env[p]["r"] # m0)
    BY <1>5, <2>1 DEF ChildAt, HasPipe
  <2> HIDE DEF m0
  <2>3. /\ Ours(env[p], Drop(fd[p], m0)) /\ DOMAIN Drop(fd[p], m0) \subseteq DOMAIN fd[p]
        /\ (upc[p] = 1 => CanRead(env[p], Drop(fd[p], m0)))
    BY <2>2, OursLess
  <2>4. ChildAt(upc[p] + 1, env[p], Drop(fd[p], m0), sent[p])
    <3>1. CASE upc[p] = 1
      BY <2>1, <2>2, <2>3, <3>1 DEF ChildAt
    <3>2. CASE upc[p] = 3
      BY <2>1, <2>2, <2>3, <3>2 DEF ChildAt
    <3> QED
      BY <2>1, <3>1, <3>2
  <2>5. ChildAt(upc'[p], env'[p], fd'[p], sent'[p])
    BY <1>1, <1>7, <2>4 DEF Calls!counts
  <2> QED
    BY <1>1, <1>3, <1>7, <1>10, <2>5, TakesTurn DEF Calls!counts, Calls!channels
<1> QED
  BY <1>9, <1>10

\* What write does.
LEMMA WriteCases ==
  ASSUME NEW p, Calls!WriteCall(p)
  PROVE  \/ Calls!Ends(p, TRUE) /\ UNCHANGED <<buf, sent>>
         \/ /\ sent' = [sent EXCEPT ![p] = @ + 1]
            /\ upc' = [upc EXCEPT ![p] = IF Calls!Call(p).n = "one" \/ sent[p] + 1 = lines THEN @ + 1 ELSE @]
            /\ UNCHANGED <<life, role, env, fd, Calls!sockets, failed>>
BY Zenon DEF Calls!WriteCall

LEMMA OurWrite ==
  ASSUME Shapes, ThreeTimes, exercise = Thrice, NEW p \in Calls!Process, Calls!WriteCall(p)
  PROVE  ThreeTimes' /\ sent[p] + 1 <= MaxLines + 3
<1> DEFINE last == Calls!Call(p).n = "one" \/ sent[p] + 1 = lines
<1>1. Calls!At(p, "write") /\ UNCHANGED <<Calls!cfg, got, round, used, Calls!fifos, Calls!queues>>
  BY Zenon DEF Calls!WriteCall
<1>2. OurCall(p, "write") /\ life[p] = "alive" /\ (p = Calls!Main => ParentAt(upc[p], env[p], fd[p], sent[p],
        round, used))
  BY <1>1, OurCalls
<1>3. p = Calls!Main /\ upc[p] = 4 /\ Calls!Call(p).n = "one" /\ ParentAt(4, env[p], fd[p], sent[p], round, used)
  BY <1>2 DEF OurCall
<1>4. round \in 1 .. 3 /\ sent[p] \in Nat /\ MaxLines \in Nat
  BY ProcessesAssumption DEF Shapes, LinkOK, ProcOK, Calls!UnixAssumption
<1>5. sent[p] + 1 <= MaxLines + 3
  BY <1>3, <1>4 DEF ParentAt
<1>6. CASE Calls!Ends(p, TRUE) /\ UNCHANGED <<buf, sent>>
  BY <1>1, <1>2, <1>5, <1>6, EndsTurn
<1>7. CASE /\ sent' = [sent EXCEPT ![p] = @ + 1]
           /\ upc' = [upc EXCEPT ![p] = IF last THEN @ + 1 ELSE @]
           /\ UNCHANGED <<life, role, env, fd, Calls!sockets, failed>>
  <2>1. /\ sent'[p] = sent[p] + 1 /\ upc'[p] = 5
        /\ \A q \in Calls!Process \ {p} : upc'[q] = upc[q] /\ sent'[q] = sent[q]
    BY <1>3, <1>7 DEF Shapes, ProcOK
  <2>2. ParentAt(5, env[p], fd[p], sent[p] + 1, round, used)
    BY <1>3, <1>4 DEF ParentAt
  <2>3. ParentAt(upc'[p], env'[p], fd'[p], sent'[p], round', used')
    BY <1>1, <1>7, <2>1, <2>2
  <2>4. ThreeTimes'
    BY <1>2, <1>3, <1>7, <2>1, <2>3, TakesTurn
  <2> QED
    BY <1>5, <2>4
<1>8. \/ Calls!Ends(p, TRUE) /\ UNCHANGED <<buf, sent>>
      \/ /\ sent' = [sent EXCEPT ![p] = @ + 1] /\ upc' = [upc EXCEPT ![p] = IF last THEN @ + 1 ELSE @]
         /\ UNCHANGED <<life, role, env, fd, Calls!sockets, failed>>
  BY WriteCases
<1> QED
  BY <1>6, <1>7, <1>8, Zenon

LEMMA OurWait ==
  ASSUME Shapes, ThreeTimes, exercise = Thrice, NEW p \in Calls!Process, Calls!WaitCall(p)
  PROVE  ThreeTimes'
<1>1. /\ Calls!Step(p) /\ Calls!At(p, "wait") /\ UNCHANGED <<role, env, fd, Calls!counts, Calls!channels>>
      /\ \A q \in Calls!Process : life'[q] = "alive" => life[q] = "alive"
  BY DEF Calls!WaitCall, Shapes, ProcOK
<1>2. OurCall(p, "wait") /\ life[p] = "alive" /\ (p = Calls!Main => ParentAt(upc[p], env[p], fd[p], sent[p],
        round, used))
  BY <1>1, OurCalls
<1>3. p = Calls!Main /\ upc[p] = 6 /\ ParentAt(6, env[p], fd[p], sent[p], round, used)
  BY <1>2 DEF OurCall
<1>4. upc'[p] = 7 /\ \A q \in Calls!Process \ {p} : upc'[q] = upc[q]
  BY <1>1, <1>3 DEF Calls!Step, Shapes, ProcOK
<1>5. ParentAt(7, env[p], fd[p], sent[p], round, used)
  BY <1>3 DEF ParentAt
<1>6. ParentAt(upc'[p], env'[p], fd'[p], sent'[p], round', used')
  BY <1>1, <1>4, <1>5 DEF Calls!counts, Calls!channels
<1> QED
  BY <1>1, <1>2, <1>3, <1>4, <1>6, TakesTurn DEF Calls!counts, Calls!channels

LEMMA OurAgain ==
  ASSUME Shapes, ThreeTimes, exercise = Thrice, NEW p \in Calls!Process, Calls!AgainCall(p)
  PROVE  ThreeTimes' /\ Calls!Call(p).n = 3
<1>1. Calls!At(p, "again") /\ UNCHANGED <<Calls!cfg, life, role, env, fd, sent, got, Calls!channels,
        Calls!fifos, Calls!sockets, Calls!queues, failed>>
  BY DEF Calls!AgainCall
<1>2. OurCall(p, "again") /\ life[p] = "alive" /\ (p = Calls!Main => ParentAt(upc[p], env[p], fd[p], sent[p],
        round, used))
  BY <1>1, OurCalls
<1>3. p = Calls!Main /\ upc[p] = 7 /\ Calls!Call(p).n = 3 /\ ParentAt(7, env[p], fd[p], sent[p], round, used)
  BY <1>2 DEF OurCall
<1>4. /\ round' = (IF round < 3 THEN round + 1 ELSE round) /\ upc'[p] = (IF round < 3 THEN 1 ELSE 8)
      /\ \A q \in Calls!Process \ {p} : upc'[q] = upc[q]
  <2>1. round' = (IF round < 3 THEN round + 1 ELSE round)
          /\ upc' = [upc EXCEPT ![p] = IF round < 3 THEN 1 ELSE @ + 1]
    BY <1>3 DEF Calls!AgainCall
  <2> QED
    BY <1>3, <2>1 DEF Shapes, ProcOK
<1>5. round \in 1 .. 3 /\ sent[p] \in Nat /\ used \in Nat
  BY ProcessesAssumption DEF Shapes, LinkOK, ProcOK, Calls!UnixAssumption
<1>6. ParentAt(upc'[p], env[p], fd[p], sent[p], round', used)
  <2>1. CASE round < 3
    BY <1>3, <1>4, <1>5, <2>1 DEF ParentAt
  <2>2. CASE ~(round < 3)
    BY <1>3, <1>4, <1>5, <2>2 DEF ParentAt
  <2> QED
    BY <2>1, <2>2
<1>7. ParentAt(upc'[p], env'[p], fd'[p], sent'[p], round', used')
  BY <1>1, <1>6 DEF Calls!channels
<1>8. ThreeTimes'
  BY <1>1, <1>2, <1>3, <1>4, <1>7, TakesTurn
<1> QED
  BY <1>3, <1>8

LEMMA OurCopy ==
  ASSUME Shapes, ThreeTimes, exercise = Thrice, NEW p \in Calls!Process, Calls!CopyCall(p)
  PROVE  /\ ThreeTimes' /\ fd[p][Calls!Fd(p, Calls!Call(p).f)].in \in 3 .. 5 /\ fd[p][Calls!Fd(p,
              Calls!Call(p).g)].out \in {Calls!Terminal, Calls!File}
         /\ Calls!Call(p).n # "lines"
<1>1. Calls!At(p, "copy") /\ UNCHANGED <<Calls!cfg, life, role, env, fd, sent, round, used, Calls!fifos,
        Calls!sockets, Calls!queues>>
  BY Zenon DEF Calls!CopyCall
<1>2. OurCall(p, "copy") /\ life[p] = "alive" /\ (p # Calls!Main => p \in Calls!Child /\ ChildAt(upc[p],
        env[p], fd[p], sent[p]))
  BY <1>1, OurCalls
<1>3. /\ p # Calls!Main /\ upc[p] = 2 /\ Calls!Call(p).f = "r" /\ Calls!Call(p).g = "out" /\ Calls!Call(p).n = "all"
      /\ ChildAt(2, env[p], fd[p], sent[p])
  BY <1>2 DEF OurCall
<1>4. fd[p][Calls!Fd(p, Calls!Call(p).f)].in \in 3 .. 5 /\ fd[p][Calls!Fd(p,
        Calls!Call(p).g)].out \in {Calls!Terminal, Calls!File}
  BY <1>3 DEF ChildAt, Ours, CanRead, Calls!Fd, Calls!Tty, Calls!Terminal
<1>5. upc'[p] \in {2, 3} /\ \A q \in Calls!Process \ {p} : upc'[q] = upc[q]
  <2>1. upc \in [Calls!Process -> Nat] /\ upc[p] = 2
    BY <1>3 DEF Shapes, ProcOK
  <2>2. upc' = upc \/ upc' = [upc EXCEPT ![p] = 3] \/ upc' = [upc EXCEPT ![p] = 2]
    <3>1. \/ upc' = [upc EXCEPT ![p] = IF Calls!Call(p).n = "one" \/ (Calls!Call(p).n = "lines"
               /\ got[p] + 1 = lines)
                                     THEN @ + 1 ELSE @]
          \/ Calls!Step(p)
      BY Zenon DEF Calls!CopyCall
    <3> QED
      BY <1>3, <2>1, <3>1 DEF Calls!Step
  <2> QED
    BY <2>1, <2>2
<1>6. ChildAt(2, env[p], fd[p], sent[p]) /\ ChildAt(3, env[p], fd[p], sent[p])
  BY <1>3 DEF ChildAt
<1>7. ChildAt(upc'[p], env'[p], fd'[p], sent'[p])
  BY <1>1, <1>5, <1>6
<1>8. ThreeTimes'
  BY <1>1, <1>2, <1>3, <1>5, <1>7, TakesTurn
<1> QED
  BY <1>3, <1>4, <1>8

\* With a pipe opened.
LEMMA OursMore ==
  ASSUME NEW h, NEW g, Ours(h, g), DOMAIN h = Names, NEW r \in 3 .. Calls!MaxFd, NEW w \in 3 .. Calls!MaxFd, r # w,
         NEW d \in Calls!Descriptor, d.in \in 3 .. 5, NEW d2 \in Calls!Descriptor,
         NEW h2, h2 = [h EXCEPT !["r"] = r, !["w"] = w], NEW g2, g2 = Put(Put(g, r, d), w, d2)
  PROVE  Ours(h2, g2) /\ HasPipe(h2) /\ CanRead(h2, g2) /\ DOMAIN g2 = DOMAIN g \cup {r, w}
<1>1. h2["r"] = r /\ h2["w"] = w /\ h2["out"] = h["out"]
  BY DEF Names
<1>2. /\ DOMAIN g2 = DOMAIN g \cup {r, w} /\ g2[w] = d2 /\ g2[r] = d
      /\ \A n \in DOMAIN g \ {r, w} : g2[n] = g[n]
  BY DEF Put
<1>3. 1 \in DOMAIN g /\ 1 # r /\ 1 # w
  BY DEF Ours, Calls!MaxFd
<1>4. Ours(h2, g2)
  <2>1. \A n \in DOMAIN g2 : g2[n] \in Calls!Descriptor
    BY <1>2 DEF Ours
  <2> QED
    BY <1>1, <1>2, <1>3, <2>1 DEF Ours
<1>5. HasPipe(h2) /\ CanRead(h2, g2)
  BY <1>1, <1>2 DEF HasPipe, CanRead
<1> QED
  BY <1>2, <1>4, <1>5

LEMMA OurPipe ==
  ASSUME Shapes, ThreeTimes, exercise = Thrice, NEW p \in Calls!Process, Calls!PipeCall(p)
  PROVE  /\ ThreeTimes' /\ used <= 4 /\ Calls!Free(p) \in 0 .. Calls!MaxFd
         /\ Calls!Least((0 .. Calls!MaxFd) \ (DOMAIN fd[p] \cup {Calls!Free(p)})) \in 0 .. Calls!MaxFd
<1> DEFINE r == Calls!Free(p)
           w == Calls!Least((0 .. Calls!MaxFd) \ (DOMAIN fd[p] \cup {r}))
           c == used + 1
           d == [in |-> c, out |-> 0]
           d2 == [in |-> 0, out |-> c]
<1>1. Calls!At(p, "pipe") /\ Calls!Step(p) /\ UNCHANGED <<Calls!cfg, life, role, Calls!counts, buf,
        Calls!fifos, Calls!sockets, Calls!queues, failed>> /\ used' = c
  BY DEF Calls!PipeCall
<1>2. OurCall(p, "pipe") /\ life[p] = "alive" /\ (p = Calls!Main => ParentAt(upc[p], env[p], fd[p], sent[p],
        round, used))
  BY <1>1, OurCalls
<1>3. p = Calls!Main /\ upc[p] = 1 /\ ParentAt(1, env[p], fd[p], sent[p], round, used)
  BY <1>2 DEF OurCall
<1>4. round \in 1 .. 3 /\ sent[p] \in Nat
  BY ProcessesAssumption DEF Shapes, LinkOK, ProcOK, Calls!UnixAssumption
<1>5. used = round + 1 /\ Ours(env[p], fd[p]) /\ DOMAIN fd[p] \subseteq 0 .. 2 * round /\ sent[p] <= round - 1
  BY <1>3, <1>4 DEF ParentAt
<1>6. r \in 3 .. 2 * round + 1 /\ w \in 3 .. 2 * round + 2 /\ r # w
  <2>1. 2 * round \in 2 .. 6 /\ {0, 1, 2} \subseteq DOMAIN fd[p]
    BY <1>4, <1>5 DEF Ours
  <2> QED
    BY <1>5, <2>1, LowestTwo DEF Calls!Free
<1>7. fd = [q \in Calls!Process |-> fd[q]] /\ env \in [Calls!Process -> [Names -> -1 .. Calls!MaxFd]]
        /\ upc \in [Calls!Process -> Nat]
  BY DEF Shapes, ProcOK
<1>8. env'[p] = [env[p] EXCEPT !["r"] = r, !["w"] = w] /\ \A q \in Calls!Process \ {p} : env'[q] = env[q]
  <2>1. env' = [env EXCEPT ![p]["r"] = r, ![p]["w"] = w]
    BY DEF Calls!PipeCall
  <2> HIDE DEF r, w
  <2> QED
    BY <1>7, <2>1
<1>9. fd'[p] = Put(Put(fd[p], r, d), w, d2) /\ \A q \in Calls!Process \ {p} : fd'[q] = fd[q]
  <2>1. fd' = [fd EXCEPT ![p] = [m \in DOMAIN @ \cup {r, w} |-> IF m = r THEN d ELSE IF m = w THEN d2 ELSE @[m]]]
    BY DEF Calls!PipeCall
  <2> HIDE DEF r, w, d, d2
  <2>2. fd'[p] = [m \in DOMAIN fd[p] \cup {r, w} |-> IF m = r THEN d ELSE IF m = w THEN d2 ELSE fd[p][m]]
        /\ \A q \in Calls!Process \ {p} : fd'[q] = fd[q]
    BY <1>7, <2>1
  <2>3. Put(Put(fd[p], r, d), w, d2) = [m \in DOMAIN fd[p] \cup {r,
          w} |-> IF m = r THEN d ELSE IF m = w THEN d2 ELSE fd[p][m]]
    BY <1>6 DEF Put
  <2> QED
    BY <2>2, <2>3
<1>10. upc'[p] = 2 /\ \A q \in Calls!Process \ {p} : upc'[q] = upc[q]
  BY <1>1, <1>3, <1>7 DEF Calls!Step
<1>11. r \in 3 .. Calls!MaxFd /\ w \in 3 .. Calls!MaxFd /\ c \in 3 .. 5 /\ DOMAIN env[p] = Names
  <2>1. DOMAIN env[p] = Names
    BY <1>7
  <2> HIDE DEF r, w
  <2> QED
    BY <1>4, <1>5, <1>6, <2>1 DEF Calls!MaxFd
<1> HIDE DEF r, w
<1>12. Ours(env'[p], fd'[p]) /\ HasPipe(env'[p]) /\ CanRead(env'[p], fd'[p])
         /\ DOMAIN fd'[p] = DOMAIN fd[p] \cup {r, w}
  <2>1. d \in Calls!Descriptor /\ d.in \in 3 .. 5 /\ d2 \in Calls!Descriptor
    BY <1>11 DEF Calls!Descriptor
  <2> HIDE DEF d, d2
  <2> DEFINE h == [env[p] EXCEPT !["r"] = r, !["w"] = w]
             g == Put(Put(fd[p], r, d), w, d2)
  <2>2. Ours(h, g) /\ HasPipe(h) /\ CanRead(h, g) /\ DOMAIN g = DOMAIN fd[p] \cup {r, w}
    <3>1. Ours(env[p], fd[p]) /\ DOMAIN env[p] = Names /\ r \in 3 .. Calls!MaxFd /\ w \in 3 .. Calls!MaxFd /\ r # w
      BY <1>5, <1>6, <1>11
    <3>2. h = [env[p] EXCEPT !["r"] = r, !["w"] = w] /\ g = Put(Put(fd[p], r, d), w, d2)
      OBVIOUS
    <3> HIDE DEF h, g
    <3> QED
      BY <2>1, <3>1, <3>2, OursMore
  <2>3. env'[p] = h /\ fd'[p] = g
    BY <1>8, <1>9
  <2> HIDE DEF h, g
  <2> QED
    BY <2>2, <2>3
<1>13. ParentAt(2, env'[p], fd'[p], sent[p], round, used')
  <2>1. DOMAIN fd'[p] \subseteq 0 .. 2 * round + 2 /\ used' = round + 2
    BY <1>1, <1>4, <1>5, <1>6, <1>12
  <2> QED
    BY <1>4, <1>5, <1>12, <2>1 DEF ParentAt
<1>14. ThreeTimes'
  BY <1>1, <1>2, <1>3, <1>8, <1>9, <1>10, <1>13, TakesTurn DEF Calls!counts
<1> QED
  BY <1>4, <1>5, <1>11, <1>14 DEF r, w, Calls!MaxFd

LEMMA OurFork ==
  ASSUME Shapes, ThreeTimes, exercise = Thrice, NEW p \in Calls!Process, Calls!ForkCall(p)
  PROVE  ThreeTimes' /\ Calls!Call(p).child \in Calls!Role /\ Calls!Call(p).fail = 7
<1>1. Calls!At(p, "fork") /\ UNCHANGED <<Calls!cfg, Calls!channels, Calls!fifos, Calls!queues>>
  BY DEF Calls!ForkCall
<1>2. OurCall(p, "fork") /\ life[p] = "alive" /\ (p = Calls!Main => ParentAt(upc[p], env[p], fd[p], sent[p],
        round, used))
  BY <1>1, OurCalls
<1>3. p = Calls!Main /\ upc[p] = 2 /\ Calls!Call(p).child = "child" /\ Calls!Call(p).fail = 7 /\ ParentAt(2,
        env[p], fd[p], sent[p], round, used)
  BY <1>2 DEF OurCall
<1>4. Calls!Call(p).child \in Calls!Role /\ Calls!Call(p).fail = 7
  BY <1>3 DEF Calls!Role
<1>5. round \in 1 .. 3 /\ sent[p] \in Nat
  BY ProcessesAssumption DEF Shapes, LinkOK, ProcOK, Calls!UnixAssumption
<1>6. CASE \E q \in {q \in Calls!Child : life[q] # "alive" /\ life[q] # "zombie"} :
             /\ life' = [life EXCEPT ![q] = "alive"]
             /\ role' = [role EXCEPT ![q] = Calls!Call(p).child]
             /\ upc' = [upc EXCEPT ![p] = @ + 1, ![q] = 1]
             /\ env' = [env EXCEPT ![q] = env[p]]
             /\ fd' = [fd EXCEPT ![q] = fd[p]]
             /\ sent' = [sent EXCEPT ![q] = 0]
             /\ UNCHANGED round
  <2>1. PICK q \in Calls!Child :
             /\ life' = [life EXCEPT ![q] = "alive"]
             /\ role' = [role EXCEPT ![q] = Calls!Call(p).child]
             /\ upc' = [upc EXCEPT ![p] = @ + 1, ![q] = 1]
             /\ env' = [env EXCEPT ![q] = env[p]]
             /\ fd' = [fd EXCEPT ![q] = fd[p]]
             /\ sent' = [sent EXCEPT ![q] = 0]
             /\ UNCHANGED round
    BY <1>6
  <2>2. q \in Calls!Process /\ q # Calls!Main
    BY <2>1 DEF Calls!Process, Calls!Child, Calls!Main
  <2>3. /\ role'[q] = "child" /\ env'[q] = env[p] /\ fd'[q] = fd[p] /\ sent'[q] = 0
        /\ \A i \in Calls!Process \ {q} : /\ life'[i] = life[i] /\ role'[i] = role[i] /\ env'[i] = env[i]
             /\ fd'[i] = fd[i]
                                    /\ sent'[i] = sent[i]
    BY <1>3, <2>1, <2>2 DEF Shapes, ProcOK
  <2>4. upc'[q] = 1 /\ upc'[p] = 3 /\ \A i \in Calls!Process \ {p, q} : upc'[i] = upc[i]
    <3>1. upc \in [Calls!Process -> Nat] /\ upc' = [upc EXCEPT ![p] = 3, ![q] = 1]
      BY <1>3, <2>1 DEF Shapes, ProcOK
    <3> QED
      BY <1>3, <2>2, <3>1
  <2>5. ParentAt(3, env[p], fd[p], sent[p], round, used)
    BY <1>3 DEF ParentAt
  <2>6. ChildAt(1, env[p], fd[p], 0)
    BY <1>3, <1>5 DEF ParentAt, ChildAt, Calls!MaxFd
  <2>7. UNCHANGED <<round, used>>
    BY <1>1, <2>1 DEF Calls!channels
  <2> SUFFICES ASSUME NEW i \in Calls!Process PROVE InTurn(i)'
    BY <1>4 DEF ThreeTimes
  <2>8. InTurn(i)
    BY DEF ThreeTimes
  <2>9. CASE i = p
    BY <1>2, <1>3, <2>2, <2>3, <2>4, <2>5, <2>7, <2>8, <2>9 DEF InTurn
  <2>10. CASE i = q
    BY <2>1, <2>2, <2>3, <2>4, <2>6, <2>10 DEF InTurn
  <2>11. CASE i # p /\ i # q
    BY <2>3, <2>4, <2>7, <2>8, <2>11, WaitsTurn
  <2> QED
    BY <2>9, <2>10, <2>11
<1>7. CASE upc' = [upc EXCEPT ![p] = Calls!Call(p).fail] /\ UNCHANGED <<life, role, env, fd, Calls!counts>>
  <2>1. upc'[p] = 7 /\ \A q \in Calls!Process \ {p} : upc'[q] = upc[q]
    BY <1>3, <1>7 DEF Shapes, ProcOK
  <2>2. ParentAt(7, env[p], fd[p], sent[p], round, used)
    BY <1>3, <1>5 DEF ParentAt
  <2>3. ParentAt(upc'[p], env'[p], fd'[p], sent'[p], round', used')
    BY <1>1, <1>7, <2>1, <2>2 DEF Calls!counts, Calls!channels
  <2>4. ThreeTimes'
    BY <1>2, <1>3, <1>7, <2>1, <2>3, TakesTurn DEF Calls!counts
  <2> QED
    BY <1>4, <2>4
<1>8. CASE Calls!Ends(p, TRUE) /\ UNCHANGED Calls!counts
  BY <1>1, <1>2, <1>4, <1>8, EndsTurn DEF Calls!counts, Calls!channels
<1> QED
  BY <1>6, <1>7, <1>8 DEF Calls!ForkCall

\* There is no other call in it.
LEMMA OnlyThese ==
  ASSUME ThreeTimes, exercise = Thrice, NEW p \in Calls!Process, NEW op, Calls!At(p, op)
  PROVE  op \in {"pipe", "fork", "close", "write", "wait", "again", "copy"}
<1>1. OurCall(p, op)
  BY OurCalls
<1> QED
  BY <1>1 DEF OurCall

\* Whatever a process of StudentPipe does.
LEMMA OurStep ==
  ASSUME Shapes, ThreeTimes, exercise = Thrice, NEW p \in Calls!Process, Calls!Run(p)
  PROVE  Shapes' /\ ThreeTimes'
<1>1. CASE Calls!Return(p)
  <2>1. life[p] = "alive" /\ Calls!Ends(p, FALSE) /\ UNCHANGED <<Calls!counts, Calls!channels>>
    BY <1>1 DEF Calls!Return
  <2> QED
    BY <1>1, <2>1, ReturnShape, EndsTurn DEF Calls!counts, Calls!channels
<1>2. CASE Calls!ForkCall(p)
  <2>1. ThreeTimes' /\ Calls!Call(p).child \in Calls!Role /\ Calls!Call(p).fail \in Nat
    BY <1>2, OurFork
  <2> QED
    BY <1>2, <2>1, ForkShape
<1>3. CASE Calls!WaitCall(p)
  BY <1>3, WaitShape, OurWait
<1>4. CASE Calls!AgainCall(p)
  BY <1>4, AgainShape, OurAgain
<1>5. CASE Calls!PipeCall(p)
  BY <1>5, PipeShape, OurPipe
<1>6. CASE Calls!Redirect(p)
  BY <1>6, RedirectShape, OurRedirect
<1>7. CASE Calls!WriteCall(p)
  BY <1>7, WriteShape, OurWrite
<1>8. CASE Calls!CopyCall(p)
  BY <1>8, CopyShape, OurCopy
<1>9. \A op : Calls!At(p, op) => op \in {"pipe", "fork", "close", "write", "wait", "again", "copy"}
  BY OnlyThese
<1>10. \A op : op \in {"exec", "creat", "readfile", "mkfifo", "open", "opened", "unlink", "listen", "connect",
         "accept"}
                => ~Calls!At(p, op)
  BY <1>9
<1>11. ~Calls!ExecCall(p) /\ ~Calls!CreatCall(p) /\ ~Calls!ReadFileCall(p)
  <2>1. ~Calls!At(p, "exec") /\ ~Calls!At(p, "creat") /\ ~Calls!At(p, "readfile")
    BY <1>10
  <2> QED
    BY <2>1, Zenon DEF Calls!ExecCall, Calls!CreatCall, Calls!ReadFileCall
<1>12. ~Calls!Fifo(p) /\ ~Calls!Socket(p)
  <2>1. /\ ~Calls!At(p, "mkfifo") /\ ~Calls!At(p, "open") /\ ~Calls!At(p, "opened") /\ ~Calls!At(p, "unlink")
        /\ ~Calls!At(p, "listen") /\ ~Calls!At(p, "connect") /\ ~Calls!At(p, "accept")
    BY <1>10
  <2> QED
    BY <2>1, Zenon DEF Calls!Fifo, Calls!Socket
<1>13. \A op : op \in {"msgget", "msgsnd", "msgrcv", "rmid"} => ~Calls!At(p, op)
  BY <1>9
<1>14. ~Calls!MsggetCall(p) /\ ~Calls!MsgrcvCall(p) /\ ~Calls!MsgsndCall(p) /\ ~Calls!RmidCall(p)
  <2>1. ~Calls!At(p, "msgget") /\ ~Calls!At(p, "msgsnd") /\ ~Calls!At(p, "msgrcv") /\ ~Calls!At(p, "rmid")
    BY <1>13
  <2> QED
    BY <2>1, Zenon DEF Calls!MsggetCall, Calls!MsgrcvCall, Calls!MsgsndCall, Calls!RmidCall
<1>15. ~Calls!Fails(p)
  <2>1. /\ ~Calls!At(p, "msgget") /\ ~Calls!At(p, "msgsnd") /\ ~Calls!At(p, "msgrcv") /\ ~Calls!At(p,
             "connect") /\ ~Calls!At(p, "creat")
        /\ ~Calls!At(p, "readfile")
    BY <1>10, <1>13
  <2> QED
    BY <2>1, Zenon DEF Calls!Fails
<1> QED
  BY <1>1, <1>2, <1>3, <1>4, <1>5, <1>6, <1>7, <1>8, <1>11, <1>12, <1>14, <1>15, Zenon DEF Calls!Run

-----------------------------------------------------------------------------
\* All steps keep all of it.
UnixInv == Shapes /\ (exercise # Thrice => Everywhere) /\ (exercise = Thrice => ThreeTimes)

\* The exercises begin so.
LEMMA Started == Calls!Init => UnixInv
<1> SUFFICES ASSUME Calls!Init PROVE UnixInv
  OBVIOUS
<1>1. /\ exercise \in Calls!Exercise /\ lines \in 1 .. MaxLines
      /\ life = [p \in Calls!Process |-> IF p = Calls!Main \/ (p = Calls!Other
           /\ Calls!Pair(exercise)) THEN "alive" ELSE "none"]
      /\ role = [p \in Calls!Process |-> IF p = Calls!Other THEN "other" ELSE "main"]
      /\ upc = [p \in Calls!Process |-> 1] /\ env = [p \in Calls!Process |-> Calls!Start]
      /\ fd = [p \in Calls!Process |-> IF life[p] = "alive" THEN [f \in 0 .. 2 |-> Calls!Tty] ELSE <<>>]
      /\ sent = [p \in Calls!Process |-> 0] /\ got = [p \in Calls!Process |-> 0] /\ round = 1
  BY DEF Calls!Init
<1>2. MaxLines \in Nat \ {0} /\ Cap \in Nat \ {0} /\ lines \in Nat \ {0}
  BY <1>1, ProcessesAssumption DEF Calls!UnixAssumption
<1>3. /\ named \in (IF exercise \in Fifos THEN {0, 3} ELSE {0}) /\ used = (IF named = 0 THEN 2 ELSE named)
      /\ key \in {0, 1} /\ made = key /\ stale \in BOOLEAN
  BY DEF Calls!Init, Fifos
<1>4. FixOK
  BY <1>1, <1>3 DEF FixOK
<1>5. ProcOK
  <2>1. life \in [Calls!Process -> Lives] /\ role \in [Calls!Process -> Calls!Role]
          /\ upc \in [Calls!Process -> Nat]
    BY <1>1 DEF Lives, Calls!Role
  <2>2. env \in [Calls!Process -> [Names -> -1 .. Calls!MaxFd]]
    <3>1. Calls!Start \in [Names -> -1 .. Calls!MaxFd]
      BY DEF Calls!Start, Names, Calls!MaxFd
    <3> HIDE DEF Calls!Start
    <3> QED
      BY <1>1, <3>1
  <2>3. sent \in [Calls!Process -> 0 .. MaxLines + 3] /\ got \in [Calls!Process -> 0 .. MaxLines]
    BY <1>1, <1>2
  <2>4. fd = [p \in Calls!Process |-> fd[p]] /\ \A p \in Calls!Process : life[p] # "alive" => fd[p] = <<>>
    BY <1>1
  <2> QED
    BY <2>1, <2>2, <2>3, <2>4 DEF ProcOK
<1>6. BufOK
  <2>1. buf = [c \in Calls!Channel |-> <<>>]
    BY DEF Calls!Init
  <2> QED
    BY <1>2, <2>1 DEF BufOK
<1>7. LinkOK
  <2>1. met = {} /\ listening = FALSE /\ backlog = <<>> /\ failed = {}
    BY DEF Calls!Init
  <2>2. round \in 1 .. 3 /\ used \in 2 .. 5 /\ named \in {0} \cup (3 .. 5)
    <3>1. round = 1
      BY <1>1
    <3> QED
      BY <1>3, <3>1
  <2>3. <<>> \in Seq({3})
    OBVIOUS
  <2> QED
    BY <2>1, <2>2, <2>3 DEF LinkOK
<1>8. QueueOK
  <2>1. queue = [q \in Calls!Queue |-> IF stale /\ q = 1 THEN <<[type |-> 1, msg |-> <<"other",
          0>>]>> ELSE <<>>] /\ asleep = {}
    BY DEF Calls!Init
  <2>2. [type |-> 1, msg |-> <<"other", 0>>] \in Parcel
    BY DEF Parcel, Calls!Message, Calls!Role
  <2>3. <<[type |-> 1, msg |-> <<"other", 0>>]>> \in Seq(Parcel) /\ <<>> \in Seq(Parcel)
    BY <2>2
  <2> QED
    BY <1>3, <2>1, <2>3 DEF QueueOK
<1>9. ASSUME exercise # Thrice PROVE Everywhere
  <2>1. exercise \in Calls!Exercise \ {Thrice} /\ Begins(exercise)
    BY <1>1, <1>9, AllRows DEF Rows
  <2>2. ASSUME NEW r \in {"main", "other"}, r \in Runs(exercise), View(exercise, r, 1) = "ttt", r = "other"
                 => exercise \notin Piped
        PROVE  Here(exercise, r, 1, Calls!Start, [f \in 0 .. 2 |-> Calls!Tty], 0, 0, lines)
    <3>1. 1 \in 1 .. Len(Calls!Program(exercise, r)) + 1
      BY <2>1, <2>2, AllRows DEF Rows, Row
    <3>2. FdFits([f \in 0 .. 2 |-> Calls!Tty], "ttt")
      <4>1. \A n \in 0 .. 4 : Letter("ttt", n) = IF n <= 2 THEN "t" ELSE "."
        BY DEF Letter, Layout
      <4>2. Carries(Calls!Tty, "t")
        BY DEF Carries, Calls!Tty, Calls!Terminal, Calls!Descriptor
      <4> HIDE DEF Calls!Tty
      <4> QED
        BY <4>1, <4>2 DEF FdFits
    <3>3. EnvFits(Calls!Start, exercise, r, 1)
      <4>1. ~(1 > OpenedAt(exercise, r)) /\ ~(exercise \in Piped /\ (r # "main" \/ 1 > 1))
        BY <2>2 DEF OpenedAt
      <4> QED
        BY <4>1 DEF EnvFits, Number, Calls!Start, Names
    <3>4. SentFits(0, lines, exercise, r, 1) /\ GotFits(0, lines, exercise, r, 1)
      BY <1>2, WrittenSomewhere DEF SentFits, GotFits
    <3> QED
      BY <2>2, <3>1, <3>2, <3>3, <3>4 DEF Here, KeyFits
  <2>3. \A p \in Calls!Process : Good(p)
    <3> SUFFICES ASSUME NEW p \in Calls!Process, life[p] = "alive" PROVE Good(p)
      BY DEF Good
    <3>1. /\ upc[p] = 1 /\ env[p] = Calls!Start /\ fd[p] = [f \in 0 .. 2 |-> Calls!Tty] /\ sent[p] = 0 /\ got[p] = 0
          /\ (p = Calls!Main \/ (p = Calls!Other /\ Calls!Pair(exercise)))
               /\ role[p] = (IF p = Calls!Other THEN "other" ELSE "main")
      BY <1>1
    <3>2. (role[p] = "main" => p = Calls!Main) /\ (role[p] = "other" => p = Calls!Other /\ Calls!Pair(exercise))
      BY <3>1 DEF Calls!Main, Calls!Other
    <3>3. Here(exercise, role[p], 1, Calls!Start, [f \in 0 .. 2 |-> Calls!Tty], 0, 0, lines)
      BY <2>1, <2>2, <3>1, <3>2 DEF Begins
    <3> QED
      BY <3>1, <3>2, <3>3 DEF Good
  <2>4. UsedOK
    BY <1>3 DEF UsedOK, Piped, Fifos, Sockets
  <2> QED
    BY <2>3, <2>4 DEF Everywhere
<1>10. ASSUME exercise = Thrice PROVE ThreeTimes
  <2>1. ~Calls!Pair(exercise) /\ exercise \notin Fifos
    BY <1>10 DEF Calls!Pair, Calls!Code, Calls!StudentPipe, Thrice, Fifos
  <2> SUFFICES ASSUME NEW p \in Calls!Process, life[p] = "alive" PROVE InTurn(p)
    BY DEF ThreeTimes, InTurn
  <2>2. p = Calls!Main /\ role[p] = "main" /\ upc[p] = 1 /\ env[p] = Calls!Start
          /\ fd[p] = [f \in 0 .. 2 |-> Calls!Tty] /\ sent[p] = 0
    BY <1>1, <2>1 DEF Calls!Main, Calls!Other
  <2>3. Ours(Calls!Start, [f \in 0 .. 2 |-> Calls!Tty])
    BY DEF Ours, Calls!Start, Calls!Tty, Calls!Terminal, Calls!Descriptor
  <2>4. used = 2 /\ DOMAIN [f \in 0 .. 2 |-> Calls!Tty] = 0 .. 2
    BY <1>3, <2>1
  <2>5. ParentAt(1, Calls!Start, [f \in 0 .. 2 |-> Calls!Tty], 0, 1, 2)
    BY <2>3, <2>4 DEF ParentAt
  <2> QED
    BY <1>1, <2>2, <2>4, <2>5 DEF InTurn
<1> QED
  BY <1>4, <1>5, <1>6, <1>7, <1>8, <1>9, <1>10 DEF UnixInv, Shapes

\* A step of the other programs.
LEMMA NothingMoves == UnixInv /\ UNCHANGED Calls!vars => UnixInv'
<1> SUFFICES ASSUME UnixInv, UNCHANGED Calls!vars PROVE UnixInv'
  OBVIOUS
<1>1. Shapes'
  <2>1. FixOK' /\ BufOK' /\ LinkOK'
    BY DEF UnixInv, Shapes, FixOK, BufOK, LinkOK, Calls!vars
  <2>2. ProcOK'
    BY DEF UnixInv, Shapes, ProcOK, Calls!vars
  <2>3. QueueOK'
    <3>1. \A q \in asleep' : Calls!At(q, "msgrcv")'
      BY DEF UnixInv, Shapes, QueueOK, Calls!At, Calls!Call, Calls!vars
    <3> QED
      BY <3>1 DEF UnixInv, Shapes, QueueOK, Calls!vars
  <2> QED
    BY <2>1, <2>2, <2>3 DEF Shapes
<1>2. exercise # Thrice => Everywhere'
  <2> SUFFICES ASSUME Everywhere PROVE Everywhere'
    BY DEF UnixInv
  <2>1. \A p \in Calls!Process : Good(p)'
    BY Kept2 DEF Everywhere, Calls!vars
  <2>2. UsedOK'
    BY UsedKept DEF Everywhere, First, Calls!vars
  <2> QED
    BY <2>1, <2>2 DEF Everywhere
<1>3. exercise = Thrice => ThreeTimes'
  <2> SUFFICES ASSUME ThreeTimes PROVE ThreeTimes'
    BY DEF UnixInv
  <2> QED
    BY WaitsTurn DEF ThreeTimes, Calls!vars
<1> QED
  BY <1>1, <1>2, <1>3 DEF UnixInv, Calls!vars

\* Every step of an exercise.
LEMMA EveryStep == UnixInv /\ [Calls!Next]_(Calls!vars) => UnixInv'
<1> SUFFICES ASSUME UnixInv, NEW p \in Calls!Process, Calls!Run(p) PROVE UnixInv'
  BY NothingMoves DEF Calls!Next
<1>1. exercise' = exercise
  <2>1. CASE Calls!Return(p) \/ Calls!ForkCall(p) \/ Calls!ExecCall(p)
    BY <2>1 DEF Calls!Return, Calls!ForkCall, Calls!ExecCall, Calls!cfg
  <2>2. CASE Calls!WaitCall(p) \/ Calls!AgainCall(p) \/ Calls!PipeCall(p)
    BY <2>2 DEF Calls!WaitCall, Calls!AgainCall, Calls!PipeCall, Calls!cfg
  <2>3. CASE Calls!Redirect(p) \/ Calls!CreatCall(p) \/ Calls!ReadFileCall(p)
    BY <2>3 DEF Calls!Redirect, Calls!CreatCall, Calls!ReadFileCall, Calls!cfg
  <2>4. CASE Calls!MsggetCall(p) \/ Calls!RmidCall(p) \/ Calls!Fails(p)
    BY <2>4 DEF Calls!MsggetCall, Calls!RmidCall, Calls!Fails, Calls!cfg
  <2>5. CASE Calls!WriteCall(p)
    <3>1. UNCHANGED <<Calls!cfg, got, round, used, Calls!fifos, Calls!queues>>
      BY <2>5, Zenon DEF Calls!WriteCall
    <3> QED
      BY <3>1 DEF Calls!cfg
  <2>6. CASE Calls!CopyCall(p)
    <3>1. UNCHANGED <<Calls!cfg, life, role, env, fd, sent, round, used, Calls!fifos, Calls!sockets, Calls!queues>>
      BY <2>6, Zenon DEF Calls!CopyCall
    <3> QED
      BY <3>1 DEF Calls!cfg
  <2>7. CASE Calls!Fifo(p)
    <3>1. UNCHANGED <<Calls!cfg, life, role, Calls!counts, buf, Calls!sockets, Calls!queues, failed>>
      BY <2>7, Zenon DEF Calls!Fifo
    <3> QED
      BY <3>1 DEF Calls!cfg
  <2>8. CASE Calls!Socket(p)
    <3>1. UNCHANGED <<Calls!cfg, life, role, Calls!counts, buf, Calls!fifos, Calls!queues, failed>>
      BY <2>8, Zenon DEF Calls!Socket
    <3> QED
      BY <3>1 DEF Calls!cfg
  <2>9. CASE Calls!MsgsndCall(p)
    <3>1. UNCHANGED <<Calls!cfg, life, role, env, fd, got, round, used, Calls!fifos, Calls!sockets, key, made,
            failed>>
      BY <2>9, Zenon DEF Calls!MsgsndCall
    <3> QED
      BY <3>1 DEF Calls!cfg
  <2>10. CASE Calls!MsgrcvCall(p)
    <3>1. UNCHANGED <<Calls!cfg, life, role, env, fd, Calls!counts, used, Calls!fifos, Calls!sockets, key,
            made, failed>>
      BY <2>10, Zenon DEF Calls!MsgrcvCall
    <3> QED
      BY <3>1 DEF Calls!cfg
  <2> QED
    BY <2>1, <2>2, <2>3, <2>4, <2>5, <2>6, <2>7, <2>8, <2>9, <2>10, Zenon DEF Calls!Run
<1> QED
  BY <1>1, OthersStep, OurStep DEF UnixInv

\* What it says of the types.
LEMMA UnixTypes == UnixInv => Calls!TypeOK
<1> SUFFICES ASSUME UnixInv PROVE Calls!TypeOK
  OBVIOUS
<1>1. FixOK /\ ProcOK /\ BufOK /\ LinkOK /\ QueueOK
  BY DEF UnixInv, Shapes
<1>2. ASSUME NEW p \in Calls!Process, life[p] = "alive"
      PROVE  /\ upc[p] \in 1 .. Len(Calls!Program(exercise, role[p])) + 1 /\ DOMAIN fd[p] \subseteq 0 .. Calls!MaxFd
             /\ \A f \in DOMAIN fd[p] : fd[p][f] \in Calls!Descriptor
  <2>1. CASE exercise # Thrice
    <3>1. Here(exercise, role[p], upc[p], env[p], fd[p], sent[p], got[p], lines)
      BY <1>2, <2>1 DEF UnixInv, Everywhere, Good
    <3> QED
      BY <3>1 DEF Here, FdFits, Carries, Calls!MaxFd
  <2>2. CASE exercise = Thrice
    <3>1. InTurn(p)
      BY <2>2 DEF UnixInv, ThreeTimes
    <3>2. CASE p = Calls!Main
      <4>1. role[p] = "main" /\ ParentAt(upc[p], env[p], fd[p], sent[p], round, used) /\ round \in 1 .. 3
        BY <1>1, <1>2, <3>1, <3>2 DEF InTurn, LinkOK
      <4>2. Len(Calls!Program(exercise, role[p])) = 7
        BY <2>2, <4>1, OurPrograms
      <4>3. DOMAIN fd[p] \subseteq 0 .. Calls!MaxFd
        <5>1. 2 * round + (IF upc[p] = 1 THEN 0 ELSE 2) \in 2 .. 8
          BY <4>1
        <5> QED
          BY <4>1, <5>1 DEF ParentAt, Calls!MaxFd
      <4>4. upc[p] \in 1 .. 8 /\ Ours(env[p], fd[p])
        BY <4>1 DEF ParentAt
      <4>5. \A f \in DOMAIN fd[p] : fd[p][f] \in Calls!Descriptor
        BY <4>4 DEF Ours
      <4> QED
        BY <4>2, <4>3, <4>4, <4>5
    <3>3. CASE p # Calls!Main
      <4>1. role[p] = "child" /\ ChildAt(upc[p], env[p], fd[p], sent[p])
        BY <1>2, <3>1, <3>3 DEF InTurn
      <4>2. Len(Calls!Program(exercise, role[p])) = 3
        BY <2>2, <4>1, OurPrograms
      <4>3. upc[p] \in 1 .. 4 /\ Ours(env[p], fd[p]) /\ DOMAIN fd[p] \subseteq 0 .. Calls!MaxFd
        BY <4>1 DEF ChildAt
      <4>4. \A f \in DOMAIN fd[p] : fd[p][f] \in Calls!Descriptor
        BY <4>3 DEF Ours
      <4> QED
        BY <4>2, <4>3, <4>4
    <3> QED
      BY <3>2, <3>3
  <2> QED
    BY <2>1, <2>2
<1>3. \A p \in Calls!Process : DOMAIN fd[p] \subseteq 0 .. Calls!MaxFd
        /\ \A f \in DOMAIN fd[p] : fd[p][f] \in Calls!Descriptor
  <2> SUFFICES ASSUME NEW p \in Calls!Process
               PROVE  DOMAIN fd[p] \subseteq 0 .. Calls!MaxFd
                        /\ \A f \in DOMAIN fd[p] : fd[p][f] \in Calls!Descriptor
    OBVIOUS
  <2>1. CASE life[p] = "alive"
    BY <1>2, <2>1
  <2>2. CASE life[p] # "alive"
    <3>1. fd[p] = <<>>
      BY <1>1, <2>2 DEF ProcOK
    <3>2. DOMAIN fd[p] = {}
      BY <3>1
    <3> QED
      BY <3>2
  <2> QED
    BY <2>1, <2>2
<1>4. \A p \in Calls!Process : life[p] = "alive" => upc[p] \in 1 .. Len(Calls!Program(exercise, role[p])) + 1
  BY <1>2
<1>5. used \in Calls!Channel /\ named \in {0} \cup Calls!Channel /\ backlog \in Seq(Calls!Channel)
  BY <1>1 DEF LinkOK, Calls!Channel
<1>6. key \in {0} \cup Calls!Queue /\ made \in {0} \cup Calls!Queue
  BY <1>1 DEF QueueOK, Calls!Queue
<1>7. env \in [Calls!Process -> [{"in", "out", "err", "r", "w", "fd"} -> -1 .. Calls!MaxFd]]
  BY <1>1 DEF ProcOK, Names
<1>8. \A c \in Calls!Channel : buf[c] \in Seq(Calls!Message) /\ (c > Calls!File => Len(buf[c]) <= Cap)
  BY <1>1 DEF BufOK
<1>9. /\ life \in [Calls!Process -> {"none", "alive", "zombie", "gone"}] /\ role \in [Calls!Process -> Calls!Role]
      /\ sent \in [Calls!Process -> 0 .. MaxLines + 3] /\ got \in [Calls!Process -> 0 .. MaxLines]
  BY <1>1 DEF ProcOK, Lives
<1> QED
  BY <1>1, <1>3, <1>4, <1>5, <1>6, <1>7, <1>8, <1>9 DEF Calls!TypeOK, FixOK, LinkOK, QueueOK

\* In every exercise the processes stay in their programs, the descriptors lead to channels, and a pipe
\* holds no more than it can (Unix).
THEOREM CallsTyped == PrSpec => []Calls!TypeOK
<1>1. PrInit => UnixInv
  BY Started DEF PrInit
<1>2. UnixInv /\ [PrNext]_<<running, signalVars, pathVars, callVars>> => UnixInv'
  BY EveryStep, RunningParts
<1> QED
  BY <1>1, <1>2, UnixTypes, PTL DEF PrSpec

\* The types of all programs of a run: SignalSync, spusti.c and the exercises of Unix.
THEOREM TypesHold == PrSpec => []Types
<1>1. Signals!TypeOK /\ Paths!TypeOK /\ Calls!TypeOK => Types
  BY DEF Types
<1> QED
  BY <1>1, SignalsTyped, PathsTyped, CallsTyped, PTL
=============================================================================
