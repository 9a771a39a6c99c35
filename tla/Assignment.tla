----------------------------- MODULE Assignment -----------------------------
(***************************************************************************)
(* What the homework programs promise (the pseudocode at the head of       *)
(* shareMem.c and mapMem.c): the teacher gives two numbers, the student    *)
(* adds them, and the teacher sees the sum of these two and not before.    *)
(***************************************************************************)
EXTENDS Integers

CONSTANTS Numbers, None

VARIABLES
  given,    \* the two numbers, or None
  answer,   \* the student's sum, or None
  seen      \* what the teacher sees in the end, or None

Init == given = None /\ answer = None /\ seen = None

Give ==
  /\ given = None
  /\ given' \in Numbers \X Numbers
  /\ UNCHANGED <<answer, seen>>

Solve ==
  /\ given # None /\ answer = None
  /\ answer' = given[1] + given[2]
  /\ UNCHANGED <<given, seen>>

See ==
  /\ answer # None /\ seen = None
  /\ seen' = answer
  /\ UNCHANGED <<given, answer>>

Next == Give \/ Solve \/ See

Spec == Init /\ [][Next]_<<given, answer, seen>>
=============================================================================
