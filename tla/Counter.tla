------------------------------ MODULE Counter ------------------------------
(***************************************************************************)
(* 24_2/02.procesy/01.cnt: two threads add to cnt without a lock.  As      *)
(* main.S beside the source shows, an iteration loads cnt into tmp, adds   *)
(* to tmp, which is the thread's own, and stores it into cnt.              *)
(***************************************************************************)
EXTENDS Integers

CONSTANTS
  Iter,            \* ITER
  CreateMayFail    \* may pthread_create fail?

\* What the module that instantiates this one assumes.
CounterAssumption == Iter \in Nat \ {0, 1} /\ CreateMayFail \in BOOLEAN

VARIABLES
  cnt,       \* the shared counter
  main,      \* where the program is
  at,        \* where the threads are
  i, tmp     \* their own variables

vars == <<cnt, main, at, i, tmp>>

Thread == 1 .. 2

\* The variables have their types.
TypeOK ==
  /\ cnt \in Nat /\ main \in {"create1", "create2", "join1", "join2", "printed", "aborted"}
  /\ at \in [Thread -> {"none", "load", "store", "done"}]
  /\ i \in [Thread -> 0 .. Iter] /\ tmp \in [Thread -> Nat]

Init ==
  /\ cnt = 0 /\ main = "create1"
  /\ at = [t \in Thread |-> "none"]
  /\ i = [t \in Thread |-> 0] /\ tmp = [t \in Thread |-> 0]

Create(t, from, to) ==
  /\ main = from
  /\ \/ main' = to /\ at' = [at EXCEPT ![t] = "load"]
     \/ CreateMayFail /\ main' = "aborted" /\ at' = [u \in Thread |-> "done"]
  /\ UNCHANGED <<cnt, i, tmp>>

Join(t, from, to) ==
  /\ main = from /\ at[t] = "done"
  /\ main' = to
  /\ UNCHANGED <<cnt, at, i, tmp>>

\* Slip: main waits for one of the threads only.
MainJoinsOne == Create(1, "create1", "create2") \/ Create(2, "create2", "join1") \/ Join(1, "join1", "printed")
Main ==
  \/ Create(1, "create1", "create2") \/ Create(2, "create2", "join1")
  \/ Join(1, "join1", "join2") \/ Join(2, "join2", "printed")

Load(t) ==
  /\ at[t] = "load" /\ i[t] < Iter
  /\ tmp' = [tmp EXCEPT ![t] = cnt + 1]
  /\ at' = [at EXCEPT ![t] = "store"]
  /\ UNCHANGED <<cnt, main, i>>

Store(t) ==
  /\ at[t] = "store"
  /\ cnt' = tmp[t]
  /\ i' = [i EXCEPT ![t] = @ + 1]
  /\ at' = [at EXCEPT ![t] = "load"]
  /\ UNCHANGED <<main, tmp>>

Return(t) ==
  /\ at[t] = "load" /\ i[t] = Iter
  /\ at' = [at EXCEPT ![t] = "done"]
  /\ UNCHANGED <<cnt, main, i, tmp>>

Next == Main \/ \E t \in Thread : Load(t) \/ Store(t) \/ Return(t)
Spec == Init /\ [][Next]_vars

-----------------------------------------------------------------------------
\* However the threads interleave, what main.c prints after the joins (as OK or ERROR) is no
\* more than 2 * ITER, and as little as 2, not ITER: one thread may store what it has loaded at
\* the start when the other has all but one of its iterations behind it.
CounterBounds == main = "printed" => cnt \in 2 .. 2 * Iter
=============================================================================
