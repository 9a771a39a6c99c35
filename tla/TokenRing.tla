----------------------------- MODULE TokenRing -----------------------------
(***************************************************************************)
(* Code/6cviko/wrappers: blok2_base.c with sem_wrapper.h and shm_wrapper.h *)
(* The parent creates N children and a set of N semaphores, all zero, and  *)
(* opens one of them.  A child waits for the semaphore with its own        *)
(* number, writes its pid into the shared memory, and opens the semaphore  *)
(* the shuffled sequence names for the next child: one token goes round.   *)
(* SIGUSR2 makes the parent send SIGINT to the children, whose handler     *)
(* sets the flag that ends their loop; the parent then waits for all of    *)
(* them and removes semaphores and memory.                                 *)
(***************************************************************************)
EXTENDS Integers

CONSTANTS
  N,            \* the argument of -c
  Untouched,    \* what the shared memory holds before the first write
  ForkMayFail   \* may fork fail?

ASSUME RingAssumption ==
  /\ N \in Nat \ {0}
  /\ Untouched \notin 0 .. N - 1
  /\ ForkMayFail \in BOOLEAN

Child == 0 .. N - 1

VARIABLES
  sequence,   \* semObj.sequence
  sem,        \* the semaphores
  ppc, k,     \* the parent: where it is, and its loop variable
  usr2,       \* SIGUSR2 of the parent: "unsent", "pending" or "taken"
  blocked,    \* has the parent blocked SIGUSR2?
  reaped,     \* the children the parent has waited for
  cpc,        \* the children
  flag,       \* childTerminationFlag of each child
  pid,        \* the shared memory: whose pid it holds
  removed     \* the IPC objects that have been removed

parent == <<ppc, k, usr2, blocked, reaped>>
vars == <<sequence, sem, parent, cpc, flag, pid, removed>>

Inside == {"write", "sleep"}        \* a child between connectShm and disconnectShm
Outside == {"test", "call", "asleep", "release"}

\* Semaphores never go below zero, and parent and children are in a known place.
TypeOK ==
  /\ sequence \in [Child -> Child]
  /\ sem \in [Child -> Nat]
  /\ ppc \in {"fork", "enable", "block", "sigwait", "kill", "wait",
              "deinit_sem", "deinit_shm", "returned", "died"}
  /\ k \in 0 .. N
  /\ usr2 \in {"unsent", "pending", "taken"}
  /\ blocked \in BOOLEAN
  /\ reaped \subseteq Child
  /\ cpc \in [Child -> {"unborn", "start", "exited"} \cup Inside \cup Outside]
  /\ flag \in [Child -> BOOLEAN]
  /\ pid \in Child \cup {Untouched}
  /\ removed \subseteq {"sem", "shm"}

\* Shuffling swaps N pairs of places, which can give every order of the semaphores.
Orders == {s \in [Child -> Child] : \A c, d \in Child : s[c] = s[d] => c = d}

\* initSem and initShm are over.
Init ==
  /\ sequence \in Orders
  /\ sem = [c \in Child |-> 0]
  /\ ppc = "fork" /\ k = 0
  /\ usr2 = "unsent" /\ blocked = FALSE
  /\ reaped = {}
  /\ cpc = [c \in Child |-> "unborn"]
  /\ flag = [c \in Child |-> FALSE]
  /\ pid = Untouched
  /\ removed = {}

getSemId(i) == sequence[IF i >= N THEN 0 ELSE i]

Goto(c, from, to) == cpc[c] = from /\ cpc' = [cpc EXCEPT ![c] = to]

-----------------------------------------------------------------------------
\* The parent.
Fork ==
  /\ ppc = "fork"
  /\ Goto(k, "unborn", "start")
  /\ k' = k + 1
  /\ ppc' = IF k + 1 = N THEN "enable" ELSE "fork"
  /\ UNCHANGED <<sequence, sem, usr2, blocked, reaped, flag, pid, removed>>

\* CHECK( fork() != -1 ) ends the parent and leaves the children it has.
ForkFails ==
  /\ ForkMayFail
  /\ ppc = "fork" /\ ppc' = "died"
  /\ UNCHANGED <<sequence, sem, k, usr2, blocked, reaped, cpc, flag, pid, removed>>

\* Slip: the semaphores start open.
EnableEvery ==
  /\ ppc = "enable" /\ ppc' = "block"
  /\ sem' = [c \in Child |-> 1]
  /\ UNCHANGED <<sequence, k, usr2, blocked, reaped, cpc, flag, pid, removed>>

Enable ==
  /\ ppc = "enable" /\ ppc' = "block"
  /\ sem' = [sem EXCEPT ![getSemId(0)] = @ + 1]
  /\ UNCHANGED <<sequence, k, usr2, blocked, reaped, cpc, flag, pid, removed>>

Block ==
  /\ ppc = "block" /\ ppc' = "sigwait"
  /\ blocked' = TRUE
  /\ UNCHANGED <<sequence, sem, k, usr2, reaped, cpc, flag, pid, removed>>

\* Somebody sends SIGUSR2, which kills a parent that has not blocked it yet.
Usr2 ==
  /\ usr2 = "unsent" /\ ppc \notin {"returned", "died"}
  /\ usr2' = "pending"
  /\ ppc' = IF blocked THEN ppc ELSE "died"
  /\ UNCHANGED <<sequence, sem, k, blocked, reaped, cpc, flag, pid, removed>>

Sigwait ==
  /\ ppc = "sigwait" /\ usr2 = "pending"
  /\ usr2' = "taken"
  /\ ppc' = "kill" /\ k' = 0
  /\ UNCHANGED <<sequence, sem, blocked, reaped, cpc, flag, pid, removed>>

(***************************************************************************)
(* kill( childrenPids[k], SIGINT ).  The default action kills a child that *)
(* has not installed its handler.  A child asleep in semop whose operation *)
(* nobody has completed gets EINTR, which CHECK turns into exit.           *)
(***************************************************************************)
AfterSigint(c) ==
  IF cpc[c] = "start" \/ (cpc[c] = "asleep" /\ sem[c] = 0) THEN "exited" ELSE cpc[c]

\* Slip: the loop that waits goes on counting where this one has stopped.
KillChildKeepsK ==
  /\ ppc = "kill"
  /\ cpc' = [cpc EXCEPT ![k] = AfterSigint(k)]
  /\ flag' = [flag EXCEPT ![k] = TRUE]
  /\ k' = k + 1
  /\ ppc' = IF k + 1 = N THEN "wait" ELSE "kill"
  /\ UNCHANGED <<sequence, sem, usr2, blocked, reaped, pid, removed>>

KillChild ==
  /\ ppc = "kill"
  /\ cpc' = [cpc EXCEPT ![k] = AfterSigint(k)]
  /\ flag' = [flag EXCEPT ![k] = TRUE]
  /\ k' = IF k + 1 = N THEN 0 ELSE k + 1
  /\ ppc' = IF k + 1 = N THEN "wait" ELSE "kill"
  /\ UNCHANGED <<sequence, sem, usr2, blocked, reaped, pid, removed>>

\* Slip: the parent does not wait for its children.
WaitChildNot ==
  /\ ppc = "wait" /\ ppc' = "deinit_sem"
  /\ UNCHANGED <<sequence, sem, k, usr2, blocked, reaped, cpc, flag, pid, removed>>

WaitChild ==
  /\ ppc = "wait"
  /\ \E c \in Child \ reaped : cpc[c] = "exited" /\ reaped' = reaped \cup {c}
  /\ k' = k + 1
  /\ ppc' = IF k + 1 = N THEN "deinit_sem" ELSE "wait"
  /\ UNCHANGED <<sequence, sem, usr2, blocked, cpc, flag, pid, removed>>

DeinitSem ==
  /\ ppc = "deinit_sem" /\ ppc' = "deinit_shm"
  /\ removed' = removed \cup {"sem"}
  /\ UNCHANGED <<sequence, sem, k, usr2, blocked, reaped, cpc, flag, pid>>

DeinitShm ==
  /\ ppc = "deinit_shm" /\ ppc' = "returned"
  /\ removed' = removed \cup {"shm"}
  /\ UNCHANGED <<sequence, sem, k, usr2, blocked, reaped, cpc, flag, pid>>

-----------------------------------------------------------------------------
\* The children.
InstallHandler(c) ==
  /\ Goto(c, "start", "test")
  /\ UNCHANGED <<sequence, sem, parent, flag, pid, removed>>

\* while( childTerminationFlag == 0 )
Test(c) ==
  /\ Goto(c, "test", IF flag[c] THEN "exited" ELSE "call")
  /\ UNCHANGED <<sequence, sem, parent, flag, pid, removed>>

\* Slip: the child does not wait for its semaphore.
TakeNoWait(c) ==
  /\ cpc[c] = "call"
  /\ sem' = [sem EXCEPT ![c] = IF @ > 0 THEN @ - 1 ELSE 0]
  /\ cpc' = [cpc EXCEPT ![c] = "write"]
  /\ UNCHANGED <<sequence, parent, flag, pid, removed>>

\* waitSem( childId ): the child takes its semaphore, or goes to sleep and is
\* served when it is opened.
Take(c) ==
  /\ cpc[c] \in {"call", "asleep"}
  /\ IF sem[c] > 0
     THEN /\ sem' = [sem EXCEPT ![c] = @ - 1]
          /\ cpc' = [cpc EXCEPT ![c] = "write"]
     ELSE /\ Goto(c, "call", "asleep")
          /\ UNCHANGED sem
  /\ UNCHANGED <<sequence, parent, flag, pid, removed>>

\* connectShm, data->pid = getpid()
Write(c) ==
  /\ Goto(c, "write", "sleep")
  /\ pid' = c
  /\ UNCHANGED <<sequence, sem, parent, flag, removed>>

\* The end of sleep, disconnectShm
Disconnect(c) ==
  /\ Goto(c, "sleep", "release")
  /\ UNCHANGED <<sequence, sem, parent, flag, pid, removed>>

\* Slip: the child opens the semaphore the sequence names for itself.
ReleaseOwn(c) ==
  /\ Goto(c, "release", "test")
  /\ sem' = [sem EXCEPT ![getSemId(c)] = @ + 1]
  /\ UNCHANGED <<sequence, parent, flag, pid, removed>>

\* enableSem( getSemId( childId + 1 ) )
Release(c) ==
  /\ Goto(c, "release", "test")
  /\ sem' = [sem EXCEPT ![getSemId(c + 1)] = @ + 1]
  /\ UNCHANGED <<sequence, parent, flag, pid, removed>>

-----------------------------------------------------------------------------
Parent == \/ Fork \/ ForkFails \/ Enable \/ Block \/ Sigwait \/ KillChild \/ WaitChild
          \/ DeinitSem \/ DeinitShm

ChildStep(c) == \/ InstallHandler(c) \/ Test(c) \/ Take(c) \/ Write(c) \/ Disconnect(c)
                \/ Release(c)

Next == Parent \/ Usr2 \/ \E c \in Child : ChildStep(c)

Spec == Init /\ [][Next]_vars

\* The processes run on; each semaphore has one process that waits for it.
FairSpec == Spec /\ WF_vars(Parent) /\ \A c \in Child : WF_vars(ChildStep(c))

-----------------------------------------------------------------------------
Holds(c) == cpc[c] \in Inside \cup {"release"}
Tokens == {<<"sem", c>> : c \in {d \in Child : sem[d] > 0}} \cup
          {<<"child", c>> : c \in {d \in Child : Holds(d)}}

(***************************************************************************)
(* There is one token, in a semaphore or with a child, from the moment the *)
(* parent opens the first semaphore until the end, whatever the order of   *)
(* the sequence and whenever SIGINT arrives.                               *)
(***************************************************************************)
OneToken ==
  /\ \A c \in Child : sem[c] <= 1
  /\ \A s, t \in Tokens : s = t
  /\ ppc \notin {"fork", "enable", "died"} => Tokens # {}

(***************************************************************************)
(* The pid a child has written stays in the memory as long as the child is *)
(* connected to it: nobody else writes meanwhile.                          *)
(***************************************************************************)
PidStays == \A c \in Child : cpc[c] = "sleep" => pid = c

(***************************************************************************)
(* Semaphores and memory are removed only after every child has ended; no  *)
(* child finds them gone.                                                  *)
(***************************************************************************)
RemovedUnused == removed # {} => \A c \in Child : cpc[c] = "exited"

\* The children the token reaches: sequence[0], and from c the one that
\* sequence names for c + 1.
Reached[n \in 0 .. N] ==
  IF n = 0 THEN {getSemId(0)} ELSE Reached[n - 1] \cup {getSemId(c + 1) : c \in Reached[n - 1]}

(***************************************************************************)
(* The children the shuffled sequence leads to get their turn again and    *)
(* again, as long as nobody sends SIGUSR2 and fork does not fail.  The     *)
(* sequence need not be one cycle: the children it does not lead to never  *)
(* write their pid.                                                        *)
(***************************************************************************)
TurnsComeRound ==
  <>(usr2 # "unsent" \/ ppc = "died") \/
  \A c \in Child : c \in Reached[N] => []<>(cpc[c] = "sleep")

(***************************************************************************)
(* A child ends after it has received the signal, and so the parent does   *)
(* (blok2_base.c:43, 91: "ukonci sa po prijati signalu").                  *)
(***************************************************************************)
EndsAfterSignal == (ppc = "wait") ~> (ppc = "returned")
=============================================================================
