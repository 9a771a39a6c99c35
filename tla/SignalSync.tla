----------------------------- MODULE SignalSync -----------------------------
(***************************************************************************)
(* The programs about signals, each a parent and a child, or one receiver: *)
(*   sync    3prednaska 02.synch_syn.SIGUSR: parent2.c and child2.c take   *)
(*           turns with SIGUSR1 and SIGUSR2, blocked and taken by sigwait  *)
(*   async   3prednaska 03.asynch_syn.SIGUSR: parent3.c and child3.c do so *)
(*           with handlers that count in x, a test of x, and sigsuspend    *)
(*   chld    3prednaska 01.uvod.SIGCHILD: the handler waits for the child  *)
(*   once    4cviko signalSynchronizacia.c: one SIGUSR1, blocked at first  *)
(*   kill    24_2 06.kill: stop, continue and terminate the child          *)
(*   wait    24_2 07.wait/02: the same, then wait for it                   *)
(*   catch, suspend, sigwait   4cviko signalReceiver*.c                    *)
(* A signal is delivered before the next system call of its process.       *)
(***************************************************************************)
EXTENDS Integers

CONSTANTS
  MayFail,     \* calls that may fail: "fork", "exec"
  MaxOutside   \* signals from the terminal or from other programs

\* What the module that instantiates this one assumes.
SignalAssumption == MayFail \subseteq {"fork", "exec"} /\ MaxOutside \in Nat

VARIABLES
  prog,      \* which program it is
  at,        \* where parent and child are
  pend,      \* pending signals
  mask,      \* blocked signals
  caught,    \* signals with a handler
  stopped,   \* the processes that SIGSTOP has stopped
  x, finish, \* the variables of async
  how,       \* how the process has ended
  outside,   \* how many signals have come from outside
  lost       \* has async lost a signal, and where?

vars == <<prog, at, pend, mask, caught, stopped, x, finish, how, outside, lost>>
signals == <<pend, mask, caught, stopped>>
user == <<x, finish, lost>>

Pairs == {"sync", "async", "chld", "once", "kill", "wait"}
Receivers == {"catch", "suspend", "sigwait"}
Process == {"parent", "child"}
Other(p) == IF p = "parent" THEN "child" ELSE "parent"
Sig == {"INT", "TERM", "USR1", "USR2", "CHLD", "STOP"}
Gone == {"zombie", "reaped"}
Alive(p) == at[p] \notin {"unborn"} \cup Gone
Setup == {"int", "usr", "block", "fork", "exec", "term"}

\* The processes are where their programs can be.  x counts at most
\* two signals of the partner, and one for each time a signal from outside makes it repeat.
TypeOK ==
  /\ prog \in Pairs \cup Receivers
  /\ at \in [Process -> {"unborn", "send", "sigwait", "test", "suspend", "asleep", "got", "reset",
                         "answer", "run", "stop", "cont", "kill", "wait", "sleep", "exit"}
                        \cup Setup \cup Gone]
  /\ pend \in [Process -> SUBSET Sig] /\ mask \in [Process -> SUBSET Sig]
  /\ caught \in [Process -> SUBSET Sig]
  /\ stopped \subseteq {"child"}
  /\ x \in [Process -> 0 .. 2 + MaxOutside] /\ finish \subseteq {"child"}
  /\ how \in [Process -> {"none", "exit"} \cup Sig]
  /\ outside \in 0 .. MaxOutside
  /\ lost \in {"no", "gap", "reset"}

Begin(g) ==
  CASE g \in {"sync", "async"} -> "int" [] g = "chld" -> "usr"
    [] g = "once" -> "block" [] g \in {"kill", "wait"} -> "fork" [] OTHER -> "unborn"
Receiver(g) == IF g = "suspend" THEN "int" ELSE IF g \in Receivers THEN "usr" ELSE "unborn"

Init ==
  /\ prog \in Pairs \cup Receivers
  /\ at = [p \in Process |-> IF p = "parent" THEN Begin(prog) ELSE Receiver(prog)]
  /\ pend = [p \in Process |-> {}] /\ mask = [p \in Process |-> {}]
  /\ caught = [p \in Process |-> {}] /\ stopped = {}
  /\ x = [p \in Process |-> 0] /\ finish = {}
  /\ how = [p \in Process |-> "none"]
  /\ outside = 0 /\ lost = "no"

-----------------------------------------------------------------------------
\* The kernel's part.
Due(p) == pend[p] \ mask[p]
Ready(p, from) == at[p] = from /\ Due(p) = {} /\ p \notin stopped
Goto(p, from, to) == Ready(p, from) /\ at' = [at EXCEPT ![p] = to]
Quiet(p, from, to) == Goto(p, from, to) /\ UNCHANGED <<prog, signals, user, how, outside>>

\* kill(q, s): SIGCONT continues the process at once and cancels a SIGSTOP.
Sent(q, s) == IF Alive(q) THEN [pend EXCEPT ![q] = @ \cup {s}] ELSE pend
Kill(p, from, to, q, s) ==
  /\ Goto(p, from, to)
  /\ pend' = Sent(q, s)
  /\ UNCHANGED <<prog, mask, caught, stopped, user, how, outside>>

Catch(p, from, to, s) ==
  /\ Goto(p, from, to)
  /\ caught' = [caught EXCEPT ![p] = @ \cup {s}]
  /\ UNCHANGED <<prog, pend, mask, stopped, user, how, outside>>

Block(p, from, to, s) ==
  /\ Goto(p, from, to)
  /\ mask' = [mask EXCEPT ![p] = @ \cup {s}]
  /\ UNCHANGED <<prog, pend, caught, stopped, user, how, outside>>

Sigwait(p, to, s) ==
  /\ Ready(p, "sigwait") /\ s \in pend[p]
  /\ at' = [at EXCEPT ![p] = to]
  /\ pend' = [pend EXCEPT ![p] = @ \ {s}]
  /\ UNCHANGED <<prog, mask, caught, stopped, user, how, outside>>

\* sigsuspend leaves only the signals of set unblocked; it returns when a handler has run.
Sigsuspend(p, set) ==
  /\ Goto(p, "suspend", "asleep")
  /\ mask' = [mask EXCEPT ![p] = Sig \ (set \cup {"STOP"})]
  /\ UNCHANGED <<prog, pend, caught, stopped, user, how, outside>>

\* The process ends; the parent of the pair gets SIGCHLD.
Ends(p, h, pending) ==
  /\ at' = [at EXCEPT ![p] = IF p = "child" /\ Alive("parent") THEN "zombie" ELSE "reaped"]
  /\ pend' = [q \in Process |-> IF q = p THEN {} ELSE IF q = "parent" /\ Alive(q)
                                THEN pending[q] \cup {"CHLD"} ELSE pending[q]]
  /\ how' = [how EXCEPT ![p] = h]
  /\ stopped' = stopped \ {p}
  /\ UNCHANGED <<prog, mask, caught, user, outside>>

Exit(p) == Ready(p, "exit") /\ Ends(p, "exit", pend)

Fork(to, childTo) ==
  \/ /\ Ready("parent", "fork")
     /\ at' = [at EXCEPT !["parent"] = to, !["child"] = childTo]
     /\ mask' = [mask EXCEPT !["child"] = mask["parent"]]
     /\ caught' = [caught EXCEPT !["child"] = caught["parent"]]
     /\ UNCHANGED <<prog, pend, stopped, user, how, outside>>
  \/ Ready("parent", "fork") /\ "fork" \in MayFail /\ Ends("parent", "exit", pend)

\* exec keeps the mask and forgets the handlers.
Exec(to) ==
  \/ /\ Goto("child", "exec", to)
     /\ caught' = [caught EXCEPT !["child"] = {}]
     /\ UNCHANGED <<prog, pend, mask, stopped, user, how, outside>>
  \/ Ready("child", "exec") /\ "exec" \in MayFail /\ Ends("child", "exit", pend)

-----------------------------------------------------------------------------
\* Delivery.  Without a handler SIGCHLD is ignored, SIGSTOP stops, the others kill.
Default(p) ==
  \E s \in Due(p) \ caught[p] :
    /\ at[p] \notin Gone
    /\ CASE s = "STOP" -> /\ stopped' = stopped \cup {p}
                          /\ pend' = [pend EXCEPT ![p] = @ \ {s}]
                          /\ UNCHANGED <<prog, at, mask, caught, user, how, outside>>
         [] s = "CHLD" -> /\ pend' = [pend EXCEPT ![p] = @ \ {s}]
                          /\ UNCHANGED <<prog, at, mask, caught, stopped, user, how, outside>>
         [] OTHER      -> p \notin stopped /\ Ends(p, s, pend)

\* sigsuspend gives the old mask back: none of its callers has blocked anything.  In
\* signalReceiverSync.c no handler can run while it sleeps.
Returns(p) == at' = [at EXCEPT ![p] = IF @ # "asleep" THEN @
                                       ELSE IF p = "parent" THEN "got" ELSE "answer"]
Handles(p, s) ==
  /\ at[p] \notin Gone /\ s \in Due(p) \cap caught[p] /\ p \notin stopped
  /\ pend' = [pend EXCEPT ![p] = @ \ {s}]
  /\ mask' = IF at[p] = "asleep" THEN [mask EXCEPT ![p] = {}] ELSE mask
  /\ Returns(p)
  /\ UNCHANGED <<prog, caught, stopped, how, outside>>

\* user_signal_handler, user_sig_handler: x++.  Between the test of x and sigsuspend, and
\* between the answer and x=0, nobody will see it.
UserHandler(p) ==
  /\ prog = "async" /\ Handles(p, IF p = "child" THEN "USR1" ELSE "USR2")
  /\ x' = [x EXCEPT ![p] = @ + 1]
  /\ lost' = IF at[p] = "suspend" THEN "gap" ELSE IF at[p] \in {"got", "reset"} THEN "reset" ELSE lost
  /\ UNCHANGED finish

\* child3.c: finish = 1.  A handler that prints and returns has nothing to remember.
TermHandler == prog = "async" /\ Handles("child", "TERM") /\ finish' = {"child"} /\ UNCHANGED <<x, lost>>
PrintHandler(s) == prog \in Receivers /\ Handles("child", s) /\ UNCHANGED user
ChildTermHandler ==     \* child2.c: exit
  /\ prog = "sync" /\ "TERM" \in Due("child") \cap caught["child"]
  /\ Ends("child", "exit", pend)

\* The SIGINT handlers, which the child has too until exec.  Where pidG is still 0, kill
\* goes to the whole group.  parent2.c exits; parent3.c sets finish to 0 and goes on.
IntHandler(p) ==
  /\ prog \in {"sync", "async"} /\ Alive(p) /\ "INT" \in Due(p) \cap caught[p]
  /\ \/ /\ p = "child" \/ at["child"] = "unborn"
        /\ Ends(p, "TERM", Sent(Other(p), "TERM"))
     \/ /\ prog = "sync" /\ p = "parent" /\ at["child"] # "unborn"
        /\ Ends("parent", "exit", Sent("child", "TERM"))
     \/ /\ prog = "async" /\ p = "parent" /\ at["child"] # "unborn"
        /\ pend' = [Sent("child", "TERM") EXCEPT ![p] = @ \ {"INT"}]
        /\ mask' = IF at[p] = "asleep" THEN [mask EXCEPT ![p] = {}] ELSE mask
        /\ Returns(p)
        /\ UNCHANGED <<prog, caught, stopped, user, how, outside>>

\* parent1.c: wait(&status) in the handler of SIGCHLD.
ChldHandler ==
  /\ prog = "chld" /\ Alive("parent") /\ "CHLD" \in Due("parent") \cap caught["parent"]
  /\ at["child"] = "zombie"
  /\ at' = [at EXCEPT !["child"] = "reaped"]
  /\ pend' = [pend EXCEPT !["parent"] = @ \ {"CHLD"}]
  /\ UNCHANGED <<prog, mask, caught, stopped, user, how, outside>>

\* A signal from the terminal goes to both, one from another program to a receiver.
Outside ==
  /\ outside < MaxOutside
  /\ outside' = outside + 1
  /\ \/ /\ prog \in {"sync", "async"}
        /\ pend' = [p \in Process |-> IF Alive(p) THEN pend[p] \cup {"INT"} ELSE pend[p]]
     \/ prog \in Receivers /\ Alive("child") /\ \E s \in {"INT", "USR1"} : pend' = Sent("child", s)
  /\ UNCHANGED <<prog, at, mask, caught, stopped, user, how>>

-----------------------------------------------------------------------------
\* x is tested, and set to zero after it has been printed.  child3.c does so only when it
\* has answered.
\* Slip: the process sleeps without having tested x.
TestForgotten(p, heard) == Quiet(p, "test", "suspend")

Test(p, heard) ==
  \/ x[p] = 0 /\ Quiet(p, "test", "suspend")
  \/ x[p] > 0 /\ Quiet(p, "test", heard)

Reset(p, to) ==
  /\ Goto(p, "reset", to)
  /\ x' = [x EXCEPT ![p] = 0]
  /\ UNCHANGED <<prog, signals, finish, how, outside, lost>>

\* parent2.c and child2.c.
Sync ==
  /\ prog = "sync"
  /\ \/ Catch("parent", "int", "block", "INT")
     \/ Block("parent", "block", "fork", "USR2")
     \/ Fork("send", "exec")
     \/ Kill("parent", "send", "sigwait", "child", "USR1")
     \/ Sigwait("parent", "send", "USR2")
SyncChild ==
  /\ prog = "sync"
  /\ \/ Exec("block")
     \/ Block("child", "block", "term", "USR1")
     \/ Catch("child", "term", "sigwait", "TERM")
     \/ Sigwait("child", "answer", "USR1")
     \/ Kill("child", "answer", "sigwait", "parent", "USR2")

\* parent3.c and child3.c.
Async ==
  /\ prog = "async"
  /\ \/ Catch("parent", "int", "usr", "INT")
     \/ Catch("parent", "usr", "fork", "USR2")
     \/ Fork("send", "exec")
     \/ Kill("parent", "send", "test", "child", "USR1")
     \/ Test("parent", "got")
     \/ Sigsuspend("parent", {"USR2", "INT"})
     \/ Quiet("parent", "got", "reset")
     \/ Reset("parent", "send")
AsyncChild ==
  /\ prog = "async"
  /\ \/ Exec("term")
     \/ Catch("child", "term", "usr", "TERM")
     \/ Catch("child", "usr", IF finish = {} THEN "test" ELSE "exit", "USR1")
     \/ Test("child", "answer")
     \/ Sigsuspend("child", {"TERM", "USR1"})
     \/ Kill("child", "answer", "reset", "parent", "USR2")
     \/ Reset("child", IF finish = {} THEN "test" ELSE "exit")

\* parent1.c: any signal ends its sleep.
Chld ==
  /\ prog = "chld"
  /\ \/ Catch("parent", "usr", "fork", "CHLD")
     \/ Fork("sleep", "exec")
     \/ Quiet("parent", "sleep", "exit")
ChldChild == prog = "chld" /\ Exec("exit")

\* Slip: the signal is not blocked before the fork.
OnceUnblocked ==
  /\ prog = "once"
  /\ \/ Quiet("parent", "block", "fork")
     \/ Fork("send", "sigwait")
     \/ Kill("parent", "send", "exit", "child", "USR1")

\* signalSynchronizacia.c: the child inherits the mask.
Once ==
  /\ prog = "once"
  /\ \/ Block("parent", "block", "fork", "USR1")
     \/ Fork("send", "sigwait")
     \/ Kill("parent", "send", "exit", "child", "USR1")
OnceChild == prog = "once" /\ Sigwait("child", "exit", "USR1")

\* SIGCONT continues a process at once and cancels a SIGSTOP that is still pending.
Continue(p, from, to, q) ==
  /\ Goto(p, from, to)
  /\ pend' = [pend EXCEPT ![q] = @ \ {"STOP"}]
  /\ stopped' = stopped \ {q}
  /\ UNCHANGED <<prog, mask, caught, user, how, outside>>
Wait ==
  /\ Ready("parent", "wait") /\ at["child"] = "zombie"
  /\ at' = [at EXCEPT !["parent"] = "exit", !["child"] = "reaped"]
  /\ UNCHANGED <<prog, signals, user, how, outside>>
StopAndKill(to) ==
  \/ Fork("stop", "run")
  \/ Kill("parent", "stop", "cont", "child", "STOP")
  \/ Continue("parent", "cont", "kill", "child")
  \/ Kill("parent", "kill", to, "child", "TERM")
KillChild == prog = "kill" /\ StopAndKill("exit")
WaitChild == prog = "wait" /\ (StopAndKill("wait") \/ Wait)
LoopEnds == prog \in {"kill", "wait"} /\ Quiet("child", "run", "exit")   \* after four years

\* signalReceiverAsync.c loops for ever, signalReceiverSync.c sleeps, and
\* signalReceiverSync_sigwait.c waits, for SIGUSR1.
ReceiverAsync ==
  prog = "catch" /\ (Catch("child", "usr", "int", "USR1") \/ Catch("child", "int", "run", "INT"))
ReceiverSync ==
  prog = "suspend" /\ (Catch("child", "int", "suspend", "INT") \/ Sigsuspend("child", {"USR1"}))
ReceiverSigwait ==
  /\ prog = "sigwait"
  /\ \/ Catch("child", "usr", "block", "USR1")
     \/ Block("child", "block", "sigwait", "USR1")
     \/ Sigwait("child", "exit", "USR1")

Run(p) ==
  \/ Default(p) \/ UserHandler(p) \/ IntHandler(p) \/ Exit(p)
  \/ p = "parent" /\ (ChldHandler \/ Sync \/ Async \/ Chld \/ Once \/ KillChild \/ WaitChild)
  \/ p = "child" /\ \/ TermHandler \/ PrintHandler("INT") \/ PrintHandler("USR1") \/ ChildTermHandler
                    \/ SyncChild \/ AsyncChild \/ ChldChild \/ OnceChild
                    \/ ReceiverAsync \/ ReceiverSync \/ ReceiverSigwait

Next == Outside \/ LoopEnds \/ \E p \in Process : Run(p)
Spec == Init /\ [][Next]_vars
\* The scheduler runs every process; how long the loop of the child lasts is not promised.
FairSpec == Spec /\ \A p \in Process : WF_vars(Run(p))

-----------------------------------------------------------------------------
\* Who is to print next: sync's and async's processes pass one token around.
Turns ==
  {w \in {"parent", "toChild", "child", "toParent"} :
     \/ w = "parent" /\ \/ at["parent"] \in Setup \cup {"send", "got", "reset"}
                        \/ at["parent"] = "test" /\ x["parent"] > 0
     \/ w = "toChild" /\ "USR1" \in pend["child"]
     \/ w = "child" /\ \/ at["child"] = "answer"
                       \/ at["child"] = "test" /\ x["child"] > 0
     \/ w = "toParent" /\ "USR2" \in pend["parent"]}

\* The two programs print in turns and none of the signals that pass the turn is lost
\* (README.txt of 02 and 03): one of the processes, or one signal, always has the turn.  In
\* 03 this ends with a signal that comes between the test of x and sigsuspend (child3.c:47,
\* parent3.c:67), or between the child's answer and its x = 0 (child3.c:52).
OneTurn ==
  prog \in {"sync", "async"} /\ outside = 0 /\ how = [p \in Process |-> "none"] /\ lost = "no"
    => \E w \in Turns : Turns = {w}

\* Once its process has blocked or caught it, a signal of the partner kills nobody: it does so only
\* before (parent2.c:50 and parent3.c:65 send without knowing whether the child is ready).
\* Of the receivers, signalReceiverSync.c has no handler for the signal it waits for.
KilledUnprepared ==
  [][\A p \in Process : how[p] = "none" /\ how'[p] \in {"USR1", "USR2"}
       => at[p] \in Setup \/ prog = "suspend"]_vars

Ended == at["parent"] \in Gone /\ at["child"] \in Gone \cup {"unborn"}

\* Every program ends that is meant to: those with a single signal by themselves, also when the
\* child is stopped in between; 02 with CTRL-C, of 03 only the child; a receiver that
\* waits, with SIGUSR1.  In 02 and 03 the turns go on unless the child died.
SignalsEnd ==
  /\ prog \in {"chld", "once", "kill", "wait"} ~> Ended
  /\ prog = "sync" /\ outside > 0 ~> Ended
  /\ prog = "async" /\ outside > 0 ~> at["child"] \in Gone \cup {"unborn"}
  /\ prog \in Receivers /\ at["child"] \in {"sigwait", "asleep"} /\ "USR1" \in pend["child"]
        ~> at["child"] \in Gone
  /\ prog = "sync" ~> at["parent"] = "send" \/ at["child"] \in Gone \/ outside > 0 \/ Ended
=============================================================================
