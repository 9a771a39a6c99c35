----------------------------- MODULE Exercises -----------------------------
(***************************************************************************)
(* The small programs about processes, pipes, fifos, message queues and    *)
(* sockets, each as the system calls its processes make.  main is the      *)
(* program, child and child2 are what it forks, other is the second        *)
(* program of a pair.  Module Unix says what the calls do.                 *)
(* Descriptors go by their variables: in, out and err are 0, 1 and 2, r    *)
(* and w the ends of a pipe, fd is any other.                              *)
(***************************************************************************)
EXTENDS Integers, Sequences

Pipe == [op |-> "pipe"]
\* What a fork that fails leads to: the line of the program, or its end.
TheEnd == 100
Fork(child, fail) == [op |-> "fork", child |-> child, fail |-> fail]
Exec(program) == [op |-> "exec", program |-> program]
Wait == [op |-> "wait"]
Close(f) == [op |-> "close", f |-> f]
Dup(f) == [op |-> "dup", f |-> f]
Dup2(f, g) == [op |-> "dup2", f |-> f, g |-> g]
Creat == [op |-> "creat"]
ReadFile == [op |-> "readfile"]
\* One message, or as many as there are lines.
Write(f, n) == [op |-> "write", f |-> f, n |-> n]
\* Reads from f and prints on g: one message, as many as there are lines, or up to the end.
Copy(f, g, n) == [op |-> "copy", f |-> f, g |-> g, n |-> n]
Mkfifo == [op |-> "mkfifo"]
Open(end) == [op |-> "open", end |-> end]
Opened(end) == [op |-> "opened", end |-> end]
Unlink == [op |-> "unlink"]
Again(n) == [op |-> "again", n |-> n]
Msgget(how) == [op |-> "msgget", how |-> how]
Msgsnd(type) == [op |-> "msgsnd", type |-> type]
Msgrcv(type) == [op |-> "msgrcv", type |-> type]
Rmid == [op |-> "rmid"]
Listen == [op |-> "listen"]
Accept == [op |-> "accept"]
Connect == [op |-> "connect"]

\* The programs that are executed: sort, cut and wc read to the end, who, ls and ps print lines.
Reader == <<Copy("in", "out", "all")>>
Printer == <<Write("out", "lines")>>

-----------------------------------------------------------------------------
\* learning/4prednaska/04.pipe.
Childpipe ==
  [main |-> <<Pipe, Fork("child", TheEnd), Close("r"), Write("w", "lines"), Close("w")>>,
   child |-> <<Close("w"), Copy("r", "out", "all"), Close("r")>>]
Parent2child ==
  [main |-> <<Pipe, Fork("child", TheEnd), Close("out"), Dup("w"), Close("r"), Close("w"),
              Write("out", "lines"), Close("out"), Wait>>,
   child |-> <<Close("in"), Dup("r"), Close("r"), Close("w"), Copy("in", "err", "all")>>]
Who2myCut ==
  [main |-> <<Pipe, Fork("child", TheEnd), Close("w"), Copy("r", "out", "all"), Wait>>,
   child |-> <<Close("out"), Close("out"), Dup("w"), Close("r"), Close("w"), Exec("printer")>>]
Who2cut ==
  [main |-> <<Pipe, Fork("child", TheEnd), Fork("child2", TheEnd), Wait>>,
   child |-> <<Close("in"), Dup("r"), Close("r"), Close("w"), Exec("reader")>>,
   child2 |-> <<Close("out"), Dup("w"), Close("r"), Close("w"), Exec("printer")>>]
Dup2sort ==
  [main |-> <<Pipe, Fork("child", TheEnd), Close("r"), Write("w", "lines"), Close("w"), Wait>>,
   child |-> <<Close("w"), Dup2("r", "in"), Exec("reader")>>]
\* Slip: the copy of the descriptor does not take the place of standard output.
Stdout2fileNotClosed ==
  [main |-> <<Fork("child", TheEnd), Wait>>,
   child |-> <<Creat, Dup("fd"), Close("fd"), Exec("printer")>>]
Stdout2file ==
  [main |-> <<Fork("child", TheEnd), Wait>>,
   child |-> <<Creat, Close("out"), Dup("fd"), Close("fd"), Exec("printer")>>]
\* fgets returns NULL at the end, before feof is asked: the program exits without pclose.
Popen ==
  [main |-> <<Pipe, Fork("child", TheEnd), Close("w"), Creat, Dup2("fd", "out"),
              Copy("r", "out", "all")>>,
   child |-> <<Close("r"), Dup2("w", "out"), Close("w"), Exec("printer")>>]

\* learning/5prednaska/05.fifo: pipe.c, pipe1.c, rfifo3.c, wfifo3.c.
PipeToSort ==
  [main |-> <<Pipe, Fork("child", TheEnd), Close("r"), Write("w", "lines"), Close("w"), Wait>>,
   child |-> <<Close("w"), Dup2("r", "in"), Exec("reader")>>]
PsToWc ==
  [main |-> <<Pipe, Fork("child", TheEnd), Close("w"), Wait,
              Fork("child2", TheEnd), Close("r"), Wait>>,
   child |-> <<Close("r"), Dup2("w", "out"), Exec("printer")>>,
   child2 |-> <<Close("w"), Dup2("r", "in"), Exec("reader")>>]
Rfifo3 == <<Mkfifo, Open("r"), Opened("r"), Close("in"), Dup("fd"), Close("fd"), Exec("reader")>>
Wfifo3 == <<Mkfifo, Open("w"), Opened("w"), Close("out"), Dup("fd"), Close("fd"), Exec("printer")>>

\* learning/5prednaska/05.fronta and 05.socket/local.
QueueServer == <<Msgget("create"), Msgrcv(0), Msgsnd(2), Rmid>>
QueueClient == <<Msgget("create"), Msgsnd(1), Msgrcv(2)>>
LocalServer == <<Listen, Accept, Write("fd", "lines"), Copy("fd", "out", "lines")>>
LocalClient == <<Connect, Copy("fd", "out", "lines"), Write("fd", "lines"), Close("fd")>>

\* 5cviko: the records of students.  The pipe is made three times, also after a fork that failed.
\* Slip: once more.
StudentPipeOneMore ==
  [main |-> <<Pipe, Fork("child", 7), Close("r"), Write("w", "one"), Close("w"), Wait, Again(4)>>,
   child |-> <<Close("w"), Copy("r", "out", "all"), Close("r")>>]
StudentPipe ==
  [main |-> <<Pipe, Fork("child", 7), Close("r"), Write("w", "one"), Close("w"), Wait, Again(3)>>,
   child |-> <<Close("w"), Copy("r", "out", "all"), Close("r")>>]
FifoReceiver == <<Mkfifo, Open("r"), Opened("r"), Unlink, Copy("fd", "out", "all"), Close("fd")>>
FifoSender == <<Mkfifo, Open("w"), Opened("w"), Write("fd", "lines"), Close("fd")>>
MsgQueueReceiver == <<Msgget("get"), Msgrcv(1), Msgrcv(2), Msgrcv(2), Rmid>>
MsgQueueSender == <<Msgget("excl"), Msgsnd(1), Msgsnd(2), Msgsnd(2)>>
SocketServer == <<Listen, Accept, Copy("fd", "out", "one"), Write("fd", "one"), Close("fd")>>
SocketClient == <<Connect, Write("fd", "one"), Copy("fd", "out", "one"), Close("fd")>>

\* 24_2, 2cviko, 3cviko, learning/2prednaska: processes and redirection.
Spawn == [main |-> <<Fork("child", 2), Wait>>, child |-> <<Exec("printer")>>]
Lsko == [main |-> <<Fork("child", 2)>>, child |-> <<Exec("printer")>>]
ExecRun == [main |-> <<Fork("child", 2), Wait>>, child |-> <<Exec("printer"), Wait>>]
ExecOnly == [main |-> <<Exec("printer")>>]
ForkWrite == [main |-> <<Fork("child", 2), Write("out", "one")>>, child |-> <<Write("out", "one")>>]
ForkPrintf == ForkWrite
ForkOnly == [main |-> <<Fork("child", TheEnd)>>, child |-> <<>>]
ForkZombie == ForkOnly
ForkWait == [main |-> <<Fork("child", TheEnd), Wait>>, child |-> <<>>]
WaitStatus == ForkWait
ReturnCode == ForkWait
BothWait == [main |-> <<Fork("child", 2), Wait>>, child |-> <<Wait>>]
\* The code has five children.
Multiproc ==
  [main |-> <<Fork("child", TheEnd), Fork("child2", TheEnd), Wait, Wait, Write("out", "one")>>,
   child |-> <<Write("out", "one")>>, child2 |-> <<Write("out", "one")>>]
Procesy ==
  [main |-> <<Fork("child", TheEnd), Wait, ReadFile>>,
   child |-> <<Creat, Write("fd", "one"), Close("fd")>>]
Presmer == [main |-> <<Creat, Close("out"), Dup("fd"), Close("fd"), Write("out", "one")>>]
Presmerovanie ==
  [main |-> <<Creat, Close("out"), Dup2("fd", "out"), Close("fd"), Write("out", "one"),
              Exec("printer")>>]

Code ==
  [childpipe |-> Childpipe, parent2child |-> Parent2child, who2my_cut |-> Who2myCut,
   who2cut |-> Who2cut, dup2sort |-> Dup2sort, stdout2file |-> Stdout2file, popen |-> Popen,
   pipe |-> PipeToSort, pipe1 |-> PsToWc, fifo3 |-> [main |-> Rfifo3, other |-> Wfifo3],
   fronta |-> [main |-> QueueServer, other |-> QueueClient],
   local |-> [main |-> LocalServer, other |-> LocalClient],
   studentPipe |-> StudentPipe, studentFifo |-> [main |-> FifoReceiver, other |-> FifoSender],
   studentQueue |-> [main |-> MsgQueueReceiver, other |-> MsgQueueSender],
   studentSocket |-> [main |-> SocketServer, other |-> SocketClient],
   spawn |-> Spawn, lsko |-> Lsko, execRun |-> ExecRun, execOnly |-> ExecOnly,
   forkWrite |-> ForkWrite, forkPrintf |-> ForkPrintf, forkOnly |-> ForkOnly,
   forkZombie |-> ForkZombie, forkWait |-> ForkWait, waitStatus |-> WaitStatus,
   returncode |-> ReturnCode, bothWait |-> BothWait, multiproc |-> Multiproc,
   procesy |-> Procesy, presmer |-> Presmer, presmerovanie |-> Presmerovanie]
Exercise == DOMAIN Code
Program(e, role) ==
  IF role = "reader" THEN Reader ELSE IF role = "printer" THEN Printer ELSE Code[e][role]
=============================================================================
