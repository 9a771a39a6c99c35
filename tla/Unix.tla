------------------------------- MODULE Unix -------------------------------
(***************************************************************************)
(* What the system calls of the programs in Exercises do: processes with   *)
(* their descriptors, pipes and fifos with a limited capacity, one message *)
(* queue and one socket address.  A message is who wrote it and its        *)
(* number.  What a program prints on the terminal or into its file stays   *)
(* there.                                                                  *)
(***************************************************************************)
EXTENDS Exercises, FiniteSets

CONSTANTS
  Cap,        \* how many messages a pipe or a socket holds
  MaxLines,   \* how many messages a writer writes at most
  MayFail     \* calls that may fail: "fork", "exec"

\* What the module that instantiates this one assumes.
UnixAssumption == Cap \in Nat \ {0} /\ MaxLines \in Nat \ {0}
                  /\ MayFail \subseteq {"fork", "exec"}

VARIABLES
  exercise, lines,   \* which program, and how many lines it writes
  life, role, pc,    \* the processes, their programs and places
  env, fd,           \* their variables and descriptors
  sent, got, round,  \* messages written and read, rounds of StudentPipe
  buf, used,         \* what is in the channels, and how many there are
  named, met,        \* the fifo in the file system, and who has opened which fifo
  listening, backlog,
  key, made,         \* the message queue that has the key, and how many there were
  queue, asleep,     \* what is in them, and who sleeps in msgrcv
  stale,             \* was there a message in the queue before?
  failed             \* who has ended because of a call that failed

vars == <<exercise, lines, life, role, pc, env, fd, sent, got, round, buf, used, named, met,
          listening, backlog, key, made, queue, asleep, stale, failed>>
cfg == <<exercise, lines, stale>>
counts == <<sent, got, round>>
channels == <<buf, used>>
fifos == <<named, met>>
sockets == <<listening, backlog>>
queues == <<key, made, queue, asleep>>

Main == 1
Other == 2
Child == 3 .. 4
Process == {Main, Other} \cup Child
Terminal == 1
File == 2
Channel == 1 .. 5
MaxFd == 8
Queue == 1 .. 2

Role == {"main", "other", "child", "child2", "reader", "printer"}
Message == (Role \X (1 .. MaxLines + 3)) \cup (Role \X {0})
Descriptor == [in : 0 .. 5, out : 0 .. 5]

\* The processes are in their programs, the descriptors lead to channels, the pipes hold
\* no more than they can.
TypeOK ==
  /\ exercise \in Exercise /\ lines \in 1 .. MaxLines /\ stale \in BOOLEAN
  /\ life \in [Process -> {"none", "alive", "zombie", "gone"}] /\ role \in [Process -> Role]
  /\ \A p \in Process : life[p] = "alive" => pc[p] \in 1 .. Len(Program(exercise, role[p])) + 1
  /\ env \in [Process -> [{"in", "out", "err", "r", "w", "fd"} -> -1 .. MaxFd]]
  /\ \A p \in Process : DOMAIN fd[p] \subseteq 0 .. MaxFd /\ \A f \in DOMAIN fd[p] : fd[p][f] \in Descriptor
  /\ sent \in [Process -> 0 .. MaxLines + 3] /\ got \in [Process -> 0 .. MaxLines] /\ round \in 1 .. 3
  /\ \A c \in Channel : buf[c] \in Seq(Message) /\ (c > File => Len(buf[c]) <= Cap)
  /\ used \in Channel /\ named \in {0} \cup Channel
  /\ met \subseteq Channel \X {"r", "w"}
  /\ listening \in BOOLEAN /\ backlog \in Seq(Channel)
  /\ key \in {0} \cup Queue /\ made \in {0} \cup Queue /\ asleep \subseteq Process /\ failed \subseteq Process

Start == [in |-> 0, out |-> 1, err |-> 2, r |-> -1, w |-> -1, fd |-> -1]
Tty == [in |-> 0, out |-> Terminal]
Pair(e) == "other" \in DOMAIN Code[e]

\* A fifo, or a queue with or without messages, may be left from an earlier run.
Init ==
  /\ exercise \in Exercise /\ lines \in 1 .. MaxLines
  /\ life = [p \in Process |-> IF p = Main \/ (p = Other /\ Pair(exercise)) THEN "alive" ELSE "none"]
  /\ role = [p \in Process |-> IF p = Other THEN "other" ELSE "main"]
  /\ pc = [p \in Process |-> 1]
  /\ env = [p \in Process |-> Start]
  /\ fd = [p \in Process |-> IF life[p] = "alive" THEN [f \in 0 .. 2 |-> Tty] ELSE <<>>]
  /\ sent = [p \in Process |-> 0] /\ got = [p \in Process |-> 0] /\ round = 1
  /\ buf = [c \in Channel |-> <<>>]
  /\ named \in IF exercise \in {"fifo3", "studentFifo"} THEN {0, 3} ELSE {0}
  /\ used = IF named = 0 THEN 2 ELSE named
  /\ met = {}
  /\ listening = FALSE /\ backlog = <<>>
  /\ key \in IF exercise \in {"fronta", "studentQueue"} THEN {0, 1} ELSE {0}
  /\ made = key
  /\ stale \in IF key = 1 THEN BOOLEAN ELSE {FALSE}
  /\ queue = [q \in Queue |-> IF stale /\ q = 1 THEN <<[type |-> 1, msg |-> <<"other", 0>>]>> ELSE <<>>]
  /\ asleep = {} /\ failed = {}

-----------------------------------------------------------------------------
Call(p) == Program(exercise, role[p])[pc[p]]
At(p, op) ==
  /\ life[p] = "alive" /\ pc[p] \in DOMAIN Program(exercise, role[p])
  /\ Call(p).op = op
Step(p) == pc' = [pc EXCEPT ![p] = @ + 1]
Fd(p, f) == env[p][f]
Holds(p, f) == Fd(p, f) \in DOMAIN fd[p]
Least(S) == CHOOSE n \in S : \A m \in S : n <= m
Free(p) == Least((0 .. MaxFd) \ DOMAIN fd[p])
With(p, n, d) == [m \in DOMAIN fd[p] \cup {n} |-> IF m = n THEN d ELSE fd[p][m]]
Without(p, n) == [m \in DOMAIN fd[p] \ {n} |-> fd[p][m]]
\* Connections that wait to be accepted are open on the side of the server.
Pending(c) == \E i \in DOMAIN backlog : c \in {backlog[i], backlog[i] + 1}
HasReader(c) == Pending(c) \/ \E p \in Process : \E f \in DOMAIN fd[p] : fd[p][f].in = c
HasWriter(c) == Pending(c) \/ \E p \in Process : \E f \in DOMAIN fd[p] : fd[p][f].out = c

\* The end of a process closes its descriptors.  The children of main are zombies until it waits, and
\* nobody's when it has ended.
Ends(p, bad) ==
  /\ life' = [q \in Process |->
                IF q = p THEN IF p \in Child /\ life[Main] = "alive" THEN "zombie" ELSE "gone"
                ELSE IF p = Main /\ life[q] = "zombie" THEN "gone" ELSE life[q]]
  /\ fd' = [fd EXCEPT ![p] = <<>>]
  /\ listening' = (listening /\ p # Main)
  /\ backlog' = IF p = Main THEN <<>> ELSE backlog
  /\ failed' = IF bad THEN failed \cup {p} ELSE failed
  /\ UNCHANGED <<role, pc, env>>

Return(p) ==
  /\ life[p] = "alive" /\ pc[p] \notin DOMAIN Program(exercise, role[p])
  /\ Ends(p, FALSE)
  /\ UNCHANGED <<cfg, counts, channels, fifos, queues>>

ForkCall(p) ==
  /\ At(p, "fork")
  /\ \/ \E q \in {q \in Child : life[q] # "alive" /\ life[q] # "zombie"} :
          /\ \A c \in Child : c < q => life[c] \in {"alive", "zombie"}
          /\ life' = [life EXCEPT ![q] = "alive"]
          /\ role' = [role EXCEPT ![q] = Call(p).child]
          /\ pc' = [pc EXCEPT ![p] = @ + 1, ![q] = 1]
          /\ env' = [env EXCEPT ![q] = env[p]]
          /\ fd' = [fd EXCEPT ![q] = fd[p]]
          /\ sent' = [sent EXCEPT ![q] = 0]
          /\ got' = [got EXCEPT ![q] = 0]
          /\ UNCHANGED <<round, sockets, failed>>
     \/ /\ "fork" \in MayFail /\ Call(p).fail # TheEnd
        /\ pc' = [pc EXCEPT ![p] = Call(p).fail]
        /\ failed' = failed \cup {p}
        /\ UNCHANGED <<life, role, env, fd, counts, sockets>>
     \/ /\ "fork" \in MayFail /\ Call(p).fail = TheEnd
        /\ Ends(p, TRUE)
        /\ UNCHANGED counts
  /\ UNCHANGED <<cfg, channels, fifos, queues>>

\* exec keeps the descriptors; where it fails, all programs say so and return.
ExecCall(p) ==
  /\ At(p, "exec")
  /\ \/ /\ role' = [role EXCEPT ![p] = Call(p).program]
        /\ pc' = [pc EXCEPT ![p] = 1]
        /\ sent' = [sent EXCEPT ![p] = 0]
        /\ UNCHANGED failed
     \/ /\ "exec" \in MayFail
        /\ Step(p)
        /\ failed' = failed \cup {p}
        /\ UNCHANGED <<role, sent>>
  /\ UNCHANGED <<cfg, life, env, fd, got, round, channels, fifos, sockets, queues>>

WaitCall(p) ==
  /\ At(p, "wait")
  /\ \/ \E q \in Child : /\ p = Main /\ life[q] = "zombie"
                         /\ life' = [life EXCEPT ![q] = "none"]
     \/ /\ p = Main => \A q \in Child : life[q] \notin {"alive", "zombie"}
        /\ UNCHANGED life
  /\ Step(p)
  /\ UNCHANGED <<cfg, role, env, fd, counts, channels, fifos, sockets, queues, failed>>

AgainCall(p) ==
  /\ At(p, "again")
  /\ round' = IF round < Call(p).n THEN round + 1 ELSE round
  /\ pc' = [pc EXCEPT ![p] = IF round < Call(p).n THEN 1 ELSE @ + 1]
  /\ UNCHANGED <<cfg, life, role, env, fd, sent, got, channels, fifos, sockets, queues, failed>>

-----------------------------------------------------------------------------
\* Descriptors.  pipe and dup take the lowest ones; an error of close is ignored.
PipeCall(p) ==
  /\ At(p, "pipe")
  /\ LET c == used + 1  r == Free(p)  w == Least((0 .. MaxFd) \ (DOMAIN fd[p] \cup {r})) IN
       /\ env' = [env EXCEPT ![p]["r"] = r, ![p]["w"] = w]
       /\ fd' = [fd EXCEPT ![p] = [m \in DOMAIN @ \cup {r, w} |->
                   IF m = r THEN [in |-> c, out |-> 0] ELSE IF m = w THEN [in |-> 0, out |-> c] ELSE @[m]]]
       /\ used' = c
  /\ Step(p)
  /\ UNCHANGED <<cfg, life, role, counts, buf, fifos, sockets, queues, failed>>

Redirect(p) ==
  /\ \/ At(p, "close") /\ fd' = [fd EXCEPT ![p] = Without(p, Fd(p, Call(p).f))]
     \/ At(p, "dup") /\ Holds(p, Call(p).f)
                     /\ fd' = [fd EXCEPT ![p] = With(p, Free(p), fd[p][Fd(p, Call(p).f)])]
     \/ At(p, "dup2") /\ Holds(p, Call(p).f)
                      /\ fd' = [fd EXCEPT ![p] = With(p, Fd(p, Call(p).g), fd[p][Fd(p, Call(p).f)])]
  /\ Step(p)
  /\ UNCHANGED <<cfg, life, role, env, counts, channels, fifos, sockets, queues, failed>>

\* open of the file the program writes, and, in ReadFile, of the one it prints.
CreatCall(p) ==
  /\ At(p, "creat")
  /\ env' = [env EXCEPT ![p]["fd"] = Free(p)]
  /\ fd' = [fd EXCEPT ![p] = With(p, Free(p), [in |-> 0, out |-> File])]
  /\ Step(p)
  /\ UNCHANGED <<cfg, life, role, counts, channels, fifos, sockets, queues, failed>>
ReadFileCall(p) ==
  /\ At(p, "readfile")
  /\ buf' = [buf EXCEPT ![Terminal] = @ \o buf[File]]
  /\ Step(p)
  /\ UNCHANGED <<cfg, life, role, env, fd, counts, used, fifos, sockets, queues, failed>>

\* write: waits for room, and without a reader SIGPIPE ends the process.
WriteCall(p) ==
  /\ At(p, "write") /\ Holds(p, Call(p).f)
  /\ LET c == fd[p][Fd(p, Call(p).f)].out
         last == Call(p).n = "one" \/ sent[p] + 1 = lines
     IN
     \/ /\ c \in {Terminal, File} \/ (HasReader(c) /\ Len(buf[c]) < Cap)
        /\ buf' = [buf EXCEPT ![c] = Append(@, <<role[p], sent[p] + 1>>)]
        /\ sent' = [sent EXCEPT ![p] = @ + 1]
        /\ pc' = [pc EXCEPT ![p] = IF last THEN @ + 1 ELSE @]
        /\ UNCHANGED <<life, role, env, fd, sockets, failed>>
     \/ /\ c \notin {Terminal, File} /\ ~HasReader(c)
        /\ Ends(p, TRUE)
        /\ UNCHANGED <<buf, sent>>
  /\ UNCHANGED <<cfg, got, round, used, fifos, queues>>

\* read, or fgets: the end comes when nobody can write any more.
CopyCall(p) ==
  /\ At(p, "copy") /\ Holds(p, Call(p).f)
  /\ LET c == fd[p][Fd(p, Call(p).f)].in
         to == fd[p][Fd(p, Call(p).g)].out
         last == Call(p).n = "one" \/ (Call(p).n = "lines" /\ got[p] + 1 = lines)
     IN
     \/ /\ buf[c] # <<>>
        /\ buf' = [buf EXCEPT ![c] = Tail(@), ![to] = Append(@, Head(buf[c]))]
        /\ got' = [got EXCEPT ![p] = IF Call(p).n = "lines" THEN @ + 1 ELSE @]
        /\ pc' = [pc EXCEPT ![p] = IF last THEN @ + 1 ELSE @]
        /\ UNCHANGED failed
     \/ /\ buf[c] = <<>> /\ ~HasWriter(c)
        /\ Step(p)
        /\ UNCHANGED <<buf, got, failed>>
  /\ UNCHANGED <<cfg, life, role, env, fd, sent, round, used, fifos, sockets, queues>>

-----------------------------------------------------------------------------
\* Fifos.  Each open waits until the other end has been opened.
Fifo(p) ==
  /\ \/ /\ At(p, "mkfifo")
        /\ named' = IF named = 0 THEN used + 1 ELSE named
        /\ used' = IF named = 0 THEN used + 1 ELSE used
        /\ UNCHANGED <<env, fd, met>>
     \/ /\ At(p, "open") /\ named # 0
        /\ env' = [env EXCEPT ![p]["fd"] = Free(p)]
        /\ fd' = [fd EXCEPT ![p] = With(p, Free(p), IF Call(p).end = "r" THEN [in |-> named, out |-> 0]
                                                                        ELSE [in |-> 0, out |-> named])]
        /\ met' = met \cup {<<named, Call(p).end>>}
        /\ UNCHANGED <<named, used>>
     \/ /\ At(p, "opened")
        /\ <<LET d == fd[p][env[p]["fd"]] IN d.in + d.out, IF Call(p).end = "r" THEN "w" ELSE "r">> \in met
        /\ UNCHANGED <<env, fd, named, met, used>>
     \/ /\ At(p, "unlink")
        /\ named' = 0
        /\ UNCHANGED <<env, fd, met, used>>
  /\ Step(p)
  /\ UNCHANGED <<cfg, life, role, counts, buf, sockets, queues, failed>>

-----------------------------------------------------------------------------
\* Sockets.  The server removes an old name, binds and listens; connect fails before that and
\* does not wait for accept.
Socket(p) ==
  /\ \/ /\ At(p, "listen")
        /\ listening' = TRUE
        /\ UNCHANGED <<env, fd, used, backlog>>
     \/ /\ At(p, "connect") /\ listening
        /\ used' = used + 2
        /\ backlog' = Append(backlog, used + 1)
        /\ env' = [env EXCEPT ![p]["fd"] = Free(p)]
        /\ fd' = [fd EXCEPT ![p] = With(p, Free(p), [in |-> used + 2, out |-> used + 1])]
        /\ UNCHANGED listening
     \/ /\ At(p, "accept") /\ backlog # <<>>
        /\ env' = [env EXCEPT ![p]["fd"] = Free(p)]
        /\ fd' = [fd EXCEPT ![p] = With(p, Free(p), [in |-> Head(backlog), out |-> Head(backlog) + 1])]
        /\ backlog' = Tail(backlog)
        /\ UNCHANGED <<listening, used>>
  /\ Step(p)
  /\ UNCHANGED <<cfg, life, role, counts, buf, fifos, queues, failed>>

\* Message queues.  A receiver that sleeps gets the message at once; the end of
\* the queue wakes it with an error, which ends all programs that meet it.
Matches(q, type) == Call(q).type \in {0, type}
Printed(type, msg) == IF type = 2 THEN [buf EXCEPT ![Terminal] = Append(@, msg)] ELSE buf
MsggetCall(p) ==
  /\ At(p, "msgget")
  /\ Call(p).how = "get" => key # 0
  /\ Call(p).how = "excl" => key = 0
  /\ key' = IF key # 0 THEN key ELSE made + 1
  /\ made' = IF key # 0 THEN made ELSE made + 1
  /\ env' = [env EXCEPT ![p]["fd"] = key']
  /\ Step(p)
  /\ UNCHANGED <<cfg, life, role, fd, counts, channels, fifos, sockets, queue, asleep, failed>>
Msqid(p) == env[p]["fd"]
MsgsndCall(p) ==
  /\ At(p, "msgsnd") /\ Msqid(p) = key
  /\ LET type == Call(p).type  msg == <<role[p], sent[p] + 1>>
         sleepers == {q \in asleep : Msqid(q) = key /\ Matches(q, type)}
     IN
     \/ \E q \in sleepers :
          /\ pc' = [pc EXCEPT ![p] = @ + 1, ![q] = @ + 1]
          /\ asleep' = asleep \ {q}
          /\ buf' = Printed(type, msg)
          /\ UNCHANGED queue
     \/ /\ sleepers = {}
        /\ queue' = [queue EXCEPT ![key] = Append(@, [type |-> type, msg |-> msg])]
        /\ Step(p)
        /\ UNCHANGED <<buf, asleep>>
  /\ sent' = [sent EXCEPT ![p] = @ + 1]
  /\ UNCHANGED <<cfg, life, role, env, fd, got, round, used, fifos, sockets, key, made, failed>>
MsgrcvCall(p) ==
  /\ At(p, "msgrcv") /\ Msqid(p) = key /\ p \notin asleep
  /\ LET fits == {i \in DOMAIN queue[key] : Matches(p, queue[key][i].type)} IN
     \/ /\ fits # {}
        /\ LET i == Least(fits) IN
             /\ buf' = Printed(queue[key][i].type, queue[key][i].msg)
             /\ queue' = [queue EXCEPT ![key] = SubSeq(@, 1, i - 1) \o SubSeq(@, i + 1, Len(@))]
        /\ Step(p)
        /\ UNCHANGED asleep
     \/ /\ fits = {}
        /\ asleep' = asleep \cup {p}
        /\ UNCHANGED <<pc, buf, queue>>
  /\ UNCHANGED <<cfg, life, role, env, fd, counts, used, fifos, sockets, key, made, failed>>
RmidCall(p) ==
  /\ At(p, "rmid") /\ Msqid(p) = key
  /\ key' = 0
  /\ queue' = [queue EXCEPT ![key] = <<>>]
  /\ Step(p)
  /\ UNCHANGED <<cfg, life, role, env, fd, counts, channels, fifos, sockets, made, asleep, failed>>

\* The errors that end a program.
Fails(p) ==
  /\ \/ At(p, "msgget") /\ Call(p).how = "get" /\ key = 0
     \/ At(p, "msgget") /\ Call(p).how = "excl" /\ key # 0
     \/ At(p, "msgsnd") /\ Msqid(p) # key
     \/ At(p, "msgrcv") /\ Msqid(p) # key
     \/ At(p, "connect") /\ ~listening
     \* procesy.c creates its file without a mode: what open makes of it is undefined.
     \/ exercise = "procesy" /\ (At(p, "creat") \/ At(p, "readfile"))
  /\ Ends(p, TRUE)
  /\ asleep' = asleep \ {p}
  /\ UNCHANGED <<cfg, counts, channels, fifos, key, made, queue>>

Run(p) ==
  \/ Return(p) \/ ForkCall(p) \/ ExecCall(p) \/ WaitCall(p) \/ AgainCall(p)
  \/ PipeCall(p) \/ Redirect(p) \/ CreatCall(p) \/ ReadFileCall(p) \/ WriteCall(p) \/ CopyCall(p)
  \/ Fifo(p) \/ Socket(p) \/ MsggetCall(p) \/ MsgsndCall(p) \/ MsgrcvCall(p) \/ RmidCall(p)
  \/ Fails(p)

Next == \E p \in Process : Run(p)
Spec == Init /\ [][Next]_vars
\* The scheduler runs every process, and who is asked for a line gives one.
FairSpec == Spec /\ \A p \in Process : WF_vars(Run(p))

-----------------------------------------------------------------------------
AllEnded == \A p \in Process : life[p] # "alive"

\* What the exercises print, by whom: on the terminal, and into their files.
All == [i \in 1 .. lines |-> i]
ToTerminal(who) ==
  IF exercise = "studentQueue" THEN IF who = "other" THEN <<2, 3>> ELSE <<>>
  ELSE CASE who = "main" /\ exercise \in {"childpipe", "parent2child", "dup2sort", "pipe", "local"} -> All
         [] who = "printer" /\ exercise \in {"who2my_cut", "who2cut", "pipe1", "fifo3", "spawn", "lsko",
                                             "execRun", "execOnly"} -> All
         [] who = "other" /\ exercise \in {"studentFifo", "local"} -> All
         [] who = "main" /\ exercise = "studentPipe" -> <<1, 2, 3>>
         [] who = "main" /\ exercise \in {"fronta", "studentSocket", "forkWrite", "forkPrintf", "multiproc"} -> <<1>>
         [] who = "other" /\ exercise = "studentSocket" -> <<1>>
         [] who = "child" /\ exercise \in {"forkWrite", "forkPrintf", "multiproc", "procesy"} -> <<1>>
         [] who = "child2" /\ exercise = "multiproc" -> <<1>>
         [] OTHER -> <<>>
ToFile(who) ==
  CASE who = "printer" /\ exercise \in {"stdout2file", "popen", "presmerovanie"} -> All
    [] who = "main" /\ exercise \in {"presmer", "presmerovanie"} -> <<1>>
    [] who = "child" /\ exercise = "procesy" -> <<1>>
    [] OTHER -> <<>>
By(who, c) == LET own == SelectSeq(buf[c], LAMBDA m : m[1] = who) IN [i \in DOMAIN own |-> own[i][2]]
Prefix(s, t) == Len(s) <= Len(t) /\ s = SubSeq(t, 1, Len(s))

\* Whatever the order of the processes, the capacity of the channels and the calls that fail: what
\* arrives comes where the exercise sends it, in order and once; where no call fails, all of it is
\* there when the processes have ended, and the parent of multiproc prints last.
Delivered ==
  /\ \A who \in Role : Prefix(By(who, Terminal), ToTerminal(who)) /\ Prefix(By(who, File), ToFile(who))
  /\ AllEnded /\ failed = {} =>
       /\ \A who \in Role : By(who, Terminal) = ToTerminal(who) /\ By(who, File) = ToFile(who)
       /\ exercise = "multiproc" => buf[Terminal][Len(buf[Terminal])][1] = "main"

\* A server whose client has given up before it listened waits for another, a pair that loses its partner
\* or meets messages of an earlier run may sleep in the queue, and so may the parent of pipe1.c, which
\* waits for ps before anyone reads, when ps fills the pipe.
MaySleep ==
  \/ exercise = "pipe1" /\ lines > Cap
  \/ exercise \in {"local", "studentSocket"} /\ Other \in failed
  \/ exercise \in {"fronta", "studentQueue"} /\ (stale \/ failed # {})
\* All processes of an exercise end: no descriptor left open keeps a reader waiting for the end.
EveryoneEnds == <>(AllEnded \/ MaySleep)
=============================================================================
