# Models and proofs for SysProgr

The repository is the collected work of a course on Unix system programming: small
programs in C that create processes, send signals, share memory under semaphores, and talk
over pipes, fifos, message queues and sockets. This directory holds TLA+ modules of the
programs whose correctness depends on the order in which several processes run, TLC
configurations that check them, and TLAPS proofs of the properties that matter most.

Paths below are relative to the repository; `lib/` stands for
`Code/learning/6prednaska/04.sharemem_comm_lepsie/`.

## 1. The parts of the repository

### Modelled

**Shared-object library** (`lib/shared.c`). State in each process: `shared_initialized`,
`shared_cnt`, the table `shared_obj` of 128 slots (segment, pointer, key, size),
`shared_semid`, `shared_verb`. State in the kernel: the segments with their mappings, and one
set of 128 binary semaphores. Operations: init, fini, create, attach, detach, destroy, lock,
unlock, read, write, read_locked, write_locked, and a handler that runs in a forked child.
Processes interact only through the kernel objects, and the lock of an object is found through
the *caller's own* table. Hard: calls of several processes interleave between two system
calls of one library call, the kernel may refuse a call, a process may be killed with a lock
held, and objects are destroyed while others have them in their tables. Correct means: counter
and table agree, pointers never dangle, two processes are never both inside the lock of one
object, and a locked access is atomic.

**Example programs** (`lib/server.c`, `lib/client.c`). The server writes a message under the
lock and polls for a star; the client reads, writes the star, detaches, unlocks. Hard: starting
order, polling under the lock the other side needs, either one killed. Correct means: the client
prints the whole message, nothing is removed under it, and both end.

**Token ring** (`Code/6cviko/wrappers/blok2_base.c`, `sem_wrapper.h`, `shm_wrapper.h`). A parent
forks N children; child i waits for semaphore i, writes its pid to the shared memory, and opens
the semaphore that a shuffled array names for child i + 1. SIGUSR2 to the parent makes it send
SIGINT to the children, wait for them and remove semaphores and memory. Hard: the shuffle, a
signal at any moment, a fork that fails. Correct means: one token, one writer, turns that come
round, removal after the last child, and an end after the signal.

**Homework** (`Code/6cviko/shareMem/shareMem.c`, `mapMem/mapMem.c`, `common/homework.c`). Two
variants of one exchange: the teacher sets two numbers, the student adds them, over a shared
segment or a mapped file, with two semaphores. Hard: a partner that dies or was never created, the order of
removal, descriptors. Correct means: the student starts from the complete task, the
teacher sees the sum, and nobody waits unless a partner is dead.

**Tandem listing** (`skorozadanie3/zadanie_1_03.c`, `proces2.c`). A master starts a second
program; both list one directory tree and take turns by SIGUSR1, and both fork for each
subdirectory. Hard: signals that coalesce, stay pending or go to a whole process group; the
start of the slave; signal sets that are never initialised. Correct means: they print in tandem
and end.

**First shared-memory pair** (`Code/learning/6prednaska/03.sharemem_comm`). `server.c` writes a
message letter by letter and polls the first cell for a star without the lock; `client.c` reads it and
writes the star. Both set the semaphore to one when they start, whoever holds it, and both remove
semaphore and memory when they end. Hard: the second SETALL, objects removed under the partner,
objects of an earlier run, a partner that is killed. Correct means: a client started once the server
polls prints the whole message, one started earlier at most a beginning of it, both end, and nothing is left.

**Writers and reader** (`Code/learning/6prednaska/05.sharedMemory`). `main.c` creates a buffer, an offset
and a semaphore, starts `write1`, `write2` and `reader` and waits. The handlers of the parent and of
the reader remove the objects under the others. Hard: signals at any moment, between fork and
exec too; a handler that signals pids it does not know yet; a semaphore removed under a writer.
Correct means: one process at a time in the memory, lines of whole words, and after CTRL-C
nothing is left.

**Signals** (`Code/learning/3prednaska/03.signaly`, `Code/4cviko`, `Code/24_2/02.procesy/06.kill`, `07.wait/02`).
Pairs of parent and child that take turns by SIGUSR1 and SIGUSR2, with sigwait or with a handler, a
counter and sigsuspend; a handler that waits for the child; stop, continue and terminate; three
receivers. State: pending, blocked and caught signals, `x`, `finish`, `pidG`. Hard: a signal before
it is blocked, between a test and sigsuspend, before `x=0`; CTRL-C between fork and exec. Correct
means: one turn that is never lost outside these gaps, nobody killed who is prepared, and an end.

**Directory counter** (`spusti.c`). A child asks for a path and sends it through a fifo; the directory is
then listed by one process for each directory. A SIGCHLD handler that waits competes with `wait(NULL)`
of the recursion and interrupts it, open and scanf, since it is installed without SA_RESTART. Correct means: a directory
is printed after its subdirectories, but for the one whose `wait` the end of the asker has interrupted, and the program
asks for the next path.

**Exercises with system calls** (`Code/5cviko`, `Code/learning/4prednaska`, `Code/learning/5prednaska`,
`Code/24_2`, `Code/2cviko`, `presmerovanie.c`, `lsko.c`, `zombie.c`). 32 programs and pairs of
programs that fork, execute, wait, redirect, and talk over pipes, fifos, message queues and sockets. Hard:
which descriptor is still open where, full pipes, a fifo or a queue from an earlier run, a
partner that comes first or never. Correct means: what is sent arrives where it should, in order and
once, and every process ends.

**Counter of two threads** (`Code/24_2/02.procesy/01.cnt`). Two threads increment one variable without a
lock. Correct is nothing more than bounds of what is printed.

### Not modelled

| Part | Where | Why |
|---|---|---|
| Shared memory and semctl exercises | `Code/learning/6prednaska/01.sharemem`, `02.semctl` | one process, call by call |
| Request to a web server | `Code/learning/5prednaska/05.socket/network` | the other side is not in the repository |
| Calls that are printed | `Code/24_2` (`02.getpid`, `03.system`, `dir_listing.c`, `file_access.c`, `write_to_file.c`) | one process, one call |
| Files, directories, links, options | `Code/1cviko`, `Code/3cviko`, `hladaj.c`, `Code/learning/2prednaska`, `Code/20_2` | sequential input and output |
| Stubs in `shm.c:104-153` | `Code/learning/6prednaska/03.sharemem_comm` | empty functions nobody calls |

## 2. Modules

| Module | What it is |
|---|---|
| `SharedLib` | every call of the library on the tables and the kernel objects; `shared_init` and `shared_create` are two actions each |
| `SharedUsage` | `SharedLib` with clients that keep named rules; `Mutex` is its abstract specification |
| `SharedAccess` | a locked read or write copied cell by cell, with kills; `AtomicObject` is its abstract specification |
| `ServerClient` | `server.c` and `client.c`, composed with `SharedLib`: each action of a program is an action of the library plus a move of its program counter |
| `TokenRing` | parent and children of `blok2_base.c` |
| `Homework` | main process, teacher and student of both programs; `Assignment` is its abstract specification |
| `TreeWalk` | both programs of `skorozadanie3`, one process for each program and directory |
| `FirstPair`, `WritersReader` | the two other shared-memory exchanges; `MCFirstShared` puts them into one run |
| `SignalSync` | the programs about signals, by the name `prog` |
| `DirCounter` | `spusti.c` |
| `Exercises` | 32 programs, each as the sequences of system calls of its processes |
| `Unix` | what those calls do: processes, descriptors, pipes, a fifo, a socket, a message queue |
| `Counter` | the two threads; `MCFirstShared` puts them next to `FirstPair` and `WritersReader` |
| `Processes` | puts `SignalSync`, `DirCounter` and `Unix` into one run |
| `MCSharedUsage`, `MCSharedAccess`, `MCTokenRing`, `MCTreeWalk`, `MCProcesses` | values of the constants for TLC; `MCTokenRing` also checks that the shuffle of `sem_wrapper.h` yields exactly the permutations `TokenRing` starts from |
| `SharedLib_proofs`, `SharedUsage_proofs`, `SharedAccess_proofs`, `TokenRing_proofs`, `FirstShared_proofs`, `ServerClient_proofs`, `TreeWalk_proofs`, `Processes_proofs` | theorems and proofs; those of `Homework` are in `Processes_proofs` |

Correspondence with the code:

* Library. `status` says whether a process exists, `initialized`, `verb`, `cnt`, `obj`,
  `semid` are the statics of `shared.c`; `att` of a slot is `shmptr != -1`. `pc` is the system
  call between which others may run: `InitSemget`/`InitSemctl` are `shared_init`,
  `CreateShmget`/`CreateShmat`/`CreateShmatFails` are `shared_create`. `shared_destroy` and `shared_fini` also
  make several system calls, but are one action: what others do between `shmdt` and `shmctl` they do
  between `Detach` and `Destroy` too, and a `shared_fini` that is interrupted is `Destroy` of one slot after the other, then
  `Fini`. `held` is what a client
  knows: the slots whose `shared_lock` returned `SHARED_OK`. `seg` and `sem` are the kernel
  objects, with mapping counts, removal delayed to the last detach, and SEM_UNDO adjustments.
  Calls that return an error before they change anything are disabled actions.
* Programs. `at` is the statement the program is at, `mem` the bytes of the segment, `i` and
  `znak` the variables of that name. A letter is a number; the message has five of them.
* Ring. `ppc` and `k` are the parent's place and loop variable, `cpc` the children's place,
  `flag` is `childTerminationFlag`, `pid` the shared memory. "asleep" is a child inside `semop`;
  SIGINT there is EINTR, which `CHECK` turns into exit.
* Homework. One module for both programs: they differ in what main does between the forks and
  the waits (`close`, `unlink`) and in the descriptor the children close. The structure is
  written field by field.
* Tandem. `usr1`, `chld`, `usr2` are pending signals (a second one of a kind is lost), `blocks`
  is the signal mask. What an uninitialised `sigset_t` holds besides is a choice: `mask` for the
  set of `executeChoice`, a choice in `Block` and `Unblocks` for each set of `listDir`: a SIGUSR2 that is still pending
  when the master begins to list, because SIGCHLD or SIGUSR1 has ended its wait, stays blocked by chance or kills it.
* First pair. `at` is the call a program is at, named for the wrapper; `ret` its return value; `segment`
  and `semset` what the key names, `shm` and `sem` what each program has got. `order` says when the client
  is started. A program that is killed leaves segment and star behind for the next run (`Old`).
* Writers and reader. `known` are the children whose pids a process has: a child knows those forked before
  it, and a pid that is still 0 sends the signal to the whole group. `execed` tells the
  handlers of `main.c` from the children's own.
* Signals. `at` names the statement, `pend`, `mask`, `caught`, `stopped` are the kernel's. A signal is
  delivered before the next call of its process (`Ready`), and sigsuspend returns only after a handler
  has run. `lost` remembers that a signal came where the program cannot see it, for `OneTurn`.
* Directory counter. Each process is named for its directory; `handling` is a process that sleeps in `wait`
  inside the handler; `status` is `child_status`. `Wait` looks for a child that has ended, and sleeps if there is none
  ("asleep"). A child that ends meanwhile is given to that `wait` and its SIGCHLD handled afterwards (`WaitReturns`), or, if it ends after
  `wait` has looked and before it sleeps, `wait` fails with EINTR and the handler takes the child (`WaitFails`); `overtaken` remembers
  that the asker may have been that child.
* Exercises. A program is a sequence of records, one for each call; `Unix` runs any of them. Descriptors
  are the kernel's numbers, variables (`r`, `w`, `fd`) hold them, and `dup` takes the lowest one free, so
  that a `close` that is missing is seen. Executed programs are a printer or a reader of lines.

Left out on purpose: formatting and printing (except the order and contents of what the
properties speak of), option parsing, path names, error texts, and the exact value of error codes.

## 3. Runs

| Run | Question | Instance | States | Result |
|---|---|---|---|---|
| `lib_calls` | do tables, counter and mappings stay consistent under any calls of two processes, the second forked? | 2 processes, 1 public key and IPC_PRIVATE, 2 slots, 2 segments, shmat may fail | 481,376 | holds |
| `usage_rules` | do the locks exclude when the rules are kept? | parent and child, 2 keys, 2 slots, 3 segments, 2 semaphore sets, failures | 433,021 | holds |
| `usage_order` | and without the rule on the order of creation? | 2 processes, 2 keys | | violated |
| `access` | is a locked access atomic, kills included, and does waiting end? | 2 processes, 2 cells | 49,626 | holds |
| `programs` | server and client, in the intended order, with kernel errors and kills | 5 letters | 419 | holds |
| `ring` | one token, one writer, removal, turns | 3 children, all 6 sequences, signal and failed fork anywhere | 14,631 | holds |
| `ring_signal` | does everything end after the signal? | 2 children | | violated |
| `homework` | implements Assignment, ends | both programs, 2 numbers, failing fork and attach, kills | 1,986 | holds |
| `tree` | tandem and end in a flat directory; bounded drift in nested ones; who may die of SIGUSR1 | 4 trees of up to 4 files, failing fork and exec | 145,144 | holds |
| `tree_tandem` | tandem in every tree? | 2 nested trees, no failures | | violated |
| `first_shared` | the two older shared-memory exchanges and the counter: exclusion, whole output, end, removal, bounds | 3 letters (pair), 2 letters each (writers), 3 iterations; old objects, refused calls, kills, a signal anywhere | 34,921 | holds |
| `processes` | signals, directory counter and exercises: turns, order, delivery, ends | 9 signal programs with 2 signals from outside; a tree of 4 directories, 2 paths; 32 exercises of up to 3 lines over pipes of 2 | 10,013 | holds |

Bounds. Two processes and two keys are the least that can disagree about slots; two slots the
least in which an order exists; a second segment, or a second semaphore set, is what it takes to
destroy and create again, which is where stale tables come from. Three children give a
sequence that is one cycle, one that is not, and the identity. Two cells are the least that
can be torn. Three letters leave a beginning, a middle and an end for a reader that comes too early; with
two letters in each of two words a line can hold one, both, or a torn word. Pipes of two messages and up to
three lines give a writer that must wait and one that need not. Three iterations are the
least with a first, a last and one between. A second signal from outside is what it takes to interrupt
a handler's consequences. The directory counter's tree has a first subdirectory with a subdirectory
and a second one without, and a second path is read while a child of the first may still end (since a process
is named like its directory, the tree itself is given again only when none of its processes is left). The trees have a directory at the beginning, at the end and none; two files
follow or lie in a subdirectory, which is enough for one signal to be pending while another
one comes; one subdirectory is empty, so that its process ends without a signal. The bounds `MaxSeg`, `MaxSem`, `MaxMap` limit how many kernel objects are ever
created and mapped; `SHARED_MAX` is 128 in the code and 1 or 2 in the runs. The proofs do not
depend on any of these values.

Deadlock checking is off where the programs end (all runs but `lib_calls`, `usage_rules` and
`usage_order` are programs that return; in those three every process may
exit, and then nothing happens any more). In `access` processes are replaced for ever, and
deadlock is checked there.

Fairness. `PFairSpec`, `FairSpec` of `SharedAccess`, `TokenRing`, `Homework`, `TreeWalk`: the scheduler
runs every process that can run (weak fairness of each process). A process waiting in `semop` is
served in the order of arrival, so where several processes compete for one semaphore the lock
is strongly fair; in the ring and in the homework each semaphore has one waiter, and weak fairness is
enough. In `WritersReader` the reader takes the semaphore again and again,
so `Lock` is strongly fair for the three children; in `FirstPair` each program locks once, and weak fairness
serves the lock too. Nothing is assumed of kills, failures and signals from outside, of the user who may
never answer `spusti.c`, nor of the loop of four years in `06.kill`.

### What the violated runs show

* `usage_order`: the semaphore of an object is the one with the caller's slot number
  (`shared.c:410`); `readme.txt:128` says each segment has one. Two processes that create
  two objects in different orders lock one segment with two semaphores.
* `ring_signal`: a SIGINT between the test of the flag (`blok2_base.c:106`) and `semop` sets a
  flag nobody reads, and the parent waits for ever (`blok2_base.c:42-43` says the loop ends
  after the signal).
* `tree_tandem`: `kill` goes to the whole group (`zadanie_1_03.c:161`), so the process waiting
  for its child in `wait(NULL)` keeps a signal that was meant for the child and later takes it for an
  answer (`zadanie_1_03.c:39` says the programs print in tandem).

Other differences between text and code met while modelling, without a run of their own:
`shared_init_fork` (`shared.c:204`) forgets the pointers but does not call `shmdt`, where `readme.txt:9`
says that the child is detached from all areas; `readme.txt:67-68` and `lib/client.c:25-27` say that the client reads only after the last
letter, but a client that locks before the server does reads an empty object (the run `programs` starts the
client when the server has the lock); `spusti.c:57` promises the size of the regular files, and
`spusti.c:183` adds the lengths of their directory entries; `04.who2cut/main.c:54` says that the parent waits for all
its children, and it waits for one; `07.popen/main.c:25-26` returns EXIT_FAILURE at the end of every
listing and never reaches `pclose`; `signalReceiverSync.c:21` has the handler of the signal it waits for commented
out, so it dies where line 31 would print; `parent3.c:25` sets `finish` to 0 where its loop waits for it to
become true, so CTRL-C ends the child and leaves the parent; `child3.c:3-5` itself calls the test of `x` wrong, and `OneTurn`
says exactly where;
`shared_create` of a key already in the table returns the id without attaching
(`shared.c:293`, against `readme.txt:192-193`); destroying what another process has destroyed is
`SHARED_OK` without `SHARED_VERB` (`shared.c:112`), and so is a failed `semop` (`shared.c:51`,
against `readme.txt:247`), which is why "verbose" is one of the rules of `SharedUsage`;
`server.c:50` has `shared_fini` commented out, against `readme.txt:74-75`, so the semaphore set
stays (the `programs` run starts with and without one); the comments of `blok2_base.c:36, 69` speak
of SIGINT where the code waits for SIGUSR2; a SIGUSR2 before it is blocked kills the parent
and leaves the children and the objects behind.

## 4. Proofs

All theorems hold for every value of the constants that satisfies the named assumptions
(`LibAssumption`, `UsageAssumption`, `ProgramsAssumption`, `AccessAssumption`, `RingAssumption`,
`HomeworkAssumption`, `FirstSharedAssumption`, `TreeAssumption`, `ProcessesAssumption`).

* **`TypeCorrect`** (`SharedLib`). Invariant: `TypeOK` and `InCreate`, that a process about to call shmat
  is alive and has the segment in its slot; without it the slot's segment might be -1.
* **`PointersAreValid`, `KeysHaveOneSlot`** (`SharedLib`, for any sequence of calls of any client). `TablesInv`:
  no two slots of a process share a segment or a public key, a used slot agrees with its segment
  on key and size as long as the segment exists, a slot with a pointer has a mapping, and
  what `shared_create` has found out before `shmat` (`Reserved`) still holds then. It must speak of slots without
  a pointer and of destroyed segments, since either may come back: by attach, or by create with an old key.
  `Later` says what a call of one process may do to a segment as another one sees it: it may
  mark the segment removed, never reap it under a mapping. A process's own calls are taken one by one, those of the others
  all follow from `Later`.
* **`CountIsRight`** (`SharedLib`). `CountOK`: `shared_cnt` is the number of used slots, one less while
  `shared_create` is between `shmget` and `shmat`.
* **`LocksExclude`, `SemaphoresConserved`, `LibraryRefinesMutex`** (`SharedUsage`, under the four rules).
  `SlotInv`: one segment has the same slot in all tables, which needs the order of
  creation to be kept through destroyed segments and reused keys. `LockInv`: every user of the library has the
  one live set, a slot's semaphore is 1 with no holder or 0 with one, and a process's SEM_UNDO
  adjustment is 1 exactly for the locks it holds. Mutual exclusion of segments follows from the two; the
  refinement maps the holder of lock `id` to the process that has `id` in `held`.
* **`AccessIsExclusive`, `ReadsReturnWholeContents`, `AccessRefinesObject`** (`SharedAccess`). `SemInv`: who has the
  semaphore, and who has an adjustment. `DataInv`: the cells a copy has passed, and that memory holds
  the committed contents when nobody writes. A read is mapped to the step in which it unlocks.
* **`RingTypeCorrect`, `RingHasOneToken`, `WriterIsAlone`, `RemovedAfterAll`** (`TokenRing`). `TokenInv`: no
  token before the first semaphore is opened, afterwards one, in a semaphore or with a child.
  `Counted`: the parent's loop variable is the number of children it has waited for.
* **`HomeworkTypeCorrect`, `StudentStartsFromTask`, `HomeworkRefinesAssignment`, `NothingIsLeft`** (`Homework`, in `Processes_proofs`). `Handover` is a
  disjunction of four stages (writing, offered, working, delivered), each of which fixes both
  semaphores, both places and what is in the structure. Given, answer and seen of
  `Assignment` are read off the printed lines. `CleanUp`, for `NothingIsLeft`: what is left in the system is a function of
  where the main process is, and it begins to remove only with both children reaped.
* **`CounterIsBounded`** (`Counter`, in `FirstShared_proofs`). `Atmost`: neither `cnt` nor what is about to be stored exceeds the iterations
  done and the one under way. `Atleast`: what a thread stores after its first iteration is at least 2. `Joined`: where the threads are
  when `main` has joined them.

* **`LockExcludes`** (`WritersReader`, in `FirstShared_proofs`). `LockInv`: one process at most has taken the semaphore and not given it back, and
  then it is closed; who is under the lock has done so; and the semaphore that a late child creates after
  the removal of the first stays at 0. The last part is what excludes a second holder on the new semaphore while
  a process of the old one is still under its lock.

* **`PrintedIsWhole`, `SharedTypes`** (`MCFirstShared`, its modules in `FirstShared_proofs`). For the writers
  and the reader `LineInv` adds to `LockInv`: the offset is what the words written so far have filled
  (`Counts`), a handler runs in a process only after its parent's (`InOrder`, `Together`), where a writer is inside
  its word (`Places`), what the buffer holds up to the offset (`Text`), and how far the reader's
  copy has come (`Reading`). A line is then a word, or two, each whole. For the pair, `PairInv` has the
  sum of the semaphore's value and the undo adjustments, which stays one but for the second SETALL (`SemInv`),
  which segment each program has mapped, and for a server and a client that start late how far the one has written
  and the other read.
* **`ServerClientTypes`, `MessageIsWhole`, `RemovedUnused`** (`ServerClient`). The types need nothing but
  the library's own invariant: the only sizes that ever occur are 0 and `Size`. The other two
  are proved for `ServerFirst`, the order the run checks: a client that starts earlier may lock before the server has
  written, and reads an empty object. `SafeInv` says, for each place of a program, what it has in its table and
  which calls it is in (`CallOK`); that there is one semaphore set for both, and that its value and the undo
  adjustments tell who is inside (`SemOK`); which segment there is, and who maps it (`SegOK`); and how many letters
  are in it and have been read (`DataOK`). Its heart is `NotBothInside`: `star` and `detach` of the client
  exclude every place of the server at which it looks for the star or destroys.
* **`WalkTypeCorrect`, `KilledAreUnprepared`** (`TreeWalk`, for every tree). `WalkInv`: a process that is listing has
  blocked SIGUSR1 and its children inherit that (`Prepared`); as long as a first process has not, nobody else of its program exists
  and it has printed nothing (`Begun`); a directory that has not been reached is listed by nobody (`Unreached`), without which a second
  process of the same directory might begin anew; and where no set holds SIGCHLD, nobody of the slave's program prints or signals
  before the master has begun (`ChldFresh`, `Waits`). The proof found what the runs had missed: no tree of theirs had an empty
  subdirectory. There the slave's child ends at once, a set that holds SIGCHLD by chance gives it to `sigwait` in place of the
  master's signal, and the slave prints and kills a master that is still waiting for SIGUSR2. `OnlyUnprepared` now says so,
  and the run `tree` has that tree.
* **`FlatIsTandem`** (`TreeWalk`, for a directory without subdirectories and with any number of files). `Stage`: five stages of one file, each of which fixes both
  places, both positions, both pending signals and how much has been printed. `Begins`: the master begins after the slave's SIGUSR2
  or its end, and SIGCHLD, where a set holds it, is never an answer. `Lines`: what each line is.
* **`DriftIsBounded`** (`TreeWalk`, for every finite tree). `DriftInv`, for as long as nobody is killed and no set holds SIGCHLD, counts
  signals. The living processes of a program are a path down the tree of which all but the last wait (`Stack`), and a child
  that has ended is waited for (`Awaited`); so one process of each program at most can print, send or take a signal. Of the signals a `kill` leaves to
  a whole group, one goes to the process at work, and those of the others count only when they go on, each with one
  subdirectory left (`Tokens`, `Past`). `MasterLead` and `SlaveLead` are the two inequalities that the steps keep: what the one
  has printed, with the signals still to be taken, is at most what the other has, with the subdirectories left. The stack of the
  master's program breaks once its first process, waiting for a subdirectory, is woken by the end of the slave: then two of its
  processes are at work, and `Deserted` says that each of them (`Free`) prints one more file at most before its `kill` finds nobody.
  The invariant was checked on four trees with three subdirectories, nested up to three deep, before it was proved.
* **`SubdirectoriesComeFirst`** (`DirCounter`, in `Processes_proofs`, for every tree). `DirInv`: a directory has at most one child for its
  subdirectories (`OneKid`), and the parent waits for it, or its wait has taken the asker's end in place of the child's and then SIGCHLD is
  still to come or its handler waits (`KidAwaited`); who has ended is known to the parent (`KidSeen`, `AskerSeen`), and
  every process but the first is one of a subdirectory (`HasParent`). From the first process this is asked only until the asker's end interrupts
  its `wait` (`Orderly`, `overtaken`): then it goes on while a subdirectory is listed, and since each later `wait` takes one child, it has at most
  one that it does not wait for (`AtMostOne`), and none of the subdirectories it has still to come to (`ToCome`).
* **`KilledBeforePrepared`** (`SignalSync`, in `Processes_proofs`, an action property). `SigInv`: the places of each program (`SigAt`), the signals
  that may come in it (`Coming`), and from which place on the partner's signal is blocked or caught (`SigReady`). That a process
  has no signal before it is born is part of `Coming`; that only `sigsuspend` takes the mask away again, and only in programs
  that catch the signal, is what keeps `SigReady`. Nothing bounds the signals from outside.
* **`TurnIsOne`** (`SignalSync`). `Turn`, which holds as long as nothing has disturbed the pair: exactly one of parent, pending SIGUSR1, child and
  pending SIGUSR2 has the turn (`OneHasIt`), nothing else is pending, the child has no handler for SIGUSR1 before its last
  preparation, and `x` is zero where a process prepares or sends. `UndisturbedBefore`: what has disturbed the pair stays,
  so the invariant need not say anything about it afterwards.

* **`SignalsTyped`** (`SignalSync`). The types bound `x`, which `parent3.c` and `child3.c` count up in a handler and down after their
  work, by two and the signals from outside. That takes an invariant of its own, `CountInv`, beside `SigInv`: what both
  still have to work off, what is pending, and the CTRL-C that is on its way are together one at most, and one more for each signal from outside
  (`AllTurns`), since a handler sends one signal for each it takes and a signal that is already pending merges. It needs that a child who has found
  `x` zero and is about to answer is to be interrupted (`Doomed`).
* **`PathsTyped`** (`DirCounter`). `DirFlags` with `DirInv`: a process goes on to the next subdirectory only when it
  has taken one, so `next` ends one behind the list.
* **`CallsTyped`** (`Unix` with `Exercises`, for every number of lines, every capacity and every `fork` and `exec` that fails). The types
  say that a program never leaves its text, that descriptors and channels stay in their ranges and that a pipe does not overflow. None
  of it is inductive: whether a `write` finds a pipe, whether `dup` takes descriptor 0 or 3, and whether a `pipe` finds two
  free ones depends on all calls before. `UnixInv` says for each place of each program what its descriptors lead to. A layout
  (`Layout`) gives descriptors 0 to 4 a letter each; the tables (`Views`) name the layout before each call. That the tables fit the programs
  is proved exercise by exercise (`Row_...`, one step for each program) with no state in sight; that a call of a process that has what its
  place asks for (`Here`) gives it what the next place asks for is proved once for each call, whatever the program, and so for all of
  them. Beside it stand what is written and read (`SentFits`, `GotFits`), how many channels and queues there can still be (`UsedOK`), and
  that only a process inside `msgrcv` sleeps there (`QueueOK`). `StudentPipe` fits no table, since its parent keeps the two
  descriptors of a round whose `fork` failed: `ThreeTimes` bounds them by the round instead.
* **`TypesHold`** puts `SignalsTyped`, `PathsTyped` and `CallsTyped` together.

Only model-checked, and why:

* every liveness property (`WaitEnds`, `BothFinish`, `TurnsComeRound`, `WaitsEnd`, `FlatEnds`,
  `ProgramsEnd`, `AllEnd`): the prover has no rule for fairness;
* `Delivered`: what arrives, and in which order, relates what all processes have written to what is in the channels and has been
  read, in each of the 32 exercises differently. `UnixInv` says where every descriptor leads, which is where such a proof would start; the history of the
  channels is not in it. TLC takes all exercises.

## 5. Limits of the models

* `SharedLib` assumes one thread in each process, as `readme.txt:8` demands.
* The range check of ids lets `SHARED_MAX` itself pass (`shared.c:130` and six others); the
  models call with ids in range.
* A client of `SharedLib` pairs lock and unlock and holds no lock across init, fini or fork.
* Heap overruns are not modelled: `sem_wrapper.h:25` allocates the sequence before its
  length is set, `zadanie_1_03.c:114` copies a directory name into a buffer too small for the
  slash it appends. The models show what the programs do when the overrun hits nothing.
* In `TokenRing` a fork that fails ends the parent and leaves the children asleep for ever; the
  model has the behaviour, and no property promises anything else.
* In `TreeWalk` an exec that fails leaves the master waiting for a SIGUSR2 that nobody sends; the model has the behaviour, and
  `FlatEnds` begins after the exec.
* In `TreeWalk` the second SIGUSR1 of a kind is lost as in the kernel; signals from other
  programs do not occur. A set that holds more than SIGUSR1, SIGUSR2 and SIGCHLD is not told apart.
* In `FirstPair` the server's poll is a read of memory each time; without `volatile` a compiler may
  hoist it out of the loop (`server.c:41`). No build file of the repository sets optimisation for it.
* `WritersReader` lets a signal arrive from outside once, SIGINT at all or SIGTERM at one process;
  a second CTRL-C finds handlers already run.
* `DirCounter` does not tell paths and names apart: `spusti.c:154` appends a slash to the caller's string,
  which holds for buffers with room. `scanf` that is interrupted leaves the path of the last round or a part of it, which
  `Opendir` answers by failing or listing.
* In `Unix` a message is written and read as one, lines are never longer than a pipe, and `CHECK` and its like
  end a program for failed forks, execs, and message-queue and socket calls; other calls do not fail.
  `procesy.c` opens its file without a mode, so opening it may fail. `multiproc.c` has two of its five children.
* In `Counter` loads and stores of an `int` are atomic and in program order, as `main.S` has them; the loop is not optimised away.
* The failures of `Homework` and `TokenRing` before the first fork end a program that is still alone, and
  are left out.

## 6. Plan

All programs with more than one process are modelled. What is left:

1. the argument checks of the library on all small inputs, `id == SHARED_MAX` included (`shared.c:130`);
2. a proof of `Delivered`, one exercise after the other.
