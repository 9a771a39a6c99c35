---------------------------- MODULE MCFirstShared ----------------------------
(***************************************************************************)
(* The programs that share memory without the library, one in a run: the   *)
(* writers and the reader of 05.sharedMemory (WritersReader), the pair of  *)
(* 03.sharemem_comm (FirstPair), or the two threads of 24_2 (Counter).     *)
(* They share nothing; running says which it is.                           *)
(***************************************************************************)
EXTENDS WritersReader

CONSTANTS PairLetters, PairFaults, Iter, CreateMayFail

VARIABLES running
\* 03.sharemem_comm
VARIABLES order, pat, ret, segment, shm, cell, semset, sem, pval, pundo, pos, printed
\* 24_2/02.procesy/01.cnt
VARIABLES cnt, main, tat, ti, tmp

Pair == INSTANCE FirstPair
          WITH Letters <- PairLetters, MayFail <- PairFaults, at <- pat, val <- pval, undo <- pundo
Threads == INSTANCE Counter WITH at <- tat, i <- ti
ASSUME FirstSharedAssumption == Pair!PairAssumption /\ Threads!CounterAssumption

pair == <<order, pat, ret, segment, shm, cell, semset, sem, pval, pundo, pos, printed>>
threads == <<cnt, main, tat, ti, tmp>>

\* The programs that do not run stay in one of their initial states.
MCInit ==
  /\ running \in {"pair", "writers", "threads"}
  /\ Init /\ Pair!Init /\ Threads!Init
  /\ running # "writers" => key["mem"] = 0
  /\ running # "pair" => order = "any" /\ segment = 0

MCNext ==
  \/ running = "pair" /\ Pair!Next /\ UNCHANGED <<running, vars, threads>>
  \/ running = "writers" /\ Next /\ UNCHANGED <<running, pair, threads>>
  \/ running = "threads" /\ Threads!Next /\ UNCHANGED <<running, vars, pair>>

\* The fairness of FairSpec and Pair!FairSpec, for the one that runs; nothing is claimed of the
\* end of the threads.
MCSpec ==
  /\ MCInit /\ [][MCNext]_<<running, vars, pair, threads>>
  /\ \A p \in Pair!Program : WF_pair(running = "pair" /\ Pair!Run(p))
  /\ \A p \in Process : WF_vars(running = "writers" /\ Run(p))
  /\ \A p \in Child : SF_vars(running = "writers" /\ Lock(p))

-----------------------------------------------------------------------------
\* The type invariants of all.
Types == TypeOK /\ Pair!TypeOK /\ Threads!TypeOK
\* The client prints the whole message (FirstPair), the reader whole words (WritersReader).
PrintedWhole == Pair!MessageWhole /\ LinesWhole
\* What the program of the threads prints lies between 2 and 2 * ITER (Counter).
CounterBounds == Threads!CounterBounds
\* Both programs of the pair end (FirstPair), CTRL-C ends the writers and the reader and removes
\* the objects (WritersReader).
ProgramsEnd == /\ running = "pair" => Pair!PairEnds
               /\ running = "writers" => ProgramEnds
=============================================================================
