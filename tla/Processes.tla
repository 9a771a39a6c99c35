----------------------------- MODULE Processes -----------------------------
(***************************************************************************)
(* The programs whose processes meet through system calls alone, one in a  *)
(* run: those of SignalSync, spusti.c (DirCounter), and the exercises of   *)
(* Unix.  They share nothing; running says which it is.                    *)
(***************************************************************************)
EXTENDS Integers, Sequences

CONSTANTS
  SignalFaults, MaxOutside,                    \* SignalSync
  Directories, Given, Subdirectory,            \* spusti.c: the tree, and the path that is given
  DirFaults, MaxRounds,
  CallFaults, Cap, MaxLines                    \* Unix

VARIABLES running
\* SignalSync
VARIABLES prog, sat, pend, blocked, caught, stopped, x, finish, how, outside, lost
\* spusti.c
VARIABLES arg, dat, leaf, next, ended, handling, status, fifo, dsent, died, refused, lateChild, overtaken, dround
\* Unix
VARIABLES exercise, lines, life, role, upc, env, fd, sent, got, round, buf, used, named, met,
          listening, backlog, key, made, queue, asleep, stale, failed

Signals == INSTANCE SignalSync WITH MayFail <- SignalFaults, at <- sat, mask <- blocked
Paths == INSTANCE DirCounter
           WITH Dir <- Directories, Root <- Given, Subdir <- Subdirectory, MayFail <- DirFaults,
                at <- dat, pend <- ended, sent <- dsent, round <- dround
Calls == INSTANCE Unix WITH MayFail <- CallFaults, pc <- upc

ASSUME ProcessesAssumption == Signals!SignalAssumption /\ Paths!PathAssumption /\ Calls!UnixAssumption

signalVars == <<prog, sat, pend, blocked, caught, stopped, x, finish, how, outside, lost>>
pathVars == <<arg, dat, leaf, next, ended, handling, status, fifo, dsent, died, refused, lateChild, overtaken, dround>>
callVars == <<exercise, lines, life, role, upc, env, fd, sent, got, round, buf, used, named, met,
              listening, backlog, key, made, queue, asleep, stale, failed>>

\* The programs that do not run stay in one of their initial states.
PrInit ==
  /\ running \in {"signals", "paths", "calls"}
  /\ Signals!Init /\ Paths!Init /\ Calls!Init
  /\ running # "signals" => prog = "once"
  /\ running # "paths" => arg /\ leaf /\ ~fifo
  /\ running # "calls" => exercise = "forkOnly" /\ lines = 1

PrNext ==
  \/ running = "signals" /\ Signals!Next /\ UNCHANGED <<running, pathVars, callVars>>
  \/ running = "paths" /\ Paths!Next /\ UNCHANGED <<running, signalVars, callVars>>
  \/ running = "calls" /\ Calls!Next /\ UNCHANGED <<running, signalVars, pathVars>>

\* The fairness of the FairSpec of each module.
PrSpec ==
  /\ PrInit /\ [][PrNext]_<<running, signalVars, pathVars, callVars>>
  /\ \A p \in Signals!Process : WF_signalVars(running = "signals" /\ Signals!Run(p))
  /\ WF_pathVars(running = "paths" /\ Paths!AskerRuns)
  /\ \A d \in Directories : WF_pathVars(running = "paths" /\ Paths!Run(d))
  /\ \A p \in Calls!Process : WF_callVars(running = "calls" /\ Calls!Run(p))

-----------------------------------------------------------------------------
\* The type invariants of all.
Types == Signals!TypeOK /\ Paths!TypeOK /\ Calls!TypeOK
\* The turn passes from signal to process and back (SignalSync).
OneTurn == Signals!OneTurn
\* Only a process that is not prepared dies of a partner's signal (SignalSync).
KilledUnprepared == Signals!KilledUnprepared
\* The lines of the directories are in order (DirCounter).
SubdirFirst == Paths!SubdirFirst
\* What an exercise sends arrives where it should, in order and once (Unix).
Delivered == Calls!Delivered
\* The programs that are meant to end do (SignalSync), the tree is counted (DirCounter), the
\* processes of an exercise end (Unix).
AllEnd ==
  /\ running = "signals" => Signals!SignalsEnd
  /\ running = "paths" => Paths!PathCounted
  /\ running = "calls" => Calls!EveryoneEnds
=============================================================================
