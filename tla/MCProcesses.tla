---------------------------- MODULE MCProcesses ----------------------------
(***************************************************************************)
(* The path leads to a directory with two subdirectories, the first one    *)
(* with another one, or (leaf of DirCounter) to an empty one.              *)
(***************************************************************************)
EXTENDS Processes

Tree == [r |-> <<"a", "b">>, a |-> <<"c">>, b |-> <<>>, c |-> <<>>]
=============================================================================
