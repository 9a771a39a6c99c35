---------------------------- MODULE MCTokenRing ----------------------------
(***************************************************************************)
(* A small instance of TokenRing, and the shuffle of sem_wrapper.h: for    *)
(* each i two random places are swapped.                                   *)
(***************************************************************************)
EXTENDS TokenRing

Swap(s, i, j) == [s EXCEPT ![i] = s[j], ![j] = s[i]]

Shuffled[n \in 0 .. N] ==
  IF n = 0 THEN {[c \in Child |-> c]}
  ELSE {Swap(s, i, j) : s \in Shuffled[n - 1], i \in Child, j \in Child}

\* The shuffle can produce every order, and nothing else.
ASSUME ShuffleAssumption == Shuffled[N] = Orders
=============================================================================
