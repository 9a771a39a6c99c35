--------------------------- MODULE MCSharedAccess ---------------------------
(***************************************************************************)
(* A small instance of SharedAccess: every complete contents has one value *)
(* in all cells, so a mixture is recognised.                               *)
(***************************************************************************)
EXTENDS SharedAccess

Uniform == {[c \in Cell |-> v] : v \in Val}
Zeros == [c \in Cell |-> 0]
=============================================================================
