--------------------------- MODULE MCSharedUsage ---------------------------
(***************************************************************************)
(* Instances of SharedUsage: two public keys, whose slots are given by their   *)
(* place in the common order of creation.                                  *)
(***************************************************************************)
EXTENDS SharedUsage, TLC

CONSTANTS k1, k2

SlotsOfTwo == (k1 :> 0) @@ (k2 :> 1)
=============================================================================
