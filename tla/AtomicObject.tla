---------------------------- MODULE AtomicObject ----------------------------
(***************************************************************************)
(* What shared_read_locked and shared_write_locked promise: an object that *)
(* is written and read in one piece.  A process killed in the middle of a  *)
(* write may leave the object Broken; nothing is promised of its contents  *)
(* until the next write is complete.                                       *)
(***************************************************************************)
CONSTANTS Process, Content, Initial, Broken

VARIABLES
  value,    \* the contents, or Broken
  got       \* what each process read last

ObjectInit == value = Initial /\ got = [p \in Process |-> Initial]

Put == value' \in Content /\ UNCHANGED got

Get(p) == /\ \/ value # Broken /\ got' = [got EXCEPT ![p] = value]
             \/ value = Broken /\ got' = [got EXCEPT ![p] = Broken]
          /\ UNCHANGED value

Break == value' = Broken /\ UNCHANGED got

ObjectNext == Put \/ (\E p \in Process : Get(p)) \/ Break

ObjectSpec == ObjectInit /\ [][ObjectNext]_<<value, got>>
=============================================================================
