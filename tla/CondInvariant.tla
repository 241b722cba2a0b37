--------------------------- MODULE CondInvariant ----------------------------
(***************************************************************************)
(* The inductive invariant behind the safety properties of CondSystem:     *)
(* that of MutexSystem, for some placement of the threads that sleep.      *)
(* TLC can check it on the small instances; MutexProofs proves it.         *)
(***************************************************************************)
EXTENDS CondSystem, MutexInvariant

CondInv == \E on \in Placements : GoodNow(on)
=============================================================================
