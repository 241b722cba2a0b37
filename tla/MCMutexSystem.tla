--------------------------- MODULE MCMutexSystem ----------------------------
(* Instances of MutexSystem for TLC. *)
EXTENDS MutexRefinement, MutexInvariant, TLC
CONSTANTS m1, m2

\* Any mutex may be locked while any other is held.
AnyOrder == [m \in Mutexes |-> Mutexes]

Symmetry == Permutations(Threads)
=============================================================================
