---------------------------- MODULE MCCondSystem ----------------------------
(* Instances of CondSystem for TLC. *)
EXTENDS CondSystem, TLC
CONSTANTS m1, m2

\* m1 is locked before m2.
OrderedM1M2 == [m \in Mutexes |-> IF m = m2 THEN {m1} ELSE {}]

\* Users sleep with one mutex only.
NothingElse == [m \in Mutexes |-> {}]

Symmetry == Permutations(Threads)
=============================================================================
