--------------------------- MODULE MCThreadLocal ---------------------------
(* ThreadLocal for TLC: the memory of one datum is as good as another's. *)
EXTENDS ThreadLocal

DataSymmetry == Permutations(Data)
=============================================================================
