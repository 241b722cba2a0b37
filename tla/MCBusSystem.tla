---------------------------- MODULE MCBusSystem ----------------------------
(* An instance of BusSystem for TLC. *)
EXTENDS BusSystem

T(src, dest, count, step) ==
  [src |-> src, dest |-> dest, count |-> count, src_step |-> step, dest_step |-> step]

\* Copies from the ROM upwards and downwards, one that leaves the RAM with its last
\* byte, one from where nobody answers, and one within the RAM.
MCTransfers ==
  {T(2, 8, 2, 1), T(4, 11, 2, -1), T(2, 8, 1, 1), T(2, 11, 1, 1), T(14, 8, 1, 1), T(8, 10, 1, 1)}

\* memcpy within the RAM.
CopyTransfers == {T(8, 10, 2, 1)}
=============================================================================
