-------------------------- MODULE SignalInvariant ---------------------------
(***************************************************************************)
(* The inductive invariant behind SignalInv and the action properties of   *)
(* SignalSystem.  TLC can check it on the small instance; SignalProofs     *)
(* proves it.                                                              *)
(***************************************************************************)
EXTENDS SignalSystem, KernelInvariant

\* Only the processor ever blocks, and only in its wait.
Asleep(mem) ==
  [t \in Threads |->
     IF t = Processor /\ mem.state[t] = "BLOCKED" THEN requests_cond ELSE NULL]

\* The memory, between traps and in the middle of one, when the current thread
\* may have gone to sleep or stopped.
InTrap(mem) ==
  /\ mem \in Memory
  /\ QueuesInv(mem, Asleep(mem))
  /\ mem.current \in (Threads \intersect mem.heap) \union {Main, NULL}
  /\ mem.current # NULL => mem.state[mem.current] \in {"RUNNING", "BLOCKED"}
  /\ Processor \in mem.heap
  /\ \A t \in Threads :
       mem.state[t] = "BLOCKED" => t = Processor /\ mem.waiting_on[t] = requests_mutex
  /\ \A t \in Threads \ mem.heap : mem.state[t] = "CREATED"
  /\ mem.owner[requests_mutex] \in {Processor, NULL}
  /\ mem.owner[requests_mutex] = Processor => mem.lock_count[requests_mutex] = 1
  /\ mem.state[Processor] = "BLOCKED" => mem.owner[requests_mutex] = NULL

\* Between traps the current thread runs.
BetweenTraps(mem) ==
  /\ InTrap(mem)
  /\ mem.current # NULL
  /\ mem.state[mem.current] = "RUNNING"

\* Where the processor is in its program.
ProgramInv ==
  /\ k.state[Processor] = "BLOCKED" => pc = "test"
  /\ pc \in {"take", "advance"} => pending # <<>>

SInv == BetweenTraps(k) /\ ProgramInv /\ SignalInv
=============================================================================
