--------------------------- MODULE MutexInvariant ---------------------------
(***************************************************************************)
(* The inductive invariant behind the safety properties of MutexSystem.    *)
(* TLC checks it on the small instances; MutexProofs proves it.  It is     *)
(* stated for a memory in which threads may sleep on conditions, because   *)
(* the same traps have to keep it in CondSystem.                           *)
(***************************************************************************)
EXTENDS MutexSystem, KernelInvariant

\* Running threads are the current one and those that have exited; whatever is
\* ready or blocked is allocated.
ThreadsInv(mem, ex) ==
  /\ mem.current \in (Threads \intersect mem.heap) \union {Main}
  /\ mem.current \notin ex
  /\ ex \subseteq mem.heap
  /\ \A t \in Threads \intersect mem.heap :
       /\ mem.state[t] # "CREATED"
       /\ mem.state[t] = "RUNNING" <=> t = mem.current \/ t \in ex
  /\ \A t \in Threads \ mem.heap : mem.state[t] \in {"CREATED", "RUNNING"}

\* What the mutexes record is what the users believe.  A thread asleep on a
\* condition counts the mutex it gave up as its own, but its owner may be NULL.
OwnersInv(mem, on, dep) ==
  /\ \A m \in Mutexes :
       /\ mem.owner[m] \in Threads \union {NULL}
       /\ mem.owner[m] = NULL => mem.lock_count[m] = 0 /\ WaitSet(mem, on, m) = {}
       /\ mem.owner[m] # NULL =>
            /\ mem.lock_count[m] > 0
            /\ mem.lock_count[m] = dep[mem.owner[m]][m]
       /\ m \notin Recursive => mem.lock_count[m] \in {0, 1}
  /\ \A t \in Threads, m \in Mutexes :
       /\ dep[t][m] > 0 <=> mem.owner[m] = t \/ t \in BlockedOn(mem, m)
       /\ t \in BlockedOn(mem, m) => mem.owner[m] # t /\ dep[t][m] = 1

\* Threads that do not exist or have exited hold nothing, and nobody holds a
\* mutex that does not exist.
GoneHoldNothing(mem, dep, ex) ==
  \A t \in Threads, m \in Mutexes :
    t \notin mem.heap \/ t \in ex \/ m \notin mem.heap => dep[t][m] = 0

\* Every trap finds and leaves the kernel like this.
Good(mem, on, dep, ex) ==
  /\ mem \in Memory
  /\ dep \in [Threads -> [Mutexes -> 0 .. MaxDepth]]
  /\ ex \subseteq Threads
  /\ QueuesInv(mem, on)
  /\ ThreadsInv(mem, ex)
  /\ OwnersInv(mem, on, dep)
  /\ GoneHoldNothing(mem, dep, ex)
  /\ \A t \in Threads : on[t] \in mem.heap \union {NULL}

GoodNow(on) == Good(k, on, depth, exited)

\* Without conditions nobody sleeps.
IInv == GoodNow(NobodySleeps)
=============================================================================
