-------------------------- MODULE KernelInvariant ---------------------------
(***************************************************************************)
(* What it means for the kernel's queues to be in order.  A thread has one *)
(* link and can be in one queue: the ready list, the queue of the mutex    *)
(* it waits for, or the queue of a condition.  The fields of a thread say  *)
(* which, except that a thread asleep on a condition looks like one that   *)
(* waits for the mutex; on[t] is the condition t sleeps on, or NULL.       *)
(***************************************************************************)
EXTENDS Kernel

\* From h to tl, next links exactly the threads of Q, each once.
IsQueue(next, h, tl, Q) ==
  /\ h = NULL <=> Q = {}
  /\ tl = NULL <=> Q = {}
  /\ Q # {} => h \in Q /\ tl \in Q /\ next[tl] = NULL
  /\ \A t \in Q : next[t] \in (Q \ {h}) \union {NULL}
  /\ \A t, u \in Q : next[t] = next[u] /\ next[t] # NULL => t = u
  /\ \A S \in SUBSET Q :
       h \in S /\ (\A t \in S : next[t] \in S \union {NULL}) => S = Q

Placements == [Threads -> Conds \union {NULL}]
NobodySleeps == [t \in Threads |-> NULL]

\* Who is in the ready list, blocked for a mutex, in its queue, asleep on a
\* condition.
ReadySet(mem) == {t \in Threads : mem.state[t] = "READY"}
BlockedOn(mem, m) ==
  {t \in Threads : mem.state[t] = "BLOCKED" /\ mem.waiting_on[t] = m}
WaitSet(mem, on, m) ==
  {t \in Threads : mem.state[t] = "BLOCKED" /\ mem.waiting_on[t] = m /\ on[t] = NULL}
SleepSet(on, c) == {t \in Threads : on[t] = c}

\* The queues hold the threads whose fields say so, the other threads have no
\* link left over from a queue they were in, and all that sleep on a condition
\* gave up the same mutex.
QueuesInv(mem, on) ==
  /\ on \in Placements
  /\ IsQueue(mem.next, mem.head, mem.tail, ReadySet(mem))
  /\ \A m \in Mutexes :
       IsQueue(mem.next, mem.mhead[m], mem.mtail[m], WaitSet(mem, on, m))
  /\ \A c \in Conds :
       IsQueue(mem.next, mem.chead[c], mem.ctail[c], SleepSet(on, c))
  /\ \A t \in Threads :
       mem.state[t] \in {"CREATED", "RUNNING"} => mem.next[t] = NULL
  /\ \A t \in Threads : mem.state[t] = "BLOCKED" => mem.waiting_on[t] # NULL
  /\ \A t \in Threads : on[t] # NULL => mem.state[t] = "BLOCKED"
  /\ \A t, u \in Threads :
       on[t] # NULL /\ on[u] = on[t] => mem.waiting_on[u] = mem.waiting_on[t]
  /\ mem.state[Main] = "RUNNING"
=============================================================================
