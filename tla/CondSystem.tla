----------------------------- MODULE CondSystem -----------------------------
(***************************************************************************)
(* MutexSystem with the condition variables of condition.c, and the system *)
(* calls that reach them.  Users follow the rules of the C library: they   *)
(* wait on a condition holding its mutex, and all the threads asleep on a  *)
(* condition wait with the same mutex.  The library lets them signal at    *)
(* any time; the two constants restrict them further, to the uses for      *)
(* which the code keeps its promises.                                      *)
(***************************************************************************)
EXTENDS MutexRefinement

CONSTANTS
  HoldToSignal,   \* users signal and broadcast only while they hold the mutex
  HeldAsleep,     \* the mutexes users may hold while they sleep with each mutex
  OneSleeper      \* users signal (not broadcast) at most one sleeping thread

ASSUME CondSystemAssumption ==
  /\ HoldToSignal \in BOOLEAN /\ OneSleeper \in BOOLEAN
  /\ HeldAsleep \in [Mutexes -> SUBSET Mutexes]
  /\ \A m \in Mutexes : HeldAsleep[m] \subseteq LockAfter[m]

Sleepers(c) == Chain(k, k.chead[c])

\* The mutexes the threads asleep on c have to get back.
MutexesOf(c) == {k.waiting_on[t] : t \in Sleepers(c)}

-----------------------------------------------------------------------------
syscall_cond_create(t) ==
  /\ Caller(t)
  /\ \E c \in Conds \ k.heap :
       k' = [kcond_init(k, c) EXCEPT !.heap = k.heap \union {c}]
  /\ UNCHANGED <<depth, exited>>

\* Users do not destroy a condition on which a thread sleeps.
syscall_cond_destroy(t) ==
  /\ Caller(t)
  /\ \E c \in Conds \intersect k.heap :
       /\ Sleepers(c) = {}
       /\ k' = [kcond_destroy(k, c) EXCEPT !.heap = @ \ {c}]
  /\ UNCHANGED <<depth, exited>>

\* The call returns with the mutex locked again, so the caller's account of its
\* locks does not change.
syscall_cond_wait(t, c, m) ==
  /\ Caller(t)
  /\ c \in k.heap
  /\ depth[t][m] = 1
  /\ MutexesOf(c) \subseteq {m}
  /\ \A n \in Mutexes \ {m} : depth[t][n] > 0 => n \in HeldAsleep[m]
  /\ k' = DispatchIfBlocked(kcond_wait(k, c, m, t))
  /\ UNCHANGED <<depth, exited>>

MaySignal(t, c) ==
  /\ c \in k.heap
  /\ HoldToSignal => \A m \in MutexesOf(c) : depth[t][m] > 0

\* The waiting_on a wrong queue may hold as NULL is dereferenced by the code:
\* what follows is not modelled.
NoNullMutex(c) == NULL \notin MutexesOf(c)

syscall_cond_signal(t, c) ==
  /\ Caller(t)
  /\ MaySignal(t, c) /\ NoNullMutex(c)
  /\ OneSleeper => Cardinality(Sleepers(c)) <= 1
  /\ k' = kcond_signal(k, c, FALSE)
  /\ UNCHANGED <<depth, exited>>

syscall_cond_signal_all(t, c) ==
  /\ Caller(t)
  /\ MaySignal(t, c) /\ NoNullMutex(c)
  /\ k' = kcond_signal_all(k, c)
  /\ UNCHANGED <<depth, exited>>

-----------------------------------------------------------------------------
CondCall(t) ==
  \/ syscall_cond_create(t)
  \/ syscall_cond_destroy(t)
  \/ \E c \in Conds :
       \/ syscall_cond_signal(t, c)
       \/ syscall_cond_signal_all(t, c)
       \/ \E m \in Mutexes : syscall_cond_wait(t, c, m)

CondNext == Next \/ \E t \in Threads : CondCall(t)

CondSpec == Init /\ [][CondNext]_vars

CondFairSpec == CondSpec /\ Fairness

-----------------------------------------------------------------------------
(* Properties *)

\* No thread is lost or in two queues, the queues of the conditions included: a
\* blocked thread is in the queue of the mutex it waits for or asleep on one
\* condition, and in nothing else.  (condition.c:26-30 moves a thread from one
\* kind of queue to the other through the one `next' field it has.)
OneQueueEach ==
  \A t \in Threads \intersect k.heap :
    /\ t \in Chain(k, k.head) <=> k.state[t] = "READY"
    /\ k.state[t] = "RUNNING" <=> (k.current = t \/ t \in exited)
    /\ k.state[t] = "BLOCKED" <=>
         Cardinality({m \in Mutexes : t \in Chain(k, k.mhead[m])})
           + Cardinality({c \in Conds : t \in Sleepers(c)}) = 1
    /\ \A m \in Mutexes : t \in Chain(k, k.mhead[m]) => k.waiting_on[t] = m

\* A blocked thread does not own the mutex it is blocked for: were it handed the
\* mutex without being made ready, nobody could ever unlock it.
NoBlockedOwner ==
  \A t \in Threads, m \in Mutexes :
    k.state[t] = "BLOCKED" /\ k.waiting_on[t] = m => k.owner[m] # t
=============================================================================
