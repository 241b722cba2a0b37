---------------------------- MODULE MutexSystem -----------------------------
(***************************************************************************)
(* Threads and mutexes: every system call on them, the timer interrupt and *)
(* the idle loop, for user programs that call the kernel in any order the  *)
(* C library allows.  A trap is one step: it is entered with interrupts    *)
(* masked and left only by the sret of trap.S.                             *)
(*                                                                         *)
(* depth and exited belong to the user programs: how many times a thread   *)
(* has locked a mutex by its own account (calls that have not returned     *)
(* yet included), and which threads have called thrd_exit.                 *)
(***************************************************************************)
EXTENDS Kernel

CONSTANTS
  MaxDepth,     \* bound: how deep a user locks a recursive mutex
  LockAfter,    \* LockAfter[m]: mutexes a thread may hold when it locks m
  DetachLive    \* may users detach a thread that has not exited yet?

ASSUME MutexSystemAssumption ==
  /\ MaxDepth \in Nat /\ 0 < MaxDepth /\ MaxDepth < CountMod
  /\ LockAfter \in [Mutexes -> SUBSET Mutexes]
  /\ DetachLive \in BOOLEAN

VARIABLES k, depth, exited

vars == <<k, depth, exited>>

Unlocked == [m \in Mutexes |-> 0]

\* init() has created the signal processor p and the user thread u; the idle
\* thread is about to enter its loop.
Init ==
  \E p \in Threads, u \in Threads :
    /\ p # u
    /\ k = kscheduler_enqueue(kthread_create(
             kscheduler_enqueue(kthread_create(Reset, p), p), u), u)
    /\ depth = [t \in Threads |-> Unlocked]
    /\ exited = {}

\* Only the current thread executes instructions, so only it makes calls.
Caller(t) == t \in Threads /\ k.current = t

-----------------------------------------------------------------------------
(* Thread system calls *)

syscall_thread_create(t) ==
  /\ Caller(t)
  /\ \E u \in Threads \ k.heap : k' = kscheduler_enqueue(kthread_create(k, u), u)
  /\ UNCHANGED <<depth, exited>>

\* Users release what they hold before they exit.
syscall_thread_exit(t) ==
  /\ Caller(t)
  /\ depth[t] = Unlocked
  /\ k' = kthread_stop(k)
  /\ exited' = exited \union {t}
  /\ UNCHANGED depth

syscall_thread_detach(t) ==
  /\ Caller(t)
  /\ \E u \in Threads \intersect k.heap :
       /\ DetachLive \/ u \in exited
       /\ k' = kthread_destroy(k, u)
       /\ exited' = exited \ {u}
  /\ UNCHANGED depth

\* thrd_yield, and the loop of the idle thread.
syscall_thread_dispatch ==
  /\ k' = kthread_dispatch(k)
  /\ UNCHANGED <<depth, exited>>

\* The idle thread runs with interrupts masked, a user thread never does.
timer_interrupt ==
  /\ k.current # Main
  /\ k' = kthread_dispatch(k)
  /\ UNCHANGED <<depth, exited>>

-----------------------------------------------------------------------------
(* Mutex system calls *)

syscall_mutex_create(t) ==
  /\ Caller(t)
  /\ \E m \in Mutexes \ k.heap :
       k' = [kmutex_init(k, m) EXCEPT !.heap = k.heap \union {m}]
  /\ UNCHANGED <<depth, exited>>

\* Users do not destroy a mutex that a thread holds or waits for.
syscall_mutex_destroy(t) ==
  /\ Caller(t)
  /\ \E m \in Mutexes \intersect k.heap :
       /\ \A u \in Threads : depth[u][m] = 0
       /\ k' = [kmutex_destroy(k, m) EXCEPT !.heap = @ \ {m}]
  /\ UNCHANGED <<depth, exited>>

\* Users relock recursive mutexes only, and follow the lock order.
MayLock(t, m) ==
  /\ m \in k.heap
  /\ depth[t][m] < (IF m \in Recursive THEN MaxDepth ELSE 1)
  /\ \A n \in Mutexes \ {m} : depth[t][n] > 0 => n \in LockAfter[m]

DispatchIfBlocked(k1) ==
  IF k1.state[k1.current] = "BLOCKED" THEN kthread_dispatch(k1) ELSE k1

syscall_mutex_lock(t, m) ==
  /\ Caller(t)
  /\ MayLock(t, m)
  /\ k' = DispatchIfBlocked(kmutex_lock(k, m, t))
  /\ depth' = [depth EXCEPT ![t][m] = @ + 1]
  /\ UNCHANGED exited

\* Succeeds, or returns BUSY and changes nothing.
syscall_mutex_try_lock(t, m) ==
  /\ Caller(t)
  /\ m \in k.heap
  /\ k' = kmutex_try_lock(k, m, t)
  /\ depth' = IF k.owner[m] = NULL THEN [depth EXCEPT ![t][m] = 1] ELSE depth
  /\ UNCHANGED exited

\* Succeeds, or returns ERROR to a thread that does not own the mutex.
syscall_mutex_unlock(t, m) ==
  /\ Caller(t)
  /\ m \in k.heap
  /\ k' = kmutex_unlock(k, m, t)
  /\ depth' = IF k.owner[m] = t THEN [depth EXCEPT ![t][m] = @ - 1] ELSE depth
  /\ UNCHANGED exited

-----------------------------------------------------------------------------
ThreadCall(t) ==
  syscall_thread_create(t) \/ syscall_thread_exit(t) \/ syscall_thread_detach(t)

MutexCall(t) ==
  \/ syscall_mutex_create(t)
  \/ syscall_mutex_destroy(t)
  \/ \E m \in Mutexes :
       \/ syscall_mutex_lock(t, m)
       \/ syscall_mutex_try_lock(t, m)
       \/ syscall_mutex_unlock(t, m)

Next ==
  \/ \E t \in Threads : ThreadCall(t) \/ MutexCall(t)
  \/ syscall_thread_dispatch
  \/ timer_interrupt

Spec == Init /\ [][Next]_vars

\* The idle loop keeps calling dispatch, the timer keeps ticking, and critical
\* sections end: a thread that gets the processor again and again while it has
\* locked a mutex d times does not stay at that depth or come back to it for
\* ever without unlocking.
Fairness ==
  /\ WF_vars(syscall_thread_dispatch /\ k.current = Main)
  /\ WF_vars(timer_interrupt)
  /\ \A t \in Threads, m \in Mutexes, d \in 1 .. MaxDepth :
       SF_vars(depth[t][m] = d /\ syscall_mutex_unlock(t, m))

-----------------------------------------------------------------------------
(* Properties *)

\* The kernel's memory and the users' accounts keep their types, and trap.S
\* always finds a thread to return to.
TypeOK ==
  /\ k \in Memory
  /\ k.current \in All
  /\ depth \in [Threads -> [Mutexes -> 0 .. MaxDepth]]
  /\ exited \subseteq Threads

\* A thread that believes it holds a mutex and can execute (it runs or is
\* ready) is the owner of it: hand-off at unlock (mutex.c:65-75) never wakes a
\* thread that has not got the mutex it asked for, so no two threads that can
\* execute hold the same mutex.
MutualExclusion ==
  \A t \in Threads, m \in Mutexes :
    depth[t][m] > 0 /\ k.state[t] # "BLOCKED" => k.owner[m] = t

\* No thread is lost or in two places, although all the queues link threads
\* through the same field: an allocated thread is the current one, has exited,
\* is in the ready list, or is in the queue of the mutex it waits for, and its
\* state says which.
NoThreadLost ==
  \A t \in Threads \intersect k.heap :
    /\ t \in Chain(k, k.head) <=> k.state[t] = "READY"
    /\ \A m \in Mutexes :
         t \in Chain(k, k.mhead[m]) <=> k.state[t] = "BLOCKED" /\ k.waiting_on[t] = m
    /\ k.state[t] = "RUNNING" <=> (k.current = t \/ t \in exited)
    /\ k.state[t] = "BLOCKED" => k.waiting_on[t] # NULL

\* Everything the kernel can still reach is allocated: the current thread, the
\* threads of every queue, the owner of every mutex.
NoDanglingThread ==
  /\ k.current \in k.heap \union {Main}
  /\ Chain(k, k.head) \subseteq k.heap
  /\ \A m \in Mutexes \intersect k.heap :
       /\ Chain(k, k.mhead[m]) \subseteq k.heap
       /\ k.owner[m] \in k.heap \union {NULL}

\* A mutex somebody waits for is owned by another thread, so there is somebody
\* whose unlock will pass it on (mutex.c:60-63 frees it only if nobody waits).
WaitersHaveAnOwner ==
  \A t \in Threads, m \in Mutexes :
    k.state[t] = "BLOCKED" /\ k.waiting_on[t] = m => k.owner[m] \notin {NULL, t}

\* The 16-bit count of a mutex (mutex.c:55-58) agrees with its owner's account,
\* so that a recursive mutex is given up exactly by the outermost unlock.
CountIsDepth ==
  \A m \in Mutexes :
    k.lock_count[m] = (IF k.owner[m] \in Threads THEN depth[k.owner[m]][m] ELSE 0)

\* A mutex changes hands only when its owner, running, unlocks it for the last
\* time: no lock, try_lock or failing unlock of another thread takes it away.
OnlyTheOwnerReleases ==
  [][\A m \in Mutexes :
       k.owner[m] # NULL /\ k'.owner[m] # k.owner[m]
         => k.current = k.owner[m] /\ depth'[k.owner[m]][m] = 0]_vars

\* Round robin under the timer: a ready thread eventually runs.
ReadyThreadsRun ==
  \A t \in Threads : k.state[t] = "READY" ~> k.current = t

\* First-in first-out hand-off: a thread in the queue of a mutex, because it
\* asked for it or because a signal moved it there, gets the mutex and then the
\* processor.
WaitersAreServed ==
  \A t \in Threads, m \in Mutexes :
    t \in Chain(k, k.mhead[m]) ~> (k.owner[m] = t /\ k.current = t)
=============================================================================
