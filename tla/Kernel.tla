------------------------------- MODULE Kernel -------------------------------
(***************************************************************************)
(* The thread kernel's data structures and C functions, one operator per   *)
(* function, named as in the source (src/Software/src/kernel/sync).        *)
(*                                                                         *)
(* A trap is handled with interrupts masked, so a C function called from a *)
(* trap handler runs to its end undisturbed.  It is therefore a pure       *)
(* operator from the kernel's memory k to the memory it leaves, and a      *)
(* system call is a composition of such operators.  Every queue is the     *)
(* linked list of the source: a head, a tail and the `next' field of the   *)
(* threads, which all the queues share.                                    *)
(***************************************************************************)
EXTENDS Integers, FiniteSets

CONSTANTS
  Threads,      \* addresses a struct kthread can be allocated at
  Main,         \* the statically allocated idle thread, kthread_main
  Mutexes,      \* addresses a struct kmutex can be allocated at
  Conds,        \* addresses a struct kcond can be allocated at
  Recursive,    \* the mutexes initialised with recursive = true
  CountMod,     \* lock_count is a uint16_t: it counts modulo CountMod
  NULL

ASSUME KernelAssumption ==
  /\ IsFiniteSet(Threads)
  /\ Main \notin Threads
  /\ NULL \notin Threads \union {Main} \union Mutexes \union Conds
  /\ Mutexes \intersect (Threads \union {Main} \union Conds) = {}
  /\ Conds \intersect (Threads \union {Main}) = {}
  /\ Recursive \subseteq Mutexes
  /\ CountMod \in Nat /\ CountMod > 1

All == Threads \union {Main}
Objects == Threads \union Mutexes \union Conds
States == {"CREATED", "READY", "RUNNING", "BLOCKED"}

\* The kernel's memory: kthread_current, the fields of every struct kthread,
\* the two static pointers of the scheduler, the fields of every struct kmutex
\* and kcond, and the set of objects the kernel heap has handed out.
Memory ==
  [ current    : All \union {NULL},
    next       : [All -> All \union {NULL}],
    state      : [All -> States],
    waiting_on : [All -> Mutexes \union {NULL}],
    head       : All \union {NULL},
    tail       : All \union {NULL},
    owner      : [Mutexes -> All \union {NULL}],
    lock_count : [Mutexes -> 0 .. CountMod - 1],
    mhead      : [Mutexes -> All \union {NULL}],
    mtail      : [Mutexes -> All \union {NULL}],
    chead      : [Conds -> All \union {NULL}],
    ctail      : [Conds -> All \union {NULL}],
    heap       : SUBSET Objects ]

\* The memory at reset: kthread_main is the current thread, nothing is
\* allocated.  The fields of unallocated objects are never read before the
\* create functions assign them.
Reset ==
  [ current    |-> Main,
    next       |-> [t \in All |-> NULL],
    state      |-> [t \in All |-> IF t = Main THEN "RUNNING" ELSE "CREATED"],
    waiting_on |-> [t \in All |-> NULL],
    head       |-> NULL,
    tail       |-> NULL,
    owner      |-> [m \in Mutexes |-> NULL],
    lock_count |-> [m \in Mutexes |-> 0],
    mhead      |-> [m \in Mutexes |-> NULL],
    mtail      |-> [m \in Mutexes |-> NULL],
    chead      |-> [c \in Conds |-> NULL],
    ctail      |-> [c \in Conds |-> NULL],
    heap       |-> {} ]

\* The threads a loop over `next' that starts at h visits: the least set that
\* holds h and is closed under next.
Chain(k, h) ==
  {t \in All : h # NULL /\
     \A S \in SUBSET All :
       (h \in S /\ \A u \in S : k.next[u] # NULL => k.next[u] \in S) => t \in S}

-----------------------------------------------------------------------------
(* scheduler.c.  An operator whose name starts with Mutant is not the code's: *)
(* it is a plausible mistake in the definition that follows it, kept to show  *)
(* that the properties would notice.                                          *)

\* Newly ready threads go to the front.
Mutant_enqueue_front(k, t) ==
  [k EXCEPT !.state[t] = "READY",
            !.waiting_on[t] = NULL,
            !.next[t] = k.head,
            !.head = t,
            !.tail = IF k.head = NULL THEN t ELSE k.tail]

kscheduler_enqueue(k, t) ==
  LET cleared == [k.next EXCEPT ![t] = NULL] IN
  [k EXCEPT !.state[t] = "READY",
            !.waiting_on[t] = NULL,
            !.next = IF k.head = NULL THEN cleared ELSE [cleared EXCEPT ![k.tail] = t],
            !.head = IF k.head = NULL THEN t ELSE k.head,
            !.tail = t]

\* The dequeued thread keeps its link.
Mutant_dequeue_keeps_next(k) ==
  IF k.head = NULL THEN k
  ELSE [k EXCEPT !.head = k.next[k.head],
                 !.tail = IF k.next[k.head] = NULL THEN NULL ELSE k.tail]

\* The thread returned is k.head; this is the memory left behind.
kscheduler_dequeue(k) ==
  IF k.head = NULL THEN k
  ELSE [k EXCEPT !.head = k.next[k.head],
                 !.tail = IF k.next[k.head] = NULL THEN NULL ELSE k.tail,
                 !.next[k.head] = NULL,
                 !.waiting_on[k.head] = NULL]

-----------------------------------------------------------------------------
(* thread.c *)

\* A successful kthread_create that got its memory at address t; a failing
\* allocation frees what it got and changes nothing.
kthread_create(k, t) ==
  [k EXCEPT !.state[t] = "READY", !.next[t] = NULL, !.heap = k.heap \union {t}]

\* The current thread goes to the tail of the ready list unless it has
\* blocked, has stopped, or is the idle thread; the head of the list runs next,
\* the idle thread if the list is empty.
Mutant_idle_requeues(k) ==
  k.current # NULL /\ k.state[k.current] # "BLOCKED"

Requeues(k) ==
  k.current # NULL /\ k.state[k.current] # "BLOCKED" /\ k.current # Main

kthread_dispatch(k) ==
  LET k1 == IF Requeues(k) THEN kscheduler_enqueue(k, k.current) ELSE k
      next_thread == IF k1.head = NULL THEN Main ELSE k1.head
  IN  [kscheduler_dequeue(k1) EXCEPT !.current = next_thread,
                                     !.state[next_thread] = "RUNNING"]

\* kthread_current is not forgotten.
Mutant_stop_requeues(k) == kthread_dispatch(k)

kthread_stop(k) == kthread_dispatch([k EXCEPT !.current = NULL])

\* The memory is returned to the heap whatever queue the thread is in; its
\* fields keep their values until the address is allocated again.
kthread_destroy(k, t) == [k EXCEPT !.heap = k.heap \ {t}]

-----------------------------------------------------------------------------
(* mutex.c *)

kmutex_init(k, m) ==
  [k EXCEPT !.owner[m] = NULL, !.lock_count[m] = 0,
            !.mhead[m] = NULL, !.mtail[m] = NULL]

\* try_lock succeeds exactly when the mutex has no owner.
kmutex_try_lock(k, m, t) ==
  IF k.owner[m] # NULL THEN k
  ELSE [k EXCEPT !.owner[m] = t, !.lock_count[m] = 1]

\* The waiter goes to the front of the queue.
Mutant_block_at_front(k, m, t) ==
  [k EXCEPT !.state[t] = "BLOCKED",
            !.waiting_on[t] = m,
            !.next[t] = k.mhead[m],
            !.mhead[m] = t,
            !.mtail[m] = IF k.mhead[m] = NULL THEN t ELSE k.mtail[m]]

\* A thread that finds the mutex owned by another is appended to its queue; its
\* own `next' field is not touched.
Block(k, m, t) ==
  [k EXCEPT !.state[t] = "BLOCKED",
            !.waiting_on[t] = m,
            !.next = IF k.mhead[m] = NULL THEN k.next
                     ELSE [k.next EXCEPT ![k.mtail[m]] = t],
            !.mhead[m] = IF k.mhead[m] = NULL THEN t ELSE k.mhead[m],
            !.mtail[m] = t]

kmutex_lock(k, m, t) ==
  CASE k.owner[m] = NULL -> [k EXCEPT !.owner[m] = t, !.lock_count[m] = 1]
    [] k.owner[m] = t    -> IF m \notin Recursive THEN k
                            ELSE [k EXCEPT !.lock_count[m] = (@ + 1) % CountMod]
    [] OTHER             -> Block(k, m, t)

\* The first waiter is woken, to find the mutex free.
Mutant_handoff_frees(k, m) ==
  LET t == k.mhead[m] IN
  kscheduler_enqueue(
    [k EXCEPT !.lock_count[m] = 0,
              !.mhead[m] = k.next[t],
              !.mtail[m] = IF k.next[t] = NULL THEN NULL ELSE k.mtail[m],
              !.owner[m] = NULL],
    t)

\* The count is not set for the new owner.
Mutant_handoff_keeps_count(k, m) ==
  LET t == k.mhead[m] IN
  kscheduler_enqueue(
    [k EXCEPT !.lock_count[m] = (@ - 1) % CountMod,
              !.mhead[m] = k.next[t],
              !.mtail[m] = IF k.next[t] = NULL THEN NULL ELSE k.mtail[m],
              !.owner[m] = t],
    t)

\* The mutex goes straight to the first waiter, which becomes ready.
HandOff(k, m) ==
  LET t == k.mhead[m] IN
  kscheduler_enqueue(
    [k EXCEPT !.lock_count[m] = 1,
              !.mhead[m] = k.next[t],
              !.mtail[m] = IF k.next[t] = NULL THEN NULL ELSE k.mtail[m],
              !.owner[m] = t],
    t)

\* Nobody looks at the queue.
Mutant_unlock_without_handoff(k, m, t) ==
  LET count == (k.lock_count[m] - 1) % CountMod IN
  CASE k.owner[m] # t                   -> k
    [] k.owner[m] = t /\ m \in Recursive /\ count > 0
                                        -> [k EXCEPT !.lock_count[m] = count]
    [] OTHER                            -> [k EXCEPT !.lock_count[m] = count,
                                                     !.owner[m] = NULL]

\* Any thread may unlock.
Mutant_unlock_by_anyone(k, m, t) ==
  LET count == (k.lock_count[m] - 1) % CountMod IN
  CASE m \in Recursive /\ count > 0 -> [k EXCEPT !.lock_count[m] = count]
    [] ~(m \in Recursive /\ count > 0) /\ k.mhead[m] = NULL
                                    -> [k EXCEPT !.lock_count[m] = count,
                                                 !.owner[m] = NULL]
    [] OTHER                        -> HandOff(k, m)

kmutex_unlock(k, m, t) ==
  LET count == (k.lock_count[m] - 1) % CountMod IN
  CASE k.owner[m] # t                    -> k
    [] k.owner[m] = t /\ m \in Recursive /\ count > 0
                                         -> [k EXCEPT !.lock_count[m] = count]
    [] k.owner[m] = t /\ ~(m \in Recursive /\ count > 0) /\ k.mhead[m] = NULL
                                         -> [k EXCEPT !.lock_count[m] = count,
                                                      !.owner[m] = NULL]
    [] OTHER                             -> HandOff(k, m)

\* Every thread in the queue is destroyed with the mutex.
kmutex_destroy(k, m) == [k EXCEPT !.heap = k.heap \ Chain(k, k.mhead[m])]

-----------------------------------------------------------------------------
(* condition.c *)

kcond_init(k, c) == [k EXCEPT !.chead[c] = NULL, !.ctail[c] = NULL]

\* The waiter falls asleep with the mutex.
Mutant_wait_without_unlock(k, c, m, t) ==
  [k EXCEPT !.state[t] = "BLOCKED",
            !.waiting_on[t] = m,
            !.next = IF k.chead[c] = NULL THEN k.next
                     ELSE [k.next EXCEPT ![k.ctail[c]] = t],
            !.chead[c] = IF k.chead[c] = NULL THEN t ELSE k.chead[c],
            !.ctail[c] = t]

\* The caller joins the condition's queue, then the mutex is unlocked; the
\* status of the unlock is ignored.
kcond_wait(k, c, m, t) ==
  kmutex_unlock(
    [k EXCEPT !.state[t] = "BLOCKED",
              !.waiting_on[t] = m,
              !.next = IF k.chead[c] = NULL THEN k.next
                       ELSE [k.next EXCEPT ![k.ctail[c]] = t],
              !.chead[c] = IF k.chead[c] = NULL THEN t ELSE k.chead[c],
              !.ctail[c] = t],
    m, t)

\* The waiter is made ready whether it got its mutex or not.
Mutant_signal_always_enqueues(k, c, enqueue) ==
  LET t  == k.chead[c]
      k1 == [k EXCEPT !.chead[c] = k.next[t],
                      !.ctail[c] = IF k.next[t] = NULL THEN NULL ELSE k.ctail[c]]
      k2 == kmutex_lock(k1, k.waiting_on[t], t)
  IN  IF t = NULL THEN k ELSE kscheduler_enqueue(k2, t)

\* The first waiter locks its mutex on behalf of the signaller; it is made
\* ready only if the caller asks for that.
kcond_signal(k, c, enqueue) ==
  LET t  == k.chead[c]
      k1 == [k EXCEPT !.chead[c] = k.next[t],
                      !.ctail[c] = IF k.next[t] = NULL THEN NULL ELSE k.ctail[c]]
      k2 == kmutex_lock(k1, k.waiting_on[t], t)
  IN  IF t = NULL THEN k
      ELSE IF enqueue THEN kscheduler_enqueue(k2, t) ELSE k2

\* The waiters are moved but stay in the condition's queue.
Mutant_signal_all_keeps_queue(k, c) ==
  LET N == Cardinality(All)
      loop[i \in 0 .. N] ==
        IF i = 0 THEN [k |-> k, thread |-> k.chead[c]]
        ELSE LET p == loop[i - 1] IN
             IF p.thread = NULL THEN p
             ELSE [k |-> kmutex_lock(p.k, p.k.waiting_on[p.thread], p.thread),
                   thread |-> p.k.next[p.thread]]
  IN  loop[N].k

\* Only the first waiter is moved.
Mutant_signal_all_once(k, c) ==
  [kcond_signal(k, c, FALSE) EXCEPT !.chead[c] = NULL, !.ctail[c] = NULL]

\* The loop of kcond_signal_all: `next' is read before the thread is moved.  A
\* queue visits at most Cardinality(All) threads.
kcond_signal_all(k, c) ==
  LET N == Cardinality(All)
      loop[i \in 0 .. N] ==
        IF i = 0 THEN [k |-> k, thread |-> k.chead[c]]
        ELSE LET p == loop[i - 1] IN
             IF p.thread = NULL THEN p
             ELSE [k |-> kmutex_lock(p.k, p.k.waiting_on[p.thread], p.thread),
                   thread |-> p.k.next[p.thread]]
  IN  [loop[N].k EXCEPT !.chead[c] = NULL, !.ctail[c] = NULL]

kcond_destroy(k, c) == [k EXCEPT !.heap = k.heap \ Chain(k, k.chead[c])]
=============================================================================
