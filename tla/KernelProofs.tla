---------------------------- MODULE KernelProofs ----------------------------
(***************************************************************************)
(* Lemmas about the kernel's C functions, for any memory whose queues are  *)
(* in order: first the linked lists (append, remove, frame), then each     *)
(* function as an operation on the lists.  MutexProofs and SignalProofs    *)
(* rest on them.                                                           *)
(***************************************************************************)
EXTENDS KernelInvariant, FiniteSetTheorems, WellFoundedInduction, TLAPS

Links == [All -> All \union {NULL}]

-----------------------------------------------------------------------------
(* Linked lists *)

\* A list does not change if the links of its own threads do not.
LEMMA QueueFrame ==
  ASSUME NEW n1 \in Links, NEW n2 \in Links, NEW Q \in SUBSET Threads,
         NEW h, NEW tl,
         IsQueue(n1, h, tl, Q),
         \A t \in Q : n2[t] = n1[t]
  PROVE  IsQueue(n2, h, tl, Q)
BY DEF IsQueue

\* Linking a thread behind the tail of a list it is not in appends it.
LEMMA QueueAppend ==
  ASSUME NEW n1 \in Links, NEW n2 \in Links, NEW Q \in SUBSET Threads,
         NEW h, NEW tl, NEW x \in Threads \ Q,
         IsQueue(n1, h, tl, Q),
         n2[x] = NULL,
         h # NULL => n2[tl] = x,
         \A t \in Q : t # tl => n2[t] = n1[t]
  PROVE  IsQueue(n2, IF h = NULL THEN x ELSE h, x, Q \union {x})
<1>1. NULL \notin Threads
  BY KernelAssumption
<1> DEFINE h2 == IF h = NULL THEN x ELSE h
           Q2 == Q \union {x}
<1>2. h2 # NULL /\ h2 \in Q2 /\ (Q # {} => h2 = h /\ h \in Q /\ tl \in Q /\ n1[tl] = NULL /\ n2[tl] = x)
  BY <1>1 DEF IsQueue
<1>3. ASSUME NEW t \in Q2 PROVE n2[t] \in (Q2 \ {h2}) \union {NULL}
  <2>1. CASE t = x
    BY <2>1
  <2>2. CASE t # x /\ t = tl
    BY <2>2, <1>2
  <2>3. CASE t # x /\ t # tl
    <3>1. t \in Q /\ n2[t] = n1[t] /\ n1[t] \in (Q \ {h}) \union {NULL}
      BY <2>3 DEF IsQueue
    <3> QED BY <3>1, <1>2
  <2> QED BY <2>1, <2>2, <2>3
<1>4. ASSUME NEW t \in Q2, NEW u \in Q2, n2[t] = n2[u], n2[t] # NULL PROVE t = u
  <2>1. t # x /\ u # x
    BY <1>4
  <2>2. t \in Q /\ u \in Q /\ n1[t] # x /\ n1[u] # x
    BY <2>1, <1>1 DEF IsQueue
  <2>3. CASE t = tl \/ u = tl
    BY <2>3, <2>2, <1>2, <1>4
  <2>4. CASE t # tl /\ u # tl
    BY <2>4, <2>2, <1>4 DEF IsQueue
  <2> QED BY <2>3, <2>4
<1>5. ASSUME NEW S \in SUBSET Q2, h2 \in S, \A t \in S : n2[t] \in S \union {NULL}
      PROVE  S = Q2
  <2>1. CASE Q = {}
    BY <2>1, <1>2, <1>5
  <2>2. CASE Q # {}
    <3>1. h \in S \ {x} /\ S \ {x} \in SUBSET Q
      BY <2>2, <1>2, <1>5
    <3>2. ASSUME NEW t \in S \ {x} PROVE n1[t] \in (S \ {x}) \union {NULL}
      <4>1. CASE t = tl
        BY <4>1, <2>2, <1>2
      <4>2. CASE t # tl
        <5>1. t \in Q /\ n2[t] = n1[t] /\ n1[t] \in Q \union {NULL}
          BY <4>2 DEF IsQueue
        <5> QED BY <5>1, <1>5
      <4> QED BY <4>1, <4>2
    <3>3. S \ {x} = Q
      BY <3>1, <3>2 DEF IsQueue
    <3>4. tl \in S /\ n2[tl] = x
      BY <3>3, <2>2, <1>2
    <3>5. x \in S
      BY <3>4, <1>5, <1>1
    <3> QED BY <3>3, <3>5
  <2> QED BY <2>1, <2>2
<1> QED
  BY <1>1, <1>2, <1>3, <1>4, <1>5 DEF IsQueue

\* Moving the head to its successor removes the first thread.
LEMMA QueueRemove ==
  ASSUME NEW n1 \in Links, NEW n2 \in Links, NEW Q \in SUBSET Threads,
         NEW h, NEW tl,
         IsQueue(n1, h, tl, Q), h # NULL,
         \A t \in Q : t # h => n2[t] = n1[t]
  PROVE  IsQueue(n2, n1[h], IF n1[h] = NULL THEN NULL ELSE tl, Q \ {h})
<1>1. NULL \notin Threads
  BY KernelAssumption
<1>2. h \in Q /\ tl \in Q /\ n1[tl] = NULL /\ n1[h] \in (Q \ {h}) \union {NULL}
  BY DEF IsQueue
<1>3. CASE n1[h] = NULL
  <2>1. Q = {h}
    <3>1. {h} \in SUBSET Q /\ h \in {h} /\ \A t \in {h} : n1[t] \in {h} \union {NULL}
      BY <1>2, <1>3
    <3> QED BY <3>1 DEF IsQueue
  <2> QED BY <2>1, <1>3 DEF IsQueue
<1>4. CASE n1[h] # NULL
  <2> DEFINE h2 == n1[h]
             Q2 == Q \ {h}
  <2>1. h2 \in Q2 /\ tl \in Q2 /\ n2[tl] = NULL
    BY <1>2, <1>4
  <2>2. ASSUME NEW t \in Q2 PROVE n2[t] \in (Q2 \ {h2}) \union {NULL}
    <3>1. n2[t] = n1[t] /\ n1[t] \in (Q \ {h}) \union {NULL} /\ t \in Q /\ t # h
      BY DEF IsQueue
    <3>2. n1[t] # h2
      BY <3>1, <1>2, <1>4 DEF IsQueue
    <3> QED BY <3>1, <3>2
  <2>3. ASSUME NEW t \in Q2, NEW u \in Q2, n2[t] = n2[u], n2[t] # NULL PROVE t = u
    BY <2>3 DEF IsQueue
  <2>4. ASSUME NEW S \in SUBSET Q2, h2 \in S, \A t \in S : n2[t] \in S \union {NULL}
        PROVE  S = Q2
    <3>1. S \union {h} \in SUBSET Q /\ h \in S \union {h}
      BY <1>2
    <3>2. \A t \in S \union {h} : n1[t] \in (S \union {h}) \union {NULL}
      BY <2>4
    <3>3. S \union {h} = Q
      BY <3>1, <3>2 DEF IsQueue
    <3> QED BY <3>3
  <2>5. h2 # NULL /\ tl # NULL /\ Q2 # {}
    BY <2>1, <1>1, <1>4
  <2> HIDE DEF h2, Q2
  <2>6. IsQueue(n2, h2, tl, Q2)
    BY <2>1, <2>2, <2>3, <2>4, <2>5 DEF IsQueue
  <2> QED BY <2>6, <1>4 DEF h2, Q2
<1> QED BY <1>3, <1>4

\* The loops of the kernel over a queue visit exactly the threads in it.
LEMMA ChainIsQueue ==
  ASSUME NEW mem, NEW h, NEW tl, NEW Q \in SUBSET Threads, IsQueue(mem.next, h, tl, Q)
  PROVE  Chain(mem, h) = Q
<1>1. NULL \notin All /\ Threads \subseteq All
  BY KernelAssumption DEF All
<1>2. CASE h = NULL
  BY <1>2 DEF IsQueue, Chain
<1>3. CASE h # NULL
  <2>1. /\ Q \in SUBSET All /\ h \in Q
        /\ \A u \in Q : mem.next[u] # NULL => mem.next[u] \in Q
    BY <1>1, <1>3 DEF IsQueue
  <2>2. ASSUME NEW t \in Chain(mem, h) PROVE t \in Q
    BY <2>1, <2>2 DEF Chain
  <2>3. ASSUME NEW t \in Q, NEW S \in SUBSET All, h \in S,
               \A u \in S : mem.next[u] # NULL => mem.next[u] \in S
        PROVE  t \in S
    <3>1. /\ S \intersect Q \in SUBSET Q /\ h \in S \intersect Q
          /\ \A u \in S \intersect Q : mem.next[u] \in (S \intersect Q) \union {NULL}
      BY <2>1, <2>3
    <3>2. S \intersect Q = Q
      BY <3>1 DEF IsQueue
    <3> QED BY <3>2
  <2> QED BY <1>1, <1>3, <2>2, <2>3 DEF Chain
<1> QED BY <1>2, <1>3

-----------------------------------------------------------------------------
(* scheduler.c *)

\* The fields of the kernel's memory the scheduler does not touch.
SameMutexes(r, mem) ==
  /\ r.owner = mem.owner /\ r.lock_count = mem.lock_count
  /\ r.mhead = mem.mhead /\ r.mtail = mem.mtail
  /\ r.chead = mem.chead /\ r.ctail = mem.ctail
  /\ r.heap = mem.heap

\* r is mem with t appended to the ready list that held R.
Enqueued(r, mem, t, R) ==
  /\ r \in Memory
  /\ IsQueue(r.next, r.head, r.tail, R \union {t})
  /\ \A u \in All : u \notin R \union {t} => r.next[u] = mem.next[u]
  /\ r.state = [mem.state EXCEPT ![t] = "READY"]
  /\ r.waiting_on = [mem.waiting_on EXCEPT ![t] = NULL]
  /\ r.current = mem.current
  /\ SameMutexes(r, mem)

\* kscheduler_enqueue appends a thread that is not in the ready list.
LEMMA EnqueueEffect ==
  ASSUME NEW mem \in Memory, NEW t \in Threads, NEW R \in SUBSET (Threads \ {t}),
         IsQueue(mem.next, mem.head, mem.tail, R)
  PROVE  Enqueued(kscheduler_enqueue(mem, t), mem, t, R)
<1> DEFINE r == kscheduler_enqueue(mem, t)
<1>1. NULL \notin All /\ t \in All
  BY KernelAssumption DEF All
<1>2. mem.head # NULL => mem.tail \in R /\ mem.tail \in All
  BY DEF IsQueue, All
<1> DEFINE cleared == [mem.next EXCEPT ![t] = NULL]
           n2 == IF mem.head = NULL THEN cleared ELSE [cleared EXCEPT ![mem.tail] = t]
<1>3. mem.next \in Links /\ n2 \in Links /\ n2[t] = NULL
      /\ (mem.head # NULL => n2[mem.tail] = t)
      /\ \A u \in All : u # t /\ u # mem.tail => n2[u] = mem.next[u]
  BY <1>1, <1>2 DEF Memory, Links
<1>4. /\ r.next = n2
      /\ r.head = IF mem.head = NULL THEN t ELSE mem.head
      /\ r.tail = t
      /\ r.state = [mem.state EXCEPT ![t] = "READY"]
      /\ r.waiting_on = [mem.waiting_on EXCEPT ![t] = NULL]
      /\ r.current = mem.current
      /\ SameMutexes(r, mem)
  BY DEF kscheduler_enqueue, Memory, SameMutexes
<1>5. r \in Memory
  BY <1>1, <1>3, <1>4 DEF kscheduler_enqueue, Memory, Links, States
<1>6. IsQueue(r.next, r.head, r.tail, R \union {t})
  <2>1. \A u \in R : u # mem.tail => n2[u] = mem.next[u]
    BY <1>3 DEF All
  <2>2. t \in Threads \ R /\ R \in SUBSET Threads
    OBVIOUS
  <2> HIDE DEF n2
  <2>3. IsQueue(n2, IF mem.head = NULL THEN t ELSE mem.head, t, R \union {t})
    BY <1>3, <2>1, <2>2, QueueAppend
  <2> QED BY <1>4, <2>3
<1>7. \A u \in All : u \notin R \union {t} => r.next[u] = mem.next[u]
  <2>1. CASE mem.head = NULL
    BY <2>1, <1>4, <1>1 DEF Memory
  <2>2. CASE mem.head # NULL
    BY <2>2, <1>2, <1>3, <1>4
  <2> QED BY <2>1, <2>2
<1> QED BY <1>4, <1>5, <1>6, <1>7 DEF Enqueued

\* r is mem with the first thread of the ready list, which held R, removed.
Dequeued(r, mem, R) ==
  /\ r \in Memory
  /\ mem.head \in R
  /\ IsQueue(r.next, r.head, r.tail, R \ {mem.head})
  /\ r.next[mem.head] = NULL
  /\ \A u \in All : u # mem.head => r.next[u] = mem.next[u]
  /\ r.state = mem.state
  /\ r.waiting_on = [mem.waiting_on EXCEPT ![mem.head] = NULL]
  /\ r.current = mem.current
  /\ SameMutexes(r, mem)

\* kscheduler_dequeue removes the head of a ready list that is not empty.
LEMMA DequeueEffect ==
  ASSUME NEW mem \in Memory, NEW R \in SUBSET Threads,
         IsQueue(mem.next, mem.head, mem.tail, R), mem.head # NULL
  PROVE  Dequeued(kscheduler_dequeue(mem), mem, R)
<1> DEFINE r == kscheduler_dequeue(mem)
<1> DEFINE h == mem.head
           n2 == [mem.next EXCEPT ![h] = NULL]
<1>1. h \in R /\ h \in All /\ NULL \notin All
  BY KernelAssumption DEF IsQueue, All
<1>2. mem.next \in Links /\ n2 \in Links /\ n2[h] = NULL
      /\ \A u \in All : u # h => n2[u] = mem.next[u]
  BY <1>1 DEF Memory, Links
<1>3. /\ r.next = n2
      /\ r.head = mem.next[h]
      /\ r.tail = IF mem.next[h] = NULL THEN NULL ELSE mem.tail
      /\ r.state = mem.state
      /\ r.waiting_on = [mem.waiting_on EXCEPT ![mem.head] = NULL]
      /\ r.current = mem.current
      /\ SameMutexes(r, mem)
  BY DEF kscheduler_dequeue, Memory, SameMutexes
<1>4. r \in Memory
  BY <1>1, <1>2, <1>3 DEF kscheduler_dequeue, Memory, Links
<1>5. IsQueue(r.next, r.head, r.tail, R \ {h})
  <2>1. \A u \in R : u # h => n2[u] = mem.next[u]
    BY <1>2 DEF All
  <2> HIDE DEF n2
  <2>2. IsQueue(n2, mem.next[h], IF mem.next[h] = NULL THEN NULL ELSE mem.tail, R \ {h})
    BY <1>2, <2>1, QueueRemove
  <2> QED BY <1>3, <2>2
<1> QED BY <1>1, <1>2, <1>3, <1>4, <1>5 DEF Dequeued

\* The same threads are blocked for the mutexes and in their queues.
SameWaiters(r, mem, on) ==
  \A m \in Mutexes :
    WaitSet(r, on, m) = WaitSet(mem, on, m) /\ BlockedOn(r, m) = BlockedOn(mem, m)

\* The lists depend on these parts of the memory only.
SameQueues(r, mem) ==
  /\ r.next = mem.next /\ r.state = mem.state /\ r.waiting_on = mem.waiting_on
  /\ r.head = mem.head /\ r.tail = mem.tail
  /\ r.mhead = mem.mhead /\ r.mtail = mem.mtail
  /\ r.chead = mem.chead /\ r.ctail = mem.ctail

LEMMA QueuesFrame ==
  ASSUME NEW mem, NEW r, NEW on, SameQueues(r, mem)
  PROVE  /\ QueuesInv(mem, on) => QueuesInv(r, on)
         /\ SameWaiters(r, mem, on)
BY DEF SameWaiters, BlockedOn, SameQueues, QueuesInv, ReadySet, WaitSet

\* The loops of the kernel over its queues visit the threads whose fields say
\* they are there.
LEMMA ChainsAreSets ==
  ASSUME NEW mem, NEW on, QueuesInv(mem, on)
  PROVE  /\ Chain(mem, mem.head) = ReadySet(mem)
         /\ \A m \in Mutexes : Chain(mem, mem.mhead[m]) = WaitSet(mem, on, m)
         /\ \A c \in Conds : Chain(mem, mem.chead[c]) = SleepSet(on, c)
<1>1. Chain(mem, mem.head) = ReadySet(mem)
  <2>1. /\ IsQueue(mem.next, mem.head, mem.tail, ReadySet(mem))
        /\ ReadySet(mem) \in SUBSET Threads
    BY DEF QueuesInv, ReadySet
  <2> QED BY <2>1, ChainIsQueue
<1>2. ASSUME NEW m \in Mutexes PROVE Chain(mem, mem.mhead[m]) = WaitSet(mem, on, m)
  <2>1. /\ IsQueue(mem.next, mem.mhead[m], mem.mtail[m], WaitSet(mem, on, m))
        /\ WaitSet(mem, on, m) \in SUBSET Threads
    BY DEF QueuesInv, WaitSet
  <2> QED BY <2>1, ChainIsQueue
<1>3. ASSUME NEW c \in Conds PROVE Chain(mem, mem.chead[c]) = SleepSet(on, c)
  <2>1. /\ IsQueue(mem.next, mem.chead[c], mem.ctail[c], SleepSet(on, c))
        /\ SleepSet(on, c) \in SUBSET Threads
    BY DEF QueuesInv, SleepSet
  <2> QED BY <2>1, ChainIsQueue
<1> QED BY <1>1, <1>2, <1>3

\* When nobody sleeps, the blocked threads are those in the queues.
LEMMA NobodyAsleep ==
  ASSUME NEW mem, NEW m PROVE WaitSet(mem, NobodySleeps, m) = BlockedOn(mem, m)
BY DEF WaitSet, BlockedOn, NobodySleeps

\* At reset every queue is empty.
LEMMA ResetQueues ==
  /\ QueuesInv(Reset, NobodySleeps)
  /\ \A m \in Mutexes : BlockedOn(Reset, m) = {}
<1>1. /\ Threads \subseteq All /\ Main \notin Threads /\ Main \in All
      /\ NULL \notin Conds
  BY KernelAssumption DEF All
<1>2. /\ ReadySet(Reset) = {} /\ \A c \in Conds : SleepSet(NobodySleeps, c) = {}
      /\ \A m \in Mutexes : WaitSet(Reset, NobodySleeps, m) = {} /\ BlockedOn(Reset, m) = {}
  BY <1>1 DEF ReadySet, SleepSet, WaitSet, BlockedOn, Reset, NobodySleeps
<1>3. IsQueue(Reset.next, NULL, NULL, {})
  BY DEF IsQueue
<1>4. /\ Reset.head = NULL /\ Reset.tail = NULL
      /\ \A m \in Mutexes : Reset.mhead[m] = NULL /\ Reset.mtail[m] = NULL
      /\ \A c \in Conds : Reset.chead[c] = NULL /\ Reset.ctail[c] = NULL
  BY DEF Reset
<1>5. /\ \A t \in Threads : Reset.state[t] = "CREATED" /\ Reset.next[t] = NULL
      /\ Reset.state[Main] = "RUNNING"
  BY <1>1 DEF Reset
<1>6. NobodySleeps \in Placements /\ \A t \in Threads : NobodySleeps[t] = NULL
  BY DEF NobodySleeps, Placements
<1> QED BY <1>2, <1>3, <1>4, <1>5, <1>6 DEF QueuesInv

-----------------------------------------------------------------------------
(* thread.c *)

\* The current thread, if kthread_dispatch puts it back in the ready list.
PutBack(mem) == IF Requeues(mem) THEN {mem.current} ELSE {}

\* r is mem after a dispatch: R are the threads that were candidates.
Dispatched(r, mem, on, R) ==
  /\ r \in Memory
  /\ QueuesInv(r, on)
  /\ SameMutexes(r, mem)
  /\ R = {} => r.current = Main
  /\ R # {} => r.current \in R
  /\ \A t \in Threads :
       r.state[t] = IF t = r.current THEN "RUNNING"
                    ELSE IF t \in PutBack(mem) THEN "READY" ELSE mem.state[t]
  /\ SameWaiters(r, mem, on)
  /\ \A t \in Threads : mem.state[t] = "BLOCKED" => r.waiting_on[t] = mem.waiting_on[t]

\* kthread_dispatch appends the current thread to the ready list unless it is
\* blocked, stopped or idle, and takes the next thread from the list.
LEMMA DispatchEffect ==
  ASSUME NEW mem \in Memory, NEW on, QueuesInv(mem, on),
         mem.current # NULL => mem.state[mem.current] \in {"RUNNING", "BLOCKED"}
  PROVE  Dispatched(kthread_dispatch(mem), mem, on, ReadySet(mem) \union PutBack(mem))
<1> DEFINE r == kthread_dispatch(mem)
           R == ReadySet(mem) \union PutBack(mem)
<1>1. NULL \notin All /\ Main \in All /\ Threads \subseteq All /\ Main \notin Threads
  BY KernelAssumption DEF All
<1> DEFINE k1 == IF Requeues(mem) THEN kscheduler_enqueue(mem, mem.current) ELSE mem
<1>2. PutBack(mem) \subseteq Threads /\ \A t \in PutBack(mem) : t = mem.current /\ mem.state[t] = "RUNNING"
  BY <1>1 DEF PutBack, Requeues, Memory, All
<1>3. R \in SUBSET Threads
  BY <1>2 DEF ReadySet
<1>4. /\ k1 \in Memory
      /\ IsQueue(k1.next, k1.head, k1.tail, R)
      /\ \A u \in All : u \notin R => k1.next[u] = mem.next[u]
      /\ \A t \in All : k1.state[t] = IF t \in PutBack(mem) THEN "READY" ELSE mem.state[t]
      /\ \A t \in All : t \notin PutBack(mem) => k1.waiting_on[t] = mem.waiting_on[t]
      /\ k1.current = mem.current
      /\ SameMutexes(k1, mem)
  <2>1. CASE Requeues(mem)
    <3>1. mem.current \in Threads /\ PutBack(mem) = {mem.current}
      BY <1>2, <2>1 DEF PutBack
    <3>2. ReadySet(mem) \in SUBSET (Threads \ {mem.current})
      BY <1>2, <3>1 DEF ReadySet
    <3>3. IsQueue(mem.next, mem.head, mem.tail, ReadySet(mem))
      BY DEF QueuesInv
    <3>4. k1 = kscheduler_enqueue(mem, mem.current)
      BY <2>1
    <3> HIDE DEF k1
    <3>5. Enqueued(k1, mem, mem.current, ReadySet(mem))
      BY <3>1, <3>2, <3>3, <3>4, EnqueueEffect
    <3> QED BY <3>1, <3>5 DEF Enqueued, Memory
  <2>2. CASE ~Requeues(mem)
    BY <2>2 DEF QueuesInv, PutBack, SameMutexes
  <2> QED BY <2>1, <2>2
<1> DEFINE next_thread == IF k1.head = NULL THEN Main ELSE k1.head
           k2 == kscheduler_dequeue(k1)
<1>5. r = [k2 EXCEPT !.current = next_thread, !.state[next_thread] = "RUNNING"]
  BY DEF kthread_dispatch
<1> HIDE DEF k1
<1>6. /\ k2 \in Memory
      /\ IsQueue(k2.next, k2.head, k2.tail, R \ {next_thread})
      /\ \A u \in All : u \notin R => k2.next[u] = mem.next[u]
      /\ k2.state = k1.state
      /\ \A t \in All : t # next_thread => k2.waiting_on[t] = k1.waiting_on[t]
      /\ SameMutexes(k2, mem)
      /\ R = {} => next_thread = Main
      /\ R # {} => next_thread \in R /\ k2.next[next_thread] = NULL
  <2>1. CASE k1.head = NULL
    <3>1. R = {} /\ k2 = k1
      BY <1>4, <2>1 DEF IsQueue, kscheduler_dequeue
    <3> QED BY <1>1, <1>4, <2>1, <3>1
  <2>2. CASE k1.head # NULL
    <3>1. Dequeued(k2, k1, R)
      BY <1>3, <1>4, <2>2, DequeueEffect
    <3> QED BY <1>1, <1>3, <1>4, <2>2, <3>1 DEF Dequeued, SameMutexes, Memory
  <2> QED BY <2>1, <2>2
<1> HIDE DEF k2
<1>7. next_thread \in All
  BY <1>1, <1>3, <1>6
<1> HIDE DEF next_thread
<1>8. /\ r \in Memory
      /\ r.next = k2.next /\ r.head = k2.head /\ r.tail = k2.tail
      /\ r.waiting_on = k2.waiting_on
      /\ r.state = [k2.state EXCEPT ![next_thread] = "RUNNING"]
      /\ r.current = next_thread
      /\ SameMutexes(r, mem)
  <2>1. k2 \in Memory /\ k2.state \in [All -> States] /\ "RUNNING" \in States
    BY <1>6 DEF Memory, States
  <2>2. [k2.state EXCEPT ![next_thread] = "RUNNING"] \in [All -> States]
    BY <2>1, <1>7
  <2>3. r = [k2 EXCEPT !.current = next_thread,
                       !.state = [k2.state EXCEPT ![next_thread] = "RUNNING"]]
    BY <1>5, <2>1 DEF Memory
  <2> HIDE DEF r
  <2>4. /\ r.next = k2.next /\ r.head = k2.head /\ r.tail = k2.tail
        /\ r.waiting_on = k2.waiting_on
        /\ r.state = [k2.state EXCEPT ![next_thread] = "RUNNING"]
        /\ r.current = next_thread
        /\ SameMutexes(r, k2)
    BY <2>1, <2>3 DEF Memory, SameMutexes
  <2>5. r \in Memory
    BY <2>1, <2>2, <2>3, <1>7 DEF Memory
  <2> QED BY <2>4, <2>5, <1>6 DEF SameMutexes
<1>9. \A t \in All :
        r.state[t] = IF t = r.current THEN "RUNNING"
                     ELSE IF t \in PutBack(mem) THEN "READY" ELSE mem.state[t]
  BY <1>4, <1>6, <1>7, <1>8 DEF Memory
<1>10. ReadySet(r) = R \ {r.current}
  BY <1>1, <1>2, <1>9 DEF ReadySet
<1>11. \A t \in Threads : r.state[t] = "BLOCKED" =>
         mem.state[t] = "BLOCKED" /\ t # next_thread /\ t \notin R
  BY <1>1, <1>2, <1>8, <1>9 DEF ReadySet
<1>12. \A t \in Threads : mem.state[t] = "BLOCKED" =>
         r.state[t] = "BLOCKED" /\ t # next_thread /\ t \notin R
  <2> SUFFICES ASSUME NEW t \in Threads, mem.state[t] = "BLOCKED"
               PROVE  r.state[t] = "BLOCKED" /\ t # next_thread /\ t \notin R
    OBVIOUS
  <2>1. t \notin PutBack(mem) /\ t \notin R
    BY <1>2 DEF ReadySet
  <2>2. t # next_thread
    BY <2>1, <1>1, <1>6
  <2> QED BY <2>1, <2>2, <1>1, <1>8, <1>9
<1>13. \A t \in Threads : mem.state[t] = "BLOCKED" =>
         r.next[t] = mem.next[t] /\ r.waiting_on[t] = mem.waiting_on[t]
  BY <1>1, <1>2, <1>4, <1>6, <1>8, <1>12
<1>14. SameWaiters(r, mem, on)
  BY <1>11, <1>12, <1>13 DEF SameWaiters, WaitSet, BlockedOn
<1>15. QueuesInv(r, on)
  <2>1. IsQueue(r.next, r.head, r.tail, ReadySet(r))
    BY <1>6, <1>8, <1>10
  <2>2. ASSUME NEW m \in Mutexes
        PROVE  IsQueue(r.next, r.mhead[m], r.mtail[m], WaitSet(r, on, m))
    <3>1. IsQueue(mem.next, mem.mhead[m], mem.mtail[m], WaitSet(mem, on, m))
      BY DEF QueuesInv
    <3>2. r.next \in Links /\ mem.next \in Links /\ WaitSet(mem, on, m) \in SUBSET Threads
      BY <1>8 DEF Memory, Links, WaitSet
    <3>3. \A t \in WaitSet(mem, on, m) : r.next[t] = mem.next[t]
      BY <1>13 DEF WaitSet
    <3>4. IsQueue(r.next, mem.mhead[m], mem.mtail[m], WaitSet(mem, on, m))
      BY <3>1, <3>2, <3>3, QueueFrame
    <3> QED BY <3>4, <1>8, <1>14 DEF SameMutexes, SameWaiters
  <2>3. ASSUME NEW t \in Threads, r.state[t] \in {"CREATED", "RUNNING"}
        PROVE  r.next[t] = NULL
    <3>1. CASE t = next_thread
      BY <3>1, <1>1, <1>6, <1>8
    <3>2. CASE t # next_thread
      <4>1. mem.state[t] \in {"CREATED", "RUNNING"} /\ t \notin R
        BY <3>2, <2>3, <1>1, <1>8, <1>9, <1>10 DEF ReadySet
      <4> QED BY <4>1, <1>1, <1>6, <1>8 DEF QueuesInv
    <3> QED BY <3>1, <3>2
  <2>4. \A t \in Threads : r.state[t] = "BLOCKED" => r.waiting_on[t] # NULL
    BY <1>11, <1>13 DEF QueuesInv
  <2>5. r.state[Main] = "RUNNING"
    BY <1>1, <1>2, <1>9 DEF QueuesInv
  <2>6. ASSUME NEW c \in Conds
        PROVE  IsQueue(r.next, r.chead[c], r.ctail[c], SleepSet(on, c))
    <3>1. /\ IsQueue(mem.next, mem.chead[c], mem.ctail[c], SleepSet(on, c))
          /\ SleepSet(on, c) \in SUBSET Threads
      BY DEF QueuesInv, SleepSet
    <3>2. r.next \in Links /\ mem.next \in Links
      BY <1>8 DEF Memory, Links
    <3>3. \A t \in SleepSet(on, c) : r.next[t] = mem.next[t]
      BY <1>13, KernelAssumption DEF QueuesInv, SleepSet
    <3>4. IsQueue(r.next, mem.chead[c], mem.ctail[c], SleepSet(on, c))
      BY <3>1, <3>2, <3>3, QueueFrame
    <3> QED BY <3>4, <1>8 DEF SameMutexes
  <2>7. /\ on \in Placements
        /\ \A t \in Threads : on[t] # NULL => r.state[t] = "BLOCKED"
        /\ \A t, u \in Threads :
             on[t] # NULL /\ on[u] = on[t] => r.waiting_on[u] = r.waiting_on[t]
    BY <1>12, <1>13 DEF QueuesInv
  <2> QED BY <2>1, <2>2, <2>3, <2>4, <2>5, <2>6, <2>7 DEF QueuesInv
<1>16. (R = {} => r.current = Main) /\ (R # {} => r.current \in R)
  BY <1>6, <1>8
<1> QED BY <1>1, <1>8, <1>9, <1>13, <1>14, <1>15, <1>16 DEF Dispatched

\* r is mem after the thread u has been created and made ready.
Created(r, mem, on, u) ==
  /\ r \in Memory
  /\ QueuesInv(r, on)
  /\ SameWaiters(r, mem, on)
  /\ r.state = [mem.state EXCEPT ![u] = "READY"]
  /\ r.current = mem.current /\ r.heap = mem.heap \union {u}
  /\ r.owner = mem.owner /\ r.lock_count = mem.lock_count
  /\ r.chead = mem.chead /\ r.ctail = mem.ctail

\* kthread_create and kscheduler_enqueue append a thread that is in no queue.
LEMMA CreateEffect ==
  ASSUME NEW mem \in Memory, NEW on, QueuesInv(mem, on), NEW u \in Threads,
         mem.state[u] \in {"CREATED", "RUNNING"}
  PROVE  Created(kscheduler_enqueue(kthread_create(mem, u), u), mem, on, u)
<1> DEFINE mem1 == kthread_create(mem, u)
           r == kscheduler_enqueue(mem1, u)
           R == ReadySet(mem)
<1>1. /\ NULL \notin All /\ Threads \subseteq All /\ Main \notin Threads /\ u \in All
      /\ on \in Placements
  BY KernelAssumption DEF All, QueuesInv
<1>2. mem.next[u] = NULL
  BY DEF QueuesInv
<1>3. R \in SUBSET (Threads \ {u}) /\ on[u] = NULL
  BY DEF ReadySet, QueuesInv
<1>4. /\ mem1.state = [mem.state EXCEPT ![u] = "READY"]
      /\ mem1.next = [mem.next EXCEPT ![u] = NULL]
      /\ mem1.heap = mem.heap \union {u}
      /\ mem1.waiting_on = mem.waiting_on /\ mem1.current = mem.current
      /\ mem1.head = mem.head /\ mem1.tail = mem.tail
      /\ mem1.owner = mem.owner /\ mem1.lock_count = mem.lock_count
      /\ mem1.mhead = mem.mhead /\ mem1.mtail = mem.mtail
      /\ mem1.chead = mem.chead /\ mem1.ctail = mem.ctail
  BY DEF kthread_create, Memory
<1>5. mem1 \in Memory
  BY <1>1, <1>4 DEF kthread_create, Memory, States, Objects
<1>6. mem1.next = mem.next
  BY <1>1, <1>2, <1>4 DEF Memory
<1>7. IsQueue(mem1.next, mem1.head, mem1.tail, R)
  BY <1>4, <1>6 DEF QueuesInv
<1> HIDE DEF mem1
<1>8. Enqueued(r, mem1, u, R)
  BY <1>3, <1>5, <1>7, EnqueueEffect
<1> HIDE DEF r
<1>9. /\ r \in Memory
      /\ IsQueue(r.next, r.head, r.tail, R \union {u})
      /\ \A t \in All : t \notin R \union {u} => r.next[t] = mem.next[t]
      /\ r.state = [mem.state EXCEPT ![u] = "READY"]
      /\ r.waiting_on = [mem.waiting_on EXCEPT ![u] = NULL]
      /\ r.current = mem.current /\ r.heap = mem.heap \union {u}
      /\ r.owner = mem.owner /\ r.lock_count = mem.lock_count
      /\ r.mhead = mem.mhead /\ r.mtail = mem.mtail
      /\ r.chead = mem.chead /\ r.ctail = mem.ctail
  BY <1>4, <1>6, <1>8 DEF Enqueued, SameMutexes, Memory
<1>10. \A t \in Threads : t # u =>
         r.state[t] = mem.state[t] /\ r.waiting_on[t] = mem.waiting_on[t]
  BY <1>1, <1>9 DEF Memory
<1>11. r.state[u] = "READY"
  BY <1>1, <1>9 DEF Memory
<1>12. ReadySet(r) = R \union {u}
  BY <1>10, <1>11 DEF ReadySet
<1>13. SameWaiters(r, mem, on)
  BY <1>10, <1>11 DEF SameWaiters, WaitSet, BlockedOn
<1>14. QueuesInv(r, on)
  <2> r.next \in Links /\ mem.next \in Links
    BY <1>9 DEF Memory, Links
  <2>1. ASSUME NEW m \in Mutexes
        PROVE  IsQueue(r.next, r.mhead[m], r.mtail[m], WaitSet(r, on, m))
    <3>1. /\ IsQueue(mem.next, mem.mhead[m], mem.mtail[m], WaitSet(mem, on, m))
          /\ WaitSet(mem, on, m) \in SUBSET Threads
      BY DEF QueuesInv, WaitSet
    <3>2. \A t \in WaitSet(mem, on, m) : r.next[t] = mem.next[t]
      BY <1>1, <1>9 DEF WaitSet, ReadySet
    <3>3. IsQueue(r.next, mem.mhead[m], mem.mtail[m], WaitSet(mem, on, m))
      BY <3>1, <3>2, QueueFrame
    <3> QED BY <3>3, <1>9, <1>13 DEF SameWaiters
  <2>2. ASSUME NEW c \in Conds
        PROVE  IsQueue(r.next, r.chead[c], r.ctail[c], SleepSet(on, c))
    <3>1. /\ IsQueue(mem.next, mem.chead[c], mem.ctail[c], SleepSet(on, c))
          /\ SleepSet(on, c) \in SUBSET Threads
      BY DEF QueuesInv, SleepSet
    <3>2. \A t \in SleepSet(on, c) : r.next[t] = mem.next[t]
      BY <1>1, <1>3, <1>9, KernelAssumption DEF QueuesInv, SleepSet, ReadySet
    <3>3. IsQueue(r.next, mem.chead[c], mem.ctail[c], SleepSet(on, c))
      BY <3>1, <3>2, QueueFrame
    <3> QED BY <3>3, <1>9
  <2>3. \A t \in Threads : r.state[t] \in {"CREATED", "RUNNING"} => r.next[t] = NULL
    BY <1>1, <1>9, <1>10, <1>11 DEF QueuesInv, ReadySet
  <2>4. /\ \A t \in Threads : r.state[t] = "BLOCKED" => r.waiting_on[t] # NULL
        /\ \A t \in Threads : on[t] # NULL => r.state[t] = "BLOCKED"
        /\ \A t, v \in Threads :
             on[t] # NULL /\ on[v] = on[t] => r.waiting_on[v] = r.waiting_on[t]
    BY <1>3, <1>10, <1>11 DEF QueuesInv
  <2>5. r.state[Main] = "RUNNING"
    BY <1>1, <1>9 DEF QueuesInv, Memory, All
  <2> QED BY <1>1, <1>9, <1>12, <2>1, <2>2, <2>3, <2>4, <2>5 DEF QueuesInv
<1> QED BY <1>9, <1>13, <1>14 DEF Created, r, mem1

-----------------------------------------------------------------------------
(* mutex.c *)

\* r is mem after thread t has been appended to the queue of m.
Blocked(r, mem, on, t, m) ==
  /\ r \in Memory
  /\ QueuesInv(r, on)
  /\ r.state = [mem.state EXCEPT ![t] = "BLOCKED"]
  /\ WaitSet(r, on, m) = WaitSet(mem, on, m) \union {t}
  /\ \A n \in Mutexes \ {m} : WaitSet(r, on, n) = WaitSet(mem, on, n)
  /\ BlockedOn(r, m) = BlockedOn(mem, m) \union {t}
  /\ \A n \in Mutexes \ {m} : BlockedOn(r, n) = BlockedOn(mem, n)
  /\ r.owner = mem.owner /\ r.lock_count = mem.lock_count
  /\ r.current = mem.current /\ r.heap = mem.heap

\* A running thread has no link, so Block appends exactly that thread.
LEMMA BlockEffect ==
  ASSUME NEW mem \in Memory, NEW on, QueuesInv(mem, on), NEW t \in Threads, NEW m \in Mutexes,
         mem.state[t] = "RUNNING"
  PROVE  Blocked(Block(mem, m, t), mem, on, t, m)
<1> DEFINE r == Block(mem, m, t)
           Q == WaitSet(mem, on, m)
           n2 == IF mem.mhead[m] = NULL THEN mem.next
                 ELSE [mem.next EXCEPT ![mem.mtail[m]] = t]
<1>1. NULL \notin All /\ Threads \subseteq All /\ Main \notin Threads
  BY KernelAssumption DEF All
<1>2. /\ Q \in SUBSET Threads /\ t \notin Q /\ t \notin ReadySet(mem) /\ on[t] = NULL
      /\ ReadySet(mem) \in SUBSET Threads /\ on \in Placements /\ NULL \notin Conds
  BY KernelAssumption DEF WaitSet, ReadySet, QueuesInv
<1>3. IsQueue(mem.next, mem.mhead[m], mem.mtail[m], Q)
  BY DEF QueuesInv
<1>4. mem.mhead[m] # NULL => mem.mtail[m] \in Q
  BY <1>3 DEF IsQueue
<1>5. /\ mem.next \in Links /\ n2 \in Links /\ n2[t] = NULL
      /\ mem.mhead[m] # NULL => n2[mem.mtail[m]] = t
      /\ \A u \in All : u \notin Q => n2[u] = mem.next[u]
      /\ \A u \in Q : u # mem.mtail[m] => n2[u] = mem.next[u]
  BY <1>1, <1>2, <1>4 DEF Memory, Links, QueuesInv
<1>6. /\ r.next = n2
      /\ r.state = [mem.state EXCEPT ![t] = "BLOCKED"]
      /\ r.waiting_on = [mem.waiting_on EXCEPT ![t] = m]
      /\ r.head = mem.head /\ r.tail = mem.tail
      /\ r.mhead = [mem.mhead EXCEPT ![m] = IF mem.mhead[m] = NULL THEN t ELSE mem.mhead[m]]
      /\ r.mtail = [mem.mtail EXCEPT ![m] = t]
      /\ r.chead = mem.chead /\ r.ctail = mem.ctail
      /\ r.owner = mem.owner /\ r.lock_count = mem.lock_count
      /\ r.current = mem.current /\ r.heap = mem.heap
  BY DEF Block, Memory
<1>7. r \in Memory
  <2>1. /\ n2 \in [All -> All \union {NULL}] /\ t \in All
        /\ [mem.state EXCEPT ![t] = "BLOCKED"] \in [All -> States]
        /\ [mem.waiting_on EXCEPT ![t] = m] \in [All -> Mutexes \union {NULL}]
    BY <1>1, <1>5 DEF Memory, Links, States
  <2>2. /\ [mem.mhead EXCEPT ![m] = IF mem.mhead[m] = NULL THEN t ELSE mem.mhead[m]]
             \in [Mutexes -> All \union {NULL}]
        /\ [mem.mtail EXCEPT ![m] = t] \in [Mutexes -> All \union {NULL}]
    BY <2>1 DEF Memory
  <2> HIDE DEF n2
  <2>3. r = [mem EXCEPT !.next = r.next, !.state = r.state, !.waiting_on = r.waiting_on,
                        !.mhead = r.mhead, !.mtail = r.mtail]
    BY ZenonT(60) DEF Block, Memory
  <2> HIDE DEF r
  <2> QED BY <1>6, <2>1, <2>2, <2>3 DEF Memory
<1> HIDE DEF r, n2
<1>8. \A u \in Threads : u # t =>
        r.state[u] = mem.state[u] /\ r.waiting_on[u] = mem.waiting_on[u]
  BY <1>1, <1>6 DEF Memory
<1>9. r.state[t] = "BLOCKED" /\ r.waiting_on[t] = m
  BY <1>1, <1>6 DEF Memory
<1>10. ReadySet(r) = ReadySet(mem)
  BY <1>2, <1>8, <1>9 DEF ReadySet
<1>11. WaitSet(r, on, m) = Q \union {t} /\ BlockedOn(r, m) = BlockedOn(mem, m) \union {t}
  BY <1>2, <1>8, <1>9 DEF WaitSet, BlockedOn
<1>12. \A n \in Mutexes \ {m} :
         WaitSet(r, on, n) = WaitSet(mem, on, n) /\ BlockedOn(r, n) = BlockedOn(mem, n)
  BY <1>8, <1>9 DEF WaitSet, BlockedOn
<1>13. QueuesInv(r, on)
  <2>1. IsQueue(r.next, r.head, r.tail, ReadySet(r))
    <3>1. \A u \in ReadySet(mem) : n2[u] = mem.next[u]
      BY <1>1, <1>5 DEF ReadySet, WaitSet
    <3>2. IsQueue(n2, mem.head, mem.tail, ReadySet(mem))
      BY <3>1, <1>2, <1>5, QueueFrame DEF QueuesInv
    <3> QED BY <3>2, <1>6, <1>10
  <2>2. ASSUME NEW n \in Mutexes
        PROVE  IsQueue(r.next, r.mhead[n], r.mtail[n], WaitSet(r, on, n))
    <3>1. CASE n = m
      <4>1. IsQueue(n2, IF mem.mhead[m] = NULL THEN t ELSE mem.mhead[m], t, Q \union {t})
        BY <1>2, <1>3, <1>5, QueueAppend
      <4> QED BY <3>1, <4>1, <1>6, <1>11 DEF Memory
    <3>2. CASE n # m
      <4>1. /\ IsQueue(mem.next, mem.mhead[n], mem.mtail[n], WaitSet(mem, on, n))
            /\ WaitSet(mem, on, n) \in SUBSET Threads
        BY DEF QueuesInv, WaitSet
      <4>2. \A u \in WaitSet(mem, on, n) : n2[u] = mem.next[u]
        BY <1>1, <1>5, <3>2 DEF WaitSet
      <4>3. IsQueue(n2, mem.mhead[n], mem.mtail[n], WaitSet(mem, on, n))
        BY <4>1, <4>2, <1>5, QueueFrame
      <4> QED BY <3>2, <4>3, <1>6, <1>12 DEF Memory
    <3> QED BY <3>1, <3>2
  <2>3. \A u \in Threads : r.state[u] \in {"CREATED", "RUNNING"} => r.next[u] = NULL
    BY <1>1, <1>5, <1>6, <1>8, <1>9 DEF QueuesInv, WaitSet
  <2>4. \A u \in Threads : r.state[u] = "BLOCKED" => r.waiting_on[u] # NULL
    BY <1>8, <1>9, KernelAssumption DEF QueuesInv
  <2>5. r.state[Main] = "RUNNING"
    BY <1>1, <1>6 DEF QueuesInv, Memory, All
  <2>6. ASSUME NEW c \in Conds
        PROVE  IsQueue(r.next, r.chead[c], r.ctail[c], SleepSet(on, c))
    <3>1. /\ IsQueue(mem.next, mem.chead[c], mem.ctail[c], SleepSet(on, c))
          /\ SleepSet(on, c) \in SUBSET Threads
      BY DEF QueuesInv, SleepSet
    <3>2. \A u \in SleepSet(on, c) : n2[u] = mem.next[u]
      BY <1>1, <1>2, <1>5 DEF WaitSet, SleepSet
    <3>3. IsQueue(n2, mem.chead[c], mem.ctail[c], SleepSet(on, c))
      BY <1>5, <3>1, <3>2, QueueFrame
    <3> QED BY <3>3, <1>6
  <2>7. /\ \A u \in Threads : on[u] # NULL => r.state[u] = "BLOCKED"
        /\ \A u, v \in Threads :
             on[u] # NULL /\ on[v] = on[u] => r.waiting_on[v] = r.waiting_on[u]
    BY <1>2, <1>8, <1>9 DEF QueuesInv
  <2> QED BY <1>2, <2>1, <2>2, <2>3, <2>4, <2>5, <2>6, <2>7 DEF QueuesInv
<1> QED BY <1>6, <1>7, <1>11, <1>12, <1>13 DEF Blocked, r

\* r is mem after m has been handed to its first waiter t.
HandedOff(r, mem, on, m, t) ==
  /\ r \in Memory
  /\ QueuesInv(r, on)
  /\ t \in WaitSet(mem, on, m)
  /\ r.state = [mem.state EXCEPT ![t] = "READY"]
  /\ WaitSet(r, on, m) = WaitSet(mem, on, m) \ {t}
  /\ \A n \in Mutexes \ {m} : WaitSet(r, on, n) = WaitSet(mem, on, n)
  /\ BlockedOn(r, m) = BlockedOn(mem, m) \ {t}
  /\ \A n \in Mutexes \ {m} : BlockedOn(r, n) = BlockedOn(mem, n)
  /\ r.owner = [mem.owner EXCEPT ![m] = t]
  /\ r.lock_count = [mem.lock_count EXCEPT ![m] = 1]
  /\ r.current = mem.current /\ r.heap = mem.heap

\* HandOff moves the first waiter from the queue of the mutex to the ready list.
LEMMA HandOffEffect ==
  ASSUME NEW mem \in Memory, NEW on, QueuesInv(mem, on), NEW m \in Mutexes, mem.mhead[m] # NULL
  PROVE  HandedOff(HandOff(mem, m), mem, on, m, mem.mhead[m])
<1> DEFINE t == mem.mhead[m]
           Q == WaitSet(mem, on, m)
           R == ReadySet(mem)
           mem1 == [mem EXCEPT
                      !.lock_count[m] = 1,
                      !.mhead[m] = mem.next[t],
                      !.mtail[m] = IF mem.next[t] = NULL THEN NULL ELSE mem.mtail[m],
                      !.owner[m] = t]
           r == HandOff(mem, m)
<1>1. /\ NULL \notin All /\ Threads \subseteq All /\ Main \notin Threads
      /\ on \in Placements /\ NULL \notin Conds
  BY KernelAssumption DEF All, QueuesInv
<1>2. IsQueue(mem.next, t, mem.mtail[m], Q) /\ Q \in SUBSET Threads
  BY DEF QueuesInv, WaitSet
<1>3. t \in Q /\ t \in Threads /\ t \notin R /\ mem.mtail[m] \in Threads
      /\ R \in SUBSET (Threads \ {t}) /\ mem.next[t] \in All \union {NULL}
      /\ on[t] = NULL
  BY <1>1, <1>2 DEF IsQueue, WaitSet, ReadySet, Memory
<1>4. /\ mem1.next = mem.next /\ mem1.head = mem.head /\ mem1.tail = mem.tail
      /\ mem1.state = mem.state /\ mem1.waiting_on = mem.waiting_on
      /\ mem1.current = mem.current /\ mem1.heap = mem.heap
      /\ mem1.chead = mem.chead /\ mem1.ctail = mem.ctail
      /\ mem1.owner = [mem.owner EXCEPT ![m] = t]
      /\ mem1.lock_count = [mem.lock_count EXCEPT ![m] = 1]
      /\ mem1.mhead = [mem.mhead EXCEPT ![m] = mem.next[t]]
      /\ mem1.mtail = [mem.mtail EXCEPT ![m] = IF mem.next[t] = NULL THEN NULL ELSE mem.mtail[m]]
  BY DEF Memory
<1>5. mem1 \in Memory
  <2>1. 1 \in 0 .. CountMod - 1
    BY KernelAssumption
  <2> QED BY <1>1, <1>3, <2>1, ZenonT(60) DEF Memory
<1>6. r = kscheduler_enqueue(mem1, t)
  BY DEF HandOff
<1>7. IsQueue(mem1.next, mem1.head, mem1.tail, R)
  BY <1>4 DEF QueuesInv
<1> HIDE DEF mem1, r, t
<1>8. Enqueued(r, mem1, t, R)
  BY <1>3, <1>5, <1>6, <1>7, EnqueueEffect
<1>9. /\ r \in Memory
      /\ IsQueue(r.next, r.head, r.tail, R \union {t})
      /\ \A u \in All : u \notin R \union {t} => r.next[u] = mem.next[u]
      /\ r.state = [mem.state EXCEPT ![t] = "READY"]
      /\ r.waiting_on = [mem.waiting_on EXCEPT ![t] = NULL]
      /\ r.current = mem.current /\ r.heap = mem.heap
      /\ r.chead = mem.chead /\ r.ctail = mem.ctail
      /\ r.owner = [mem.owner EXCEPT ![m] = t]
      /\ r.lock_count = [mem.lock_count EXCEPT ![m] = 1]
      /\ r.mhead = [mem.mhead EXCEPT ![m] = mem.next[t]]
      /\ r.mtail = [mem.mtail EXCEPT ![m] = IF mem.next[t] = NULL THEN NULL ELSE mem.mtail[m]]
  BY <1>4, <1>8 DEF Enqueued, SameMutexes
<1>10. \A u \in Threads : u # t =>
         r.state[u] = mem.state[u] /\ r.waiting_on[u] = mem.waiting_on[u]
  BY <1>1, <1>9 DEF Memory
<1>11. r.state[t] = "READY"
  BY <1>1, <1>3, <1>9 DEF Memory
<1>12. ReadySet(r) = R \union {t}
  BY <1>3, <1>10, <1>11 DEF ReadySet
<1>13. WaitSet(r, on, m) = Q \ {t} /\ BlockedOn(r, m) = BlockedOn(mem, m) \ {t}
  BY <1>10, <1>11 DEF WaitSet, BlockedOn
<1>14. \A n \in Mutexes \ {m} :
         WaitSet(r, on, n) = WaitSet(mem, on, n) /\ BlockedOn(r, n) = BlockedOn(mem, n)
  BY <1>3, <1>10, <1>11 DEF WaitSet, BlockedOn
<1>15. QueuesInv(r, on)
  <2>1. ASSUME NEW n \in Mutexes
        PROVE  IsQueue(r.next, r.mhead[n], r.mtail[n], WaitSet(r, on, n))
    <3>0. r.next \in Links /\ mem.next \in Links
      BY <1>9 DEF Memory, Links
    <3>1. CASE n = m
      <4>1. \A u \in Q : u # t => r.next[u] = mem.next[u]
        BY <1>1, <1>9 DEF WaitSet, ReadySet
      <4>2. t # NULL
        BY <1>1, <1>3
      <4>3. IsQueue(r.next, mem.next[t], IF mem.next[t] = NULL THEN NULL ELSE mem.mtail[m], Q \ {t})
        BY <1>2, <3>0, <4>1, <4>2, QueueRemove
      <4> QED BY <3>1, <4>3, <1>9, <1>13 DEF Memory
    <3>2. CASE n # m
      <4>1. /\ IsQueue(mem.next, mem.mhead[n], mem.mtail[n], WaitSet(mem, on, n))
            /\ WaitSet(mem, on, n) \in SUBSET Threads
        BY DEF QueuesInv, WaitSet
      <4>2. \A u \in WaitSet(mem, on, n) : r.next[u] = mem.next[u]
        BY <1>1, <1>3, <1>9, <3>2 DEF WaitSet, ReadySet
      <4>3. IsQueue(r.next, mem.mhead[n], mem.mtail[n], WaitSet(mem, on, n))
        BY <3>0, <4>1, <4>2, QueueFrame
      <4> QED BY <3>2, <4>3, <1>9, <1>14 DEF Memory
    <3> QED BY <3>1, <3>2
  <2>2. \A u \in Threads : r.state[u] \in {"CREATED", "RUNNING"} => r.next[u] = NULL
    BY <1>1, <1>9, <1>10, <1>11 DEF QueuesInv, ReadySet
  <2>3. \A u \in Threads : r.state[u] = "BLOCKED" => r.waiting_on[u] # NULL
    BY <1>10, <1>11 DEF QueuesInv
  <2>4. r.state[Main] = "RUNNING"
    BY <1>1, <1>3, <1>9 DEF QueuesInv, Memory, All
  <2>5. ASSUME NEW c \in Conds
        PROVE  IsQueue(r.next, r.chead[c], r.ctail[c], SleepSet(on, c))
    <3>1. /\ IsQueue(mem.next, mem.chead[c], mem.ctail[c], SleepSet(on, c))
          /\ SleepSet(on, c) \in SUBSET Threads
      BY DEF QueuesInv, SleepSet
    <3>2. r.next \in Links /\ mem.next \in Links
      BY <1>9 DEF Memory, Links
    <3>3. \A u \in SleepSet(on, c) : u \notin R \union {t}
      BY <1>1, <1>3 DEF QueuesInv, SleepSet, ReadySet
    <3>4. \A u \in SleepSet(on, c) : r.next[u] = mem.next[u]
      BY <1>1, <1>9, <3>3 DEF SleepSet
    <3>5. IsQueue(r.next, mem.chead[c], mem.ctail[c], SleepSet(on, c))
      BY <3>1, <3>2, <3>4, QueueFrame
    <3> QED BY <3>5, <1>9
  <2>6. /\ \A u \in Threads : on[u] # NULL => r.state[u] = "BLOCKED"
        /\ \A u, v \in Threads :
             on[u] # NULL /\ on[v] = on[u] => r.waiting_on[v] = r.waiting_on[u]
    BY <1>3, <1>10 DEF QueuesInv
  <2> QED BY <1>1, <1>9, <1>12, <2>1, <2>2, <2>3, <2>4, <2>5, <2>6 DEF QueuesInv
<1> QED BY <1>3, <1>9, <1>13, <1>14, <1>15 DEF HandedOff, t, r

-----------------------------------------------------------------------------
(* condition.c *)

\* A list appended to another one: the tail of the first is linked to the head
\* of the second.
LEMMA QueueConcat ==
  ASSUME NEW n1 \in Links, NEW n2 \in Links,
         NEW P \in SUBSET Threads, NEW Q \in SUBSET Threads, P \intersect Q = {},
         NEW g, NEW gl, IsQueue(n1, g, gl, P),
         NEW h, NEW tl, IsQueue(n1, h, tl, Q), Q # {},
         g # NULL => n2[gl] = h,
         \A t \in P \union Q : t # gl => n2[t] = n1[t]
  PROVE  IsQueue(n2, IF g = NULL THEN h ELSE g, tl, P \union Q)
<1> DEFINE h2 == IF g = NULL THEN h ELSE g
           PQ == P \union Q
<1>1. NULL \notin Threads
  BY KernelAssumption
<1>2. /\ h # NULL /\ h \in Q /\ tl \in Q /\ n1[tl] = NULL /\ tl # NULL
      /\ P # {} => g \in P /\ gl \in P /\ g # NULL /\ h2 = g /\ n2[gl] = h /\ n1[gl] = NULL
      /\ P = {} => g = NULL /\ gl = NULL /\ h2 = h
  BY <1>1 DEF IsQueue
<1>3. \A t \in Q : n2[t] = n1[t] /\ n1[t] \in (Q \ {h}) \union {NULL}
  BY <1>1, <1>2 DEF IsQueue
<1>4. \A t \in P : t # gl => n2[t] = n1[t] /\ n1[t] \in (P \ {g}) \union {NULL}
  BY DEF IsQueue
<1>5. h2 \in PQ /\ h2 # NULL
  BY <1>2
<1>6. ASSUME NEW t \in PQ PROVE n2[t] \in (PQ \ {h2}) \union {NULL}
  BY <1>1, <1>2, <1>3, <1>4
<1>7. ASSUME NEW t \in PQ, NEW u \in PQ, n2[t] = n2[u], n2[t] # NULL PROVE t = u
  <2>1. \A v \in P : v # gl => n2[v] \in P \union {NULL}
    BY <1>4
  <2>2. CASE t \in Q /\ u \in Q
    BY <1>3, <1>7, <2>2 DEF IsQueue
  <2>3. CASE t \in P \ {gl} /\ u \in P \ {gl}
    BY <1>4, <1>7, <2>3 DEF IsQueue
  <2>4. CASE t = gl \/ u = gl
    BY <1>1, <1>2, <1>3, <1>7, <2>1, <2>4
  <2>5. CASE (t \in P \ {gl} /\ u \in Q) \/ (t \in Q /\ u \in P \ {gl})
    BY <1>1, <1>3, <1>7, <2>1, <2>5
  <2> QED BY <2>2, <2>3, <2>4, <2>5
<1>8. ASSUME NEW S \in SUBSET PQ, h2 \in S, \A t \in S : n2[t] \in S \union {NULL}
      PROVE  S = PQ
  <2>1. P \subseteq S /\ h \in S
    <3>1. CASE P = {}
      BY <1>2, <1>8, <3>1
    <3>2. CASE P # {}
      <4>1. S \intersect P \in SUBSET P /\ g \in S \intersect P
        BY <1>2, <1>8, <3>2
      <4>2. ASSUME NEW t \in S \intersect P PROVE n1[t] \in (S \intersect P) \union {NULL}
        BY <1>2, <1>4, <1>8, <3>2
      <4>3. S \intersect P = P
        BY <4>1, <4>2 DEF IsQueue
      <4>4. gl \in S /\ n2[gl] = h
        BY <1>2, <3>2, <4>3
      <4> QED BY <1>2, <1>8, <4>3, <4>4
    <3> QED BY <3>1, <3>2
  <2>2. S \intersect Q \in SUBSET Q /\ h \in S \intersect Q
    BY <1>2, <2>1
  <2>3. ASSUME NEW t \in S \intersect Q PROVE n1[t] \in (S \intersect Q) \union {NULL}
    BY <1>3, <1>8
  <2>4. S \intersect Q = Q
    BY <2>2, <2>3 DEF IsQueue
  <2> QED BY <2>1, <2>4
<1> HIDE DEF h2
<1> QED BY <1>1, <1>2, <1>5, <1>6, <1>7, <1>8 DEF IsQueue, h2

\* The first half of kcond_wait: t falls asleep on c; the second is the unlock.
FallAsleep(k, c, m, t) ==
  [k EXCEPT !.state[t] = "BLOCKED",
            !.waiting_on[t] = m,
            !.next = IF k.chead[c] = NULL THEN k.next
                     ELSE [k.next EXCEPT ![k.ctail[c]] = t],
            !.chead[c] = IF k.chead[c] = NULL THEN t ELSE k.chead[c],
            !.ctail[c] = t]

\* r is mem after t, which waits with m, has been appended to the queue of c.
Joined(r, mem, on, c, m, t) ==
  /\ r \in Memory
  /\ QueuesInv(r, [on EXCEPT ![t] = c])
  /\ r.state = [mem.state EXCEPT ![t] = "BLOCKED"]
  /\ \A n \in Mutexes : WaitSet(r, [on EXCEPT ![t] = c], n) = WaitSet(mem, on, n)
  /\ BlockedOn(r, m) = BlockedOn(mem, m) \union {t}
  /\ \A n \in Mutexes \ {m} : BlockedOn(r, n) = BlockedOn(mem, n)
  /\ r.owner = mem.owner /\ r.lock_count = mem.lock_count /\ r.mhead = mem.mhead
  /\ r.current = mem.current /\ r.heap = mem.heap

\* A running thread is appended to the queue of a condition on which all the
\* others sleep with the same mutex.
LEMMA JoinEffect ==
  ASSUME NEW mem \in Memory, NEW on, QueuesInv(mem, on),
         NEW t \in Threads, NEW m \in Mutexes, NEW c \in Conds,
         mem.state[t] = "RUNNING",
         \A u \in SleepSet(on, c) : mem.waiting_on[u] = m
  PROVE  Joined(FallAsleep(mem, c, m, t), mem, on, c, m, t)
<1> DEFINE r == FallAsleep(mem, c, m, t)
           on2 == [on EXCEPT ![t] = c]
           Q == SleepSet(on, c)
           n2 == IF mem.chead[c] = NULL THEN mem.next
                 ELSE [mem.next EXCEPT ![mem.ctail[c]] = t]
<1>1. /\ NULL \notin All /\ Threads \subseteq All /\ Main \notin Threads
      /\ NULL \notin Conds /\ NULL \notin Mutexes /\ on \in Placements
  BY KernelAssumption DEF All, QueuesInv
<1>2. on[t] = NULL /\ Q \in SUBSET Threads /\ t \notin Q /\ \A u \in Q : mem.state[u] = "BLOCKED"
  BY <1>1 DEF QueuesInv, SleepSet
<1>3. IsQueue(mem.next, mem.chead[c], mem.ctail[c], Q)
  BY DEF QueuesInv
<1>4. mem.chead[c] # NULL => mem.ctail[c] \in Q
  BY <1>3 DEF IsQueue
<1>5. /\ mem.next \in Links /\ n2 \in Links /\ n2[t] = NULL
      /\ mem.chead[c] # NULL => n2[mem.ctail[c]] = t
      /\ \A u \in All : u \notin Q => n2[u] = mem.next[u]
      /\ \A u \in Q : u # mem.ctail[c] => n2[u] = mem.next[u]
  BY <1>1, <1>2, <1>4 DEF Memory, Links, QueuesInv
<1>6. /\ r.next = n2
      /\ r.state = [mem.state EXCEPT ![t] = "BLOCKED"]
      /\ r.waiting_on = [mem.waiting_on EXCEPT ![t] = m]
      /\ r.head = mem.head /\ r.tail = mem.tail
      /\ r.chead = [mem.chead EXCEPT ![c] = IF mem.chead[c] = NULL THEN t ELSE mem.chead[c]]
      /\ r.ctail = [mem.ctail EXCEPT ![c] = t]
      /\ r.mhead = mem.mhead /\ r.mtail = mem.mtail
      /\ r.owner = mem.owner /\ r.lock_count = mem.lock_count
      /\ r.current = mem.current /\ r.heap = mem.heap
  BY DEF FallAsleep, Memory
<1>7. r \in Memory
  BY <1>1, <1>5, <1>6, ZenonT(60) DEF FallAsleep, Memory, Links, States
<1>8. on2 \in Placements /\ on2[t] = c /\ \A u \in Threads : u # t => on2[u] = on[u]
  BY <1>1 DEF Placements
<1> HIDE DEF r, n2, on2
<1>9. \A u \in Threads : u # t =>
        r.state[u] = mem.state[u] /\ r.waiting_on[u] = mem.waiting_on[u]
  BY <1>1, <1>6 DEF Memory
<1>10. r.state[t] = "BLOCKED" /\ r.waiting_on[t] = m
  BY <1>1, <1>6 DEF Memory
<1>11. ReadySet(r) = ReadySet(mem)
  BY <1>9, <1>10 DEF ReadySet
<1>12. \A n \in Mutexes : WaitSet(r, on2, n) = WaitSet(mem, on, n)
  BY <1>1, <1>8, <1>9 DEF WaitSet
<1>13. /\ BlockedOn(r, m) = BlockedOn(mem, m) \union {t}
       /\ \A n \in Mutexes \ {m} : BlockedOn(r, n) = BlockedOn(mem, n)
  BY <1>9, <1>10 DEF BlockedOn
<1>14. /\ SleepSet(on2, c) = Q \union {t}
       /\ \A d \in Conds \ {c} : SleepSet(on2, d) = SleepSet(on, d)
  BY <1>1, <1>2, <1>8 DEF SleepSet
<1>15. QueuesInv(r, on2)
  <2>1. IsQueue(r.next, r.head, r.tail, ReadySet(r))
    <3>1. ReadySet(mem) \in SUBSET Threads /\ \A u \in ReadySet(mem) : n2[u] = mem.next[u]
      BY <1>1, <1>2, <1>5 DEF ReadySet
    <3>2. IsQueue(n2, mem.head, mem.tail, ReadySet(mem))
      BY <3>1, <1>5, QueueFrame DEF QueuesInv
    <3> QED BY <3>2, <1>6, <1>11
  <2>2. ASSUME NEW n \in Mutexes
        PROVE  IsQueue(r.next, r.mhead[n], r.mtail[n], WaitSet(r, on2, n))
    <3>1. /\ IsQueue(mem.next, mem.mhead[n], mem.mtail[n], WaitSet(mem, on, n))
          /\ WaitSet(mem, on, n) \in SUBSET Threads
      BY DEF QueuesInv, WaitSet
    <3>2. \A u \in WaitSet(mem, on, n) : n2[u] = mem.next[u]
      BY <1>1, <1>5 DEF WaitSet, SleepSet
    <3>3. IsQueue(n2, mem.mhead[n], mem.mtail[n], WaitSet(mem, on, n))
      BY <3>1, <3>2, <1>5, QueueFrame
    <3> QED BY <3>3, <1>6, <1>12
  <2>3. ASSUME NEW d \in Conds
        PROVE  IsQueue(r.next, r.chead[d], r.ctail[d], SleepSet(on2, d))
    <3>1. CASE d = c
      <4>1. IsQueue(n2, IF mem.chead[c] = NULL THEN t ELSE mem.chead[c], t, Q \union {t})
        BY <1>2, <1>3, <1>5, QueueAppend
      <4> QED BY <3>1, <4>1, <1>6, <1>14 DEF Memory
    <3>2. CASE d # c
      <4>1. /\ IsQueue(mem.next, mem.chead[d], mem.ctail[d], SleepSet(on, d))
            /\ SleepSet(on, d) \in SUBSET Threads
        BY DEF QueuesInv, SleepSet
      <4>2. \A u \in SleepSet(on, d) : n2[u] = mem.next[u]
        BY <1>1, <1>5, <3>2 DEF SleepSet
      <4>3. IsQueue(n2, mem.chead[d], mem.ctail[d], SleepSet(on, d))
        BY <4>1, <4>2, <1>5, QueueFrame
      <4> QED BY <3>2, <4>3, <1>6, <1>14 DEF Memory
    <3> QED BY <3>1, <3>2
  <2>4. \A u \in Threads : r.state[u] \in {"CREATED", "RUNNING"} => r.next[u] = NULL
    BY <1>1, <1>2, <1>5, <1>6, <1>9, <1>10 DEF QueuesInv
  <2>5. /\ \A u \in Threads : r.state[u] = "BLOCKED" => r.waiting_on[u] # NULL
        /\ \A u \in Threads : on2[u] # NULL => r.state[u] = "BLOCKED"
    BY <1>1, <1>8, <1>9, <1>10 DEF QueuesInv
  <2>6. ASSUME NEW u \in Threads, NEW v \in Threads, on2[u] # NULL, on2[v] = on2[u]
        PROVE  r.waiting_on[v] = r.waiting_on[u]
    <3>1. CASE on2[u] = c
      <4>1. \A w \in Threads : on2[w] = c => r.waiting_on[w] = m
        BY <1>8, <1>9, <1>10 DEF SleepSet
      <4> QED BY <2>6, <3>1, <4>1
    <3>2. CASE on2[u] # c
      BY <1>8, <1>9, <2>6, <3>2 DEF QueuesInv
    <3> QED BY <3>1, <3>2
  <2>7. r.state[Main] = "RUNNING"
    BY <1>1, <1>6 DEF QueuesInv, Memory, All
  <2> QED BY <1>8, <2>1, <2>2, <2>3, <2>4, <2>5, <2>6, <2>7 DEF QueuesInv
<1> QED BY <1>6, <1>7, <1>12, <1>13, <1>15 DEF Joined, r, on2

\* The memory after the queue of c has been appended to the queue of m.
Spliced(k, c, m) ==
  [k EXCEPT !.next = IF k.mhead[m] = NULL THEN k.next
                     ELSE [k.next EXCEPT ![k.mtail[m]] = k.chead[c]],
            !.mhead[m] = IF k.mhead[m] = NULL THEN k.chead[c] ELSE k.mhead[m],
            !.mtail[m] = k.ctail[c],
            !.chead[c] = NULL,
            !.ctail[c] = NULL]

\* Nobody sleeps on c any more.
Awake(on, c) == [t \in Threads |-> IF on[t] = c THEN NULL ELSE on[t]]

\* r is mem with those asleep on c in the queue of their mutex.
Woken(r, mem, on, c) ==
  /\ r \in Memory
  /\ QueuesInv(r, Awake(on, c))
  /\ r.state = mem.state /\ r.waiting_on = mem.waiting_on
  /\ r.owner = mem.owner /\ r.lock_count = mem.lock_count
  /\ r.current = mem.current /\ r.heap = mem.heap
  /\ \A m \in Mutexes :
       WaitSet(r, Awake(on, c), m) = WaitSet(mem, on, m)
         \union {t \in SleepSet(on, c) : mem.waiting_on[t] = m}

\* Splicing the queues of a condition and of its sleepers' mutex wakes them.
LEMMA SpliceEffect ==
  ASSUME NEW mem \in Memory, NEW on, QueuesInv(mem, on),
         NEW c \in Conds, NEW m \in Mutexes, SleepSet(on, c) # {},
         \A t \in SleepSet(on, c) : mem.waiting_on[t] = m
  PROVE  Woken(Spliced(mem, c, m), mem, on, c)
<1> DEFINE r == Spliced(mem, c, m)
           on2 == Awake(on, c)
           P == WaitSet(mem, on, m)
           Q == SleepSet(on, c)
           n2 == IF mem.mhead[m] = NULL THEN mem.next
                 ELSE [mem.next EXCEPT ![mem.mtail[m]] = mem.chead[c]]
<1>1. /\ NULL \notin All /\ Threads \subseteq All /\ Main \notin Threads
      /\ NULL \notin Conds /\ NULL \notin Mutexes /\ on \in Placements
  BY KernelAssumption DEF All, QueuesInv
<1>2. /\ P \in SUBSET Threads /\ Q \in SUBSET Threads /\ P \intersect Q = {}
      /\ \A u \in Q : mem.state[u] = "BLOCKED"
  BY <1>1 DEF QueuesInv, SleepSet, WaitSet
<1>3. /\ IsQueue(mem.next, mem.mhead[m], mem.mtail[m], P)
      /\ IsQueue(mem.next, mem.chead[c], mem.ctail[c], Q)
  BY DEF QueuesInv
<1>4. /\ mem.mhead[m] # NULL => mem.mtail[m] \in P
      /\ mem.chead[c] \in Q /\ mem.ctail[c] \in Q
      /\ mem.mhead[m] = NULL => P = {}
      /\ P = {} => mem.mtail[m] = NULL
  BY <1>3 DEF IsQueue
<1>5. /\ mem.next \in Links /\ n2 \in Links
      /\ mem.mhead[m] # NULL => n2[mem.mtail[m]] = mem.chead[c]
      /\ \A u \in All : u # mem.mtail[m] => n2[u] = mem.next[u]
      /\ \A u \in All : u \notin P => n2[u] = mem.next[u]
  BY <1>1, <1>2, <1>4 DEF Memory, Links
<1>6. /\ r.next = n2
      /\ r.state = mem.state /\ r.waiting_on = mem.waiting_on
      /\ r.head = mem.head /\ r.tail = mem.tail
      /\ r.mhead = [mem.mhead EXCEPT ![m] = IF mem.mhead[m] = NULL THEN mem.chead[c] ELSE mem.mhead[m]]
      /\ r.mtail = [mem.mtail EXCEPT ![m] = mem.ctail[c]]
      /\ r.chead = [mem.chead EXCEPT ![c] = NULL]
      /\ r.ctail = [mem.ctail EXCEPT ![c] = NULL]
      /\ r.owner = mem.owner /\ r.lock_count = mem.lock_count
      /\ r.current = mem.current /\ r.heap = mem.heap
  BY DEF Spliced, Memory
<1>7. r \in Memory
  <2>1. /\ mem.chead[c] \in All /\ mem.ctail[c] \in All
        /\ [mem.mhead EXCEPT ![m] = IF mem.mhead[m] = NULL THEN mem.chead[c] ELSE mem.mhead[m]]
             \in [Mutexes -> All \union {NULL}]
        /\ [mem.mtail EXCEPT ![m] = mem.ctail[c]] \in [Mutexes -> All \union {NULL}]
        /\ [mem.chead EXCEPT ![c] = NULL] \in [Conds -> All \union {NULL}]
        /\ [mem.ctail EXCEPT ![c] = NULL] \in [Conds -> All \union {NULL}]
    BY <1>1, <1>2, <1>4 DEF Memory
  <2>2. n2 \in [All -> All \union {NULL}]
    BY <1>5 DEF Links
  <2> HIDE DEF n2
  <2>3. r = [mem EXCEPT !.next = n2,
        !.mhead = [mem.mhead EXCEPT ![m] = IF mem.mhead[m] = NULL THEN mem.chead[c] ELSE mem.mhead[m]],
        !.mtail = [mem.mtail EXCEPT ![m] = mem.ctail[c]],
        !.chead = [mem.chead EXCEPT ![c] = NULL],
        !.ctail = [mem.ctail EXCEPT ![c] = NULL]]
    BY DEF Spliced, n2, Memory
  <2> QED BY <2>1, <2>2, <2>3, ZenonT(60) DEF Memory
<1>8. on2 \in Placements /\ \A u \in Threads : on2[u] = IF on[u] = c THEN NULL ELSE on[u]
  BY <1>1 DEF Placements, Awake
<1> HIDE DEF r, n2, on2
<1>9. ReadySet(r) = ReadySet(mem)
  BY <1>6 DEF ReadySet
<1>10. /\ WaitSet(r, on2, m) = P \union Q
       /\ \A n \in Mutexes \ {m} : WaitSet(r, on2, n) = WaitSet(mem, on, n)
  BY <1>1, <1>2, <1>6, <1>8 DEF WaitSet, SleepSet
<1>11. SleepSet(on2, c) = {} /\ \A d \in Conds \ {c} : SleepSet(on2, d) = SleepSet(on, d)
  BY <1>1, <1>8 DEF SleepSet
<1>12. QueuesInv(r, on2)
  <2>1. IsQueue(r.next, r.head, r.tail, ReadySet(r))
    <3>1. ReadySet(mem) \in SUBSET Threads /\ \A u \in ReadySet(mem) : n2[u] = mem.next[u]
      BY <1>1, <1>5 DEF ReadySet, WaitSet
    <3>2. IsQueue(n2, mem.head, mem.tail, ReadySet(mem))
      BY <3>1, <1>5, QueueFrame DEF QueuesInv
    <3> QED BY <3>2, <1>6, <1>9
  <2>2. ASSUME NEW n \in Mutexes
        PROVE  IsQueue(r.next, r.mhead[n], r.mtail[n], WaitSet(r, on2, n))
    <3>1. CASE n = m
      <4>1. \A u \in P \union Q : u # mem.mtail[m] => n2[u] = mem.next[u]
        BY <1>1, <1>2, <1>5
      <4>2. IsQueue(n2, IF mem.mhead[m] = NULL THEN mem.chead[c] ELSE mem.mhead[m],
                    mem.ctail[c], P \union Q)
        BY <1>2, <1>3, <1>5, <4>1, QueueConcat
      <4> QED BY <3>1, <4>2, <1>6, <1>10 DEF Memory
    <3>2. CASE n # m
      <4>1. /\ IsQueue(mem.next, mem.mhead[n], mem.mtail[n], WaitSet(mem, on, n))
            /\ WaitSet(mem, on, n) \in SUBSET Threads
        BY DEF QueuesInv, WaitSet
      <4>2. \A u \in WaitSet(mem, on, n) : n2[u] = mem.next[u]
        BY <1>1, <1>5, <3>2 DEF WaitSet
      <4>3. IsQueue(n2, mem.mhead[n], mem.mtail[n], WaitSet(mem, on, n))
        BY <4>1, <4>2, <1>5, QueueFrame
      <4> QED BY <3>2, <4>3, <1>6, <1>10 DEF Memory
    <3> QED BY <3>1, <3>2
  <2>3. ASSUME NEW d \in Conds
        PROVE  IsQueue(r.next, r.chead[d], r.ctail[d], SleepSet(on2, d))
    <3>1. CASE d = c
      <4>1. r.chead[c] = NULL /\ r.ctail[c] = NULL
        BY <1>6 DEF Memory
      <4> QED BY <3>1, <4>1, <1>11 DEF IsQueue
    <3>2. CASE d # c
      <4>1. /\ IsQueue(mem.next, mem.chead[d], mem.ctail[d], SleepSet(on, d))
            /\ SleepSet(on, d) \in SUBSET Threads
        BY DEF QueuesInv, SleepSet
      <4>2. \A u \in SleepSet(on, d) : n2[u] = mem.next[u]
        BY <1>1, <1>5 DEF SleepSet, WaitSet
      <4>3. IsQueue(n2, mem.chead[d], mem.ctail[d], SleepSet(on, d))
        BY <4>1, <4>2, <1>5, QueueFrame
      <4> QED BY <3>2, <4>3, <1>6, <1>11 DEF Memory
    <3> QED BY <3>1, <3>2
  <2>4. \A u \in Threads : r.state[u] \in {"CREATED", "RUNNING"} => r.next[u] = NULL
    BY <1>1, <1>5, <1>6 DEF QueuesInv, WaitSet
  <2>5. /\ \A u \in Threads : r.state[u] = "BLOCKED" => r.waiting_on[u] # NULL
        /\ \A u \in Threads : on2[u] # NULL => r.state[u] = "BLOCKED"
        /\ \A u, v \in Threads :
             on2[u] # NULL /\ on2[v] = on2[u] => r.waiting_on[v] = r.waiting_on[u]
        /\ r.state[Main] = "RUNNING"
    BY <1>6, <1>8 DEF QueuesInv
  <2> QED BY <1>8, <2>1, <2>2, <2>3, <2>4, <2>5 DEF QueuesInv
<1>13. ASSUME NEW n \in Mutexes
       PROVE  WaitSet(r, on2, n) = WaitSet(mem, on, n)
                \union {t \in SleepSet(on, c) : mem.waiting_on[t] = n}
  BY <1>10
<1> QED BY <1>6, <1>7, <1>12, <1>13 DEF Woken, r, on2

\* kcond_wait puts the caller to sleep, then unlocks the mutex for it.
LEMMA WaitIsFallAsleepAndUnlock ==
  ASSUME NEW mem, NEW c, NEW m, NEW t
  PROVE  kcond_wait(mem, c, m, t) = kmutex_unlock(FallAsleep(mem, c, m, t), m, t)
BY DEF kcond_wait, FallAsleep

\* The only sleeper has to wait for its mutex, which somebody else owns: signal
\* splices the queues.
LEMMA SignalSplices ==
  ASSUME NEW mem \in Memory, NEW on, QueuesInv(mem, on),
         NEW c \in Conds, NEW m \in Mutexes, NEW t \in Threads,
         SleepSet(on, c) = {t}, mem.waiting_on[t] = m,
         mem.owner[m] # NULL, mem.owner[m] # t
  PROVE  kcond_signal(mem, c, FALSE) = Spliced(mem, c, m)
<1>1. NULL \notin All /\ Threads \subseteq All /\ NULL \notin Conds
  BY KernelAssumption DEF All
<1>2. /\ IsQueue(mem.next, mem.chead[c], mem.ctail[c], {t})
      /\ mem.state[t] = "BLOCKED"
  BY <1>1 DEF QueuesInv, SleepSet
<1>3. mem.chead[c] = t /\ mem.ctail[c] = t /\ mem.next[t] = NULL
  BY <1>1, <1>2 DEF IsQueue
<1> DEFINE k1 == [mem EXCEPT !.chead[c] = NULL, !.ctail[c] = NULL]
<1>4. /\ k1.owner = mem.owner /\ k1.mhead = mem.mhead /\ k1.mtail = mem.mtail
      /\ k1.next = mem.next /\ k1.state = mem.state /\ k1.waiting_on = mem.waiting_on
  BY DEF Memory
<1>5. kcond_signal(mem, c, FALSE) = kmutex_lock(k1, m, t)
  BY <1>1, <1>3 DEF kcond_signal
<1>6. kmutex_lock(k1, m, t) = Block(k1, m, t)
  BY <1>4 DEF kmutex_lock
<1>7. /\ [mem.state EXCEPT ![t] = "BLOCKED"] = mem.state
      /\ [mem.waiting_on EXCEPT ![t] = m] = mem.waiting_on
  BY <1>1, <1>2 DEF Memory
<1>8. Block(k1, m, t) = Spliced(mem, c, m)
  <2> DEFINE n2 == IF mem.mhead[m] = NULL THEN mem.next
                   ELSE [mem.next EXCEPT ![mem.mtail[m]] = t]
             mh == [mem.mhead EXCEPT ![m] = IF mem.mhead[m] = NULL THEN t ELSE mem.mhead[m]]
             mt == [mem.mtail EXCEPT ![m] = t]
             ch == [mem.chead EXCEPT ![c] = NULL]
             ct == [mem.ctail EXCEPT ![c] = NULL]
  <2>1. Spliced(mem, c, m) = [mem EXCEPT !.next = n2, !.mhead = mh, !.mtail = mt,
                                         !.chead = ch, !.ctail = ct]
    BY <1>3 DEF Spliced, Memory
  <2>2. k1 = [mem EXCEPT !.chead = ch, !.ctail = ct]
    BY DEF Memory
  <2> HIDE DEF k1
  <2>3. Block(k1, m, t) = [k1 EXCEPT !.state = mem.state, !.waiting_on = mem.waiting_on,
                                     !.next = n2, !.mhead = mh, !.mtail = mt]
    BY <1>4, <1>7 DEF Block
  <2> HIDE DEF n2, mh, mt, ch, ct
  <2> DEFINE full == [ current |-> mem.current, next |-> n2, state |-> mem.state,
                       waiting_on |-> mem.waiting_on, head |-> mem.head, tail |-> mem.tail,
                       owner |-> mem.owner, lock_count |-> mem.lock_count,
                       mhead |-> mh, mtail |-> mt, chead |-> ch, ctail |-> ct,
                       heap |-> mem.heap ]
  <2>4. Spliced(mem, c, m) = full
    BY <2>1 DEF Memory
  <2>5. Block(k1, m, t) = full
    BY <2>2, <2>3 DEF Memory
  <2> QED BY <2>4, <2>5
<1> QED BY <1>5, <1>6, <1>8

-----------------------------------------------------------------------------
(* The loop of kcond_signal_all *)

LEMMA NatOrder == IsWellFoundedOn({ss \in Nat \X Nat : ss[1] < ss[2]}, Nat)
BY NatLessThanWellFounded DEF OpToRel

\* Induction over the natural numbers, for a set instead of a predicate.
LEMMA SetInduction ==
  ASSUME NEW S, 0 \in S, \A n \in Nat : n \in S => n + 1 \in S
  PROVE  \A n \in Nat : n \in S
<1> DEFINE T == Nat \ S
           R == {ss \in Nat \X Nat : ss[1] < ss[2]}
<1> SUFFICES ASSUME T # {} PROVE FALSE
  OBVIOUS
<1>1. IsWellFoundedOn(R, Nat)
  BY NatOrder
<1> HIDE DEF R
<1>2. PICK x \in T : \A y \in T : ~ (<<y, x>> \in R)
  BY <1>1, WFMin
<1>3. x \in Nat /\ x # 0
  OBVIOUS
<1>4. x - 1 \in Nat /\ x - 1 < x /\ (x - 1) + 1 = x
  BY <1>3
<1>5. x - 1 \in T
  BY <1>3, <1>4
<1>6. <<x - 1, x>> \in R
  BY <1>3, <1>4 DEF R
<1> QED BY <1>2, <1>5, <1>6

\* The body of the loop: its memory and the thread it looks at.
SignalBody(p) ==
  IF p.thread = NULL THEN p
  ELSE [k |-> kmutex_lock(p.k, p.k.waiting_on[p.thread], p.thread),
        thread |-> p.k.next[p.thread]]

\* g is the sequence of the first n turns of the loop.
IsSignalLoop(g, mem, c, n) ==
  g = [i \in 0 .. n |->
         IF i = 0 THEN [k |-> mem, thread |-> mem.chead[c]] ELSE SignalBody(g[i - 1])]

\* The loop can be run for any number of turns.
LEMMA SignalLoopRuns ==
  ASSUME NEW mem, NEW c
  PROVE  \A n \in Nat : \E g : IsSignalLoop(g, mem, c, n)
<1> DEFINE start == [k |-> mem, thread |-> mem.chead[c]]
           S == {n \in Nat : \E g : IsSignalLoop(g, mem, c, n)}
<1>1. 0 \in S
  <2> DEFINE g == [i \in 0 .. 0 |-> start]
  <2>1. IsSignalLoop(g, mem, c, 0)
    BY DEF IsSignalLoop
  <2> QED BY <2>1
<1>2. ASSUME NEW n \in Nat, n \in S PROVE n + 1 \in S
  <2>1. PICK g : IsSignalLoop(g, mem, c, n)
    BY <1>2
  <2> DEFINE f == [i \in 0 .. n + 1 |-> IF i = n + 1 THEN SignalBody(g[n]) ELSE g[i]]
             r == [i \in 0 .. n + 1 |-> IF i = 0 THEN start ELSE SignalBody(f[i - 1])]
  <2>2. ASSUME NEW i \in 0 .. n + 1 PROVE f[i] = r[i]
    <3>1. CASE i = n + 1
      <4>1. f[n] = g[n] /\ n \in 0 .. n + 1 /\ i - 1 = n /\ i # 0
        BY <3>1
      <4>2. f[i] = SignalBody(g[n])
        BY <3>1
      <4>3. r[i] = SignalBody(f[n])
        BY <4>1
      <4> QED BY <4>1, <4>2, <4>3
    <3>2. CASE i # n + 1
      <4>1. i \in 0 .. n /\ f[i] = g[i]
        BY <3>2
      <4>2. g[i] = IF i = 0 THEN start ELSE SignalBody(g[i - 1])
        BY <2>1, <4>1 DEF IsSignalLoop
      <4>3. i # 0 => i - 1 \in 0 .. n + 1 /\ i - 1 # n + 1 /\ f[i - 1] = g[i - 1]
        BY <4>1
      <4>4. r[i] = IF i = 0 THEN start ELSE SignalBody(f[i - 1])
        OBVIOUS
      <4> QED BY <4>1, <4>2, <4>3, <4>4
    <3> QED BY <3>1, <3>2
  <2>3. f = r
    BY <2>2
  <2>4. IsSignalLoop(f, mem, c, n + 1)
    BY <2>3 DEF IsSignalLoop
  <2> QED BY <2>4
<1> HIDE DEF S
<1>3. \A n \in Nat : n \in S
  BY <1>1, <1>2, SetInduction
<1> QED BY <1>3 DEF S

\* kcond_signal_all runs the loop g and clears the queue.
SignalAllRuns(g, mem, c) ==
  /\ IsSignalLoop(g, mem, c, Cardinality(All))
  /\ kcond_signal_all(mem, c)
       = [g[Cardinality(All)].k EXCEPT !.chead[c] = NULL, !.ctail[c] = NULL]

LEMMA SignalAllIsLoop ==
  ASSUME NEW mem, NEW c, Cardinality(All) \in Nat
  PROVE  \E g : SignalAllRuns(g, mem, c)
<1> DEFINE N == Cardinality(All)
           g == CHOOSE f : IsSignalLoop(f, mem, c, N)
<1>1. IsSignalLoop(g, mem, c, N)
  BY SignalLoopRuns
<1>2. kcond_signal_all(mem, c) = [g[N].k EXCEPT !.chead[c] = NULL, !.ctail[c] = NULL]
  BY DEF kcond_signal_all, IsSignalLoop, SignalBody
<1> HIDE DEF g
<1> QED BY <1>1, <1>2 DEF SignalAllRuns

\* The memory when the threads up to `last' have been moved.
Moved(k, c, m, last) ==
  [k EXCEPT !.next = IF k.mhead[m] = NULL THEN k.next
                     ELSE [k.next EXCEPT ![k.mtail[m]] = k.chead[c]],
            !.mhead[m] = IF k.mhead[m] = NULL THEN k.chead[c] ELSE k.mhead[m],
            !.mtail[m] = last]

\* A turn of the loop moves one more thread.
LEMMA MoveOne ==
  ASSUME NEW mem \in Memory, NEW on, QueuesInv(mem, on),
         NEW c \in Conds, NEW m \in Mutexes,
         \A t \in SleepSet(on, c) : mem.waiting_on[t] = m,
         NEW t \in SleepSet(on, c)
  PROVE  /\ t = mem.chead[c] => Block(mem, m, t) = Moved(mem, c, m, t)
         /\ \A last \in SleepSet(on, c) :
              mem.next[last] = t => Block(Moved(mem, c, m, last), m, t) = Moved(mem, c, m, t)
<1>1. NULL \notin All /\ Threads \subseteq All /\ NULL \notin Conds
  BY KernelAssumption DEF All
<1>2. /\ IsQueue(mem.next, mem.chead[c], mem.ctail[c], SleepSet(on, c))
      /\ IsQueue(mem.next, mem.mhead[m], mem.mtail[m], WaitSet(mem, on, m))
      /\ \A u \in SleepSet(on, c) : u \in Threads /\ on[u] = c /\ mem.state[u] = "BLOCKED"
  BY <1>1 DEF QueuesInv, SleepSet
<1>3. /\ mem.chead[c] # NULL
      /\ mem.mhead[m] # NULL => mem.mtail[m] \in Threads /\ on[mem.mtail[m]] = NULL
  BY <1>1, <1>2 DEF IsQueue, WaitSet
<1>4. /\ [mem.state EXCEPT ![t] = "BLOCKED"] = mem.state
      /\ [mem.waiting_on EXCEPT ![t] = m] = mem.waiting_on
  BY <1>1, <1>2 DEF Memory
<1> DEFINE n2 == IF mem.mhead[m] = NULL THEN mem.next
                 ELSE [mem.next EXCEPT ![mem.mtail[m]] = mem.chead[c]]
           mh == [mem.mhead EXCEPT ![m] = IF mem.mhead[m] = NULL THEN mem.chead[c] ELSE mem.mhead[m]]
           mt(u) == [mem.mtail EXCEPT ![m] = u]
           full(u) == [ current |-> mem.current, next |-> n2, state |-> mem.state,
                        waiting_on |-> mem.waiting_on, head |-> mem.head, tail |-> mem.tail,
                        owner |-> mem.owner, lock_count |-> mem.lock_count,
                        mhead |-> mh, mtail |-> mt(u), chead |-> mem.chead, ctail |-> mem.ctail,
                        heap |-> mem.heap ]
<1>5. ASSUME NEW u
      PROVE  /\ Moved(mem, c, m, u) = full(u)
             /\ Moved(mem, c, m, u) = [mem EXCEPT !.next = n2, !.mhead = mh, !.mtail = mt(u)]
  <2>1. Moved(mem, c, m, u) = [mem EXCEPT !.next = n2, !.mhead = mh, !.mtail = mt(u)]
    BY DEF Moved, Memory
  <2> HIDE DEF n2, mh, mt
  <2> QED BY <2>1 DEF Memory
<1>6. ASSUME t = mem.chead[c] PROVE Block(mem, m, t) = Moved(mem, c, m, t)
  <2>1. Block(mem, m, t) = [mem EXCEPT !.state = mem.state, !.waiting_on = mem.waiting_on,
                              !.next = n2, !.mhead = mh, !.mtail = mt(t)]
    BY <1>4, <1>6 DEF Block, Memory
  <2>2. Block(mem, m, t) = full(t)
    BY <2>1 DEF Memory
  <2> QED BY <2>2, <1>5
<1>7. ASSUME NEW last \in SleepSet(on, c), mem.next[last] = t
      PROVE  Block(Moved(mem, c, m, last), m, t) = Moved(mem, c, m, t)
  <2>1. last \in All /\ on[last] = c
    BY <1>1, <1>2
  <2>2. n2[last] = t /\ n2 \in Links
    BY <1>1, <1>2, <1>3, <1>7, <2>1 DEF Memory, Links, IsQueue
  <2>3. mh[m] # NULL /\ mh \in [Mutexes -> {mh[n] : n \in Mutexes}]
    BY <1>3 DEF Memory
  <2>4. mt(last)[m] = last /\ [mt(last) EXCEPT ![m] = t] = mt(t)
    BY DEF Memory
  <2>5. [n2 EXCEPT ![last] = t] = n2 /\ [mh EXCEPT ![m] = mh[m]] = mh
    BY <2>1, <2>2, <2>3 DEF Links
  <2> HIDE DEF n2, mh, mt
  <2> DEFINE f == Moved(mem, c, m, last)
             ml == mt(last)
             m2 == mt(t)
  <2>6. f = [mem EXCEPT !.next = n2, !.mhead = mh, !.mtail = ml]
    BY <1>5
  <2>7. f.state = mem.state /\ f.waiting_on = mem.waiting_on /\ f.next = n2
        /\ f.mhead = mh /\ f.mtail = ml
    BY <2>6 DEF Memory
  <2> HIDE DEF f
  <2>8. /\ (IF f.mhead[m] = NULL THEN f.next ELSE [f.next EXCEPT ![f.mtail[m]] = t]) = n2
        /\ [f.mhead EXCEPT ![m] = IF f.mhead[m] = NULL THEN t ELSE f.mhead[m]] = mh
        /\ [f.mtail EXCEPT ![m] = t] = m2
        /\ [f.state EXCEPT ![t] = "BLOCKED"] = mem.state
        /\ [f.waiting_on EXCEPT ![t] = m] = mem.waiting_on
    BY <1>4, <2>3, <2>4, <2>5, <2>7
  <2>9. Block(f, m, t) = [f EXCEPT !.state = mem.state, !.waiting_on = mem.waiting_on,
                                   !.next = n2, !.mhead = mh, !.mtail = m2]
    BY <2>8 DEF Block
  <2> HIDE DEF ml, m2
  <2>10. Block(f, m, t) = [ current |-> mem.current, next |-> n2, state |-> mem.state,
                        waiting_on |-> mem.waiting_on, head |-> mem.head, tail |-> mem.tail,
                        owner |-> mem.owner, lock_count |-> mem.lock_count,
                        mhead |-> mh, mtail |-> m2, chead |-> mem.chead, ctail |-> mem.ctail,
                        heap |-> mem.heap ]
    BY <2>6, <2>9 DEF Memory
  <2>11. Block(f, m, t) = full(t)
    BY <2>10 DEF m2
  <2> QED BY <1>5, <2>11 DEF f
<1> QED BY <1>6, <1>7

\* At the start of a turn the threads of D have been moved, in the order of the
\* queue; p.thread is the next one.
LoopInv(p, i, mem, c, m, Q, D) ==
  /\ D \subseteq Q
  /\ p.thread \in (Q \ D) \union {NULL}
  /\ p.thread # NULL => Cardinality(D) = i
  /\ \A t \in D : t = mem.chead[c] \/ \E u \in D : mem.next[u] = t
  /\ D = {} => p.k = mem /\ p.thread = mem.chead[c]
  /\ D # {} =>
       /\ mem.chead[c] \in D
       /\ \E last \in D :
            /\ p.k = Moved(mem, c, m, last)
            /\ p.thread = mem.next[last]
            /\ \A t \in D \ {last} : mem.next[t] \in D

\* A turn keeps the invariant.
LEMMA LoopTurn ==
  ASSUME NEW mem \in Memory, NEW on, QueuesInv(mem, on),
         NEW c \in Conds, NEW m \in Mutexes,
         \A t \in SleepSet(on, c) : mem.waiting_on[t] = m /\ mem.owner[m] # t,
         mem.owner[m] # NULL, SleepSet(on, c) # {},
         NEW p, NEW i \in Nat, NEW D, LoopInv(p, i, mem, c, m, SleepSet(on, c), D)
  PROVE  \E E : LoopInv(SignalBody(p), i + 1, mem, c, m, SleepSet(on, c), E)
<1> DEFINE Q == SleepSet(on, c)
<1>1. NULL \notin All /\ Threads \subseteq All /\ NULL \notin Conds /\ IsFiniteSet(Threads)
  BY KernelAssumption DEF All
<1>2. Q \in SUBSET Threads /\ IsQueue(mem.next, mem.chead[c], mem.ctail[c], Q)
  BY DEF QueuesInv, SleepSet
<1>3. CASE p.thread = NULL
  <2>1. SignalBody(p) = p
    BY <1>3 DEF SignalBody
  <2> QED BY <1>3, <2>1 DEF LoopInv
<1>4. CASE p.thread # NULL
  <2> DEFINE t == p.thread
             E == D \union {t}
  <2>1. t \in Q /\ t \notin D /\ D \subseteq Q /\ Cardinality(D) = i
    BY <1>4 DEF LoopInv
  <2>2. /\ p.k.owner = mem.owner /\ p.k.waiting_on = mem.waiting_on
        /\ p.k.next[t] = mem.next[t]
    <3>1. CASE D = {}
      BY <3>1 DEF LoopInv
    <3>2. CASE D # {}
      <4>1. PICK last \in D : p.k = Moved(mem, c, m, last)
        BY <3>2 DEF LoopInv
      <4>2. mem.mhead[m] # NULL => mem.mtail[m] \in WaitSet(mem, on, m)
        BY DEF QueuesInv, IsQueue
      <4>3. mem.mhead[m] # NULL => mem.mtail[m] # t
        BY <1>1, <2>1, <4>2 DEF WaitSet, SleepSet
      <4> QED BY <1>1, <1>2, <2>1, <4>1, <4>3 DEF Moved, Memory
    <3> QED BY <3>1, <3>2
  <2>3. /\ SignalBody(p).thread = mem.next[t]
        /\ SignalBody(p).k = Block(p.k, m, t)
    BY <1>4, <2>1, <2>2 DEF SignalBody, kmutex_lock
  <2>4. SignalBody(p).k = Moved(mem, c, m, t)
    <3>1. CASE D = {}
      <4>1. p.k = mem /\ t = mem.chead[c]
        BY <3>1 DEF LoopInv
      <4> QED BY <2>1, <2>3, <4>1, MoveOne
    <3>2. CASE D # {}
      <4>1. PICK last \in D : p.k = Moved(mem, c, m, last) /\ t = mem.next[last]
        BY <3>2 DEF LoopInv
      <4> QED BY <2>1, <2>3, <4>1, MoveOne
    <3> QED BY <3>1, <3>2
  <2>5. \A u \in E : u = mem.chead[c] \/ \E v \in E : mem.next[v] = u
    <3>1. t = mem.chead[c] \/ \E v \in D : mem.next[v] = t
      BY DEF LoopInv
    <3> QED BY <3>1 DEF LoopInv
  <2>6. mem.next[t] \in (Q \ E) \union {NULL}
    <3>1. mem.next[t] \in (Q \ {mem.chead[c]}) \union {NULL}
      BY <1>2, <2>1 DEF IsQueue
    <3>2. ASSUME mem.next[t] # NULL PROVE mem.next[t] \notin E
      <4> SUFFICES ASSUME mem.next[t] \in E PROVE FALSE
        OBVIOUS
      <4>1. PICK v \in E : mem.next[v] = mem.next[t]
        BY <2>5, <3>1, <3>2
      <4>2. CASE mem.next[t] = t
        <5>1. t # mem.chead[c]
          BY <3>1, <3>2, <4>2
        <5>2. PICK w \in D : mem.next[w] = t
          BY <2>1, <5>1 DEF LoopInv
        <5>3. w = t
          BY <1>1, <1>2, <2>1, <4>2, <5>2 DEF IsQueue
        <5> QED BY <2>1, <5>2, <5>3
      <4>3. CASE mem.next[t] # t
        <5>1. mem.next[t] \in D
          BY <4>3
        <5>2. PICK w \in D : mem.next[w] = mem.next[t]
          BY <3>1, <3>2, <5>1 DEF LoopInv
        <5>3. w = t
          BY <1>2, <2>1, <3>2, <5>2 DEF IsQueue
        <5> QED BY <2>1, <5>3
      <4> QED BY <4>2, <4>3
    <3> QED BY <3>1, <3>2
  <2>7. Cardinality(E) = i + 1
    <3>1. IsFiniteSet(D)
      BY <1>1, <1>2, <2>1, FS_Subset
    <3> QED BY <2>1, <3>1, FS_AddElement
  <2>8. mem.chead[c] \in E
    BY DEF LoopInv
  <2>9. \A u \in E \ {t} : mem.next[u] \in E
    BY DEF LoopInv
  <2>10. E \subseteq Q /\ E # {} /\ t \in E
    BY <2>1
  <2> QED
    BY <2>3, <2>4, <2>5, <2>6, <2>7, <2>8, <2>9, <2>10 DEF LoopInv
<1> QED BY <1>3, <1>4

\* The loop ends with the whole queue spliced.
LEMMA SignalAllSplices ==
  ASSUME NEW mem \in Memory, NEW on, QueuesInv(mem, on),
         NEW c \in Conds, NEW m \in Mutexes,
         \A t \in SleepSet(on, c) : mem.waiting_on[t] = m /\ mem.owner[m] # t,
         mem.owner[m] # NULL, SleepSet(on, c) # {}
  PROVE  kcond_signal_all(mem, c) = Spliced(mem, c, m)
<1> DEFINE Q == SleepSet(on, c)
           N == Cardinality(All)
<1>1. /\ NULL \notin All /\ Threads \subseteq All /\ NULL \notin Conds
      /\ Main \notin Threads /\ IsFiniteSet(Threads) /\ All = Threads \union {Main}
  BY KernelAssumption DEF All
<1>2. Q \in SUBSET Threads /\ IsQueue(mem.next, mem.chead[c], mem.ctail[c], Q)
  BY DEF QueuesInv, SleepSet
<1>3. IsFiniteSet(Q) /\ Cardinality(Q) \in Nat /\ N \in Nat /\ Cardinality(Q) < N
  <2>1. N = Cardinality(Threads) + 1 /\ Cardinality(Threads) \in Nat
    BY <1>1, FS_AddElement, FS_CardinalityType
  <2>2. IsFiniteSet(Q) /\ Cardinality(Q) <= Cardinality(Threads) /\ Cardinality(Q) \in Nat
    BY <1>1, <1>2, FS_Subset, FS_CardinalityType
  <2> QED BY <2>1, <2>2
<1>4. PICK g : SignalAllRuns(g, mem, c)
  BY <1>3, SignalAllIsLoop
<1> DEFINE S == {i \in Nat : i \in 0 .. N => \E D : LoopInv(g[i], i, mem, c, m, Q, D)}
<1>5. 0 \in S
  <2>1. g[0] = [k |-> mem, thread |-> mem.chead[c]]
    BY <1>3, <1>4 DEF SignalAllRuns, IsSignalLoop
  <2>2. mem.chead[c] \in Q
    BY <1>2 DEF IsQueue
  <2>3. LoopInv(g[0], 0, mem, c, m, Q, {})
    BY <2>1, <2>2, FS_EmptySet DEF LoopInv
  <2> QED BY <2>3
<1>6. ASSUME NEW i \in Nat, i \in S PROVE i + 1 \in S
  <2> SUFFICES ASSUME i + 1 \in 0 .. N
               PROVE  \E D : LoopInv(g[i + 1], i + 1, mem, c, m, Q, D)
    OBVIOUS
  <2>1. g[i + 1] = SignalBody(g[i])
    BY <1>3, <1>4 DEF SignalAllRuns, IsSignalLoop
  <2>2. PICK D : LoopInv(g[i], i, mem, c, m, Q, D)
    BY <1>3, <1>6
  <2> QED BY <2>1, <2>2, LoopTurn
<1> HIDE DEF S
<1>7. \A i \in Nat : i \in S
  BY <1>5, <1>6, SetInduction
<1>8. PICK D : LoopInv(g[N], N, mem, c, m, Q, D)
  BY <1>3, <1>7 DEF S
<1>9. g[N].thread = NULL
  <2> SUFFICES ASSUME g[N].thread # NULL PROVE FALSE
    OBVIOUS
  <2>1. D \subseteq Q /\ Cardinality(D) = N
    BY <1>8 DEF LoopInv
  <2>2. Cardinality(D) <= Cardinality(Q)
    BY <1>3, <2>1, FS_Subset
  <2> QED BY <1>3, <2>1, <2>2
<1>10. PICK last \in D : /\ g[N].k = Moved(mem, c, m, last)
                         /\ mem.next[last] = NULL
                         /\ \A t \in D \ {last} : mem.next[t] \in D
                         /\ mem.chead[c] \in D /\ D \subseteq Q
  <2>1. D # {}
    BY <1>1, <1>2, <1>8, <1>9 DEF LoopInv, IsQueue
  <2> QED BY <1>8, <1>9, <2>1 DEF LoopInv
<1>11. D = Q
  BY <1>2, <1>10 DEF IsQueue
<1>12. last = mem.ctail[c]
  <2>1. mem.ctail[c] \in Q /\ mem.next[mem.ctail[c]] = NULL
    BY <1>2 DEF IsQueue
  <2> QED BY <1>1, <1>2, <1>10, <1>11, <2>1
<1>13. [Moved(mem, c, m, mem.ctail[c]) EXCEPT !.chead[c] = NULL, !.ctail[c] = NULL]
         = Spliced(mem, c, m)
  BY DEF Moved, Spliced, Memory
<1> QED BY <1>4, <1>10, <1>12, <1>13 DEF SignalAllRuns

-----------------------------------------------------------------------------
(* kcond_wait *)

\* r is mem after t, its owner, has gone to sleep on c and given up m: to the
\* first of those that wait for m, the only one in W, if there is one.
GaveUp(r, mem, on, c, m, t, W) ==
  /\ r \in Memory
  /\ QueuesInv(r, [on EXCEPT ![t] = c])
  /\ W \subseteq WaitSet(mem, on, m)
  /\ \A u \in Threads :
       r.state[u] = IF u = t THEN "BLOCKED" ELSE IF u \in W THEN "READY" ELSE mem.state[u]
  /\ WaitSet(r, [on EXCEPT ![t] = c], m) = WaitSet(mem, on, m) \ W
  /\ \A n \in Mutexes \ {m} : WaitSet(r, [on EXCEPT ![t] = c], n) = WaitSet(mem, on, n)
  /\ BlockedOn(r, m) = (BlockedOn(mem, m) \ W) \union {t}
  /\ \A n \in Mutexes \ {m} : BlockedOn(r, n) = BlockedOn(mem, n)
  /\ \/ /\ W = {} /\ WaitSet(mem, on, m) = {}
        /\ r.owner = [mem.owner EXCEPT ![m] = NULL]
        /\ r.lock_count = [mem.lock_count EXCEPT ![m] = 0]
     \/ \E w \in W : /\ W = {w}
                     /\ r.owner = [mem.owner EXCEPT ![m] = w]
                     /\ r.lock_count = [mem.lock_count EXCEPT ![m] = 1]
  /\ r.current = mem.current /\ r.heap = mem.heap

\* The owner of a mutex locked once goes to sleep and gives it up.
LEMMA WaitEffect ==
  ASSUME NEW mem \in Memory, NEW on, QueuesInv(mem, on),
         NEW t \in Threads, NEW m \in Mutexes, NEW c \in Conds,
         mem.state[t] = "RUNNING", mem.owner[m] = t, mem.lock_count[m] = 1,
         \A u \in SleepSet(on, c) : mem.waiting_on[u] = m
  PROVE  \E W : GaveUp(kcond_wait(mem, c, m, t), mem, on, c, m, t, W)
<1> DEFINE mem1 == FallAsleep(mem, c, m, t)
           on2 == [on EXCEPT ![t] = c]
           r == kcond_wait(mem, c, m, t)
<1>1. /\ NULL \notin All /\ Threads \subseteq All /\ on \in Placements
      /\ NULL \notin Conds
  BY KernelAssumption DEF All, QueuesInv
<1>2. Joined(mem1, mem, on, c, m, t)
  BY JoinEffect
<1>3. r = kmutex_unlock(mem1, m, t)
  BY WaitIsFallAsleepAndUnlock
<1> HIDE DEF mem1, on2, r
<1>4. /\ mem1 \in Memory /\ QueuesInv(mem1, on2)
      /\ mem1.owner = mem.owner /\ mem1.lock_count = mem.lock_count
      /\ mem1.current = mem.current /\ mem1.heap = mem.heap
      /\ \A n \in Mutexes : WaitSet(mem1, on2, n) = WaitSet(mem, on, n)
      /\ BlockedOn(mem1, m) = BlockedOn(mem, m) \union {t}
      /\ \A n \in Mutexes \ {m} : BlockedOn(mem1, n) = BlockedOn(mem, n)
  BY <1>2 DEF Joined, on2
<1>5. \A u \in Threads : mem1.state[u] = IF u = t THEN "BLOCKED" ELSE mem.state[u]
  BY <1>1, <1>2 DEF Joined, Memory
<1>6. (mem1.lock_count[m] - 1) % CountMod = 0
  BY <1>4, KernelAssumption
<1>7. t \notin WaitSet(mem, on, m) /\ WaitSet(mem, on, m) \subseteq Threads
  BY DEF WaitSet
<1>8. CASE mem1.mhead[m] = NULL
  <2>1. r = [mem1 EXCEPT !.lock_count[m] = 0, !.owner[m] = NULL]
    <3> DEFINE count == (mem1.lock_count[m] - 1) % CountMod
    <3>1. mem1.owner[m] = t /\ ~(m \in Recursive /\ count > 0) /\ count = 0
      BY <1>4, <1>6
    <3>2. r = [mem1 EXCEPT !.lock_count[m] = count, !.owner[m] = NULL]
      BY <1>3, <1>8, <3>1 DEF kmutex_unlock
    <3> HIDE DEF count
    <3> QED BY <3>1, <3>2
  <2>2. /\ SameQueues(r, mem1) /\ r.current = mem1.current /\ r.heap = mem1.heap
        /\ r.owner = [mem1.owner EXCEPT ![m] = NULL]
        /\ r.lock_count = [mem1.lock_count EXCEPT ![m] = 0]
        /\ r.state = mem1.state
    BY <1>4, <2>1 DEF Memory, SameQueues
  <2>3. r \in Memory
    <3>1. 0 \in 0 .. CountMod - 1
      BY KernelAssumption
    <3> QED BY <1>4, <2>1, <3>1 DEF Memory
  <2>4. QueuesInv(r, on2) /\ SameWaiters(r, mem1, on2)
    BY <1>4, <2>2, QueuesFrame
  <2>5. WaitSet(mem, on, m) = {}
    <3>1. WaitSet(mem1, on2, m) = {}
      BY <1>4, <1>8 DEF QueuesInv, IsQueue
    <3> QED BY <1>4, <3>1
  <2>6. GaveUp(r, mem, on, c, m, t, {})
    BY <1>4, <1>5, <2>2, <2>3, <2>4, <2>5 DEF GaveUp, SameWaiters, on2
  <2> QED BY <2>6 DEF r
<1>9. CASE mem1.mhead[m] # NULL
  <2> DEFINE w == mem1.mhead[m]
  <2>1. r = HandOff(mem1, m)
    BY <1>3, <1>4, <1>6, <1>9 DEF kmutex_unlock
  <2>2. HandedOff(r, mem1, on2, m, w)
    BY <1>4, <1>9, <2>1, HandOffEffect
  <2> HIDE DEF w
  <2>3. w \in WaitSet(mem, on, m) /\ w \in Threads /\ w # t
    BY <1>4, <1>7, <2>2 DEF HandedOff
  <2>4. \A u \in Threads :
          r.state[u] = IF u = t THEN "BLOCKED" ELSE IF u \in {w} THEN "READY" ELSE mem.state[u]
    BY <1>1, <1>4, <1>5, <2>2, <2>3 DEF HandedOff, Memory
  <2>5. BlockedOn(r, m) = (BlockedOn(mem, m) \ {w}) \union {t}
    BY <1>4, <2>2, <2>3 DEF HandedOff
  <2>6. GaveUp(r, mem, on, c, m, t, {w})
    BY <1>4, <2>2, <2>3, <2>4, <2>5 DEF GaveUp, HandedOff, on2
  <2> QED BY <2>6 DEF r
<1> QED BY <1>8, <1>9

-----------------------------------------------------------------------------
(* kcond_signal and kcond_signal_all *)

\* With no sleeper a signal does nothing.
LEMMA SignalNobody ==
  ASSUME NEW mem \in Memory, NEW on, QueuesInv(mem, on), NEW c \in Conds,
         SleepSet(on, c) = {}
  PROVE  kcond_signal(mem, c, FALSE) = mem /\ kcond_signal_all(mem, c) = mem
<1>1. NULL \notin All /\ IsFiniteSet(Threads) /\ All = Threads \union {Main}
  BY KernelAssumption DEF All
<1>2. mem.chead[c] = NULL /\ mem.ctail[c] = NULL
  BY DEF QueuesInv, IsQueue
<1>3. kcond_signal(mem, c, FALSE) = mem
  BY <1>2 DEF kcond_signal
<1>4. Cardinality(All) \in Nat
  BY <1>1, FS_AddElement, FS_CardinalityType
<1> DEFINE N == Cardinality(All)
<1>5. PICK g : SignalAllRuns(g, mem, c)
  BY <1>4, SignalAllIsLoop
<1> DEFINE S == {i \in Nat : i \in 0 .. N => g[i] = [k |-> mem, thread |-> NULL]}
<1>6. 0 \in S
  BY <1>2, <1>4, <1>5 DEF SignalAllRuns, IsSignalLoop
<1>7. ASSUME NEW i \in Nat, i \in S PROVE i + 1 \in S
  <2> SUFFICES ASSUME i + 1 \in 0 .. N PROVE g[i + 1] = [k |-> mem, thread |-> NULL]
    OBVIOUS
  <2>1. g[i + 1] = SignalBody(g[i])
    BY <1>4, <1>5 DEF SignalAllRuns, IsSignalLoop
  <2>2. g[i] = [k |-> mem, thread |-> NULL]
    BY <1>4, <1>7
  <2> QED BY <2>1, <2>2 DEF SignalBody
<1> HIDE DEF S
<1>8. \A i \in Nat : i \in S
  BY <1>6, <1>7, SetInduction
<1>9. g[N].k = mem
  BY <1>4, <1>8 DEF S
<1>10. [mem EXCEPT !.chead[c] = NULL, !.ctail[c] = NULL] = mem
  <2>1. [mem.chead EXCEPT ![c] = NULL] = mem.chead /\ [mem.ctail EXCEPT ![c] = NULL] = mem.ctail
    BY <1>2 DEF Memory
  <2> QED BY <2>1 DEF Memory
<1> QED BY <1>3, <1>5, <1>9, <1>10 DEF SignalAllRuns

\* When the mutex of the sleepers is owned by somebody who is awake, signal_all
\* wakes all of them, and signal wakes the only one.
LEMMA SignalsWake ==
  ASSUME NEW mem \in Memory, NEW on, QueuesInv(mem, on),
         NEW c \in Conds, NEW m \in Mutexes, SleepSet(on, c) # {},
         \A t \in SleepSet(on, c) : mem.waiting_on[t] = m /\ mem.owner[m] # t,
         mem.owner[m] # NULL
  PROVE  /\ Woken(kcond_signal_all(mem, c), mem, on, c)
         /\ \A t \in Threads :
              SleepSet(on, c) = {t} => Woken(kcond_signal(mem, c, FALSE), mem, on, c)
<1>1. Woken(Spliced(mem, c, m), mem, on, c)
  BY SpliceEffect
<1>2. kcond_signal_all(mem, c) = Spliced(mem, c, m)
  BY SignalAllSplices
<1>3. ASSUME NEW t \in Threads, SleepSet(on, c) = {t}
      PROVE  kcond_signal(mem, c, FALSE) = Spliced(mem, c, m)
  <2>1. t \in SleepSet(on, c)
    BY <1>3
  <2>2. mem.waiting_on[t] = m /\ mem.owner[m] # t
    BY <2>1
  <2> QED BY <1>3, <2>2, SignalSplices
<1> QED BY <1>1, <1>2, <1>3
=============================================================================
