---------------------------- MODULE SignalProofs -----------------------------
(***************************************************************************)
(* Proofs about SignalSystem, for any ring of two slots or more, any       *)
(* signals and any number of user threads: what each trap does to the      *)
(* kernel's memory, arithmetic of the ring, then one lemma per action.     *)
(***************************************************************************)
EXTENDS SignalInvariant, KernelProofs

-----------------------------------------------------------------------------
(* Traps *)

\* Facts about the constants, in the form the proofs use.
LEMMA Names ==
  /\ NULL \notin All /\ Threads \subseteq All /\ Main \notin Threads /\ Main \in All
  /\ Processor \in Threads /\ Processor # NULL /\ Processor # Main
  /\ requests_mutex \in Mutexes /\ requests_mutex # NULL
  /\ requests_cond \in Conds /\ requests_cond # NULL
BY KernelAssumption, SignalSystemAssumption DEF All

\* Who sleeps depends on the state of the processor only.
LEMMA AsleepSame ==
  ASSUME NEW mem, NEW r,
         r.state[Processor] = "BLOCKED" <=> mem.state[Processor] = "BLOCKED"
  PROVE  Asleep(r) = Asleep(mem)
BY DEF Asleep

\* Nobody is in the queue of the mutex: the processor is the only one to lock it.
LEMMA NobodyWaits ==
  ASSUME NEW mem, InTrap(mem) PROVE WaitSet(mem, Asleep(mem), requests_mutex) = {}
BY Names DEF InTrap, WaitSet, Asleep

\* A dispatch blocks and unblocks nobody.
LEMMA DispatchKeeps ==
  ASSUME NEW mem, InTrap(mem)
  PROVE  LET r == kthread_dispatch(mem) IN
         /\ BetweenTraps(r)
         /\ r.owner = mem.owner
         /\ r.state[Processor] = "BLOCKED" <=> mem.state[Processor] = "BLOCKED"
<1> DEFINE r == kthread_dispatch(mem)
           R == ReadySet(mem) \union PutBack(mem)
           on == Asleep(mem)
<1>1. mem \in Memory /\ QueuesInv(mem, on)
  BY DEF InTrap
<1>2. Dispatched(r, mem, on, R)
  BY <1>1, DispatchEffect DEF InTrap
<1> HIDE DEF r
<1>3. \A t \in PutBack(mem) :
        t \in Threads \intersect mem.heap /\ t = mem.current /\ mem.state[t] # "BLOCKED"
  BY Names DEF PutBack, Requeues, InTrap
<1>4. \A t \in ReadySet(mem) : t \in Threads \intersect mem.heap /\ mem.state[t] # "BLOCKED"
  BY DEF ReadySet, InTrap
<1>5. /\ r.current \in (Threads \intersect mem.heap) \union {Main}
      /\ r.current \in Threads => mem.state[r.current] # "BLOCKED"
  BY Names, <1>2, <1>3, <1>4 DEF Dispatched
<1>6. \A t \in Threads :
        r.state[t] = IF t = r.current THEN "RUNNING"
                     ELSE IF t \in PutBack(mem) THEN "READY" ELSE mem.state[t]
  BY <1>2 DEF Dispatched
<1>7. \A t \in Threads : r.state[t] = "BLOCKED" <=> mem.state[t] = "BLOCKED"
  BY <1>3, <1>5, <1>6
<1>8. Asleep(r) = on
  BY <1>7, Names, AsleepSame
<1>9. /\ r \in Memory /\ QueuesInv(r, Asleep(r)) /\ r.heap = mem.heap
      /\ r.owner = mem.owner /\ r.lock_count = mem.lock_count
      /\ \A t \in Threads : mem.state[t] = "BLOCKED" => r.waiting_on[t] = mem.waiting_on[t]
  BY <1>2, <1>8 DEF Dispatched, SameMutexes
<1>10. r.state[r.current] = "RUNNING"
  BY <1>5, <1>6, <1>9 DEF QueuesInv
<1>11. \A t \in Threads \ mem.heap : r.state[t] = "CREATED"
  BY <1>3, <1>5, <1>6, Names DEF InTrap
<1>12. InTrap(r)
  BY <1>5, <1>7, <1>9, <1>10, <1>11, Names DEF InTrap
<1> QED BY <1>5, <1>7, <1>9, <1>10, <1>12, Names DEF BetweenTraps, r

\* kthread_stop leaves the current thread in no queue.
LEMMA StopKeeps ==
  ASSUME NEW mem, BetweenTraps(mem)
  PROVE  LET r == kthread_stop(mem) IN
         /\ BetweenTraps(r)
         /\ r.owner = mem.owner
         /\ r.state[Processor] = "BLOCKED" <=> mem.state[Processor] = "BLOCKED"
<1> DEFINE mem1 == [mem EXCEPT !.current = NULL]
<1>1. InTrap(mem) /\ mem \in Memory
  BY DEF BetweenTraps, InTrap
<1>2. /\ mem1 \in Memory /\ SameQueues(mem1, mem) /\ mem1.current = NULL
      /\ mem1.heap = mem.heap /\ mem1.owner = mem.owner /\ mem1.lock_count = mem.lock_count
  BY <1>1 DEF Memory, SameQueues
<1> HIDE DEF mem1
<1>3. mem1.state = mem.state /\ mem1.waiting_on = mem.waiting_on
  BY <1>2 DEF SameQueues
<1>4. Asleep(mem1) = Asleep(mem)
  BY <1>3, AsleepSame
<1>5. QueuesInv(mem1, Asleep(mem1))
  BY <1>1, <1>2, <1>4, QueuesFrame DEF InTrap
<1>6. InTrap(mem1)
  BY <1>1, <1>2, <1>3, <1>5 DEF InTrap
<1>7. kthread_stop(mem) = kthread_dispatch(mem1)
  BY DEF kthread_stop, mem1
<1> QED BY <1>2, <1>3, <1>6, <1>7, DispatchKeeps

\* A new thread joins the ready list.
LEMMA CreateKeeps ==
  ASSUME NEW mem, BetweenTraps(mem), NEW u \in Users \ mem.heap
  PROVE  LET r == kscheduler_enqueue(kthread_create(mem, u), u) IN
         /\ BetweenTraps(r)
         /\ r.owner = mem.owner
         /\ r.state[Processor] = mem.state[Processor]
<1> DEFINE r == kscheduler_enqueue(kthread_create(mem, u), u)
           on == Asleep(mem)
<1>1. InTrap(mem) /\ mem \in Memory /\ QueuesInv(mem, on)
      /\ u \in Threads /\ mem.state[u] = "CREATED" /\ u # Processor /\ u \in All
  BY Names DEF BetweenTraps, InTrap, Users
<1>2. Created(r, mem, on, u)
  BY <1>1, CreateEffect
<1> HIDE DEF r
<1>3. /\ \A t \in Threads : r.state[t] = IF t = u THEN "READY" ELSE mem.state[t]
      /\ r.state[Processor] = mem.state[Processor]
      /\ r.current = mem.current /\ r.state[r.current] = mem.state[r.current]
  BY <1>1, <1>2, Names DEF Created, Memory, BetweenTraps, InTrap
<1>4. Asleep(r) = on
  BY <1>3, AsleepSame
<1>5. mem.state[Processor] = "BLOCKED" => r.waiting_on[Processor] = requests_mutex
  <2>1. \A m \in Mutexes : BlockedOn(r, m) = BlockedOn(mem, m)
    BY <1>2 DEF Created, SameWaiters
  <2>2. mem.state[Processor] = "BLOCKED" => Processor \in BlockedOn(mem, requests_mutex)
    BY <1>1, Names DEF InTrap, BlockedOn
  <2> QED BY <2>1, <2>2, Names DEF BlockedOn
<1>6. /\ r \in Memory /\ QueuesInv(r, Asleep(r)) /\ r.heap = mem.heap \union {u}
      /\ r.owner = mem.owner /\ r.lock_count = mem.lock_count
  BY <1>2, <1>4 DEF Created
<1>7. InTrap(r)
  BY <1>1, <1>3, <1>5, <1>6 DEF InTrap
<1> QED BY <1>3, <1>6, <1>7 DEF BetweenTraps, r

\* The processor, asleep, is given the mutex and made ready (condition.c:43-60).
LEMMA WakeSleeper ==
  ASSUME NEW mem, BetweenTraps(mem), mem.state[Processor] = "BLOCKED"
  PROVE  /\ BetweenTraps(Wake(mem))
         /\ Wake(mem).state[Processor] = "READY"
         /\ Wake(mem).owner[requests_mutex] = Processor
<1> DEFINE r == Wake(mem)
           c == requests_cond
           m == requests_mutex
           R == ReadySet(mem)
           k1 == [mem EXCEPT !.chead[c] = NULL, !.ctail[c] = NULL]
           k2 == [k1 EXCEPT !.owner[m] = Processor, !.lock_count[m] = 1]
<1>1. /\ InTrap(mem) /\ mem \in Memory /\ QueuesInv(mem, Asleep(mem))
      /\ mem.owner[m] = NULL /\ mem.waiting_on[Processor] = m
      /\ Mutexes = {m} /\ Conds = {c}
  BY Names, SignalSystemAssumption DEF BetweenTraps, InTrap
<1>2. SleepSet(Asleep(mem), c) = {Processor}
  BY Names DEF SleepSet, Asleep
<1>3. mem.chead[c] = Processor /\ mem.ctail[c] = Processor /\ mem.next[Processor] = NULL
  <2>1. IsQueue(mem.next, mem.chead[c], mem.ctail[c], {Processor})
    BY <1>1, <1>2, Names DEF QueuesInv
  <2> QED BY <2>1, Names DEF IsQueue
<1>4. /\ k1.owner = mem.owner /\ k1.lock_count = mem.lock_count
      /\ k1.chead = [mem.chead EXCEPT ![c] = NULL]
      /\ k1.ctail = [mem.ctail EXCEPT ![c] = NULL]
      /\ k1 \in Memory
  <2>1. /\ k1.owner = mem.owner /\ k1.lock_count = mem.lock_count
        /\ k1.chead = [mem.chead EXCEPT ![c] = NULL]
        /\ k1.ctail = [mem.ctail EXCEPT ![c] = NULL]
    BY <1>1 DEF Memory
  <2>2. /\ [mem.chead EXCEPT ![c] = NULL] \in [Conds -> All \union {NULL}]
        /\ [mem.ctail EXCEPT ![c] = NULL] \in [Conds -> All \union {NULL}]
    BY <1>1 DEF Memory
  <2>3. k1 = [[mem EXCEPT !.chead = [mem.chead EXCEPT ![c] = NULL]]
                EXCEPT !.ctail = [mem.ctail EXCEPT ![c] = NULL]]
    BY <1>1 DEF Memory
  <2>4. \A v \in [Conds -> All \union {NULL}] : [mem EXCEPT !.chead = v] \in Memory
    BY <1>1 DEF Memory
  <2>5. \A x \in Memory, v \in [Conds -> All \union {NULL}] : [x EXCEPT !.ctail = v] \in Memory
    BY DEF Memory
  <2> QED BY <2>1, <2>2, <2>3, <2>4, <2>5
<1>5. r = kscheduler_enqueue(kmutex_lock(k1, m, Processor), Processor)
  BY <1>1, <1>3, Names DEF Wake, kcond_signal
<1>6. kmutex_lock(k1, m, Processor) = k2
  <2>1. k1.owner[m] = NULL
    BY <1>1, <1>4
  <2> HIDE DEF k1
  <2> QED BY <2>1, Names DEF kmutex_lock
<1>7. /\ k2.next = mem.next /\ k2.state = mem.state /\ k2.waiting_on = mem.waiting_on
      /\ k2.head = mem.head /\ k2.tail = mem.tail /\ k2.current = mem.current
      /\ k2.mhead = mem.mhead /\ k2.mtail = mem.mtail /\ k2.heap = mem.heap
      /\ k2.chead[c] = NULL /\ k2.ctail[c] = NULL
      /\ k2.owner[m] = Processor /\ k2.lock_count[m] = 1
  BY <1>1 DEF Memory
<1>8. k2 \in Memory
  <2>1. 1 \in 0 .. CountMod - 1 /\ Processor \in All
    BY KernelAssumption, Names
  <2>2. /\ [k1.owner EXCEPT ![m] = Processor] \in [Mutexes -> All \union {NULL}]
        /\ [k1.lock_count EXCEPT ![m] = 1] \in [Mutexes -> 0 .. CountMod - 1]
    BY <1>4, <2>1 DEF Memory
  <2> HIDE DEF k1
  <2> QED BY <1>4, <2>2 DEF Memory
<1> HIDE DEF k1, k2, r
<1>9. R \in SUBSET (Threads \ {Processor}) /\ IsQueue(k2.next, k2.head, k2.tail, R)
  BY <1>1, <1>7 DEF ReadySet, QueuesInv
<1>10. Enqueued(r, k2, Processor, R)
  BY <1>5, <1>6, <1>8, <1>9, Names, EnqueueEffect
<1>11. /\ r \in Memory
       /\ \A t \in All : r.state[t] = IF t = Processor THEN "READY" ELSE mem.state[t]
       /\ r.current = mem.current /\ r.heap = mem.heap
       /\ r.mhead = mem.mhead /\ r.mtail = mem.mtail
       /\ r.chead[c] = NULL /\ r.ctail[c] = NULL
       /\ r.owner[m] = Processor /\ r.lock_count[m] = 1
       /\ IsQueue(r.next, r.head, r.tail, R \union {Processor})
       /\ \A u \in All : u \notin R \union {Processor} => r.next[u] = mem.next[u]
  BY <1>1, <1>7, <1>10 DEF Enqueued, SameMutexes, Memory
<1>12. \A t \in Threads : Asleep(r)[t] = NULL /\ r.state[t] # "BLOCKED"
  BY <1>1, <1>11, Names DEF Asleep, InTrap
<1>13. QueuesInv(r, Asleep(r))
  <2>1. Asleep(r) \in Placements
    BY Names DEF Asleep, Placements
  <2>2. ReadySet(r) = R \union {Processor}
    BY <1>11, Names DEF ReadySet
  <2>3. IsQueue(r.next, r.mhead[m], r.mtail[m], WaitSet(r, Asleep(r), m))
    <3>1. IsQueue(mem.next, mem.mhead[m], mem.mtail[m], {})
      BY <1>1, NobodyWaits, Names DEF QueuesInv
    <3>2. WaitSet(r, Asleep(r), m) = {}
      BY <1>12 DEF WaitSet
    <3>3. IsQueue(r.next, mem.mhead[m], mem.mtail[m], {})
      BY <3>1 DEF IsQueue
    <3> QED BY <1>11, <3>2, <3>3
  <2>4. IsQueue(r.next, r.chead[c], r.ctail[c], SleepSet(Asleep(r), c))
    <3>1. SleepSet(Asleep(r), c) = {}
      BY <1>12, Names DEF SleepSet
    <3> QED BY <1>11, <3>1 DEF IsQueue
  <2>5. \A t \in Threads : r.state[t] \in {"CREATED", "RUNNING"} => r.next[t] = NULL
    BY <1>1, <1>11, Names DEF QueuesInv, ReadySet
  <2>6. r.state[Main] = "RUNNING"
    BY <1>1, <1>11, Names DEF QueuesInv
  <2> QED BY <1>1, <1>11, <1>12, <2>1, <2>2, <2>3, <2>4, <2>5, <2>6 DEF QueuesInv
<1>14. r.current # NULL /\ r.current # Processor /\ r.state[r.current] = "RUNNING"
       /\ r.current \in (Threads \intersect mem.heap) \union {Main}
  BY <1>1, <1>11, Names DEF BetweenTraps, InTrap
<1>15. InTrap(r)
  BY <1>1, <1>11, <1>12, <1>13, <1>14, Names DEF InTrap
<1> QED BY <1>11, <1>14, <1>15, Names DEF BetweenTraps, r

\* Whoever sends leaves the processor awake, with the mutex if it was asleep.
LEMMA WakeKeeps ==
  ASSUME NEW mem, BetweenTraps(mem)
  PROVE  /\ BetweenTraps(Wake(mem))
         /\ Wake(mem).state[Processor] # "BLOCKED"
         /\ Wake(mem).owner[requests_mutex]
              = IF mem.state[Processor] = "BLOCKED" THEN Processor
                ELSE mem.owner[requests_mutex]
<1>1. CASE mem.state[Processor] = "BLOCKED"
  BY <1>1, WakeSleeper
<1>2. CASE mem.state[Processor] # "BLOCKED"
  <2>1. SleepSet(Asleep(mem), requests_cond) = {}
    BY <1>2, Names DEF SleepSet, Asleep
  <2>2. mem.chead[requests_cond] = NULL
    BY <2>1, Names DEF BetweenTraps, InTrap, QueuesInv, IsQueue
  <2>3. Wake(mem) = mem
    BY <2>2 DEF Wake, kcond_signal
  <2> QED BY <1>2, <2>3
<1> QED BY <1>1, <1>2

\* The processor gets the mutex at once: nobody else ever locks it.
LEMMA LockKeeps ==
  ASSUME NEW mem, BetweenTraps(mem), mem.current = Processor,
         mem.owner[requests_mutex] = NULL
  PROVE  LET r == kmutex_lock(mem, requests_mutex, Processor) IN
         /\ BetweenTraps(r)
         /\ r.owner[requests_mutex] = Processor
         /\ r.state = mem.state
<1> DEFINE m == requests_mutex
           r == [mem EXCEPT !.owner[m] = Processor, !.lock_count[m] = 1]
<1>1. kmutex_lock(mem, m, Processor) = r
  BY Names DEF kmutex_lock
<1>2. InTrap(mem) /\ mem \in Memory /\ mem.state[Processor] = "RUNNING"
  BY DEF BetweenTraps, InTrap
<1>3. /\ SameQueues(r, mem) /\ r.current = mem.current /\ r.heap = mem.heap
      /\ r.owner[m] = Processor /\ r.lock_count[m] = 1
  BY <1>2, Names DEF Memory, SameQueues
<1>4. r \in Memory
  <2>1. 1 \in 0 .. CountMod - 1 /\ Processor \in All
    BY KernelAssumption, Names
  <2> QED BY <1>2, <2>1 DEF Memory
<1> HIDE DEF r
<1>5. r.state = mem.state /\ r.waiting_on = mem.waiting_on
  BY <1>3 DEF SameQueues
<1>6. QueuesInv(r, Asleep(r))
  <2>1. Asleep(r) = Asleep(mem)
    BY <1>5, AsleepSame
  <2> QED BY <1>2, <1>3, <2>1, QueuesFrame DEF InTrap
<1>7. InTrap(r)
  BY <1>2, <1>3, <1>4, <1>5, <1>6 DEF InTrap
<1> QED BY <1>1, <1>3, <1>5, <1>7 DEF BetweenTraps

\* The processor gives the mutex up; nobody waits for it.
LEMMA UnlockKeeps ==
  ASSUME NEW mem, BetweenTraps(mem), mem.current = Processor,
         mem.owner[requests_mutex] = Processor
  PROVE  LET r == kmutex_unlock(mem, requests_mutex, Processor) IN
         /\ BetweenTraps(r)
         /\ r.owner[requests_mutex] = NULL
         /\ r.state = mem.state
<1> DEFINE m == requests_mutex
           count == (mem.lock_count[m] - 1) % CountMod
           r == [mem EXCEPT !.lock_count[m] = count, !.owner[m] = NULL]
<1>1. InTrap(mem) /\ mem \in Memory /\ mem.state[Processor] = "RUNNING"
      /\ mem.lock_count[m] = 1
  BY DEF BetweenTraps, InTrap
<1>2. count = 0
  BY <1>1, KernelAssumption
<1>3. mem.mhead[m] = NULL
  BY <1>1, NobodyWaits, Names DEF InTrap, QueuesInv, IsQueue
<1>4. kmutex_unlock(mem, m, Processor) = r
  BY <1>2, <1>3 DEF kmutex_unlock
<1> HIDE DEF count
<1>5. /\ SameQueues(r, mem) /\ r.current = mem.current /\ r.heap = mem.heap
      /\ r.owner[m] = NULL
  BY <1>1, Names DEF Memory, SameQueues
<1>6. r \in Memory
  <2>1. count \in 0 .. CountMod - 1
    BY <1>2, KernelAssumption
  <2> QED BY <1>1, <2>1, Names DEF Memory
<1> HIDE DEF r
<1>7. r.state = mem.state /\ r.waiting_on = mem.waiting_on
  BY <1>5 DEF SameQueues
<1>8. QueuesInv(r, Asleep(r))
  <2>1. Asleep(r) = Asleep(mem)
    BY <1>7, AsleepSame
  <2> QED BY <1>1, <1>5, <2>1, QueuesFrame DEF InTrap
<1>9. InTrap(r)
  BY <1>1, <1>5, <1>6, <1>7, <1>8, Names DEF InTrap
<1> QED BY <1>1, <1>4, <1>5, <1>7, <1>9 DEF BetweenTraps

\* The processor falls asleep, and the mutex is free.
LEMMA WaitKeeps ==
  ASSUME NEW mem, BetweenTraps(mem), mem.current = Processor,
         mem.owner[requests_mutex] = Processor
  PROVE  LET r == kcond_wait(mem, requests_cond, requests_mutex, Processor) IN
         /\ r.state[Processor] = "BLOCKED"
         /\ InTrap(r)
         /\ r.owner[requests_mutex] = NULL
<1> DEFINE c == requests_cond
           m == requests_mutex
           r == kcond_wait(mem, c, m, Processor)
           on == Asleep(mem)
<1>1. /\ InTrap(mem) /\ mem \in Memory /\ QueuesInv(mem, on)
      /\ mem.state[Processor] = "RUNNING" /\ mem.lock_count[m] = 1
  BY DEF BetweenTraps, InTrap
<1>2. \A t \in Threads : mem.state[t] # "BLOCKED" /\ on[t] = NULL
  BY <1>1 DEF InTrap, Asleep
<1>3. \A u \in SleepSet(on, c) : mem.waiting_on[u] = m
  BY <1>2, Names DEF SleepSet
<1>4. PICK W : GaveUp(r, mem, on, c, m, Processor, W)
  BY <1>1, <1>3, Names, WaitEffect
<1>5. W = {}
  BY <1>1, <1>4, NobodyWaits DEF GaveUp
<1> HIDE DEF r
<1>6. \A t \in Threads : r.state[t] = IF t = Processor THEN "BLOCKED" ELSE mem.state[t]
  BY <1>4, <1>5 DEF GaveUp
<1>7. Asleep(r) = [on EXCEPT ![Processor] = c]
  <2>1. \A t \in Threads : Asleep(r)[t] = [on EXCEPT ![Processor] = c][t]
    BY <1>2, <1>6, Names DEF Asleep
  <2> QED BY <2>1 DEF Asleep
<1>8. /\ r \in Memory /\ QueuesInv(r, Asleep(r))
      /\ r.current = mem.current /\ r.heap = mem.heap /\ r.owner[m] = NULL
  BY <1>1, <1>4, <1>5, <1>7, Names DEF GaveUp, Memory
<1>9. r.waiting_on[Processor] = m
  <2>1. Processor \in BlockedOn(r, m)
    BY <1>4 DEF GaveUp
  <2> QED BY <2>1 DEF BlockedOn
<1>10. InTrap(r)
  BY <1>1, <1>2, <1>6, <1>8, <1>9, Names DEF InTrap
<1> QED BY <1>6, <1>8, <1>10, Names DEF r

-----------------------------------------------------------------------------
(* The ring *)

\* An index that has left the ring by less than its length comes back into it.
LEMMA Wrap ==
  ASSUME NEW x \in Int
  PROVE  /\ 0 <= x /\ x < RingSize => x % RingSize = x
         /\ RingSize <= x /\ x < 2 * RingSize => x % RingSize = x - RingSize
         /\ -RingSize <= x /\ x < 0 => x % RingSize = x + RingSize
<1>1. RingSize \in Nat /\ RingSize > 1
  BY SignalSystemAssumption
<1>2. /\ x % RingSize \in 0 .. RingSize - 1
      /\ x = RingSize * (x \div RingSize) + (x % RingSize)
      /\ x \div RingSize \in Int
  BY <1>1
<1>3. ASSUME NEW q \in Int, NEW r \in 0 .. RingSize - 1, x = RingSize * q + r
      PROVE  /\ 0 <= x /\ x < RingSize => q = 0
             /\ RingSize <= x /\ x < 2 * RingSize => q = 1
             /\ -RingSize <= x /\ x < 0 => q = -1
  <2>1. q >= 2 => RingSize * q >= 2 * RingSize
    BY <1>1
  <2>2. q <= -2 => RingSize * q <= -2 * RingSize
    BY <1>1
  <2>3. /\ q = 0 => RingSize * q = 0
        /\ q = 1 => RingSize * q = RingSize
        /\ q = -1 => RingSize * q = -RingSize
    BY <1>1
  <2> QED BY <1>1, <1>3, <2>1, <2>2, <2>3
<1> QED BY <1>1, <1>2, <1>3

\* The index of the i-th slot from h, and where the tail is.
LEMMA SlotIs ==
  ASSUME NEW h \in Slots, NEW i \in 1 .. RingSize
  PROVE  /\ (h + i - 1) % RingSize
              = IF h + i - 1 < RingSize THEN h + i - 1 ELSE h + i - 1 - RingSize
         /\ (h + i - 1) % RingSize \in Slots
<1>1. RingSize \in Nat /\ RingSize > 1
  BY SignalSystemAssumption
<1>2. h + i - 1 \in Int /\ 0 <= h + i - 1 /\ h + i - 1 < 2 * RingSize
  BY <1>1 DEF Slots
<1> QED BY <1>1, <1>2, Wrap DEF Slots

LEMMA NextSlot ==
  ASSUME NEW h \in Slots
  PROVE  (h + 1) % RingSize = IF h + 1 = RingSize THEN 0 ELSE h + 1
<1>1. RingSize \in Nat /\ RingSize > 1
  BY SignalSystemAssumption
<1> QED BY <1>1, Wrap DEF Slots

LEMMA Distance ==
  ASSUME NEW h \in Slots, NEW t \in Slots
  PROVE  (t - h) % RingSize = IF h <= t THEN t - h ELSE t - h + RingSize
<1>1. RingSize \in Nat /\ RingSize > 1
  BY SignalSystemAssumption
<1>2. t - h \in Int /\ -RingSize <= t - h /\ t - h < RingSize
  BY <1>1 DEF Slots
<1> QED BY <1>1, <1>2, Wrap DEF Slots

RingType ==
  /\ requests \in [Slots -> Signals] /\ head \in Slots /\ tail \in Slots
  /\ pending \in Seq(Signals)

\* How far the tail is from the head: a full ring looks empty.
LEMMA HowFull ==
  ASSUME RingType, RingHoldsPending
  PROVE  /\ RingSize \in Nat /\ RingSize > 1
         /\ Len(pending) \in Nat /\ Len(pending) <= RingSize
         /\ Len(pending) < RingSize =>
              Len(pending) = IF head <= tail THEN tail - head ELSE tail - head + RingSize
         /\ Len(pending) = RingSize => tail = head
         /\ head # tail => pending # <<>>
<1> DEFINE L == Len(pending)
           N == RingSize
<1>1. N \in Nat /\ N > 1 /\ L \in Nat /\ L <= N /\ L % N = (tail - head) % N
  BY SignalSystemAssumption DEF RingType, RingHoldsPending
<1>2. (tail - head) % N = IF head <= tail THEN tail - head ELSE tail - head + N
  BY Distance DEF RingType
<1>3. (L < N => L % N = L) /\ (L = N => L % N = 0)
  BY <1>1, Wrap
<1>4. head \in 0..(N - 1) /\ tail \in 0..(N - 1)
  BY DEF RingType, Slots
<1>5. pending = <<>> => L = 0
  OBVIOUS
<1> HIDE DEF L, N
<1>6. /\ L < N => L = IF head <= tail THEN tail - head ELSE tail - head + N
      /\ L = N => tail = head
      /\ head # tail => L # 0
  BY <1>1, <1>2, <1>3, <1>4
<1> QED BY <1>1, <1>5, <1>6 DEF L, N

\* And back: a length that is the distance, or a full ring.
LEMMA FullOrNot ==
  ASSUME NEW h \in Slots, NEW t \in Slots, NEW n \in 0..RingSize,
         \/ n < RingSize /\ n = IF h <= t THEN t - h ELSE t - h + RingSize
         \/ n = RingSize /\ h = t
  PROVE  n % RingSize = (t - h) % RingSize
<1>1. RingSize \in Nat /\ RingSize > 1
  BY SignalSystemAssumption
<1>2. (t - h) % RingSize = IF h <= t THEN t - h ELSE t - h + RingSize
  BY Distance
<1>3. (n < RingSize => n % RingSize = n) /\ (n = RingSize => n % RingSize = 0)
  BY <1>1, Wrap
<1> QED BY <1>1, <1>2, <1>3 DEF Slots

\* A signal that finds the ring not full goes behind those already in it.
LEMMA PutBehind ==
  ASSUME RingType, RingHoldsPending, ~Full, NEW s \in Signals, ksignal_send(s)
  PROVE  RingType' /\ RingHoldsPending' /\ pending' # <<>>
<1> DEFINE L == Len(pending)
           N == RingSize
<1>1. N \in Nat /\ N > 1 /\ L \in Nat /\ L < N
  BY HowFull DEF Full
<1>2. /\ head \in Slots /\ tail \in Slots /\ head' = head
      /\ requests' = [requests EXCEPT ![tail] = s]
      /\ tail' = (tail + 1) % N /\ pending' = Append(pending, s)
  BY DEF RingType, ksignal_send, Put
<1>3. /\ pending' \in Seq(Signals) /\ Len(pending') = L + 1
      /\ pending'[L + 1] = s /\ \A i \in 1 .. L : pending'[i] = pending[i]
  BY <1>2 DEF RingType
<1>4. tail' = (IF tail + 1 = N THEN 0 ELSE tail + 1) /\ tail' \in Slots
  BY <1>1, <1>2, NextSlot DEF Slots
<1>5. L = IF head <= tail THEN tail - head ELSE tail - head + N
  BY <1>1, HowFull
<1>6. (L + 1) % N = (tail' - head') % N
  <2> HIDE DEF L
  <2>1. \/ L + 1 < N /\ L + 1 = IF head' <= tail' THEN tail' - head' ELSE tail' - head' + N
        \/ L + 1 = N /\ head' = tail'
    BY <1>1, <1>2, <1>4, <1>5 DEF Slots
  <2>2. L + 1 \in 0..N /\ head' \in Slots
    BY <1>1, <1>2
  <2> QED BY <1>4, <2>1, <2>2, FullOrNot
<1>7. ASSUME NEW i \in 1 .. L + 1
      PROVE  requests'[(head' + i - 1) % N] = pending'[i]
  <2> DEFINE j == (head + i - 1) % N
  <2>1. i \in 1 .. N
    BY <1>1
  <2>2. j = (IF head + i - 1 < N THEN head + i - 1 ELSE head + i - 1 - N) /\ j \in Slots
    BY <1>2, <2>1, SlotIs
  <2>3. CASE i = L + 1
    <3>1. j = tail
      <4> HIDE DEF L, j
      <4> QED BY <1>1, <1>2, <1>5, <2>2, <2>3 DEF Slots
    <3>2. requests'[tail] = s
      BY <1>2 DEF RingType
    <3> QED BY <1>2, <1>3, <2>3, <3>1, <3>2
  <2>4. CASE i \in 1 .. L
    <3>1. j # tail
      <4> HIDE DEF L, j
      <4> QED BY <1>1, <1>2, <1>5, <2>2, <2>4 DEF Slots
    <3>2. requests[j] = pending[i]
      BY <2>4 DEF RingHoldsPending
    <3>3. requests'[j] = requests[j]
      BY <1>2, <2>2, <3>1 DEF RingType
    <3> QED BY <1>2, <1>3, <2>4, <3>2, <3>3
  <2> QED BY <1>1, <2>3, <2>4
<1>8. RingType' /\ pending' # <<>>
  BY <1>2, <1>3, <1>4 DEF RingType
<1>9. Len(pending') <= N
  BY <1>1, <1>3
<1> QED BY <1>3, <1>6, <1>7, <1>8, <1>9 DEF RingHoldsPending

\* Sent to a full ring, a signal is alone in it.
LEMMA PutOver ==
  ASSUME RingType, RingHoldsPending, Full, NEW s \in Signals, ksignal_send(s)
  PROVE  RingType' /\ RingHoldsPending' /\ pending' # <<>>
<1> DEFINE N == RingSize
<1>1. N \in Nat /\ N > 1 /\ tail = head
  BY HowFull DEF Full
<1>2. /\ head \in Slots /\ head' = head /\ tail' = (head + 1) % N
      /\ requests' = [requests EXCEPT ![head] = s] /\ pending' = <<s>>
  BY <1>1 DEF RingType, ksignal_send, Put
<1>3. tail' = (IF head + 1 = N THEN 0 ELSE head + 1) /\ tail' \in Slots
  BY <1>1, <1>2, NextSlot DEF Slots
<1>4. /\ pending' \in Seq(Signals) /\ Len(pending') = 1 /\ pending'[1] = s
      /\ pending' # <<>>
  BY <1>2
<1>5. 1 % N = (tail' - head') % N
  <2>1. 1 \in 0..N /\ 1 < N /\ head' \in Slots
    BY <1>1, <1>2
  <2>2. 1 = IF head' <= tail' THEN tail' - head' ELSE tail' - head' + N
    BY <1>1, <1>2, <1>3 DEF Slots
  <2> QED BY <1>3, <2>1, <2>2, FullOrNot
<1>6. requests'[(head' + 1 - 1) % N] = pending'[1]
  <2>1. 1 \in 1..N /\ head + 1 - 1 = head /\ head < N
    BY <1>1, <1>2 DEF Slots
  <2>2. (head + 1 - 1) % N = head
    BY <1>2, <2>1, SlotIs
  <2>3. requests'[head] = s
    BY <1>2 DEF RingType
  <2> QED BY <1>2, <1>4, <2>2, <2>3
<1>7. RingType'
  BY <1>2, <1>3, <1>4 DEF RingType
<1> QED BY <1>1, <1>4, <1>5, <1>6, <1>7 DEF RingHoldsPending

LEMMA PutKeeps ==
  ASSUME RingType, RingHoldsPending, NEW s \in Signals, ksignal_send(s)
  PROVE  RingType' /\ RingHoldsPending' /\ pending' # <<>>
BY PutBehind, PutOver

\* The oldest signal is taken out, even of a full ring.
LEMMA AdvanceKeeps ==
  ASSUME RingType, RingHoldsPending, pending # <<>>, advance
  PROVE  RingType' /\ RingHoldsPending'
<1> DEFINE L == Len(pending)
           N == RingSize
<1>1. N \in Nat /\ N > 1 /\ L \in Nat /\ L <= N /\ L >= 1
  BY HowFull DEF RingType
<1>2. /\ head \in Slots /\ tail \in Slots /\ tail' = tail /\ requests' = requests
      /\ head' = (head + 1) % N /\ pending' = Tail(pending)
  BY DEF RingType, advance
<1>3. /\ pending' \in Seq(Signals) /\ Len(pending') = L - 1
      /\ \A i \in 1 .. L - 1 : pending'[i] = pending[i + 1]
  BY <1>2 DEF RingType
<1>4. head' = (IF head + 1 = N THEN 0 ELSE head + 1) /\ head' \in Slots
  BY <1>1, <1>2, NextSlot DEF Slots
<1>5. /\ L < N => L = IF head <= tail THEN tail - head ELSE tail - head + N
      /\ L = N => tail = head
  BY HowFull
<1>6. (L - 1) % N = (tail' - head') % N
  <2> HIDE DEF L
  <2>1. L - 1 < N /\ L - 1 = IF head' <= tail' THEN tail' - head' ELSE tail' - head' + N
    BY <1>1, <1>2, <1>4, <1>5 DEF Slots
  <2>2. L - 1 \in 0..N /\ tail' \in Slots
    BY <1>1, <1>2
  <2> QED BY <1>4, <2>1, <2>2, FullOrNot
<1>7. ASSUME NEW i \in 1 .. L - 1
      PROVE  requests'[(head' + i - 1) % N] = pending'[i]
  <2> DEFINE j == (head' + i - 1) % N
             n == (head + (i + 1) - 1) % N
  <2>1. i \in 1 .. N /\ i + 1 \in 1 .. N /\ i + 1 \in 1 .. L
    BY <1>1
  <2>2. j = IF head' + i - 1 < N THEN head' + i - 1 ELSE head' + i - 1 - N
    BY <1>4, <2>1, SlotIs
  <2>3. n = IF head + (i + 1) - 1 < N THEN head + (i + 1) - 1 ELSE head + (i + 1) - 1 - N
    BY <1>2, <2>1, SlotIs
  <2>4. requests[n] = pending[i + 1]
    BY <2>1 DEF RingHoldsPending
  <2> HIDE DEF j, n, L
  <2>5. j = n
    BY <1>1, <1>2, <1>4, <2>1, <2>2, <2>3 DEF Slots
  <2> QED BY <1>2, <1>3, <2>4, <2>5 DEF j, L
<1>8. RingType'
  BY <1>2, <1>3, <1>4 DEF RingType
<1>9. Len(pending') <= N
  BY <1>1, <1>3
<1> QED BY <1>3, <1>6, <1>7, <1>8, <1>9 DEF RingHoldsPending

-----------------------------------------------------------------------------
(* One lemma per action *)

\* ksignal_init and init have made the processor and a user thread ready.
LEMMA InitEstablishes == Init => SInv
<1> SUFFICES ASSUME Init PROVE SInv
  OBVIOUS
<1> PICK u \in Users :
           k = kscheduler_enqueue(kthread_create(kscheduler_enqueue(kthread_create(
                 Reset, Processor), Processor), u), u)
  BY DEF Init
<1> DEFINE k1 == kscheduler_enqueue(kthread_create(Reset, Processor), Processor)
<1>1. Reset \in Memory
  <2>1. 0 \in 0 .. CountMod - 1
    BY KernelAssumption
  <2> QED BY <2>1, Names DEF Reset, Memory, States
<1>2. /\ \A t \in All : Reset.state[t] = IF t = Main THEN "RUNNING" ELSE "CREATED"
      /\ Reset.current = Main /\ Reset.heap = {} /\ Reset.owner[requests_mutex] = NULL
      /\ QueuesInv(Reset, NobodySleeps)
  BY Names, ResetQueues DEF Reset
<1>3. Created(k1, Reset, NobodySleeps, Processor)
  BY <1>1, <1>2, Names, CreateEffect
<1>4. k1.heap = {Processor}
  BY <1>2, <1>3 DEF Created
<1> HIDE DEF k1
<1>5. /\ \A t \in All : k1.state[t] = IF t = Processor THEN "READY" ELSE Reset.state[t]
      /\ k1.current = Main /\ k1.owner[requests_mutex] = NULL
      /\ k1 \in Memory /\ QueuesInv(k1, NobodySleeps)
  BY <1>1, <1>2, <1>3, Names DEF Created, Memory
<1>6. Asleep(k1) = NobodySleeps
  BY <1>5, Names DEF Asleep, NobodySleeps
<1>7. \A t \in Threads : k1.state[t] = IF t = Processor THEN "READY" ELSE "CREATED"
  BY <1>2, <1>5, Names
<1>8. k1.state[Main] = "RUNNING"
  BY <1>2, <1>5, Names
<1>9. BetweenTraps(k1)
  BY <1>4, <1>5, <1>6, <1>7, <1>8, Names DEF BetweenTraps, InTrap
<1>10. u \in Users \ k1.heap
  BY <1>4 DEF Users
<1>11. /\ BetweenTraps(k) /\ k.owner = k1.owner /\ k.state[Processor] = k1.state[Processor]
  BY <1>9, <1>10, CreateKeeps DEF k1
<1>12. k.owner[requests_mutex] = NULL /\ k.state[Processor] = "READY"
  BY <1>5, <1>7, <1>11, Names
<1>13. ProgramInv /\ WakesWithMutex
  BY <1>12, Names DEF ProgramInv, WakesWithMutex, Init
<1>14. head = 0 /\ tail = 0 /\ pending = <<>> /\ 0 \in Slots /\ RingSize \in Nat /\ RingSize > 1
  BY SignalSystemAssumption DEF Init, Slots
<1>15. RingHoldsPending
  <2>1. Len(pending) = 0 /\ (tail - head) % RingSize = 0 /\ 0 % RingSize = 0
    BY <1>14, Distance, Wrap
  <2> QED BY <1>14, <2>1 DEF RingHoldsPending
<1>16. TypeOK
  <2>1. k \in Memory
    BY <1>11 DEF BetweenTraps, InTrap
  <2>2. handlers \in [Signals -> {"illegal_action", "user", NULL}]
    BY DEF Init
  <2>3. requests \in [Slots -> Signals]
    BY DEF Init
  <2> QED BY <1>14, <2>1, <2>2, <2>3 DEF TypeOK, Init
<1> QED BY <1>11, <1>13, <1>15, <1>16 DEF SInv, SignalInv

\* A sender, whichever trap it is in, leaves the processor awake.
LEMMA SendKeeps ==
  ASSUME SInv, NEW s \in Signals, ksignal_send(s), pc' = pc,
         BetweenTraps(k'), k'.state[Processor] # "BLOCKED",
         k'.owner[requests_mutex]
           = IF k.state[Processor] = "BLOCKED" THEN Processor ELSE k.owner[requests_mutex]
  PROVE  SInv'
<1>1. RingType /\ RingHoldsPending
  BY DEF SInv, SignalInv, TypeOK, RingType
<1>2. RingType' /\ RingHoldsPending' /\ pending' # <<>>
  BY <1>1, PutKeeps
<1>3. TypeOK'
  BY <1>2 DEF SInv, SignalInv, TypeOK, RingType, ksignal_send, BetweenTraps, InTrap
<1>4. WakesWithMutex'
  BY Names DEF SInv, SignalInv, WakesWithMutex, ProgramInv
<1>5. ProgramInv'
  BY <1>2 DEF ProgramInv
<1> QED BY <1>2, <1>3, <1>4, <1>5 DEF SInv, SignalInv

\* What raise, a fault and an external interrupt leave of the kernel's memory.
LEMMA SendersSend ==
  ASSUME SInv, syscall_sig_raise \/ fault \/ handle_ext_intr
  PROVE  /\ \E s \in Signals : ksignal_send(s)
         /\ pc' = pc
         /\ BetweenTraps(k') /\ k'.state[Processor] # "BLOCKED"
         /\ k'.owner[requests_mutex]
              = IF k.state[Processor] = "BLOCKED" THEN Processor
                ELSE k.owner[requests_mutex]
<1>1. BetweenTraps(k)
  BY DEF SInv
<1>2. /\ BetweenTraps(Wake(k))
      /\ Wake(k).state[Processor] # "BLOCKED"
      /\ Wake(k).owner[requests_mutex]
           = IF k.state[Processor] = "BLOCKED" THEN Processor ELSE k.owner[requests_mutex]
  BY <1>1, WakeKeeps
<1>3. CASE syscall_sig_raise
  BY <1>2, <1>3 DEF syscall_sig_raise
<1>4. CASE handle_ext_intr
  BY <1>2, <1>4, SignalSystemAssumption DEF handle_ext_intr
<1>5. CASE fault
  <2>1. /\ BetweenTraps(kthread_stop(Wake(k)))
        /\ kthread_stop(Wake(k)).owner = Wake(k).owner
        /\ kthread_stop(Wake(k)).state[Processor] # "BLOCKED"
    BY <1>2, StopKeeps
  <2>2. (\E s \in Signals : ksignal_send(s)) /\ pc' = pc /\ k' = kthread_stop(Wake(k))
    BY <1>5, SignalSystemAssumption DEF fault
  <2> QED BY <1>2, <2>1, <2>2
<1> QED BY <1>3, <1>4, <1>5

\* Traps that neither send nor belong to the processor's program.
LEMMA OthersKeep ==
  ASSUME SInv, UNCHANGED <<requests, head, tail, pc, sig, pending>>,
         handlers' \in [Signals -> {"illegal_action", "user", NULL}],
         BetweenTraps(k'), k'.owner = k.owner,
         k'.state[Processor] = "BLOCKED" <=> k.state[Processor] = "BLOCKED"
  PROVE  SInv'
<1>1. TypeOK' /\ RingHoldsPending'
  BY DEF SInv, SignalInv, TypeOK, RingHoldsPending, BetweenTraps, InTrap
<1>2. WakesWithMutex' /\ ProgramInv'
  BY DEF SInv, SignalInv, WakesWithMutex, ProgramInv
<1> QED BY <1>1, <1>2 DEF SInv, SignalInv

\* A step of the processor's program that leaves the ring alone.
LEMMA ProgramKeeps ==
  ASSUME SInv, UNCHANGED <<requests, head, tail, handlers, pending>>, sig' \in Signals,
         pc' \in {"lock", "test", "wait", "take", "advance", "unlock", "fetch", "handler"},
         BetweenTraps(k'), ProgramInv', WakesWithMutex'
  PROVE  SInv'
BY DEF SInv, SignalInv, TypeOK, RingHoldsPending, BetweenTraps, InTrap

\* The processor's program: lock; while empty wait; take; advance; unlock; call.
LEMMA ProcessorKeeps ==
  ASSUME SInv, signal_processor PROVE SInv'
<1>1. /\ BetweenTraps(k) /\ WakesWithMutex /\ ProgramInv /\ sig \in Signals
      /\ RingType /\ RingHoldsPending
  BY DEF SInv, SignalInv, TypeOK, RingType
<1>2. k.current = Processor /\ k.state[Processor] = "RUNNING"
  BY <1>1 DEF signal_processor, lock, test, wait, take, advance, unlock, fetch, return, At,
     BetweenTraps
<1>3. CASE lock
  <2> DEFINE r == kmutex_lock(k, requests_mutex, Processor)
  <2>1. k.owner[requests_mutex] = NULL /\ pc' = "test"
    BY <1>1, <1>3 DEF lock, At, WakesWithMutex
  <2>2. BetweenTraps(r) /\ r.owner[requests_mutex] = Processor /\ r.state = k.state
    BY <1>1, <1>2, <2>1, LockKeeps
  <2> HIDE DEF r
  <2>3. k' = r
    BY <1>2, <1>3, <2>2 DEF lock, Call, r
  <2>4. ProgramInv' /\ WakesWithMutex'
    BY <1>2, <2>1, <2>2, <2>3, Names DEF ProgramInv, WakesWithMutex
  <2> QED BY <1>1, <1>3, <2>1, <2>2, <2>3, <2>4, ProgramKeeps DEF lock, ring
<1>4. CASE test
  <2>1. k.owner[requests_mutex] = Processor /\ pc' \in {"wait", "take"} /\ k' = k
    BY <1>1, <1>2, <1>4 DEF test, At, WakesWithMutex
  <2>2. pc' = "take" => pending # <<>>
    <3>1. pc' = "take" => head # tail
      BY <1>4 DEF test
    <3>2. head # tail => pending # <<>>
      BY <1>1, HowFull
    <3> QED BY <3>1, <3>2
  <2>3. ProgramInv' /\ WakesWithMutex'
    BY <1>2, <1>4, <2>1, <2>2, Names DEF ProgramInv, WakesWithMutex, test
  <2> QED BY <1>1, <1>4, <2>1, <2>3, ProgramKeeps DEF test, ring
<1>5. CASE wait
  <2> DEFINE r == kcond_wait(k, requests_cond, requests_mutex, Processor)
  <2>1. k.owner[requests_mutex] = Processor /\ pc' = "test"
    BY <1>1, <1>5 DEF wait, At, WakesWithMutex
  <2>2. r.state[Processor] = "BLOCKED" /\ InTrap(r) /\ r.owner[requests_mutex] = NULL
    BY <1>1, <1>2, <2>1, WaitKeeps
  <2> HIDE DEF r
  <2>3. k' = kthread_dispatch(r)
    BY <1>5, <2>2 DEF wait, Call, r
  <2>4. /\ BetweenTraps(k') /\ k'.owner[requests_mutex] = NULL
        /\ k'.state[Processor] = "BLOCKED"
    BY <2>2, <2>3, DispatchKeeps
  <2>5. ProgramInv' /\ WakesWithMutex'
    BY <2>1, <2>4, Names DEF ProgramInv, WakesWithMutex
  <2> QED BY <1>1, <1>5, <2>1, <2>4, <2>5, ProgramKeeps DEF wait, ring
<1>6. CASE take
  <2>1. k.owner[requests_mutex] = Processor /\ pc' = "advance" /\ k' = k /\ pending' = pending
        /\ pending # <<>>
    BY <1>1, <1>6 DEF take, At, WakesWithMutex, ProgramInv
  <2>2. ProgramInv' /\ WakesWithMutex'
    BY <1>2, <2>1, Names DEF ProgramInv, WakesWithMutex
  <2>3. sig' \in Signals
    BY <1>1, <1>6 DEF take, RingType
  <2> QED BY <1>1, <1>6, <2>1, <2>2, <2>3, ProgramKeeps DEF take, ring
<1>7. CASE advance
  <2>1. /\ k.owner[requests_mutex] = Processor /\ pc' = "unlock" /\ k' = k
        /\ pending # <<>> /\ handlers' = handlers /\ sig' = sig
    BY <1>1, <1>7 DEF advance, At, WakesWithMutex, ProgramInv
  <2>2. ProgramInv' /\ WakesWithMutex'
    BY <1>2, <2>1, Names DEF ProgramInv, WakesWithMutex
  <2>3. RingType' /\ RingHoldsPending'
    BY <1>1, <1>7, <2>1, AdvanceKeeps
  <2>4. TypeOK'
    BY <2>1, <2>3 DEF SInv, SignalInv, TypeOK, RingType
  <2> QED BY <1>1, <2>1, <2>2, <2>3, <2>4 DEF SInv, SignalInv
<1>8. CASE unlock
  <2> DEFINE r == kmutex_unlock(k, requests_mutex, Processor)
  <2>1. k.owner[requests_mutex] = Processor /\ pc' = "fetch" /\ k' = r
    BY <1>1, <1>8 DEF unlock, At, WakesWithMutex
  <2>2. BetweenTraps(r) /\ r.owner[requests_mutex] = NULL /\ r.state = k.state
    BY <1>1, <1>2, <2>1, UnlockKeeps
  <2> HIDE DEF r
  <2>3. ProgramInv' /\ WakesWithMutex'
    BY <1>2, <2>1, <2>2, Names DEF ProgramInv, WakesWithMutex
  <2> QED BY <1>1, <1>8, <2>1, <2>2, <2>3, ProgramKeeps DEF unlock, ring
<1>9. CASE fetch \/ return
  <2>1. k.owner[requests_mutex] = NULL /\ pc' \in {"lock", "handler"} /\ k' = k
    BY <1>1, <1>9 DEF fetch, return, At, WakesWithMutex
  <2>2. ProgramInv' /\ WakesWithMutex'
    BY <1>2, <2>1, Names DEF ProgramInv, WakesWithMutex
  <2> QED BY <1>1, <1>9, <2>1, <2>2, ProgramKeeps DEF fetch, return, ring
<1> QED BY <1>3, <1>4, <1>5, <1>6, <1>7, <1>8, <1>9 DEF signal_processor

-----------------------------------------------------------------------------
(* The theorems *)

LEMMA NextKeeps == ASSUME SInv, [Next]_vars PROVE SInv'
<1>1. /\ BetweenTraps(k) /\ InTrap(k)
      /\ handlers \in [Signals -> {"illegal_action", "user", NULL}]
  BY DEF SInv, SignalInv, TypeOK, BetweenTraps
<1>2. CASE syscall_sig_raise \/ fault \/ handle_ext_intr
  BY <1>2, SendersSend, SendKeeps
<1>3. CASE syscall_sig_set_handler
  BY <1>1, <1>3, OthersKeep DEF syscall_sig_set_handler
<1>4. CASE dispatch
  BY <1>1, <1>4, DispatchKeeps, OthersKeep DEF dispatch
<1>5. CASE syscall_thread_create
  BY <1>1, <1>5, CreateKeeps, OthersKeep DEF syscall_thread_create
<1>6. CASE syscall_thread_exit
  BY <1>1, <1>6, StopKeeps, OthersKeep DEF syscall_thread_exit
<1>7. CASE signal_processor
  BY <1>7, ProcessorKeeps
<1>8. CASE UNCHANGED vars
  BY <1>1, <1>8, OthersKeep DEF vars
<1> QED BY <1>2, <1>3, <1>4, <1>5, <1>6, <1>7, <1>8 DEF Next

\* The inductive invariant: the processor is in no queue but the ready list and
\* that of its condition, nobody competes for its mutex, and what it knows at each
\* point of its loop (signals.c:50-77) stays true whatever trap comes in between.
THEOREM Invariance == Spec => []SInv
<1>1. Init => SInv
  BY InitEstablishes
<1>2. SInv /\ [Next]_vars => SInv'
  BY NextKeeps
<1> QED BY <1>1, <1>2, PTL DEF Spec

\* However many signals are sent, and however far the processor is behind, the slots
\* from head on hold exactly the pending ones in order, and nothing is lost but by
\* the ringful; and the processor executes its critical section only with the mutex, which the sender that wakes it locks for it (signals.c:50-91,
\* condition.c:43-60).
THEOREM RingIsRight == Spec => []SignalInv
<1>1. SInv => SignalInv
  BY DEF SInv
<1> QED BY <1>1, Invariance, PTL

\* The processor takes the oldest pending signal and never reads an empty slot,
\* however long ago it tested the ring and whatever has been sent since, overflows
\* included (signals.c:57-64).
THEOREM OldestFirst == Spec => TakesTheOldest
<1>1. SInv /\ [Next]_vars => [take => pending # <<>> /\ sig' = Head(pending)]_vars
  <2> SUFFICES ASSUME SInv, take PROVE pending # <<>> /\ sig' = Head(pending)
    OBVIOUS
  <2>1. pending # <<>> /\ sig' = requests[head]
    BY DEF SInv, ProgramInv, take, At
  <2>2. pending \in Seq(Signals) /\ head \in Slots /\ Len(pending) >= 1 /\ 1 \in 1 .. Len(pending)
    BY <2>1 DEF SInv, SignalInv, TypeOK
  <2>3. requests[(head + 1 - 1) % RingSize] = pending[1]
    BY <2>2 DEF SInv, SignalInv, RingHoldsPending
  <2>4. (head + 1 - 1) % RingSize = head
    BY <2>2, SlotIs, SignalSystemAssumption DEF Slots
  <2> QED BY <2>1, <2>2, <2>3, <2>4
<1> QED BY <1>1, Invariance, PTL DEF Spec, TakesTheOldest

\* Whoever sends a signal, to a full ring too, leaves the processor awake
\* (signals.c:87-92).
THEOREM SendersWake == Spec => SendingWakes
<1>1. SInv /\ [Next]_vars => [tail' # tail => k'.state[Processor] # "BLOCKED"]_vars
  <2> SUFFICES ASSUME SInv, Next, tail' # tail PROVE k'.state[Processor] # "BLOCKED"
    OBVIOUS
  <2>1. CASE syscall_sig_raise \/ fault \/ handle_ext_intr
    BY <2>1, SendersSend
  <2>2. CASE syscall_sig_set_handler \/ dispatch \/ syscall_thread_create \/ syscall_thread_exit
    BY <2>2 DEF syscall_sig_set_handler, dispatch, syscall_thread_create, syscall_thread_exit
  <2>3. CASE signal_processor
    BY <2>3 DEF signal_processor, lock, test, wait, take, advance, unlock, fetch, return, ring
  <2> QED BY <2>1, <2>2, <2>3 DEF Next
<1> QED BY <1>1, Invariance, PTL DEF Spec, SendingWakes
=============================================================================
