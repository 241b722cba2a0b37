---------------------------- MODULE MutexProofs -----------------------------
(***************************************************************************)
(* Proofs about MutexSystem and CondSystem, for any number of threads,     *)
(* mutexes and conditions.  First MutexSystem: what a trap does to the     *)
(* invariant, one step per action, then the theorems.  Its steps are       *)
(* proved with any placement of sleeping threads, for CondSystem, which    *)
(* follows: as long as users signal with the mutex held, and signal (not   *)
(* broadcast) one sleeper at most, the queues of the conditions keep the   *)
(* same order as the others.                                               *)
(*                                                                         *)
(* Then both implement Monitor: the queues, known until there as sets of   *)
(* threads, are read as sequences.  First what the links are as a          *)
(* sequence, then what each C function does to the sequences, then one     *)
(* step of Monitor, or none, for each action.                              *)
(***************************************************************************)
EXTENDS CondInvariant, KernelProofs, FunctionTheorems

-----------------------------------------------------------------------------
(* Traps *)

Depths == [Threads -> [Mutexes -> 0 .. MaxDepth]]

\* What holds of the threads in the middle of a trap, when the current thread
\* may have blocked or stopped.
MidTrap(mem, on, ex) ==
  /\ mem \in Memory
  /\ QueuesInv(mem, on)
  /\ mem.current \in (Threads \intersect mem.heap) \union {Main, NULL}
  /\ mem.current # NULL => mem.state[mem.current] \in {"RUNNING", "BLOCKED"}
  /\ mem.current \notin ex
  /\ ex \subseteq Threads \intersect mem.heap
  /\ \A t \in Threads \intersect mem.heap :
       /\ mem.state[t] # "CREATED"
       /\ mem.state[t] = "RUNNING" => t = mem.current \/ t \in ex
       /\ t \in ex => mem.state[t] = "RUNNING"
  /\ \A t \in Threads \ mem.heap : mem.state[t] \in {"CREATED", "RUNNING"}
  /\ \A t \in Threads : on[t] \in mem.heap \union {NULL}

\* The mutexes' account depends on these parts of the memory only.
LEMMA OwnersFrame ==
  ASSUME NEW mem, NEW r, NEW on, NEW dep, OwnersInv(mem, on, dep),
         r.owner = mem.owner, r.lock_count = mem.lock_count,
         SameWaiters(r, mem, on)
  PROVE  OwnersInv(r, on, dep)
BY DEF OwnersInv, SameWaiters

\* A dispatch at the end of a trap restores the invariant.
LEMMA DispatchRestores ==
  ASSUME NEW mem, NEW on, NEW ex, NEW dep \in Depths, MidTrap(mem, on, ex),
         OwnersInv(mem, on, dep), GoneHoldNothing(mem, dep, ex)
  PROVE  Good(kthread_dispatch(mem), on, dep, ex)
<1> DEFINE r == kthread_dispatch(mem)
           R == ReadySet(mem) \union PutBack(mem)
<1>1. NULL \notin All /\ Threads \subseteq All /\ Main \notin Threads
  BY KernelAssumption DEF All
<1>2. Dispatched(r, mem, on, R)
  BY DispatchEffect DEF MidTrap
<1> HIDE DEF r
<1>3. \A t \in PutBack(mem) : t \in Threads \intersect mem.heap /\ t \notin ex /\ t = mem.current
  BY <1>1 DEF PutBack, Requeues, MidTrap
<1>4. \A t \in ReadySet(mem) : t \in Threads \intersect mem.heap /\ t \notin ex
  BY DEF ReadySet, MidTrap
<1>5. r.current \in (Threads \intersect mem.heap) \union {Main} /\ r.current \notin ex
  BY <1>1, <1>2, <1>3, <1>4 DEF Dispatched, MidTrap
<1>6. \A t \in Threads \intersect mem.heap :
        t = mem.current /\ t \notin PutBack(mem) => mem.state[t] = "BLOCKED"
  BY <1>1 DEF PutBack, Requeues, MidTrap
<1>7. \A t \in Threads :
        r.state[t] = IF t = r.current THEN "RUNNING"
                     ELSE IF t \in PutBack(mem) THEN "READY" ELSE mem.state[t]
  BY <1>2 DEF Dispatched
<1>8. ASSUME NEW t \in Threads \intersect mem.heap
      PROVE  r.state[t] # "CREATED" /\ (r.state[t] = "RUNNING" <=> t = r.current \/ t \in ex)
  BY <1>3, <1>5, <1>6, <1>7 DEF MidTrap
<1>9. \A t \in Threads \ mem.heap : r.state[t] \in {"CREATED", "RUNNING"}
  BY <1>3, <1>7 DEF MidTrap
<1>10. r.heap = mem.heap
  BY <1>2 DEF Dispatched, SameMutexes
<1>11. ThreadsInv(r, ex)
  BY <1>5, <1>8, <1>9, <1>10 DEF ThreadsInv, MidTrap
<1>12. OwnersInv(r, on, dep)
  BY <1>2, OwnersFrame DEF Dispatched, SameMutexes
<1>13. GoneHoldNothing(r, dep, ex)
  BY <1>10 DEF GoneHoldNothing
<1>14. r \in Memory /\ QueuesInv(r, on) /\ ex \subseteq Threads
  BY <1>2 DEF Dispatched, MidTrap
<1>15. \A t \in Threads : on[t] \in r.heap \union {NULL}
  BY <1>10 DEF MidTrap
<1> QED BY <1>11, <1>12, <1>13, <1>14, <1>15 DEF Good, Depths, r

\* Between traps no thread is in the middle of one.
LEMMA GoodIsMidTrap ==
  ASSUME NEW mem, NEW on, NEW dep, NEW ex, Good(mem, on, dep, ex)
  PROVE  MidTrap(mem, on, ex)
<1>1. NULL \notin All /\ Threads \subseteq All /\ Main \notin Threads
  BY KernelAssumption DEF All
<1>2. mem.state[mem.current] = "RUNNING"
  BY DEF Good, ThreadsInv, QueuesInv
<1> QED BY <1>1, <1>2 DEF Good, ThreadsInv, MidTrap

\* A new thread joins the ready list.
LEMMA CreateKeeps ==
  ASSUME NEW mem, NEW on, NEW dep, NEW ex, Good(mem, on, dep, ex),
         NEW u \in Threads \ mem.heap
  PROVE  Good(kscheduler_enqueue(kthread_create(mem, u), u), on, dep, ex)
<1> DEFINE r == kscheduler_enqueue(kthread_create(mem, u), u)
<1>1. mem.state[u] \in {"CREATED", "RUNNING"} /\ mem \in Memory /\ u \in All
  BY DEF Good, ThreadsInv, All
<1>2. Created(r, mem, on, u)
  BY <1>1, CreateEffect DEF Good
<1> HIDE DEF r
<1>3. \A t \in Threads : r.state[t] = IF t = u THEN "READY" ELSE mem.state[t]
  BY <1>1, <1>2 DEF Created, Memory, All
<1>4. u # mem.current /\ u \notin ex
  BY KernelAssumption DEF Good, ThreadsInv
<1>5. ThreadsInv(r, ex)
  BY <1>2, <1>3, <1>4 DEF Created, Good, ThreadsInv
<1>6. OwnersInv(r, on, dep)
  BY <1>2, OwnersFrame DEF Created, Good
<1>7. GoneHoldNothing(r, dep, ex)
  BY <1>2 DEF Created, Good, GoneHoldNothing
<1> QED BY <1>2, <1>5, <1>6, <1>7 DEF Created, Good, r

\* init() leaves the kernel in order.
LEMMA ResetGood == Good(Reset, NobodySleeps, [t \in Threads |-> Unlocked], {})
<1> DEFINE dep == [t \in Threads |-> Unlocked]
<1>1. NULL \notin All /\ Threads \subseteq All /\ Main \notin Threads /\ Main \in All
  BY KernelAssumption DEF All
<1>2. Reset \in Memory
  <2>1. 0 \in 0 .. CountMod - 1
    BY KernelAssumption
  <2> QED BY <1>1, <2>1 DEF Reset, Memory, States
<1>3. dep \in Depths
  BY MutexSystemAssumption DEF Depths, Unlocked
<1>4. QueuesInv(Reset, NobodySleeps) /\ \A m \in Mutexes : BlockedOn(Reset, m) = {}
  BY ResetQueues
<1>7. ThreadsInv(Reset, {})
  BY <1>1 DEF ThreadsInv, Reset
<1>8. OwnersInv(Reset, NobodySleeps, dep)
  <2>1. \A m \in Mutexes :
          /\ Reset.owner[m] = NULL /\ Reset.lock_count[m] = 0
          /\ WaitSet(Reset, NobodySleeps, m) = {}
    BY <1>4, NobodyAsleep DEF Reset
  <2>2. \A t \in Threads, m \in Mutexes : dep[t][m] = 0 /\ t # NULL
    BY <1>1 DEF Unlocked
  <2> HIDE DEF dep
  <2> QED BY <1>4, <2>1, <2>2 DEF OwnersInv
<1>9. GoneHoldNothing(Reset, dep, {})
  BY DEF GoneHoldNothing, Unlocked
<1> QED BY <1>2, <1>3, <1>4, <1>7, <1>8, <1>9 DEF Good, Depths, NobodySleeps

\* Giving a free mutex to a thread that can execute.
LEMMA AcquireKeeps ==
  ASSUME NEW mem, NEW on, NEW dep, NEW ex, Good(mem, on, dep, ex),
         NEW t \in Threads \intersect mem.heap, t \notin ex, mem.state[t] # "BLOCKED",
         NEW m \in Mutexes \intersect mem.heap, mem.owner[m] = NULL
  PROVE  /\ dep[t][m] = 0
         /\ Good([mem EXCEPT !.owner[m] = t, !.lock_count[m] = 1],
                 on, [dep EXCEPT ![t][m] = 1], ex)
<1> DEFINE r == [mem EXCEPT !.owner[m] = t, !.lock_count[m] = 1]
           d == [dep EXCEPT ![t][m] = 1]
<1>1. NULL \notin All /\ Threads \subseteq All /\ Main \notin Threads
  BY KernelAssumption DEF All
<1>2. mem \in Memory /\ dep \in Depths
  BY DEF Good, Depths
<1>3. WaitSet(mem, on, m) = {} /\ t \notin BlockedOn(mem, m) /\ dep[t][m] = 0
  BY <1>1, <1>2 DEF Good, OwnersInv, Depths, BlockedOn
<1>4. /\ SameQueues(r, mem) /\ r.current = mem.current /\ r.heap = mem.heap
      /\ r.owner = [mem.owner EXCEPT ![m] = t]
      /\ r.lock_count = [mem.lock_count EXCEPT ![m] = 1]
  BY <1>2 DEF Memory, SameQueues
<1>5. r \in Memory
  <2>1. 1 \in 0 .. CountMod - 1
    BY KernelAssumption
  <2> QED BY <1>1, <1>2, <2>1 DEF Memory
<1>6. d \in Depths /\ \A u \in Threads, n \in Mutexes :
                        d[u][n] = IF u = t /\ n = m THEN 1 ELSE dep[u][n]
  BY <1>2, MutexSystemAssumption DEF Depths
<1> HIDE DEF r, d
<1>7. QueuesInv(r, on) /\ SameWaiters(r, mem, on)
  BY <1>4, QueuesFrame DEF Good
<1>8. ThreadsInv(r, ex)
  BY <1>4 DEF Good, ThreadsInv, SameQueues
<1>9. OwnersInv(r, on, d)
  <2>1. \A n \in Mutexes :
          /\ r.owner[n] = IF n = m THEN t ELSE mem.owner[n]
          /\ r.lock_count[n] = IF n = m THEN 1 ELSE mem.lock_count[n]
          /\ WaitSet(r, on, n) = WaitSet(mem, on, n) /\ BlockedOn(r, n) = BlockedOn(mem, n)
    BY <1>2, <1>4, <1>7 DEF Memory, SameWaiters
  <2>2. \A n \in Mutexes :
          /\ r.owner[n] \in Threads \union {NULL}
          /\ r.owner[n] = NULL => r.lock_count[n] = 0 /\ WaitSet(r, on, n) = {}
          /\ r.owner[n] # NULL => r.lock_count[n] > 0 /\ r.lock_count[n] = d[r.owner[n]][n]
          /\ n \notin Recursive => r.lock_count[n] \in {0, 1}
    BY <1>1, <1>6, <2>1 DEF Good, OwnersInv
  <2>3. ASSUME NEW u \in Threads, NEW n \in Mutexes
        PROVE  /\ d[u][n] > 0 <=> r.owner[n] = u \/ u \in BlockedOn(r, n)
               /\ u \in BlockedOn(r, n) => r.owner[n] # u /\ d[u][n] = 1
    <3>1. CASE u = t /\ n = m
      BY <3>1, <1>3, <1>6, <2>1
    <3>2. CASE u # t /\ n = m
      BY <3>2, <1>1, <1>6, <2>1 DEF Good, OwnersInv
    <3>3. CASE n # m
      BY <3>3, <1>6, <2>1 DEF Good, OwnersInv
    <3> QED BY <3>1, <3>2, <3>3
  <2> QED BY <2>2, <2>3 DEF OwnersInv
<1>10. GoneHoldNothing(r, d, ex)
  BY <1>4, <1>6 DEF Good, GoneHoldNothing
<1> QED BY <1>3, <1>5, <1>6, <1>7, <1>8, <1>9, <1>10 DEF Good, Depths, r, d

\* Changing how deep the owner of a recursive mutex has locked it.
LEMMA RecountKeeps ==
  ASSUME NEW mem, NEW on, NEW dep, NEW ex, Good(mem, on, dep, ex),
         NEW t \in Threads, NEW m \in Recursive, mem.owner[m] = t,
         NEW d \in 1 .. MaxDepth
  PROVE  Good([mem EXCEPT !.lock_count[m] = d], on, [dep EXCEPT ![t][m] = d], ex)
<1> DEFINE r == [mem EXCEPT !.lock_count[m] = d]
           dep2 == [dep EXCEPT ![t][m] = d]
<1>1. NULL \notin All /\ Threads \subseteq All /\ m \in Mutexes
  BY KernelAssumption DEF All
<1>2. mem \in Memory /\ dep \in Depths
  BY DEF Good, Depths
<1>3. /\ SameQueues(r, mem) /\ r.current = mem.current /\ r.heap = mem.heap
      /\ r.owner = mem.owner
      /\ r.lock_count = [mem.lock_count EXCEPT ![m] = d]
  BY <1>2 DEF Memory, SameQueues
<1>4. r \in Memory
  <2>1. d \in 0 .. CountMod - 1
    BY KernelAssumption, MutexSystemAssumption
  <2> QED BY <1>1, <1>2, <2>1 DEF Memory
<1>5. dep2 \in Depths /\ \A u \in Threads, n \in Mutexes :
                           dep2[u][n] = IF u = t /\ n = m THEN d ELSE dep[u][n]
  BY <1>1, <1>2, MutexSystemAssumption DEF Depths
<1> HIDE DEF r, dep2
<1>6. QueuesInv(r, on) /\ SameWaiters(r, mem, on)
  BY <1>3, QueuesFrame DEF Good
<1>7. ThreadsInv(r, ex)
  BY <1>3 DEF Good, ThreadsInv, SameQueues
<1>8. dep[t][m] > 0 /\ t \notin BlockedOn(mem, m) /\ d > 0
  BY <1>1 DEF Good, OwnersInv
<1>9. OwnersInv(r, on, dep2)
  <2>1. \A n \in Mutexes :
          /\ r.owner[n] = mem.owner[n]
          /\ r.lock_count[n] = IF n = m THEN d ELSE mem.lock_count[n]
          /\ WaitSet(r, on, n) = WaitSet(mem, on, n) /\ BlockedOn(r, n) = BlockedOn(mem, n)
    BY <1>2, <1>3, <1>6 DEF Memory, SameWaiters
  <2>2. \A n \in Mutexes :
          /\ r.owner[n] \in Threads \union {NULL}
          /\ r.owner[n] = NULL => r.lock_count[n] = 0 /\ WaitSet(r, on, n) = {}
          /\ r.owner[n] # NULL =>
               r.lock_count[n] > 0 /\ r.lock_count[n] = dep2[r.owner[n]][n]
          /\ n \notin Recursive => r.lock_count[n] \in {0, 1}
    BY <1>1, <1>5, <1>6, <1>8, <2>1 DEF Good, OwnersInv
  <2>3. ASSUME NEW u \in Threads, NEW n \in Mutexes
        PROVE  /\ dep2[u][n] > 0 <=> r.owner[n] = u \/ u \in BlockedOn(r, n)
               /\ u \in BlockedOn(r, n) => r.owner[n] # u /\ dep2[u][n] = 1
    <3>1. CASE u = t /\ n = m
      BY <3>1, <1>5, <1>6, <1>8, <2>1
    <3>2. CASE ~(u = t /\ n = m)
      BY <3>2, <1>5, <1>6, <2>1 DEF Good, OwnersInv
    <3> QED BY <3>1, <3>2
  <2> QED BY <2>2, <2>3 DEF OwnersInv
<1>10. GoneHoldNothing(r, dep2, ex)
  BY <1>1, <1>3, <1>5, <1>8 DEF Good, GoneHoldNothing, Depths
<1> QED BY <1>4, <1>5, <1>6, <1>7, <1>9, <1>10 DEF Good, Depths, r, dep2

\* Freeing a mutex nobody waits for.
LEMMA FreeKeeps ==
  ASSUME NEW mem, NEW on, NEW dep, NEW ex, Good(mem, on, dep, ex),
         NEW t \in Threads, NEW m \in Mutexes, mem.owner[m] = t,
         mem.mhead[m] = NULL
  PROVE  Good([mem EXCEPT !.lock_count[m] = 0, !.owner[m] = NULL],
              on, [dep EXCEPT ![t][m] = 0], ex)
<1> DEFINE r == [mem EXCEPT !.lock_count[m] = 0, !.owner[m] = NULL]
           d == [dep EXCEPT ![t][m] = 0]
<1>1. NULL \notin All /\ Threads \subseteq All
  BY KernelAssumption DEF All
<1>2. mem \in Memory /\ dep \in Depths
  BY DEF Good, Depths
<1>3. /\ SameQueues(r, mem) /\ r.current = mem.current /\ r.heap = mem.heap
      /\ r.owner = [mem.owner EXCEPT ![m] = NULL]
      /\ r.lock_count = [mem.lock_count EXCEPT ![m] = 0]
  BY <1>2 DEF Memory, SameQueues
<1>4. r \in Memory
  <2>1. 0 \in 0 .. CountMod - 1
    BY KernelAssumption
  <2> QED BY <1>2, <2>1 DEF Memory
<1>5. d \in Depths /\ \A u \in Threads, n \in Mutexes :
                        d[u][n] = IF u = t /\ n = m THEN 0 ELSE dep[u][n]
  BY <1>2, MutexSystemAssumption DEF Depths
<1> HIDE DEF r, d
<1>6. QueuesInv(r, on) /\ SameWaiters(r, mem, on)
  BY <1>3, QueuesFrame DEF Good
<1>7. ThreadsInv(r, ex)
  BY <1>3 DEF Good, ThreadsInv, SameQueues
<1>8. WaitSet(mem, on, m) = {}
  BY DEF Good, QueuesInv, IsQueue
<1>9. OwnersInv(r, on, d)
  <2>1. t \notin BlockedOn(mem, m)
    BY DEF Good, OwnersInv
  <2>2. \A n \in Mutexes :
          /\ r.owner[n] = IF n = m THEN NULL ELSE mem.owner[n]
          /\ r.lock_count[n] = IF n = m THEN 0 ELSE mem.lock_count[n]
          /\ WaitSet(r, on, n) = WaitSet(mem, on, n) /\ BlockedOn(r, n) = BlockedOn(mem, n)
    BY <1>2, <1>3, <1>6 DEF Memory, SameWaiters
  <2>3. \A n \in Mutexes :
          /\ r.owner[n] \in Threads \union {NULL}
          /\ r.owner[n] = NULL => r.lock_count[n] = 0 /\ WaitSet(r, on, n) = {}
          /\ r.owner[n] # NULL => r.lock_count[n] > 0 /\ r.lock_count[n] = d[r.owner[n]][n]
          /\ n \notin Recursive => r.lock_count[n] \in {0, 1}
    BY <1>1, <1>5, <1>8, <2>2 DEF Good, OwnersInv
  <2>4. ASSUME NEW u \in Threads, NEW n \in Mutexes
        PROVE  /\ d[u][n] > 0 <=> r.owner[n] = u \/ u \in BlockedOn(r, n)
               /\ u \in BlockedOn(r, n) => r.owner[n] # u /\ d[u][n] = 1
    <3>1. CASE u = t /\ n = m
      BY <3>1, <1>1, <1>5, <2>1, <2>2
    <3>2. CASE u # t /\ n = m
      BY <3>2, <1>1, <1>5, <2>2 DEF Good, OwnersInv
    <3>3. CASE n # m
      BY <3>3, <1>5, <2>2 DEF Good, OwnersInv
    <3> QED BY <3>1, <3>2, <3>3
  <2> QED BY <2>3, <2>4 DEF OwnersInv
<1>10. GoneHoldNothing(r, d, ex)
  BY <1>3, <1>5 DEF Good, GoneHoldNothing
<1> QED BY <1>4, <1>5, <1>6, <1>7, <1>9, <1>10 DEF Good, Depths, r, d

\* Handing a mutex to its first waiter.
LEMMA HandOffKeeps ==
  ASSUME NEW mem, NEW on, NEW dep, NEW ex, Good(mem, on, dep, ex),
         NEW t \in Threads, NEW m \in Mutexes, mem.owner[m] = t,
         mem.mhead[m] # NULL
  PROVE  Good(HandOff(mem, m), on, [dep EXCEPT ![t][m] = 0], ex)
<1> DEFINE r == HandOff(mem, m)
           d == [dep EXCEPT ![t][m] = 0]
           w == mem.mhead[m]
<1>1. NULL \notin All /\ Threads \subseteq All /\ Main \notin Threads
  BY KernelAssumption DEF All
<1>2. mem \in Memory /\ dep \in Depths
  BY DEF Good, Depths
<1>3. HandedOff(r, mem, on, m, w)
  BY <1>2, HandOffEffect DEF Good
<1>4. d \in Depths /\ \A u \in Threads, n \in Mutexes :
                        d[u][n] = IF u = t /\ n = m THEN 0 ELSE dep[u][n]
  BY <1>2, MutexSystemAssumption DEF Depths
<1> HIDE DEF r, d, w
<1>5. /\ w \in WaitSet(mem, on, m) /\ w \in Threads /\ w # t /\ dep[w][m] = 1
      /\ mem.state[w] = "BLOCKED" /\ w \in BlockedOn(mem, m)
  BY <1>3 DEF HandedOff, WaitSet, BlockedOn, Good, OwnersInv
<1>6. \A u \in Threads : r.state[u] = IF u = w THEN "READY" ELSE mem.state[u]
  BY <1>1, <1>2, <1>3, <1>5 DEF HandedOff, Memory
<1>7. w \in mem.heap /\ w # mem.current /\ w \notin ex
  BY <1>5 DEF Good, ThreadsInv
<1>8. ThreadsInv(r, ex)
  BY <1>3, <1>6, <1>7 DEF HandedOff, Good, ThreadsInv
<1>9. OwnersInv(r, on, d)
  <2>1. /\ r.owner = [mem.owner EXCEPT ![m] = w]
        /\ r.lock_count = [mem.lock_count EXCEPT ![m] = 1]
        /\ WaitSet(r, on, m) = WaitSet(mem, on, m) \ {w}
        /\ \A n \in Mutexes \ {m} : WaitSet(r, on, n) = WaitSet(mem, on, n)
        /\ BlockedOn(r, m) = BlockedOn(mem, m) \ {w}
        /\ \A n \in Mutexes \ {m} : BlockedOn(r, n) = BlockedOn(mem, n)
    BY <1>3 DEF HandedOff
  <2>2. \A n \in Mutexes :
          /\ r.owner[n] = IF n = m THEN w ELSE mem.owner[n]
          /\ r.lock_count[n] = IF n = m THEN 1 ELSE mem.lock_count[n]
    BY <1>2, <2>1 DEF Memory
  <2>3. \A n \in Mutexes :
          /\ r.owner[n] \in Threads \union {NULL}
          /\ r.owner[n] = NULL => r.lock_count[n] = 0 /\ WaitSet(r, on, n) = {}
          /\ r.owner[n] # NULL => r.lock_count[n] > 0 /\ r.lock_count[n] = d[r.owner[n]][n]
          /\ n \notin Recursive => r.lock_count[n] \in {0, 1}
    BY <1>1, <1>4, <1>5, <2>1, <2>2 DEF Good, OwnersInv
  <2>4. ASSUME NEW u \in Threads, NEW n \in Mutexes
        PROVE  /\ d[u][n] > 0 <=> r.owner[n] = u \/ u \in BlockedOn(r, n)
               /\ u \in BlockedOn(r, n) => r.owner[n] # u /\ d[u][n] = 1
    <3>1. CASE n = m
      BY <3>1, <1>4, <1>5, <2>1, <2>2 DEF Good, OwnersInv
    <3>2. CASE n # m
      BY <3>2, <1>4, <2>1, <2>2 DEF Good, OwnersInv
    <3> QED BY <3>1, <3>2
  <2> QED BY <2>3, <2>4 DEF OwnersInv
<1>10. GoneHoldNothing(r, d, ex)
  BY <1>3, <1>4 DEF HandedOff, Good, GoneHoldNothing
<1> QED BY <1>3, <1>4, <1>8, <1>9, <1>10 DEF HandedOff, Good, Depths, r, d

-----------------------------------------------------------------------------
(* One lemma per action *)

\* What the creation of a thread leaves alone.
LEMMA CreateFrame ==
  ASSUME NEW mem \in Memory, NEW u \in Threads, NEW r,
         r = kscheduler_enqueue(kthread_create(mem, u), u)
  PROVE  /\ r.current = mem.current /\ r.owner = mem.owner
         /\ r.lock_count = mem.lock_count /\ r.heap = mem.heap \union {u}
<1> DEFINE n == kthread_create(mem, u)
<1>1. /\ n.current = mem.current /\ n.owner = mem.owner
      /\ n.lock_count = mem.lock_count /\ n.heap = mem.heap \union {u}
  BY DEF kthread_create, Memory
<1>2. r.current = n.current /\ r.owner = n.owner /\ r.lock_count = n.lock_count /\ r.heap = n.heap
  <2>1. r = kscheduler_enqueue(n, u)
    OBVIOUS
  <2>2. \A f \in {"current", "owner", "lock_count", "heap"} : f \in DOMAIN n
    BY DEF kthread_create, Memory
  <2> HIDE DEF n
  <2> QED BY <2>1, <2>2 DEF kscheduler_enqueue
<1> QED BY <1>1, <1>2

\* The state the kernel boots into satisfies the invariant.
LEMMA InitEstablishes == Init => IInv
<1> SUFFICES ASSUME Init PROVE Good(k, NobodySleeps, depth, exited)
  BY DEF IInv, GoodNow
<1> PICK p \in Threads, u \in Threads :
           /\ p # u
           /\ k = kscheduler_enqueue(kthread_create(
                    kscheduler_enqueue(kthread_create(Reset, p), p), u), u)
  BY DEF Init
<1> DEFINE k1 == kscheduler_enqueue(kthread_create(Reset, p), p)
<1>1. depth = [t \in Threads |-> Unlocked] /\ exited = {}
  BY DEF Init
<1>2. p \notin Reset.heap
  BY DEF Reset
<1>3. Good(k1, NobodySleeps, depth, exited)
  BY <1>1, <1>2, ResetGood, CreateKeeps
<1>4. u \in Threads \ k1.heap
  <2>1. Reset \in Memory /\ Reset.heap = {}
    BY ResetGood DEF Good, Reset
  <2> QED BY <2>1, CreateFrame
<1> HIDE DEF k1
<1>5. Good(kscheduler_enqueue(kthread_create(k1, u), u), NobodySleeps, depth, exited)
  BY <1>3, <1>4, CreateKeeps
<1> QED BY <1>5 DEF k1

\* The thread that makes a system call is allocated, runs, and has not exited.
LEMMA CallerRuns ==
  ASSUME NEW on, GoodNow(on), NEW t, Caller(t)
  PROVE  /\ t \in Threads /\ t \in k.heap /\ t \notin exited /\ k.current = t
         /\ k.state[t] = "RUNNING" /\ t # Main /\ t # NULL
BY KernelAssumption DEF Caller, GoodNow, Good, ThreadsInv

LEMMA KeepsThreadCreate ==
  ASSUME NEW on, GoodNow(on), NEW t \in Threads, syscall_thread_create(t) PROVE GoodNow(on)'
<1> PICK u \in Threads \ k.heap : k' = kscheduler_enqueue(kthread_create(k, u), u)
  BY DEF syscall_thread_create
<1>1. Good(k', on, depth, exited)
  BY CreateKeeps DEF GoodNow
<1> QED BY <1>1 DEF syscall_thread_create, GoodNow

LEMMA KeepsThreadExit ==
  ASSUME NEW on, GoodNow(on), NEW t \in Threads, syscall_thread_exit(t) PROVE GoodNow(on)'
<1> DEFINE mem == [k EXCEPT !.current = NULL]
           ex == exited \union {t}
<1>1. /\ t \in k.heap /\ k.current = t /\ k.state[t] = "RUNNING" /\ k \in Memory
      /\ depth[t] = Unlocked /\ depth \in Depths
  BY CallerRuns DEF syscall_thread_exit, GoodNow, Good, Depths
<1>2. /\ SameQueues(mem, k) /\ mem.heap = k.heap /\ mem.current = NULL
      /\ mem.owner = k.owner /\ mem.lock_count = k.lock_count
  BY <1>1 DEF Memory, SameQueues
<1>3. mem \in Memory
  BY <1>1 DEF Memory
<1> HIDE DEF mem
<1>4. QueuesInv(mem, on) /\ SameWaiters(mem, k, on)
  BY <1>2, QueuesFrame DEF GoodNow, Good
<1>5. MidTrap(mem, on, ex)
  <2>1. NULL \notin ex
    BY KernelAssumption DEF GoodNow, Good
  <2> QED BY <1>1, <1>2, <1>3, <1>4, <2>1 DEF MidTrap, GoodNow, Good, ThreadsInv, SameQueues
<1>6. OwnersInv(mem, on, depth)
  BY <1>2, <1>4, OwnersFrame DEF GoodNow, Good
<1>7. GoneHoldNothing(mem, depth, ex)
  BY <1>1, <1>2 DEF GoodNow, Good, GoneHoldNothing, Unlocked
<1>8. Good(kthread_dispatch(mem), on, depth, ex)
  BY <1>1, <1>5, <1>6, <1>7, DispatchRestores
<1> QED BY <1>8 DEF syscall_thread_exit, kthread_stop, GoodNow, mem

LEMMA KeepsThreadDetach ==
  ASSUME DetachLive = FALSE, NEW on, GoodNow(on), NEW t \in Threads, syscall_thread_detach(t)
  PROVE  GoodNow(on)'
<1> PICK u \in Threads \intersect k.heap :
           u \in exited /\ k' = kthread_destroy(k, u) /\ exited' = exited \ {u}
  BY DEF syscall_thread_detach
<1>1. depth' = depth /\ k \in Memory
  BY DEF syscall_thread_detach, GoodNow, Good
<1>2. /\ SameQueues(k', k) /\ k'.current = k.current /\ k'.heap = k.heap \ {u}
      /\ k'.owner = k.owner /\ k'.lock_count = k.lock_count
  BY <1>1 DEF kthread_destroy, Memory, SameQueues
<1>3. k' \in Memory
  BY <1>1 DEF kthread_destroy, Memory
<1>4. QueuesInv(k', on) /\ SameWaiters(k', k, on)
  <2> DEFINE r == k'
  <2>1. SameQueues(r, k)
    BY <1>2
  <2> HIDE DEF r
  <2>2. QueuesInv(r, on) /\ SameWaiters(r, k, on)
    BY <2>1, QueuesFrame DEF GoodNow, Good
  <2> QED BY <2>2 DEF r
<1>5. ThreadsInv(k', exited')
  BY <1>2 DEF GoodNow, Good, ThreadsInv, SameQueues
<1>6. OwnersInv(k', on, depth')
  BY <1>1, <1>2, <1>4 DEF GoodNow, Good, OwnersInv, SameWaiters
<1>7. GoneHoldNothing(k', depth', exited')
  <2>1. ASSUME NEW v \in Threads, NEW m \in Mutexes,
               v \notin k.heap \ {u} \/ v \in exited \ {u} \/ m \notin k.heap \ {u}
        PROVE  depth[v][m] = 0
    <3>1. u \notin Mutexes
      BY KernelAssumption
    <3>2. v \notin k.heap \/ v \in exited \/ m \notin k.heap
      BY <2>1, <3>1
    <3> QED BY <3>2 DEF GoodNow, Good, GoneHoldNothing
  <2> QED BY <2>1, <1>1, <1>2 DEF GoneHoldNothing
<1>8. \A v \in Threads : on[v] \in k'.heap \union {NULL}
  <2>1. on \in Placements /\ u \notin Conds /\ \A v \in Threads : on[v] \in k.heap \union {NULL}
    BY KernelAssumption DEF GoodNow, Good, QueuesInv
  <2> QED BY <1>2, <2>1, KernelAssumption DEF Placements
<1> QED BY <1>1, <1>3, <1>4, <1>5, <1>6, <1>7, <1>8 DEF GoodNow, Good

\* thrd_yield, the idle loop and the timer.
LEMMA KeepsDispatch ==
  ASSUME NEW on, GoodNow(on), k' = kthread_dispatch(k), UNCHANGED <<depth, exited>> PROVE GoodNow(on)'
<1>1. Good(kthread_dispatch(k), on, depth, exited)
  BY GoodIsMidTrap, DispatchRestores DEF GoodNow, Good, Depths
<1> QED BY <1>1 DEF GoodNow

LEMMA KeepsMutexCreate ==
  ASSUME NEW on, GoodNow(on), NEW t \in Threads, syscall_mutex_create(t) PROVE GoodNow(on)'
<1> PICK m \in Mutexes \ k.heap :
           k' = [kmutex_init(k, m) EXCEPT !.heap = k.heap \union {m}]
  BY DEF syscall_mutex_create
<1>1. /\ depth' = depth /\ exited' = exited /\ k \in Memory /\ depth \in Depths
      /\ NULL \notin Threads
  BY KernelAssumption DEF syscall_mutex_create, GoodNow, Good, Depths
<1>2. \A u \in Threads : depth[u][m] = 0
  BY DEF GoodNow, Good, GoneHoldNothing
<1>3. WaitSet(k, on, m) = {} /\ k.owner[m] = NULL /\ k.lock_count[m] = 0
  BY <1>1, <1>2 DEF GoodNow, Good, OwnersInv
<1>4. k.mhead[m] = NULL /\ k.mtail[m] = NULL
  BY <1>3 DEF GoodNow, Good, QueuesInv, IsQueue
<1>5. /\ SameQueues(k', k) /\ k'.current = k.current
      /\ k'.heap = k.heap \union {m}
      /\ k'.owner = k.owner /\ k'.lock_count = k.lock_count
  BY <1>1, <1>3, <1>4 DEF kmutex_init, Memory, SameQueues
<1>6. k' \in Memory
  <2>1. m \in Objects /\ 0 \in 0 .. CountMod - 1
    BY KernelAssumption DEF Objects
  <2> QED BY <1>1, <2>1 DEF kmutex_init, Memory
<1>7. QueuesInv(k', on) /\ SameWaiters(k', k, on)
  <2> DEFINE r == k'
  <2>1. SameQueues(r, k)
    BY <1>5
  <2> HIDE DEF r
  <2>2. QueuesInv(r, on) /\ SameWaiters(r, k, on)
    BY <2>1, QueuesFrame DEF GoodNow, Good
  <2> QED BY <2>2 DEF r
<1>8. ThreadsInv(k', exited')
  <2>1. \A u \in Threads : u \in k'.heap <=> u \in k.heap
    BY <1>5, KernelAssumption
  <2>2. k.heap \subseteq k'.heap
    BY <1>5
  <2> QED BY <1>1, <1>5, <2>1, <2>2 DEF GoodNow, Good, ThreadsInv, SameQueues
<1>9. OwnersInv(k', on, depth')
  <2> DEFINE r == k'
  <2>1. /\ r.owner = k.owner /\ r.lock_count = k.lock_count
        /\ SameWaiters(r, k, on)
    BY <1>5, <1>7
  <2> HIDE DEF r
  <2>2. OwnersInv(r, on, depth)
    BY <2>1, OwnersFrame DEF GoodNow, Good
  <2> QED BY <2>2, <1>1 DEF r
<1>10. GoneHoldNothing(k', depth', exited')
  BY <1>1, <1>2, <1>5 DEF GoodNow, Good, GoneHoldNothing
<1> QED BY <1>1, <1>6, <1>7, <1>8, <1>9, <1>10 DEF GoodNow, Good, Depths


\* A mutex nobody has locked has no waiter that could be destroyed with it.
LEMMA KeepsMutexDestroy ==
  ASSUME NEW on, GoodNow(on), NEW t \in Threads, syscall_mutex_destroy(t) PROVE GoodNow(on)'
<1> PICK m \in Mutexes \intersect k.heap :
           /\ \A u \in Threads : depth[u][m] = 0
           /\ k' = [kmutex_destroy(k, m) EXCEPT !.heap = @ \ {m}]
  BY DEF syscall_mutex_destroy
<1>1. /\ depth' = depth /\ exited' = exited /\ k \in Memory /\ depth \in Depths
  BY DEF syscall_mutex_destroy, GoodNow, Good, Depths
<1>2. WaitSet(k, on, m) = {}
  BY <1>1 DEF GoodNow, Good, OwnersInv, WaitSet
<1>3. Chain(k, k.mhead[m]) = {}
  BY <1>2 DEF GoodNow, Good, QueuesInv, IsQueue, Chain
<1>4. /\ SameQueues(k', k) /\ k'.current = k.current
      /\ k'.heap = k.heap \ {m}
      /\ k'.owner = k.owner /\ k'.lock_count = k.lock_count
  BY <1>1, <1>3 DEF kmutex_destroy, Memory, SameQueues
<1>5. k' \in Memory
  BY <1>1 DEF kmutex_destroy, Memory
<1>6. QueuesInv(k', on) /\ OwnersInv(k', on, depth')
  <2> DEFINE r == k'
  <2>1. SameQueues(r, k) /\ r.owner = k.owner /\ r.lock_count = k.lock_count
    BY <1>4
  <2> HIDE DEF r
  <2>2. QueuesInv(r, on) /\ SameWaiters(r, k, on)
    BY <2>1, QueuesFrame DEF GoodNow, Good
  <2>3. OwnersInv(r, on, depth)
    BY <2>1, <2>2, OwnersFrame DEF GoodNow, Good
  <2> QED BY <2>2, <2>3, <1>1 DEF r
<1>7. ThreadsInv(k', exited')
  <2>1. \A u \in Threads : u \in k'.heap <=> u \in k.heap
    BY <1>4, KernelAssumption
  <2>2. exited \subseteq k'.heap
    BY <1>4, KernelAssumption DEF GoodNow, Good, ThreadsInv
  <2> QED BY <1>1, <1>4, <2>1, <2>2 DEF GoodNow, Good, ThreadsInv, SameQueues
<1>8. GoneHoldNothing(k', depth', exited')
  <2>1. m \notin Threads
    BY KernelAssumption
  <2>2. ASSUME NEW u \in Threads, NEW n \in Mutexes,
               u \notin k.heap \ {m} \/ u \in exited \/ n \notin k.heap \ {m}
        PROVE  depth[u][n] = 0
    <3>1. CASE n = m
      BY <3>1
    <3>2. CASE n # m
      BY <2>1, <2>2, <3>2 DEF GoodNow, Good, GoneHoldNothing
    <3> QED BY <3>1, <3>2
  <2> QED BY <2>2, <1>1, <1>4 DEF GoneHoldNothing
<1>9. \A u \in Threads : on[u] \in k'.heap \union {NULL}
  <2>1. on \in Placements /\ m \notin Conds /\ m # NULL
        /\ \A u \in Threads : on[u] \in k.heap \union {NULL}
    BY KernelAssumption DEF GoodNow, Good, QueuesInv
  <2> QED BY <1>4, <2>1 DEF Placements
<1> QED BY <1>1, <1>5, <1>6, <1>7, <1>8, <1>9 DEF GoodNow, Good, Depths

\* The thread takes the mutex, relocks it, or blocks and gives up the processor.
LEMMA KeepsMutexLock ==
  ASSUME NEW on, GoodNow(on), NEW t \in Threads, NEW m \in Mutexes, syscall_mutex_lock(t, m)
  PROVE  GoodNow(on)'
<1> DEFINE k1 == kmutex_lock(k, m, t)
           d == [depth EXCEPT ![t][m] = @ + 1]
<1>1. /\ t \in k.heap /\ t \notin exited /\ k.current = t /\ t # Main /\ t # NULL
      /\ k.state[t] = "RUNNING" /\ m \in k.heap /\ MayLock(t, m)
      /\ k' = DispatchIfBlocked(k1) /\ depth' = d /\ exited' = exited
      /\ k \in Memory /\ depth \in Depths /\ QueuesInv(k, on)
  BY CallerRuns DEF syscall_mutex_lock, MayLock, GoodNow, Good, Depths
<1>2. /\ depth[t][m] < MaxDepth
      /\ depth[t][m] # 0 => m \in Recursive
      /\ depth[t][m] \in Nat
  BY <1>1, MutexSystemAssumption DEF MayLock, Depths
<1>3. CASE k.owner[m] = NULL
  <2>1. k1 = [k EXCEPT !.owner[m] = t, !.lock_count[m] = 1]
    BY <1>1, <1>3 DEF kmutex_lock
  <2> HIDE DEF k1
  <2>2. depth[t][m] = 0 /\ Good(k1, on, [depth EXCEPT ![t][m] = 1], exited)
    <3>1. /\ Good(k, on, depth, exited) /\ t \notin exited /\ k.state[t] # "BLOCKED"
          /\ t \in Threads \intersect k.heap /\ m \in Mutexes \intersect k.heap
      BY <1>1 DEF GoodNow
    <3>2. /\ depth[t][m] = 0
          /\ Good([k EXCEPT !.owner[m] = t, !.lock_count[m] = 1],
                  on, [depth EXCEPT ![t][m] = 1], exited)
      BY <1>3, <3>1, AcquireKeeps
    <3> QED BY <2>1, <3>2
  <2>3. d = [depth EXCEPT ![t][m] = 1]
    BY <1>1, <2>2 DEF Depths
  <2>4. k1.state = k.state /\ k1.current = k.current
    BY <2>1, <1>1 DEF Memory
  <2> QED BY <1>1, <2>2, <2>3, <2>4 DEF DispatchIfBlocked, GoodNow
<1>4. CASE k.owner[m] = t
  <2>1. depth[t][m] > 0 /\ k.lock_count[m] = depth[t][m]
    BY <1>1, <1>4 DEF GoodNow, Good, OwnersInv
  <2>2. m \in Recursive /\ depth[t][m] + 1 \in 1 .. MaxDepth
    BY <1>2, <2>1, MutexSystemAssumption
  <2>3. (k.lock_count[m] + 1) % CountMod = depth[t][m] + 1
    BY <1>2, <2>1, <2>2, MutexSystemAssumption, KernelAssumption
  <2> DEFINE n == depth[t][m] + 1
  <2>4. k1 = [k EXCEPT !.lock_count[m] = n]
    BY <1>1, <1>4, <2>2, <2>3 DEF kmutex_lock, Memory
  <2>5. d = [depth EXCEPT ![t][m] = n]
    BY <1>1 DEF Depths
  <2>6. n \in 1 .. MaxDepth
    BY <2>2
  <2> HIDE DEF n
  <2>7. Good(k1, on, d, exited)
    BY <1>4, <2>2, <2>4, <2>5, <2>6, RecountKeeps DEF GoodNow
  <2>8. k1.state = k.state /\ k1.current = k.current
    BY <2>4, <1>1 DEF Memory
  <2> QED BY <1>1, <2>7, <2>8 DEF DispatchIfBlocked, GoodNow
<1>5. CASE k.owner[m] \notin {NULL, t}
  <2>1. k1 = Block(k, m, t)
    BY <1>1, <1>5 DEF kmutex_lock
  <2> HIDE DEF k1
  <2>2. Blocked(k1, k, on, t, m)
    BY <1>1, <2>1, BlockEffect
  <2>3. t \notin BlockedOn(k, m)
    BY <1>1 DEF BlockedOn
  <2>4. depth[t][m] = 0
    BY <1>2, <1>5, <2>3 DEF GoodNow, Good, OwnersInv
  <2>5. d \in Depths /\ \A u \in Threads, n \in Mutexes :
                          d[u][n] = IF u = t /\ n = m THEN 1 ELSE depth[u][n]
    BY <1>1, <2>4, MutexSystemAssumption DEF Depths
  <2> HIDE DEF d
  <2>6. \A u \in All : k1.state[u] = IF u = t THEN "BLOCKED" ELSE k.state[u]
    BY <1>1, <2>2 DEF Blocked, Memory, All
  <2>7. MidTrap(k1, on, exited)
    <3>1. MidTrap(k, on, exited)
      BY GoodIsMidTrap DEF GoodNow
    <3>2. Threads \subseteq All /\ t \in All
      BY DEF All
    <3>3. k1.current = t /\ k1.heap = k.heap /\ k1 \in Memory /\ QueuesInv(k1, on)
      BY <1>1, <2>2 DEF Blocked
    <3> QED BY <1>1, <2>6, <3>1, <3>2, <3>3 DEF MidTrap
  <2>8. OwnersInv(k1, on, d)
    <3>1. /\ k1.owner = k.owner /\ k1.lock_count = k.lock_count
          /\ WaitSet(k1, on, m) = WaitSet(k, on, m) \union {t}
          /\ \A n \in Mutexes \ {m} : WaitSet(k1, on, n) = WaitSet(k, on, n)
          /\ BlockedOn(k1, m) = BlockedOn(k, m) \union {t}
          /\ \A n \in Mutexes \ {m} : BlockedOn(k1, n) = BlockedOn(k, n)
      BY <2>2 DEF Blocked
    <3>2. \A n \in Mutexes :
            /\ k1.owner[n] \in Threads \union {NULL}
            /\ k1.owner[n] = NULL => k1.lock_count[n] = 0 /\ WaitSet(k1, on, n) = {}
            /\ k1.owner[n] # NULL =>
                 k1.lock_count[n] > 0 /\ k1.lock_count[n] = d[k1.owner[n]][n]
            /\ n \notin Recursive => k1.lock_count[n] \in {0, 1}
      BY <1>5, <2>5, <3>1 DEF GoodNow, Good, OwnersInv
    <3>3. ASSUME NEW u \in Threads, NEW n \in Mutexes
          PROVE  /\ d[u][n] > 0 <=> k1.owner[n] = u \/ u \in BlockedOn(k1, n)
                 /\ u \in BlockedOn(k1, n) => k1.owner[n] # u /\ d[u][n] = 1
      <4>1. CASE u = t /\ n = m
        BY <4>1, <1>5, <2>5, <3>1
      <4>2. CASE ~(u = t /\ n = m)
        BY <4>2, <2>5, <3>1 DEF GoodNow, Good, OwnersInv
      <4> QED BY <4>1, <4>2
    <3> QED BY <3>2, <3>3 DEF OwnersInv
  <2>9. GoneHoldNothing(k1, d, exited)
    BY <1>1, <2>2, <2>5 DEF Blocked, GoodNow, Good, GoneHoldNothing
  <2>10. Good(kthread_dispatch(k1), on, d, exited)
    BY <2>5, <2>7, <2>8, <2>9, DispatchRestores
  <2>11. k' = kthread_dispatch(k1)
    BY <1>1, <2>2, <2>6 DEF DispatchIfBlocked, Blocked, All
  <2> QED BY <1>1, <2>10, <2>11 DEF GoodNow
<1> QED BY <1>3, <1>4, <1>5

LEMMA KeepsMutexTryLock ==
  ASSUME NEW on, GoodNow(on), NEW t \in Threads, NEW m \in Mutexes, syscall_mutex_try_lock(t, m)
  PROVE  GoodNow(on)'
<1>1. /\ t \in k.heap /\ t \notin exited /\ m \in k.heap /\ k.state[t] # "BLOCKED"
      /\ k' = kmutex_try_lock(k, m, t)
      /\ depth' = IF k.owner[m] = NULL THEN [depth EXCEPT ![t][m] = 1] ELSE depth
      /\ exited' = exited
  BY CallerRuns DEF syscall_mutex_try_lock
<1>2. CASE k.owner[m] = NULL
  <2>1. Good([k EXCEPT !.owner[m] = t, !.lock_count[m] = 1],
             on, [depth EXCEPT ![t][m] = 1], exited)
    BY <1>1, <1>2, AcquireKeeps DEF GoodNow
  <2> QED BY <1>1, <1>2, <2>1 DEF kmutex_try_lock, GoodNow
<1>3. CASE k.owner[m] # NULL
  BY <1>1, <1>3 DEF kmutex_try_lock, GoodNow
<1> QED BY <1>2, <1>3

\* The owner gives up one level, or the mutex, to its first waiter if any.
LEMMA KeepsMutexUnlock ==
  ASSUME NEW on, GoodNow(on), NEW t \in Threads, NEW m \in Mutexes, syscall_mutex_unlock(t, m)
  PROVE  GoodNow(on)'
<1> DEFINE count == (k.lock_count[m] - 1) % CountMod
           d == [depth EXCEPT ![t][m] = @ - 1]
<1>1. /\ k' = kmutex_unlock(k, m, t) /\ exited' = exited
      /\ depth' = IF k.owner[m] = t THEN d ELSE depth
      /\ k \in Memory /\ depth \in Depths /\ t # NULL
  BY KernelAssumption DEF syscall_mutex_unlock, GoodNow, Good, Depths
<1>2. CASE k.owner[m] # t
  BY <1>1, <1>2 DEF kmutex_unlock, GoodNow
<1>3. CASE k.owner[m] = t
  <2>1. /\ depth[t][m] > 0 /\ k.lock_count[m] = depth[t][m]
        /\ depth[t][m] \in 0 .. MaxDepth
        /\ m \notin Recursive => depth[t][m] = 1
    BY <1>1, <1>3 DEF GoodNow, Good, OwnersInv, Depths
  <2>2. count = depth[t][m] - 1 /\ count \in 0 .. MaxDepth
    <3>1. ASSUME NEW c \in 1 .. MaxDepth PROVE (c - 1) % CountMod = c - 1
      BY KernelAssumption, MutexSystemAssumption
    <3>2. depth[t][m] \in 1 .. MaxDepth
      BY <2>1, MutexSystemAssumption
    <3>3. count = depth[t][m] - 1
      BY <2>1, <3>1, <3>2
    <3> QED BY <3>2, <3>3, MutexSystemAssumption
  <2>3. d = [depth EXCEPT ![t][m] = count]
    BY <1>1, <2>2 DEF Depths
  <2>4. (m \in Recursive /\ count > 0) \/ count = 0
    BY <2>1, <2>2
  <2>5. depth' = [depth EXCEPT ![t][m] = count]
    BY <1>1, <1>3, <2>3
  <2>6. CASE m \in Recursive /\ count > 0
    <3>1. k' = [k EXCEPT !.lock_count[m] = count]
      BY <1>1, <1>3, <2>6 DEF kmutex_unlock
    <3>2. count \in 1 .. MaxDepth
      BY <2>2, <2>6
    <3> HIDE DEF count
    <3>3. Good([k EXCEPT !.lock_count[m] = count], on, [depth EXCEPT ![t][m] = count], exited)
      BY <1>3, <2>6, <3>2, RecountKeeps DEF GoodNow
    <3> QED BY <1>1, <2>5, <3>1, <3>3 DEF GoodNow
  <2>7. CASE count = 0 /\ k.mhead[m] = NULL
    <3>1. k' = [k EXCEPT !.lock_count[m] = count, !.owner[m] = NULL]
      BY <1>1, <1>3, <2>7 DEF kmutex_unlock
    <3>2. Good([k EXCEPT !.lock_count[m] = 0, !.owner[m] = NULL],
               on, [depth EXCEPT ![t][m] = 0], exited)
      BY <1>3, <2>7, FreeKeeps DEF GoodNow
    <3> QED BY <1>1, <2>5, <2>7, <3>1, <3>2 DEF GoodNow
  <2>8. CASE count = 0 /\ k.mhead[m] # NULL
    <3>1. k' = HandOff(k, m)
      BY <1>1, <1>3, <2>8 DEF kmutex_unlock
    <3>2. Good(HandOff(k, m), on, [depth EXCEPT ![t][m] = 0], exited)
      BY <1>3, <2>8, HandOffKeeps DEF GoodNow
    <3> QED BY <1>1, <2>5, <2>8, <3>1, <3>2 DEF GoodNow
  <2> QED BY <2>4, <2>6, <2>7, <2>8
<1> QED BY <1>2, <1>3


-----------------------------------------------------------------------------
(* The theorems *)

\* No step breaks the invariant, as long as users detach exited threads only.
LEMMA NextKeeps ==
  ASSUME DetachLive = FALSE, NEW on, GoodNow(on), [Next]_vars PROVE GoodNow(on)'
<1>1. ASSUME NEW t \in Threads, ThreadCall(t) PROVE GoodNow(on)'
  BY <1>1, KeepsThreadCreate, KeepsThreadExit, KeepsThreadDetach DEF ThreadCall
<1>2. ASSUME NEW t \in Threads, MutexCall(t) PROVE GoodNow(on)'
  BY <1>2, KeepsMutexCreate, KeepsMutexDestroy, KeepsMutexLock, KeepsMutexTryLock,
     KeepsMutexUnlock DEF MutexCall
<1>3. CASE syscall_thread_dispatch
  BY <1>3, KeepsDispatch DEF syscall_thread_dispatch
<1>4. CASE timer_interrupt
  BY <1>4, KeepsDispatch DEF timer_interrupt
<1>5. CASE UNCHANGED vars
  BY <1>5 DEF vars, GoodNow
<1> QED BY <1>1, <1>2, <1>3, <1>4, <1>5 DEF Next

\* The inductive invariant holds in every reachable state: whatever the users
\* do and whenever the timer fires, every queue of the kernel is a list of
\* exactly the threads whose state says so, and the owner and the count of every
\* mutex are what the users believe (scheduler.c, thread.c, mutex.c).
THEOREM Invariance == ASSUME DetachLive = FALSE PROVE Spec => []IInv
<1>1. Init => IInv
  BY InitEstablishes
<1>2. IInv /\ [Next]_vars => IInv'
  BY NextKeeps DEF IInv
<1> QED BY <1>1, <1>2, PTL DEF Spec

\* The kernel's memory and the users' accounts keep their types.
THEOREM TypeCorrect == ASSUME DetachLive = FALSE PROVE Spec => []TypeOK
<1>1. IInv => TypeOK
  BY DEF IInv, GoodNow, Good, ThreadsInv, TypeOK, All
<1> QED BY <1>1, Invariance, PTL

\* No two threads that can execute ever hold the same mutex (mutex.c:15-78).
THEOREM Exclusion == ASSUME DetachLive = FALSE PROVE Spec => []MutualExclusion
<1>1. IInv => MutualExclusion
  BY DEF IInv, GoodNow, Good, OwnersInv, BlockedOn, MutualExclusion
<1> QED BY <1>1, Invariance, PTL

\* A mutex somebody waits for is owned by somebody else (mutex.c:60-75).
THEOREM NoOrphanedWaiters == ASSUME DetachLive = FALSE PROVE Spec => []WaitersHaveAnOwner
<1>1. IInv => WaitersHaveAnOwner
  <2> SUFFICES ASSUME IInv, NEW t \in Threads, NEW m \in Mutexes, t \in BlockedOn(k, m)
               PROVE  k.owner[m] # NULL /\ k.owner[m] # t
    BY DEF WaitersHaveAnOwner, BlockedOn
  <2>1. t \in WaitSet(k, NobodySleeps, m)
    BY NobodyAsleep
  <2> QED BY <2>1 DEF IInv, GoodNow, Good, OwnersInv
<1> QED BY <1>1, Invariance, PTL

\* The count of a mutex is its owner's depth, modulo nothing (mutex.c:55-58).
THEOREM CountCorrect == ASSUME DetachLive = FALSE PROVE Spec => []CountIsDepth
<1>1. IInv => CountIsDepth
  BY KernelAssumption DEF IInv, GoodNow, Good, OwnersInv, CountIsDepth
<1> QED BY <1>1, Invariance, PTL

\* The ready list and the queues of the mutexes hold the threads their state
\* says they do.
LEMMA QueuesHoldTheirSets ==
  ASSUME IInv
  PROVE  /\ Chain(k, k.head) = ReadySet(k)
         /\ \A m \in Mutexes : Chain(k, k.mhead[m]) = BlockedOn(k, m)
<1>1. QueuesInv(k, NobodySleeps)
  BY DEF IInv, GoodNow, Good
<1> QED BY <1>1, ChainsAreSets, NobodyAsleep

\* No thread is lost and none is in two queues, although a thread has a single
\* link for all of them (scheduler.c:8-35, mutex.c:25-78).
THEOREM NothingLost == ASSUME DetachLive = FALSE PROVE Spec => []NoThreadLost
<1>1. IInv => NoThreadLost
  <2> SUFFICES ASSUME IInv PROVE NoThreadLost
    OBVIOUS
  <2>1. /\ Chain(k, k.head) = ReadySet(k)
        /\ \A m \in Mutexes : Chain(k, k.mhead[m]) = BlockedOn(k, m)
    BY QueuesHoldTheirSets
  <2> QED BY <2>1 DEF IInv, GoodNow, Good, QueuesInv, ThreadsInv, ReadySet, BlockedOn, NoThreadLost
<1> QED BY <1>1, Invariance, PTL

\* The kernel never reaches a thread whose memory it has returned to the heap
\* (thread.c:122-132, exceptions/syscalls.c:57-67), as long as users detach
\* exited threads only.
THEOREM NothingDangles == ASSUME DetachLive = FALSE PROVE Spec => []NoDanglingThread
<1>1. IInv => NoDanglingThread
  <2> SUFFICES ASSUME IInv PROVE NoDanglingThread
    OBVIOUS
  <2>1. /\ Chain(k, k.head) = ReadySet(k)
        /\ \A m \in Mutexes : Chain(k, k.mhead[m]) = BlockedOn(k, m)
    BY QueuesHoldTheirSets
  <2>2. \A m \in Mutexes : k.owner[m] # NULL => k.owner[m] \in k.heap
    BY KernelAssumption DEF IInv, GoodNow, Good, OwnersInv, GoneHoldNothing
  <2> QED BY <2>1, <2>2 DEF IInv, GoodNow, Good, ThreadsInv, ReadySet, BlockedOn, NoDanglingThread
<1> QED BY <1>1, Invariance, PTL


\* What a system call other than unlock does to the owner of a mutex that has
\* one: nothing.
LEMMA OwnersStay ==
  ASSUME NEW on, GoodNow(on), [Next]_vars, NEW m \in Mutexes, k.owner[m] # NULL,
         k'.owner[m] # k.owner[m]
  PROVE  \E t \in Threads : syscall_mutex_unlock(t, m) /\ k.owner[m] = t
<1>1. k \in Memory /\ QueuesInv(k, on) /\ MidTrap(k, on, exited)
  BY GoodIsMidTrap DEF GoodNow, Good
<1>2. ASSUME k' = kthread_dispatch(k) PROVE FALSE
  <2>1. SameMutexes(kthread_dispatch(k), k)
    BY <1>1, DispatchEffect DEF MidTrap, Dispatched
  <2> QED BY <1>2, <2>1 DEF SameMutexes
<1>3. ASSUME NEW t \in Threads, ThreadCall(t) PROVE FALSE
  <2>1. CASE syscall_thread_create(t)
    BY <1>1, <2>1 DEF syscall_thread_create, kscheduler_enqueue, kthread_create, Memory
  <2>2. CASE syscall_thread_exit(t)
    <3> DEFINE mem == [k EXCEPT !.current = NULL]
    <3>1. mem \in Memory /\ SameQueues(mem, k) /\ mem.owner = k.owner /\ mem.current = NULL
      BY <1>1 DEF Memory, SameQueues
    <3> HIDE DEF mem
    <3>2. QueuesInv(mem, on)
      BY <1>1, <3>1, QueuesFrame
    <3>3. SameMutexes(kthread_dispatch(mem), mem)
      BY <3>1, <3>2, DispatchEffect DEF Dispatched
    <3>4. k' = kthread_dispatch(mem)
      BY <2>2 DEF syscall_thread_exit, kthread_stop, mem
    <3> QED BY <3>1, <3>3, <3>4 DEF SameMutexes
  <2>3. CASE syscall_thread_detach(t)
    BY <1>1, <2>3 DEF syscall_thread_detach, kthread_destroy, Memory
  <2> QED BY <1>3, <2>1, <2>2, <2>3 DEF ThreadCall
<1>4. ASSUME NEW t \in Threads, MutexCall(t)
      PROVE  syscall_mutex_unlock(t, m) /\ k.owner[m] = t
  <2>1. ASSUME syscall_mutex_create(t) PROVE FALSE
    <3>1. m \in k.heap
      BY DEF GoodNow, Good, OwnersInv, GoneHoldNothing
    <3> QED BY <1>1, <2>1, <3>1 DEF syscall_mutex_create, kmutex_init, Memory
  <2>2. ASSUME syscall_mutex_destroy(t) PROVE FALSE
    BY <1>1, <2>2 DEF syscall_mutex_destroy, kmutex_destroy, Memory
  <2>3. ASSUME NEW n \in Mutexes, syscall_mutex_lock(t, n) PROVE FALSE
    <3> DEFINE k1 == kmutex_lock(k, n, t)
    <3>1. t # NULL /\ t \in Threads /\ k.state[t] = "RUNNING" /\ k.current = t
      BY <2>3, CallerRuns DEF syscall_mutex_lock
    <3>2. k' = DispatchIfBlocked(k1)
      BY <2>3 DEF syscall_mutex_lock
    <3>3. CASE k.owner[n] \in {NULL, t}
      <4>1. k1.owner[m] = k.owner[m] /\ k1.state = k.state /\ k1.current = k.current
        BY <1>1, <3>1, <3>3 DEF kmutex_lock, Memory
      <4> QED BY <3>1, <3>2, <4>1 DEF DispatchIfBlocked
    <3>4. CASE k.owner[n] \notin {NULL, t}
      <4>1. k1 = Block(k, n, t)
        BY <3>1, <3>4 DEF kmutex_lock
      <4> HIDE DEF k1
      <4>2. Blocked(k1, k, on, t, n)
        BY <1>1, <3>1, <4>1, BlockEffect
      <4>3. k1.state[t] = "BLOCKED" /\ k1.current = t
        BY <1>1, <3>1, <4>2 DEF Blocked, Memory, All
      <4>4. SameMutexes(kthread_dispatch(k1), k1)
        BY <4>2, <4>3, DispatchEffect DEF Blocked, Dispatched
      <4> QED BY <3>2, <4>2, <4>3, <4>4 DEF DispatchIfBlocked, Blocked, SameMutexes
    <3> QED BY <3>3, <3>4
  <2>4. ASSUME NEW n \in Mutexes, syscall_mutex_try_lock(t, n) PROVE FALSE
    BY <1>1, <2>4 DEF syscall_mutex_try_lock, kmutex_try_lock, Memory
  <2>5. ASSUME NEW n \in Mutexes, syscall_mutex_unlock(t, n)
        PROVE  n = m /\ k.owner[m] = t
    <3>1. k.owner[n] = t
      BY <2>5 DEF syscall_mutex_unlock, kmutex_unlock
    <3>2. ASSUME n # m PROVE FALSE
      <4>1. HandOff(k, n).owner[m] = k.owner[m]
        BY <1>1, <3>2 DEF HandOff, kscheduler_enqueue, Memory
      <4> QED BY <1>1, <2>5, <3>1, <3>2, <4>1 DEF syscall_mutex_unlock, kmutex_unlock, Memory
    <3> QED BY <3>1, <3>2
  <2> QED BY <1>4, <2>1, <2>2, <2>3, <2>4, <2>5 DEF MutexCall
<1>5. CASE UNCHANGED vars
  BY <1>5 DEF vars
<1>6. CASE syscall_thread_dispatch \/ timer_interrupt
  BY <1>2, <1>6 DEF syscall_thread_dispatch, timer_interrupt
<1> QED BY <1>3, <1>4, <1>5, <1>6 DEF Next

\* A mutex changes hands only by its owner's last unlock (mutex.c:51-78): no
\* lock, try_lock, failing unlock, exit or timer interrupt takes it away.
THEOREM OnlyOwnersRelease == ASSUME DetachLive = FALSE PROVE Spec => OnlyTheOwnerReleases
<1>1. IInv /\ IInv' /\ [Next]_vars =>
        [\A m \in Mutexes :
           k.owner[m] # NULL /\ k'.owner[m] # k.owner[m]
             => k.current = k.owner[m] /\ depth'[k.owner[m]][m] = 0]_vars
  <2> SUFFICES ASSUME IInv, IInv', [Next]_vars, NEW m \in Mutexes,
                      k.owner[m] # NULL, k'.owner[m] # k.owner[m]
               PROVE  k.current = k.owner[m] /\ depth'[k.owner[m]][m] = 0
    OBVIOUS
  <2>1. PICK t \in Threads : syscall_mutex_unlock(t, m) /\ k.owner[m] = t
    BY OwnersStay DEF IInv
  <2>2. k.current = t /\ k' = kmutex_unlock(k, m, t)
    BY <2>1 DEF syscall_mutex_unlock, Caller
  <2>3. k'.current = k.current
    BY <2>2 DEF kmutex_unlock, HandOff, kscheduler_enqueue, IInv, Good, Memory
  <2>4. k'.state[t] = "RUNNING" /\ depth' \in Depths
    BY <2>2, <2>3, KernelAssumption DEF IInv, GoodNow, Good, ThreadsInv, Depths
  <2>5. ~(depth'[t][m] > 0)
    BY <2>1, <2>4 DEF IInv, GoodNow, Good, OwnersInv, BlockedOn
  <2>6. depth'[t][m] \in Nat
    BY <2>4 DEF Depths
  <2> QED BY <2>1, <2>2, <2>5, <2>6
<1> QED BY <1>1, Invariance, PTL DEF Spec, OnlyTheOwnerReleases

-----------------------------------------------------------------------------
(* Conditions: the placement of the sleeping threads is the same after every *)
(* trap but those that put a thread to sleep or wake some. *)

\* The threads the code can reach from the head of a condition are the sleepers.
LEMMA SleepersAreSet ==
  ASSUME NEW on, GoodNow(on), NEW c \in Conds PROVE Sleepers(c) = SleepSet(on, c)
BY ChainsAreSets DEF Sleepers, GoodNow, Good

-----------------------------------------------------------------------------
(* One lemma per action *)

\* The queue of a new condition is empty, because nobody sleeps on a condition
\* that does not exist.
LEMMA KeepsCondCreate ==
  ASSUME NEW on, GoodNow(on), NEW t \in Threads, syscall_cond_create(t) PROVE GoodNow(on)'
<1> PICK c \in Conds \ k.heap :
           k' = [kcond_init(k, c) EXCEPT !.heap = k.heap \union {c}]
  BY DEF syscall_cond_create
<1>1. /\ depth' = depth /\ exited' = exited /\ k \in Memory /\ depth \in Depths
      /\ on \in Placements /\ QueuesInv(k, on)
  BY DEF syscall_cond_create, GoodNow, Good, Depths, QueuesInv
<1>2. c \notin Threads /\ c \notin Mutexes /\ c # NULL /\ c \in Objects
  BY KernelAssumption DEF Objects
<1>3. SleepSet(on, c) = {}
  BY <1>2 DEF SleepSet, GoodNow, Good
<1>4. k.chead[c] = NULL /\ k.ctail[c] = NULL
  BY <1>1, <1>3 DEF QueuesInv, IsQueue
<1>5. /\ SameQueues(k', k) /\ k'.current = k.current
      /\ k'.heap = k.heap \union {c}
      /\ k'.owner = k.owner /\ k'.lock_count = k.lock_count
  BY <1>1, <1>4 DEF kcond_init, Memory, SameQueues
<1>6. k' \in Memory
  BY <1>1, <1>2 DEF kcond_init, Memory
<1>7. QueuesInv(k', on) /\ OwnersInv(k', on, depth')
  <2> DEFINE r == k'
  <2>1. SameQueues(r, k) /\ r.owner = k.owner /\ r.lock_count = k.lock_count
    BY <1>5
  <2> HIDE DEF r
  <2>2. QueuesInv(r, on) /\ SameWaiters(r, k, on)
    BY <1>1, <2>1, QueuesFrame
  <2>3. OwnersInv(r, on, depth)
    BY <2>1, <2>2, OwnersFrame DEF GoodNow, Good
  <2> QED BY <2>2, <2>3, <1>1 DEF r
<1>8. ThreadsInv(k', exited')
  BY <1>1, <1>2, <1>5 DEF GoodNow, Good, ThreadsInv, SameQueues
<1>9. GoneHoldNothing(k', depth', exited')
  BY <1>1, <1>2, <1>5 DEF GoodNow, Good, GoneHoldNothing
<1>10. \A u \in Threads : on[u] \in k'.heap \union {NULL}
  BY <1>5 DEF GoodNow, Good
<1> QED BY <1>1, <1>6, <1>7, <1>8, <1>9, <1>10 DEF GoodNow, Good, Depths

\* A condition with no sleeper has no thread that could be destroyed with it.
LEMMA KeepsCondDestroy ==
  ASSUME NEW on, GoodNow(on), NEW t \in Threads, syscall_cond_destroy(t) PROVE GoodNow(on)'
<1> PICK c \in Conds \intersect k.heap :
           /\ Sleepers(c) = {}
           /\ k' = [kcond_destroy(k, c) EXCEPT !.heap = @ \ {c}]
  BY DEF syscall_cond_destroy
<1>1. /\ depth' = depth /\ exited' = exited /\ k \in Memory /\ depth \in Depths
      /\ on \in Placements /\ QueuesInv(k, on)
  BY DEF syscall_cond_destroy, GoodNow, Good, Depths, QueuesInv
<1>2. c \notin Threads /\ c \notin Mutexes /\ c # NULL
  BY KernelAssumption
<1>3. SleepSet(on, c) = {}
  BY SleepersAreSet
<1>4. Chain(k, k.chead[c]) = {}
  BY DEF Sleepers
<1>5. /\ SameQueues(k', k) /\ k'.current = k.current
      /\ k'.heap = k.heap \ {c}
      /\ k'.owner = k.owner /\ k'.lock_count = k.lock_count
  BY <1>1, <1>4 DEF kcond_destroy, Memory, SameQueues
<1>6. k' \in Memory
  BY <1>1 DEF kcond_destroy, Memory
<1>7. QueuesInv(k', on) /\ OwnersInv(k', on, depth')
  <2> DEFINE r == k'
  <2>1. SameQueues(r, k) /\ r.owner = k.owner /\ r.lock_count = k.lock_count
    BY <1>5
  <2> HIDE DEF r
  <2>2. QueuesInv(r, on) /\ SameWaiters(r, k, on)
    BY <1>1, <2>1, QueuesFrame
  <2>3. OwnersInv(r, on, depth)
    BY <2>1, <2>2, OwnersFrame DEF GoodNow, Good
  <2> QED BY <2>2, <2>3, <1>1 DEF r
<1>8. ThreadsInv(k', exited')
  BY <1>1, <1>2, <1>5 DEF GoodNow, Good, ThreadsInv, SameQueues
<1>9. GoneHoldNothing(k', depth', exited')
  BY <1>1, <1>2, <1>5 DEF GoodNow, Good, GoneHoldNothing
<1>10. \A u \in Threads : on[u] \in k'.heap \union {NULL}
  BY <1>3, <1>5 DEF GoodNow, Good, SleepSet
<1> QED BY <1>1, <1>6, <1>7, <1>8, <1>9, <1>10 DEF GoodNow, Good, Depths

\* The caller falls asleep on c, and m passes to its first waiter if it has one.
LEMMA KeepsCondWait ==
  ASSUME NEW on, GoodNow(on), NEW t \in Threads, NEW c \in Conds, NEW m \in Mutexes,
         syscall_cond_wait(t, c, m)
  PROVE  GoodNow([on EXCEPT ![t] = c])'
<1> DEFINE on2 == [on EXCEPT ![t] = c]
           r == kcond_wait(k, c, m, t)
<1>1. /\ t \in k.heap /\ t \notin exited /\ k.current = t /\ k.state[t] = "RUNNING"
      /\ t # Main /\ t # NULL
  BY CallerRuns DEF syscall_cond_wait
<1>2. /\ depth' = depth /\ exited' = exited /\ k \in Memory /\ depth \in Depths
      /\ on \in Placements /\ QueuesInv(k, on) /\ c \in k.heap /\ depth[t][m] = 1
      /\ MutexesOf(c) \subseteq {m} /\ k' = DispatchIfBlocked(r)
  BY DEF syscall_cond_wait, GoodNow, Good, Depths, QueuesInv
<1>3. \A u \in SleepSet(on, c) : k.waiting_on[u] = m
  BY <1>2, SleepersAreSet DEF MutexesOf
<1>4. k.owner[m] = t /\ k.lock_count[m] = 1
  <2>1. t \notin BlockedOn(k, m)
    BY <1>1 DEF BlockedOn
  <2>2. k.owner[m] = t
    BY <1>2, <2>1 DEF GoodNow, Good, OwnersInv
  <2> QED BY <1>1, <1>2, <2>2 DEF GoodNow, Good, OwnersInv
<1>5. PICK W : GaveUp(r, k, on, c, m, t, W)
  BY <1>1, <1>2, <1>3, <1>4, WaitEffect
<1>6. NULL \notin All /\ Threads \subseteq All /\ Main \notin Threads
  BY KernelAssumption DEF All
<1>7. \A u \in Threads : on2[u] = IF u = t THEN c ELSE on[u]
  BY <1>2 DEF Placements
<1> HIDE DEF r, on2
<1>8. /\ r \in Memory /\ QueuesInv(r, on2) /\ r.current = t /\ r.heap = k.heap
      /\ \A u \in Threads :
           r.state[u] = IF u = t THEN "BLOCKED" ELSE IF u \in W THEN "READY" ELSE k.state[u]
  BY <1>1, <1>5 DEF GaveUp, on2
<1>9. \A u \in W : /\ u \in Threads /\ u \in WaitSet(k, on, m) /\ u \in BlockedOn(k, m)
                   /\ k.state[u] = "BLOCKED" /\ u # t /\ u # NULL
                   /\ u \in k.heap /\ u \notin exited
  BY <1>1, <1>5, <1>6 DEF GaveUp, WaitSet, BlockedOn, GoodNow, Good, ThreadsInv
<1>10. MidTrap(r, on2, exited)
  <2>1. MidTrap(k, on, exited)
    BY GoodIsMidTrap DEF GoodNow
  <2>2. \A u \in Threads : on2[u] \in r.heap \union {NULL}
    BY <1>2, <1>7, <1>8, <2>1 DEF MidTrap
  <2> QED BY <1>1, <1>8, <1>9, <2>1, <2>2 DEF MidTrap
<1>11. OwnersInv(r, on2, depth)
  <2>1. /\ WaitSet(r, on2, m) = WaitSet(k, on, m) \ W
        /\ \A n \in Mutexes \ {m} : WaitSet(r, on2, n) = WaitSet(k, on, n)
        /\ BlockedOn(r, m) = (BlockedOn(k, m) \ W) \union {t}
        /\ \A n \in Mutexes \ {m} : BlockedOn(r, n) = BlockedOn(k, n)
    BY <1>5 DEF GaveUp, on2
  <2>2. \A n \in Mutexes \ {m} : r.owner[n] = k.owner[n] /\ r.lock_count[n] = k.lock_count[n]
    BY <1>2, <1>5 DEF GaveUp, Memory
  <2>3. \A n \in Mutexes \ {m} :
          /\ r.owner[n] \in Threads \union {NULL}
          /\ r.owner[n] = NULL => r.lock_count[n] = 0 /\ WaitSet(r, on2, n) = {}
          /\ r.owner[n] # NULL => r.lock_count[n] > 0 /\ r.lock_count[n] = depth[r.owner[n]][n]
          /\ n \notin Recursive => r.lock_count[n] \in {0, 1}
    BY <2>1, <2>2 DEF GoodNow, Good, OwnersInv
  <2>4. ASSUME NEW u \in Threads, NEW n \in Mutexes \ {m}
        PROVE  /\ depth[u][n] > 0 <=> r.owner[n] = u \/ u \in BlockedOn(r, n)
               /\ u \in BlockedOn(r, n) => r.owner[n] # u /\ depth[u][n] = 1
    BY <2>1, <2>2 DEF GoodNow, Good, OwnersInv
  <2>5. \A u \in Threads : u # t => (depth[u][m] > 0 <=> u \in BlockedOn(k, m))
                                 /\ (u \in BlockedOn(k, m) => depth[u][m] = 1)
    BY <1>4 DEF GoodNow, Good, OwnersInv
  <2>6. CASE W = {} /\ WaitSet(k, on, m) = {} /\ r.owner[m] = NULL /\ r.lock_count[m] = 0
    <3>1. ASSUME NEW u \in Threads
          PROVE  /\ depth[u][m] > 0 <=> r.owner[m] = u \/ u \in BlockedOn(r, m)
                 /\ u \in BlockedOn(r, m) => r.owner[m] # u /\ depth[u][m] = 1
      BY <1>2, <1>6, <2>1, <2>5, <2>6
    <3> QED BY <2>1, <2>3, <2>4, <2>6, <3>1 DEF OwnersInv
  <2>7. ASSUME NEW w \in W, W = {w}, r.owner[m] = w, r.lock_count[m] = 1
        PROVE  OwnersInv(r, on2, depth)
    <3>1. depth[w][m] = 1 /\ w \in Threads /\ w # NULL /\ w # t
      BY <1>9, <2>5
    <3>2. ASSUME NEW u \in Threads
          PROVE  /\ depth[u][m] > 0 <=> r.owner[m] = u \/ u \in BlockedOn(r, m)
                 /\ u \in BlockedOn(r, m) => r.owner[m] # u /\ depth[u][m] = 1
      BY <1>2, <2>1, <2>5, <2>7, <3>1
    <3> QED BY <2>3, <2>4, <2>7, <3>1, <3>2 DEF OwnersInv
  <2>8. \/ W = {} /\ WaitSet(k, on, m) = {} /\ r.owner[m] = NULL /\ r.lock_count[m] = 0
        \/ \E w \in W : W = {w} /\ r.owner[m] = w /\ r.lock_count[m] = 1
    BY <1>2, <1>5 DEF GaveUp, Memory
  <2> QED BY <2>6, <2>7, <2>8
<1>12. GoneHoldNothing(r, depth, exited)
  BY <1>8 DEF GoodNow, Good, GoneHoldNothing
<1>13. Good(kthread_dispatch(r), on2, depth, exited)
  BY <1>2, <1>10, <1>11, <1>12, DispatchRestores
<1>14. k' = kthread_dispatch(r)
  BY <1>2, <1>8 DEF DispatchIfBlocked
<1>15. Good(k', on2, depth', exited')
  BY <1>2, <1>13, <1>14
<1> QED BY <1>15 DEF GoodNow, on2

\* The threads that a signal has woken are in the queue of their mutex.
LEMMA WakingKeeps ==
  ASSUME NEW on, GoodNow(on), NEW c \in Conds, NEW m \in Mutexes,
         k.owner[m] # NULL, \A u \in SleepSet(on, c) : k.waiting_on[u] = m,
         Woken(k', k, on, c), UNCHANGED <<depth, exited>>
  PROVE  GoodNow(Awake(on, c))'
<1> DEFINE r == k'
           on2 == Awake(on, c)
<1>1. Good(k, on, depth, exited)
  BY DEF GoodNow
<1>2. /\ Woken(r, k, on, c) /\ on \in Placements
  BY <1>1 DEF Good, QueuesInv
<1>3. \A u \in Threads : on2[u] \in {on[u], NULL}
  BY DEF Awake
<1> HIDE DEF r, on2
<1>4. /\ r \in Memory /\ QueuesInv(r, on2) /\ r.state = k.state
      /\ r.waiting_on = k.waiting_on /\ r.owner = k.owner /\ r.lock_count = k.lock_count
      /\ r.current = k.current /\ r.heap = k.heap
      /\ \A n \in Mutexes : WaitSet(r, on2, n) = WaitSet(k, on, n)
                              \union {u \in SleepSet(on, c) : k.waiting_on[u] = n}
  BY <1>2 DEF Woken, on2
<1>5. \A n \in Mutexes : BlockedOn(r, n) = BlockedOn(k, n)
  BY <1>4 DEF BlockedOn
<1>6. OwnersInv(r, on2, depth)
  <2>1. \A n \in Mutexes : r.owner[n] = NULL => WaitSet(r, on2, n) = WaitSet(k, on, n)
    BY <1>4
  <2> QED BY <1>1, <1>4, <1>5, <2>1 DEF Good, OwnersInv
<1>7. ThreadsInv(r, exited)
  BY <1>1, <1>4 DEF Good, ThreadsInv
<1>8. GoneHoldNothing(r, depth, exited)
  BY <1>1, <1>4 DEF Good, GoneHoldNothing
<1>9. Good(r, on2, depth, exited)
  BY <1>1, <1>3, <1>4, <1>6, <1>7, <1>8 DEF Good
<1>10. Good(k', on2, depth', exited')
  BY <1>9 DEF r
<1> QED BY <1>10 DEF GoodNow, on2

\* A thread that may signal c owns the mutex of all those that sleep on it.
LEMMA SignallerOwns ==
  ASSUME HoldToSignal = TRUE, NEW on, GoodNow(on), NEW t \in Threads, NEW c \in Conds,
         Caller(t), MaySignal(t, c), SleepSet(on, c) # {}
  PROVE  \E m \in Mutexes :
           /\ k.owner[m] = t
           /\ \A u \in SleepSet(on, c) : k.waiting_on[u] = m /\ u # t
<1>1. /\ QueuesInv(k, on) /\ on \in Placements /\ k \in Memory
      /\ NULL \notin Conds /\ Threads \subseteq All
  BY KernelAssumption DEF GoodNow, Good, QueuesInv, All
<1>2. PICK s \in Threads : on[s] = c
  BY DEF SleepSet
<1>3. k.state[s] = "BLOCKED" /\ k.waiting_on[s] # NULL
  BY <1>1, <1>2 DEF QueuesInv
<1> DEFINE m == k.waiting_on[s]
<1>4. m \in Mutexes
  BY <1>1, <1>3 DEF Memory
<1>5. \A u \in SleepSet(on, c) : k.waiting_on[u] = m /\ k.state[u] = "BLOCKED"
  BY <1>1, <1>2 DEF QueuesInv, SleepSet
<1>6. m \in MutexesOf(c)
  BY <1>2, SleepersAreSet DEF MutexesOf, SleepSet
<1>7. depth[t][m] > 0
  BY <1>6 DEF MaySignal
<1>8. k.state[t] = "RUNNING" /\ t # NULL
  BY CallerRuns
<1>9. t \notin BlockedOn(k, m)
  BY <1>8 DEF BlockedOn
<1>10. k.owner[m] = t
  BY <1>4, <1>7, <1>9 DEF GoodNow, Good, OwnersInv
<1> HIDE DEF m
<1> QED BY <1>4, <1>5, <1>8, <1>10

\* A broadcast moves all the sleepers to the queue of their mutex.
LEMMA KeepsCondSignalAll ==
  ASSUME HoldToSignal = TRUE, NEW on, GoodNow(on), NEW t \in Threads, NEW c \in Conds,
         syscall_cond_signal_all(t, c)
  PROVE  GoodNow(on)' \/ GoodNow(Awake(on, c))'
<1>1. /\ k \in Memory /\ QueuesInv(k, on) /\ UNCHANGED <<depth, exited>>
      /\ k' = kcond_signal_all(k, c) /\ Caller(t) /\ MaySignal(t, c) /\ t # NULL
  BY KernelAssumption DEF syscall_cond_signal_all, GoodNow, Good
<1>2. CASE SleepSet(on, c) = {}
  BY <1>1, <1>2, SignalNobody DEF GoodNow
<1>3. CASE SleepSet(on, c) # {}
  <2>1. PICK m \in Mutexes :
          k.owner[m] = t /\ \A u \in SleepSet(on, c) : k.waiting_on[u] = m /\ u # t
    BY <1>1, <1>3, SignallerOwns
  <2>2. Woken(kcond_signal_all(k, c), k, on, c)
    BY <1>1, <1>3, <2>1, SignalsWake
  <2> QED BY <1>1, <2>1, <2>2, WakingKeeps
<1> QED BY <1>2, <1>3

\* A condition that has at most one sleeper, and one, has exactly one.
LEMMA OnlySleeper ==
  ASSUME NEW on, GoodNow(on), NEW c \in Conds, SleepSet(on, c) # {},
         Cardinality(Sleepers(c)) <= 1
  PROVE  \E s \in Threads : SleepSet(on, c) = {s}
<1>1. SleepSet(on, c) \subseteq Threads /\ IsFiniteSet(SleepSet(on, c))
  BY KernelAssumption, FS_Subset DEF SleepSet
<1>2. Cardinality(SleepSet(on, c)) <= 1 /\ Cardinality(SleepSet(on, c)) \in Nat
  BY <1>1, SleepersAreSet, FS_CardinalityType
<1>3. Cardinality(SleepSet(on, c)) # 0
  BY <1>1, FS_EmptySet
<1>4. Cardinality(SleepSet(on, c)) = 1
  BY <1>2, <1>3
<1>5. \E s : SleepSet(on, c) = {s}
  BY <1>1, <1>4, FS_Singleton
<1> QED BY <1>1, <1>5

\* A signal moves the only sleeper to the queue of its mutex.
LEMMA KeepsCondSignal ==
  ASSUME HoldToSignal = TRUE, OneSleeper = TRUE,
         NEW on, GoodNow(on), NEW t \in Threads, NEW c \in Conds,
         syscall_cond_signal(t, c)
  PROVE  GoodNow(on)' \/ GoodNow(Awake(on, c))'
<1>1. /\ k \in Memory /\ QueuesInv(k, on) /\ UNCHANGED <<depth, exited>>
      /\ k' = kcond_signal(k, c, FALSE) /\ Caller(t) /\ MaySignal(t, c) /\ t # NULL
      /\ Cardinality(Sleepers(c)) <= 1
  BY KernelAssumption DEF syscall_cond_signal, GoodNow, Good
<1>2. CASE SleepSet(on, c) = {}
  BY <1>1, <1>2, SignalNobody DEF GoodNow
<1>3. CASE SleepSet(on, c) # {}
  <2>1. PICK m \in Mutexes :
          k.owner[m] = t /\ \A u \in SleepSet(on, c) : k.waiting_on[u] = m /\ u # t
    BY <1>1, <1>3, SignallerOwns
  <2>2. \E s \in Threads : SleepSet(on, c) = {s}
    BY <1>1, <1>3, OnlySleeper
  <2>3. Woken(kcond_signal(k, c, FALSE), k, on, c)
    BY <1>1, <1>3, <2>1, <2>2, SignalsWake
  <2> QED BY <1>1, <2>1, <2>3, WakingKeeps
<1> QED BY <1>2, <1>3

-----------------------------------------------------------------------------
(* The theorems *)

LEMMA CondNextKeeps ==
  ASSUME DetachLive = FALSE, HoldToSignal = TRUE, OneSleeper = TRUE,
         CondInv, [CondNext]_vars
  PROVE  CondInv'
<1> PICK on \in Placements : GoodNow(on)
  BY DEF CondInv
<1> SUFFICES \E on2 : GoodNow(on2)'
  BY DEF CondInv, GoodNow, Good, QueuesInv
<1>1. CASE [Next]_vars
  BY <1>1, NextKeeps
<1>2. ASSUME NEW t \in Threads, CondCall(t) PROVE \E on2 : GoodNow(on2)'
  <2>1. CASE syscall_cond_create(t)
    BY <2>1, KeepsCondCreate
  <2>2. CASE syscall_cond_destroy(t)
    BY <2>2, KeepsCondDestroy
  <2>3. ASSUME NEW c \in Conds, syscall_cond_signal(t, c) PROVE \E on2 : GoodNow(on2)'
    BY <2>3, KeepsCondSignal
  <2>4. ASSUME NEW c \in Conds, syscall_cond_signal_all(t, c) PROVE \E on2 : GoodNow(on2)'
    BY <2>4, KeepsCondSignalAll
  <2>5. ASSUME NEW c \in Conds, NEW m \in Mutexes, syscall_cond_wait(t, c, m)
        PROVE  \E on2 : GoodNow(on2)'
    BY <2>5, KeepsCondWait
  <2> QED BY <1>2, <2>1, <2>2, <2>3, <2>4, <2>5 DEF CondCall
<1> QED BY <1>1, <1>2 DEF CondNext

\* The inductive invariant, for users that signal with the mutex held and signal
\* at most one sleeper: after any wait, signal or broadcast (condition.c:14-84)
\* there is a way to say where every blocked thread is, such that the queues of
\* the scheduler, the mutexes and the conditions are lists of exactly those
\* threads, and owners and counts are what the users believe.
THEOREM CondInvariance ==
  ASSUME DetachLive = FALSE, HoldToSignal = TRUE, OneSleeper = TRUE
  PROVE  CondSpec => []CondInv
<1>1. Init => CondInv
  BY InitEstablishes DEF CondInv, IInv, GoodNow, Good, QueuesInv
<1>2. CondInv /\ [CondNext]_vars => CondInv'
  BY CondNextKeeps
<1> QED BY <1>1, <1>2, PTL DEF CondSpec

\* No two threads that can execute hold the same mutex, also when a thread comes
\* back from a wait: it never does without the mutex (condition.c:14-41).
THEOREM CondExclusion ==
  ASSUME DetachLive = FALSE, HoldToSignal = TRUE, OneSleeper = TRUE
  PROVE  CondSpec => []MutualExclusion
<1>1. CondInv => MutualExclusion
  BY DEF CondInv, GoodNow, Good, OwnersInv, BlockedOn, MutualExclusion
<1> QED BY <1>1, CondInvariance, PTL

\* A thread that is blocked for a mutex does not own it (condition.c:43-84).
THEOREM CondNoBlockedOwner ==
  ASSUME DetachLive = FALSE, HoldToSignal = TRUE, OneSleeper = TRUE
  PROVE  CondSpec => []NoBlockedOwner
<1>1. CondInv => NoBlockedOwner
  BY DEF CondInv, GoodNow, Good, OwnersInv, BlockedOn, NoBlockedOwner
<1> QED BY <1>1, CondInvariance, PTL

\* A blocked thread is in one queue, of a mutex or of a condition; the others are
\* in none (condition.c:14-84, scheduler.c:8-35).
THEOREM CondQueues ==
  ASSUME DetachLive = FALSE, HoldToSignal = TRUE, OneSleeper = TRUE
  PROVE  CondSpec => []OneQueueEach
<1>1. ASSUME NEW on, GoodNow(on), NEW t \in Threads \intersect k.heap
      PROVE  /\ t \in Chain(k, k.head) <=> k.state[t] = "READY"
             /\ k.state[t] = "RUNNING" <=> (k.current = t \/ t \in exited)
             /\ k.state[t] = "BLOCKED" <=>
                  Cardinality({m \in Mutexes : t \in Chain(k, k.mhead[m])})
                    + Cardinality({c \in Conds : t \in Sleepers(c)}) = 1
             /\ \A m \in Mutexes : t \in Chain(k, k.mhead[m]) => k.waiting_on[t] = m
  <2> DEFINE A == {m \in Mutexes : t \in Chain(k, k.mhead[m])}
             B == {c \in Conds : t \in Sleepers(c)}
  <2>1. /\ Chain(k, k.head) = ReadySet(k)
        /\ \A m \in Mutexes : Chain(k, k.mhead[m]) = WaitSet(k, on, m)
        /\ \A c \in Conds : Sleepers(c) = SleepSet(on, c)
    BY <1>1, ChainsAreSets, SleepersAreSet DEF GoodNow, Good
  <2>2. /\ A = {m \in Mutexes : t \in WaitSet(k, on, m)}
        /\ B = {c \in Conds : on[t] = c}
    BY <2>1 DEF SleepSet
  <2>3. /\ QueuesInv(k, on) /\ on[t] \in Conds \union {NULL} /\ NULL \notin Conds
        /\ k.waiting_on[t] \in Mutexes \union {NULL}
    BY <1>1, KernelAssumption DEF GoodNow, Good, QueuesInv, Placements, Memory, All
  <2>4. Cardinality({}) = 0 /\ \A x : Cardinality({x}) = 1
    BY FS_EmptySet, FS_Singleton
  <2> HIDE DEF A, B
  <2>5. CASE k.state[t] # "BLOCKED"
    <3>1. A = {} /\ B = {}
      BY <2>2, <2>3, <2>5 DEF WaitSet, QueuesInv
    <3>2. Cardinality(A) + Cardinality(B) # 1
      BY <2>4, <3>1
    <3> QED BY <1>1, <2>1, <2>5, <3>2
         DEF A, B, GoodNow, Good, ThreadsInv, ReadySet, WaitSet
  <2>6. CASE k.state[t] = "BLOCKED" /\ on[t] = NULL
    <3>1. A = {k.waiting_on[t]} /\ B = {}
      BY <2>2, <2>3, <2>6 DEF WaitSet, QueuesInv
    <3>2. Cardinality(A) = 1 /\ Cardinality(B) = 0
      BY <2>4, <3>1, Zenon
    <3>3. Cardinality(A) + Cardinality(B) = 1
      BY <3>2
    <3> QED BY <1>1, <2>1, <2>6, <3>3
         DEF A, B, GoodNow, Good, ThreadsInv, ReadySet, WaitSet
  <2>7. CASE k.state[t] = "BLOCKED" /\ on[t] # NULL
    <3>1. A = {} /\ B = {on[t]}
      BY <2>2, <2>3, <2>7 DEF WaitSet
    <3>2. Cardinality(A) = 0 /\ Cardinality(B) = 1
      BY <2>4, <3>1, Zenon
    <3>3. Cardinality(A) + Cardinality(B) = 1
      BY <3>2
    <3> QED BY <1>1, <2>1, <2>7, <3>3
         DEF A, B, GoodNow, Good, ThreadsInv, ReadySet, WaitSet
  <2> QED BY <2>5, <2>6, <2>7
<1>2. CondInv => OneQueueEach
  BY <1>1 DEF CondInv, OneQueueEach
<1> QED BY <1>2, CondInvariance, PTL

-----------------------------------------------------------------------------
(* Lists *)

\* The links from h go through the threads of Q in the order of s.
IsListOf(next, h, s, Q) ==
  /\ s \in Seq(Q)
  /\ \A t \in Q : \E i \in 1 .. Len(s) : s[i] = t
  /\ \A i, j \in 1 .. Len(s) : s[i] = s[j] => i = j
  /\ h = IF Len(s) = 0 THEN NULL ELSE s[1]
  /\ \A i \in 1 .. Len(s) : next[s[i]] = IF i = Len(s) THEN NULL ELSE s[i + 1]

\* A list has no more threads than there are.
LEMMA ListIsShort ==
  ASSUME NEW Q \in SUBSET Threads, NEW s \in Seq(Q),
         \A i, j \in 1 .. Len(s) : s[i] = s[j] => i = j
  PROVE  Cardinality(All) \in Nat /\ Len(s) <= Cardinality(All)
<1>1. IsFiniteSet(All)
  BY KernelAssumption, FS_AddElement DEF All
<1>2. Cardinality(All) \in Nat
  BY <1>1, FS_CardinalityType
<1>3. Len(s) \in Nat /\ IsFiniteSet(1 .. Len(s)) /\ Cardinality(1 .. Len(s)) = Len(s)
  <2>1. 1 \in Int /\ Len(s) \in Int /\ Len(s) \in Nat
    OBVIOUS
  <2>2. /\ IsFiniteSet(1 .. Len(s))
        /\ Cardinality(1 .. Len(s)) = IF 1 > Len(s) THEN 0 ELSE Len(s) - 1 + 1
    BY <2>1, FS_Interval
  <2> QED BY <2>1, <2>2
<1>4. s \in Injection(1 .. Len(s), All)
  <2>1. s \in [1 .. Len(s) -> All]
    BY DEF All
  <2> QED BY <2>1, Fun_IsInj
<1> QED BY <1>1, <1>2, <1>3, <1>4, FS_Injection

\* f is the walk along the links, as ListFrom makes it, and is along the list
\* and stays at its end.
IsWalk(f, next, h, n) ==
  f = [i \in 0 .. n |->
         IF i = 0 THEN h ELSE IF f[i - 1] = NULL THEN NULL ELSE next[f[i - 1]]]

IsAlong(f, s, n) == \A i \in 0 .. n : f[i] = IF i < Len(s) THEN s[i + 1] ELSE NULL

LEMMA WalkIsList ==
  ASSUME NEW Q \in SUBSET Threads, NEW next, NEW h, NEW s, IsListOf(next, h, s, Q),
         NEW n \in Nat, NEW f, IsWalk(f, next, h, n)
  PROVE  IsAlong(f, s, n)
<1> DEFINE S == {i \in Nat : i \in 0 .. n => f[i] = IF i < Len(s) THEN s[i + 1] ELSE NULL}
<1>1. NULL \notin Threads /\ Len(s) \in Nat
  BY KernelAssumption DEF IsListOf
<1>2. ASSUME NEW i \in 0 .. n
      PROVE  f[i] = IF i = 0 THEN h ELSE IF f[i - 1] = NULL THEN NULL ELSE next[f[i - 1]]
  BY DEF IsWalk
<1>3. 0 \in S
  <2>1. f[0] = h
    BY <1>2
  <2> QED BY <1>1, <2>1 DEF IsListOf
<1>4. ASSUME NEW i \in Nat, i \in S PROVE i + 1 \in S
  <2> SUFFICES ASSUME i + 1 \in 0 .. n
               PROVE  f[i + 1] = IF i + 1 < Len(s) THEN s[i + 2] ELSE NULL
    OBVIOUS
  <2>1. f[i + 1] = IF f[i] = NULL THEN NULL ELSE next[f[i]]
    BY <1>2
  <2>2. f[i] = IF i < Len(s) THEN s[i + 1] ELSE NULL
    BY <1>4
  <2>3. CASE i < Len(s)
    <3>1. s[i + 1] \in Q /\ i + 1 \in 1 .. Len(s)
      BY <1>1, <2>3 DEF IsListOf
    <3>2. next[s[i + 1]] = IF i + 1 = Len(s) THEN NULL ELSE s[i + 2]
      BY <3>1 DEF IsListOf
    <3> QED BY <1>1, <2>1, <2>2, <2>3, <3>1, <3>2
  <2>4. CASE ~(i < Len(s))
    BY <1>1, <2>1, <2>2, <2>4
  <2> QED BY <2>3, <2>4
<1> HIDE DEF S
<1>5. \A i \in Nat : i \in S
  BY <1>3, <1>4, SetInduction
<1> QED BY <1>5 DEF S, IsAlong

\* What ListFrom computes is the list.
LEMMA ListFromIsList ==
  ASSUME NEW Q \in SUBSET Threads, NEW next, NEW h, NEW s, IsListOf(next, h, s, Q)
  PROVE  ListFrom(next, h) = s
<1> DEFINE N == Cardinality(All)
           f == CHOOSE g : IsWalk(g, next, h, N)
           g == [i \in 0 .. N |-> IF i < Len(s) THEN s[i + 1] ELSE NULL]
<1>1. N \in Nat /\ Len(s) \in Nat /\ Len(s) <= N /\ NULL \notin Threads
  BY ListIsShort, KernelAssumption DEF IsListOf
<1>2. ListFrom(next, h) = [i \in 1 .. Cardinality({j \in 0 .. N : f[j] # NULL}) |-> f[i - 1]]
  BY DEF ListFrom, IsWalk
<1> HIDE DEF N
<1>3. IsWalk(g, next, h, N)
  <2>1. ASSUME NEW i \in 0 .. N
        PROVE  g[i] = IF i = 0 THEN h ELSE IF g[i - 1] = NULL THEN NULL ELSE next[g[i - 1]]
    <3>1. CASE i = 0
      BY <1>1, <3>1 DEF IsListOf
    <3>2. CASE i # 0
      <4>1. i - 1 \in 0 .. N /\ g[i - 1] = IF i - 1 < Len(s) THEN s[i] ELSE NULL
        BY <1>1, <3>2
      <4>2. i \in 1 .. Len(s) => s[i] \in Q /\ next[s[i]] = IF i = Len(s) THEN NULL ELSE s[i + 1]
        <5>1. s \in Seq(Q)
          BY DEF IsListOf
        <5>2. \A j \in 1 .. Len(s) : s[j] \in Q
          BY <5>1
        <5>3. \A j \in 1 .. Len(s) : next[s[j]] = IF j = Len(s) THEN NULL ELSE s[j + 1]
          BY DEF IsListOf
        <5> QED BY <5>2, <5>3
      <4> QED BY <1>1, <3>2, <4>1, <4>2
    <3> QED BY <3>1, <3>2
  <2> QED BY <2>1 DEF IsWalk
<1>4. IsWalk(f, next, h, N)
  BY <1>3
<1> HIDE DEF f, g
<1>5. \A i \in 0 .. N : f[i] = IF i < Len(s) THEN s[i + 1] ELSE NULL
  <2>1. IsAlong(f, s, N)
    BY <1>1, <1>4, WalkIsList
  <2> QED BY <2>1 DEF IsAlong
<1>6. {j \in 0 .. N : f[j] # NULL} = 0 .. Len(s) - 1
  <2>1. \A j \in 0 .. Len(s) - 1 : s[j + 1] \in Threads
    BY DEF IsListOf
  <2> QED BY <1>1, <1>5, <2>1
<1>7. Cardinality(0 .. Len(s) - 1) = Len(s)
  <2>1. 0 \in Int /\ Len(s) - 1 \in Int
    BY <1>1
  <2>2. Cardinality(0 .. Len(s) - 1) = IF 0 > Len(s) - 1 THEN 0 ELSE Len(s) - 1 - 0 + 1
    BY <2>1, FS_Interval
  <2> QED BY <1>1, <2>2
<1>8. \A i \in 1 .. Len(s) : f[i - 1] = s[i]
  BY <1>1, <1>5
<1>9. s = [i \in 1 .. Len(s) |-> s[i]]
  BY DEF IsListOf
<1>10. ListFrom(next, h) = [i \in 1 .. Len(s) |-> f[i - 1]]
  BY <1>2, <1>6, <1>7
<1> QED BY <1>8, <1>9, <1>10

\* A queue can be read as a list.
LEMMA QueueHasList ==
  ASSUME NEW next \in Links
  PROVE  \A Q \in SUBSET Threads : \A h, tl \in All \union {NULL} :
           IsQueue(next, h, tl, Q) => \E s : IsListOf(next, h, s, Q)
<1> DEFINE Listed(Q) == \A h, tl \in All \union {NULL} :
                          IsQueue(next, h, tl, Q) => \E s : IsListOf(next, h, s, Q)
           S == {n \in Nat : \A Q \in SUBSET Threads : Cardinality(Q) = n => Listed(Q)}
<1>1. \A Q \in SUBSET Threads : IsFiniteSet(Q) /\ Cardinality(Q) \in Nat
  BY KernelAssumption, FS_Subset, FS_CardinalityType
<1>2. 0 \in S
  <2> SUFFICES ASSUME NEW Q \in SUBSET Threads, Cardinality(Q) = 0 PROVE Listed(Q)
    OBVIOUS
  <2>1. Q = {}
    BY <1>1, FS_EmptySet
  <2>2. ASSUME NEW h, h = NULL PROVE IsListOf(next, h, <<>>, Q)
    BY <2>1, <2>2 DEF IsListOf
  <2> QED BY <2>1, <2>2 DEF IsQueue
<1>3. ASSUME NEW n \in Nat, n \in S PROVE n + 1 \in S
  <2> SUFFICES ASSUME NEW Q \in SUBSET Threads, Cardinality(Q) = n + 1,
                      NEW h \in All \union {NULL}, NEW tl \in All \union {NULL},
                      IsQueue(next, h, tl, Q)
               PROVE  \E s : IsListOf(next, h, s, Q)
    OBVIOUS
  <2>1. Q # {} /\ h \in Q /\ h # NULL /\ NULL \notin Threads
    <3>1. Q # {}
      BY FS_EmptySet
    <3> QED BY <3>1, KernelAssumption DEF IsQueue
  <2> DEFINE Q1 == Q \ {h}
             h1 == next[h]
             t1 == IF next[h] = NULL THEN NULL ELSE tl
  <2>2. Q1 \in SUBSET Threads /\ Cardinality(Q1) = n
    <3>1. Cardinality(Q1) = Cardinality(Q) - 1
      BY <1>1, <2>1, FS_RemoveElement
    <3> QED BY <1>3, <3>1
  <2>3. IsQueue(next, h1, t1, Q1) /\ h1 \in All \union {NULL} /\ t1 \in All \union {NULL}
    BY <2>1, QueueRemove DEF Links, All
  <2> HIDE DEF Q1, h1, t1
  <2>4. Listed(Q1)
    BY <1>3, <2>2
  <2>5. PICK s : IsListOf(next, h1, s, Q1)
    BY <2>3, <2>4
  <2> DEFINE r == [i \in 1 .. Len(s) + 1 |-> IF i = 1 THEN h ELSE s[i - 1]]
  <2>6. s \in Seq(Q1) /\ Len(s) \in Nat
    BY <2>5 DEF IsListOf
  <2>7. r \in Seq(Q) /\ Len(r) = Len(s) + 1
    BY <2>1, <2>6 DEF Q1
  <2>8. r[1] = h /\ \A i \in 2 .. Len(r) : r[i] = s[i - 1] /\ r[i] # h /\ i - 1 \in 1 .. Len(s)
    BY <2>6, <2>7 DEF Q1
  <2> HIDE DEF r
  <2>9. \A t \in Q : \E i \in 1 .. Len(r) : r[i] = t
    <3>1. ASSUME NEW t \in Q, t # h PROVE \E i \in 1 .. Len(r) : r[i] = t
      <4>1. PICK i \in 1 .. Len(s) : s[i] = t
        BY <2>5, <3>1 DEF IsListOf, Q1
      <4>2. i + 1 \in 1 .. Len(r) /\ r[i + 1] = t
        BY <2>6, <2>7, <2>8, <4>1
      <4> QED BY <4>2
    <3> QED BY <2>6, <2>7, <2>8, <3>1
  <2>10. ASSUME NEW i \in 1 .. Len(r), NEW j \in 1 .. Len(r), r[i] = r[j] PROVE i = j
    <3>1. (i = 1 <=> r[i] = h) /\ (j = 1 <=> r[j] = h)
      BY <2>6, <2>7, <2>8
    <3>2. CASE i # 1 /\ j # 1
      <4>1. s[i - 1] = s[j - 1] /\ i - 1 \in 1 .. Len(s) /\ j - 1 \in 1 .. Len(s)
        BY <2>6, <2>7, <2>8, <2>10, <3>2
      <4>2. i - 1 = j - 1
        BY <2>5, <4>1 DEF IsListOf
      <4> QED BY <4>2, <2>6, <2>7
    <3> QED BY <2>10, <3>1, <3>2
  <2>11. ASSUME NEW i \in 1 .. Len(r)
         PROVE  next[r[i]] = IF i = Len(r) THEN NULL ELSE r[i + 1]
    <3>1. CASE i = 1
      <4>1. next[r[1]] = IF Len(s) = 0 THEN NULL ELSE s[1]
        BY <2>5, <2>8 DEF IsListOf, h1
      <4> QED BY <2>6, <2>7, <2>8, <3>1, <4>1
    <3>2. CASE i # 1
      <4>1. i - 1 \in 1 .. Len(s) /\ r[i] = s[i - 1]
        BY <2>6, <2>7, <2>8, <3>2
      <4>2. \A j \in 1 .. Len(s) : next[s[j]] = IF j = Len(s) THEN NULL ELSE s[j + 1]
        BY <2>5 DEF IsListOf
      <4>3. (i - 1) + 1 = i
        BY <2>7
      <4> QED BY <2>6, <2>7, <2>8, <3>2, <4>1, <4>2, <4>3
    <3> QED BY <3>1, <3>2
  <2>12. IsListOf(next, h, r, Q)
    BY <2>1, <2>6, <2>7, <2>8, <2>9, <2>10, <2>11 DEF IsListOf
  <2> QED BY <2>12
<1> HIDE DEF S
<1>4. \A n \in Nat : n \in S
  BY <1>2, <1>3, SetInduction
<1> QED BY <1>1, <1>4 DEF S

LEMMA QueueIsList ==
  ASSUME NEW next \in Links, NEW Q \in SUBSET Threads, NEW h, NEW tl,
         IsQueue(next, h, tl, Q)
  PROVE  IsListOf(next, h, ListFrom(next, h), Q)
<1>1. h \in All \union {NULL} /\ tl \in All \union {NULL}
  BY DEF IsQueue, All
<1>2. PICK s : IsListOf(next, h, s, Q)
  BY <1>1, QueueHasList
<1> QED BY <1>2, ListFromIsList

\* A list is empty if its head is NULL, else starts with its head.
LEMMA ListHead ==
  ASSUME NEW next \in Links, NEW Q \in SUBSET Threads, NEW h, NEW tl,
         IsQueue(next, h, tl, Q)
  PROVE  /\ ListFrom(next, h) \in Seq(Q)
         /\ h = NULL <=> ListFrom(next, h) = <<>>
         /\ h # NULL => Head(ListFrom(next, h)) = h
         /\ \A t \in Threads : t \in Q <=> \E i \in 1 .. Len(ListFrom(next, h)) :
                                             ListFrom(next, h)[i] = t
<1> DEFINE s == ListFrom(next, h)
<1>1. IsListOf(next, h, s, Q)
  BY QueueIsList
<1>2. NULL \notin Threads
  BY KernelAssumption
<1> HIDE DEF s
<1>3. s \in Seq(Q) /\ (h = NULL <=> s = <<>>) /\ (h # NULL => Head(s) = h)
  <2>1. s \in Seq(Q) /\ h = IF Len(s) = 0 THEN NULL ELSE s[1]
    BY <1>1 DEF IsListOf
  <2>2. Len(s) \in Nat /\ (Len(s) = 0 <=> s = <<>>) /\ (Len(s) # 0 => s[1] \in Q /\ Head(s) = s[1])
    BY <2>1
  <2> QED BY <1>2, <2>1, <2>2
<1>4. ASSUME NEW t \in Threads
      PROVE  t \in Q <=> \E i \in 1 .. Len(s) : s[i] = t
  <2>1. t \in Q => \E i \in 1 .. Len(s) : s[i] = t
    BY <1>1 DEF IsListOf
  <2>2. \A i \in 1 .. Len(s) : s[i] \in Q
    BY <1>3
  <2> QED BY <2>1, <2>2
<1> QED BY <1>3, <1>4 DEF s

\* A list is empty if and only if its head is NULL.
LEMMA EmptyList ==
  ASSUME NEW next \in Links, NEW Q \in SUBSET Threads, NEW h, NEW tl,
         IsQueue(next, h, tl, Q)
  PROVE  h = NULL <=> ListFrom(next, h) = <<>>
BY ListHead

\* A list stays if the links of its threads do.
LEMMA ListFrame ==
  ASSUME NEW n1 \in Links, NEW n2, NEW Q \in SUBSET Threads, NEW h, NEW tl,
         IsQueue(n1, h, tl, Q), \A t \in Q : n2[t] = n1[t]
  PROVE  ListFrom(n2, h) = ListFrom(n1, h)
<1> DEFINE s == ListFrom(n1, h)
<1>1. IsListOf(n1, h, s, Q)
  BY QueueIsList
<1> HIDE DEF s
<1>2. \A i \in 1 .. Len(s) : s[i] \in Q
  BY <1>1 DEF IsListOf
<1>3. IsListOf(n2, h, s, Q)
  BY <1>1, <1>2 DEF IsListOf
<1> QED BY <1>3, ListFromIsList DEF s

\* n2 are the links, and h2 the head, after x was linked behind the tail of the
\* queue of Q.
LinkedBehind(n1, n2, h, h2, tl, Q, x) ==
  /\ IsQueue(n1, h, tl, Q)
  /\ x \in Threads \ Q
  /\ n2[x] = NULL
  /\ h # NULL => n2[tl] = x
  /\ \A t \in Q : t # tl => n2[t] = n1[t]
  /\ h2 = IF h = NULL THEN x ELSE h

IsAppended(r, s, x) == r = Append(s, x)

\* It appends x.
LEMMA ListAppend ==
  ASSUME NEW n1 \in Links, NEW n2, NEW Q \in SUBSET Threads, NEW h, NEW h2, NEW tl, NEW x,
         LinkedBehind(n1, n2, h, h2, tl, Q, x)
  PROVE  IsAppended(ListFrom(n2, h2), ListFrom(n1, h), x)
<1> DEFINE s == ListFrom(n1, h)
           r == Append(s, x)
<1>0. /\ IsQueue(n1, h, tl, Q) /\ x \in Threads \ Q /\ n2[x] = NULL
      /\ h # NULL => n2[tl] = x
      /\ \A t \in Q : t # tl => n2[t] = n1[t]
      /\ h2 = IF h = NULL THEN x ELSE h
  BY DEF LinkedBehind
<1>1. IsListOf(n1, h, s, Q)
  BY <1>0, QueueIsList
<1> HIDE DEF s
<1>2. s \in Seq(Q) /\ Len(s) \in Nat /\ NULL \notin Threads
  BY <1>1, KernelAssumption DEF IsListOf
<1>3. /\ r \in Seq(Q \union {x}) /\ Len(r) = Len(s) + 1 /\ r[Len(r)] = x
      /\ \A i \in 1 .. Len(s) : r[i] = s[i] /\ s[i] \in Q /\ s[i] # x
  BY <1>0, <1>2
<1> HIDE DEF r
<1>4. Len(s) # 0 => s[Len(s)] = tl
  <2> SUFFICES ASSUME Len(s) # 0 PROVE s[Len(s)] = tl
    OBVIOUS
  <2>1. Q # {} /\ tl \in Q /\ n1[tl] = NULL
    BY <1>0, <1>2 DEF IsQueue
  <2>2. PICK i \in 1 .. Len(s) : s[i] = tl
    BY <1>1, <2>1 DEF IsListOf
  <2>3. i # Len(s) => n1[s[i]] = s[i + 1] /\ s[i + 1] \in Q
    BY <1>1, <1>2 DEF IsListOf
  <2> QED BY <1>2, <2>1, <2>2, <2>3
<1>5. \A t \in Q \union {x} : \E i \in 1 .. Len(r) : r[i] = t
  <2>1. ASSUME NEW t \in Q PROVE \E i \in 1 .. Len(r) : r[i] = t
    <3>1. PICK i \in 1 .. Len(s) : s[i] = t
      BY <1>1 DEF IsListOf
    <3> QED BY <1>2, <1>3, <3>1
  <2>2. Len(r) \in 1 .. Len(r)
    BY <1>2, <1>3
  <2> QED BY <1>3, <2>1, <2>2
<1>6. ASSUME NEW i \in 1 .. Len(r), NEW j \in 1 .. Len(r), r[i] = r[j] PROVE i = j
  <2>1. CASE i \in 1 .. Len(s) /\ j \in 1 .. Len(s)
    <3>1. s[i] = s[j]
      BY <1>3, <1>6, <2>1
    <3> QED BY <1>1, <2>1, <3>1 DEF IsListOf
  <2>2. CASE ~(i \in 1 .. Len(s) /\ j \in 1 .. Len(s))
    BY <1>2, <1>3, <1>6, <2>2
  <2> QED BY <2>1, <2>2
<1>7. h2 = IF Len(r) = 0 THEN NULL ELSE r[1]
  <2>1. h = IF Len(s) = 0 THEN NULL ELSE s[1]
    BY <1>1 DEF IsListOf
  <2>2. Len(s) # 0 => s[1] \in Q
    BY <1>2
  <2> QED BY <1>0, <1>2, <1>3, <2>1, <2>2
<1>8. ASSUME NEW i \in 1 .. Len(r)
      PROVE  n2[r[i]] = IF i = Len(r) THEN NULL ELSE r[i + 1]
  <2>1. CASE i = Len(r)
    BY <1>0, <1>3, <2>1
  <2>2. CASE i = Len(s)
    <3>1. h # NULL
      BY <1>2, <1>1, <2>2 DEF IsListOf
    <3> QED BY <1>0, <1>2, <1>3, <1>4, <2>2, <3>1
  <2>3. CASE i # Len(r) /\ i # Len(s)
    <3>1. i \in 1 .. Len(s) /\ i + 1 \in 1 .. Len(s)
      BY <1>2, <1>3, <2>3
    <3>2. n1[s[i]] = s[i + 1] /\ s[i + 1] \in Q
      <4>1. \A j \in 1 .. Len(s) : n1[s[j]] = IF j = Len(s) THEN NULL ELSE s[j + 1]
        BY <1>1 DEF IsListOf
      <4>2. \A j \in 1 .. Len(s) : s[j] \in Q
        BY <1>2
      <4> QED BY <2>3, <3>1, <4>1, <4>2
    <3>3. s[i] # tl
      <4>1. tl \in Q /\ n1[tl] = NULL
        BY <1>0, <1>2, <3>1 DEF IsQueue
      <4> QED BY <1>2, <3>2, <4>1
    <3> QED BY <1>0, <1>3, <2>3, <3>1, <3>2, <3>3
  <2> QED BY <2>1, <2>2, <2>3
<1>9. IsListOf(n2, h2, r, Q \union {x})
  BY <1>3, <1>5, <1>6, <1>7, <1>8 DEF IsListOf
<1>10. ListFrom(n2, h2) = r
  <2>1. Q \union {x} \in SUBSET Threads
    BY <1>0
  <2> QED BY <1>9, <2>1, ListFromIsList
<1> QED BY <1>10 DEF r, s, IsAppended

\* Moving the head on removes the first thread.
LEMMA ListRemove ==
  ASSUME NEW n1 \in Links, NEW n2, NEW Q \in SUBSET Threads, NEW h, NEW tl,
         IsQueue(n1, h, tl, Q), h # NULL,
         \A t \in Q : t # h => n2[t] = n1[t]
  PROVE  ListFrom(n2, n1[h]) = Tail(ListFrom(n1, h))
<1> DEFINE s == ListFrom(n1, h)
           r == Tail(s)
           h2 == n1[h]
<1>1. IsListOf(n1, h, s, Q)
  BY QueueIsList
<1> HIDE DEF s
<1>2. s \in Seq(Q) /\ Len(s) \in Nat /\ NULL \notin Threads /\ h = IF Len(s) = 0 THEN NULL ELSE s[1]
  BY <1>1, KernelAssumption DEF IsListOf
<1>3. Len(s) # 0 /\ s[1] = h
  BY <1>2
<1>4. ASSUME NEW i \in 1 .. Len(s), s[i] = h PROVE i = 1
  BY <1>1, <1>2, <1>3, <1>4 DEF IsListOf
<1>5. r \in Seq(Q) /\ Len(r) = Len(s) - 1 /\ \A i \in 1 .. Len(r) : r[i] = s[i + 1]
  BY <1>2, <1>3
<1> HIDE DEF r
<1>6. \A i \in 1 .. Len(r) : r[i] = s[i + 1] /\ r[i] \in Q \ {h} /\ i + 1 \in 1 .. Len(s)
  BY <1>2, <1>4, <1>5
<1>7. r \in Seq(Q \ {h})
  BY <1>5, <1>6
<1>8. ASSUME NEW t \in Q \ {h} PROVE \E i \in 1 .. Len(r) : r[i] = t
  <2>1. PICK i \in 1 .. Len(s) : s[i] = t
    BY <1>1 DEF IsListOf
  <2>2. i - 1 \in 1 .. Len(r) /\ (i - 1) + 1 = i
    BY <1>2, <1>3, <1>5, <2>1
  <2> QED BY <1>5, <2>1, <2>2
<1>9. ASSUME NEW i \in 1 .. Len(r), NEW j \in 1 .. Len(r), r[i] = r[j] PROVE i = j
  <2>1. s[i + 1] = s[j + 1] /\ i + 1 \in 1 .. Len(s) /\ j + 1 \in 1 .. Len(s)
    BY <1>6, <1>9
  <2>2. i + 1 = j + 1
    BY <1>1, <2>1 DEF IsListOf
  <2> QED BY <2>2
<1>10. \A i \in 1 .. Len(s) : n1[s[i]] = IF i = Len(s) THEN NULL ELSE s[i + 1]
  BY <1>1 DEF IsListOf
<1>11. h2 = IF Len(r) = 0 THEN NULL ELSE r[1]
  <2>1. 1 \in 1 .. Len(s) /\ 1 + 1 = 2
    BY <1>2, <1>3
  <2>2. n1[s[1]] = IF 1 = Len(s) THEN NULL ELSE s[1 + 1]
    BY <1>10, <2>1
  <2> QED BY <1>2, <1>3, <1>5, <2>1, <2>2
<1>12. ASSUME NEW i \in 1 .. Len(r)
       PROVE  n2[r[i]] = IF i = Len(r) THEN NULL ELSE r[i + 1]
  <2>1. n2[r[i]] = n1[s[i + 1]]
    BY <1>6
  <2>2. n1[s[i + 1]] = IF i + 1 = Len(s) THEN NULL ELSE s[(i + 1) + 1]
    BY <1>6, <1>10
  <2>3. i # Len(r) => r[i + 1] = s[(i + 1) + 1]
    BY <1>2, <1>3, <1>5
  <2> QED BY <1>2, <1>5, <2>1, <2>2, <2>3
<1>13. IsListOf(n2, h2, r, Q \ {h})
  BY <1>7, <1>8, <1>9, <1>11, <1>12 DEF IsListOf
<1> HIDE DEF h2
<1>14. ListFrom(n2, h2) = r
  BY <1>13, ListFromIsList
<1> QED BY <1>14 DEF r, s, h2

-----------------------------------------------------------------------------
(* The C functions *)

ReadyList(mem) == ListFrom(mem.next, mem.head)
WaitList(mem, m) == ListFrom(mem.next, mem.mhead[m])
SleepList(mem, c) == ListFrom(mem.next, mem.chead[c])

\* The same threads sleep, for the same mutexes.
SameSleepers(r, mem) ==
  \A c \in Conds :
    /\ SleepList(r, c) = SleepList(mem, c)
    /\ \A i \in DOMAIN SleepList(mem, c) :
         r.waiting_on[SleepList(mem, c)[i]] = mem.waiting_on[SleepList(mem, c)[i]]

\* A queue stays if its head and the links of its threads do.
LEMMA WaitListStays ==
  ASSUME NEW mem \in Memory, NEW r, NEW on, QueuesInv(mem, on),
         NEW m \in Mutexes, r.mhead[m] = mem.mhead[m],
         \A t \in WaitSet(mem, on, m) : r.next[t] = mem.next[t]
  PROVE  WaitList(r, m) = WaitList(mem, m)
<1>1. mem.next \in Links
  BY DEF Memory, Links
<1>2. /\ IsQueue(mem.next, mem.mhead[m], mem.mtail[m], WaitSet(mem, on, m))
      /\ WaitSet(mem, on, m) \in SUBSET Threads
  BY DEF QueuesInv, WaitSet
<1> QED BY <1>1, <1>2, ListFrame DEF WaitList

LEMMA SleepersStay ==
  ASSUME NEW mem \in Memory, NEW r, NEW on, QueuesInv(mem, on), r.chead = mem.chead,
         \A t \in Threads : on[t] # NULL =>
           r.next[t] = mem.next[t] /\ r.waiting_on[t] = mem.waiting_on[t]
  PROVE  SameSleepers(r, mem)
<1>1. mem.next \in Links
  BY DEF Memory, Links
<1>2. ASSUME NEW c \in Conds
      PROVE  /\ SleepList(r, c) = SleepList(mem, c)
             /\ \A i \in DOMAIN SleepList(mem, c) :
                  r.waiting_on[SleepList(mem, c)[i]] = mem.waiting_on[SleepList(mem, c)[i]]
  <2>1. /\ IsQueue(mem.next, mem.chead[c], mem.ctail[c], SleepSet(on, c))
        /\ SleepSet(on, c) \in SUBSET Threads
        /\ \A t \in SleepSet(on, c) : t \in Threads /\ on[t] # NULL
    BY KernelAssumption DEF QueuesInv, SleepSet
  <2>2. SleepList(r, c) = SleepList(mem, c)
    BY <1>1, <2>1, ListFrame DEF SleepList
  <2>3. SleepList(mem, c) \in Seq(SleepSet(on, c))
    BY <1>1, <2>1, ListHead DEF SleepList
  <2>4. \A i \in DOMAIN SleepList(mem, c) : SleepList(mem, c)[i] \in SleepSet(on, c)
    BY <2>3
  <2> QED BY <2>1, <2>2, <2>4
<1> QED BY <1>2 DEF SameSleepers

LEMMA EnqueueAppends ==
  ASSUME NEW mem \in Memory, NEW R \in SUBSET Threads, NEW t \in Threads \ R,
         IsQueue(mem.next, mem.head, mem.tail, R)
  PROVE  ReadyList(kscheduler_enqueue(mem, t)) = Append(ReadyList(mem), t)
<1> DEFINE cleared == [mem.next EXCEPT ![t] = NULL]
           n2 == IF mem.head = NULL THEN cleared ELSE [cleared EXCEPT ![mem.tail] = t]
           r == kscheduler_enqueue(mem, t)
<1>1. NULL \notin All /\ t \in All /\ (mem.head # NULL => mem.tail \in R /\ mem.tail \in All)
  BY KernelAssumption DEF All, IsQueue
<1>2. mem.next \in Links /\ n2[t] = NULL
      /\ (mem.head # NULL => n2[mem.tail] = t)
      /\ \A u \in All : u # t /\ u # mem.tail => n2[u] = mem.next[u]
  BY <1>1 DEF Memory, Links
<1>3. r.next = n2 /\ r.head = IF mem.head = NULL THEN t ELSE mem.head
  BY DEF kscheduler_enqueue, Memory
<1> HIDE DEF r, n2
<1>4. \A u \in R : u # mem.tail => n2[u] = mem.next[u]
  BY <1>2 DEF All
<1>5. LinkedBehind(mem.next, n2, mem.head, r.head, mem.tail, R, t)
  BY <1>2, <1>3, <1>4 DEF LinkedBehind
<1>6. IsAppended(ListFrom(n2, r.head), ListFrom(mem.next, mem.head), t)
  BY <1>2, <1>5, ListAppend
<1> QED BY <1>3, <1>6 DEF ReadyList, r, IsAppended

LEMMA DequeueRemoves ==
  ASSUME NEW mem \in Memory, NEW R \in SUBSET Threads,
         IsQueue(mem.next, mem.head, mem.tail, R), mem.head # NULL
  PROVE  ReadyList(kscheduler_dequeue(mem)) = Tail(ReadyList(mem))
<1> DEFINE n2 == [mem.next EXCEPT ![mem.head] = NULL]
           r == kscheduler_dequeue(mem)
<1>1. mem.next \in Links /\ mem.head \in All /\ \A u \in R : u # mem.head => n2[u] = mem.next[u]
  BY KernelAssumption DEF Memory, Links, All, IsQueue
<1>2. r.next = n2 /\ r.head = mem.next[mem.head]
  BY DEF kscheduler_dequeue, Memory
<1> HIDE DEF r, n2
<1>3. ListFrom(n2, mem.next[mem.head]) = Tail(ListFrom(mem.next, mem.head))
  BY <1>1, ListRemove
<1> QED BY <1>2, <1>3 DEF ReadyList, r

\* r is mem after the first thread of q got the processor.
RunsFirst(r, mem, q) ==
  /\ r.current = IF q = <<>> THEN Main ELSE Head(q)
  /\ ReadyList(r) = IF q = <<>> THEN <<>> ELSE Tail(q)
  /\ \A m \in Mutexes : WaitList(r, m) = WaitList(mem, m)
  /\ SameSleepers(r, mem)
  /\ r.owner = mem.owner /\ r.lock_count = mem.lock_count

\* Who competes for the processor at a dispatch, in order.
Candidates(mem) ==
  IF Requeues(mem) THEN Append(ReadyList(mem), mem.current) ELSE ReadyList(mem)

LEMMA DispatchRunsFirst ==
  ASSUME NEW mem \in Memory, NEW on, QueuesInv(mem, on),
         mem.current # NULL => mem.state[mem.current] \in {"RUNNING", "BLOCKED"}
  PROVE  RunsFirst(kthread_dispatch(mem), mem, Candidates(mem))
<1> DEFINE r == kthread_dispatch(mem)
           R == ReadySet(mem) \union PutBack(mem)
           k1 == IF Requeues(mem) THEN kscheduler_enqueue(mem, mem.current) ELSE mem
           q == Candidates(mem)
<1>1. NULL \notin All /\ Main \in All /\ Threads \subseteq All /\ Main \notin Threads
  BY KernelAssumption DEF All
<1>2. PutBack(mem) \subseteq Threads /\ \A t \in PutBack(mem) : t = mem.current /\ mem.state[t] = "RUNNING"
  BY <1>1 DEF PutBack, Requeues, Memory, All
<1>3. R \in SUBSET Threads /\ \A t \in R : mem.state[t] # "BLOCKED"
  BY <1>2 DEF ReadySet
<1>4. /\ k1 \in Memory
      /\ IsQueue(k1.next, k1.head, k1.tail, R)
      /\ \A u \in All : u \notin R => k1.next[u] = mem.next[u] /\ k1.waiting_on[u] = mem.waiting_on[u]
      /\ ReadyList(k1) = q
  <2>1. CASE Requeues(mem)
    <3>1. mem.current \in Threads /\ PutBack(mem) = {mem.current}
      BY <1>2, <2>1 DEF PutBack
    <3>2. ReadySet(mem) \in SUBSET (Threads \ {mem.current})
      BY <1>2, <3>1 DEF ReadySet
    <3>3. IsQueue(mem.next, mem.head, mem.tail, ReadySet(mem))
      BY DEF QueuesInv
    <3>4. k1 = kscheduler_enqueue(mem, mem.current)
      BY <2>1
    <3>5. ReadyList(kscheduler_enqueue(mem, mem.current)) = Append(ReadyList(mem), mem.current)
      BY <3>1, <3>2, <3>3, EnqueueAppends
    <3> HIDE DEF k1
    <3>6. Enqueued(k1, mem, mem.current, ReadySet(mem))
      BY <3>1, <3>2, <3>3, <3>4, EnqueueEffect
    <3> QED BY <2>1, <3>1, <3>4, <3>5, <3>6 DEF Enqueued, Memory, Candidates
  <2>2. CASE ~Requeues(mem)
    BY <2>2 DEF QueuesInv, PutBack, Candidates
  <2> QED BY <2>1, <2>2
<1> DEFINE next_thread == IF k1.head = NULL THEN Main ELSE k1.head
           k2 == kscheduler_dequeue(k1)
<1>5. r = [k2 EXCEPT !.current = next_thread, !.state[next_thread] = "RUNNING"]
  BY DEF kthread_dispatch
<1> HIDE DEF k1
<1>6. /\ k2 \in Memory
      /\ \A u \in All : u \notin R => k2.next[u] = mem.next[u] /\ k2.waiting_on[u] = mem.waiting_on[u]
      /\ next_thread = IF q = <<>> THEN Main ELSE Head(q)
      /\ ReadyList(k2) = IF q = <<>> THEN <<>> ELSE Tail(q)
  <2>0. k1.next \in Links
    BY <1>4 DEF Memory, Links
  <2>1. (k1.head = NULL <=> q = <<>>) /\ (k1.head # NULL => Head(q) = k1.head)
    <3>1. IsQueue(k1.next, k1.head, k1.tail, R)
      BY <1>4
    <3>2. q = ListFrom(k1.next, k1.head)
      BY <1>4 DEF ReadyList
    <3> HIDE DEF R, q
    <3>3. k1.head = NULL <=> ListFrom(k1.next, k1.head) = <<>>
      BY <1>3, <2>0, <3>1, EmptyList
    <3>4. k1.head # NULL => Head(ListFrom(k1.next, k1.head)) = k1.head
      BY <1>3, <2>0, <3>1, ListHead
    <3> QED BY <3>2, <3>3, <3>4
  <2>2. CASE k1.head = NULL
    <3>1. k2 = k1
      BY <2>2 DEF kscheduler_dequeue
    <3> QED BY <1>4, <2>1, <2>2, <3>1
  <2>3. CASE k1.head # NULL
    <3>1. Dequeued(k2, k1, R)
      BY <1>3, <1>4, <2>3, DequeueEffect
    <3>2. ReadyList(k2) = Tail(ReadyList(k1))
      BY <1>3, <1>4, <2>3, DequeueRemoves
    <3>3. k1.head \in R
      BY <1>4, <2>3 DEF IsQueue
    <3> QED BY <1>1, <1>3, <1>4, <2>1, <2>3, <3>1, <3>2, <3>3 DEF Dequeued, Memory
  <2> QED BY <2>2, <2>3
<1> HIDE DEF k2, next_thread, q
<1>7. /\ r.next = k2.next /\ r.head = k2.head /\ r.current = next_thread
      /\ r.waiting_on = k2.waiting_on
  BY <1>5, <1>6 DEF Memory
<1>8. SameMutexes(r, mem)
  BY DispatchEffect DEF Dispatched
<1> HIDE DEF r
<1>9. \A t \in Threads : mem.state[t] = "BLOCKED" =>
        r.next[t] = mem.next[t] /\ r.waiting_on[t] = mem.waiting_on[t]
  BY <1>1, <1>3, <1>6, <1>7
<1>10. \A m \in Mutexes : WaitList(r, m) = WaitList(mem, m)
  BY <1>8, <1>9, WaitListStays DEF SameMutexes, WaitSet
<1>11. SameSleepers(r, mem)
  <2>1. \A t \in Threads : on[t] # NULL => mem.state[t] = "BLOCKED"
    BY DEF QueuesInv
  <2> QED BY <1>8, <1>9, <2>1, SleepersStay DEF SameMutexes
<1> QED BY <1>6, <1>7, <1>8, <1>10, <1>11 DEF RunsFirst, SameMutexes, ReadyList, r, q

\* After kscheduler_enqueue the lists of the mutexes and conditions are the same.
LEMMA EnqueueFrame ==
  ASSUME NEW mem \in Memory, NEW on, QueuesInv(mem, on), NEW t \in Threads, NEW r,
         \A u \in All : u \notin ReadySet(mem) \union {t} =>
           r.next[u] = mem.next[u] /\ r.waiting_on[u] = mem.waiting_on[u],
         on[t] = NULL, r.chead = mem.chead
  PROVE  /\ \A m \in Mutexes : r.mhead[m] = mem.mhead[m] /\ t \notin WaitSet(mem, on, m)
              => WaitList(r, m) = WaitList(mem, m)
         /\ SameSleepers(r, mem)
<1>1. \A u \in Threads : mem.state[u] = "BLOCKED" /\ u # t =>
        r.next[u] = mem.next[u] /\ r.waiting_on[u] = mem.waiting_on[u]
  BY DEF ReadySet, All
<1>2. ASSUME NEW m \in Mutexes, r.mhead[m] = mem.mhead[m], t \notin WaitSet(mem, on, m)
      PROVE  WaitList(r, m) = WaitList(mem, m)
  BY <1>1, <1>2, WaitListStays DEF WaitSet
<1>3. \A u \in Threads : on[u] # NULL => mem.state[u] = "BLOCKED" /\ u # t
  BY DEF QueuesInv
<1>4. SameSleepers(r, mem)
  BY <1>1, <1>3, SleepersStay
<1> QED BY <1>2, <1>4

LEMMA CreateAppends ==
  ASSUME NEW mem \in Memory, NEW on, QueuesInv(mem, on), NEW u \in Threads,
         mem.state[u] \in {"CREATED", "RUNNING"}, NEW r,
         r = kscheduler_enqueue(kthread_create(mem, u), u)
  PROVE  /\ ReadyList(r) = Append(ReadyList(mem), u)
         /\ \A m \in Mutexes : WaitList(r, m) = WaitList(mem, m)
         /\ SameSleepers(r, mem)
<1> DEFINE mem1 == kthread_create(mem, u)
           R == ReadySet(mem)
<1>1. u \in All /\ NULL \notin All
  BY KernelAssumption DEF All
<1>2. R \in SUBSET Threads /\ u \notin R /\ on[u] = NULL /\ mem.next[u] = NULL
      /\ \A m \in Mutexes : u \notin WaitSet(mem, on, m)
  BY DEF ReadySet, QueuesInv, WaitSet
<1>3. /\ mem1.next = [mem.next EXCEPT ![u] = NULL]
      /\ mem1.waiting_on = mem.waiting_on
      /\ mem1.head = mem.head /\ mem1.tail = mem.tail
      /\ mem1.mhead = mem.mhead /\ mem1.chead = mem.chead
  BY DEF kthread_create, Memory
<1>4. mem1 \in Memory
  BY <1>1, <1>3 DEF kthread_create, Memory, States, Objects
<1>5. mem1.next = mem.next
  BY <1>1, <1>2, <1>3 DEF Memory
<1>6. r = kscheduler_enqueue(mem1, u)
  OBVIOUS
<1> HIDE DEF mem1
<1>7. IsQueue(mem1.next, mem1.head, mem1.tail, R)
  BY <1>3, <1>5 DEF QueuesInv
<1>8. ReadyList(r) = Append(ReadyList(mem1), u)
  BY <1>2, <1>4, <1>6, <1>7, EnqueueAppends
<1>9. Enqueued(r, mem1, u, R)
  BY <1>2, <1>4, <1>6, <1>7, EnqueueEffect
<1>10. \A t \in All : t \notin R \union {u} =>
         r.next[t] = mem.next[t] /\ r.waiting_on[t] = mem.waiting_on[t]
  BY <1>3, <1>5, <1>9 DEF Enqueued, Memory
<1>11. r.mhead = mem.mhead /\ r.chead = mem.chead
  BY <1>3, <1>9 DEF Enqueued, SameMutexes
<1>12. (\A m \in Mutexes : WaitList(r, m) = WaitList(mem, m)) /\ SameSleepers(r, mem)
  BY <1>2, <1>10, <1>11, EnqueueFrame
<1> QED BY <1>3, <1>5, <1>8, <1>12 DEF ReadyList

LEMMA BlockAppends ==
  ASSUME NEW mem \in Memory, NEW on, QueuesInv(mem, on), NEW t \in Threads,
         NEW m \in Mutexes, mem.state[t] = "RUNNING", NEW r, r = Block(mem, m, t)
  PROVE  /\ ReadyList(r) = ReadyList(mem)
         /\ WaitList(r, m) = Append(WaitList(mem, m), t)
         /\ \A n \in Mutexes \ {m} : WaitList(r, n) = WaitList(mem, n)
         /\ SameSleepers(r, mem)
<1> DEFINE Q == WaitSet(mem, on, m)
           n2 == IF mem.mhead[m] = NULL THEN mem.next
                 ELSE [mem.next EXCEPT ![mem.mtail[m]] = t]
           h2 == IF mem.mhead[m] = NULL THEN t ELSE mem.mhead[m]
<1>1. NULL \notin All /\ Threads \subseteq All
  BY KernelAssumption DEF All
<1>2. /\ Q \in SUBSET Threads /\ t \notin Q /\ on[t] = NULL /\ mem.next[t] = NULL
      /\ \A u \in Threads : on[u] # NULL => u \notin Q /\ u # t
      /\ IsQueue(mem.next, mem.mhead[m], mem.mtail[m], Q)
  BY DEF WaitSet, QueuesInv
<1>3. /\ mem.next \in Links /\ n2[t] = NULL
      /\ mem.mhead[m] # NULL => n2[mem.mtail[m]] = t
      /\ \A u \in All : u # mem.mtail[m] => n2[u] = mem.next[u]
      /\ \A u \in All : u \notin Q => n2[u] = mem.next[u]
  <2>1. mem.mhead[m] # NULL => mem.mtail[m] \in Q
    BY <1>2 DEF IsQueue
  <2> QED BY <1>1, <1>2, <2>1 DEF Memory, Links
<1>4. /\ r.next = n2 /\ r.head = mem.head /\ r.chead = mem.chead
      /\ r.waiting_on = [mem.waiting_on EXCEPT ![t] = m]
      /\ r.mhead = [mem.mhead EXCEPT ![m] = h2]
  BY DEF Block, Memory
<1>5. \A u \in Threads : u # t => r.waiting_on[u] = mem.waiting_on[u]
  BY <1>1, <1>4 DEF Memory
<1>6. r.mhead[m] = h2 /\ \A n \in Mutexes \ {m} : r.mhead[n] = mem.mhead[n]
  BY <1>4 DEF Memory
<1> HIDE DEF n2
<1>7. WaitList(r, m) = Append(WaitList(mem, m), t)
  <2>1. LinkedBehind(mem.next, n2, mem.mhead[m], h2, mem.mtail[m], Q, t)
    BY <1>1, <1>2, <1>3 DEF LinkedBehind
  <2> HIDE DEF h2
  <2>2. IsAppended(ListFrom(n2, h2), ListFrom(mem.next, mem.mhead[m]), t)
    BY <1>2, <1>3, <2>1, ListAppend
  <2> QED BY <1>4, <1>6, <2>2 DEF WaitList, IsAppended
<1>8. ReadyList(r) = ReadyList(mem)
  <2>1. /\ IsQueue(mem.next, mem.head, mem.tail, ReadySet(mem))
        /\ ReadySet(mem) \in SUBSET Threads
        /\ \A u \in ReadySet(mem) : n2[u] = mem.next[u]
    BY <1>1, <1>3 DEF QueuesInv, ReadySet, WaitSet
  <2> QED BY <1>3, <1>4, <2>1, ListFrame DEF ReadyList
<1>9. ASSUME NEW n \in Mutexes \ {m} PROVE WaitList(r, n) = WaitList(mem, n)
  <2>1. \A u \in WaitSet(mem, on, n) : r.next[u] = mem.next[u]
    BY <1>1, <1>3, <1>4 DEF WaitSet
  <2> QED BY <1>6, <2>1, WaitListStays
<1>10. SameSleepers(r, mem)
  <2>1. \A u \in Threads : on[u] # NULL =>
          r.next[u] = mem.next[u] /\ r.waiting_on[u] = mem.waiting_on[u]
    BY <1>1, <1>2, <1>3, <1>4, <1>5
  <2>2. r.chead = mem.chead
    BY <1>4
  <2> HIDE DEF Q, h2
  <2> QED BY <2>1, <2>2, SleepersStay
<1> QED BY <1>7, <1>8, <1>9, <1>10

LEMMA HandOffMoves ==
  ASSUME NEW mem \in Memory, NEW on, QueuesInv(mem, on), NEW m \in Mutexes,
         mem.mhead[m] # NULL, NEW r, r = HandOff(mem, m)
  PROVE  /\ WaitList(mem, m) # <<>> /\ Head(WaitList(mem, m)) = mem.mhead[m]
         /\ ReadyList(r) = Append(ReadyList(mem), mem.mhead[m])
         /\ WaitList(r, m) = Tail(WaitList(mem, m))
         /\ \A n \in Mutexes \ {m} : WaitList(r, n) = WaitList(mem, n)
         /\ SameSleepers(r, mem)
<1> DEFINE t == mem.mhead[m]
           Q == WaitSet(mem, on, m)
           R == ReadySet(mem)
           mem1 == [mem EXCEPT
                      !.lock_count[m] = 1,
                      !.mhead[m] = mem.next[t],
                      !.mtail[m] = IF mem.next[t] = NULL THEN NULL ELSE mem.mtail[m],
                      !.owner[m] = t]
<1>1. NULL \notin All /\ Threads \subseteq All
  BY KernelAssumption DEF All
<1>2. IsQueue(mem.next, t, mem.mtail[m], Q) /\ Q \in SUBSET Threads
  BY DEF QueuesInv, WaitSet
<1>3. /\ t \in Q /\ t \in Threads /\ t \notin R /\ R \in SUBSET Threads /\ on[t] = NULL
      /\ mem.mtail[m] \in Threads /\ mem.next[t] \in All \union {NULL}
      /\ \A n \in Mutexes \ {m} : t \notin WaitSet(mem, on, n)
      /\ \A u \in R : u \notin Q
  BY <1>1, <1>2 DEF IsQueue, WaitSet, ReadySet, Memory
<1>4. /\ mem1.next = mem.next /\ mem1.head = mem.head /\ mem1.tail = mem.tail
      /\ mem1.waiting_on = mem.waiting_on /\ mem1.chead = mem.chead
      /\ mem1.mhead = [mem.mhead EXCEPT ![m] = mem.next[t]]
  BY DEF Memory
<1>5. mem1 \in Memory
  <2>1. 1 \in 0 .. CountMod - 1
    BY KernelAssumption
  <2>2. /\ [mem.owner EXCEPT ![m] = t] \in [Mutexes -> All \union {NULL}]
        /\ [mem.lock_count EXCEPT ![m] = 1] \in [Mutexes -> 0 .. CountMod - 1]
        /\ [mem.mhead EXCEPT ![m] = mem.next[t]] \in [Mutexes -> All \union {NULL}]
    BY <1>1, <1>3, <2>1 DEF Memory
  <2> QED BY <2>2 DEF Memory
<1>6. r = kscheduler_enqueue(mem1, t)
  BY DEF HandOff
<1> HIDE DEF mem1
<1>7. IsQueue(mem1.next, mem1.head, mem1.tail, R)
  BY <1>4 DEF QueuesInv
<1> HIDE DEF t
<1>8. Enqueued(r, mem1, t, R) /\ ReadyList(r) = Append(ReadyList(mem1), t)
  BY <1>3, <1>5, <1>6, <1>7, EnqueueEffect, EnqueueAppends
<1>9. \A u \in All : u \notin R \union {t} =>
        r.next[u] = mem.next[u] /\ r.waiting_on[u] = mem.waiting_on[u]
  BY <1>4, <1>8 DEF Enqueued, Memory
<1>10. r.chead = mem.chead /\ r.mhead = [mem.mhead EXCEPT ![m] = mem.next[t]]
  BY <1>4, <1>8 DEF Enqueued, SameMutexes
<1>11. r.mhead[m] = mem.next[t] /\ \A n \in Mutexes \ {m} : r.mhead[n] = mem.mhead[n]
  BY <1>10 DEF Memory
<1>12. /\ \A n \in Mutexes \ {m} : WaitList(r, n) = WaitList(mem, n)
       /\ SameSleepers(r, mem)
  <2>1. \A n \in Mutexes \ {m} : n \in Mutexes /\ r.mhead[n] = mem.mhead[n] /\ t \notin WaitSet(mem, on, n)
    BY <1>3, <1>11
  <2>2. \A u \in All : u \notin ReadySet(mem) \union {t} =>
           r.next[u] = mem.next[u] /\ r.waiting_on[u] = mem.waiting_on[u]
    BY <1>9
  <2> HIDE DEF Q, R
  <2>3. /\ \A n \in Mutexes : r.mhead[n] = mem.mhead[n] /\ t \notin WaitSet(mem, on, n)
              => WaitList(r, n) = WaitList(mem, n)
        /\ SameSleepers(r, mem)
    <3>1. t \in Threads /\ on[t] = NULL /\ r.chead = mem.chead
      BY <1>3, <1>10
    <3> QED BY ONLY mem \in Memory, QueuesInv(mem, on), <2>2, <3>1, EnqueueFrame
  <2> QED BY <2>1, <2>3
<1>13. mem.next \in Links /\ t # NULL
  BY <1>1, <1>3 DEF Memory, Links
<1>14. WaitList(r, m) = Tail(WaitList(mem, m))
  <2>1. \A u \in Q : u # t => r.next[u] = mem.next[u]
    BY <1>1, <1>3, <1>9 DEF WaitSet, ReadySet
  <2>2. ListFrom(r.next, mem.next[t]) = Tail(ListFrom(mem.next, t))
    BY <1>2, <1>13, <2>1, ListRemove
  <2> QED BY <1>11, <2>2 DEF WaitList, t
<1>15. WaitList(mem, m) # <<>> /\ Head(WaitList(mem, m)) = t
  <2>1. (t = NULL <=> ListFrom(mem.next, t) = <<>>)
        /\ (t # NULL => Head(ListFrom(mem.next, t)) = t)
    <3> HIDE DEF Q
    <3> QED BY <1>2, <1>13, ListHead
  <2> QED BY <1>13, <2>1 DEF WaitList, t
<1> QED BY <1>4, <1>8, <1>12, <1>14, <1>15 DEF ReadyList, t

-----------------------------------------------------------------------------
(* One step of Monitor, or none, for each action *)

WaitLists(mem) == [m \in Mutexes |-> WaitList(mem, m)]
SleepLists(mem) ==
  [c \in Conds |-> LET q == SleepList(mem, c)
                   IN  [i \in DOMAIN q |-> <<q[i], mem.waiting_on[q[i]]>>]]

LEMMA SleepersSame ==
  ASSUME NEW mem, NEW r, SameSleepers(r, mem)
  PROVE  SleepLists(r) = SleepLists(mem)
<1>1. ASSUME NEW c \in Conds
      PROVE  [i \in DOMAIN SleepList(r, c) |->
                <<SleepList(r, c)[i], r.waiting_on[SleepList(r, c)[i]]>>]
           = [i \in DOMAIN SleepList(mem, c) |->
                <<SleepList(mem, c)[i], mem.waiting_on[SleepList(mem, c)[i]]>>]
  BY DEF SameSleepers
<1> QED BY <1>1 DEF SleepLists

LEMMA WaitListsSame ==
  ASSUME NEW mem, NEW r, \A m \in Mutexes : WaitList(r, m) = WaitList(mem, m)
  PROVE  WaitLists(r) = WaitLists(mem)
BY DEF WaitLists

LEMMA WaitListsExcept ==
  ASSUME NEW mem, NEW r, NEW m \in Mutexes, NEW q, WaitList(r, m) = q,
         \A n \in Mutexes \ {m} : WaitList(r, n) = WaitList(mem, n)
  PROVE  WaitLists(r) = [WaitLists(mem) EXCEPT ![m] = q]
BY DEF WaitLists

LEMMA PreemptStep ==
  ASSUME k.current # NULL, k.state[k.current] # "BLOCKED", RunsFirst(k', k, Candidates(k))
  PROVE  Abstract!Preempt
<1>1. Candidates(k) = IF k.current = Main THEN ReadyList(k) ELSE Append(ReadyList(k), k.current)
  BY DEF Candidates, Requeues
<1>2. WaitLists(k') = WaitLists(k) /\ SleepLists(k') = SleepLists(k)
  BY SleepersSame, WaitListsSame DEF RunsFirst
<1> QED
  BY <1>1, <1>2
  DEF RunsFirst, Abstract!Preempt, Abstract!RunFirst, ReadyList, WaitList, SleepList,
      WaitLists, SleepLists

\* Nobody sees an address being allocated or freed.
LEMMA NothingSeen ==
  ASSUME SameQueues(k', k), k'.current = k.current,
         k'.owner = k.owner, k'.lock_count = k.lock_count
  PROVE  UNCHANGED Abstract!vars
<1>1. /\ k'.next = k.next /\ k'.head = k.head /\ k'.mhead = k.mhead
      /\ k'.chead = k.chead /\ k'.waiting_on = k.waiting_on
  BY DEF SameQueues
<1> QED BY <1>1 DEF Abstract!vars

\* A thread that is not allocated is in no queue.
LEMMA FreeIsIdle ==
  ASSUME NEW on, GoodNow(on), k.current \in Threads, NEW u \in Threads \ k.heap
  PROVE  u \in Abstract!Idle
<1>1. /\ k.next \in Links /\ QueuesInv(k, on) /\ u # k.current
      /\ k.state[u] \in {"CREATED", "RUNNING"}
  <2>1. k \in Memory /\ QueuesInv(k, on) /\ ThreadsInv(k, exited)
    BY DEF GoodNow, Good
  <2>2. k.next \in Links
    BY <2>1 DEF Memory, Links
  <2>3. u # k.current /\ k.state[u] \in {"CREATED", "RUNNING"}
    BY <2>1, KernelAssumption DEF ThreadsInv
  <2> QED BY <2>1, <2>2, <2>3
<1>2. ASSUME NEW Q \in SUBSET Threads, NEW h, NEW tl, IsQueue(k.next, h, tl, Q), u \notin Q
      PROVE  \A i \in DOMAIN ListFrom(k.next, h) : ListFrom(k.next, h)[i] # u
  <2>1. ListFrom(k.next, h) \in Seq(Q)
    BY <1>1, <1>2, ListHead
  <2> QED BY <1>2, <2>1
<1>3. u \notin Abstract!ToSet(ReadyList(k))
  <2>1. /\ IsQueue(k.next, k.head, k.tail, ReadySet(k)) /\ ReadySet(k) \in SUBSET Threads
        /\ u \notin ReadySet(k)
    BY <1>1 DEF QueuesInv, ReadySet
  <2>2. \A i \in DOMAIN ListFrom(k.next, k.head) : ListFrom(k.next, k.head)[i] # u
    BY <1>2, <2>1
  <2> QED BY <2>2 DEF ReadyList, Abstract!ToSet
<1>4. ASSUME NEW m \in Mutexes PROVE u \notin Abstract!ToSet(WaitList(k, m))
  <2>1. /\ IsQueue(k.next, k.mhead[m], k.mtail[m], WaitSet(k, on, m))
        /\ WaitSet(k, on, m) \in SUBSET Threads /\ u \notin WaitSet(k, on, m)
    BY <1>1 DEF QueuesInv, WaitSet
  <2>2. \A i \in DOMAIN ListFrom(k.next, k.mhead[m]) : ListFrom(k.next, k.mhead[m])[i] # u
    BY <1>2, <2>1
  <2> QED BY <2>2 DEF WaitList, Abstract!ToSet
<1>5. ASSUME NEW c \in Conds
      PROVE  \A i \in DOMAIN SleepList(k, c) : SleepList(k, c)[i] # u
  <2>1. /\ IsQueue(k.next, k.chead[c], k.ctail[c], SleepSet(on, c))
        /\ SleepSet(on, c) \in SUBSET Threads /\ u \notin SleepSet(on, c)
    BY <1>1, KernelAssumption DEF QueuesInv, SleepSet
  <2>2. \A i \in DOMAIN ListFrom(k.next, k.chead[c]) : ListFrom(k.next, k.chead[c])[i] # u
    BY <1>2, <2>1
  <2> QED BY <2>2 DEF SleepList
<1>6. u \notin Abstract!Waiting
  BY <1>4 DEF Abstract!Waiting, WaitList
<1>7. u \notin Abstract!Asleep
  <2>1. Abstract!Asleep = UNION {{s[1] : s \in Abstract!ToSet(SleepLists(k)[c])} : c \in Conds}
    BY DEF Abstract!Asleep, SleepLists, SleepList
  <2>2. ASSUME NEW c \in Conds, NEW s \in Abstract!ToSet(SleepLists(k)[c]) PROVE s[1] # u
    <3>1. SleepLists(k)[c] = [i \in DOMAIN SleepList(k, c) |->
                              <<SleepList(k, c)[i], k.waiting_on[SleepList(k, c)[i]]>>]
      BY DEF SleepLists
    <3> QED BY <1>5, <3>1 DEF Abstract!ToSet
  <2> QED BY <2>1, <2>2
<1> QED BY <1>1, <1>3, <1>6, <1>7 DEF Abstract!Idle, ReadyList

LEMMA CreateStep ==
  ASSUME NEW on, GoodNow(on), NEW t \in Threads, syscall_thread_create(t)
  PROVE  Abstract!Create
<1> PICK u \in Threads \ k.heap : k' = kscheduler_enqueue(kthread_create(k, u), u)
  BY DEF syscall_thread_create
<1>1. /\ k.current = t /\ t # Main /\ k \in Memory /\ QueuesInv(k, on)
      /\ k.state[u] \in {"CREATED", "RUNNING"}
  BY CallerRuns DEF syscall_thread_create, GoodNow, Good, ThreadsInv
<1>2. u \in Abstract!Idle
  BY <1>1, FreeIsIdle
<1>3. /\ ReadyList(k') = Append(ReadyList(k), u)
      /\ \A m \in Mutexes : WaitList(k', m) = WaitList(k, m)
      /\ SameSleepers(k', k)
  BY <1>1, CreateAppends
<1>4. WaitLists(k') = WaitLists(k) /\ SleepLists(k') = SleepLists(k)
  BY <1>3, SleepersSame, WaitListsSame
<1>5. k'.current = k.current /\ k'.owner = k.owner /\ k'.lock_count = k.lock_count
  BY <1>1 DEF kscheduler_enqueue, kthread_create, Memory
<1> QED
  BY <1>1, <1>2, <1>3, <1>4, <1>5
  DEF Abstract!Create, ReadyList, WaitList, SleepList, WaitLists, SleepLists

LEMMA ExitStep ==
  ASSUME NEW on, GoodNow(on), NEW t \in Threads, syscall_thread_exit(t)
  PROVE  Abstract!Exit
<1> DEFINE mem == [k EXCEPT !.current = NULL]
<1>1. /\ k.current = t /\ t # Main /\ k \in Memory /\ QueuesInv(k, on) /\ depth[t] = Unlocked
      /\ k' = kthread_dispatch(mem)
  BY CallerRuns DEF syscall_thread_exit, kthread_stop, GoodNow, Good
<1>2. /\ SameQueues(mem, k) /\ mem.current = NULL /\ mem \in Memory
      /\ mem.owner = k.owner /\ mem.lock_count = k.lock_count
      /\ mem.next = k.next /\ mem.head = k.head /\ mem.mhead = k.mhead /\ mem.chead = k.chead
      /\ mem.waiting_on = k.waiting_on
  BY <1>1 DEF Memory, SameQueues
<1> HIDE DEF mem
<1>3. QueuesInv(mem, on)
  BY <1>1, <1>2, QueuesFrame
<1>4. RunsFirst(k', mem, Candidates(mem))
  BY <1>1, <1>2, <1>3, DispatchRunsFirst
<1>5. /\ Candidates(mem) = ReadyList(k) /\ WaitLists(mem) = WaitLists(k)
      /\ SleepLists(mem) = SleepLists(k)
  BY <1>2 DEF Candidates, Requeues, ReadyList, WaitList, WaitLists, SleepList, SleepLists
<1>6. WaitLists(k') = WaitLists(mem) /\ SleepLists(k') = SleepLists(mem)
  BY <1>4, SleepersSame, WaitListsSame DEF RunsFirst
<1>7. \A m \in Mutexes : k.owner[m] # t
  <2>1. \A m \in Mutexes : depth[t][m] = 0
    BY <1>1 DEF Unlocked
  <2> QED BY <2>1 DEF GoodNow, Good, OwnersInv
<1> QED
  BY <1>1, <1>2, <1>4, <1>5, <1>6, <1>7
  DEF RunsFirst, Abstract!Exit, Abstract!RunFirst, ReadyList, WaitList, SleepList,
      WaitLists, SleepLists

LEMMA DetachStep ==
  ASSUME NEW on, GoodNow(on), NEW t \in Threads, syscall_thread_detach(t)
  PROVE  UNCHANGED Abstract!vars
<1> PICK u \in Threads : k' = kthread_destroy(k, u)
  BY DEF syscall_thread_detach
<1>1. k \in Memory
  BY DEF GoodNow, Good
<1> QED BY <1>1, NothingSeen DEF kthread_destroy, Memory, SameQueues

LEMMA DispatchStep ==
  ASSUME NEW on, GoodNow(on), k' = kthread_dispatch(k)
  PROVE  Abstract!Preempt
<1>1. k.current # NULL /\ k.state[k.current] = "RUNNING" /\ k \in Memory /\ QueuesInv(k, on)
  BY KernelAssumption DEF GoodNow, Good, ThreadsInv, QueuesInv
<1>2. RunsFirst(k', k, Candidates(k))
  BY <1>1, DispatchRunsFirst
<1> QED BY <1>1, <1>2, PreemptStep

LEMMA MutexCreateStep ==
  ASSUME NEW on, GoodNow(on), NEW t \in Threads, syscall_mutex_create(t)
  PROVE  UNCHANGED Abstract!vars
<1> PICK m \in Mutexes \ k.heap :
           k' = [kmutex_init(k, m) EXCEPT !.heap = k.heap \union {m}]
  BY DEF syscall_mutex_create
<1>1. k \in Memory /\ NULL \notin Threads
  BY KernelAssumption DEF GoodNow, Good
<1>2. \A u \in Threads : depth[u][m] = 0
  BY DEF GoodNow, Good, GoneHoldNothing
<1>3. WaitSet(k, on, m) = {} /\ k.owner[m] = NULL /\ k.lock_count[m] = 0
  BY <1>1, <1>2 DEF GoodNow, Good, OwnersInv
<1>4. k.mhead[m] = NULL /\ k.mtail[m] = NULL
  BY <1>3 DEF GoodNow, Good, QueuesInv, IsQueue
<1>5. /\ SameQueues(k', k) /\ k'.current = k.current
      /\ k'.owner = k.owner /\ k'.lock_count = k.lock_count
  BY <1>1, <1>3, <1>4 DEF kmutex_init, Memory, SameQueues
<1> QED BY <1>5, NothingSeen

LEMMA MutexDestroyStep ==
  ASSUME NEW on, GoodNow(on), NEW t \in Threads, syscall_mutex_destroy(t)
  PROVE  UNCHANGED Abstract!vars
<1> PICK m \in Mutexes : k' = [kmutex_destroy(k, m) EXCEPT !.heap = @ \ {m}]
  BY DEF syscall_mutex_destroy
<1>1. k \in Memory
  BY DEF GoodNow, Good
<1> QED BY <1>1, NothingSeen DEF kmutex_destroy, Memory, SameQueues

LEMMA LockStep ==
  ASSUME NEW on, GoodNow(on), NEW t \in Threads, NEW m \in Mutexes, syscall_mutex_lock(t, m)
  PROVE  Abstract!Lock(m)
<1> DEFINE k1 == kmutex_lock(k, m, t)
<1>1. /\ k.current = t /\ t # Main /\ t # NULL /\ k.state[t] = "RUNNING" /\ MayLock(t, m)
      /\ k' = DispatchIfBlocked(k1) /\ k \in Memory /\ depth \in Depths /\ QueuesInv(k, on)
  BY CallerRuns DEF syscall_mutex_lock, GoodNow, Good, Depths
<1>2. CASE k.owner[m] = NULL
  <2>1. k1 = [k EXCEPT !.owner[m] = t, !.lock_count[m] = 1]
    BY <1>1, <1>2 DEF kmutex_lock
  <2>2. k' = [k EXCEPT !.owner[m] = t, !.lock_count[m] = 1]
    BY <1>1, <2>1 DEF DispatchIfBlocked, Memory
  <2>3. /\ k'.owner = [k.owner EXCEPT ![m] = t] /\ k'.lock_count = [k.lock_count EXCEPT ![m] = 1]
        /\ k'.current = k.current /\ SameQueues(k', k)
    BY <1>1, <2>2 DEF Memory, SameQueues
  <2> QED BY <1>1, <1>2, <2>3 DEF SameQueues, Abstract!Lock
<1>3. CASE k.owner[m] = t
  <2>1. depth[t][m] > 0 /\ k.lock_count[m] = depth[t][m]
    BY <1>1, <1>3 DEF GoodNow, Good, OwnersInv
  <2>2. m \in Recursive /\ depth[t][m] \in Nat /\ depth[t][m] < MaxDepth
    BY <1>1, <2>1, MutexSystemAssumption DEF MayLock, Depths
  <2>3. (k.lock_count[m] + 1) % CountMod = k.lock_count[m] + 1
    BY <2>1, <2>2, MutexSystemAssumption, KernelAssumption
  <2>4. k1 = [k EXCEPT !.lock_count[m] = k.lock_count[m] + 1]
    BY <1>1, <1>3, <2>2, <2>3 DEF kmutex_lock, Memory
  <2>5. k' = [k EXCEPT !.lock_count[m] = k.lock_count[m] + 1]
    BY <1>1, <2>4 DEF DispatchIfBlocked, Memory
  <2>6. /\ k'.owner = k.owner
        /\ k'.lock_count = [k.lock_count EXCEPT ![m] = k.lock_count[m] + 1]
        /\ k'.current = k.current /\ SameQueues(k', k)
    BY <1>1, <2>5 DEF Memory, SameQueues
  <2> QED BY <1>1, <1>3, <2>2, <2>6 DEF SameQueues, Abstract!Lock
<1>4. CASE k.owner[m] \notin {NULL, t}
  <2>1. k1 = Block(k, m, t)
    BY <1>1, <1>4 DEF kmutex_lock
  <2> HIDE DEF k1
  <2>2. Blocked(k1, k, on, t, m)
    BY <1>1, <2>1, BlockEffect
  <2>3. k1.state[t] = "BLOCKED" /\ k1.current = t /\ k1.owner = k.owner
        /\ k1.lock_count = k.lock_count /\ k1 \in Memory /\ QueuesInv(k1, on)
    BY <1>1, <2>2 DEF Blocked, Memory, All
  <2>4. k' = kthread_dispatch(k1)
    BY <1>1, <2>3 DEF DispatchIfBlocked
  <2>5. RunsFirst(k', k1, Candidates(k1))
    BY <1>1, <2>3, <2>4, DispatchRunsFirst
  <2>6. Candidates(k1) = ReadyList(k1)
    BY <2>3 DEF Candidates, Requeues
  <2>7. /\ ReadyList(k1) = ReadyList(k)
        /\ WaitList(k1, m) = Append(WaitList(k, m), t)
        /\ \A n \in Mutexes \ {m} : WaitList(k1, n) = WaitList(k, n)
        /\ SameSleepers(k1, k)
    BY <1>1, <2>1, BlockAppends
  <2>8. WaitLists(k1) = [WaitLists(k) EXCEPT ![m] = Append(WaitList(k, m), t)]
    <3>1. WaitList(k1, m) = Append(WaitList(k, m), t)
          /\ \A n \in Mutexes \ {m} : WaitList(k1, n) = WaitList(k, n)
      BY <2>7
    <3> QED BY <3>1 DEF WaitLists
  <2>9. SleepLists(k1) = SleepLists(k) /\ SleepLists(k') = SleepLists(k1) /\ WaitLists(k') = WaitLists(k1)
    BY <2>5, <2>7, SleepersSame, WaitListsSame DEF RunsFirst
  <2>10. WaitLists(k') = [WaitLists(k) EXCEPT ![m] = Append(WaitLists(k)[m], k.current)]
    BY <1>1, <2>8, <2>9 DEF WaitLists
  <2> QED
    BY <1>1, <1>4, <2>3, <2>5, <2>6, <2>7, <2>9, <2>10
    DEF RunsFirst, Abstract!Lock, Abstract!RunFirst, ReadyList, WaitList, SleepList,
        WaitLists, SleepLists
<1> QED BY <1>2, <1>3, <1>4

LEMMA TryLockStep ==
  ASSUME NEW on, GoodNow(on), NEW t \in Threads, NEW m \in Mutexes, syscall_mutex_try_lock(t, m)
  PROVE  Abstract!Lock(m) \/ UNCHANGED Abstract!vars
<1>1. k.current = t /\ t # Main /\ k' = kmutex_try_lock(k, m, t) /\ k \in Memory
  BY CallerRuns DEF syscall_mutex_try_lock, GoodNow, Good
<1>2. CASE k.owner[m] = NULL
  <2>1. k' = [k EXCEPT !.owner[m] = t, !.lock_count[m] = 1]
    BY <1>1, <1>2 DEF kmutex_try_lock
  <2>2. /\ k'.owner = [k.owner EXCEPT ![m] = t] /\ k'.lock_count = [k.lock_count EXCEPT ![m] = 1]
        /\ k'.current = k.current /\ SameQueues(k', k)
    BY <1>1, <2>1 DEF Memory, SameQueues
  <2> QED BY <1>1, <1>2, <2>2 DEF SameQueues, Abstract!Lock
<1>3. CASE k.owner[m] # NULL
  <2>1. k' = k
    BY <1>1, <1>3 DEF kmutex_try_lock
  <2> QED BY <2>1, NothingSeen DEF SameQueues
<1> QED BY <1>2, <1>3

LEMMA UnlockStep ==
  ASSUME NEW on, GoodNow(on), NEW t \in Threads, NEW m \in Mutexes, syscall_mutex_unlock(t, m)
  PROVE  Abstract!Unlock(m) \/ UNCHANGED Abstract!vars
<1> DEFINE count == (k.lock_count[m] - 1) % CountMod
<1>1. /\ k.current = t /\ t # Main /\ t # NULL /\ k' = kmutex_unlock(k, m, t)
      /\ k \in Memory /\ depth \in Depths /\ QueuesInv(k, on)
  BY CallerRuns DEF syscall_mutex_unlock, GoodNow, Good, Depths
<1>2. CASE k.owner[m] # t
  <2>1. k' = k
    BY <1>1, <1>2 DEF kmutex_unlock
  <2> QED BY <2>1, NothingSeen DEF SameQueues
<1>3. CASE k.owner[m] = t
  <2>1. /\ depth[t][m] > 0 /\ k.lock_count[m] = depth[t][m]
        /\ depth[t][m] \in 0 .. MaxDepth
        /\ m \notin Recursive => depth[t][m] = 1
    BY <1>1, <1>3 DEF GoodNow, Good, OwnersInv, Depths
  <2>2. count = k.lock_count[m] - 1 /\ k.lock_count[m] \in 1 .. MaxDepth /\ k.lock_count[m] \in Nat
    <3>1. ASSUME NEW c \in 1 .. MaxDepth PROVE (c - 1) % CountMod = c - 1
      BY KernelAssumption, MutexSystemAssumption
    <3>2. k.lock_count[m] \in 1 .. MaxDepth
      BY <2>1, MutexSystemAssumption
    <3> QED BY <3>1, <3>2, MutexSystemAssumption
  <2>3. count > 0 <=> k.lock_count[m] > 1
    BY <2>2
  <2>4. IsQueue(k.next, k.mhead[m], k.mtail[m], WaitSet(k, on, m))
        /\ WaitSet(k, on, m) \in SUBSET Threads /\ k.next \in Links
    BY <1>1 DEF QueuesInv, WaitSet, Memory, Links
  <2>5. k.mhead[m] = NULL <=> WaitList(k, m) = <<>>
    <3>1. k.mhead[m] = NULL <=> ListFrom(k.next, k.mhead[m]) = <<>>
      BY <2>4, EmptyList
    <3> QED BY <3>1 DEF WaitList
  <2>6. CASE m \in Recursive /\ count > 0
    <3>1. k' = [k EXCEPT !.lock_count[m] = k.lock_count[m] - 1]
      BY <1>1, <1>3, <2>2, <2>6 DEF kmutex_unlock
    <3>2. /\ k'.owner = k.owner
          /\ k'.lock_count = [k.lock_count EXCEPT ![m] = k.lock_count[m] - 1]
          /\ k'.current = k.current /\ SameQueues(k', k)
      BY <1>1, <3>1 DEF Memory, SameQueues
    <3> QED BY <1>1, <1>3, <2>3, <2>6, <3>2 DEF SameQueues, Abstract!Unlock
  <2>7. CASE ~(m \in Recursive /\ count > 0) /\ k.mhead[m] = NULL
    <3>1. count = 0
      BY <2>1, <2>2, <2>7
    <3>2. k' = [k EXCEPT !.lock_count[m] = 0, !.owner[m] = NULL]
      BY <1>1, <1>3, <2>7, <3>1 DEF kmutex_unlock
    <3>3. /\ k'.owner = [k.owner EXCEPT ![m] = NULL]
          /\ k'.lock_count = [k.lock_count EXCEPT ![m] = 0]
          /\ k'.current = k.current /\ SameQueues(k', k)
      BY <1>1, <3>2 DEF Memory, SameQueues
    <3>4. ~(m \in Recursive /\ k.lock_count[m] > 1) /\ ListFrom(k.next, k.mhead[m]) = <<>>
      BY <2>3, <2>5, <2>7 DEF WaitList
    <3> HIDE DEF count
    <3> QED
      BY <1>1, <1>3, <3>3, <3>4
      DEF SameQueues, Abstract!Unlock, Abstract!GiveUp, Abstract!ReadyAfterGivingUp
  <2>8. CASE ~(m \in Recursive /\ count > 0) /\ k.mhead[m] # NULL
    <3>1. k' = HandOff(k, m)
      BY <1>1, <1>3, <2>8 DEF kmutex_unlock
    <3>2. ~(m \in Recursive /\ k.lock_count[m] > 1)
      BY <2>3, <2>8
    <3> HIDE DEF count
    <3>3. /\ WaitList(k, m) # <<>> /\ Head(WaitList(k, m)) = k.mhead[m]
          /\ ReadyList(k') = Append(ReadyList(k), k.mhead[m])
          /\ WaitList(k', m) = Tail(WaitList(k, m))
          /\ \A n \in Mutexes \ {m} : WaitList(k', n) = WaitList(k, n)
          /\ SameSleepers(k', k)
      BY <1>1, <2>8, <3>1, HandOffMoves
    <3>4. SleepLists(k') = SleepLists(k)
      BY <3>3, SleepersSame
    <3>5. WaitLists(k') = [WaitLists(k) EXCEPT ![m] = Tail(WaitLists(k)[m])]
      <4>1. WaitLists(k') = [WaitLists(k) EXCEPT ![m] = Tail(WaitList(k, m))]
        BY <3>3, WaitListsExcept
      <4> QED BY <4>1 DEF WaitLists
    <3>6. WaitLists(k)[m] # <<>> /\ k.mhead[m] = Head(WaitLists(k)[m])
      BY <3>3 DEF WaitLists
    <3>7. /\ k'.owner = [k.owner EXCEPT ![m] = k.mhead[m]]
          /\ k'.lock_count = [k.lock_count EXCEPT ![m] = 1] /\ k'.current = k.current
      BY <1>1, <3>1 DEF HandOff, kscheduler_enqueue, Memory
    <3> QED
      BY <1>1, <1>3, <3>2, <3>3, <3>4, <3>5, <3>6, <3>7
      DEF Abstract!Unlock, Abstract!GiveUp, Abstract!ReadyAfterGivingUp, ReadyList,
          WaitList, SleepList, WaitLists, SleepLists
  <2> QED BY <2>6, <2>7, <2>8
<1> QED BY <1>2, <1>3

LEMMA InitStep == Init => Abstract!Init
<1> SUFFICES ASSUME Init PROVE Abstract!Init
  OBVIOUS
<1> PICK p \in Threads, u \in Threads :
           /\ p # u
           /\ k = kscheduler_enqueue(kthread_create(
                    kscheduler_enqueue(kthread_create(Reset, p), p), u), u)
  BY DEF Init
<1> DEFINE k1 == kscheduler_enqueue(kthread_create(Reset, p), p)
           dep == [t \in Threads |-> Unlocked]
<1>1. Good(Reset, NobodySleeps, dep, {})
  BY ResetGood
<1>2. /\ Reset.heap = {} /\ Reset.current = Main /\ Reset.head = NULL
      /\ Reset.owner = [m \in Mutexes |-> NULL] /\ Reset.lock_count = [m \in Mutexes |-> 0]
      /\ Reset.mhead = [m \in Mutexes |-> NULL] /\ Reset.chead = [c \in Conds |-> NULL]
  BY DEF Reset
<1>3. Good(k1, NobodySleeps, dep, {})
  BY <1>1, <1>2, CreateKeeps
<1>4. k1.heap = {p} /\ u \in Threads \ k1.heap
  BY <1>1, <1>2, CreateFrame DEF Good
<1>5. /\ Reset \in Memory /\ QueuesInv(Reset, NobodySleeps)
      /\ Reset.state[p] \in {"CREATED", "RUNNING"}
  BY <1>1, <1>2 DEF Good, ThreadsInv
<1>6. /\ k1 \in Memory /\ QueuesInv(k1, NobodySleeps)
      /\ k1.state[u] \in {"CREATED", "RUNNING"}
  BY <1>3, <1>4 DEF Good, ThreadsInv
<1>7. /\ ReadyList(k1) = Append(ReadyList(Reset), p)
      /\ \A m \in Mutexes : WaitList(k1, m) = WaitList(Reset, m)
      /\ SameSleepers(k1, Reset)
  BY <1>5, CreateAppends
<1>8. k1.current = Main /\ k1.owner = Reset.owner /\ k1.lock_count = Reset.lock_count
  BY <1>2, <1>5, CreateFrame
<1>9. k = kscheduler_enqueue(kthread_create(k1, u), u)
  OBVIOUS
<1> HIDE DEF k1
<1>10. /\ ReadyList(k) = Append(ReadyList(k1), u)
       /\ \A m \in Mutexes : WaitList(k, m) = WaitList(k1, m)
       /\ SameSleepers(k, k1)
  BY <1>6, <1>9, CreateAppends
<1>11. k.current = Main /\ k.owner = Reset.owner /\ k.lock_count = Reset.lock_count
  BY <1>6, <1>8, <1>9, CreateFrame
<1>12. ASSUME NEW h, h = NULL PROVE ListFrom(Reset.next, h) = <<>>
  <2>1. IsListOf(Reset.next, h, <<>>, {})
    BY <1>12 DEF IsListOf
  <2> QED BY <2>1, ListFromIsList
<1>13. ReadyList(Reset) = <<>> /\ WaitLists(Reset) = [m \in Mutexes |-> <<>>]
  BY <1>2, <1>12 DEF ReadyList, WaitList, WaitLists
<1>14. SleepLists(Reset) = [c \in Conds |-> <<>>]
  <2>1. ASSUME NEW c \in Conds PROVE SleepList(Reset, c) = <<>>
    BY <1>2, <1>12 DEF SleepList
  <2> QED BY <2>1 DEF SleepLists
<1>15. WaitLists(k) = WaitLists(Reset) /\ SleepLists(k) = SleepLists(Reset)
  BY <1>7, <1>10, SleepersSame, WaitListsSame
<1>16. ReadyList(k) = <<p, u>>
  <2>1. ReadyList(k) = Append(Append(<<>>, p), u)
    BY <1>7, <1>10, <1>13
  <2>2. Append(Append(<<>>, p), u) = <<p, u>>
    <3> DEFINE s == Append(Append(<<>>, p), u)
               r == <<p, u>>
    <3>1. s \in Seq(Threads) /\ Len(s) = 2 /\ s[1] = p /\ s[2] = u
      OBVIOUS
    <3>2. r \in Seq(Threads) /\ Len(r) = 2 /\ r[1] = p /\ r[2] = u
      OBVIOUS
    <3> HIDE DEF s, r
    <3>3. s = [i \in 1 .. 2 |-> s[i]] /\ r = [i \in 1 .. 2 |-> r[i]]
      BY <3>1, <3>2
    <3>4. \A i \in 1 .. 2 : s[i] = r[i]
      BY <3>1, <3>2
    <3>5. s = r
      BY <3>3, <3>4
    <3> QED BY <3>5 DEF s, r
  <2> QED BY <2>1, <2>2
<1> QED
  BY <1>2, <1>11, <1>13, <1>14, <1>15, <1>16
  DEF Abstract!Init, ReadyList, WaitList, SleepList, WaitLists, SleepLists

LEMMA EveryStep ==
  ASSUME NEW on, GoodNow(on), [Next]_vars
  PROVE  [Abstract!Next]_Abstract!vars
<1>1. ASSUME NEW t \in Threads, ThreadCall(t) PROVE Abstract!Next \/ UNCHANGED Abstract!vars
  BY <1>1, CreateStep, ExitStep, DetachStep DEF ThreadCall, Abstract!Next
<1>2. ASSUME NEW t \in Threads, MutexCall(t) PROVE Abstract!Next \/ UNCHANGED Abstract!vars
  <2>1. CASE syscall_mutex_create(t) \/ syscall_mutex_destroy(t)
    BY <2>1, MutexCreateStep, MutexDestroyStep
  <2>2. ASSUME NEW m \in Mutexes,
               \/ syscall_mutex_lock(t, m)
               \/ syscall_mutex_try_lock(t, m)
               \/ syscall_mutex_unlock(t, m)
        PROVE  Abstract!Lock(m) \/ Abstract!Unlock(m) \/ UNCHANGED Abstract!vars
    BY <2>2, LockStep, TryLockStep, UnlockStep
  <2> QED BY <1>2, <2>1, <2>2 DEF MutexCall, Abstract!Next
<1>3. CASE syscall_thread_dispatch \/ timer_interrupt
  <2>1. k' = kthread_dispatch(k)
    BY <1>3 DEF syscall_thread_dispatch, timer_interrupt
  <2> QED BY <2>1, DispatchStep DEF Abstract!Next
<1>4. CASE UNCHANGED vars
  BY <1>4, NothingSeen DEF vars, SameQueues
<1> QED BY <1>1, <1>2, <1>3, <1>4 DEF Next

-----------------------------------------------------------------------------
(* The theorem *)

\* Whatever the users do and whenever the timer fires, the queues of scheduler.c
\* and mutex.c, read along their links, are first-in first-out: every trap on
\* threads and mutexes does to them what one step of Monitor does to its
\* sequences, or nothing.
THEOREM KernelIsMonitor == ASSUME DetachLive = FALSE PROVE Spec => ImplementsMonitor
<1>1. Init => Abstract!Init
  BY InitStep
<1>2. IInv /\ [Next]_vars => [Abstract!Next]_Abstract!vars
  BY EveryStep DEF IInv
<1>3. Spec => []IInv
  BY Invariance
<1> QED BY <1>1, <1>2, <1>3, PTL DEF Spec, ImplementsMonitor, Abstract!Spec

-----------------------------------------------------------------------------
(* The same for CondSystem *)

\* n2 are the links, and h2 the head, after the queue of Q was linked behind the
\* tail of the queue of P.
LinkedOnto(n1, n2, g, gl, P, h, tl, Q, h2) ==
  /\ IsQueue(n1, g, gl, P) /\ IsQueue(n1, h, tl, Q)
  /\ P \intersect Q = {} /\ Q # {}
  /\ g # NULL => n2[gl] = h
  /\ \A t \in P \union Q : t # gl => n2[t] = n1[t]
  /\ h2 = IF g = NULL THEN h ELSE g

IsConcat(r, a, b) == r = a \o b

LEMMA ListConcat ==
  ASSUME NEW n1 \in Links, NEW n2, NEW P \in SUBSET Threads, NEW Q \in SUBSET Threads,
         NEW g, NEW gl, NEW h, NEW tl, NEW h2, LinkedOnto(n1, n2, g, gl, P, h, tl, Q, h2)
  PROVE  IsConcat(ListFrom(n2, h2), ListFrom(n1, g), ListFrom(n1, h))
<1> DEFINE a == ListFrom(n1, g)
           b == ListFrom(n1, h)
           r == a \o b
<1>0. /\ IsQueue(n1, g, gl, P) /\ IsQueue(n1, h, tl, Q)
      /\ P \intersect Q = {} /\ Q # {}
      /\ g # NULL => n2[gl] = h
      /\ \A t \in P \union Q : t # gl => n2[t] = n1[t]
      /\ h2 = IF g = NULL THEN h ELSE g
  BY DEF LinkedOnto
<1>1. IsListOf(n1, g, a, P) /\ IsListOf(n1, h, b, Q)
  BY <1>0, QueueIsList
<1> HIDE DEF a, b
<1>2. /\ a \in Seq(P) /\ b \in Seq(Q) /\ Len(a) \in Nat /\ Len(b) \in Nat
      /\ NULL \notin Threads
      /\ g = (IF Len(a) = 0 THEN NULL ELSE a[1]) /\ h = (IF Len(b) = 0 THEN NULL ELSE b[1])
  BY <1>1, KernelAssumption DEF IsListOf
<1>3. Len(b) # 0 /\ h = b[1] /\ gl \notin Q
  BY <1>0, <1>2 DEF IsQueue
<1>4. Len(a) # 0 => a[Len(a)] = gl
  <2> SUFFICES ASSUME Len(a) # 0 PROVE a[Len(a)] = gl
    OBVIOUS
  <2>1. gl \in P /\ n1[gl] = NULL
    BY <1>0, <1>2 DEF IsQueue
  <2>2. PICK i \in 1 .. Len(a) : a[i] = gl
    BY <1>1, <2>1 DEF IsListOf
  <2>3. i # Len(a) => n1[a[i]] = a[i + 1] /\ a[i + 1] \in P
    BY <1>1, <1>2 DEF IsListOf
  <2> QED BY <1>2, <2>1, <2>2, <2>3
<1>5. /\ r \in Seq(P \union Q) /\ Len(r) = Len(a) + Len(b)
      /\ \A i \in 1 .. Len(a) : r[i] = a[i] /\ a[i] \in P /\ i \in 1 .. Len(r)
      /\ \A i \in Len(a) + 1 .. Len(r) : r[i] = b[i - Len(a)] /\ i - Len(a) \in 1 .. Len(b)
                                         /\ b[i - Len(a)] \in Q
      /\ \A i \in 1 .. Len(b) : r[i + Len(a)] = b[i] /\ i + Len(a) \in 1 .. Len(r)
  BY <1>2
<1> HIDE DEF r
<1>6. \A t \in P \union Q : \E i \in 1 .. Len(r) : r[i] = t
  <2>1. ASSUME NEW t \in P PROVE \E i \in 1 .. Len(r) : r[i] = t
    <3>1. PICK i \in 1 .. Len(a) : a[i] = t
      BY <1>1 DEF IsListOf
    <3> QED BY <1>5, <3>1
  <2>2. ASSUME NEW t \in Q PROVE \E i \in 1 .. Len(r) : r[i] = t
    <3>1. PICK i \in 1 .. Len(b) : b[i] = t
      BY <1>1 DEF IsListOf
    <3> QED BY <1>5, <3>1
  <2> QED BY <2>1, <2>2
<1>7. ASSUME NEW i \in 1 .. Len(r), NEW j \in 1 .. Len(r), r[i] = r[j] PROVE i = j
  <2>1. /\ i \in 1 .. Len(a) \/ i \in Len(a) + 1 .. Len(r)
        /\ j \in 1 .. Len(a) \/ j \in Len(a) + 1 .. Len(r)
    BY <1>2, <1>5
  <2>2. CASE i \in 1 .. Len(a) /\ j \in 1 .. Len(a)
    <3>1. a[i] = a[j]
      BY <1>5, <1>7, <2>2
    <3> QED BY <1>1, <2>2, <3>1 DEF IsListOf
  <2>3. CASE i \in Len(a) + 1 .. Len(r) /\ j \in Len(a) + 1 .. Len(r)
    <3>1. b[i - Len(a)] = b[j - Len(a)]
          /\ i - Len(a) \in 1 .. Len(b) /\ j - Len(a) \in 1 .. Len(b)
      BY <1>5, <1>7, <2>3
    <3>2. i - Len(a) = j - Len(a)
      BY <1>1, <3>1 DEF IsListOf
    <3> QED BY <1>2, <3>2
  <2>4. CASE ~(i \in 1 .. Len(a) /\ j \in 1 .. Len(a))
             /\ ~(i \in Len(a) + 1 .. Len(r) /\ j \in Len(a) + 1 .. Len(r))
    <3>1. \/ i \in 1 .. Len(a) /\ j \in Len(a) + 1 .. Len(r)
          \/ j \in 1 .. Len(a) /\ i \in Len(a) + 1 .. Len(r)
      BY <2>1, <2>4
    <3>2. (r[i] \in P /\ r[j] \in Q) \/ (r[j] \in P /\ r[i] \in Q)
      BY <1>5, <3>1
    <3> QED BY <1>0, <1>7, <3>2
  <2> QED BY <2>2, <2>3, <2>4
<1>8. h2 = IF Len(r) = 0 THEN NULL ELSE r[1]
  <2>1. CASE Len(a) = 0
    BY <1>0, <1>2, <1>3, <1>5, <2>1
  <2>2. CASE Len(a) # 0
    <3>1. 1 \in 1 .. Len(a)
      BY <1>2, <2>2
    <3> QED BY <1>0, <1>2, <1>5, <2>2, <3>1
  <2> QED BY <2>1, <2>2
<1>9. ASSUME NEW i \in 1 .. Len(r)
      PROVE  n2[r[i]] = IF i = Len(r) THEN NULL ELSE r[i + 1]
  <2>1. CASE i \in 1 .. Len(a) /\ i # Len(a)
    <3>a. \A v \in 1 .. Len(a) : n1[a[v]] = IF v = Len(a) THEN NULL ELSE a[v + 1]
      BY <1>1 DEF IsListOf
    <3>1. n1[a[i]] = a[i + 1] /\ a[i + 1] \in P /\ i + 1 \in 1 .. Len(a)
      BY <1>2, <2>1, <3>a
    <3>2. a[i] # gl
      <4>1. gl \in P /\ n1[gl] = NULL
        BY <1>0, <1>2, <1>5, <2>1 DEF IsQueue
      <4> QED BY <1>2, <3>1, <4>1
    <3> QED BY <1>0, <1>2, <1>5, <2>1, <3>1, <3>2
  <2>2. CASE i = Len(a)
    <3>1. g # NULL /\ i \in 1 .. Len(a)
      BY <1>2, <1>5, <2>2
    <3>2. r[i] = gl
      BY <1>4, <1>5, <2>2, <3>1
    <3>3. r[i + 1] = b[1] /\ i # Len(r)
      BY <1>2, <1>3, <1>5, <2>2
    <3> QED BY <1>0, <1>3, <3>1, <3>2, <3>3
  <2>3. CASE i \in Len(a) + 1 .. Len(r)
    <3> DEFINE j == i - Len(a)
    <3>1. j \in 1 .. Len(b) /\ r[i] = b[j] /\ b[j] \in Q
      BY <1>5, <2>3
    <3>2. n1[b[j]] = IF j = Len(b) THEN NULL ELSE b[j + 1]
      BY <1>1, <3>1 DEF IsListOf
    <3>3. n2[b[j]] = n1[b[j]]
      BY <1>0, <1>3, <3>1
    <3>4. j = Len(b) <=> i = Len(r)
      BY <1>2, <1>5
    <3>5. i # Len(r) => r[i + 1] = b[j + 1]
      <4>1. i # Len(r) => j + 1 \in 1 .. Len(b) /\ (j + 1) + Len(a) = i + 1
        BY <1>2, <1>5, <2>3
      <4> HIDE DEF j
      <4> QED BY <1>5, <4>1
    <3> HIDE DEF j
    <3> QED BY <3>1, <3>2, <3>3, <3>4, <3>5
  <2> QED BY <1>2, <1>5, <2>1, <2>2, <2>3
<1>10. IsListOf(n2, h2, r, P \union Q)
  BY <1>5, <1>6, <1>7, <1>8, <1>9 DEF IsListOf
<1>11. ListFrom(n2, h2) = r
  <2>1. P \union Q \in SUBSET Threads
    OBVIOUS
  <2> QED BY <1>10, <2>1, ListFromIsList
<1> QED BY <1>11 DEF r, a, b, IsConcat

\* Splicing appends the sleepers of c to those that wait for m.
SplicedLists(r, mem, c, m) ==
  /\ ReadyList(r) = ReadyList(mem)
  /\ WaitList(r, m) = WaitList(mem, m) \o SleepList(mem, c)
  /\ \A n \in Mutexes \ {m} : WaitList(r, n) = WaitList(mem, n)
  /\ SleepList(r, c) = <<>>
  /\ \A d \in Conds \ {c} : SleepList(r, d) = SleepList(mem, d)

LEMMA SpliceConcats ==
  ASSUME NEW mem \in Memory, NEW on, QueuesInv(mem, on),
         NEW c \in Conds, NEW m \in Mutexes, SleepSet(on, c) # {},
         NEW r, r = Spliced(mem, c, m)
  PROVE  SplicedLists(r, mem, c, m)
<1> DEFINE P == WaitSet(mem, on, m)
           Q == SleepSet(on, c)
           n2 == IF mem.mhead[m] = NULL THEN mem.next
                 ELSE [mem.next EXCEPT ![mem.mtail[m]] = mem.chead[c]]
           h2 == IF mem.mhead[m] = NULL THEN mem.chead[c] ELSE mem.mhead[m]
<1>1. NULL \notin All /\ Threads \subseteq All /\ NULL \notin Conds
  BY KernelAssumption DEF All
<1>2. /\ P \in SUBSET Threads /\ Q \in SUBSET Threads /\ P \intersect Q = {}
      /\ IsQueue(mem.next, mem.mhead[m], mem.mtail[m], P)
      /\ IsQueue(mem.next, mem.chead[c], mem.ctail[c], Q)
  BY <1>1 DEF WaitSet, SleepSet, QueuesInv
<1>3. /\ mem.next \in Links
      /\ mem.mhead[m] # NULL => n2[mem.mtail[m]] = mem.chead[c]
      /\ \A u \in All : u # mem.mtail[m] => n2[u] = mem.next[u]
      /\ \A u \in All : u \notin P => n2[u] = mem.next[u]
  <2>1. mem.mhead[m] # NULL => mem.mtail[m] \in P
    BY <1>2 DEF IsQueue
  <2> QED BY <1>1, <1>2, <2>1 DEF Memory, Links
<1>4. /\ r.next = n2 /\ r.head = mem.head
      /\ r.mhead = [mem.mhead EXCEPT ![m] = h2]
      /\ r.chead = [mem.chead EXCEPT ![c] = NULL]
  BY DEF Spliced, Memory
<1>5. /\ r.mhead[m] = h2 /\ \A n \in Mutexes \ {m} : r.mhead[n] = mem.mhead[n]
      /\ r.chead[c] = NULL /\ \A d \in Conds \ {c} : r.chead[d] = mem.chead[d]
  BY <1>4 DEF Memory
<1> HIDE DEF n2
<1>6. WaitList(r, m) = WaitList(mem, m) \o SleepList(mem, c)
  <2>1. \A t \in P \union Q : t # mem.mtail[m] => n2[t] = mem.next[t]
    BY <1>1, <1>2, <1>3
  <2> HIDE DEF P, Q
  <2>2. Q # {}
    BY DEF Q
  <2>3. ListFrom(n2, h2) = ListFrom(mem.next, mem.mhead[m]) \o ListFrom(mem.next, mem.chead[c])
    <3>1. LinkedOnto(mem.next, n2, mem.mhead[m], mem.mtail[m], P,
                     mem.chead[c], mem.ctail[c], Q, h2)
      BY <1>2, <1>3, <2>1, <2>2 DEF LinkedOnto
    <3> HIDE DEF h2
    <3>2. IsConcat(ListFrom(n2, h2), ListFrom(mem.next, mem.mhead[m]),
                   ListFrom(mem.next, mem.chead[c]))
      BY <1>2, <1>3, <3>1, ListConcat
    <3> QED BY <3>2 DEF IsConcat
  <2> QED BY <1>4, <1>5, <2>3 DEF WaitList, SleepList
<1>7. ReadyList(r) = ReadyList(mem)
  <2>1. /\ IsQueue(mem.next, mem.head, mem.tail, ReadySet(mem))
        /\ ReadySet(mem) \in SUBSET Threads
        /\ \A u \in ReadySet(mem) : n2[u] = mem.next[u]
    BY <1>1, <1>3 DEF QueuesInv, ReadySet, WaitSet
  <2> QED BY <1>3, <1>4, <2>1, ListFrame DEF ReadyList
<1>8. ASSUME NEW n \in Mutexes \ {m} PROVE WaitList(r, n) = WaitList(mem, n)
  <2>1. \A u \in WaitSet(mem, on, n) : r.next[u] = mem.next[u]
    BY <1>1, <1>3, <1>4 DEF WaitSet
  <2> QED BY <1>5, <2>1, WaitListStays
<1>9. SleepList(r, c) = <<>>
  <2>1. IsListOf(n2, NULL, <<>>, {})
    BY DEF IsListOf
  <2>2. ListFrom(n2, NULL) = <<>>
    BY <2>1, ListFromIsList
  <2> QED BY <1>4, <1>5, <2>2 DEF SleepList
<1>10. ASSUME NEW d \in Conds \ {c} PROVE SleepList(r, d) = SleepList(mem, d)
  <2>1. /\ IsQueue(mem.next, mem.chead[d], mem.ctail[d], SleepSet(on, d))
        /\ SleepSet(on, d) \in SUBSET Threads
        /\ \A u \in SleepSet(on, d) : n2[u] = mem.next[u]
    BY <1>1, <1>3 DEF QueuesInv, SleepSet, WaitSet
  <2> QED BY <1>3, <1>4, <1>5, <2>1, ListFrame DEF SleepList
<1> QED BY <1>6, <1>7, <1>8, <1>9, <1>10 DEF SplicedLists

\* r is mem after t has fallen asleep on c.
SleepsLast(r, mem, c, m, t) ==
  /\ ReadyList(r) = ReadyList(mem)
  /\ \A n \in Mutexes : WaitList(r, n) = WaitList(mem, n)
  /\ SleepLists(r) = [SleepLists(mem) EXCEPT ![c] = Append(SleepLists(mem)[c], <<t, m>>)]

LEMMA FallAsleepAppends ==
  ASSUME NEW mem \in Memory, NEW on, QueuesInv(mem, on), NEW t \in Threads,
         NEW m \in Mutexes, NEW c \in Conds, mem.state[t] = "RUNNING",
         NEW r, r = FallAsleep(mem, c, m, t)
  PROVE  SleepsLast(r, mem, c, m, t)
<1> DEFINE Q == SleepSet(on, c)
           n2 == IF mem.chead[c] = NULL THEN mem.next
                 ELSE [mem.next EXCEPT ![mem.ctail[c]] = t]
           h2 == IF mem.chead[c] = NULL THEN t ELSE mem.chead[c]
<1>1. NULL \notin All /\ Threads \subseteq All /\ NULL \notin Conds
  BY KernelAssumption DEF All
<1>2. /\ Q \in SUBSET Threads /\ t \notin Q /\ on[t] = NULL /\ mem.next[t] = NULL
      /\ IsQueue(mem.next, mem.chead[c], mem.ctail[c], Q)
      /\ \A u \in Q : mem.state[u] = "BLOCKED" /\ on[u] = c
  BY <1>1 DEF SleepSet, QueuesInv
<1>3. /\ mem.next \in Links /\ n2[t] = NULL
      /\ mem.chead[c] # NULL => n2[mem.ctail[c]] = t
      /\ \A u \in All : u # mem.ctail[c] => n2[u] = mem.next[u]
      /\ \A u \in All : u \notin Q => n2[u] = mem.next[u]
  <2>1. mem.chead[c] # NULL => mem.ctail[c] \in Q
    BY <1>2 DEF IsQueue
  <2> QED BY <1>1, <1>2, <2>1 DEF Memory, Links
<1>4. /\ r.next = n2 /\ r.head = mem.head /\ r.mhead = mem.mhead
      /\ r.waiting_on = [mem.waiting_on EXCEPT ![t] = m]
      /\ r.chead = [mem.chead EXCEPT ![c] = h2]
  BY DEF FallAsleep, Memory
<1>5. r.waiting_on[t] = m /\ \A u \in Threads : u # t => r.waiting_on[u] = mem.waiting_on[u]
  BY <1>1, <1>4 DEF Memory
<1>6. r.chead[c] = h2 /\ \A d \in Conds \ {c} : r.chead[d] = mem.chead[d]
  BY <1>4 DEF Memory
<1> HIDE DEF n2
<1>7. SleepList(r, c) = Append(SleepList(mem, c), t)
  <2>1. LinkedBehind(mem.next, n2, mem.chead[c], h2, mem.ctail[c], Q, t)
    BY <1>1, <1>2, <1>3 DEF LinkedBehind
  <2> HIDE DEF h2
  <2>2. IsAppended(ListFrom(n2, h2), ListFrom(mem.next, mem.chead[c]), t)
    BY <1>2, <1>3, <2>1, ListAppend
  <2> QED BY <1>4, <1>6, <2>2 DEF SleepList, IsAppended
<1>8. ReadyList(r) = ReadyList(mem)
  <2>1. /\ IsQueue(mem.next, mem.head, mem.tail, ReadySet(mem))
        /\ ReadySet(mem) \in SUBSET Threads
        /\ \A u \in ReadySet(mem) : n2[u] = mem.next[u]
    BY <1>1, <1>2, <1>3 DEF QueuesInv, ReadySet
  <2> QED BY <1>3, <1>4, <2>1, ListFrame DEF ReadyList
<1>9. ASSUME NEW n \in Mutexes PROVE WaitList(r, n) = WaitList(mem, n)
  <2>1. \A u \in WaitSet(mem, on, n) : r.next[u] = mem.next[u]
    BY <1>1, <1>2, <1>3, <1>4 DEF WaitSet
  <2>2. r.mhead[n] = mem.mhead[n]
    BY <1>4
  <2> HIDE DEF Q, h2
  <2> QED BY <2>1, <2>2, WaitListStays
<1>10. ASSUME NEW d \in Conds \ {c}
       PROVE  /\ SleepList(r, d) = SleepList(mem, d)
              /\ \A i \in DOMAIN SleepList(mem, d) :
                   r.waiting_on[SleepList(mem, d)[i]] = mem.waiting_on[SleepList(mem, d)[i]]
  <2>1. /\ IsQueue(mem.next, mem.chead[d], mem.ctail[d], SleepSet(on, d))
        /\ SleepSet(on, d) \in SUBSET Threads /\ t \notin SleepSet(on, d)
        /\ \A u \in SleepSet(on, d) : n2[u] = mem.next[u]
    BY <1>1, <1>2, <1>3 DEF QueuesInv, SleepSet
  <2>2. ListFrom(n2, mem.chead[d]) = ListFrom(mem.next, mem.chead[d])
    BY <1>3, <2>1, ListFrame
  <2>3. ListFrom(mem.next, mem.chead[d]) \in Seq(SleepSet(on, d))
    BY <1>3, <2>1, ListHead
  <2>4. \A i \in DOMAIN SleepList(mem, d) : SleepList(mem, d)[i] \in Threads \ {t}
    BY <2>1, <2>3 DEF SleepList
  <2> QED BY <1>4, <1>5, <1>6, <2>2, <2>4 DEF SleepList
<1>11. SleepList(mem, c) \in Seq(Q)
  <2> HIDE DEF Q
  <2> QED BY <1>2, <1>3, ListHead DEF SleepList
<1> DEFINE q == SleepList(mem, c)
           pairs == [i \in DOMAIN q |-> <<q[i], mem.waiting_on[q[i]]>>]
           more == [i \in DOMAIN Append(q, t) |->
                      <<Append(q, t)[i], r.waiting_on[Append(q, t)[i]]>>]
<1>12. more = Append(pairs, <<t, m>>)
  <2>1. q \in Seq(Threads) /\ Len(q) \in Nat /\ \A i \in 1 .. Len(q) : q[i] \in Q
    BY <1>2, <1>11
  <2> HIDE DEF q
  <2>2. pairs \in Seq(Threads \X (Mutexes \union {NULL})) /\ Len(pairs) = Len(q)
    BY <2>1, <1>1 DEF Memory
  <2>3. Append(pairs, <<t, m>>) = [i \in 1 .. Len(q) + 1 |->
                                     IF i = Len(q) + 1 THEN <<t, m>> ELSE pairs[i]]
    <3> HIDE DEF pairs
    <3>1. Append(pairs, <<t, m>>) \in Seq(Threads \X (Mutexes \union {NULL}))
      BY <2>2
    <3> QED BY <2>1, <2>2, <3>1
  <2>4. /\ DOMAIN Append(q, t) = 1 .. Len(q) + 1
        /\ \A i \in 1 .. Len(q) : Append(q, t)[i] = q[i]
        /\ Append(q, t)[Len(q) + 1] = t
    BY <2>1
  <2>5. ASSUME NEW i \in 1 .. Len(q) + 1
        PROVE  <<Append(q, t)[i], r.waiting_on[Append(q, t)[i]]>>
               = IF i = Len(q) + 1 THEN <<t, m>> ELSE pairs[i]
    <3>1. CASE i = Len(q) + 1
      <4>1. Append(q, t)[i] = t
        BY <2>4, <3>1
      <4> QED BY <1>5, <3>1, <4>1
    <3>2. CASE i # Len(q) + 1
      <4>1. i \in 1 .. Len(q)
        BY <2>1, <3>2
      <4>2. Append(q, t)[i] = q[i] /\ q[i] \in Q
        BY <2>1, <2>4, <4>1
      <4>3. r.waiting_on[q[i]] = mem.waiting_on[q[i]]
        BY <1>2, <1>5, <4>2
      <4>4. pairs[i] = <<q[i], mem.waiting_on[q[i]]>>
        BY <2>1, <4>1
      <4> HIDE DEF pairs
      <4> QED BY <3>2, <4>2, <4>3, <4>4
    <3> QED BY <3>1, <3>2
  <2> HIDE DEF pairs
  <2> QED BY <2>3, <2>4, <2>5
<1>13. SleepLists(r) = [SleepLists(mem) EXCEPT ![c] = Append(SleepLists(mem)[c], <<t, m>>)]
  <2>1. SleepLists(mem)[c] = pairs
    BY DEF SleepLists
  <2>2. ASSUME NEW d \in Conds
        PROVE  [i \in DOMAIN SleepList(r, d) |->
                  <<SleepList(r, d)[i], r.waiting_on[SleepList(r, d)[i]]>>]
               = IF d = c THEN Append(pairs, <<t, m>>) ELSE SleepLists(mem)[d]
    <3>1. CASE d = c
      <4>1. SleepList(r, d) = Append(q, t)
        BY <1>7, <3>1
      <4> HIDE DEF q, pairs
      <4> QED BY <1>12, <3>1, <4>1
    <3>2. CASE d # c
      BY <1>10, <3>2 DEF SleepLists
    <3> QED BY <3>1, <3>2
  <2> HIDE DEF pairs, more, q
  <2>3. SleepLists(r) = [d \in Conds |-> IF d = c THEN Append(pairs, <<t, m>>)
                                         ELSE SleepLists(mem)[d]]
    BY <2>2 DEF SleepLists
  <2>4. SleepLists(mem) = [d \in Conds |-> SleepLists(mem)[d]]
    BY DEF SleepLists
  <2> QED BY <2>1, <2>3, <2>4
<1> QED BY <1>8, <1>9, <1>13 DEF SleepsLast

LEMMA WaitStep ==
  ASSUME NEW on, GoodNow(on), NEW t \in Threads, NEW c \in Conds, NEW m \in Mutexes,
         syscall_cond_wait(t, c, m)
  PROVE  Abstract!Wait(c, m)
<1> DEFINE on2 == [on EXCEPT ![t] = c]
           k1 == FallAsleep(k, c, m, t)
           r == kcond_wait(k, c, m, t)
<1>1. /\ k.current = t /\ k.state[t] = "RUNNING" /\ t # Main /\ t # NULL
      /\ k \in Memory /\ QueuesInv(k, on) /\ on \in Placements /\ depth[t][m] = 1
      /\ MutexesOf(c) \subseteq {m} /\ k' = DispatchIfBlocked(r)
  BY CallerRuns DEF syscall_cond_wait, GoodNow, Good, QueuesInv
<1>2. \A u \in SleepSet(on, c) : k.waiting_on[u] = m
  BY <1>1, SleepersAreSet DEF MutexesOf
<1>3. k.owner[m] = t /\ k.lock_count[m] = 1
  <2>1. t \notin BlockedOn(k, m)
    BY <1>1 DEF BlockedOn
  <2>2. k.owner[m] = t
    BY <1>1, <2>1 DEF GoodNow, Good, OwnersInv
  <2> QED BY <1>1, <2>2 DEF GoodNow, Good, OwnersInv
<1>4. PICK W : GaveUp(r, k, on, c, m, t, W)
  BY <1>1, <1>2, <1>3, WaitEffect
<1>5. Joined(k1, k, on, c, m, t) /\ SleepsLast(k1, k, c, m, t)
  BY <1>1, <1>2, JoinEffect, FallAsleepAppends
<1>6. r = kmutex_unlock(k1, m, t)
  BY WaitIsFallAsleepAndUnlock
<1> HIDE DEF r, k1, on2
<1>7. /\ r \in Memory /\ QueuesInv(r, on2) /\ r.current = t /\ r.state[t] = "BLOCKED"
  BY <1>1, <1>4 DEF GaveUp, on2
<1>8. k' = kthread_dispatch(r)
  BY <1>1, <1>7 DEF DispatchIfBlocked
<1>9. RunsFirst(k', r, Candidates(r))
  BY <1>1, <1>7, <1>8, DispatchRunsFirst
<1>10. /\ Candidates(r) = ReadyList(r)
       /\ WaitLists(k') = WaitLists(r) /\ SleepLists(k') = SleepLists(r)
       /\ k'.owner = r.owner /\ k'.lock_count = r.lock_count
       /\ k'.current = (IF ReadyList(r) = <<>> THEN Main ELSE Head(ReadyList(r)))
       /\ ReadyList(k') = (IF ReadyList(r) = <<>> THEN <<>> ELSE Tail(ReadyList(r)))
  BY <1>7, <1>9, SleepersSame, WaitListsSame DEF Candidates, Requeues, RunsFirst
<1>11. /\ k1 \in Memory /\ QueuesInv(k1, on2) /\ k1.owner = k.owner
       /\ k1.lock_count = k.lock_count /\ k1.owner[m] = t /\ k1.lock_count[m] = 1
       /\ k1.mhead = k.mhead
       /\ ReadyList(k1) = ReadyList(k) /\ WaitLists(k1) = WaitLists(k)
       /\ SleepLists(k1) = [SleepLists(k) EXCEPT ![c] = Append(SleepLists(k)[c], <<t, m>>)]
  BY <1>3, <1>5, WaitListsSame DEF Joined, SleepsLast, on2
<1>12. \A i \in DOMAIN SleepLists(k)[c] : SleepLists(k)[c][i][2] = m
  <2>1. /\ IsQueue(k.next, k.chead[c], k.ctail[c], SleepSet(on, c))
        /\ SleepSet(on, c) \in SUBSET Threads /\ k.next \in Links
    BY <1>1 DEF QueuesInv, SleepSet, Memory, Links
  <2>2. SleepList(k, c) \in Seq(SleepSet(on, c))
    BY <2>1, ListHead DEF SleepList
  <2>3. SleepLists(k)[c] = [i \in DOMAIN SleepList(k, c) |->
                              <<SleepList(k, c)[i], k.waiting_on[SleepList(k, c)[i]]>>]
    BY DEF SleepLists
  <2>4. \A i \in DOMAIN SleepList(k, c) : SleepList(k, c)[i] \in SleepSet(on, c)
    BY <2>2
  <2> QED BY <1>2, <2>3, <2>4
<1>13. (k1.lock_count[m] - 1) % CountMod = 0
  BY <1>11, KernelAssumption
<1> DEFINE Gone(x) ==
      /\ x.owner = [k.owner EXCEPT ![m] = IF WaitLists(k)[m] = <<>> THEN NULL
                                          ELSE Head(WaitLists(k)[m])]
      /\ x.lock_count = [k.lock_count EXCEPT ![m] = IF WaitLists(k)[m] = <<>> THEN 0 ELSE 1]
      /\ WaitLists(x) = IF WaitLists(k)[m] = <<>> THEN WaitLists(k)
                        ELSE [WaitLists(k) EXCEPT ![m] = Tail(WaitLists(k)[m])]
      /\ ReadyList(x) = IF WaitLists(k)[m] = <<>> THEN ReadyList(k)
                        ELSE Append(ReadyList(k), Head(WaitLists(k)[m]))
      /\ SleepLists(x) = SleepLists(k1)
<1>14. WaitLists(k)[m] = WaitList(k1, m)
  <2>1. WaitLists(k1)[m] = WaitList(k1, m)
    BY DEF WaitLists
  <2> QED BY <1>11, <2>1
<1>15. Gone(r)
  <2>1. IsQueue(k1.next, k1.mhead[m], k1.mtail[m], WaitSet(k1, on2, m))
        /\ WaitSet(k1, on2, m) \in SUBSET Threads /\ k1.next \in Links
    BY <1>11 DEF QueuesInv, WaitSet, Memory, Links
  <2>2. k1.mhead[m] = NULL <=> WaitList(k1, m) = <<>>
    <3>1. k1.mhead[m] = NULL <=> ListFrom(k1.next, k1.mhead[m]) = <<>>
      BY <2>1, EmptyList
    <3> QED BY <3>1 DEF WaitList
  <2>3. CASE k1.mhead[m] = NULL
    <3>1. r = [k1 EXCEPT !.lock_count[m] = 0, !.owner[m] = NULL]
      <4> DEFINE count == (k1.lock_count[m] - 1) % CountMod
      <4>1. k1.owner[m] = t /\ ~(m \in Recursive /\ count > 0) /\ count = 0
        BY <1>11, <1>13
      <4>2. r = [k1 EXCEPT !.lock_count[m] = count, !.owner[m] = NULL]
        BY <1>6, <2>3, <4>1 DEF kmutex_unlock
      <4> HIDE DEF count
      <4> QED BY <4>1, <4>2
    <3>2. /\ r.owner = [k.owner EXCEPT ![m] = NULL]
          /\ r.lock_count = [k.lock_count EXCEPT ![m] = 0]
          /\ r.next = k1.next /\ r.head = k1.head /\ r.mhead = k1.mhead /\ r.chead = k1.chead
          /\ r.waiting_on = k1.waiting_on
      BY <1>11, <3>1 DEF Memory
    <3>3. /\ ReadyList(r) = ReadyList(k1) /\ WaitLists(r) = WaitLists(k1)
          /\ SleepLists(r) = SleepLists(k1)
      BY <3>2 DEF ReadyList, WaitList, SleepList, WaitLists, SleepLists
    <3> QED BY <1>11, <1>14, <2>2, <2>3, <3>2, <3>3
  <2>4. CASE k1.mhead[m] # NULL
    <3>1. r = HandOff(k1, m)
      BY <1>6, <1>11, <1>13, <2>4 DEF kmutex_unlock
    <3>2. /\ WaitList(k1, m) # <<>> /\ Head(WaitList(k1, m)) = k1.mhead[m]
          /\ ReadyList(r) = Append(ReadyList(k1), k1.mhead[m])
          /\ WaitList(r, m) = Tail(WaitList(k1, m))
          /\ \A n \in Mutexes \ {m} : WaitList(r, n) = WaitList(k1, n)
          /\ SameSleepers(r, k1)
      BY <1>11, <2>4, <3>1, HandOffMoves
    <3>3. /\ r.owner = [k.owner EXCEPT ![m] = k1.mhead[m]]
          /\ r.lock_count = [k.lock_count EXCEPT ![m] = 1]
      BY <1>11, <3>1 DEF HandOff, kscheduler_enqueue, Memory
    <3>4. WaitLists(r) = [WaitLists(k1) EXCEPT ![m] = Tail(WaitList(k1, m))]
      BY <3>2 DEF WaitLists
    <3>5. SleepLists(r) = SleepLists(k1)
      BY <3>2, SleepersSame
    <3> QED BY <1>11, <1>14, <3>2, <3>3, <3>4, <3>5
  <2> QED BY <2>3, <2>4
<1>16. CASE WaitLists(k)[m] = <<>>
  <2>1. /\ k'.owner = [k.owner EXCEPT ![m] = NULL]
        /\ k'.lock_count = [k.lock_count EXCEPT ![m] = 0]
        /\ WaitLists(k') = WaitLists(k) /\ ReadyList(r) = ReadyList(k)
        /\ SleepLists(k') = [SleepLists(k) EXCEPT ![c] = Append(SleepLists(k)[c], <<t, m>>)]
    BY <1>10, <1>11, <1>15, <1>16
  <2> HIDE DEF Gone
  <2> QED
    BY <1>1, <1>3, <1>10, <1>12, <1>16, <2>1
    DEF Abstract!Wait, Abstract!GiveUp, Abstract!RunFirst, Abstract!ReadyAfterGivingUp,
        ReadyList, WaitList, SleepList, WaitLists, SleepLists
<1>17. CASE WaitLists(k)[m] # <<>>
  <2>1. /\ k'.owner = [k.owner EXCEPT ![m] = Head(WaitLists(k)[m])]
        /\ k'.lock_count = [k.lock_count EXCEPT ![m] = 1]
        /\ WaitLists(k') = [WaitLists(k) EXCEPT ![m] = Tail(WaitLists(k)[m])]
        /\ ReadyList(r) = Append(ReadyList(k), Head(WaitLists(k)[m]))
        /\ SleepLists(k') = [SleepLists(k) EXCEPT ![c] = Append(SleepLists(k)[c], <<t, m>>)]
    BY <1>10, <1>11, <1>15, <1>17
  <2> HIDE DEF Gone
  <2> QED
    BY <1>1, <1>3, <1>10, <1>12, <1>17, <2>1
    DEF Abstract!Wait, Abstract!GiveUp, Abstract!RunFirst, Abstract!ReadyAfterGivingUp,
        ReadyList, WaitList, SleepList, WaitLists, SleepLists
<1> QED BY <1>16, <1>17

\* All the threads asleep on c go for the mutex, which the caller holds.
LEMMA SpliceStep ==
  ASSUME NEW on, GoodNow(on), NEW t \in Threads, NEW c \in Conds, NEW m \in Mutexes,
         k.current = t, k.owner[m] = t, SleepSet(on, c) # {},
         \A u \in SleepSet(on, c) : k.waiting_on[u] = m,
         k' = Spliced(k, c, m)
  PROVE  /\ SleepLists(k)[c] # <<>>
         /\ \A n : n = Len(SleepLists(k)[c]) => Abstract!Wake(c, m, n)
         /\ \A s \in Threads : SleepSet(on, c) = {s} => Len(SleepLists(k)[c]) = 1
<1> DEFINE q == SleepList(k, c)
           pairs == [i \in DOMAIN q |-> <<q[i], k.waiting_on[q[i]]>>]
           woken == [i \in 1 .. Len(pairs) |-> pairs[i][1]]
<1>1. k \in Memory /\ QueuesInv(k, on) /\ t # Main /\ t # NULL
  BY KernelAssumption DEF GoodNow, Good
<1>2. IsListOf(k.next, k.chead[c], q, SleepSet(on, c))
  <2>1. /\ IsQueue(k.next, k.chead[c], k.ctail[c], SleepSet(on, c))
        /\ SleepSet(on, c) \in SUBSET Threads /\ k.next \in Links
    BY <1>1 DEF QueuesInv, SleepSet, Memory, Links
  <2> QED BY <2>1, QueueIsList DEF SleepList
<1>3. SplicedLists(k', k, c, m)
  <2> DEFINE r == k'
  <2>1. r = Spliced(k, c, m)
    OBVIOUS
  <2> HIDE DEF r
  <2>2. SplicedLists(r, k, c, m)
    BY <1>1, <2>1, SpliceConcats
  <2> QED BY <2>2 DEF r
<1>4. /\ k'.current = k.current /\ k'.owner = k.owner /\ k'.lock_count = k.lock_count
      /\ k'.waiting_on = k.waiting_on
  BY <1>1 DEF Spliced, Memory
<1> HIDE DEF q
<1>5. /\ q \in Seq(SleepSet(on, c)) /\ Len(q) \in Nat /\ Len(q) # 0
      /\ \A i \in 1 .. Len(q) : q[i] \in SleepSet(on, c)
  BY <1>2 DEF IsListOf
<1>6. /\ SleepLists(k)[c] = pairs /\ DOMAIN pairs = 1 .. Len(q) /\ Len(pairs) = Len(q)
      /\ \A i \in 1 .. Len(q) : pairs[i][1] = q[i] /\ pairs[i][2] = m
  BY <1>5 DEF SleepLists, q
<1>7. woken = q
  <2>1. q = [i \in 1 .. Len(q) |-> q[i]]
    BY <1>5
  <2> QED BY <1>6, <2>1
<1>8. SubSeq(pairs, Len(pairs) + 1, Len(pairs)) = <<>>
  BY <1>5, <1>6
<1>9. WaitLists(k') = [WaitLists(k) EXCEPT ![m] = WaitLists(k)[m] \o woken]
  <2>1. /\ WaitList(k', m) = WaitList(k, m) \o q
        /\ \A n \in Mutexes \ {m} : WaitList(k', n) = WaitList(k, n)
    BY <1>3 DEF SplicedLists, q
  <2> HIDE DEF pairs, woken
  <2>2. ASSUME NEW n \in Mutexes
        PROVE  WaitList(k', n) = IF n = m THEN WaitList(k, m) \o woken ELSE WaitList(k, n)
    BY <1>7, <2>1
  <2> QED BY <2>2 DEF WaitLists
<1>10. SleepLists(k') = [SleepLists(k) EXCEPT ![c] = <<>>]
  <2>1. ASSUME NEW d \in Conds
        PROVE  [i \in DOMAIN SleepList(k', d) |->
                  <<SleepList(k', d)[i], k'.waiting_on[SleepList(k', d)[i]]>>]
               = IF d = c THEN <<>> ELSE SleepLists(k)[d]
    <3>1. CASE d = c
      BY <1>3, <3>1 DEF SplicedLists
    <3>2. CASE d # c
      BY <1>3, <1>4, <3>2 DEF SplicedLists, SleepLists
    <3> QED BY <3>1, <3>2
  <2> QED BY <2>1 DEF SleepLists
<1>11. ReadyList(k') = ReadyList(k)
  BY <1>3 DEF SplicedLists
<1>12. pairs # <<>>
  BY <1>5, <1>6
<1>13. ASSUME NEW s \in Threads, SleepSet(on, c) = {s} PROVE Len(pairs) = 1
  <2>1. \A i, j \in 1 .. Len(q) : i = j
    <3>1. \A i, j \in 1 .. Len(q) : q[i] = q[j] => i = j
      BY <1>2 DEF IsListOf
    <3>2. \A i \in 1 .. Len(q) : q[i] = s
      BY <1>5, <1>13
    <3> QED BY <3>1, <3>2
  <2>2. 1 \in 1 .. Len(q) /\ Len(q) \in 1 .. Len(q)
    BY <1>5
  <2> QED BY <1>6, <2>1, <2>2
<1>14. \A i \in 1 .. Len(pairs) : SleepLists(k)[c][i][2] = m
  BY <1>6
<1>15. woken = [i \in 1 .. Len(pairs) |-> SleepLists(k)[c][i][1]]
  BY <1>6
<1>16. [SleepLists(k) EXCEPT ![c] = <<>>]
         = [SleepLists(k) EXCEPT ![c] = SubSeq(@, Len(pairs) + 1, Len(@))]
  BY <1>6, <1>8 DEF SleepLists
<1> HIDE DEF pairs, woken
<1>17. ASSUME NEW n, n = Len(pairs) PROVE Abstract!Wake(c, m, n)
  BY <1>1, <1>4, <1>9, <1>10, <1>11, <1>14, <1>15, <1>16, <1>17
  DEF Abstract!Wake, ReadyList, WaitList, SleepList, WaitLists, SleepLists
<1>18. SleepLists(k)[c] = pairs
  BY <1>6
<1> QED BY <1>12, <1>13, <1>17, <1>18

LEMMA SignalAllStep ==
  ASSUME HoldToSignal = TRUE, NEW on, GoodNow(on), NEW t \in Threads, NEW c \in Conds,
         syscall_cond_signal_all(t, c)
  PROVE  Abstract!Broadcast(c) \/ UNCHANGED Abstract!vars
<1>1. /\ k \in Memory /\ QueuesInv(k, on) /\ k.current = t
      /\ k' = kcond_signal_all(k, c) /\ Caller(t) /\ MaySignal(t, c) /\ t # NULL
  BY KernelAssumption DEF syscall_cond_signal_all, GoodNow, Good, Caller
<1>2. CASE SleepSet(on, c) = {}
  <2>1. k' = k
    BY <1>1, <1>2, SignalNobody
  <2> QED BY <2>1, NothingSeen DEF SameQueues
<1>3. CASE SleepSet(on, c) # {}
  <2>1. PICK m \in Mutexes :
          k.owner[m] = t /\ \A u \in SleepSet(on, c) : k.waiting_on[u] = m /\ u # t
    BY <1>1, <1>3, SignallerOwns
  <2>2. kcond_signal_all(k, c) = Spliced(k, c, m)
    BY <1>1, <1>3, <2>1, SignalAllSplices
  <2>3. /\ SleepLists(k)[c] # <<>>
        /\ \A n : n = Len(SleepLists(k)[c]) => Abstract!Wake(c, m, n)
    BY <1>1, <1>3, <2>1, <2>2, SpliceStep
  <2>4. PICK n : n = Len(SleepLists(k)[c]) /\ Abstract!Wake(c, m, n)
    BY <2>3
  <2> QED BY <2>3, <2>4 DEF Abstract!Broadcast, Abstract!Wake, SleepLists, SleepList
<1> QED BY <1>2, <1>3

LEMMA SignalStep ==
  ASSUME HoldToSignal = TRUE, OneSleeper = TRUE, NEW on, GoodNow(on),
         NEW t \in Threads, NEW c \in Conds, syscall_cond_signal(t, c)
  PROVE  Abstract!Signal(c) \/ UNCHANGED Abstract!vars
<1>1. /\ k \in Memory /\ QueuesInv(k, on) /\ k.current = t
      /\ k' = kcond_signal(k, c, FALSE) /\ Caller(t) /\ MaySignal(t, c) /\ t # NULL
      /\ Cardinality(Sleepers(c)) <= 1
  BY KernelAssumption DEF syscall_cond_signal, GoodNow, Good, Caller
<1>2. CASE SleepSet(on, c) = {}
  <2>1. k' = k
    BY <1>1, <1>2, SignalNobody
  <2> QED BY <2>1, NothingSeen DEF SameQueues
<1>3. CASE SleepSet(on, c) # {}
  <2>1. PICK m \in Mutexes :
          k.owner[m] = t /\ \A u \in SleepSet(on, c) : k.waiting_on[u] = m /\ u # t
    BY <1>1, <1>3, SignallerOwns
  <2>2. PICK s \in Threads : SleepSet(on, c) = {s}
    BY <1>1, <1>3, OnlySleeper
  <2>3. kcond_signal(k, c, FALSE) = Spliced(k, c, m)
    <3>1. s \in SleepSet(on, c)
      BY <2>2
    <3>2. k.waiting_on[s] = m /\ k.owner[m] # NULL /\ k.owner[m] # s
      BY <1>1, <2>1, <3>1
    <3> QED BY <1>1, <2>2, <3>2, SignalSplices
  <2>4. SleepLists(k)[c] # <<>> /\ Abstract!Wake(c, m, 1)
    <3>1. /\ SleepLists(k)[c] # <<>>
          /\ \A n : n = Len(SleepLists(k)[c]) => Abstract!Wake(c, m, n)
          /\ Len(SleepLists(k)[c]) = 1
      BY <1>1, <1>3, <2>1, <2>2, <2>3, SpliceStep
    <3> QED BY <3>1
  <2> QED BY <2>4 DEF Abstract!Signal, SleepLists, SleepList
<1> QED BY <1>2, <1>3

LEMMA CondCreateStep ==
  ASSUME NEW on, GoodNow(on), NEW t \in Threads, syscall_cond_create(t)
  PROVE  UNCHANGED Abstract!vars
<1> PICK c \in Conds \ k.heap :
           k' = [kcond_init(k, c) EXCEPT !.heap = k.heap \union {c}]
  BY DEF syscall_cond_create
<1>1. k \in Memory /\ QueuesInv(k, on) /\ c # NULL
  BY KernelAssumption DEF GoodNow, Good
<1>2. SleepSet(on, c) = {}
  BY <1>1 DEF GoodNow, Good, SleepSet
<1>3. k.chead[c] = NULL /\ k.ctail[c] = NULL
  BY <1>1, <1>2 DEF QueuesInv, IsQueue
<1>4. /\ SameQueues(k', k) /\ k'.current = k.current
      /\ k'.owner = k.owner /\ k'.lock_count = k.lock_count
  BY <1>1, <1>3 DEF kcond_init, Memory, SameQueues
<1> QED BY <1>4, NothingSeen

LEMMA CondDestroyStep ==
  ASSUME NEW on, GoodNow(on), NEW t \in Threads, syscall_cond_destroy(t)
  PROVE  UNCHANGED Abstract!vars
<1> PICK c \in Conds : k' = [kcond_destroy(k, c) EXCEPT !.heap = @ \ {c}]
  BY DEF syscall_cond_destroy
<1>1. k \in Memory
  BY DEF GoodNow, Good
<1> QED BY <1>1, NothingSeen DEF kcond_destroy, Memory, SameQueues

LEMMA EveryCondStep ==
  ASSUME HoldToSignal = TRUE, OneSleeper = TRUE, NEW on, GoodNow(on), [CondNext]_vars
  PROVE  [Abstract!Next]_Abstract!vars
<1>1. CASE [Next]_vars
  BY <1>1, EveryStep
<1>2. ASSUME NEW t \in Threads, CondCall(t) PROVE Abstract!Next \/ UNCHANGED Abstract!vars
  <2>1. CASE syscall_cond_create(t) \/ syscall_cond_destroy(t)
    BY <2>1, CondCreateStep, CondDestroyStep
  <2>2. ASSUME NEW c \in Conds,
               \/ syscall_cond_signal(t, c)
               \/ syscall_cond_signal_all(t, c)
               \/ \E m \in Mutexes : syscall_cond_wait(t, c, m)
        PROVE  \/ Abstract!Signal(c) \/ Abstract!Broadcast(c)
               \/ \E m \in Mutexes : Abstract!Wait(c, m)
               \/ UNCHANGED Abstract!vars
    BY <2>2, SignalStep, SignalAllStep, WaitStep
  <2> QED BY <1>2, <2>1, <2>2 DEF CondCall, Abstract!Next
<1> QED BY <1>1, <1>2 DEF CondNext

\* Condition variables too: a wait, a signal or a broadcast (condition.c:14-84) does
\* to the queues, read along their links, what one step of Monitor does to its
\* sequences, or nothing, as long as users signal with the mutex held and signal
\* at most one sleeper.
THEOREM ConditionsAreMonitor ==
  ASSUME DetachLive = FALSE, HoldToSignal = TRUE, OneSleeper = TRUE
  PROVE  CondSpec => ImplementsMonitor
<1>1. Init => Abstract!Init
  BY InitStep
<1>2. CondInv /\ [CondNext]_vars => [Abstract!Next]_Abstract!vars
  BY EveryCondStep DEF CondInv
<1>3. CondSpec => []CondInv
  BY CondInvariance
<1> QED BY <1>1, <1>2, <1>3, PTL DEF CondSpec, ImplementsMonitor, Abstract!Spec
=============================================================================
