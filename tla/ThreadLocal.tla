---------------------------- MODULE ThreadLocal ----------------------------
(***************************************************************************)
(* Thread-local storage (kernel/sync/thread_local.c) and the end of a      *)
(* thread (kernel/sync/thread.c).  A datum is on two doubly linked lists:  *)
(* its thread's, through next_data and prev_data, and its storage's,       *)
(* through next_thread and prev_thread.  A system call runs with           *)
(* interrupts masked: each is one step.  Memory keeps its contents when it *)
(* is freed.                                                               *)
(***************************************************************************)
EXTENDS FiniteSets, SequencesExt

CONSTANTS
  Threads, Storages, Data,   \* the memory there is for each kind of object
  Values,                    \* what users store
  Unset, NULL,
  Disciplined                \* do users keep to MayEnd and MayDestroy?

ASSUME ThreadLocalAssumption ==
  /\ Disciplined \in BOOLEAN
  /\ IsFiniteSet(Data)
  /\ NULL \notin Threads \union Storages \union Data
  /\ Unset \notin Values \union BOOLEAN

VARIABLES
  thread,    \* thread[t].local_data_head, and is t allocated?
  storage,   \* the struct kthread_ls
  datum,     \* the struct kthread_ld
  handed     \* what the last step gave to destructors (not in the code)

tls_vars == <<thread, storage, datum, handed>>

Memory == [thread |-> thread, storage |-> storage, datum |-> datum]
Becomes(m) == thread' = m.thread /\ storage' = m.storage /\ datum' = m.datum

Live(objects) == {x \in DOMAIN objects : objects[x].live}
Free(objects) == DOMAIN objects \ Live(objects)

ThreadLocalInit ==
  /\ thread = [t \in Threads |-> [live |-> FALSE, local_data_head |-> NULL]]
  /\ storage = [s \in Storages |-> [live |-> FALSE, dtor |-> FALSE, data_head |-> NULL]]
  /\ datum = [d \in Data |-> [live |-> FALSE, storage |-> NULL, thread |-> NULL, data |-> NULL,
                              prev_thread |-> NULL, next_thread |-> NULL,
                              prev_data |-> NULL, next_data |-> NULL]]
  /\ handed = {}

-----------------------------------------------------------------------------
\* The data met from first on along the links next, in order.
Chain(first, next) ==
  LET N == Cardinality(Data)
      at[i \in 0 .. N] ==
        IF i = 0 THEN first ELSE IF at[i - 1] = NULL THEN NULL ELSE next[at[i - 1]]
  IN  [i \in 1 .. Cardinality({j \in 0 .. N : at[j] # NULL}) |-> at[i - 1]]

NextData(m) == [d \in Data |-> m.datum[d].next_data]
PrevData(m) == [d \in Data |-> m.datum[d].prev_data]
NextThread(m) == [d \in Data |-> m.datum[d].next_thread]
PrevThread(m) == [d \in Data |-> m.datum[d].prev_thread]

ThreadData(m, t) == Chain(m.thread[t].local_data_head, NextData(m))
StorageData(m, s) == Chain(m.storage[s].data_head, NextThread(m))

Mutant_Find_first(m, s, t) ==
  LET mine == ThreadData(m, t)
  IN  IF mine = <<>> THEN NULL ELSE mine[1]

\* The datum of a thread for a storage.
Find(m, s, t) ==
  LET mine == ThreadData(m, t)
      found == {i \in DOMAIN mine : m.datum[mine[i]].storage = s}
  IN  IF found = {} THEN NULL ELSE mine[Min(found)]

Lookup(m, s, t) == IF Find(m, s, t) = NULL THEN Unset ELSE m.datum[Find(m, s, t)].data
kthread_ls_get(m, s, t) == IF Lookup(m, s, t) = Unset THEN NULL ELSE Lookup(m, s, t)

\* A new datum goes to the head of both lists.
LinkToThread(m, d, t) ==
  LET head == m.thread[t].local_data_head
      m1 == [m EXCEPT !.datum[d] = [@ EXCEPT !.prev_data = NULL, !.next_data = head],
                      !.thread[t].local_data_head = d]
  IN  IF head = NULL THEN m1 ELSE [m1 EXCEPT !.datum[head].prev_data = d]

LinkToStorage(m, d, s) ==
  LET head == m.storage[s].data_head
      m1 == [m EXCEPT !.datum[d] = [@ EXCEPT !.prev_thread = NULL, !.next_thread = head],
                      !.storage[s].data_head = d]
  IN  IF head = NULL THEN m1 ELSE [m1 EXCEPT !.datum[head].prev_thread = d]

Filled(m, d, s, t, data) ==
  [m EXCEPT !.datum[d] = [@ EXCEPT !.live = TRUE, !.storage = s, !.thread = t, !.data = data]]

kthread_ls_set(m, s, t, data) ==
  LET d == Find(m, s, t) IN
  IF d # NULL THEN {[m EXCEPT !.datum[d].data = data]}
  ELSE {LinkToStorage(LinkToThread(Filled(m, new, s, t, data), new, t), new, s) :
        new \in Free(m.datum)}

-----------------------------------------------------------------------------
\* The destruction of a storage takes its data from their threads' lists, but
\* by the links of its own list.
UnlinkFromThread(m, d) ==
  LET prev == m.datum[d].prev_thread
      next == m.datum[d].next_thread
      m1 == IF prev # NULL THEN [m EXCEPT !.datum[prev].next_thread = next]
            ELSE [m EXCEPT !.thread[m.datum[d].thread].local_data_head = next]
      m2 == IF next # NULL THEN [m1 EXCEPT !.datum[next].prev_thread = prev] ELSE m1
  IN  [m2 EXCEPT !.datum[d].live = FALSE]

kthread_ls_destroy(m, s) ==
  [FoldLeft(UnlinkFromThread, m, StorageData(m, s)) EXCEPT !.storage[s].live = FALSE]

\* The memory of the data is not freed.
Mutant_UnlinkFromStorage_leaks(m, d) ==
  [m EXCEPT !.storage[m.datum[d].storage].data_head = m.datum[d].next_data]

\* The end of a thread takes its data from their storages' lists, by the links
\* of its own list.
UnlinkFromStorage(m, d) ==
  LET prev == m.datum[d].prev_data
      next == m.datum[d].next_data
      m1 == IF prev # NULL THEN [m EXCEPT !.datum[prev].next_data = next]
            ELSE [m EXCEPT !.storage[m.datum[d].storage].data_head = next]
      m2 == IF next # NULL THEN [m1 EXCEPT !.datum[next].prev_data = prev] ELSE m1
  IN  [m2 EXCEPT !.datum[d].live = FALSE]

kthread_clean_td(m, t) == FoldLeft(UnlinkFromStorage, m, ThreadData(m, t))

\* The destructors it calls, each on the value of a datum.
Destructed(m, t) ==
  {<<m.datum[d].storage, m.datum[d].data>> :
   d \in {x \in ToSet(ThreadData(m, t)) : m.storage[m.datum[x].storage].dtor}}

-----------------------------------------------------------------------------
\* Is a datum the only one of its thread and of its storage?  Only then do the
\* two kinds of links agree, and the links above are the right ones.
Alone(m, d) ==
  /\ ThreadData(m, m.datum[d].thread) = <<d>>
  /\ StorageData(m, m.datum[d].storage) = <<d>>

MayEnd(t) == \A d \in ToSet(ThreadData(Memory, t)) : Alone(Memory, d)
MayDestroy(s) == \A d \in ToSet(StorageData(Memory, s)) : Alone(Memory, d)

syscall_ts_create(s, dtor) ==
  /\ s \in Free(storage)
  /\ storage' = [storage EXCEPT ![s] = [live |-> TRUE, dtor |-> dtor, data_head |-> NULL]]
  /\ handed' = {}
  /\ UNCHANGED <<thread, datum>>

syscall_ts_destroy(s) ==
  /\ s \in Live(storage)
  /\ Disciplined => MayDestroy(s)
  /\ Becomes(kthread_ls_destroy(Memory, s))
  /\ handed' = {}

\* The current thread sets its value.
syscall_ts_set(s, t, data) ==
  /\ s \in Live(storage) /\ t \in Live(thread)
  /\ \E m \in kthread_ls_set(Memory, s, t, data) : Becomes(m)
  /\ handed' = {}

\* There is no memory for a datum: the call fails.
syscall_ts_set_fails(s, t) ==
  /\ s \in Live(storage) /\ t \in Live(thread)
  /\ Find(Memory, s, t) = NULL
  /\ handed' = {}
  /\ UNCHANGED <<thread, storage, datum>>

kthread_create(t) ==
  /\ t \in Free(thread)
  /\ thread' = [thread EXCEPT ![t] = [live |-> TRUE, local_data_head |-> NULL]]
  /\ handed' = {}
  /\ UNCHANGED <<storage, datum>>

kthread_destroy(t) ==
  /\ t \in Live(thread)
  /\ Disciplined => MayEnd(t)
  /\ Becomes([kthread_clean_td(Memory, t) EXCEPT !.thread[t].live = FALSE])
  /\ handed' = Destructed(Memory, t)

ThreadLocalNext ==
  \/ \E s \in Storages : \/ \E dtor \in BOOLEAN : syscall_ts_create(s, dtor)
                         \/ syscall_ts_destroy(s)
  \/ \E s \in Storages, t \in Threads : \/ \E data \in Values : syscall_ts_set(s, t, data)
                                        \/ syscall_ts_set_fails(s, t)
  \/ \E t \in Threads : kthread_create(t) \/ kthread_destroy(t)

ThreadLocalSpec == ThreadLocalInit /\ [][ThreadLocalNext]_tls_vars

-----------------------------------------------------------------------------
(* Properties *)

Link == Data \union {NULL}

ThreadRecords == [live : BOOLEAN, local_data_head : Link]
StorageRecords == [live : BOOLEAN, dtor : BOOLEAN, data_head : Link]
DatumRecords ==
  [live : BOOLEAN, storage : Storages \union {NULL}, thread : Threads \union {NULL},
   data : Values \union {NULL},
   prev_thread : Link, next_thread : Link, prev_data : Link, next_data : Link]

Memories == [thread  : [Threads -> ThreadRecords],
             storage : [Storages -> StorageRecords],
             datum   : [Data -> DatumRecords]]

ThreadLocalTypeOK == Memory \in Memories /\ handed \subseteq Storages \X Values

DataOf(m, t) == {d \in Live(m.datum) : m.datum[d].thread = t}
DataFor(m, s) == {d \in Live(m.datum) : m.datum[d].storage = s}

\* A list holds exactly these data, each once, and its back links lead back.
IsListOf(list, prev, data) ==
  /\ ToSet(list) = data
  /\ Len(list) = Cardinality(data)
  /\ \A i \in DOMAIN list : prev[list[i]] = IF i = 1 THEN NULL ELSE list[i - 1]

\* Every datum is on the list of its thread and on that of its storage, and the
\* lists hold no other: none is lost and no link leads to freed memory
\* (thread_local.c:18-27,64-72, thread.c:102-109).
OnBothLists ==
  /\ \A t \in Live(thread) :
       IsListOf(ThreadData(Memory, t), PrevData(Memory), DataOf(Memory, t))
  /\ \A s \in Live(storage) :
       IsListOf(StorageData(Memory, s), PrevThread(Memory), DataFor(Memory, s))

\* No datum outlives its thread or its storage: its memory would never be freed,
\* and the end of its thread would read a destructor from freed memory
\* (thread.c:112).
NoOrphan ==
  \A d \in Live(datum) : datum[d].thread \in Live(thread) /\ datum[d].storage \in Live(storage)

\* Both lists of every datum are right, and both ends of it exist.
ThreadLocalInv == ThreadLocalTypeOK /\ OnBothLists /\ NoOrphan

\* Threads read what they last stored, and the destructors get each such value
\* of a thread that ends: the lists behave as the table of LocalStore.
Table ==
  INSTANCE LocalStore WITH
    dtors <- [s \in Storages |-> IF storage[s].live THEN storage[s].dtor ELSE Unset],
    store <- [t \in Threads |-> [s \in Storages |->
      IF thread[t].live THEN Lookup(Memory, s, t) ELSE Unset]]
ActsAsTable == Table!StoreSpec

-----------------------------------------------------------------------------
(* The inductive invariant *)

\* From h, next leads through the data of Q in the order of q, and prev back.
Linked(next, prev, h, q, Q) ==
  /\ q \in Seq(Q)
  /\ \A d \in Q : \E i \in 1 .. Len(q) : q[i] = d
  /\ \A i, j \in 1 .. Len(q) : q[i] = q[j] => i = j
  /\ h = IF Len(q) = 0 THEN NULL ELSE q[1]
  /\ \A i \in 1 .. Len(q) :
       /\ next[q[i]] = IF i = Len(q) THEN NULL ELSE q[i + 1]
       /\ prev[q[i]] = IF i = 1 THEN NULL ELSE q[i - 1]

\* Each list links the data of its thread or storage, and these exist.
Sound(m) ==
  /\ m \in Memories
  /\ \A t \in Live(m.thread) :
       Linked(NextData(m), PrevData(m), m.thread[t].local_data_head, ThreadData(m, t),
              DataOf(m, t))
  /\ \A s \in Live(m.storage) :
       Linked(NextThread(m), PrevThread(m), m.storage[s].data_head, StorageData(m, s),
              DataFor(m, s))
  /\ \A d \in Live(m.datum) :
       /\ m.datum[d].thread \in Live(m.thread)
       /\ m.datum[d].storage \in Live(m.storage)
       /\ m.datum[d].data \in Values

\* A thread has at most one datum for a storage.
Unique(m) ==
  \A d, e \in Live(m.datum) :
    m.datum[d].thread = m.datum[e].thread /\ m.datum[d].storage = m.datum[e].storage => d = e

SoundInv == Sound(Memory) /\ Unique(Memory) /\ handed \subseteq Storages \X Values
=============================================================================
