----------------------------- MODULE HeapSystem -----------------------------
(***************************************************************************)
(* The heap and its users: malloc, free and __memory_try_expand, and the   *)
(* kernel, which keeps the three objects of a thread in it.  A system call *)
(* runs with interrupts masked: each is one step.                          *)
(***************************************************************************)
EXTENDS Heap

CONSTANTS
  Requests,     \* the sizes users ask for, in bytes
  ThreadSize,   \* sizeof(struct kthread)
  StackSize,    \* KTHREAD_STACK_SIZE
  TdataSize,    \* the sections .tdata and .tbss
  Disciplined   \* do users keep to MayExpand?

Sizes == Requests \union {ThreadSize, StackSize, TdataSize}

\* A request within a header of the greatest size_t wraps in calculate_blocks.
ASSUME HeapSystemAssumption ==
  /\ Sizes \subseteq Nat
  /\ \A bytes \in Sizes : bytes + HeaderSize < SizeMod
  /\ Disciplined \in BOOLEAN
  /\ NULL \notin [stack : Addr, tdata : Addr]

VARIABLES
  h,        \* the heap's memory
  asked,    \* the size asked for by the owner of a segment, NULL if it has none
            \* (not in the code)
  kthread   \* the struct kthread at an address, NULL if there is none

heap_vars == <<h, asked, kthread>>

Live == {a \in Addr : asked[a] # NULL}

HeapInit ==
  /\ h = kheap_init
  /\ asked = [a \in Addr |-> NULL]
  /\ kthread = [a \in Addr |-> NULL]

Threads == {t \in Addr : kthread[t] # NULL}
Objects(t) == {t, kthread[t].stack, kthread[t].tdata}
ThreadMemory == UNION {Objects(t) : t \in Threads}

-----------------------------------------------------------------------------
Owned(a, s, bytes) == IF s = NULL THEN a ELSE [a EXCEPT ![s] = bytes]
Disowned(a, s) == [a EXCEPT ![s] = NULL]

\* What kheap_alloc returns.
Pointer(m, bytes) == valid_segment(m, calculate_blocks(bytes))

syscall_mem_alloc(bytes) ==
  /\ h' = kheap_alloc(h, bytes)
  /\ asked' = Owned(asked, Pointer(h, bytes), bytes)
  /\ UNCHANGED kthread

\* Users free what they own, once.
syscall_mem_free(s) ==
  /\ s \in Live \ ThreadMemory
  /\ h' = kheap_dealloc(h, s)
  /\ asked' = Disowned(asked, s)
  /\ UNCHANGED kthread

\* Where __memory_try_expand changes no link: the block does not grow, and if it
\* shrinks no free segment follows it.  Anything else breaks the heap.
MayExpand(s, bytes) ==
  LET new == calculate_blocks(bytes) IN
  \/ new = h.blocks[s]
  \/ new < h.blocks[s] /\ s + h.blocks[s] \notin Free(h)

\* What a header holds that nobody has written: anything.
Garbage == IF Disciplined THEN {NULL} ELSE Addr \union {NULL}

syscall_mem_try_expand(s, bytes) ==
  /\ s \in Live \ ThreadMemory
  /\ Disciplined => MayExpand(s, bytes)
  /\ ~Disciplined => s + calculate_blocks(bytes) \in Addr
  /\ \E link \in Garbage : h' = kheap_try_expand(h, s, bytes, link)
  /\ asked' = IF try_expand_result(h, s, bytes) THEN [asked EXCEPT ![s] = bytes] ELSE asked
  /\ UNCHANGED kthread

\* Three allocations; when one fails those before it are undone.
Mutant_create_forgets_the_stack(m, t, stack, tdata) ==
  LET m1 == kheap_alloc(m, ThreadSize)
      m2 == kheap_alloc(m1, StackSize)
  IN  CASE t = NULL -> m
        [] t # NULL /\ stack = NULL -> kheap_dealloc(m1, t)
        [] stack # NULL /\ tdata = NULL -> kheap_dealloc(m2, t)
        [] OTHER -> kheap_alloc(m2, TdataSize)

kthread_create(m, t, stack, tdata) ==
  LET m1 == kheap_alloc(m, ThreadSize)
      m2 == kheap_alloc(m1, StackSize)
  IN  CASE t = NULL -> m
        [] t # NULL /\ stack = NULL -> kheap_dealloc(m1, t)
        [] stack # NULL /\ tdata = NULL -> kheap_dealloc(kheap_dealloc(m2, stack), t)
        [] OTHER -> kheap_alloc(m2, TdataSize)

syscall_thread_create ==
  LET m1 == kheap_alloc(h, ThreadSize)
      t == Pointer(h, ThreadSize)
      stack == IF t = NULL THEN NULL ELSE Pointer(m1, StackSize)
      tdata == IF stack = NULL THEN NULL
               ELSE Pointer(kheap_alloc(m1, StackSize), TdataSize)
  IN  /\ h' = kthread_create(h, t, stack, tdata)
      /\ IF tdata = NULL THEN UNCHANGED <<asked, kthread>>
         ELSE /\ asked' = Owned(Owned(Owned(asked, t, ThreadSize), stack, StackSize),
                                tdata, TdataSize)
              /\ kthread' = [kthread EXCEPT ![t] = [stack |-> stack, tdata |-> tdata]]

kthread_destroy(t) ==
  LET stack == kthread[t].stack
      tdata == kthread[t].tdata
  IN  /\ t \in Threads
      /\ h' = kheap_dealloc(kheap_dealloc(kheap_dealloc(h, stack), tdata), t)
      /\ asked' = Disowned(Disowned(Disowned(asked, stack), tdata), t)
      /\ kthread' = [kthread EXCEPT ![t] = NULL]

HeapNext ==
  \/ \E bytes \in Requests : syscall_mem_alloc(bytes)
  \/ \E s \in Addr : syscall_mem_free(s)
  \/ \E s \in Addr, bytes \in Requests : syscall_mem_try_expand(s, bytes)
  \/ syscall_thread_create
  \/ \E t \in Addr : kthread_destroy(t)

HeapSpec == HeapInit /\ [][HeapNext]_heap_vars

-----------------------------------------------------------------------------
(* Properties *)

HeapTypeOK ==
  /\ h \in HeapMemory
  /\ asked \in [Addr -> Sizes \union {NULL}]
  /\ kthread \in [Addr -> [stack : Addr, tdata : Addr] \union {NULL}]

\* The blocks of a segment.
Extent(m, a) == a .. a + m.blocks[a] - 1

\* Every block of the heap belongs to one segment, owned or free: segments never
\* overlap and none is lost (heap_allocator.c:53,102,128 write sizes and links of
\* neighbours; thread.c:43,52 undo a creation that fails half way).
Partition ==
  LET segments == Live \union Free(h) IN
  \A x \in Addr : \E a \in segments :
    x \in Extent(h, a) /\ \A b \in segments \ {a} : x \notin Extent(h, b)

\* A segment holds its header and what its owner asked for.
LargeEnough ==
  \A a \in Live : asked[a] + HeaderSize <= h.blocks[a] * KMEM_BLOCK_SIZE

\* n blocks from a on have no owner.
Gap(a, n) ==
  a + n <= HeapBlocks /\ \A b \in Live : Extent(h, b) \intersect (a .. a + n - 1) = {}

\* First fit, whatever the list looks like: an allocation gets the lowest address
\* where there is room, and fails only if there is none.
FirstFit ==
  \A bytes \in Sizes :
    LET n == calculate_blocks(bytes)
        s == Pointer(h, bytes)
    IN  IF s = NULL THEN \A a \in Addr : ~Gap(a, n)
        ELSE Gap(s, n) /\ \A a \in Addr : a < s => ~Gap(a, n)

\* A segment keeps its size while it has its owner.
SizeIsKept ==
  [][\A a \in Addr : asked[a] # NULL /\ asked'[a] # NULL => h'.blocks[a] = h.blocks[a]]_heap_vars

-----------------------------------------------------------------------------
(* The inductive invariant *)

\* The list goes through the free segments F in the order of their addresses, in
\* both directions.
Linked(m, F) ==
  /\ m.head = NULL => F = {}
  /\ m.head # NULL => m.head \in F /\ \A a \in F : m.head <= a
  /\ \A a \in F :
       /\ m.next[a] = NULL => \A b \in F : b <= a
       /\ m.next[a] # NULL => /\ m.next[a] \in F /\ a < m.next[a]
                              /\ \A b \in F : b <= a \/ m.next[a] <= b
       /\ m.prev[a] = NULL => m.head = a
       /\ m.prev[a] # NULL => m.prev[a] \in F /\ m.next[m.prev[a]] = a

\* Segments S cover the heap without overlap.
Tiles(m, S) ==
  /\ 0 \in S
  /\ \A a \in S : /\ m.blocks[a] >= 1
                  /\ a + m.blocks[a] = HeapBlocks \/ a + m.blocks[a] \in S
                  /\ \A b \in S : a < b => a + m.blocks[a] <= b

\* m is a heap in order: F is free, L has owners.
Shape(m, F, L) ==
  /\ m \in HeapMemory
  /\ F \subseteq Addr /\ L \subseteq Addr /\ F \intersect L = {}
  /\ Linked(m, F)
  /\ Tiles(m, F \union L)

\* No two free segments touch, so that every gap is a segment.
Coalesced(m, F) == \A a \in F : a + m.blocks[a] \notin F

Sound(m, F, L) == Shape(m, F, L) /\ Coalesced(m, F)

\* Nobody else's memory is part of a thread.
ThreadsOwn ==
  \A t \in Threads :
    /\ Objects(t) \subseteq Live
    /\ t # kthread[t].stack /\ t # kthread[t].tdata /\ kthread[t].stack # kthread[t].tdata
    /\ \A u \in Threads \ {t} : Objects(t) \intersect Objects(u) = {}

HeapInv ==
  /\ HeapTypeOK
  /\ Sound(h, Free(h), Live)
  /\ LargeEnough
  /\ ThreadsOwn
=============================================================================
