-------------------------------- MODULE Heap --------------------------------
(***************************************************************************)
(* The kernel heap (heap_allocator.c), one operator per function.  Memory  *)
(* is counted in blocks of KMEM_BLOCK_SIZE from HEAP_START; a segment, and *)
(* the pointer to its data, is the number of its first block.  The free    *)
(* segments are a doubly linked list; its order is the order of the links, *)
(* whatever the addresses are.                                             *)
(***************************************************************************)
EXTENDS Integers, FiniteSets

CONSTANTS
  HeapBlocks,        \* from HEAP_START to HEAP_END
  KMEM_BLOCK_SIZE,   \* 64
  HeaderSize,        \* sizeof(struct mem_segment), 12
  SizeMod,           \* size_t counts modulo SizeMod, 2^32
  NULL

ASSUME HeapAssumption ==
  /\ HeapBlocks \in Nat \ {0}
  /\ KMEM_BLOCK_SIZE \in Nat \ {0}
  /\ HeaderSize \in Nat \ {0} /\ HeaderSize <= KMEM_BLOCK_SIZE
  /\ SizeMod \in Nat /\ HeaderSize < SizeMod
  /\ NULL \notin Int

Addr == 0 .. HeapBlocks - 1

\* head_segment and the fields of the headers.
HeapMemory ==
  [ head   : Addr \union {NULL},
    blocks : [Addr -> 0 .. HeapBlocks],
    next   : [Addr -> Addr \union {NULL}],
    prev   : [Addr -> Addr \union {NULL}] ]

\* Headers that nobody has written yet are 0.
kheap_init ==
  [ head   |-> 0,
    blocks |-> [a \in Addr |-> IF a = 0 THEN HeapBlocks ELSE 0],
    next   |-> [a \in Addr |-> NULL],
    prev   |-> [a \in Addr |-> NULL] ]

\* The segments a loop over `next' that starts at s visits: the least set that
\* holds s and is closed under next.
Visited(h, s) ==
  LET Closed == {S \in SUBSET Addr :
                   s \in S /\ \A b \in S : h.next[b] # NULL => h.next[b] \in S}
  IN  {a \in Addr : s # NULL /\ \A S \in Closed : a \in S}

Free(h) == Visited(h, h.head)

\* The one of S that a loop over the list meets first.
FirstOf(h, S) == IF S = {} THEN NULL ELSE CHOOSE s \in S : S \subseteq Visited(h, s)

Mutant_calculate_without_header(bytes) ==
  bytes \div KMEM_BLOCK_SIZE + (IF bytes % KMEM_BLOCK_SIZE # 0 THEN 1 ELSE 0)

calculate_blocks(bytes) ==
  LET total == (bytes + HeaderSize) % SizeMod
  IN  total \div KMEM_BLOCK_SIZE + (IF total % KMEM_BLOCK_SIZE # 0 THEN 1 ELSE 0)

\* x->prev = s, unless x is NULL.
SetPrev(h, x, s) == IF x = NULL THEN h ELSE [h EXCEPT !.prev[x] = s]

\* x->next = s, or head_segment = s if there is no x.
SetNext(h, x, s) ==
  IF x = NULL THEN [h EXCEPT !.head = s] ELSE [h EXCEPT !.next[x] = s]

-----------------------------------------------------------------------------
(* kheap_alloc *)

\* Best fit instead of first fit.
Mutant_valid_segment_best(h, blocks) ==
  LET fits == {s \in Free(h) : h.blocks[s] >= blocks}
      best == {s \in fits : \A t \in fits : h.blocks[s] <= h.blocks[t]}
  IN  FirstOf(h, best)

valid_segment(h, blocks) == FirstOf(h, {s \in Free(h) : h.blocks[s] >= blocks})

\* The first blocks are taken, the rest takes the segment's place in the list.
Split(h, s, blocks) ==
  LET new == s + blocks IN
  SetNext(SetPrev([h EXCEPT !.blocks[new] = h.blocks[s] - blocks,
                            !.blocks[s] = blocks,
                            !.next[new] = h.next[s],
                            !.prev[new] = h.prev[s]],
                  h.next[s], new), h.prev[s], new)

\* The head is not moved when the first segment is used up.
Mutant_Unlink_keeps_head(h, s) ==
  LET h1 == SetPrev(h, h.next[s], h.prev[s])
  IN  IF h.prev[s] = NULL THEN h1 ELSE [h1 EXCEPT !.next[h.prev[s]] = h.next[s]]

Unlink(h, s) == SetNext(SetPrev(h, h.next[s], h.prev[s]), h.prev[s], h.next[s])

\* The pointer returned is valid_segment; this is the memory left behind.
kheap_alloc(h, bytes) ==
  LET blocks == calculate_blocks(bytes)
      s == valid_segment(h, blocks)
      h1 == IF h.blocks[s] > blocks THEN Split(h, s, blocks) ELSE Unlink(h, s)
  IN  IF s = NULL THEN h ELSE [h1 EXCEPT !.next[s] = NULL, !.prev[s] = NULL]

-----------------------------------------------------------------------------
(* kheap_dealloc *)

try_join_next_segment(h, s) ==
  LET n == h.next[s] IN
  IF n = NULL THEN h
  ELSE IF s + h.blocks[s] # n THEN h
  ELSE SetPrev([h EXCEPT !.blocks[s] = h.blocks[s] + h.blocks[n],
                         !.next[s] = h.next[n]], h.next[n], s)

\* Where the loops of kheap_dealloc and kheap_try_expand stop, and the segment
\* they came from.
Above(h, s) == FirstOf(h, {c \in Free(h) : s < c})
Below(h, s) ==
  IF h.head = Above(h, s) THEN NULL ELSE CHOOSE p \in Free(h) : h.next[p] = Above(h, s)

Insert(h, s) ==
  LET p == Below(h, s)
      n == IF p = NULL THEN h.head ELSE h.next[p]
  IN  SetPrev(SetNext([h EXCEPT !.prev[s] = p, !.next[s] = n], p, s), n, s)

kheap_dealloc(h, s) ==
  LET h1 == try_join_next_segment(Insert(h, s), s)
  IN  IF h1.prev[s] = NULL THEN h1 ELSE try_join_next_segment(h1, h1.prev[s])

-----------------------------------------------------------------------------
(* kheap_try_expand *)

\* The tests are those of a shrinking block where it grows and the other way
\* round, and the links of a new header are not written: they are what the memory
\* holds, link.
try_expand_result(h, s, bytes) ==
  LET new == calculate_blocks(bytes)
      old == h.blocks[s]
  IN  old <= new \/ Above(h, s) = s + old

kheap_try_expand(h, s, bytes, link) ==
  LET new == calculate_blocks(bytes)
      old == h.blocks[s]
      n == Above(h, s)
      surplus == s + new
  IN  IF ~try_expand_result(h, s, bytes) \/ old = new THEN h
      ELSE IF old < new
        THEN [kheap_dealloc([h EXCEPT !.blocks[surplus] = new - old], surplus)
                EXCEPT !.blocks[s] = new]
        ELSE LET h1 == [h EXCEPT !.blocks[surplus] = h.blocks[n] + old - new,
                                 !.next[surplus] = link, !.prev[surplus] = link,
                                 !.blocks[s] = new]
             IN  IF h.next[n] = NULL THEN [h1 EXCEPT !.head = surplus]
                 ELSE [h1 EXCEPT !.prev[h.next[n]] = surplus]
=============================================================================
