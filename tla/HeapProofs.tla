----------------------------- MODULE HeapProofs -----------------------------
(***************************************************************************)
(* Theorems about HeapSystem.                                              *)
(***************************************************************************)
EXTENDS HeapSystem, WellFoundedInduction, TLAPS

LEMMA MinExists ==
  ASSUME NEW S, S \subseteq Nat, S # {}
  PROVE  \E a \in S : \A b \in S : a <= b
  <1> DEFINE R == OpToRel(<, Nat)
  <1>1. PICK a \in S : \A b \in S : <<b, a>> \notin R
    <2> HIDE DEF R
    <2>1. IsWellFoundedOn(R, Nat)
      BY NatLessThanWellFounded DEF R
    <2> QED BY <2>1, WFMin
  <1>2. \A b \in S : ~(b < a)
    BY <1>1 DEF OpToRel
  <1> QED BY <1>2

LEMMA CalculateBlocks ==
  ASSUME NEW bytes \in Nat, bytes + HeaderSize < SizeMod
  PROVE  /\ calculate_blocks(bytes) \in Nat \ {0}
         /\ bytes + HeaderSize <= calculate_blocks(bytes) * KMEM_BLOCK_SIZE
  <1> DEFINE total == bytes + HeaderSize
             q == total \div KMEM_BLOCK_SIZE
             r == total % KMEM_BLOCK_SIZE
  <1>1. /\ total \in Nat \ {0} /\ total % SizeMod = total
        /\ KMEM_BLOCK_SIZE \in Nat \ {0}
    BY HeapAssumption
  <1>2. /\ q \in Nat /\ r \in Nat /\ r < KMEM_BLOCK_SIZE
        /\ total = KMEM_BLOCK_SIZE * q + r
    BY <1>1
  <1>3. calculate_blocks(bytes) = q + (IF r # 0 THEN 1 ELSE 0)
    BY <1>1 DEF calculate_blocks
  <1> HIDE DEF q, r
  <1>4. CASE r = 0
    <2>1. calculate_blocks(bytes) = q /\ q * KMEM_BLOCK_SIZE = total
      BY <1>1, <1>2, <1>3, <1>4
    <2>2. q # 0
      BY <1>1, <2>1
    <2> QED BY <1>1, <1>2, <2>1, <2>2
  <1>5. CASE r # 0
    <2>1. calculate_blocks(bytes) = q + 1
      BY <1>3, <1>5
    <2>2. (q + 1) * KMEM_BLOCK_SIZE = KMEM_BLOCK_SIZE * q + KMEM_BLOCK_SIZE
      BY <1>1, <1>2
    <2>3. total <= (q + 1) * KMEM_BLOCK_SIZE
      <3> DEFINE p == KMEM_BLOCK_SIZE * q
      <3>1. p \in Nat
        BY <1>1, <1>2
      <3> HIDE DEF p
      <3>2. total = p + r /\ (q + 1) * KMEM_BLOCK_SIZE = p + KMEM_BLOCK_SIZE
        BY <1>2, <2>2 DEF p
      <3> QED BY <1>1, <1>2, <3>1, <3>2
    <2> QED BY <1>2, <2>1, <2>3
  <1> QED BY <1>4, <1>5

LEMMA MaxExists ==
  ASSUME NEW S, S \subseteq Addr, S # {}
  PROVE  \E a \in S : \A b \in S : b <= a
  <1> DEFINE T == {HeapBlocks - a : a \in S}
  <1>1. T \subseteq Nat /\ T # {}
    <2>1. \A a \in S : HeapBlocks - a \in Nat
      BY HeapAssumption DEF Addr
    <2>2. PICK a \in S : TRUE
      OBVIOUS
    <2>3. HeapBlocks - a \in T
      BY <2>2
    <2> QED BY <2>1, <2>3
  <1>2. PICK t \in T : \A u \in T : t <= u
    <2> HIDE DEF T
    <2> QED BY <1>1, MinExists
  <1>3. PICK a \in S : t = HeapBlocks - a
    BY <1>2
  <1>4. \A b \in S : HeapBlocks - a <= HeapBlocks - b
    BY <1>2, <1>3
  <1> QED BY <1>3, <1>4, HeapAssumption DEF Addr

-----------------------------------------------------------------------------
(* The loops over the list *)

\* A loop that starts at a free segment visits it and those above it.
LEMMA VisitedIs ==
  ASSUME NEW m \in HeapMemory, NEW F \in SUBSET Addr, Linked(m, F), NEW s \in F
  PROVE  Visited(m, s) = {a \in F : s <= a}
  <1> DEFINE V == {a \in F : s <= a}
  <1>0. s # NULL /\ \A a \in F : a \in Nat
    BY HeapAssumption DEF Addr
  <1>a. \A b : b \in V <=> b \in F /\ s <= b
    OBVIOUS
  <1> HIDE DEF V
  <1>1. V \in SUBSET Addr
    BY <1>a
  <1>b. s \in V
    BY <1>0, <1>a
  <1>2. ASSUME NEW b \in V, m.next[b] # NULL PROVE m.next[b] \in V
    <2>1. m.next[b] \in F /\ b < m.next[b]
      BY <1>2, <1>a DEF Linked
    <2> QED BY <1>0, <1>a, <2>1
  <1>3. Visited(m, s) \subseteq V
    BY <1>1, <1>b, <1>2 DEF Visited
  <1>4. ASSUME NEW a \in V, NEW S \in SUBSET Addr, s \in S,
               \A b \in S : m.next[b] # NULL => m.next[b] \in S
        PROVE  a \in S
    <2> SUFFICES ASSUME a \notin S PROVE FALSE
      OBVIOUS
    <2> DEFINE D == {b \in V : b \notin S}
    <2>1. D \subseteq Nat /\ D # {}
      BY <1>0, <1>a
    <2>2. PICK d \in D : \A b \in D : d <= b
      <3> HIDE DEF D
      <3> QED BY <2>1, MinExists
    <2>3. d \in F /\ s < d /\ d \notin S
      BY <1>0, <1>a, <1>4, <2>2
    <2>4. m.prev[d] \in F /\ m.next[m.prev[d]] = d
      BY <1>0, <2>3 DEF Linked
    <2>5. s <= m.prev[d] /\ m.prev[d] < d
      <3>1. d # NULL
        BY <2>3, HeapAssumption DEF Addr
      <3>2. m.prev[d] < d /\ (s <= m.prev[d] \/ d <= s)
        BY <2>4, <3>1 DEF Linked
      <3> QED BY <1>0, <2>3, <2>4, <3>2
    <2>6. m.prev[d] \in S
      <3>1. m.prev[d] \in V
        BY <1>a, <2>4, <2>5
      <3>2. ~(d <= m.prev[d])
        BY <1>0, <2>3, <2>4, <2>5
      <3> QED BY <2>2, <3>1, <3>2
    <2>7. d # NULL
      BY <2>3, HeapAssumption DEF Addr
    <2> QED BY <1>4, <2>3, <2>4, <2>6, <2>7
  <1>5. V \subseteq Visited(m, s)
    BY <1>0, <1>1, <1>4 DEF Visited
  <1>6. Visited(m, s) = V
    BY <1>3, <1>5
  <1> QED BY <1>6 DEF V

LEMMA FreeIs ==
  ASSUME NEW m \in HeapMemory, NEW F \in SUBSET Addr, Linked(m, F)
  PROVE  Free(m) = F
  <1>1. CASE m.head = NULL
    BY <1>1 DEF Free, Visited, Linked
  <1>2. CASE m.head # NULL
    <2>1. m.head \in F /\ \A a \in F : m.head <= a
      BY <1>2 DEF Linked
    <2> QED BY <2>1, VisitedIs DEF Free
  <1> QED BY <1>1, <1>2

\* A loop that looks for one of S finds the lowest.
LEMMA FirstIs ==
  ASSUME NEW m \in HeapMemory, NEW F \in SUBSET Addr, Linked(m, F),
         NEW S \in SUBSET F
  PROVE  /\ S = {} => FirstOf(m, S) = NULL
         /\ S # {} => /\ FirstOf(m, S) \in S
                      /\ \A b \in S : FirstOf(m, S) <= b
  <1>1. CASE S = {}
    BY <1>1 DEF FirstOf
  <1>2. CASE S # {}
    <2>1. S \subseteq Nat
      BY DEF Addr
    <2>2. PICK s \in S : \A b \in S : s <= b
      BY <1>2, <2>1, MinExists
    <2>3. S \subseteq Visited(m, s)
      BY <2>2, VisitedIs
    <2>4. FirstOf(m, S) \in S /\ S \subseteq Visited(m, FirstOf(m, S))
      BY <1>2, <2>3 DEF FirstOf
    <2> QED BY <1>2, <2>4, VisitedIs
  <1> QED BY <1>1, <1>2

-----------------------------------------------------------------------------
(* The fields after a change of links *)

LEMMA Fields ==
  ASSUME NEW m \in HeapMemory
  PROVE  /\ m.head \in Addr \union {NULL}
         /\ \A a \in Addr : /\ m.next[a] \in Addr \union {NULL}
                            /\ m.prev[a] \in Addr \union {NULL}
                            /\ m.blocks[a] \in Nat /\ m.blocks[a] <= HeapBlocks
         /\ \A a \in Addr : a \in Nat /\ a < HeapBlocks /\ a # NULL
  BY HeapAssumption DEF HeapMemory, Addr

\* On addresses, g is f with x mapped to v.
Updated(g, f, x, v) ==
  \A a \in Addr : (a = x => g[a] = v) /\ (a # x => g[a] = f[a])

LEMMA SetPrevFields ==
  ASSUME NEW m \in HeapMemory, NEW x \in Addr \union {NULL}, NEW s \in Addr \union {NULL}
  PROVE  /\ SetPrev(m, x, s) \in HeapMemory
         /\ SetPrev(m, x, s).head = m.head
         /\ SetPrev(m, x, s).next = m.next
         /\ SetPrev(m, x, s).blocks = m.blocks
         /\ Updated(SetPrev(m, x, s).prev, m.prev, x, s)
  <1>0. \A a \in Addr : a # NULL
    BY Fields
  <1>1. CASE x = NULL
    BY <1>0, <1>1 DEF SetPrev, Updated
  <1>2. CASE x # NULL
    BY <1>2 DEF SetPrev, HeapMemory, Updated
  <1> QED BY <1>1, <1>2

LEMMA SetNextFields ==
  ASSUME NEW m \in HeapMemory, NEW x \in Addr \union {NULL}, NEW s \in Addr \union {NULL}
  PROVE  /\ SetNext(m, x, s) \in HeapMemory
         /\ x = NULL => SetNext(m, x, s).head = s
         /\ x # NULL => SetNext(m, x, s).head = m.head
         /\ SetNext(m, x, s).prev = m.prev
         /\ SetNext(m, x, s).blocks = m.blocks
         /\ Updated(SetNext(m, x, s).next, m.next, x, s)
  <1>0. \A a \in Addr : a # NULL
    BY Fields
  <1>1. CASE x = NULL
    BY <1>0, <1>1 DEF SetNext, HeapMemory, Updated
  <1>2. CASE x # NULL
    BY <1>2 DEF SetNext, HeapMemory, Updated
  <1> QED BY <1>1, <1>2

\* m1 is m with x's prev set to s and y's next, or the head, to t.
Pointed(m1, m, x, s, y, t) ==
  /\ m1 \in HeapMemory
  /\ y = NULL => m1.head = t
  /\ y # NULL => m1.head = m.head
  /\ m1.blocks = m.blocks
  /\ Updated(m1.next, m.next, y, t)
  /\ Updated(m1.prev, m.prev, x, s)

LEMMA NeighboursFields ==
  ASSUME NEW m \in HeapMemory,
         NEW x \in Addr \union {NULL}, NEW s \in Addr \union {NULL},
         NEW y \in Addr \union {NULL}, NEW t \in Addr \union {NULL}
  PROVE  /\ Pointed(SetNext(SetPrev(m, x, s), y, t), m, x, s, y, t)
         /\ Pointed(SetPrev(SetNext(m, y, t), x, s), m, x, s, y, t)
  <1>1. Pointed(SetNext(SetPrev(m, x, s), y, t), m, x, s, y, t)
    <2> DEFINE m2 == SetPrev(m, x, s)
    <2>1. /\ m2 \in HeapMemory /\ m2.head = m.head /\ m2.next = m.next
          /\ m2.blocks = m.blocks /\ Updated(m2.prev, m.prev, x, s)
      BY SetPrevFields
    <2> HIDE DEF m2
    <2>2. /\ SetNext(m2, y, t) \in HeapMemory
          /\ y = NULL => SetNext(m2, y, t).head = t
          /\ y # NULL => SetNext(m2, y, t).head = m2.head
          /\ SetNext(m2, y, t).prev = m2.prev
          /\ SetNext(m2, y, t).blocks = m2.blocks
          /\ Updated(SetNext(m2, y, t).next, m2.next, y, t)
      BY <2>1, SetNextFields
    <2> QED BY <2>1, <2>2 DEF m2, Pointed
  <1>2. Pointed(SetPrev(SetNext(m, y, t), x, s), m, x, s, y, t)
    <2> DEFINE m2 == SetNext(m, y, t)
    <2>1. /\ m2 \in HeapMemory
          /\ y = NULL => m2.head = t
          /\ y # NULL => m2.head = m.head
          /\ m2.prev = m.prev /\ m2.blocks = m.blocks /\ Updated(m2.next, m.next, y, t)
      BY SetNextFields, ZenonT(60)
    <2> HIDE DEF m2
    <2>2. /\ SetPrev(m2, x, s) \in HeapMemory
          /\ SetPrev(m2, x, s).head = m2.head
          /\ SetPrev(m2, x, s).next = m2.next
          /\ SetPrev(m2, x, s).blocks = m2.blocks
          /\ Updated(SetPrev(m2, x, s).prev, m2.prev, x, s)
      BY <2>1, SetPrevFields
    <2> QED BY <2>1, <2>2 DEF m2, Pointed
  <1> QED BY <1>1, <1>2

-----------------------------------------------------------------------------
(* The list after a segment is replaced, removed or inserted *)

\* The neighbours of a free segment.
LEMMA Neighbours ==
  ASSUME NEW m \in HeapMemory, NEW F \in SUBSET Addr, Linked(m, F), NEW s \in F
  PROVE  /\ m.prev[s] = NULL => m.head = s /\ \A b \in F : s <= b
         /\ m.prev[s] # NULL => /\ m.prev[s] \in F /\ m.next[m.prev[s]] = s /\ m.prev[s] < s
                                /\ \A b \in F : b <= m.prev[s] \/ s <= b
         /\ m.next[s] = NULL => \A b \in F : b <= s
         /\ m.next[s] # NULL => /\ m.next[s] \in F /\ s < m.next[s] /\ m.prev[m.next[s]] = s
                                /\ \A b \in F : b <= s \/ m.next[s] <= b
  <1>0. s # NULL /\ \A a \in F : a \in Nat /\ a # NULL
    BY Fields
  <1>1. m.prev[s] = NULL => m.head = s /\ \A b \in F : s <= b
    BY <1>0 DEF Linked
  <1>2. m.prev[s] # NULL => /\ m.prev[s] \in F /\ m.next[m.prev[s]] = s /\ m.prev[s] < s
                            /\ \A b \in F : b <= m.prev[s] \/ s <= b
    BY <1>0 DEF Linked
  <1>3. m.next[s] = NULL => \A b \in F : b <= s
    BY DEF Linked
  <1>4. ASSUME m.next[s] # NULL
        PROVE  /\ m.next[s] \in F /\ s < m.next[s]
               /\ \A b \in F : b <= s \/ m.next[s] <= b
    BY <1>4 DEF Linked
  <1>5. ASSUME m.next[s] # NULL PROVE m.prev[m.next[s]] = s
    <2> DEFINE x == m.next[s]
               y == m.prev[x]
    <2>1. x \in F /\ s < x
      BY <1>4, <1>5
    <2>2. y # NULL
      <3> SUFFICES ASSUME y = NULL PROVE FALSE
        OBVIOUS
      <3>1. m.head = x /\ m.head <= s
        BY <2>1, <1>0 DEF Linked
      <3> QED BY <1>0, <2>1, <3>1
    <2>3. y \in F /\ m.next[y] = x
      BY <2>1, <2>2 DEF Linked
    <2> HIDE DEF y
    <2>4. s <= y /\ y <= s
      <3>1. y < x /\ (s <= y \/ x <= s)
        BY <1>0, <2>1, <2>3 DEF Linked
      <3>2. y <= s \/ x <= y
        BY <1>4, <1>5, <2>3
      <3> HIDE DEF x
      <3> QED BY <1>0, <2>1, <2>3, <3>1, <3>2
    <2>5. y = s
      BY <1>0, <2>3, <2>4
    <2> QED BY <2>5 DEF y
  <1> QED BY <1>1, <1>2, <1>3, <1>4, <1>5

\* The new segment between s and the one that followed it takes the place of s.
LEMMA ReplaceLinked ==
  ASSUME NEW m \in HeapMemory, NEW F \in SUBSET Addr, Linked(m, F), NEW s \in F,
         NEW new \in Addr, s < new, \A b \in F : b <= s \/ new < b,
         NEW m1,
         m.prev[s] = NULL => m1.head = new,
         m.prev[s] # NULL => m1.head = m.head,
         m1.next[new] = m.next[s], m1.prev[new] = m.prev[s],
         \A a \in F : /\ a # m.prev[s] => m1.next[a] = m.next[a]
                      /\ a = m.prev[s] => m1.next[a] = new
                      /\ a # m.next[s] => m1.prev[a] = m.prev[a]
                      /\ a = m.next[s] => m1.prev[a] = new
  PROVE  Linked(m1, (F \ {s}) \union {new})
  <1> DEFINE F1 == (F \ {s}) \union {new}
  <1>0. /\ new \in Nat /\ new # NULL /\ \A a \in F : a \in Nat /\ a # NULL
        /\ \A a : a \in F1 <=> (a \in F /\ a # s) \/ a = new
    BY Fields
  <1>1. PICK p, x : p = m.prev[s] /\ x = m.next[s]
    OBVIOUS
  <1>2. /\ p = NULL => m.head = s /\ \A b \in F : s <= b
        /\ p # NULL => p \in F /\ m.next[p] = s /\ p < s /\ \A b \in F : b <= p \/ s <= b
        /\ x = NULL => \A b \in F : b <= s
        /\ x # NULL => x \in F /\ s < x /\ m.prev[x] = s /\ \A b \in F : b <= s \/ x <= b
    BY <1>1, Neighbours
  <1>a. s \in Nat /\ \A b \in F : s < b => new < b
    BY <1>0
  <1> HIDE DEF F1
  <1>3. m1.head # NULL /\ m1.head \in F1 /\ \A a \in F1 : m1.head <= a
    <2>1. CASE p = NULL
      <3>1. m1.head = new /\ new \in F1
        BY <2>1, <1>0, <1>1
      <3>2. \A a \in F : a # s => s < a
        BY <2>1, <1>0, <1>2
      <3>3. ASSUME NEW a \in F1 PROVE new <= a
        <4>1. (a \in F /\ a # s) \/ a = new
          BY <1>0
        <4>2. CASE a \in F /\ a # s
          BY <4>2, <3>2, <1>0, <1>a
        <4> QED BY <4>1, <4>2, <1>0
      <3> QED BY <1>0, <3>1, <3>3
    <2>2. CASE p # NULL
      <3>1. m.head # NULL /\ m.head \in F /\ m.head <= s /\ \A b \in F : m.head <= b
        BY DEF Linked
      <3>2. m.head # s
        <4>1. p \in F /\ p < s
          BY <1>2, <2>2
        <4>2. m.head <= p
          BY <3>1, <4>1
        <4> QED BY <1>0, <3>1, <4>1, <4>2
      <3>3. m1.head = m.head
        BY <2>2, <1>1
      <3>4. m.head \in F1
        BY <1>0, <3>1, <3>2
      <3>5. m.head <= new
        <4>1. m.head \in Nat /\ s \in Nat /\ new \in Nat /\ m.head <= s /\ s < new
          BY <1>0, <3>1
        <4> QED BY <4>1
      <3>6. ASSUME NEW a \in F1 PROVE m.head <= a
        <4>1. a \in F \/ a = new
          BY <1>0
        <4> QED BY <4>1, <3>1, <3>5
      <3> QED BY <3>1, <3>3, <3>4, <3>6
    <2> QED BY <2>1, <2>2
  <1>4. ASSUME NEW a \in F1
        PROVE  /\ m1.next[a] = NULL => \A b \in F1 : b <= a
               /\ m1.next[a] # NULL => /\ m1.next[a] \in F1 /\ a < m1.next[a]
                                       /\ \A b \in F1 : b <= a \/ m1.next[a] <= b
               /\ m1.prev[a] = NULL => m1.head = a
               /\ m1.prev[a] # NULL => m1.prev[a] \in F1 /\ m1.next[m1.prev[a]] = a
    <2>1. CASE a = new
      <3>1. x = NULL => \A b \in F1 : b <= new
        BY <1>0, <1>2
      <3>2. ASSUME x # NULL
            PROVE  x \in F1 /\ new < x /\ \A b \in F1 : b <= new \/ x <= b
        <4>1. x \in F /\ s < x /\ \A b \in F : b <= s \/ x <= b
          BY <1>2, <3>2
        <4>2. new < x
          BY <1>a, <4>1
        <4>3. ASSUME NEW b \in F1 PROVE b <= new \/ x <= b
          <5>1. (b \in F /\ b # s) \/ b = new
            BY <1>0
          <5>2. CASE b \in F /\ b # s
            <6>1. b <= s \/ x <= b
              BY <4>1, <5>2
            <6> QED BY <6>1, <5>2, <4>1, <1>0, <1>a
          <5> QED BY <5>1, <5>2, <1>0
        <4>4. x # s
          BY <1>0, <4>1
        <4> QED BY <1>0, <4>1, <4>2, <4>3, <4>4
      <3>3. ASSUME p # NULL
            PROVE  p \in F1 /\ m1.next[p] = new
        <4>1. p \in F /\ p # s
          BY <1>0, <1>2, <3>3
        <4> QED BY <1>0, <1>1, <4>1
      <3> QED BY <2>1, <1>1, <3>1, <3>2, <3>3
    <2>2. CASE a \in F /\ a # s
      <3> PICK y, z : y = m.next[a] /\ z = m.prev[a]
        OBVIOUS
      <3>1. /\ z = NULL => m.head = a
            /\ z # NULL => z \in F /\ m.next[z] = a /\ z < a /\ \A b \in F : b <= z \/ a <= b
            /\ y = NULL => \A b \in F : b <= a
            /\ y # NULL => y \in F /\ a < y /\ m.prev[y] = a /\ \A b \in F : b <= a \/ y <= b
        BY <2>2, Neighbours
      <3>2. CASE a = p
        <4>1. m1.next[a] = new /\ new \in F1 /\ a < new
          BY <3>2, <1>0, <1>1, <1>2, <2>2
        <4>2. \A b \in F1 : b <= a \/ new <= b
          BY <3>2, <1>0, <1>2, <2>2
        <4>3. a # x
          BY <3>2, <1>0, <1>2, <2>2
        <4>4. m1.prev[a] = z
          BY <4>3, <2>2, <1>1
        <4>5. z = NULL => m1.head = a
          BY <3>1, <3>2, <1>0, <1>1, <2>2
        <4>6. z # NULL => z # s /\ z # p
          BY <3>1, <3>2, <1>0, <1>2, <2>2
        <4>7. z # NULL => z \in F1 /\ m1.next[z] = a
          BY <4>6, <3>1, <1>0, <1>1
        <4> QED BY <4>1, <4>2, <4>4, <4>5, <4>7, <1>0
      <3>3. CASE a # p
        <4>1. m1.next[a] = y /\ y # s
          BY <3>3, <3>1, <1>0, <1>1, <1>2, <2>2
        <4>2. y = NULL => \A b \in F1 : b <= a
          BY <3>1, <1>0, <2>2
        <4>3. y # NULL => y \in F1 /\ a < y /\ \A b \in F1 : b <= a \/ y <= b
          BY <3>1, <4>1, <1>0, <2>2
        <4>4. CASE a = x
          <5>1. m1.prev[a] = new /\ m1.next[new] = x
            BY <4>4, <1>1, <2>2
          <5> QED BY <4>1, <4>2, <4>3, <4>4, <5>1, <1>0
        <4>5. CASE a # x
          <5>1. m1.prev[a] = z
            BY <4>5, <1>1, <2>2
          <5>2. z = NULL => m1.head = a
            BY <3>1, <1>0, <1>1, <1>2, <2>2
          <5>3. z # NULL => z # s /\ z # p
            BY <3>1, <4>5, <1>0, <1>1, <1>2, <2>2
          <5>4. z # NULL => z \in F1 /\ m1.next[z] = a
            BY <5>3, <3>1, <1>0, <1>1
          <5> QED BY <4>1, <4>2, <4>3, <5>1, <5>2, <5>4
        <4> QED BY <4>4, <4>5
      <3> QED BY <3>2, <3>3
    <2> QED BY <2>1, <2>2, <1>0
  <1>5. Linked(m1, F1)
    BY <1>3, <1>4 DEF Linked
  <1> QED BY <1>5 DEF F1

LEMMA RemoveLinked ==
  ASSUME NEW m \in HeapMemory, NEW F \in SUBSET Addr, Linked(m, F), NEW s \in F,
         NEW m1,
         m.prev[s] = NULL => m1.head = m.next[s],
         m.prev[s] # NULL => m1.head = m.head,
         \A a \in F : /\ a # m.prev[s] => m1.next[a] = m.next[a]
                      /\ a = m.prev[s] => m1.next[a] = m.next[s]
                      /\ a # m.next[s] => m1.prev[a] = m.prev[a]
                      /\ a = m.next[s] => m1.prev[a] = m.prev[s]
  PROVE  Linked(m1, F \ {s})
  <1> DEFINE F1 == F \ {s}
  <1>0. /\ \A a \in F : a \in Nat /\ a # NULL
        /\ \A a : a \in F1 <=> a \in F /\ a # s
    BY Fields
  <1>1. PICK p, x : p = m.prev[s] /\ x = m.next[s]
    OBVIOUS
  <1>2. /\ p = NULL => m.head = s /\ \A b \in F : s <= b
        /\ p # NULL => p \in F /\ m.next[p] = s /\ p < s /\ \A b \in F : b <= p \/ s <= b
        /\ x = NULL => \A b \in F : b <= s
        /\ x # NULL => x \in F /\ s < x /\ m.prev[x] = s /\ \A b \in F : b <= s \/ x <= b
    BY <1>1, Neighbours
  <1>3. s \in Nat
    BY <1>0
  <1> HIDE DEF F1
  <1>4. /\ m1.head = NULL => F1 = {}
        /\ m1.head # NULL => m1.head \in F1 /\ \A a \in F1 : m1.head <= a
    <2>1. CASE p = NULL /\ x = NULL
      <3>1. \A a \in F : a = s
        BY <2>1, <1>0, <1>2
      <3> QED BY <2>1, <3>1, <1>0, <1>1
    <2>2. CASE p = NULL /\ x # NULL
      <3>1. m1.head = x /\ x \in F1
        BY <2>2, <1>0, <1>1, <1>2
      <3>2. ASSUME NEW a \in F1 PROVE x <= a
        <4>1. s <= a /\ a # s /\ a \in F
          BY <2>2, <1>0, <1>2
        <4> QED BY <4>1, <2>2, <1>0, <1>2
      <3> QED BY <2>2, <3>1, <3>2
    <2>3. CASE p # NULL
      <3>1. m.head # NULL /\ m.head \in F /\ \A b \in F : m.head <= b
        BY DEF Linked
      <3>2. m.head # s
        <4>1. p \in F /\ p < s
          BY <1>2, <2>3
        <4>2. m.head <= p
          BY <3>1, <4>1
        <4> QED BY <1>0, <3>1, <4>1, <4>2
      <3>3. m1.head = m.head
        BY <2>3, <1>1
      <3> QED BY <1>0, <3>1, <3>2, <3>3
    <2> QED BY <2>1, <2>2, <2>3
  <1>5. ASSUME NEW a \in F1
        PROVE  /\ m1.next[a] = NULL => \A b \in F1 : b <= a
               /\ m1.next[a] # NULL => /\ m1.next[a] \in F1 /\ a < m1.next[a]
                                       /\ \A b \in F1 : b <= a \/ m1.next[a] <= b
               /\ m1.prev[a] = NULL => m1.head = a
               /\ m1.prev[a] # NULL => m1.prev[a] \in F1 /\ m1.next[m1.prev[a]] = a
    <2>0. a \in F /\ a # s
      BY <1>0
    <2> PICK y, z : y = m.next[a] /\ z = m.prev[a]
      OBVIOUS
    <2>1. /\ z = NULL => m.head = a
          /\ z # NULL => z \in F /\ m.next[z] = a /\ z < a /\ \A b \in F : b <= z \/ a <= b
          /\ y = NULL => \A b \in F : b <= a
          /\ y # NULL => y \in F /\ a < y /\ m.prev[y] = a /\ \A b \in F : b <= a \/ y <= b
      BY <2>0, Neighbours
    <2>2. /\ m1.next[a] = NULL => \A b \in F1 : b <= a
          /\ m1.next[a] # NULL => /\ m1.next[a] \in F1 /\ a < m1.next[a]
                                  /\ \A b \in F1 : b <= a \/ m1.next[a] <= b
      <3>1. CASE a = p
        <4>1. m1.next[a] = x /\ a < s
          BY <3>1, <1>0, <1>1, <1>2, <2>0
        <4>2. ASSUME x = NULL, NEW b \in F1 PROVE b <= a
          <5>1. b \in F /\ b <= s /\ b # s /\ (b <= a \/ s <= b)
            BY <3>1, <4>2, <1>0, <1>2
          <5> QED BY <5>1, <1>0, <2>0
        <4>3. ASSUME x # NULL PROVE x \in F1 /\ a < x
          <5>1. x \in F /\ s < x
            BY <4>3, <1>2
          <5>2. a < x /\ x # s
            BY <5>1, <4>1, <1>0, <2>0
          <5> QED BY <5>1, <5>2, <1>0
        <4>4. ASSUME x # NULL, NEW b \in F1 PROVE b <= a \/ x <= b
          <5>1. b \in F /\ b # s /\ (b <= s \/ x <= b) /\ (b <= a \/ s <= b)
            BY <3>1, <4>4, <1>0, <1>2
          <5> QED BY <5>1, <1>0, <2>0
        <4> QED BY <4>1, <4>2, <4>3, <4>4
      <3>2. CASE a # p
        <4>1. m1.next[a] = y /\ y # s
          BY <3>2, <2>0, <2>1, <1>0, <1>1, <1>2
        <4>2. y = NULL => \A b \in F1 : b <= a
          BY <2>1, <1>0
        <4>3. y # NULL => y \in F1 /\ a < y /\ \A b \in F1 : b <= a \/ y <= b
          BY <2>1, <4>1, <1>0
        <4> QED BY <4>1, <4>2, <4>3
      <3> QED BY <3>1, <3>2
    <2>3. m1.prev[a] = NULL => m1.head = a
      <3>1. CASE a = x
        BY <3>1, <2>0, <1>1
      <3>2. CASE a # x
        <4>1. m1.prev[a] = z
          BY <3>2, <2>0, <1>1
        <4>2. z = NULL => m.head = a /\ p # NULL
          BY <2>0, <2>1, <1>2
        <4> QED BY <4>1, <4>2, <1>1
      <3> QED BY <3>1, <3>2
    <2>4. m1.prev[a] # NULL => m1.prev[a] \in F1 /\ m1.next[m1.prev[a]] = a
      <3>1. CASE a = x
        <4>1. m1.prev[a] = p
          BY <3>1, <2>0, <1>1
        <4>2. ASSUME p # NULL PROVE p \in F /\ p # s /\ m1.next[p] = x
          <5>1. p \in F /\ p < s
            BY <4>2, <1>2
          <5>2. p # s
            BY <5>1, <1>3, <1>0
          <5> QED BY <5>1, <5>2, <1>1
        <4> QED BY <3>1, <4>1, <4>2, <1>0
      <3>2. CASE a # x
        <4>1. m1.prev[a] = z
          BY <3>2, <2>0, <1>1
        <4>2. z # NULL => z \in F /\ m.next[z] = a /\ z # s /\ z # p
          BY <3>2, <2>0, <2>1, <1>0, <1>1, <1>2
        <4> QED BY <4>1, <4>2, <1>0, <1>1
      <3> QED BY <3>1, <3>2
    <2> QED BY <2>2, <2>3, <2>4
  <1>6. Linked(m1, F1)
    BY <1>4, <1>5 DEF Linked
  <1> QED BY <1>6 DEF F1

LEMMA InsertLinked ==
  ASSUME NEW m \in HeapMemory, NEW F \in SUBSET Addr, Linked(m, F),
         NEW s \in Addr, s \notin F, NEW p, NEW x,
         p = NULL => x = m.head /\ \A b \in F : s < b,
         p # NULL => p \in F /\ x = m.next[p] /\ p < s /\ \A b \in F : b <= p \/ s < b,
         NEW m1,
         p = NULL => m1.head = s,
         p # NULL => m1.head = m.head,
         m1.next[s] = x, m1.prev[s] = p,
         \A a \in F : /\ a # p => m1.next[a] = m.next[a]
                      /\ a = p => m1.next[a] = s
                      /\ a # x => m1.prev[a] = m.prev[a]
                      /\ a = x => m1.prev[a] = s
  PROVE  Linked(m1, F \union {s})
  <1> DEFINE F1 == F \union {s}
  <1>0. /\ s \in Nat /\ s # NULL /\ \A a \in F : a \in Nat /\ a # NULL
        /\ \A a : a \in F1 <=> a \in F \/ a = s
    BY Fields
  <1>1. x = NULL => \A b \in F : b < s
    <2>1. CASE p = NULL
      BY <2>1, <1>0 DEF Linked
    <2>2. CASE p # NULL
      <3>1. ASSUME x = NULL, NEW b \in F PROVE b < s
        <4>1. b <= p /\ p < s /\ p \in F
          BY <2>2, <3>1 DEF Linked
        <4> QED BY <4>1, <1>0
      <3> QED BY <3>1
    <2> QED BY <2>1, <2>2
  <1>2. ASSUME x # NULL
        PROVE  x \in F /\ s < x /\ \A b \in F : b < s \/ x <= b
    <2>1. CASE p = NULL
      BY <2>1, <1>2 DEF Linked
    <2>2. CASE p # NULL
      <3>1. x \in F /\ p < x /\ p \in F /\ p < s
        BY <2>2, <1>2 DEF Linked
      <3>2. s < x
        <4>1. x <= p \/ s < x
          BY <2>2, <3>1
        <4> QED BY <4>1, <3>1, <1>0
      <3>3. ASSUME NEW b \in F PROVE b < s \/ x <= b
        <4>1. b <= p \/ x <= b
          BY <2>2, <1>2 DEF Linked
        <4> QED BY <4>1, <3>1, <1>0
      <3> QED BY <3>1, <3>2, <3>3
    <2> QED BY <2>1, <2>2
  <1>3. m.prev[x] = p \/ x = NULL
    <2>1. CASE x # NULL /\ p = NULL
      <3> PICK v : v = m.prev[x]
        OBVIOUS
      <3>1. v # NULL => v \in F /\ v < x
        BY <2>1, <1>2, Neighbours
      <3>2. v \in F => x <= v
        BY <2>1 DEF Linked
      <3>3. x \in Nat /\ \A b \in F : b \in Nat
        BY <2>1, <1>0, <1>2
      <3>4. v = NULL
        BY <3>1, <3>2, <3>3
      <3> QED BY <2>1, <3>4
    <2>2. CASE x # NULL /\ p # NULL
      BY <2>2, Neighbours
    <2> QED BY <2>1, <2>2
  <1> HIDE DEF F1
  <1>4. m1.head # NULL /\ m1.head \in F1 /\ \A a \in F1 : m1.head <= a
    <2>1. CASE p = NULL
      <3>1. \A a \in F : s <= a
        BY <2>1, <1>0
      <3>2. ASSUME NEW a \in F1 PROVE s <= a
        <4>1. a \in F \/ a = s
          BY <1>0
        <4>2. s <= s
          BY <1>0
        <4> QED BY <4>1, <4>2, <3>1
      <3>3. s \in F1
        BY <1>0
      <3> QED BY <2>1, <3>2, <3>3, <1>0
    <2>2. CASE p # NULL
      <3>1. m.head # NULL /\ m.head \in F /\ \A b \in F : m.head <= b
        BY <2>2 DEF Linked
      <3>2. m.head <= s
        <4>1. m.head <= p /\ p < s /\ p \in F
          BY <2>2, <3>1
        <4> QED BY <4>1, <3>1, <1>0
      <3> QED BY <2>2, <3>1, <3>2, <1>0
    <2> QED BY <2>1, <2>2
  <1>5. ASSUME NEW a \in F1
        PROVE  /\ m1.next[a] = NULL => \A b \in F1 : b <= a
               /\ m1.next[a] # NULL => /\ m1.next[a] \in F1 /\ a < m1.next[a]
                                       /\ \A b \in F1 : b <= a \/ m1.next[a] <= b
               /\ m1.prev[a] = NULL => m1.head = a
               /\ m1.prev[a] # NULL => m1.prev[a] \in F1 /\ m1.next[m1.prev[a]] = a
    <2>1. CASE a = s
      <3>1. ASSUME x = NULL, NEW b \in F1 PROVE b <= s
        <4>1. b \in F \/ b = s
          BY <1>0
        <4>2. b \in F => b < s /\ b \in Nat
          BY <3>1, <1>0, <1>1
        <4> QED BY <4>1, <4>2, <1>0
      <3>2. ASSUME x # NULL
            PROVE  x \in F1 /\ s < x /\ \A b \in F1 : b <= s \/ x <= b
        <4>1. x \in F1 /\ s < x
          BY <3>2, <1>0, <1>2
        <4>2. ASSUME NEW b \in F1 PROVE b <= s \/ x <= b
          <5>1. b \in F \/ b = s
            BY <1>0
          <5>2. b \in F => (b < s \/ x <= b) /\ b \in Nat
            BY <3>2, <1>0, <1>2
          <5> QED BY <5>1, <5>2, <1>0
        <4> QED BY <4>1, <4>2
      <3>3. p # NULL => p \in F1 /\ m1.next[p] = s
        BY <1>0
      <3> QED BY <2>1, <3>1, <3>2, <3>3
    <2>2. CASE a \in F
      <3> PICK y, z : y = m.next[a] /\ z = m.prev[a]
        OBVIOUS
      <3>1. /\ z = NULL => m.head = a
            /\ z # NULL => z \in F /\ m.next[z] = a /\ z < a /\ \A b \in F : b <= z \/ a <= b
            /\ y = NULL => \A b \in F : b <= a
            /\ y # NULL => y \in F /\ a < y /\ m.prev[y] = a /\ \A b \in F : b <= a \/ y <= b
        BY <2>2, Neighbours
      <3>2. a # s
        BY <2>2
      <3>3. /\ m1.next[a] = NULL => \A b \in F1 : b <= a
            /\ m1.next[a] # NULL => /\ m1.next[a] \in F1 /\ a < m1.next[a]
                                    /\ \A b \in F1 : b <= a \/ m1.next[a] <= b
        <4>1. CASE a = p
          <5>1. m1.next[a] = s /\ s \in F1 /\ a < s
            BY <4>1, <2>2, <1>0
          <5>2. ASSUME NEW b \in F1 PROVE b <= a \/ s <= b
            BY <4>1, <2>2, <1>0
          <5> QED BY <5>1, <5>2, <1>0
        <4>2. CASE a # p
          <5>1. m1.next[a] = y
            BY <4>2, <2>2
          <5>2. ASSUME y = NULL PROVE \A b \in F1 : b <= a
            <6>1. s < a
              <7>1. CASE p = NULL
                BY <7>1, <2>2
              <7>2. CASE p # NULL
                <8>1. p \in F /\ p <= a /\ (a <= p \/ s < a)
                  BY <7>2, <5>2, <3>1, <2>2
                <8> QED BY <8>1, <4>2, <2>2, <1>0
              <7> QED BY <7>1, <7>2
            <6>2. \A b \in F : b <= a
              BY <3>1, <5>2
            <6> QED BY <6>1, <6>2, <1>0, <2>2
          <5>3. ASSUME y # NULL PROVE y \in F1 /\ a < y /\ \A b \in F1 : b <= a \/ y <= b
            <6>1. y \in F /\ a < y /\ \A b \in F : b <= a \/ y <= b
              BY <3>1, <5>3
            <6>2. s <= a \/ y <= s
              <7>1. CASE p = NULL
                BY <7>1, <2>2, <1>0
              <7>2. CASE p # NULL
                <8>1. p \in F /\ p < s /\ (a <= p \/ s < a) /\ (p <= a \/ y <= p)
                  BY <7>2, <6>1, <2>2
                <8> QED BY <8>1, <6>1, <4>2, <2>2, <1>0
              <7> QED BY <7>1, <7>2
            <6> QED BY <6>1, <6>2, <1>0
          <5> QED BY <5>1, <5>2, <5>3
        <4> QED BY <4>1, <4>2
      <3>4. /\ m1.prev[a] = NULL => m1.head = a
            /\ m1.prev[a] # NULL => m1.prev[a] \in F1 /\ m1.next[m1.prev[a]] = a
        <4>1. CASE a = x
          <5>1. m1.prev[a] = s /\ m1.next[s] = x
            BY <4>1, <2>2
          <5> QED BY <4>1, <5>1, <1>0
        <4>2. CASE a # x
          <5>1. m1.prev[a] = z
            BY <4>2, <2>2
          <5>2. z = NULL => m.head = a /\ p # NULL
            BY <4>2, <3>1
          <5>3. z # NULL => z \in F /\ m.next[z] = a /\ z # p
            BY <4>2, <3>1
          <5>4. z # NULL => z \in F1 /\ m1.next[z] = a
            BY <5>3, <1>0
          <5>5. z = NULL => m1.head = a
            BY <5>2
          <5> QED BY <5>1, <5>4, <5>5
        <4> QED BY <4>1, <4>2
      <3> QED BY <3>3, <3>4
    <2> QED BY <2>1, <2>2, <1>0
  <1>6. Linked(m1, F1)
    BY <1>4, <1>5 DEF Linked
  <1> QED BY <1>6 DEF F1

\* Where the loop of kheap_dealloc stops.
LEMMA BelowIs ==
  ASSUME NEW m \in HeapMemory, NEW F \in SUBSET Addr, Linked(m, F),
         NEW s \in Addr, s \notin F
  PROVE  /\ Below(m, s) \in F \union {NULL}
         /\ Below(m, s) = NULL => \A b \in F : s < b
         /\ Below(m, s) # NULL => /\ Below(m, s) < s
                                  /\ \A b \in F : b <= Below(m, s) \/ s < b
  <1> DEFINE C == {c \in F : s < c}
  <1>0. s \in Nat /\ \A a \in F : a \in Nat /\ a # NULL
    BY Fields
  <1>1. Free(m) = F
    BY FreeIs
  <1>2. /\ C = {} => Above(m, s) = NULL
        /\ C # {} => Above(m, s) \in C /\ \A b \in C : Above(m, s) <= b
    <2>1. C \in SUBSET F
      OBVIOUS
    <2>2. Above(m, s) = FirstOf(m, C)
      BY <1>1 DEF Above
    <2> HIDE DEF C
    <2> QED BY <2>1, <2>2, FirstIs
  <1>3. \A c : c \in C <=> c \in F /\ s < c
    OBVIOUS
  <1> HIDE DEF C
  <1> PICK c : c = Above(m, s)
    OBVIOUS
  <1>4. /\ m.head = c => Below(m, s) = NULL
        /\ m.head # c => Below(m, s) = CHOOSE q \in F : m.next[q] = c
    BY <1>1 DEF Below
  <1>5. CASE m.head = c
    <2>1. ASSUME NEW b \in F PROVE s < b
      <3>1. m.head # NULL /\ m.head <= b
        BY DEF Linked
      <3>2. c \in F /\ s < c
        BY <1>2, <1>3, <1>5, <3>1
      <3> QED BY <1>0, <1>5, <3>1, <3>2
    <2> QED BY <1>4, <1>5, <2>1
  <1>6. CASE m.head # c
    <2>1. \E q \in F : m.next[q] = c
      <3>1. CASE c = NULL
        <4>1. F # {}
          BY <1>6, <3>1 DEF Linked
        <4>2. PICK q \in F : \A b \in F : b <= q
          BY <4>1, MaxExists
        <4>3. m.next[q] # NULL => m.next[q] \in F /\ q < m.next[q]
          BY DEF Linked
        <4> PICK v : v = m.next[q]
          OBVIOUS
        <4>4. v = NULL
          <5>1. v # NULL => v \in F /\ q < v /\ v <= q
            BY <4>2, <4>3
          <5>2. q \in Nat /\ (v \in F => v \in Nat)
            BY <1>0
          <5> QED BY <5>1, <5>2
        <4> QED BY <3>1, <4>4
      <3>2. CASE c # NULL
        <4>1. c \in F
          BY <3>2, <1>2, <1>3
        <4>2. m.prev[c] # NULL
          BY <4>1, <1>6 DEF Linked
        <4> QED BY <4>1, <4>2 DEF Linked
      <3> QED BY <3>1, <3>2
    <2>2. PICK q : q = Below(m, s)
      OBVIOUS
    <2>3. q \in F /\ m.next[q] = c
      BY <1>4, <1>6, <2>1, <2>2
    <2>4. CASE c = NULL
      <3>1. \A b \in F : b <= q
        BY <2>3, <2>4 DEF Linked
      <3>2. q < s
        <4>1. ~(s < q) /\ q # s
          BY <1>2, <1>3, <1>0, <2>3, <2>4
        <4> QED BY <4>1, <1>0, <2>3
      <3> QED BY <2>2, <2>3, <3>1, <3>2, <1>0
    <2>5. CASE c # NULL
      <3>1. c \in F /\ s < c /\ \A b \in F : s < b => c <= b
        BY <1>2, <1>3, <2>5
      <3>2. q < c /\ \A b \in F : b <= q \/ c <= b
        BY <2>3, <2>5 DEF Linked
      <3>3. q < s
        <4>1. ~(s < q) /\ q # s
          BY <3>1, <3>2, <1>0, <2>3
        <4> QED BY <4>1, <1>0, <2>3
      <3>4. \A b \in F : b <= q \/ s < b
        BY <3>1, <3>2, <1>0
      <3> QED BY <2>2, <2>3, <3>3, <3>4, <1>0
    <2> QED BY <2>4, <2>5
  <1> QED BY <1>5, <1>6

-----------------------------------------------------------------------------
(* What the operations do to the shape of the heap *)

LEMMA TileFacts ==
  ASSUME NEW m \in HeapMemory, NEW S \in SUBSET Addr, Tiles(m, S), NEW a \in S
  PROVE  /\ a \in Nat /\ m.blocks[a] \in Nat /\ m.blocks[a] >= 1
         /\ a + m.blocks[a] <= HeapBlocks
         /\ a + m.blocks[a] # HeapBlocks => a + m.blocks[a] \in S
         /\ \A b \in S : a < b => a + m.blocks[a] <= b
  <1>1. a \in Nat /\ a < HeapBlocks /\ m.blocks[a] \in Nat /\ HeapBlocks \in Nat
    BY Fields, HeapAssumption
  <1>2. /\ m.blocks[a] >= 1
        /\ a + m.blocks[a] = HeapBlocks \/ a + m.blocks[a] \in S
        /\ \A b \in S : a < b => a + m.blocks[a] <= b
    BY DEF Tiles
  <1>3. a + m.blocks[a] \in S => a + m.blocks[a] < HeapBlocks
    BY Fields
  <1> QED BY <1>1, <1>2, <1>3

\* Links of segments that are not free are not part of the list.
LEMMA DetachedShape ==
  ASSUME NEW m, NEW F, NEW L, Shape(m, F, L), NEW s \in Addr, s \notin F
  PROVE  LET m1 == [m EXCEPT !.next[s] = NULL, !.prev[s] = NULL] IN
         /\ Shape(m1, F, L)
         /\ m1.blocks = m.blocks
  <1> DEFINE m1 == [m EXCEPT !.next[s] = NULL, !.prev[s] = NULL]
  <1>0. m \in HeapMemory /\ \A a \in Addr : a # NULL
    BY Fields DEF Shape
  <1>1. /\ m1 \in HeapMemory /\ m1.blocks = m.blocks /\ m1.head = m.head
        /\ \A a \in Addr : a # s => m1.next[a] = m.next[a] /\ m1.prev[a] = m.prev[a]
    BY <1>0 DEF HeapMemory
  <1> HIDE DEF m1
  <1>2. F \subseteq Addr /\ \A a \in F : a \in Addr /\ a # s
    BY DEF Shape
  <1>3. \A a \in F : /\ m1.next[a] = m.next[a] /\ m1.prev[a] = m.prev[a]
                     /\ m1.prev[a] # NULL => m.prev[a] \in F
    BY <1>1, <1>2 DEF Shape, Linked
  <1>4. Linked(m1, F)
    BY <1>1, <1>2, <1>3 DEF Shape, Linked
  <1>5. Tiles(m1, F \union L)
    BY <1>1 DEF Shape, Tiles
  <1>6. Shape(m1, F, L)
    BY <1>1, <1>4, <1>5 DEF Shape
  <1> QED BY <1>1, <1>6 DEF m1

\* m1 is m after s has got an owner and n blocks; F1 is what is free then.
Given(m1, m, F, F1, L, s, n) ==
  /\ Shape(m1, F1, L \union {s})
  /\ Coalesced(m, F) => Coalesced(m1, F1)
  /\ m1.blocks[s] = n
  /\ \A a \in L : m1.blocks[a] = m.blocks[a]

LEMMA SplitShape ==
  ASSUME NEW m, NEW F, NEW L, Shape(m, F, L), NEW s \in F,
         NEW n \in Nat \ {0}, n < m.blocks[s]
  PROVE  Given(Split(m, s, n), m, F, (F \ {s}) \union {s + n}, L, s, n)
  <1> PICK new : new = s + n
    OBVIOUS
  <1> DEFINE S == F \union L
             F1 == (F \ {s}) \union {new}
             L1 == L \union {s}
             m1 == Split(m, s, n)
             m0 == [m EXCEPT !.blocks[new] = m.blocks[s] - n, !.blocks[s] = n,
                             !.next[new] = m.next[s], !.prev[new] = m.prev[s]]
  <1>0. /\ m \in HeapMemory /\ F \in SUBSET Addr /\ L \in SUBSET Addr
        /\ S \in SUBSET Addr /\ s \in S /\ F \intersect L = {}
        /\ Linked(m, F) /\ Tiles(m, S)
    BY DEF Shape
  <1>1. /\ s \in Nat /\ m.blocks[s] \in Nat /\ m.blocks[s] >= 1
        /\ s + m.blocks[s] <= HeapBlocks
        /\ s + m.blocks[s] # HeapBlocks => s + m.blocks[s] \in S
        /\ \A b \in S : s < b => s + m.blocks[s] <= b
    BY <1>0, TileFacts
  <1>2. /\ HeapBlocks \in Nat /\ new \in Nat /\ s < new /\ new < s + m.blocks[s] /\ new < HeapBlocks
        /\ n \in Nat /\ n <= HeapBlocks /\ n >= 1
    BY <1>1, HeapAssumption
  <1>3. new \in Addr
    BY <1>2 DEF Addr
  <1>4. \A b \in S : b \in Nat /\ b < HeapBlocks /\ (b <= s \/ new < b)
    BY <1>0, <1>1, <1>2, Fields
  <1>5. new \notin S /\ new # s
    BY <1>2, <1>4
  <1> PICK p, x : p = m.prev[s] /\ x = m.next[s]
    OBVIOUS
  <1>6. m1 = SetNext(SetPrev(m0, x, new), p, new)
    BY DEF Split
  <1>7. p \in Addr \union {NULL} /\ x \in Addr \union {NULL} /\ s \in Addr
    BY <1>0, Fields
  <1>8. /\ m0 \in HeapMemory /\ m0.head = m.head
        /\ Updated(m0.next, m.next, new, x) /\ Updated(m0.prev, m.prev, new, p)
        /\ \A a \in Addr : /\ a # s /\ a # new => m0.blocks[a] = m.blocks[a]
        /\ m0.blocks[s] = n /\ m0.blocks[new] = m.blocks[s] - n
    <2>1. m.blocks[s] - n \in 0 .. HeapBlocks /\ n \in 0 .. HeapBlocks
      BY <1>1, <1>2
    <2> QED BY <1>0, <1>3, <1>5, <1>7, <2>1 DEF HeapMemory, Updated
  <1> HIDE DEF m0
  <1>9. /\ m1 \in HeapMemory
        /\ p = NULL => m1.head = new
        /\ p # NULL => m1.head = m0.head
        /\ m1.blocks = m0.blocks
        /\ Updated(m1.next, m0.next, p, new)
        /\ Updated(m1.prev, m0.prev, x, new)
    <2>1. m0 \in HeapMemory /\ new \in Addr \union {NULL}
      BY <1>3, <1>8
    <2>2. Pointed(m1, m0, x, new, p, new)
      <3>1. Pointed(SetNext(SetPrev(m0, x, new), p, new), m0, x, new, p, new)
        BY <1>7, <2>1, NeighboursFields
      <3> QED BY <3>1, <1>6
    <2> QED BY <2>2 DEF Pointed
  <1> HIDE DEF m1
  <1>10. /\ p # NULL => p \in F
         /\ x # NULL => x \in F
    BY <1>0, Neighbours
  <1>11. p # new /\ x # new
    <2>1. new \notin F /\ new # NULL
      BY <1>0, <1>3, <1>5, Fields
    <2> QED BY <1>10, <2>1
  <1>12. /\ m1.next[new] = x /\ m1.prev[new] = p
         /\ \A a \in F : /\ a # p => m1.next[a] = m.next[a]
                         /\ a = p => m1.next[a] = new
                         /\ a # x => m1.prev[a] = m.prev[a]
                         /\ a = x => m1.prev[a] = new
    <2>1. \A a \in F : a \in Addr /\ a # new
      BY <1>0, <1>5
    <2>2. m1.next[new] = m0.next[new] /\ m1.prev[new] = m0.prev[new]
      BY <1>3, <1>9, <1>11 DEF Updated
    <2>3. m0.next[new] = x /\ m0.prev[new] = p
      BY <1>3, <1>8 DEF Updated
    <2>4. \A a \in F : m0.next[a] = m.next[a] /\ m0.prev[a] = m.prev[a]
      BY <1>8, <2>1 DEF Updated
    <2>5. \A a \in F : /\ a # p => m1.next[a] = m0.next[a]
                       /\ a = p => m1.next[a] = new
                       /\ a # x => m1.prev[a] = m0.prev[a]
                       /\ a = x => m1.prev[a] = new
      BY <1>9, <2>1 DEF Updated
    <2> QED BY <2>2, <2>3, <2>4, <2>5
  <1>13. Linked(m1, F1)
    <2>1. \A b \in F : b <= s \/ new < b
      BY <1>4
    <2> HIDE DEF S
    <2> QED BY <1>0, <1>2, <1>3, <1>8, <1>9, <1>12, <2>1, ReplaceLinked
  <1>14. /\ \A a \in Addr : a # s /\ a # new => m1.blocks[a] = m.blocks[a]
         /\ m1.blocks[s] = n /\ m1.blocks[new] = m.blocks[s] - n
    BY <1>8, <1>9
  <1>15. \A b : b \in F1 \union L1 <=> b \in S \/ b = new
    OBVIOUS
  <1> DEFINE S1 == F1 \union L1
  <1>16. Tiles(m1, S1)
    <2> HIDE DEF S, F1, L1
    <2>1. 0 \in S1
      BY <1>0, <1>15 DEF Tiles
    <2>2. ASSUME NEW a \in S1
          PROVE  /\ m1.blocks[a] >= 1
                 /\ a + m1.blocks[a] = HeapBlocks \/ a + m1.blocks[a] \in S1
                 /\ \A b \in S1 : a < b => a + m1.blocks[a] <= b
      <3>1. CASE a = s
        <4>1. a + m1.blocks[a] = new
          BY <3>1, <1>14
        <4>2. ASSUME NEW b \in S1, a < b PROVE new <= b
          <5>1. b = new \/ b \in S
            BY <1>15
          <5> QED BY <5>1, <3>1, <4>2, <1>1, <1>2, <1>4
        <4> QED BY <3>1, <4>1, <4>2, <1>2, <1>14, <1>15
      <3>2. CASE a = new
        <4>1. a + m1.blocks[a] = s + m.blocks[s] /\ m1.blocks[a] >= 1
          BY <3>2, <1>1, <1>2, <1>14
        <4>2. ASSUME NEW b \in S1, a < b PROVE s + m.blocks[s] <= b
          <5>1. b # new /\ b \in S
            BY <1>15, <1>2, <3>2, <4>2
          <5>2. s < b
            BY <5>1, <3>2, <4>2, <1>1, <1>2, <1>4
          <5> QED BY <5>1, <5>2, <1>1
        <4> QED BY <4>1, <4>2, <1>1, <1>15
      <3>3. CASE a \in S /\ a # s
        <4>1. a # new /\ a \in Addr
          BY <3>3, <1>0, <1>5
        <4>2. m1.blocks[a] = m.blocks[a]
          BY <3>3, <4>1, <1>14
        <4>3. /\ a \in Nat /\ m.blocks[a] \in Nat /\ m.blocks[a] >= 1
              /\ a + m.blocks[a] <= HeapBlocks
              /\ a + m.blocks[a] # HeapBlocks => a + m.blocks[a] \in S
              /\ \A b \in S : a < b => a + m.blocks[a] <= b
          BY <3>3, <1>0, TileFacts
        <4>4. a < new => a + m.blocks[a] <= new
          <5>1. a < new => a < s
            BY <3>3, <4>1, <1>1, <1>2, <1>4
          <5>2. a < new => a + m.blocks[a] <= s
            BY <5>1, <4>3, <1>0
          <5> QED BY <5>2, <4>3, <1>1, <1>2
        <4>5. ASSUME NEW b \in S1, a < b PROVE a + m.blocks[a] <= b
          <5>1. b = new \/ b \in S
            BY <1>15
          <5> QED BY <5>1, <4>3, <4>4, <4>5
        <4> QED BY <4>2, <4>3, <4>5, <1>15
      <3> QED BY <3>1, <3>2, <3>3, <1>15
    <2> QED BY <2>1, <2>2 DEF Tiles
  <1>17. Shape(m1, F1, L1)
    BY <1>0, <1>3, <1>5, <1>9, <1>13, <1>16 DEF Shape
  <1>18. ASSUME Coalesced(m, F), NEW a \in F1 PROVE a + m1.blocks[a] \notin F1
    <2>1. CASE a = new
      <3>1. a + m1.blocks[a] = s + m.blocks[s]
        BY <2>1, <1>1, <1>2, <1>14
      <3>2. s + m.blocks[s] \notin F /\ s + m.blocks[s] # new
        BY <1>18, <1>2 DEF Coalesced
      <3> QED BY <3>1, <3>2
    <2>2. CASE a \in F /\ a # s
      <3>1. m1.blocks[a] = m.blocks[a]
        BY <2>2, <1>0, <1>5, <1>14
      <3>2. a + m.blocks[a] \notin F
        BY <1>18, <2>2 DEF Coalesced
      <3>3. a + m.blocks[a] # new
        <4>1. a \in S /\ new \notin S
          BY <2>2, <1>5
        <4>2. /\ a + m.blocks[a] <= HeapBlocks
              /\ a + m.blocks[a] # HeapBlocks => a + m.blocks[a] \in S
          BY <4>1, <1>0, TileFacts
        <4> QED BY <4>1, <4>2, <1>2
      <3> QED BY <3>1, <3>2, <3>3
    <2> QED BY <2>1, <2>2
  <1>19. Coalesced(m, F) => Coalesced(m1, F1)
    BY <1>18 DEF Coalesced
  <1>20. \A a \in L : m1.blocks[a] = m.blocks[a]
    BY <1>0, <1>5, <1>14
  <1> QED BY <1>14, <1>17, <1>19, <1>20 DEF m1, Given

\* A free segment that is just large enough gets an owner.
LEMMA UnlinkShape ==
  ASSUME NEW m, NEW F, NEW L, Shape(m, F, L), NEW s \in F
  PROVE  LET m1 == Unlink(m, s) IN
         /\ Shape(m1, F \ {s}, L \union {s})
         /\ Coalesced(m, F) => Coalesced(m1, F \ {s})
         /\ m1.blocks = m.blocks
  <1> DEFINE F1 == F \ {s}
             L1 == L \union {s}
             m1 == Unlink(m, s)
  <1>0. /\ m \in HeapMemory /\ F \in SUBSET Addr /\ L \in SUBSET Addr
        /\ s \in Addr /\ F \intersect L = {}
        /\ Linked(m, F) /\ Tiles(m, F \union L)
    BY DEF Shape
  <1> PICK p, x : p = m.prev[s] /\ x = m.next[s]
    OBVIOUS
  <1>1. p \in Addr \union {NULL} /\ x \in Addr \union {NULL}
    BY <1>0, Fields
  <1>2. Pointed(m1, m, x, p, p, x)
    <2>1. Pointed(SetNext(SetPrev(m, x, p), p, x), m, x, p, p, x)
      BY <1>0, <1>1, NeighboursFields
    <2> QED BY <2>1 DEF Unlink
  <1> HIDE DEF m1
  <1>3. /\ m1 \in HeapMemory /\ m1.blocks = m.blocks
        /\ p = NULL => m1.head = x
        /\ p # NULL => m1.head = m.head
    BY <1>2 DEF Pointed
  <1>4. \A a \in F : /\ a # p => m1.next[a] = m.next[a]
                     /\ a = p => m1.next[a] = x
                     /\ a # x => m1.prev[a] = m.prev[a]
                     /\ a = x => m1.prev[a] = p
    <2>1. \A a \in F : a \in Addr
      BY <1>0
    <2> QED BY <1>2, <2>1 DEF Pointed, Updated
  <1>5. Linked(m1, F1)
    BY <1>0, <1>3, <1>4, RemoveLinked
  <1>6. F1 \union L1 = F \union L
    OBVIOUS
  <1>7. Tiles(m1, F1 \union L1)
    BY <1>0, <1>3, <1>6 DEF Tiles
  <1>8. Shape(m1, F1, L1)
    BY <1>0, <1>3, <1>5, <1>7 DEF Shape
  <1>9. Coalesced(m, F) => Coalesced(m1, F1)
    BY <1>3 DEF Coalesced
  <1> QED BY <1>3, <1>8, <1>9 DEF m1

\* An owned segment becomes free; it may touch free neighbours.
LEMMA InsertShape ==
  ASSUME NEW m, NEW F, NEW L, Shape(m, F, L), NEW s \in L
  PROVE  LET m1 == Insert(m, s) IN
         /\ Shape(m1, F \union {s}, L \ {s})
         /\ m1.blocks = m.blocks
  <1> DEFINE F1 == F \union {s}
             L1 == L \ {s}
             m1 == Insert(m, s)
  <1>0. /\ m \in HeapMemory /\ F \in SUBSET Addr /\ L \in SUBSET Addr
        /\ s \in Addr /\ s \notin F /\ F \intersect L = {}
        /\ Linked(m, F) /\ Tiles(m, F \union L)
    BY DEF Shape
  <1> PICK p : p = Below(m, s)
    OBVIOUS
  <1>a. PICK x : x = IF p = NULL THEN m.head ELSE m.next[p]
    OBVIOUS
  <1>1. /\ p \in F \union {NULL}
        /\ p = NULL => x = m.head /\ \A b \in F : s < b
        /\ p # NULL => x = m.next[p] /\ p < s /\ \A b \in F : b <= p \/ s < b
    BY <1>0, <1>a, BelowIs
  <1>2. p \in Addr \union {NULL} /\ x \in Addr \union {NULL}
    BY <1>0, <1>1, Fields
  <1>3. x # s /\ p # s
    <2>1. x # NULL => x \in F
      BY <1>1, <1>0 DEF Linked
    <2> QED BY <1>0, <1>1, <2>1, Fields
  <1> DEFINE m0 == [m EXCEPT !.prev[s] = p, !.next[s] = x]
  <1>4. /\ m0 \in HeapMemory /\ m0.head = m.head /\ m0.blocks = m.blocks
        /\ Updated(m0.next, m.next, s, x) /\ Updated(m0.prev, m.prev, s, p)
    BY <1>0, <1>2 DEF HeapMemory, Updated
  <1>5. m1 = SetPrev(SetNext(m0, p, s), x, s)
    BY <1>a DEF Insert
  <1> HIDE DEF m0
  <1>6. Pointed(m1, m0, x, s, p, s)
    <2>1. Pointed(SetPrev(SetNext(m0, p, s), x, s), m0, x, s, p, s)
      BY <1>0, <1>2, <1>4, NeighboursFields
    <2> QED BY <2>1, <1>5
  <1> HIDE DEF m1
  <1>7. /\ m1 \in HeapMemory /\ m1.blocks = m.blocks
        /\ p = NULL => m1.head = s
        /\ p # NULL => m1.head = m.head
    BY <1>4, <1>6 DEF Pointed
  <1>8. m1.next[s] = x /\ m1.prev[s] = p
    BY <1>0, <1>3, <1>4, <1>6 DEF Pointed, Updated
  <1>9. \A a \in F : /\ a # p => m1.next[a] = m.next[a]
                     /\ a = p => m1.next[a] = s
                     /\ a # x => m1.prev[a] = m.prev[a]
                     /\ a = x => m1.prev[a] = s
    <2>1. \A a \in F : a \in Addr /\ a # s
      BY <1>0
    <2>2. \A a \in F : m0.next[a] = m.next[a] /\ m0.prev[a] = m.prev[a]
      BY <1>4, <2>1 DEF Updated
    <2> QED BY <1>6, <2>1, <2>2 DEF Pointed, Updated
  <1>10. Linked(m1, F1)
    <2>1. p # NULL => p \in F /\ x = m.next[p] /\ p < s /\ \A b \in F : b <= p \/ s < b
      BY <1>1
    <2>2. p = NULL => x = m.head /\ \A b \in F : s < b
      BY <1>1
    <2>3. m \in HeapMemory /\ F \in SUBSET Addr /\ Linked(m, F) /\ s \in Addr /\ s \notin F
      BY <1>0
    <2>4. (p = NULL => m1.head = s) /\ (p # NULL => m1.head = m.head)
      BY <1>7
    <2> QED BY <1>8, <1>9, <2>1, <2>2, <2>3, <2>4, InsertLinked
  <1>11. F1 \union L1 = F \union L
    OBVIOUS
  <1>12. Tiles(m1, F1 \union L1)
    BY <1>0, <1>7, <1>11 DEF Tiles
  <1>13. Shape(m1, F1, L1)
    BY <1>0, <1>7, <1>10, <1>12 DEF Shape
  <1> QED BY <1>7, <1>13 DEF m1

\* A free segment takes in the free one that follows it, if they touch.
LEMMA JoinShape ==
  ASSUME NEW m, NEW F, NEW L, Shape(m, F, L), NEW s \in F
  PROVE  LET m1 == try_join_next_segment(m, s)
             n == s + m.blocks[s]
         IN  \/ n \notin F /\ m1 = m
             \/ /\ n \in F /\ Shape(m1, F \ {n}, L)
                /\ m1.blocks[s] = m.blocks[s] + m.blocks[n]
                /\ \A a \in Addr : a # s => m1.blocks[a] = m.blocks[a]
  <1> DEFINE S == F \union L
             m1 == try_join_next_segment(m, s)
  <1> PICK n : n = s + m.blocks[s]
    OBVIOUS
  <1>0. /\ m \in HeapMemory /\ F \in SUBSET Addr /\ L \in SUBSET Addr
        /\ S \in SUBSET Addr /\ s \in S /\ s \in Addr /\ F \intersect L = {}
        /\ Linked(m, F) /\ Tiles(m, S)
    BY DEF Shape
  <1>1. /\ s \in Nat /\ m.blocks[s] \in Nat /\ m.blocks[s] >= 1
        /\ n # HeapBlocks => n \in S
        /\ \A b \in S : s < b => n <= b
    BY <1>0, TileFacts
  <1>2. /\ \A a \in F : a \in Nat /\ a # NULL
        /\ n \in Nat /\ s < n
    BY <1>0, <1>1, Fields
  <1> PICK x : x = m.next[s]
    OBVIOUS
  <1>3. /\ x = NULL => \A b \in F : b <= s
        /\ x # NULL => /\ x \in F /\ s < x /\ m.prev[x] = s
                       /\ \A b \in F : b <= s \/ x <= b
    BY <1>0, Neighbours
  <1>4. n \in F <=> x = n
    <2>1. ASSUME n \in F PROVE x = n
      <3>1. x # NULL
        BY <1>1, <1>2, <1>3, <2>1
      <3>2. x \in F /\ s < x /\ x <= n /\ x \in S
        BY <1>1, <1>2, <1>3, <2>1, <3>1
      <3>3. n <= x
        BY <1>1, <3>2
      <3> QED BY <1>2, <3>2, <3>3
    <2>2. ASSUME x = n PROVE n \in F
      BY <2>2, <1>2, <1>3, HeapAssumption
    <2> QED BY <2>1, <2>2
  <1>5. CASE n \notin F
    <2>1. m1 = m
      BY <1>4, <1>5 DEF try_join_next_segment
    <2> QED BY <1>5, <2>1
  <1>6. CASE n \in F
    <2> PICK y : y = m.next[n]
      OBVIOUS
    <2> PICK b : b = m.blocks[s] + m.blocks[n]
      OBVIOUS
    <2> DEFINE m0 == [m EXCEPT !.blocks[s] = b, !.next[s] = y]
    <2>1. m1 = SetPrev(m0, y, s)
      BY <1>2, <1>4, <1>6 DEF try_join_next_segment
    <2>2. /\ n \in Addr /\ n # s /\ y \in Addr \union {NULL}
          /\ m.prev[n] = s /\ m.next[s] = n /\ y # s
      <3>1. n \in Addr /\ n # s /\ y \in Addr \union {NULL}
        BY <1>0, <1>2, <1>6, Fields
      <3>2. y # NULL => n < y /\ y \in F
        BY <1>0, <1>6, Neighbours
      <3>3. y # s
        BY <1>1, <1>2, <3>2
      <3> QED BY <1>3, <1>4, <1>6, <1>2, <3>1, <3>3
    <2>3. /\ n \in S /\ m.blocks[n] \in Nat /\ m.blocks[n] >= 1
          /\ n + m.blocks[n] <= HeapBlocks
          /\ n + m.blocks[n] # HeapBlocks => n + m.blocks[n] \in S
          /\ \A c \in S : n < c => n + m.blocks[n] <= c
      <3>1. n \in S
        BY <1>6
      <3> HIDE DEF S
      <3> QED BY <1>0, <3>1, TileFacts
    <2>4. /\ b \in 0 .. HeapBlocks /\ b >= 1 /\ s + b = n + m.blocks[n]
      BY <1>1, <2>3, HeapAssumption
    <2>5. /\ m0 \in HeapMemory /\ m0.head = m.head /\ m0.prev = m.prev
          /\ Updated(m0.next, m.next, s, y)
          /\ m0.blocks[s] = b
          /\ \A a \in Addr : a # s => m0.blocks[a] = m.blocks[a]
      BY <1>0, <2>2, <2>4 DEF HeapMemory, Updated
    <2> HIDE DEF m0
    <2>6. /\ m1 \in HeapMemory /\ m1.head = m0.head /\ m1.next = m0.next
          /\ m1.blocks = m0.blocks /\ Updated(m1.prev, m0.prev, y, s)
      <3> DEFINE m2 == SetPrev(m0, y, s)
      <3>1. /\ m2 \in HeapMemory /\ m2.head = m0.head /\ m2.next = m0.next
            /\ m2.blocks = m0.blocks /\ Updated(m2.prev, m0.prev, y, s)
        <4>1. m0 \in HeapMemory /\ y \in Addr \union {NULL} /\ s \in Addr \union {NULL}
          BY <1>0, <2>2, <2>5
        <4> QED BY <4>1, SetPrevFields
      <3> QED BY <2>1, <3>1
    <2> HIDE DEF m1
    <2>7. \A a \in F : /\ a # s => m1.next[a] = m.next[a]
                       /\ a = s => m1.next[a] = y
                       /\ a # y => m1.prev[a] = m.prev[a]
                       /\ a = y => m1.prev[a] = s
      <3>1. \A a \in F : a \in Addr
        BY <1>0
      <3> QED BY <2>5, <2>6, <3>1 DEF Updated
    <2>8. Linked(m1, F \ {n})
      <3>1. s # NULL /\ m1.head = m.head
        BY <1>2, <2>5, <2>6
      <3> QED BY <1>0, <1>6, <2>2, <2>7, <3>1, RemoveLinked
    <2>9. /\ m1.blocks[s] = b
          /\ \A a \in Addr : a # s => m1.blocks[a] = m.blocks[a]
      BY <2>5, <2>6
    <2> DEFINE S1 == (F \ {n}) \union L
    <2>10. \A c : c \in S1 <=> c \in S /\ c # n
      BY <1>0, <1>6
    <2>11. Tiles(m1, S1)
      <3> HIDE DEF S, S1
      <3>1. 0 \in S1
        BY <1>0, <1>1, <1>2, <2>10 DEF Tiles
      <3>2. ASSUME NEW a \in S1
            PROVE  /\ m1.blocks[a] >= 1
                   /\ a + m1.blocks[a] = HeapBlocks \/ a + m1.blocks[a] \in S1
                   /\ \A c \in S1 : a < c => a + m1.blocks[a] <= c
        <4>1. CASE a = s
          <5>1. a + m1.blocks[a] = n + m.blocks[n] /\ m1.blocks[a] >= 1
            BY <4>1, <2>4, <2>9
          <5>2. ASSUME NEW c \in S1, a < c PROVE n + m.blocks[n] <= c
            <6>1. c \in S /\ c # n /\ c \in Nat
              BY <2>10, <1>0, Fields
            <6>2. n < c
              BY <6>1, <4>1, <5>2, <1>1, <1>2
            <6> QED BY <6>1, <6>2, <2>3
          <5>3. n + m.blocks[n] # n
            BY <1>2, <2>3
          <5> QED BY <5>1, <5>2, <5>3, <2>3, <2>10
        <4>2. CASE a # s
          <5>1. a \in S /\ a # n /\ m1.blocks[a] = m.blocks[a]
            BY <4>2, <1>0, <2>9, <2>10
          <5>2. /\ a \in Nat /\ m.blocks[a] \in Nat /\ m.blocks[a] >= 1
                /\ a + m.blocks[a] # HeapBlocks => a + m.blocks[a] \in S
                /\ \A c \in S : a < c => a + m.blocks[a] <= c
            BY <5>1, <1>0, TileFacts
          <5>3. a + m.blocks[a] # n
            <6>1. a < s => a + m.blocks[a] <= s
              BY <5>2, <1>0
            <6>2. s < a => n <= a
              BY <5>1, <1>1
            <6> QED BY <6>1, <6>2, <4>2, <5>2, <1>1, <1>2
          <5>4. /\ a + m.blocks[a] = HeapBlocks \/ a + m.blocks[a] \in S1
                /\ \A c \in S1 : a < c => a + m.blocks[a] <= c
            BY <5>2, <5>3, <2>10
          <5> QED BY <5>1, <5>2, <5>4
        <4> QED BY <4>1, <4>2
      <3> QED BY <3>1, <3>2 DEF Tiles
    <2>12. Shape(m1, F \ {n}, L)
      BY <1>0, <2>6, <2>8, <2>11 DEF Shape
    <2> QED BY <1>6, <2>9, <2>12 DEF m1
  <1> QED BY <1>5, <1>6

-----------------------------------------------------------------------------
(* kheap_alloc and kheap_dealloc *)

\* The loop of kheap_alloc finds the lowest segment that is large enough.
LEMMA ValidSegment ==
  ASSUME NEW m, NEW F, NEW L, Shape(m, F, L), NEW n \in Nat
  PROVE  LET s == valid_segment(m, n) IN
         /\ s = NULL => \A a \in F : m.blocks[a] < n
         /\ s # NULL => /\ s \in F /\ m.blocks[s] >= n
                        /\ \A a \in F : m.blocks[a] >= n => s <= a
  <1> DEFINE S == {a \in F : m.blocks[a] >= n}
  <1>0. m \in HeapMemory /\ F \in SUBSET Addr /\ Linked(m, F)
    BY DEF Shape
  <1>1. \A a \in F : m.blocks[a] \in Nat /\ a # NULL
    BY <1>0, Fields
  <1>2. valid_segment(m, n) = FirstOf(m, S)
    BY <1>0, FreeIs DEF valid_segment
  <1>3. \A a : a \in S <=> a \in F /\ m.blocks[a] >= n
    OBVIOUS
  <1>4. S \in SUBSET F
    OBVIOUS
  <1> HIDE DEF S
  <1>5. /\ S = {} => FirstOf(m, S) = NULL
        /\ S # {} => FirstOf(m, S) \in S /\ \A a \in S : FirstOf(m, S) <= a
    BY <1>0, <1>4, FirstIs
  <1>6. CASE S = {}
    <2>1. \A a \in F : m.blocks[a] < n
      BY <1>1, <1>3, <1>6
    <2> QED BY <1>2, <1>5, <1>6, <2>1
  <1>7. CASE S # {}
    <2>1. FirstOf(m, S) \in S /\ FirstOf(m, S) # NULL
      BY <1>1, <1>3, <1>5, <1>7
    <2> QED BY <1>2, <1>3, <1>5, <1>7, <2>1
  <1> QED BY <1>6, <1>7

LEMMA AllocSound ==
  ASSUME NEW m, NEW F, NEW L, Sound(m, F, L),
         NEW bytes \in Nat, bytes + HeaderSize < SizeMod
  PROVE  LET m1 == kheap_alloc(m, bytes)
             s == Pointer(m, bytes)
         IN  /\ s = NULL => m1 = m
             /\ s # NULL => /\ s \in F
                            /\ \E G : Sound(m1, G, L \union {s})
                            /\ m1.blocks[s] = calculate_blocks(bytes)
                            /\ \A a \in L : m1.blocks[a] = m.blocks[a]
  <1> DEFINE m1 == kheap_alloc(m, bytes)
  <1>b. PICK n : n = calculate_blocks(bytes)
    OBVIOUS
  <1>a. PICK s : s = Pointer(m, bytes)
    OBVIOUS
  <1>0. n \in Nat \ {0}
    BY <1>b, CalculateBlocks
  <1>1. s = valid_segment(m, n)
    BY <1>a, <1>b DEF Pointer
  <1>2. CASE s = NULL
    <2>1. m1 = m
      BY <1>1, <1>2, <1>b DEF kheap_alloc
    <2> QED BY <1>a, <1>2, <2>1
  <1>3. CASE s # NULL
    <2>0. Shape(m, F, L) /\ Coalesced(m, F)
      BY DEF Sound
    <2>1. s \in F /\ m.blocks[s] >= n
      BY <1>0, <1>1, <1>3, <2>0, ValidSegment
    <2>2. s \in Addr /\ m.blocks[s] \in Nat /\ s \notin L
      <3>1. s \in Addr /\ m \in HeapMemory /\ s \notin L
        BY <2>0, <2>1 DEF Shape
      <3> QED BY <3>1, Fields
    <2> DEFINE m2 == IF m.blocks[s] > n THEN Split(m, s, n) ELSE Unlink(m, s)
    <2>3. m1 = [m2 EXCEPT !.next[s] = NULL, !.prev[s] = NULL]
      BY <1>1, <1>3, <1>b DEF kheap_alloc
    <2>4. PICK G : /\ Shape(m2, G, L \union {s}) /\ Coalesced(m2, G) /\ s \notin G
                   /\ m2.blocks[s] = n
                   /\ \A a \in L : m2.blocks[a] = m.blocks[a]
      <3>1. CASE m.blocks[s] > n
        <4> DEFINE G == (F \ {s}) \union {s + n}
        <4>1. m2 = Split(m, s, n)
          BY <3>1
        <4>2. n < m.blocks[s]
          BY <3>1, <2>2, <1>0
        <4>3. /\ Shape(m2, G, L \union {s}) /\ Coalesced(m2, G)
              /\ m2.blocks[s] = n
              /\ \A a \in L : m2.blocks[a] = m.blocks[a]
          <5> DEFINE m4 == Split(m, s, n)
          <5>1. /\ Shape(m4, G, L \union {s}) /\ (Coalesced(m, F) => Coalesced(m4, G))
                /\ m4.blocks[s] = n
                /\ \A a \in L : m4.blocks[a] = m.blocks[a]
            <6>1. Given(m4, m, F, G, L, s, n)
              BY <4>2, <2>0, <2>1, <1>0, SplitShape
            <6> QED BY <6>1 DEF Given
          <5>2. m2 = m4
            BY <4>1
          <5> HIDE DEF m2, m4, G
          <5> QED BY <5>1, <5>2, <2>0
        <4>4. s \notin G
          BY <4>3 DEF Shape
        <4> QED BY <4>3, <4>4
      <3>2. CASE ~(m.blocks[s] > n)
        <4> DEFINE G == F \ {s}
        <4>1. m2 = Unlink(m, s)
          BY <3>2
        <4>2. m.blocks[s] = n
          BY <3>2, <2>1, <2>2, <1>0
        <4>3. Shape(m2, G, L \union {s}) /\ Coalesced(m2, G) /\ m2.blocks = m.blocks
          BY <4>1, <2>0, <2>1, UnlinkShape
        <4> QED BY <4>2, <4>3
      <3> QED BY <3>1, <3>2
    <2> HIDE DEF m2
    <2> DEFINE m3 == [m2 EXCEPT !.next[s] = NULL, !.prev[s] = NULL]
    <2>5. Shape(m3, G, L \union {s}) /\ m3.blocks = m2.blocks
      BY <2>2, <2>4, DetachedShape
    <2>6. m1 = m3
      BY <2>3
    <2> HIDE DEF m1, m3
    <2>7. Sound(m1, G, L \union {s})
      BY <2>4, <2>5, <2>6 DEF Sound, Coalesced
    <2> QED BY <1>a, <1>b, <1>3, <2>1, <2>4, <2>5, <2>6, <2>7 DEF m1
  <1> QED BY <1>2, <1>3

LEMMA DeallocSound ==
  ASSUME NEW m, NEW F, NEW L, Sound(m, F, L), NEW s \in L
  PROVE  LET m1 == kheap_dealloc(m, s) IN
         /\ \E G : Sound(m1, G, L \ {s})
         /\ \A a \in L \ {s} : m1.blocks[a] = m.blocks[a]
  <1> DEFINE F0 == F \union {s}
             L1 == L \ {s}
             m0 == Insert(m, s)
             m1 == try_join_next_segment(m0, s)
             m2 == kheap_dealloc(m, s)
  <1>0. /\ Shape(m, F, L) /\ Coalesced(m, F)
        /\ m \in HeapMemory /\ F \in SUBSET Addr /\ L \in SUBSET Addr /\ s \notin F
        /\ s \in F \union L /\ F \union L \in SUBSET Addr /\ Tiles(m, F \union L)
        /\ s \in F0
    BY DEF Sound, Shape
  <1>1. Shape(m0, F0, L1) /\ m0.blocks = m.blocks
    BY <1>0, InsertShape
  <1> PICK n : n = s + m.blocks[s]
    OBVIOUS
  <1>2. s \in Nat /\ m.blocks[s] \in Nat /\ n \in Nat /\ s < n
    BY <1>0, TileFacts
  <1> HIDE DEF m0
  <1>3. \/ n \notin F0 /\ m1 = m0
        \/ /\ n \in F0 /\ Shape(m1, F0 \ {n}, L1)
           /\ m1.blocks[s] = m.blocks[s] + m.blocks[n]
           /\ \A a \in Addr : a # s => m1.blocks[a] = m.blocks[a]
    <2> DEFINE k == s + m0.blocks[s]
    <2>1. \/ k \notin F0 /\ m1 = m0
          \/ /\ k \in F0 /\ Shape(m1, F0 \ {k}, L1)
             /\ m1.blocks[s] = m0.blocks[s] + m0.blocks[k]
             /\ \A a \in Addr : a # s => m1.blocks[a] = m0.blocks[a]
      BY <1>0, <1>1, JoinShape
    <2>2. k = n
      BY <1>1
    <2> HIDE DEF k, m1
    <2> QED BY <1>1, <2>1, <2>2
  <1> HIDE DEF m1
  <1>4. PICK F1 : /\ Shape(m1, F1, L1) /\ s \in F1 /\ F1 \subseteq F0
                  /\ \A a \in Addr : a # s => m1.blocks[a] = m.blocks[a]
                  /\ s + m1.blocks[s] \notin F1
    <2>1. CASE n \notin F0 /\ m1 = m0
      <3>1. Shape(m1, F0, L1) /\ m1.blocks = m.blocks /\ s + m1.blocks[s] \notin F0
        BY <2>1, <1>1
      <3> QED BY <3>1, <1>0
    <2>2. CASE /\ n \in F0 /\ Shape(m1, F0 \ {n}, L1)
               /\ m1.blocks[s] = m.blocks[s] + m.blocks[n]
               /\ \A a \in Addr : a # s => m1.blocks[a] = m.blocks[a]
      <3>1. n \in F /\ n # s
        BY <2>2, <1>2
      <3>2. n + m.blocks[n] \notin F /\ n \in F \union L
        BY <3>1, <1>0 DEF Coalesced
      <3>3. m.blocks[n] \in Nat
        BY <3>2, <1>0, TileFacts
      <3>4. s + m1.blocks[s] = n + m.blocks[n] /\ n + m.blocks[n] # s
        BY <2>2, <3>3, <1>2
      <3>5. s + m1.blocks[s] \notin F0 \ {n}
        BY <3>2, <3>4
      <3>6. s \in F0 \ {n} /\ F0 \ {n} \subseteq F0
        BY <3>1, <1>0
      <3> QED BY <2>2, <3>5, <3>6
    <2> QED BY <1>3, <2>1, <2>2
  <1>5. /\ m1 \in HeapMemory /\ F1 \in SUBSET Addr /\ Linked(m1, F1) /\ F1 \union L1 \in SUBSET Addr
        /\ Tiles(m1, F1 \union L1) /\ L1 \subseteq Addr /\ s \notin L1
    BY <1>4 DEF Shape
  <1>6. ASSUME NEW a \in F1, a + m1.blocks[a] \in F1
        PROVE  a # s /\ a + m1.blocks[a] = s
    <2>1. a # s
      BY <1>4, <1>6
    <2>2. a \in F /\ m1.blocks[a] = m.blocks[a]
      BY <2>1, <1>4, <1>5
    <2>3. a + m.blocks[a] \notin F
      BY <2>2, <1>0 DEF Coalesced
    <2> QED BY <2>1, <2>2, <2>3, <1>4, <1>6
  <1>7. ASSUME NEW a \in F1
        PROVE  /\ a \in Nat /\ m1.blocks[a] \in Nat /\ m1.blocks[a] >= 1
               /\ \A b \in F1 : a < b => a + m1.blocks[a] <= b
    <2>1. a \in F1 \union L1
      OBVIOUS
    <2>2. /\ a \in Nat /\ m1.blocks[a] \in Nat /\ m1.blocks[a] >= 1
          /\ \A b \in F1 \union L1 : a < b => a + m1.blocks[a] <= b
      BY <2>1, <1>5, TileFacts
    <2> QED BY <2>2
  <1>8. \A a \in L1 : m1.blocks[a] = m.blocks[a]
    BY <1>4, <1>5
  <1> PICK p : p = m1.prev[s]
    OBVIOUS
  <1>9. m2 = IF p = NULL THEN m1 ELSE try_join_next_segment(m1, p)
    BY DEF kheap_dealloc, m1, m0
  <1> HIDE DEF m2, L1, F0
  <1>10. CASE p = NULL
    <2>1. \A b \in F1 : s <= b
      BY <1>4, <1>5, <1>10, Neighbours, ZenonT(60)
    <2>2. ASSUME NEW a \in F1 PROVE a + m1.blocks[a] \notin F1
      <3> SUFFICES ASSUME a + m1.blocks[a] \in F1 PROVE FALSE
        OBVIOUS
      <3>1. a + m1.blocks[a] = s
        BY <1>6
      <3>2. s <= a
        BY <2>1
      <3>3. a \in Nat /\ m1.blocks[a] \in Nat /\ m1.blocks[a] >= 1
        BY <1>7
      <3> QED BY <3>1, <3>2, <3>3
    <2>3. Sound(m1, F1, L1)
      BY <1>4, <2>2 DEF Sound, Coalesced
    <2>4. m2 = m1
      BY <1>9, <1>10
    <2>5. (\E G : Sound(m2, G, L1)) /\ \A a \in L1 : m2.blocks[a] = m.blocks[a]
      BY <1>8, <2>3, <2>4
    <2> QED BY <2>5 DEF m2, L1
  <1>11. CASE p # NULL
    <2>1. p \in F1 /\ p < s /\ \A b \in F1 : b <= p \/ s <= b
      BY <1>4, <1>5, <1>11, Neighbours
    <2> PICK k : k = p + m1.blocks[p]
      OBVIOUS
    <2>2. \/ k \notin F1 /\ m2 = m1
          \/ /\ k \in F1 /\ Shape(m2, F1 \ {k}, L1)
             /\ m2.blocks[p] = m1.blocks[p] + m1.blocks[k]
             /\ \A a \in Addr : a # p => m2.blocks[a] = m1.blocks[a]
      <3>1. m2 = try_join_next_segment(m1, p)
        BY <1>9, <1>11
      <3> QED BY <3>1, <1>4, <2>1, JoinShape
    <2>3. CASE k \notin F1 /\ m2 = m1
      <3>1. ASSUME NEW a \in F1 PROVE a + m1.blocks[a] \notin F1
        <4> SUFFICES ASSUME a + m1.blocks[a] \in F1 PROVE FALSE
          OBVIOUS
        <4>1. a + m1.blocks[a] = s
          BY <1>6
        <4>2. a \in Nat /\ m1.blocks[a] \in Nat /\ m1.blocks[a] >= 1
          BY <1>7
        <4>3. a # p
          BY <2>3
        <4>4. a <= p \/ s <= a
          BY <2>1
        <4>5. p \in Nat /\ (a < p => a + m1.blocks[a] <= p)
          BY <1>7, <2>1
        <4> QED BY <1>2, <2>1, <4>1, <4>2, <4>3, <4>4, <4>5
      <3>2. Sound(m2, F1, L1)
        BY <1>4, <2>3, <3>1 DEF Sound, Coalesced
      <3>3. (\E G : Sound(m2, G, L1)) /\ \A a \in L1 : m2.blocks[a] = m.blocks[a]
        BY <1>8, <2>3, <3>2
      <3> QED BY <3>3 DEF m2, L1
    <2>4. CASE /\ k \in F1 /\ Shape(m2, F1 \ {k}, L1)
               /\ m2.blocks[p] = m1.blocks[p] + m1.blocks[k]
               /\ \A a \in Addr : a # p => m2.blocks[a] = m1.blocks[a]
      <3>1. k = s
        BY <1>6, <2>1, <2>4
      <3>2. p + m2.blocks[p] = s + m1.blocks[s]
        BY <1>7, <1>4, <2>1, <2>4, <3>1
      <3>3. ASSUME NEW a \in F1 \ {s} PROVE a + m2.blocks[a] \notin F1 \ {s}
        <4>1. CASE a = p
          BY <4>1, <3>2, <1>4
        <4>2. CASE a # p
          <5>1. m2.blocks[a] = m1.blocks[a]
            BY <4>2, <2>4, <1>5
          <5> QED BY <5>1, <1>6
        <4> QED BY <4>1, <4>2
      <3>4. Sound(m2, F1 \ {s}, L1)
        BY <2>4, <3>1, <3>3 DEF Sound, Coalesced
      <3>5. ASSUME NEW a \in L1 PROVE m2.blocks[a] = m.blocks[a]
        <4>1. a \in Addr /\ a # p
          BY <1>5, <1>4, <2>1 DEF Shape
        <4> QED BY <4>1, <1>8, <2>4
      <3>6. (\E G : Sound(m2, G, L1)) /\ \A a \in L1 : m2.blocks[a] = m.blocks[a]
        BY <3>4, <3>5
      <3> QED BY <3>6 DEF m2, L1
    <2> QED BY <2>2, <2>3, <2>4
  <1> QED BY <1>10, <1>11

-----------------------------------------------------------------------------
(* The heap and the sizes its owners asked for *)

Owners(a) == {x \in Addr : a[x] # NULL}

InOrder(m, a) ==
  /\ a \in [Addr -> Sizes \union {NULL}]
  /\ \E F : Sound(m, F, Owners(a))
  /\ \A x \in Addr : a[x] # NULL => a[x] + HeaderSize <= m.blocks[x] * KMEM_BLOCK_SIZE

\* Owners that stay keep their segments.
Kept(m, a, m1, a1) ==
  \A x \in Addr : a[x] # NULL /\ a1[x] # NULL => m1.blocks[x] = m.blocks[x]

LEMMA SizeFacts ==
  /\ \A bytes \in Sizes : /\ bytes \in Nat /\ bytes # NULL
                          /\ bytes + HeaderSize < SizeMod
  /\ HeaderSize \in Nat /\ KMEM_BLOCK_SIZE \in Nat
  BY HeapAssumption, HeapSystemAssumption

LEMMA AllocInOrder ==
  ASSUME NEW m, NEW a, InOrder(m, a), NEW bytes \in Sizes
  PROVE  LET s == Pointer(m, bytes)
             m1 == kheap_alloc(m, bytes)
             a1 == Owned(a, s, bytes)
         IN  /\ InOrder(m1, a1) /\ Kept(m, a, m1, a1)
             /\ s = NULL => m1 = m
             /\ s # NULL => s \in Addr /\ a[s] = NULL
  <1>a. PICK s : s = Pointer(m, bytes)
    OBVIOUS
  <1> DEFINE m1 == kheap_alloc(m, bytes)
             a1 == Owned(a, s, bytes)
             L == Owners(a)
  <1>0. PICK F : Sound(m, F, L)
    BY DEF InOrder
  <1>1. bytes \in Nat /\ bytes # NULL /\ bytes + HeaderSize < SizeMod
    BY SizeFacts
  <1>2. \A x : x \in L <=> x \in Addr /\ a[x] # NULL
    BY DEF Owners
  <1> HIDE DEF L
  <1>3. /\ s = NULL => m1 = m
        /\ s # NULL => /\ s \in F
                       /\ \E G : Sound(m1, G, L \union {s})
                       /\ m1.blocks[s] = calculate_blocks(bytes)
                       /\ \A x \in L : m1.blocks[x] = m.blocks[x]
    BY <1>0, <1>1, <1>a, AllocSound
  <1> HIDE DEF m1
  <1>4. CASE s = NULL
    <2>1. m1 = m /\ a1 = a
      BY <1>3, <1>4 DEF Owned
    <2> QED BY <1>4, <1>a, <2>1 DEF Kept, m1
  <1>5. CASE s # NULL
    <2>1. s \in Addr /\ s \notin L
      BY <1>0, <1>3, <1>5 DEF Sound, Shape
    <2>2. a1 = [a EXCEPT ![s] = bytes]
      BY <1>5 DEF Owned
    <2>3. /\ a1 \in [Addr -> Sizes \union {NULL}]
          /\ a1[s] = bytes /\ \A x \in Addr : x # s => a1[x] = a[x]
      BY <2>1, <2>2 DEF InOrder
    <2> HIDE DEF a1
    <2>4. Owners(a1) = L \union {s}
      <3>1. \A x : x \in Owners(a1) <=> x \in Addr /\ a1[x] # NULL
        BY DEF Owners
      <3>2. \A x \in Addr : a1[x] # NULL <=> x = s \/ a[x] # NULL
        BY <1>1, <2>3
      <3> QED BY <1>2, <2>1, <3>1, <3>2
    <2>5. \E G : Sound(m1, G, Owners(a1))
      BY <1>3, <1>5, <2>4
    <2>6. ASSUME NEW x \in Addr, a1[x] # NULL
          PROVE  a1[x] + HeaderSize <= m1.blocks[x] * KMEM_BLOCK_SIZE
      <3>1. CASE x = s
        <4>1. bytes + HeaderSize <= calculate_blocks(bytes) * KMEM_BLOCK_SIZE
          BY <1>1, CalculateBlocks
        <4> QED BY <3>1, <4>1, <1>3, <1>5, <2>3
      <3>2. CASE x # s
        <4>1. a1[x] = a[x] /\ m1.blocks[x] = m.blocks[x]
          BY <3>2, <2>3, <2>6, <1>2, <1>3, <1>5
        <4>2. a[x] + HeaderSize <= m.blocks[x] * KMEM_BLOCK_SIZE
          BY <4>1, <2>6 DEF InOrder
        <4> QED BY <4>1, <4>2
      <3> QED BY <3>1, <3>2
    <2>7. InOrder(m1, a1)
      BY <2>3, <2>5, <2>6 DEF InOrder
    <2>8. Kept(m, a, m1, a1)
      <3>1. ASSUME NEW x \in Addr, a[x] # NULL PROVE m1.blocks[x] = m.blocks[x]
        BY <1>2, <1>3, <1>5, <3>1
      <3> QED BY <3>1 DEF Kept
    <2>9. a[s] = NULL
      BY <1>2, <2>1
    <2> QED BY <1>5, <1>a, <2>1, <2>7, <2>8, <2>9 DEF m1, a1
  <1> QED BY <1>4, <1>5

LEMMA DeallocInOrder ==
  ASSUME NEW m, NEW a, InOrder(m, a), NEW s \in Addr, a[s] # NULL
  PROVE  LET m1 == kheap_dealloc(m, s)
             a1 == Disowned(a, s)
         IN  InOrder(m1, a1) /\ Kept(m, a, m1, a1)
  <1> DEFINE m1 == kheap_dealloc(m, s)
             a1 == Disowned(a, s)
             L == Owners(a)
  <1>0. PICK F : Sound(m, F, L)
    BY DEF InOrder
  <1>2. \A x : x \in L <=> x \in Addr /\ a[x] # NULL
    BY DEF Owners
  <1> HIDE DEF L
  <1>3. /\ \E G : Sound(m1, G, L \ {s})
        /\ \A x \in L \ {s} : m1.blocks[x] = m.blocks[x]
    BY <1>0, <1>2, DeallocSound
  <1>4. /\ a1 \in [Addr -> Sizes \union {NULL}]
        /\ a1[s] = NULL /\ \A x \in Addr : x # s => a1[x] = a[x]
    BY DEF InOrder, Disowned
  <1> HIDE DEF m1, a1
  <1>5. Owners(a1) = L \ {s}
    <2>1. \A x : x \in Owners(a1) <=> x \in Addr /\ a1[x] # NULL
      BY DEF Owners
    <2>2. \A x \in Addr : a1[x] # NULL <=> x # s /\ a[x] # NULL
      BY <1>4
    <2> QED BY <1>2, <2>1, <2>2
  <1>6. \A x \in Addr : a1[x] # NULL => a1[x] = a[x] /\ m1.blocks[x] = m.blocks[x]
    BY <1>2, <1>3, <1>4
  <1>7. ASSUME NEW x \in Addr, a1[x] # NULL
        PROVE  a1[x] + HeaderSize <= m1.blocks[x] * KMEM_BLOCK_SIZE
    <2>1. a1[x] = a[x] /\ m1.blocks[x] = m.blocks[x]
      BY <1>6, <1>7
    <2>2. a[x] + HeaderSize <= m.blocks[x] * KMEM_BLOCK_SIZE
      BY <1>7, <2>1 DEF InOrder
    <2> QED BY <2>1, <2>2
  <1>8. InOrder(m1, a1)
    BY <1>3, <1>4, <1>5, <1>7 DEF InOrder
  <1>9. Kept(m, a, m1, a1)
    BY <1>6 DEF Kept
  <1> QED BY <1>8, <1>9 DEF m1, a1

\* What Owned and Disowned do to the addresses.
LEMMA OwnedFields ==
  ASSUME NEW a \in [Addr -> Sizes \union {NULL}], NEW s \in Addr, NEW bytes \in Sizes
  PROVE  /\ Owned(a, s, bytes)[s] # NULL
         /\ \A x \in Addr : x # s => Owned(a, s, bytes)[x] = a[x]
  <1>1. s # NULL /\ bytes # NULL
    BY HeapAssumption, SizeFacts DEF Addr
  <1>2. Owned(a, s, bytes) = [a EXCEPT ![s] = bytes]
    BY <1>1 DEF Owned
  <1> QED BY <1>1, <1>2

LEMMA DisownedFields ==
  ASSUME NEW a \in [Addr -> Sizes \union {NULL}], NEW s \in Addr
  PROVE  /\ Disowned(a, s) \in [Addr -> Sizes \union {NULL}]
         /\ Disowned(a, s)[s] = NULL
         /\ \A x \in Addr : x # s => Disowned(a, s)[x] = a[x]
  BY DEF Disowned

LEMMA KeptChain ==
  ASSUME NEW m, NEW a, NEW m1, NEW a1, NEW m2, NEW a2,
         Kept(m, a, m1, a1), Kept(m1, a1, m2, a2),
         \A x \in Addr : a[x] # NULL /\ a2[x] # NULL => a1[x] # NULL
  PROVE  Kept(m, a, m2, a2)
  BY DEF Kept

LEMMA InOrderFacts ==
  ASSUME NEW m, NEW a, InOrder(m, a)
  PROVE  /\ m \in HeapMemory
         /\ a \in [Addr -> Sizes \union {NULL}]
         /\ Sound(m, Free(m), Owners(a))
  <1>1. PICK F : Sound(m, F, Owners(a))
    BY DEF InOrder
  <1>2. m \in HeapMemory /\ F \in SUBSET Addr /\ Linked(m, F)
    BY <1>1 DEF Sound, Shape
  <1>3. Free(m) = F
    BY <1>2, FreeIs
  <1> QED BY <1>1, <1>2, <1>3 DEF InOrder

\* A creation gives three objects that nobody owned, or changes no owner.
LEMMA CreateInOrder ==
  ASSUME NEW m, NEW a, InOrder(m, a), NEW t, NEW stack, NEW tdata,
         t = Pointer(m, ThreadSize),
         stack = IF t = NULL THEN NULL ELSE Pointer(kheap_alloc(m, ThreadSize), StackSize),
         tdata = IF stack = NULL THEN NULL
                 ELSE Pointer(kheap_alloc(kheap_alloc(m, ThreadSize), StackSize), TdataSize)
  PROVE  LET n == kthread_create(m, t, stack, tdata)
             a3 == Owned(Owned(Owned(a, t, ThreadSize), stack, StackSize), tdata, TdataSize)
         IN  /\ tdata = NULL => InOrder(n, a) /\ Kept(m, a, n, a)
             /\ tdata # NULL => /\ InOrder(n, a3) /\ Kept(m, a, n, a3)
                                /\ t \in Addr /\ stack \in Addr /\ tdata \in Addr
                                /\ t # stack /\ t # tdata /\ stack # tdata
                                /\ a[t] = NULL /\ a[stack] = NULL /\ a[tdata] = NULL
                                /\ a3[t] # NULL /\ a3[stack] # NULL /\ a3[tdata] # NULL
                                /\ \A x \in Addr : a[x] # NULL => a3[x] # NULL
  <1> DEFINE m1 == kheap_alloc(m, ThreadSize)
             m2 == kheap_alloc(m1, StackSize)
             m3 == kheap_alloc(m2, TdataSize)
             a1 == Owned(a, t, ThreadSize)
             a2 == Owned(a1, stack, StackSize)
             a3 == Owned(a2, tdata, TdataSize)
             n == kthread_create(m, t, stack, tdata)
  <1>0. /\ ThreadSize \in Sizes /\ StackSize \in Sizes /\ TdataSize \in Sizes
        /\ a \in [Addr -> Sizes \union {NULL}]
    BY DEF Sizes, InOrder
  <1>n. /\ t = NULL => n = m
        /\ t # NULL /\ stack = NULL => n = kheap_dealloc(m1, t)
        /\ stack # NULL /\ tdata = NULL => n = kheap_dealloc(kheap_dealloc(m2, stack), t)
        /\ stack # NULL /\ tdata # NULL => n = m3
        /\ t = NULL => stack = NULL
        /\ stack = NULL => tdata = NULL
    BY DEF kthread_create
  <1>k. Kept(m, a, m, a)
    BY DEF Kept
  <1>1. /\ InOrder(m1, a1) /\ Kept(m, a, m1, a1)
        /\ t # NULL => t \in Addr /\ a[t] = NULL
    BY <1>0, AllocInOrder
  <1>2. t # NULL => /\ InOrder(m2, a2) /\ Kept(m1, a1, m2, a2)
                    /\ stack # NULL => stack \in Addr /\ a1[stack] = NULL
    <2>1. SUFFICES ASSUME t # NULL
                   PROVE  /\ InOrder(m2, a2) /\ Kept(m1, a1, m2, a2)
                          /\ stack # NULL => stack \in Addr /\ a1[stack] = NULL
      OBVIOUS
    <2>2. stack = Pointer(m1, StackSize)
      BY <2>1
    <2> HIDE DEF m1, a1
    <2> QED BY <1>0, <1>1, <2>2, AllocInOrder
  <1>3. stack # NULL => /\ InOrder(m3, a3) /\ Kept(m2, a2, m3, a3)
                        /\ tdata # NULL => tdata \in Addr /\ a2[tdata] = NULL
    <2>1. SUFFICES ASSUME stack # NULL
                   PROVE  /\ InOrder(m3, a3) /\ Kept(m2, a2, m3, a3)
                          /\ tdata # NULL => tdata \in Addr /\ a2[tdata] = NULL
      OBVIOUS
    <2>2. tdata = Pointer(m2, TdataSize) /\ InOrder(m2, a2)
      BY <2>1, <1>2, <1>n
    <2> HIDE DEF m2, a2
    <2> QED BY <1>0, <2>2, AllocInOrder
  <1>4. /\ a1 \in [Addr -> Sizes \union {NULL}]
        /\ t # NULL => a2 \in [Addr -> Sizes \union {NULL}]
        /\ stack # NULL => a3 \in [Addr -> Sizes \union {NULL}]
    BY <1>1, <1>2, <1>3, InOrderFacts
  <1>5. t # NULL => a1[t] # NULL /\ \A x \in Addr : x # t => a1[x] = a[x]
    BY <1>0, <1>1, OwnedFields
  <1>6. stack # NULL => a2[stack] # NULL /\ \A x \in Addr : x # stack => a2[x] = a1[x]
    <2> HIDE DEF a1
    <2> QED BY <1>0, <1>2, <1>4, <1>n, OwnedFields
  <1>7. tdata # NULL => a3[tdata] # NULL /\ \A x \in Addr : x # tdata => a3[x] = a2[x]
    <2> HIDE DEF a2
    <2> QED BY <1>0, <1>2, <1>3, <1>4, <1>n, OwnedFields
  <1> HIDE DEF n, m1, m2, m3, a1, a2, a3
  <1>8. CASE t = NULL
    BY <1>8, <1>k, <1>n DEF n, a1, a2, a3
  <1>9. CASE t # NULL /\ stack = NULL
    <2> DEFINE d == Disowned(a1, t)
    <2>1. InOrder(n, d) /\ Kept(m1, a1, n, d)
      BY <1>1, <1>5, <1>9, <1>n, DeallocInOrder
    <2>2. d = a
      <3>1. d \in [Addr -> Sizes \union {NULL}] /\ \A x \in Addr : d[x] = a[x]
        BY <1>1, <1>4, <1>5, <1>9, DisownedFields
      <3> HIDE DEF d
      <3> QED BY <1>0, <3>1
    <2> HIDE DEF d
    <2>3. Kept(m, a, n, a)
      <3>1. \A x \in Addr : a[x] # NULL => a1[x] # NULL
        BY <1>1, <1>5, <1>9
      <3> QED BY <1>1, <2>1, <2>2, <3>1, KeptChain
    <2>4. InOrder(n, a) /\ tdata = NULL
      BY <1>9, <1>n, <2>1, <2>2
    <2> QED BY <2>3, <2>4 DEF n
  <1>10. CASE t # NULL /\ stack # NULL /\ tdata = NULL
    <2> DEFINE n1 == kheap_dealloc(m2, stack)
               d1 == Disowned(a2, stack)
               d == Disowned(d1, t)
    <2>1. InOrder(n1, d1) /\ Kept(m2, a2, n1, d1)
      BY <1>2, <1>6, <1>10, DeallocInOrder
    <2>2. t # stack /\ t \in Addr /\ stack \in Addr
      BY <1>1, <1>2, <1>5, <1>10
    <2>3. /\ d1 \in [Addr -> Sizes \union {NULL}] /\ d1[stack] = NULL
          /\ \A x \in Addr : x # stack => d1[x] = a2[x]
      BY <1>4, <1>10, <2>2, DisownedFields
    <2>4. d1[t] # NULL
      BY <1>5, <1>6, <1>10, <2>2, <2>3
    <2> HIDE DEF n1, d1
    <2>5. InOrder(n, d) /\ Kept(n1, d1, n, d)
      BY <1>10, <1>n, <2>1, <2>2, <2>4, DeallocInOrder DEF n1
    <2>6. /\ d \in [Addr -> Sizes \union {NULL}] /\ d[t] = NULL
          /\ \A x \in Addr : x # t => d[x] = d1[x]
      BY <2>2, <2>3, DisownedFields
    <2> HIDE DEF d
    <2>7. a[stack] = NULL /\ a[t] = NULL
      BY <1>1, <1>2, <1>5, <1>10, <2>2
    <2>8. \A x \in Addr : d[x] = a[x]
      <3> TAKE x \in Addr
      <3>1. CASE x = t
        BY <3>1, <2>6, <2>7
      <3>2. CASE x = stack
        BY <3>2, <2>2, <2>3, <2>6, <2>7
      <3>3. CASE x # t /\ x # stack
        BY <3>3, <1>5, <1>6, <1>10, <2>3, <2>6
      <3> QED BY <3>1, <3>2, <3>3
    <2>9. d = a
      BY <1>0, <2>6, <2>8
    <2>10. \A x \in Addr : a[x] # NULL => a1[x] # NULL /\ a2[x] # NULL /\ d1[x] # NULL
      BY <1>5, <1>6, <1>10, <2>3, <2>7
    <2>11. Kept(m, a, m2, a2)
      BY <1>1, <1>2, <1>10, <2>10, KeptChain
    <2>12. Kept(m, a, n1, d1)
      BY <2>1, <2>10, <2>11, KeptChain
    <2>13. Kept(m, a, n, a)
      BY <2>5, <2>9, <2>10, <2>12, KeptChain
    <2>14. InOrder(n, a)
      BY <2>5, <2>9
    <2> QED BY <1>10, <2>13, <2>14 DEF n
  <1>11. CASE t # NULL /\ stack # NULL /\ tdata # NULL
    <2>1. t \in Addr /\ stack \in Addr /\ tdata \in Addr
      BY <1>1, <1>2, <1>3, <1>11
    <2>2. t # stack /\ tdata # stack
      BY <1>2, <1>3, <1>5, <1>6, <1>11
    <2>3. a2[t] # NULL
      BY <1>5, <1>6, <1>11, <2>1, <2>2
    <2>4. t # tdata
      BY <1>3, <1>11, <2>3
    <2>5. a[t] = NULL /\ a[stack] = NULL /\ a[tdata] = NULL
      BY <1>1, <1>2, <1>3, <1>5, <1>6, <1>11, <2>1, <2>2, <2>4
    <2>6. a3[t] # NULL /\ a3[stack] # NULL /\ a3[tdata] # NULL
      BY <1>6, <1>7, <1>11, <2>1, <2>2, <2>3, <2>4
    <2>7. \A x \in Addr : a[x] # NULL => a1[x] # NULL /\ a2[x] # NULL /\ a3[x] # NULL
      BY <1>5, <1>6, <1>7, <1>11, <2>5
    <2>8. Kept(m, a, m2, a2)
      BY <1>1, <1>2, <1>11, <2>7, KeptChain
    <2>9. Kept(m, a, n, a3)
      BY <1>3, <1>11, <1>n, <2>7, <2>8, KeptChain
    <2>10. InOrder(n, a3)
      BY <1>3, <1>11, <1>n
    <2> QED BY <1>11, <2>1, <2>2, <2>4, <2>5, <2>6, <2>7, <2>9, <2>10 DEF n, a1, a2, a3
  <1> QED BY <1>8, <1>9, <1>10, <1>11

\* A destruction gives the three objects back.
LEMMA DestroyInOrder ==
  ASSUME NEW m, NEW a, InOrder(m, a), NEW t \in Addr, NEW stack \in Addr, NEW tdata \in Addr,
         a[t] # NULL, a[stack] # NULL, a[tdata] # NULL,
         t # stack, t # tdata, stack # tdata
  PROVE  LET n == kheap_dealloc(kheap_dealloc(kheap_dealloc(m, stack), tdata), t)
             a3 == Disowned(Disowned(Disowned(a, stack), tdata), t)
         IN  /\ InOrder(n, a3) /\ Kept(m, a, n, a3)
             /\ \A x \in Addr : x # t /\ x # stack /\ x # tdata => a3[x] = a[x]
  <1> DEFINE m1 == kheap_dealloc(m, stack)
             m2 == kheap_dealloc(m1, tdata)
             n == kheap_dealloc(m2, t)
             a1 == Disowned(a, stack)
             a2 == Disowned(a1, tdata)
             a3 == Disowned(a2, t)
  <1>1. InOrder(m1, a1) /\ Kept(m, a, m1, a1)
    BY DeallocInOrder
  <1>2. /\ a1 \in [Addr -> Sizes \union {NULL}] /\ a1[stack] = NULL
        /\ \A x \in Addr : x # stack => a1[x] = a[x]
    BY DisownedFields DEF InOrder
  <1> HIDE DEF m1, a1
  <1>3. InOrder(m2, a2) /\ Kept(m1, a1, m2, a2)
    BY <1>1, <1>2, DeallocInOrder
  <1>4. /\ a2 \in [Addr -> Sizes \union {NULL}] /\ a2[tdata] = NULL
        /\ \A x \in Addr : x # tdata => a2[x] = a1[x]
    BY <1>2, DisownedFields
  <1> HIDE DEF m2, a2
  <1>5. InOrder(n, a3) /\ Kept(m2, a2, n, a3)
    BY <1>2, <1>3, <1>4, DeallocInOrder
  <1>6. a3[t] = NULL /\ \A x \in Addr : x # t => a3[x] = a2[x]
    BY <1>4, DisownedFields
  <1> HIDE DEF n, a3
  <1>7. \A x \in Addr : a3[x] # NULL => a2[x] # NULL /\ a1[x] # NULL
    BY <1>2, <1>4, <1>6
  <1>8. Kept(m1, a1, n, a3)
    BY <1>3, <1>5, <1>7, KeptChain
  <1>9. Kept(m, a, n, a3)
    BY <1>1, <1>7, <1>8, KeptChain
  <1>10. \A x \in Addr : x # t /\ x # stack /\ x # tdata => a3[x] = a[x]
    BY <1>2, <1>4, <1>6
  <1> QED BY <1>5, <1>9, <1>10 DEF m1, m2, n, a1, a2, a3

-----------------------------------------------------------------------------
(* The inductive invariant *)

KthreadOK == kthread \in [Addr -> [stack : Addr, tdata : Addr] \union {NULL}]

LEMMA InvIs == HeapInv <=> InOrder(h, asked) /\ KthreadOK /\ ThreadsOwn
  <1>1. Live = Owners(asked)
    BY DEF Live, Owners
  <1>2. LargeEnough <=> \A x \in Addr : asked[x] # NULL
                          => asked[x] + HeaderSize <= h.blocks[x] * KMEM_BLOCK_SIZE
    BY DEF LargeEnough, Live
  <1>3. HeapInv => InOrder(h, asked) /\ KthreadOK /\ ThreadsOwn
    BY <1>1, <1>2 DEF HeapInv, HeapTypeOK, InOrder, KthreadOK
  <1>4. InOrder(h, asked) /\ KthreadOK /\ ThreadsOwn => HeapInv
    <2> SUFFICES ASSUME InOrder(h, asked), KthreadOK, ThreadsOwn PROVE HeapInv
      OBVIOUS
    <2>1. /\ h \in HeapMemory /\ asked \in [Addr -> Sizes \union {NULL}]
          /\ Sound(h, Free(h), Live)
      BY <1>1, InOrderFacts
    <2>2. LargeEnough
      BY <1>2 DEF InOrder
    <2> QED BY <2>1, <2>2 DEF HeapInv, HeapTypeOK, KthreadOK
  <1> QED BY <1>3, <1>4

LEMMA InvFrom ==
  ASSUME InOrder(h', asked'), KthreadOK', ThreadsOwn'
  PROVE  HeapInv'
  <1>1. /\ h' \in HeapMemory /\ asked' \in [Addr -> Sizes \union {NULL}]
        /\ Sound(h', Free(h'), Owners(asked'))
    BY InOrderFacts
  <1>2. Live' = Owners(asked')
    BY DEF Live, Owners
  <1>3. LargeEnough'
    BY DEF LargeEnough, Live, InOrder
  <1> QED BY <1>1, <1>2, <1>3 DEF HeapInv, HeapTypeOK, KthreadOK

LEMMA InitInv == HeapInit => HeapInv
  <1> SUFFICES ASSUME HeapInit PROVE InOrder(h, asked) /\ KthreadOK /\ ThreadsOwn
    BY InvIs
  <1>0. /\ HeapBlocks \in Nat \ {0} /\ NULL \notin Int /\ 0 \in Addr
        /\ \A a \in Addr : a \in Nat /\ a < HeapBlocks /\ a # NULL
    BY HeapAssumption DEF Addr
  <1>1. h \in HeapMemory
    <2>1. HeapBlocks \in 0 .. HeapBlocks /\ 0 \in 0 .. HeapBlocks
      BY <1>0
    <2>2. [a \in Addr |-> IF a = 0 THEN HeapBlocks ELSE 0] \in [Addr -> 0 .. HeapBlocks]
      BY <2>1
    <2>3. [a \in Addr |-> NULL] \in [Addr -> Addr \union {NULL}]
      OBVIOUS
    <2> QED BY <1>0, <2>2, <2>3 DEF HeapInit, kheap_init, HeapMemory
  <1>2. /\ h.head = 0 /\ h.blocks[0] = HeapBlocks
        /\ h.next[0] = NULL /\ h.prev[0] = NULL
    BY <1>0 DEF HeapInit, kheap_init
  <1>3. \A a \in Addr : asked[a] = NULL /\ kthread[a] = NULL
    BY DEF HeapInit
  <1>4. Linked(h, {0})
    BY <1>0, <1>2 DEF Linked
  <1>5. Tiles(h, {0})
    BY <1>0, <1>2 DEF Tiles
  <1>6. Owners(asked) = {}
    BY <1>3 DEF Owners
  <1>7. Shape(h, {0}, {})
    <2>1. {0} \union {} = {0}
      OBVIOUS
    <2> QED BY <1>0, <1>1, <1>4, <1>5, <2>1 DEF Shape
  <1>8. Coalesced(h, {0})
    <2>1. \A a \in {0} : a + h.blocks[a] = HeapBlocks /\ HeapBlocks # 0
      BY <1>0, <1>2
    <2> QED BY <2>1 DEF Coalesced
  <1>9. asked \in [Addr -> Sizes \union {NULL}] /\ KthreadOK
    BY DEF HeapInit, KthreadOK
  <1>10. InOrder(h, asked)
    BY <1>3, <1>6, <1>7, <1>8, <1>9 DEF InOrder, Sound
  <1>11. ThreadsOwn
    BY <1>3 DEF ThreadsOwn, Threads
  <1> QED BY <1>9, <1>10, <1>11

\* An operation on objects of users leaves the threads alone.
LEMMA ThreadsStay ==
  ASSUME ThreadsOwn, UNCHANGED kthread,
         \A x \in ThreadMemory : x \in Addr /\ asked'[x] # NULL
  PROVE  ThreadsOwn'
  <1>1. Threads' = Threads /\ \A t : Objects(t)' = Objects(t)
    BY DEF Threads, Objects
  <1>2. \A t \in Threads : Objects(t) \subseteq ThreadMemory
    BY DEF ThreadMemory
  <1>3. \A t \in Threads : Objects(t) \subseteq Live'
    BY <1>2 DEF Live
  <1> QED BY <1>1, <1>3 DEF ThreadsOwn

LEMMA ThreadMemoryOwned ==
  ASSUME ThreadsOwn
  PROVE  \A x \in ThreadMemory : x \in Addr /\ asked[x] # NULL
  <1>1. \A t \in Threads : Objects(t) \subseteq Live
    BY DEF ThreadsOwn
  <1> QED BY <1>1 DEF ThreadMemory, Live

KeptStep == Kept(h, asked, h', asked')

LEMMA AllocStep ==
  ASSUME HeapInv, NEW bytes \in Requests, syscall_mem_alloc(bytes)
  PROVE  HeapInv' /\ KeptStep
  <1>1. InOrder(h, asked) /\ KthreadOK /\ ThreadsOwn
    BY InvIs
  <1>2. bytes \in Sizes
    BY DEF Sizes
  <1> PICK s : s = Pointer(h, bytes)
    OBVIOUS
  <1>3. /\ InOrder(h', asked') /\ KeptStep
        /\ s # NULL => s \in Addr /\ asked[s] = NULL
    BY <1>1, <1>2, AllocInOrder DEF syscall_mem_alloc, KeptStep
  <1>4. UNCHANGED kthread /\ asked' = Owned(asked, s, bytes)
    BY DEF syscall_mem_alloc
  <1>5. \A x \in Addr : asked[x] # NULL => asked'[x] # NULL
    <2>1. CASE s = NULL
      BY <2>1, <1>4 DEF Owned
    <2>2. CASE s # NULL
      BY <2>2, <1>1, <1>2, <1>3, <1>4, OwnedFields DEF InOrder
    <2> QED BY <2>1, <2>2
  <1>6. ThreadsOwn'
    BY <1>1, <1>4, <1>5, ThreadMemoryOwned, ThreadsStay
  <1>7. KthreadOK'
    BY <1>1, <1>4 DEF KthreadOK
  <1>8. HeapInv'
    BY <1>3, <1>6, <1>7, InvFrom
  <1> QED BY <1>3, <1>8

LEMMA FreeStep ==
  ASSUME HeapInv, NEW s \in Addr, syscall_mem_free(s)
  PROVE  HeapInv' /\ KeptStep
  <1>1. InOrder(h, asked) /\ KthreadOK /\ ThreadsOwn
    BY InvIs
  <1>2. /\ asked[s] # NULL /\ s \notin ThreadMemory
        /\ UNCHANGED kthread /\ asked' = Disowned(asked, s) /\ h' = kheap_dealloc(h, s)
    BY DEF syscall_mem_free, Live
  <1>3. InOrder(h', asked') /\ KeptStep
    BY <1>1, <1>2, DeallocInOrder DEF KeptStep
  <1>4. \A x \in Addr : x # s => asked'[x] = asked[x]
    BY <1>1, <1>2, DisownedFields DEF InOrder
  <1>5. \A x \in ThreadMemory : x \in Addr /\ asked'[x] # NULL
    BY <1>1, <1>2, <1>4, ThreadMemoryOwned
  <1>6. ThreadsOwn'
    BY <1>1, <1>2, <1>5, ThreadsStay
  <1>7. KthreadOK'
    BY <1>1, <1>2 DEF KthreadOK
  <1>8. HeapInv'
    BY <1>3, <1>6, <1>7, InvFrom
  <1> QED BY <1>3, <1>8

LEMMA ExpandStep ==
  ASSUME HeapInv, Disciplined, NEW s \in Addr, NEW bytes \in Requests,
         syscall_mem_try_expand(s, bytes)
  PROVE  HeapInv' /\ KeptStep
  <1>1. InOrder(h, asked) /\ KthreadOK /\ ThreadsOwn
    BY InvIs
  <1> PICK new, old : new = calculate_blocks(bytes) /\ old = h.blocks[s]
    OBVIOUS
  <1>2. /\ bytes \in Sizes /\ bytes \in Nat /\ bytes # NULL
        /\ new \in Nat /\ bytes + HeaderSize <= new * KMEM_BLOCK_SIZE
    BY SizeFacts, CalculateBlocks DEF Sizes
  <1>3. old \in Nat /\ s \in Nat
    BY <1>1, InOrderFacts, Fields
  <1>4. /\ asked[s] # NULL
        /\ new = old \/ (new < old /\ s + old \notin Free(h))
        /\ UNCHANGED kthread
    BY DEF syscall_mem_try_expand, Live, MayExpand
  <1>5. Above(h, s) = NULL \/ Above(h, s) \in Free(h)
    <2>1. PICK F : Sound(h, F, Owners(asked))
      BY <1>1 DEF InOrder
    <2>2. h \in HeapMemory /\ F \in SUBSET Addr /\ Linked(h, F)
      BY <2>1 DEF Sound, Shape
    <2>3. Free(h) = F
      BY <2>2, FreeIs
    <2> DEFINE S == {c \in F : s < c}
    <2>4. S = {} \/ FirstOf(h, S) \in S
      <3>1. S \in SUBSET F
        OBVIOUS
      <3> HIDE DEF S
      <3> QED BY <2>2, <3>1, FirstIs
    <2>5. Above(h, s) = FirstOf(h, S)
      BY <2>3 DEF Above
    <2>6. S = {} => FirstOf(h, S) = NULL
      BY DEF FirstOf
    <2> QED BY <2>3, <2>4, <2>5, <2>6
  <1>6. new # old => ~try_expand_result(h, s, bytes)
    <2>1. s + old # NULL
      BY <1>3, HeapAssumption
    <2>2. new # old => Above(h, s) # s + old /\ ~(old <= new)
      BY <1>2, <1>3, <1>4, <1>5, <2>1
    <2> QED BY <2>2 DEF try_expand_result
  <1>7. h' = h
    BY <1>6 DEF syscall_mem_try_expand, kheap_try_expand
  <1>8. \/ asked' = asked
        \/ asked' = [asked EXCEPT ![s] = bytes] /\ new = old
    BY <1>6 DEF syscall_mem_try_expand
  <1>9. CASE asked' = asked
    <2>1. HeapInv'
      BY <1>4, <1>7, <1>9 DEF HeapInv, HeapTypeOK, Live, LargeEnough, ThreadsOwn, Threads,
                              Objects
    <2>2. KeptStep
      BY <1>7 DEF KeptStep, Kept
    <2> QED BY <2>1, <2>2
  <1>10. CASE asked' = [asked EXCEPT ![s] = bytes] /\ new = old
    <2>1. /\ asked \in [Addr -> Sizes \union {NULL}]
          /\ asked' \in [Addr -> Sizes \union {NULL}]
          /\ asked'[s] = bytes /\ \A x \in Addr : x # s => asked'[x] = asked[x]
      BY <1>1, <1>2, <1>10 DEF InOrder
    <2>2. \A x \in Addr : asked'[x] # NULL <=> asked[x] # NULL
      BY <1>2, <1>4, <2>1
    <2>3. Owners(asked') = Owners(asked)
      BY <2>2 DEF Owners
    <2>4. ASSUME NEW x \in Addr, asked'[x] # NULL
          PROVE  asked'[x] + HeaderSize <= h.blocks[x] * KMEM_BLOCK_SIZE
      <3>1. CASE x = s
        BY <3>1, <1>2, <1>10, <2>1
      <3>2. CASE x # s
        BY <3>2, <1>1, <2>1, <2>4 DEF InOrder
      <3> QED BY <3>1, <3>2
    <2>5. InOrder(h', asked')
      BY <1>1, <1>7, <2>1, <2>3, <2>4 DEF InOrder
    <2>6. ThreadsOwn'
      BY <1>1, <1>4, <2>2, ThreadMemoryOwned, ThreadsStay
    <2>7. KthreadOK'
      BY <1>1, <1>4 DEF KthreadOK
    <2>8. HeapInv'
      BY <2>5, <2>6, <2>7, InvFrom
    <2>9. KeptStep
      BY <1>7 DEF KeptStep, Kept
    <2> QED BY <2>8, <2>9
  <1> QED BY <1>8, <1>9, <1>10

\* The threads after the one at t is added, with objects nobody owned.
LEMMA ThreadsGrow ==
  ASSUME ThreadsOwn, KthreadOK, NEW t \in Addr, NEW stack \in Addr, NEW tdata \in Addr,
         t # stack, t # tdata, stack # tdata,
         asked[t] = NULL, asked[stack] = NULL, asked[tdata] = NULL,
         asked'[t] # NULL, asked'[stack] # NULL, asked'[tdata] # NULL,
         \A x \in Addr : asked[x] # NULL => asked'[x] # NULL,
         kthread' = [kthread EXCEPT ![t] = [stack |-> stack, tdata |-> tdata]]
  PROVE  ThreadsOwn' /\ KthreadOK'
  <1> PICK k : k = [stack |-> stack, tdata |-> tdata]
    OBVIOUS
  <1>1. k \in [stack : Addr, tdata : Addr] /\ k # NULL /\ k.stack = stack /\ k.tdata = tdata
    BY HeapSystemAssumption
  <1>2. KthreadOK' /\ kthread'[t] = k /\ \A x \in Addr : x # t => kthread'[x] = kthread[x]
    BY <1>1 DEF KthreadOK
  <1>3. \A u \in Threads : u \in Addr /\ Objects(u) \subseteq Live
    BY DEF Threads, ThreadsOwn
  <1>4. t \notin Threads
    <2>1. t \notin Live /\ t \in Objects(t)
      BY DEF Live, Objects
    <2> QED BY <1>3, <2>1
  <1>5. \A u : u \in Threads' <=> u \in Threads \/ u = t
    BY <1>1, <1>2, <1>4 DEF Threads
  <1>6. \A u \in Threads : kthread'[u] = kthread[u] /\ Objects(u)' = Objects(u)
    <2>1. \A u \in Threads : kthread'[u] = kthread[u]
      BY <1>2, <1>3, <1>4
    <2> QED BY <2>1 DEF Objects
  <1>7. Objects(t)' = {t, stack, tdata}
    BY <1>1, <1>2 DEF Objects
  <1>8. \A x : x \in Live => x \in Live'
    BY DEF Live
  <1>9. \A u \in Threads : Objects(u) \intersect {t, stack, tdata} = {}
    BY <1>3 DEF Live
  <1>10. ASSUME NEW u \in Threads'
         PROVE  /\ Objects(u)' \subseteq Live'
                /\ u # kthread'[u].stack /\ u # kthread'[u].tdata
                /\ kthread'[u].stack # kthread'[u].tdata
                /\ \A v \in Threads' \ {u} : Objects(u)' \intersect Objects(v)' = {}
    <2>1. CASE u = t
      <3>1. {t, stack, tdata} \subseteq Live'
        BY DEF Live
      <3>2. ASSUME NEW v \in Threads' \ {u} PROVE Objects(u)' \intersect Objects(v)' = {}
        <4>1. v \in Threads
          BY <1>5, <2>1
        <4> QED BY <4>1, <2>1, <1>6, <1>7, <1>9
      <3> QED BY <2>1, <3>1, <3>2, <1>1, <1>2, <1>7
    <2>2. CASE u \in Threads
      <3>1. Objects(u)' = Objects(u) /\ kthread'[u] = kthread[u] /\ Objects(u) \subseteq Live
        BY <2>2, <1>3, <1>6
      <3>2. /\ u # kthread[u].stack /\ u # kthread[u].tdata
            /\ kthread[u].stack # kthread[u].tdata
            /\ \A v \in Threads \ {u} : Objects(u) \intersect Objects(v) = {}
        BY <2>2 DEF ThreadsOwn
      <3>3. ASSUME NEW v \in Threads' \ {u} PROVE Objects(u)' \intersect Objects(v)' = {}
        <4>1. CASE v = t
          BY <4>1, <2>2, <3>1, <1>7, <1>9
        <4>2. CASE v \in Threads
          BY <4>2, <3>1, <3>2, <1>6
        <4> QED BY <4>1, <4>2, <1>5
      <3>4. Objects(u)' \subseteq Live'
        BY <3>1, <1>8
      <3> QED BY <3>1, <3>2, <3>3, <3>4
    <2> QED BY <2>1, <2>2, <1>5
  <1> QED BY <1>2, <1>10 DEF ThreadsOwn

LEMMA CreateStep ==
  ASSUME HeapInv, syscall_thread_create
  PROVE  HeapInv' /\ KeptStep
  <1>1. InOrder(h, asked) /\ KthreadOK /\ ThreadsOwn
    BY InvIs
  <1> PICK t : t = Pointer(h, ThreadSize)
    OBVIOUS
  <1> PICK stack : stack = IF t = NULL THEN NULL
                           ELSE Pointer(kheap_alloc(h, ThreadSize), StackSize)
    OBVIOUS
  <1> PICK tdata : tdata = IF stack = NULL THEN NULL
                     ELSE Pointer(kheap_alloc(kheap_alloc(h, ThreadSize), StackSize), TdataSize)
    OBVIOUS
  <1> DEFINE n == kthread_create(h, t, stack, tdata)
             a3 == Owned(Owned(Owned(asked, t, ThreadSize), stack, StackSize), tdata, TdataSize)
  <1>2. /\ h' = n
        /\ tdata = NULL => UNCHANGED <<asked, kthread>>
        /\ tdata # NULL =>
             /\ asked' = a3
             /\ kthread' = [kthread EXCEPT ![t] = [stack |-> stack, tdata |-> tdata]]
    BY DEF syscall_thread_create
  <1>3. /\ tdata = NULL => InOrder(n, asked) /\ Kept(h, asked, n, asked)
        /\ tdata # NULL => /\ InOrder(n, a3) /\ Kept(h, asked, n, a3)
                           /\ t \in Addr /\ stack \in Addr /\ tdata \in Addr
                           /\ t # stack /\ t # tdata /\ stack # tdata
                           /\ asked[t] = NULL /\ asked[stack] = NULL /\ asked[tdata] = NULL
                           /\ a3[t] # NULL /\ a3[stack] # NULL /\ a3[tdata] # NULL
                           /\ \A x \in Addr : asked[x] # NULL => a3[x] # NULL
    BY <1>1, CreateInOrder
  <1> HIDE DEF n, a3
  <1>4. CASE tdata = NULL
    <2>1. InOrder(h', asked') /\ KeptStep
      BY <1>2, <1>3, <1>4 DEF KeptStep
    <2>2. ThreadsOwn'
      BY <1>1, <1>2, <1>4, ThreadMemoryOwned, ThreadsStay
    <2>3. KthreadOK'
      BY <1>1, <1>2, <1>4 DEF KthreadOK
    <2> QED BY <2>1, <2>2, <2>3, InvFrom
  <1>5. CASE tdata # NULL
    <2>1. InOrder(h', asked') /\ KeptStep
      BY <1>2, <1>3, <1>5 DEF KeptStep
    <2>2. ThreadsOwn' /\ KthreadOK'
      BY <1>1, <1>2, <1>3, <1>5, ThreadsGrow
    <2> QED BY <2>1, <2>2, InvFrom
  <1> QED BY <1>4, <1>5

LEMMA DestroyStep ==
  ASSUME HeapInv, NEW t \in Addr, kthread_destroy(t)
  PROVE  HeapInv' /\ KeptStep
  <1>1. InOrder(h, asked) /\ KthreadOK /\ ThreadsOwn
    BY InvIs
  <1> PICK stack, tdata : stack = kthread[t].stack /\ tdata = kthread[t].tdata
    OBVIOUS
  <1>2. /\ t \in Threads
        /\ h' = kheap_dealloc(kheap_dealloc(kheap_dealloc(h, stack), tdata), t)
        /\ asked' = Disowned(Disowned(Disowned(asked, stack), tdata), t)
        /\ kthread' = [kthread EXCEPT ![t] = NULL]
    BY DEF kthread_destroy
  <1>3. /\ t \in Live /\ stack \in Live /\ tdata \in Live
        /\ t # stack /\ t # tdata /\ stack # tdata
        /\ Objects(t) = {t, stack, tdata}
    BY <1>1, <1>2 DEF ThreadsOwn, Objects
  <1>4. /\ InOrder(h', asked') /\ KeptStep
        /\ \A x \in Addr : x # t /\ x # stack /\ x # tdata => asked'[x] = asked[x]
    <2>1. /\ stack \in Addr /\ tdata \in Addr
          /\ asked[t] # NULL /\ asked[stack] # NULL /\ asked[tdata] # NULL
      BY <1>3 DEF Live
    <2> QED BY <1>1, <1>2, <1>3, <2>1, DestroyInOrder DEF KeptStep
  <1>5. /\ KthreadOK' /\ kthread'[t] = NULL
        /\ \A x \in Addr : x # t => kthread'[x] = kthread[x]
    BY <1>1, <1>2 DEF KthreadOK
  <1>6. \A u : u \in Threads' <=> u \in Threads /\ u # t
    BY <1>5 DEF Threads
  <1>7. ASSUME NEW u \in Threads'
        PROVE  kthread'[u] = kthread[u] /\ Objects(u)' = Objects(u)
    <2>1. kthread'[u] = kthread[u]
      BY <1>5, <1>6 DEF Threads
    <2> QED BY <2>1 DEF Objects
  <1>8. ASSUME NEW u \in Threads' PROVE Objects(u) \subseteq Live'
    <2>1. u \in Threads \ {t}
      BY <1>6
    <2>2. Objects(u) \subseteq Live /\ Objects(t) \intersect Objects(u) = {}
      BY <1>1, <1>2, <2>1 DEF ThreadsOwn
    <2>3. \A x \in Objects(u) : x \in Addr /\ asked[x] # NULL
                                /\ x # t /\ x # stack /\ x # tdata
      BY <1>3, <2>2 DEF Live
    <2>4. \A x \in Objects(u) : x \in Addr /\ asked'[x] # NULL
      BY <1>4, <2>3
    <2> QED BY <2>4 DEF Live
  <1>9. ThreadsOwn'
    <2>1. ASSUME NEW u \in Threads'
          PROVE  /\ u # kthread[u].stack /\ u # kthread[u].tdata
                 /\ kthread[u].stack # kthread[u].tdata
                 /\ \A v \in Threads' \ {u} : Objects(u) \intersect Objects(v) = {}
      BY <1>1, <1>6 DEF ThreadsOwn
    <2> QED BY <1>7, <1>8, <2>1 DEF ThreadsOwn
  <1> QED BY <1>4, <1>5, <1>9, InvFrom

LEMMA NextInv ==
  ASSUME HeapInv, Disciplined, [HeapNext]_heap_vars
  PROVE  HeapInv' /\ KeptStep
  <1>1. ASSUME NEW bytes \in Requests, syscall_mem_alloc(bytes) PROVE HeapInv' /\ KeptStep
    BY <1>1, AllocStep
  <1>2. ASSUME NEW s \in Addr, syscall_mem_free(s) PROVE HeapInv' /\ KeptStep
    BY <1>2, FreeStep
  <1>3. ASSUME NEW s \in Addr, NEW bytes \in Requests, syscall_mem_try_expand(s, bytes)
        PROVE  HeapInv' /\ KeptStep
    BY <1>3, ExpandStep
  <1>4. ASSUME syscall_thread_create PROVE HeapInv' /\ KeptStep
    BY <1>4, CreateStep
  <1>5. ASSUME NEW t \in Addr, kthread_destroy(t) PROVE HeapInv' /\ KeptStep
    BY <1>5, DestroyStep
  <1>6. CASE UNCHANGED heap_vars
    <2>1. InOrder(h, asked) /\ KthreadOK /\ ThreadsOwn
      BY InvIs
    <2>2. h' = h /\ asked' = asked /\ kthread' = kthread
      BY <1>6 DEF heap_vars
    <2>3. InOrder(h', asked') /\ KthreadOK' /\ KeptStep
      BY <2>1, <2>2 DEF KthreadOK, KeptStep, Kept
    <2>4. ThreadsOwn'
      BY <2>1, <2>2, ThreadMemoryOwned, ThreadsStay
    <2> QED BY <2>3, <2>4, InvFrom
  <1> QED BY <1>1, <1>2, <1>3, <1>4, <1>5, <1>6 DEF HeapNext

-----------------------------------------------------------------------------
(* What the invariant means *)

LEMMA SoundFacts ==
  ASSUME HeapInv
  PROVE  /\ h \in HeapMemory
         /\ Free(h) \in SUBSET Addr /\ Live \in SUBSET Addr
         /\ Live \union Free(h) \in SUBSET Addr /\ Tiles(h, Live \union Free(h))
         /\ Shape(h, Free(h), Live) /\ Coalesced(h, Free(h))
  <1>1. Free(h) \union Live = Live \union Free(h)
    OBVIOUS
  <1> QED BY <1>1 DEF HeapInv, Sound, Shape

LEMMA PartitionFromInv ==
  ASSUME HeapInv
  PROVE  Partition
  <1> DEFINE T == Live \union Free(h)
  <1>1. h \in HeapMemory /\ T \in SUBSET Addr /\ Tiles(h, T)
    BY SoundFacts
  <1> HIDE DEF T
  <1>2. \A a \in T : /\ a \in Nat /\ h.blocks[a] \in Nat /\ h.blocks[a] >= 1
                     /\ a + h.blocks[a] = HeapBlocks \/ a + h.blocks[a] \in T
                     /\ \A b \in T : a < b => a + h.blocks[a] <= b
    BY <1>1, TileFacts
  <1>3. ASSUME NEW x \in Addr
        PROVE  \E a \in T : x \in Extent(h, a) /\ \A b \in T \ {a} : x \notin Extent(h, b)
    <2>0. x \in Nat /\ x < HeapBlocks
      BY HeapAssumption DEF Addr
    <2> DEFINE S == {a \in T : a <= x}
    <2>1. S \subseteq Addr /\ 0 \in S
      <3>1. 0 \in T /\ 0 <= x
        BY <1>1, <2>0 DEF Tiles
      <3>2. S \subseteq Addr
        BY <1>1
      <3> QED BY <3>1, <3>2
    <2>2. PICK a \in S : \A b \in S : b <= a
      <3> HIDE DEF S
      <3>1. S # {}
        BY <2>1
      <3> QED BY <2>1, <3>1, MaxExists
    <2>3. a \in T /\ a <= x
      OBVIOUS
    <2>4. \A b \in T : b <= x => b <= a
      BY <2>2
    <2> HIDE DEF S
    <2>5. x < a + h.blocks[a]
      <3>1. /\ a \in Nat /\ h.blocks[a] \in Nat /\ h.blocks[a] >= 1
            /\ a + h.blocks[a] = HeapBlocks \/ a + h.blocks[a] \in T
        BY <1>2, <2>3
      <3>2. CASE a + h.blocks[a] = HeapBlocks
        BY <3>2, <2>0
      <3>3. CASE a + h.blocks[a] \in T
        <4>1. a + h.blocks[a] <= x => a + h.blocks[a] <= a
          BY <3>3, <2>4
        <4> QED BY <3>1, <4>1, <2>0
      <3> QED BY <3>1, <3>2, <3>3
    <2>6. x \in Extent(h, a)
      BY <1>2, <2>0, <2>3, <2>5 DEF Extent
    <2>7. ASSUME NEW b \in T \ {a}, x \in Extent(h, b) PROVE FALSE
      <3>1. b \in Nat /\ h.blocks[b] \in Nat /\ b <= x /\ x < b + h.blocks[b]
        BY <1>2, <2>0, <2>7 DEF Extent
      <3>2. b < a
        BY <1>2, <2>3, <2>4, <3>1
      <3>3. b + h.blocks[b] <= a
        BY <1>2, <2>3, <3>2
      <3> QED BY <1>2, <2>0, <2>3, <3>1, <3>3
    <2> QED BY <2>3, <2>6, <2>7
  <1> QED BY <1>3 DEF Partition, T

\* A gap lies in a free segment.
LEMMA GapIsFree ==
  ASSUME HeapInv, NEW n \in Nat \ {0}, NEW a \in Addr, Gap(a, n)
  PROVE  \E g \in Free(h) : g <= a /\ n <= h.blocks[g]
  <1> DEFINE T == Live \union Free(h)
  <1>1. /\ h \in HeapMemory /\ T \in SUBSET Addr /\ Tiles(h, T) /\ Coalesced(h, Free(h))
        /\ a \in Nat
    BY SoundFacts DEF Addr
  <1>2. \A g \in T : /\ g \in Nat /\ h.blocks[g] \in Nat /\ h.blocks[g] >= 1
                     /\ g + h.blocks[g] = HeapBlocks \/ g + h.blocks[g] \in T
    <2> HIDE DEF T
    <2> QED BY <1>1, TileFacts
  <1>3. PICK g \in T : a \in Extent(h, g)
    BY PartitionFromInv DEF Partition
  <1>4. /\ g \in Nat /\ h.blocks[g] \in Nat /\ g <= a /\ a < g + h.blocks[g]
    BY <1>1, <1>2, <1>3 DEF Extent
  <1>5. a \in a .. a + n - 1 /\ a + n <= HeapBlocks
    BY <1>1 DEF Gap
  <1>6. g \notin Live
    BY <1>3, <1>5 DEF Gap
  <1>7. a + n <= g + h.blocks[g]
    <2> PICK e : e = g + h.blocks[g]
      OBVIOUS
    <2>1. e \in Nat /\ a < e /\ (e = HeapBlocks \/ e \in T)
      BY <1>2, <1>3, <1>4
    <2>2. CASE e = HeapBlocks
      BY <2>2, <1>5
    <2>3. CASE e \in T
      <3>1. e \notin Free(h)
        BY <1>1, <1>3, <1>6 DEF Coalesced
      <3>2. e \in Live
        BY <2>3, <3>1
      <3>3. e \in Extent(h, e)
        BY <1>2, <2>1, <2>3 DEF Extent
      <3>4. e \notin a .. a + n - 1
        BY <3>2, <3>3 DEF Gap
      <3> QED BY <1>1, <2>1, <3>4
    <2> QED BY <2>1, <2>2, <2>3
  <1>8. n <= h.blocks[g]
    BY <1>1, <1>4, <1>7
  <1> QED BY <1>3, <1>4, <1>6, <1>8

\* The first blocks of a free segment are a gap.
LEMMA FreeIsGap ==
  ASSUME HeapInv, NEW n \in Nat \ {0}, NEW s \in Free(h), n <= h.blocks[s]
  PROVE  Gap(s, n)
  <1> DEFINE T == Live \union Free(h)
  <1>1. h \in HeapMemory /\ T \in SUBSET Addr /\ Tiles(h, T) /\ Shape(h, Free(h), Live)
    BY SoundFacts
  <1>0. s \in T /\ s \notin Live /\ \A b \in Live : b \in T
    BY <1>1 DEF Shape
  <1> HIDE DEF T
  <1>2. \A g \in T : /\ g \in Nat /\ h.blocks[g] \in Nat /\ h.blocks[g] >= 1
                     /\ g + h.blocks[g] <= HeapBlocks
                     /\ \A b \in T : g < b => g + h.blocks[g] <= b
    BY <1>1, TileFacts
  <1>3. s + n <= HeapBlocks
    <2>1. s \in Nat /\ h.blocks[s] \in Nat /\ s + h.blocks[s] <= HeapBlocks
      BY <1>0, <1>2
    <2> QED BY <2>1, HeapAssumption
  <1>4. ASSUME NEW b \in Live PROVE Extent(h, b) \intersect (s .. s + n - 1) = {}
    <2>1. b \in T /\ b # s
      BY <1>0
    <2>2. b + h.blocks[b] <= s \/ s + h.blocks[s] <= b
      BY <1>0, <1>2, <2>1
    <2>3. \A x \in Int : ~(x >= b /\ x <= b + h.blocks[b] - 1 /\ x >= s /\ x <= s + n - 1)
      BY <1>0, <1>2, <2>1, <2>2
    <2>4. /\ b \in Int /\ b + h.blocks[b] - 1 \in Int /\ s \in Int /\ s + n - 1 \in Int
      BY <1>0, <1>2, <2>1
    <2> QED BY <2>3, <2>4 DEF Extent
  <1> QED BY <1>3, <1>4 DEF Gap

LEMMA FirstFitFromInv ==
  ASSUME HeapInv
  PROVE  FirstFit
  <1>1. ASSUME NEW bytes \in Sizes, NEW n, n = calculate_blocks(bytes),
               NEW s, s = Pointer(h, bytes)
        PROVE  /\ s = NULL => \A a \in Addr : ~Gap(a, n)
               /\ s # NULL => Gap(s, n) /\ \A a \in Addr : a < s => ~Gap(a, n)
    <2>1. n \in Nat \ {0} /\ s = valid_segment(h, n)
      BY <1>1, SizeFacts, CalculateBlocks DEF Pointer
    <2>2. /\ s = NULL => \A g \in Free(h) : ~(n <= h.blocks[g])
          /\ s # NULL => /\ s \in Free(h) /\ n <= h.blocks[s]
                         /\ \A g \in Free(h) : n <= h.blocks[g] => s <= g
      <3>1. Shape(h, Free(h), Live)
        BY SoundFacts
      <3>2. /\ s = NULL => \A g \in Free(h) : h.blocks[g] < n
            /\ s # NULL => /\ s \in Free(h) /\ h.blocks[s] >= n
                           /\ \A g \in Free(h) : h.blocks[g] >= n => s <= g
        BY <2>1, <3>1, ValidSegment
      <3>3. \A g \in Free(h) : h.blocks[g] \in Nat
        BY SoundFacts, Fields
      <3> QED BY <2>1, <3>2, <3>3
    <2>3. CASE s = NULL
      BY <2>1, <2>2, <2>3, GapIsFree
    <2>4. CASE s # NULL
      <3>1. Gap(s, n)
        BY <2>1, <2>2, <2>4, FreeIsGap
      <3>2. ASSUME NEW a \in Addr, a < s, Gap(a, n) PROVE FALSE
        <4>1. PICK g \in Free(h) : g <= a /\ n <= h.blocks[g]
          BY <2>1, <3>2, GapIsFree
        <4>2. s <= g
          BY <2>2, <2>4, <4>1
        <4>3. a \in Nat /\ s \in Nat /\ g \in Nat
          BY <2>2, <2>4, SoundFacts DEF Addr
        <4> QED BY <3>2, <4>1, <4>2, <4>3
      <3> QED BY <2>4, <3>1, <3>2
    <2> QED BY <2>3, <2>4
  <1> QED BY <1>1 DEF FirstFit

-----------------------------------------------------------------------------
(* The theorems: users call __memory_try_expand only where it changes no   *)
(* link.                                                                   *)

\* The invariant: the list goes through the free segments in order, the segments
\* cover the heap, no two free ones touch, and threads share no object.
THEOREM HeapInvariant ==
  ASSUME Disciplined
  PROVE  HeapSpec => []HeapInv
  <1>1. HeapInit => HeapInv
    BY InitInv
  <1>2. HeapInv /\ [HeapNext]_heap_vars => HeapInv'
    BY NextInv
  <1> QED BY <1>1, <1>2, PTL DEF HeapSpec

\* The memory keeps its types.
THEOREM HeapTypeInvariant ==
  ASSUME Disciplined
  PROVE  HeapSpec => []HeapTypeOK
  <1>1. HeapInv => HeapTypeOK
    BY DEF HeapInv
  <1> QED BY <1>1, HeapInvariant, PTL

\* Every block belongs to one segment: none overlap, none is lost.
THEOREM HeapPartition ==
  ASSUME Disciplined
  PROVE  HeapSpec => []Partition
  <1>1. HeapInv => Partition
    BY PartitionFromInv
  <1> QED BY <1>1, HeapInvariant, PTL

\* A segment has room for what its owner asked for.
THEOREM HeapLargeEnough ==
  ASSUME Disciplined
  PROVE  HeapSpec => []LargeEnough
  <1>1. HeapInv => LargeEnough
    BY DEF HeapInv
  <1> QED BY <1>1, HeapInvariant, PTL

\* An allocation gets the lowest gap that is large enough, and fails only if there
\* is none.
THEOREM HeapFirstFit ==
  ASSUME Disciplined
  PROVE  HeapSpec => []FirstFit
  <1>1. HeapInv => FirstFit
    BY FirstFitFromInv
  <1> QED BY <1>1, HeapInvariant, PTL

\* No call changes the size of a segment that keeps its owner.
THEOREM HeapSizeIsKept ==
  ASSUME Disciplined
  PROVE  HeapSpec => SizeIsKept
  <1>1. HeapInv /\ [HeapNext]_heap_vars => KeptStep
    BY NextInv
  <1>2. KeptStep => \A a \in Addr : asked[a] # NULL /\ asked'[a] # NULL
                                      => h'.blocks[a] = h.blocks[a]
    BY DEF KeptStep, Kept
  <1> QED BY <1>1, <1>2, HeapInvariant, PTL DEF HeapSpec, SizeIsKept
=============================================================================
