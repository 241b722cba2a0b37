------------------------- MODULE ThreadLocalProofs --------------------------
(***************************************************************************)
(* Theorems about ThreadLocal, for users that destroy only what is alone   *)
(* on its lists.  First what a list is and how it grows, then what the C   *)
(* functions do to both lists of a datum, then one lemma for each action.  *)
(***************************************************************************)
EXTENDS ThreadLocal, TLAPS, FiniteSetTheorems, FunctionTheorems, WellFoundedInduction

-----------------------------------------------------------------------------
(* Lists *)

\* Induction over the natural numbers, for a set instead of a predicate.
LEMMA SetInduction ==
  ASSUME NEW S, 0 \in S, \A n \in Nat : n \in S => n + 1 \in S
  PROVE  \A n \in Nat : n \in S
<1> DEFINE T == Nat \ S
           R == {ss \in Nat \X Nat : ss[1] < ss[2]}
<1> SUFFICES ASSUME T # {} PROVE FALSE
  OBVIOUS
<1>1. IsWellFoundedOn(R, Nat)
  BY NatLessThanWellFounded DEF OpToRel
<1> HIDE DEF R
<1>2. PICK x \in T : \A y \in T : ~ (<<y, x>> \in R)
  BY <1>1, WFMin
<1>3. x - 1 \in Nat /\ x - 1 < x /\ (x - 1) + 1 = x
  OBVIOUS
<1>4. x - 1 \in T
  BY <1>3
<1>5. <<x - 1, x>> \in R
  BY <1>3 DEF R
<1> QED BY <1>2, <1>4, <1>5

\* A list has no more data than there are, and as many as its set.
LEMMA ListSize ==
  ASSUME NEW Q \in SUBSET Data, NEW q \in Seq(Q),
         \A d \in Q : \E i \in 1 .. Len(q) : q[i] = d,
         \A i, j \in 1 .. Len(q) : q[i] = q[j] => i = j
  PROVE  /\ Cardinality(Data) \in Nat /\ Len(q) <= Cardinality(Data)
         /\ Len(q) = Cardinality(Q)
<1>1. IsFiniteSet(Data) /\ Cardinality(Data) \in Nat
  BY ThreadLocalAssumption, FS_CardinalityType
<1>2. Len(q) \in Nat /\ IsFiniteSet(1 .. Len(q)) /\ Cardinality(1 .. Len(q)) = Len(q)
  <2>1. 1 \in Int /\ Len(q) \in Int /\ Len(q) \in Nat
    OBVIOUS
  <2>2. /\ IsFiniteSet(1 .. Len(q))
        /\ Cardinality(1 .. Len(q)) = IF 1 > Len(q) THEN 0 ELSE Len(q) - 1 + 1
    BY <2>1, FS_Interval
  <2> QED BY <2>1, <2>2
<1>3. IsFiniteSet(Q) /\ Cardinality(Q) <= Cardinality(Data)
  BY <1>1, FS_Subset
<1>4. q \in Surjection(1 .. Len(q), Q) /\ q \in Injection(1 .. Len(q), Q)
  <2>1. q \in [1 .. Len(q) -> Q]
    OBVIOUS
  <2>2. q \in Surjection(1 .. Len(q), Q)
    BY <2>1 DEF Surjection
  <2>3. q \in Injection(1 .. Len(q), Q)
    BY <2>1, Fun_IsInj
  <2> QED BY <2>2, <2>3
<1>5. Cardinality(1 .. Len(q)) = Cardinality(Q)
  BY <1>2, <1>4, FS_Surjection
<1> QED BY <1>1, <1>2, <1>3, <1>5

\* f is the walk along the links, as Chain makes it.
IsWalk(f, next, h, n) ==
  f = [i \in 0 .. n |->
         IF i = 0 THEN h ELSE IF f[i - 1] = NULL THEN NULL ELSE next[f[i - 1]]]

\* The walk is along the list and stays at its end.
IsAlong(f, q, n) == \A i \in 0 .. n : f[i] = IF i < Len(q) THEN q[i + 1] ELSE NULL

LEMMA WalkIsList ==
  ASSUME NEW Q \in SUBSET Data, NEW next, NEW prev, NEW h, NEW q, Linked(next, prev, h, q, Q),
         NEW n \in Nat, NEW f, IsWalk(f, next, h, n)
  PROVE  IsAlong(f, q, n)
<1> DEFINE S == {i \in Nat : i \in 0 .. n => f[i] = IF i < Len(q) THEN q[i + 1] ELSE NULL}
<1>1. NULL \notin Data /\ Len(q) \in Nat
  BY ThreadLocalAssumption DEF Linked
<1>2. ASSUME NEW i \in 0 .. n
      PROVE  f[i] = IF i = 0 THEN h ELSE IF f[i - 1] = NULL THEN NULL ELSE next[f[i - 1]]
  BY DEF IsWalk
<1>3. 0 \in S
  <2>1. f[0] = h
    BY <1>2
  <2> QED BY <1>1, <2>1 DEF Linked
<1>4. ASSUME NEW i \in Nat, i \in S PROVE i + 1 \in S
  <2> SUFFICES ASSUME i + 1 \in 0 .. n
               PROVE  f[i + 1] = IF i + 1 < Len(q) THEN q[i + 2] ELSE NULL
    OBVIOUS
  <2>1. f[i + 1] = IF f[i] = NULL THEN NULL ELSE next[f[i]]
    BY <1>2
  <2>2. f[i] = IF i < Len(q) THEN q[i + 1] ELSE NULL
    BY <1>4
  <2>3. CASE i < Len(q)
    <3>1. q[i + 1] \in Q /\ i + 1 \in 1 .. Len(q)
      BY <1>1, <2>3 DEF Linked
    <3>2. next[q[i + 1]] = IF i + 1 = Len(q) THEN NULL ELSE q[i + 2]
      BY <3>1 DEF Linked
    <3> QED BY <1>1, <2>1, <2>2, <2>3, <3>1, <3>2
  <2>4. CASE ~(i < Len(q))
    BY <1>1, <2>1, <2>2, <2>4
  <2> QED BY <2>3, <2>4
<1> HIDE DEF S
<1>5. \A i \in Nat : i \in S
  BY <1>3, <1>4, SetInduction
<1> QED BY <1>5 DEF S, IsAlong

\* What Chain computes is the list.
LEMMA ChainIsList ==
  ASSUME NEW Q \in SUBSET Data, NEW next, NEW prev, NEW h, NEW q, Linked(next, prev, h, q, Q)
  PROVE  Chain(h, next) = q
<1> DEFINE N == Cardinality(Data)
           f == CHOOSE g : IsWalk(g, next, h, N)
           g == [i \in 0 .. N |-> IF i < Len(q) THEN q[i + 1] ELSE NULL]
<1>1. N \in Nat /\ Len(q) \in Nat /\ Len(q) <= N /\ NULL \notin Data
  BY ListSize, ThreadLocalAssumption DEF Linked
<1>2. Chain(h, next) = [i \in 1 .. Cardinality({j \in 0 .. N : f[j] # NULL}) |-> f[i - 1]]
  BY DEF Chain, IsWalk
<1> HIDE DEF N
<1>3. IsWalk(g, next, h, N)
  <2>1. ASSUME NEW i \in 0 .. N
        PROVE  g[i] = IF i = 0 THEN h ELSE IF g[i - 1] = NULL THEN NULL ELSE next[g[i - 1]]
    <3>1. CASE i = 0
      BY <1>1, <3>1 DEF Linked
    <3>2. CASE i # 0
      <4>1. i - 1 \in 0 .. N /\ g[i - 1] = IF i - 1 < Len(q) THEN q[i] ELSE NULL
        BY <1>1, <3>2
      <4>2. i \in 1 .. Len(q) => q[i] \in Q /\ next[q[i]] = IF i = Len(q) THEN NULL ELSE q[i + 1]
        <5>1. q \in Seq(Q)
          BY DEF Linked
        <5>2. \A k \in 1 .. Len(q) : q[k] \in Q
          BY <5>1
        <5>3. \A k \in 1 .. Len(q) : next[q[k]] = IF k = Len(q) THEN NULL ELSE q[k + 1]
          BY DEF Linked
        <5> QED BY <5>2, <5>3
      <4> QED BY <1>1, <3>2, <4>1, <4>2
    <3> QED BY <3>1, <3>2
  <2> QED BY <2>1 DEF IsWalk
<1>4. IsWalk(f, next, h, N)
  BY <1>3
<1> HIDE DEF f, g
<1>5. \A i \in 0 .. N : f[i] = IF i < Len(q) THEN q[i + 1] ELSE NULL
  <2>1. IsAlong(f, q, N)
    BY <1>1, <1>4, WalkIsList
  <2> QED BY <2>1 DEF IsAlong
<1>6. {j \in 0 .. N : f[j] # NULL} = 0 .. Len(q) - 1
  <2>1. \A j \in 0 .. Len(q) - 1 : q[j + 1] \in Data
    BY DEF Linked
  <2> QED BY <1>1, <1>5, <2>1
<1>7. Cardinality(0 .. Len(q) - 1) = Len(q)
  <2>1. 0 \in Int /\ Len(q) - 1 \in Int
    BY <1>1
  <2>2. Cardinality(0 .. Len(q) - 1) = IF 0 > Len(q) - 1 THEN 0 ELSE Len(q) - 1 - 0 + 1
    BY <2>1, FS_Interval
  <2> QED BY <1>1, <2>2
<1>8. \A i \in 1 .. Len(q) : f[i - 1] = q[i]
  BY <1>1, <1>5
<1>9. q = [i \in 1 .. Len(q) |-> q[i]]
  BY DEF Linked
<1>10. Chain(h, next) = [i \in 1 .. Len(q) |-> f[i - 1]]
  BY <1>2, <1>6, <1>7
<1> QED BY <1>8, <1>9, <1>10

\* A list does not change if its links do not.
LEMMA LinkedFrame ==
  ASSUME NEW Q, NEW next, NEW prev, NEW h, NEW q, Linked(next, prev, h, q, Q),
         NEW n2, NEW p2, \A d \in Q : n2[d] = next[d] /\ p2[d] = prev[d]
  PROVE  Linked(n2, p2, h, q, Q)
<1>1. \A i \in 1 .. Len(q) : q[i] \in Q
  BY DEF Linked
<1> QED BY <1>1 DEF Linked

\* A list without data.
LEMMA LinkedEmpty ==
  ASSUME NEW next, NEW prev
  PROVE  Linked(next, prev, NULL, <<>>, {})
BY DEF Linked

\* The head of a list.
LEMMA LinkedHead ==
  ASSUME NEW Q, NEW next, NEW prev, NEW h, NEW q, Linked(next, prev, h, q, Q)
  PROVE  /\ Q = {} => h = NULL /\ q = <<>>
         /\ Q # {} => h \in Q /\ prev[h] = NULL
         /\ h # NULL => h \in Q
<1>1. q \in Seq(Q) /\ Len(q) \in Nat /\ \A i \in 1 .. Len(q) : q[i] \in Q
  BY DEF Linked
<1>2. Len(q) = 0 => Q = {} /\ q = <<>> /\ h = NULL
  <2>1. (\A d \in Q : \E i \in 1 .. Len(q) : q[i] = d) /\ (Len(q) = 0 => h = NULL)
    BY DEF Linked
  <2> QED BY <1>1, <2>1
<1>3. Len(q) # 0 => h \in Q /\ prev[h] = NULL
  <2>1. \A i \in 1 .. Len(q) : prev[q[i]] = IF i = 1 THEN NULL ELSE q[i - 1]
    BY DEF Linked
  <2>2. Len(q) # 0 => h = q[1]
    BY DEF Linked
  <2> QED BY <1>1, <2>1, <2>2
<1> QED BY <1>2, <1>3

\* Put at the head of a list.
LEMMA LinkedPut ==
  ASSUME NEW Q \in SUBSET Data, NEW next, NEW prev, NEW h, NEW q, Linked(next, prev, h, q, Q),
         NEW new \in Data \ Q, NEW n2, NEW p2,
         \A d \in Data :
           /\ n2[d] = IF d = new THEN h ELSE next[d]
           /\ p2[d] = IF d = new THEN NULL ELSE IF d = h THEN new ELSE prev[d]
  PROVE  Linked(n2, p2, new, <<new>> \o q, Q \union {new})
<1> DEFINE r == <<new>> \o q
<1>1. q \in Seq(Q) /\ Len(q) \in Nat /\ \A i \in 1 .. Len(q) : q[i] \in Q
  BY DEF Linked
<1>2. /\ r \in Seq(Q \union {new}) /\ Len(r) = Len(q) + 1 /\ r[1] = new
      /\ \A i \in 2 .. Len(r) : r[i] = q[i - 1]
  BY <1>1
<1>3. \A i \in 1 .. Len(q) : r[i + 1] = q[i]
  BY <1>1, <1>2
<1> HIDE DEF r
<1>4. \A d \in Q \union {new} : \E i \in 1 .. Len(r) : r[i] = d
  <2>1. ASSUME NEW d \in Q PROVE \E i \in 1 .. Len(r) : r[i] = d
    <3>1. PICK i \in 1 .. Len(q) : q[i] = d
      BY DEF Linked
    <3>2. i + 1 \in 1 .. Len(r) /\ r[i + 1] = d
      BY <1>1, <1>2, <1>3, <3>1
    <3> QED BY <3>2
  <2> QED BY <1>1, <1>2, <2>1
<1>5. \A i, j \in 1 .. Len(r) : r[i] = r[j] => i = j
  <2>1. ASSUME NEW i \in 1 .. Len(r), NEW j \in 1 .. Len(r), r[i] = r[j] PROVE i = j
    <3>1. CASE i = 1 \/ j = 1
      <4>1. \A k \in 1 .. Len(r) : k # 1 => r[k] # new
        <5> SUFFICES ASSUME NEW k \in 1 .. Len(r), k # 1 PROVE r[k] # new
          OBVIOUS
        <5>1. k - 1 \in 1 .. Len(q) /\ k \in 2 .. Len(r)
          BY <1>1, <1>2
        <5> QED BY <1>1, <1>2, <5>1
      <4> QED BY <1>2, <2>1, <3>1, <4>1
    <3>2. CASE i # 1 /\ j # 1
      <4>1. i - 1 \in 1 .. Len(q) /\ j - 1 \in 1 .. Len(q) /\ q[i - 1] = q[j - 1]
        BY <1>1, <1>2, <2>1, <3>2
      <4>2. i - 1 = j - 1
        BY <4>1 DEF Linked
      <4> QED BY <4>2
    <3> QED BY <3>1, <3>2
  <2> QED BY <2>1
<1>6. ASSUME NEW i \in 1 .. Len(r)
      PROVE  /\ n2[r[i]] = IF i = Len(r) THEN NULL ELSE r[i + 1]
             /\ p2[r[i]] = IF i = 1 THEN NULL ELSE r[i - 1]
  <2>1. CASE i = 1
    <3>1. n2[new] = h /\ p2[new] = NULL
      OBVIOUS
    <3>2. h = IF Len(q) = 0 THEN NULL ELSE q[1]
      BY DEF Linked
    <3> QED BY <1>1, <1>2, <1>3, <2>1, <3>1, <3>2
  <2>2. CASE i # 1
    <3>1. i - 1 \in 1 .. Len(q) /\ r[i] = q[i - 1] /\ q[i - 1] \in Q
      BY <1>1, <1>2, <2>2
    <3>2. /\ next[q[i - 1]] = IF i - 1 = Len(q) THEN NULL ELSE q[i - 1 + 1]
          /\ prev[q[i - 1]] = IF i - 1 = 1 THEN NULL ELSE q[i - 1 - 1]
      BY <3>1 DEF Linked
    <3>6. h = q[1] /\ (q[i - 1] = q[1] => i - 1 = 1)
      <4>1. 1 \in 1 .. Len(q) /\ Len(q) # 0
        BY <1>1, <3>1
      <4> QED BY <3>1, <4>1 DEF Linked
    <3>3. /\ n2[r[i]] = next[q[i - 1]]
          /\ p2[r[i]] = IF q[i - 1] = h THEN new ELSE prev[q[i - 1]]
      BY <3>1
    <3>4. n2[r[i]] = IF i = Len(r) THEN NULL ELSE r[i + 1]
      BY <1>1, <1>2, <1>3, <3>1, <3>2, <3>3
    <3>5. p2[r[i]] = r[i - 1]
      BY <1>1, <1>2, <2>2, <3>1, <3>2, <3>3, <3>6
    <3> QED BY <2>2, <3>4, <3>5
  <2> QED BY <2>1, <2>2
<1>7. Linked(n2, p2, new, r, Q \union {new})
  BY <1>1, <1>2, <1>4, <1>5, <1>6 DEF Linked
<1> QED BY <1>7 DEF r

-----------------------------------------------------------------------------
(* What the C functions do to the lists *)

SameContents(r, m) ==
  \A e \in Data : /\ r.datum[e].live = m.datum[e].live
                  /\ r.datum[e].storage = m.datum[e].storage
                  /\ r.datum[e].thread = m.datum[e].thread
                  /\ r.datum[e].data = m.datum[e].data
SameThreadLinks(r, m) == NextData(r) = NextData(m) /\ PrevData(r) = PrevData(m)
SameStorageLinks(r, m) == NextThread(r) = NextThread(m) /\ PrevThread(r) = PrevThread(m)

LEMMA MemoryParts ==
  ASSUME NEW m \in Memories
  PROVE  /\ m.thread \in [Threads -> ThreadRecords]
         /\ m.storage \in [Storages -> StorageRecords]
         /\ m.datum \in [Data -> DatumRecords]
         /\ m = [thread |-> m.thread, storage |-> m.storage, datum |-> m.datum]
BY DEF Memories

LEMMA LinksAreFunctions ==
  ASSUME NEW m \in Memories
  PROVE  /\ NextData(m) \in [Data -> Link] /\ PrevData(m) \in [Data -> Link]
         /\ NextThread(m) \in [Data -> Link] /\ PrevThread(m) \in [Data -> Link]
<1>1. \A d \in Data : m.datum[d] \in DatumRecords
  BY MemoryParts
<1> QED BY <1>1 DEF NextData, PrevData, NextThread, PrevThread, DatumRecords

\* d is at the head of the list of t.
LinkedToThread(r, m, d, t) ==
  LET head == m.thread[t].local_data_head
  IN  /\ r \in Memories /\ r.storage = m.storage
      /\ r.thread = [m.thread EXCEPT ![t].local_data_head = d]
      /\ SameContents(r, m) /\ SameStorageLinks(r, m)
      /\ NextData(r) = [NextData(m) EXCEPT ![d] = head]
      /\ PrevData(r) = [e \in Data |-> IF e = d THEN NULL ELSE IF e = head THEN d
                                       ELSE PrevData(m)[e]]

LEMMA LinkToThreadEffect ==
  ASSUME NEW m \in Memories, NEW d \in Data, NEW t \in Threads,
         m.thread[t].local_data_head # d
  PROVE  LinkedToThread(LinkToThread(m, d, t), m, d, t)
<1> DEFINE head == m.thread[t].local_data_head
           v == [m.datum[d] EXCEPT !.prev_data = NULL, !.next_data = head]
           w == [m.datum[head] EXCEPT !.prev_data = d]
           T1 == [m.thread EXCEPT ![t].local_data_head = d]
           D1 == [m.datum EXCEPT ![d] = v]
           D2 == IF head = NULL THEN D1 ELSE [D1 EXCEPT ![head].prev_data = d]
           m1 == [m EXCEPT !.datum[d] = [@ EXCEPT !.prev_data = NULL, !.next_data = head],
                           !.thread[t].local_data_head = d]
           r == LinkToThread(m, d, t)
<1>1. /\ m.thread \in [Threads -> ThreadRecords] /\ m.datum \in [Data -> DatumRecords]
      /\ m.storage \in [Storages -> StorageRecords]
      /\ m = [thread |-> m.thread, storage |-> m.storage, datum |-> m.datum]
  BY MemoryParts
<1>2. head \in Link /\ NULL \notin Data /\ (head # NULL => head \in Data)
  BY <1>1, ThreadLocalAssumption DEF ThreadRecords, Link
<1>3. /\ v \in DatumRecords /\ m.datum[d] \in DatumRecords
      /\ head # NULL => w \in DatumRecords /\ m.datum[head] \in DatumRecords
  <2>1. m.datum[d] \in DatumRecords /\ (head # NULL => m.datum[head] \in DatumRecords)
    BY <1>1, <1>2
  <2>2. v \in DatumRecords
    BY <1>2, <2>1 DEF DatumRecords, Link
  <2>3. head # NULL => w \in DatumRecords
    BY <2>1 DEF DatumRecords, Link
  <2> QED BY <2>1, <2>2, <2>3
<1>4. T1 \in [Threads -> ThreadRecords]
  BY <1>1 DEF ThreadRecords, Link
<1>5. m1 = [thread |-> T1, storage |-> m.storage, datum |-> D1]
  <2>1. PICK x : x = v
    OBVIOUS
  <2>2. m1 = [m EXCEPT !.datum[d] = x, !.thread[t].local_data_head = d]
    BY <1>1, <2>1
  <2>3. D1 = [m.datum EXCEPT ![d] = x]
    BY <2>1
  <2> HIDE DEF m1, v, D1
  <2> QED BY <1>1, <2>2, <2>3
<1>6. r = IF head = NULL THEN m1 ELSE [m1 EXCEPT !.datum[head].prev_data = d]
  BY DEF LinkToThread
<1> HIDE DEF m1, T1
<1>7. r = [thread |-> T1, storage |-> m.storage, datum |-> D2]
  <2> HIDE DEF D1
  <2> QED BY <1>5, <1>6
<1>8. \A e \in Data : D2[e] = IF e = d THEN v ELSE IF e = head THEN w ELSE m.datum[e]
  <2> HIDE DEF v
  <2> QED BY <1>1, <1>2
<1>9. D2 \in [Data -> DatumRecords]
  <2>1. DOMAIN D2 = Data /\ D2 = [e \in Data |-> D2[e]]
    BY <1>1
  <2> HIDE DEF D2, v, w
  <2>2. \A e \in Data : D2[e] \in DatumRecords
    BY <1>1, <1>2, <1>3, <1>8
  <2> QED BY <2>1, <2>2
<1> HIDE DEF D2, r
<1>10. r \in Memories /\ r.storage = m.storage /\ r.thread = T1 /\ r.datum = D2
  BY <1>1, <1>4, <1>7, <1>9 DEF Memories
<1>11. /\ v.live = m.datum[d].live /\ v.storage = m.datum[d].storage
       /\ v.thread = m.datum[d].thread /\ v.data = m.datum[d].data
       /\ v.prev_thread = m.datum[d].prev_thread /\ v.next_thread = m.datum[d].next_thread
       /\ v.prev_data = NULL /\ v.next_data = head
  BY <1>3 DEF DatumRecords
<1>12. head # NULL =>
         /\ w.live = m.datum[head].live /\ w.storage = m.datum[head].storage
         /\ w.thread = m.datum[head].thread /\ w.data = m.datum[head].data
         /\ w.prev_thread = m.datum[head].prev_thread
         /\ w.next_thread = m.datum[head].next_thread
         /\ w.prev_data = d /\ w.next_data = m.datum[head].next_data
  BY <1>3 DEF DatumRecords
<1> HIDE DEF v, w
<1>13. SameContents(r, m)
  BY <1>2, <1>8, <1>10, <1>11, <1>12 DEF SameContents
<1>14. SameStorageLinks(r, m)
  BY <1>2, <1>8, <1>10, <1>11, <1>12 DEF SameStorageLinks, NextThread, PrevThread
<1>15. NextData(r) = [NextData(m) EXCEPT ![d] = head]
  BY <1>2, <1>8, <1>10, <1>11, <1>12 DEF NextData
<1>16. PrevData(r) = [e \in Data |-> IF e = d THEN NULL ELSE IF e = head THEN d
                                     ELSE PrevData(m)[e]]
  BY <1>2, <1>8, <1>10, <1>11, <1>12 DEF PrevData
<1>17. LinkedToThread(r, m, d, t)
  BY <1>10, <1>13, <1>14, <1>15, <1>16 DEF LinkedToThread, T1
<1> QED BY <1>17 DEF r

\* d is at the head of the list of s.
LinkedToStorage(r, m, d, s) ==
  LET head == m.storage[s].data_head
  IN  /\ r \in Memories /\ r.thread = m.thread
      /\ r.storage = [m.storage EXCEPT ![s].data_head = d]
      /\ SameContents(r, m) /\ SameThreadLinks(r, m)
      /\ NextThread(r) = [NextThread(m) EXCEPT ![d] = head]
      /\ PrevThread(r) = [e \in Data |-> IF e = d THEN NULL ELSE IF e = head THEN d
                                         ELSE PrevThread(m)[e]]

LEMMA LinkToStorageEffect ==
  ASSUME NEW m \in Memories, NEW d \in Data, NEW s \in Storages,
         m.storage[s].data_head # d
  PROVE  LinkedToStorage(LinkToStorage(m, d, s), m, d, s)
<1> DEFINE head == m.storage[s].data_head
           v == [m.datum[d] EXCEPT !.prev_thread = NULL, !.next_thread = head]
           w == [m.datum[head] EXCEPT !.prev_thread = d]
           T1 == [m.storage EXCEPT ![s].data_head = d]
           D1 == [m.datum EXCEPT ![d] = v]
           D2 == IF head = NULL THEN D1 ELSE [D1 EXCEPT ![head].prev_thread = d]
           m1 == [m EXCEPT !.datum[d] = [@ EXCEPT !.prev_thread = NULL, !.next_thread = head],
                           !.storage[s].data_head = d]
           r == LinkToStorage(m, d, s)
<1>1. /\ m.storage \in [Storages -> StorageRecords] /\ m.datum \in [Data -> DatumRecords]
      /\ m.thread \in [Threads -> ThreadRecords]
      /\ m = [thread |-> m.thread, storage |-> m.storage, datum |-> m.datum]
  BY MemoryParts
<1>2. head \in Link /\ NULL \notin Data /\ (head # NULL => head \in Data)
  BY <1>1, ThreadLocalAssumption DEF StorageRecords, Link
<1>3. /\ v \in DatumRecords /\ m.datum[d] \in DatumRecords
      /\ head # NULL => w \in DatumRecords /\ m.datum[head] \in DatumRecords
  <2>1. m.datum[d] \in DatumRecords /\ (head # NULL => m.datum[head] \in DatumRecords)
    BY <1>1, <1>2
  <2>2. v \in DatumRecords
    BY <1>2, <2>1 DEF DatumRecords, Link
  <2>3. head # NULL => w \in DatumRecords
    BY <2>1 DEF DatumRecords, Link
  <2> QED BY <2>1, <2>2, <2>3
<1>4. T1 \in [Storages -> StorageRecords]
  BY <1>1 DEF StorageRecords, Link
<1>5. m1 = [thread |-> m.thread, storage |-> T1, datum |-> D1]
  <2>1. PICK x : x = v
    OBVIOUS
  <2>2. m1 = [m EXCEPT !.datum[d] = x, !.storage[s].data_head = d]
    BY <1>1, <2>1
  <2>3. D1 = [m.datum EXCEPT ![d] = x]
    BY <2>1
  <2> HIDE DEF m1, v, D1
  <2> QED BY <1>1, <2>2, <2>3
<1>6. r = IF head = NULL THEN m1 ELSE [m1 EXCEPT !.datum[head].prev_thread = d]
  BY DEF LinkToStorage
<1> HIDE DEF m1, T1
<1>7. r = [thread |-> m.thread, storage |-> T1, datum |-> D2]
  <2> HIDE DEF D1
  <2> QED BY <1>5, <1>6
<1>8. \A e \in Data : D2[e] = IF e = d THEN v ELSE IF e = head THEN w ELSE m.datum[e]
  <2> HIDE DEF v
  <2> QED BY <1>1, <1>2
<1>9. D2 \in [Data -> DatumRecords]
  <2>1. DOMAIN D2 = Data /\ D2 = [e \in Data |-> D2[e]]
    BY <1>1
  <2> HIDE DEF D2, v, w
  <2>2. \A e \in Data : D2[e] \in DatumRecords
    BY <1>1, <1>2, <1>3, <1>8
  <2> QED BY <2>1, <2>2
<1> HIDE DEF D2, r
<1>10. r \in Memories /\ r.thread = m.thread /\ r.storage = T1 /\ r.datum = D2
  BY <1>1, <1>4, <1>7, <1>9 DEF Memories
<1>11. /\ v.live = m.datum[d].live /\ v.storage = m.datum[d].storage
       /\ v.thread = m.datum[d].thread /\ v.data = m.datum[d].data
       /\ v.prev_data = m.datum[d].prev_data /\ v.next_data = m.datum[d].next_data
       /\ v.prev_thread = NULL /\ v.next_thread = head
  BY <1>3 DEF DatumRecords
<1>12. head # NULL =>
         /\ w.live = m.datum[head].live /\ w.storage = m.datum[head].storage
         /\ w.thread = m.datum[head].thread /\ w.data = m.datum[head].data
         /\ w.prev_data = m.datum[head].prev_data
         /\ w.next_data = m.datum[head].next_data
         /\ w.prev_thread = d /\ w.next_thread = m.datum[head].next_thread
  BY <1>3 DEF DatumRecords
<1> HIDE DEF v, w
<1>13. SameContents(r, m)
  BY <1>2, <1>8, <1>10, <1>11, <1>12 DEF SameContents
<1>14. SameThreadLinks(r, m)
  BY <1>2, <1>8, <1>10, <1>11, <1>12 DEF SameThreadLinks, NextData, PrevData
<1>15. NextThread(r) = [NextThread(m) EXCEPT ![d] = head]
  BY <1>2, <1>8, <1>10, <1>11, <1>12 DEF NextThread
<1>16. PrevThread(r) = [e \in Data |-> IF e = d THEN NULL ELSE IF e = head THEN d
                                     ELSE PrevThread(m)[e]]
  BY <1>2, <1>8, <1>10, <1>11, <1>12 DEF PrevThread
<1>17. LinkedToStorage(r, m, d, s)
  BY <1>10, <1>13, <1>14, <1>15, <1>16 DEF LinkedToStorage, T1
<1> QED BY <1>17 DEF r

-----------------------------------------------------------------------------
(* What the C functions do to lists of at most one datum *)

LEMMA FoldThreadNone ==
  ASSUME NEW m
  PROVE  FoldLeft(UnlinkFromThread, m, <<>>) = m
<1> DEFINE D == DOMAIN <<>>
           P(f) == f = [S \in SUBSET D |->
                          IF S = {} THEN m
                          ELSE UnlinkFromThread(f[S \ {Max(S)}], <<>>[Max(S)])]
           g == [S \in SUBSET D |-> m]
           c == CHOOSE f : P(f)
<1>1. D = {}
  OBVIOUS
<1>2. FoldLeft(UnlinkFromThread, m, <<>>) = c[D]
  BY DEF FoldLeft, MapThenFoldSet
<1>3. P(g)
  BY <1>1
<1>4. P(c)
  BY <1>3
<1>5. c[D] = IF D = {} THEN m ELSE UnlinkFromThread(c[D \ {Max(D)}], <<>>[Max(D)])
  BY <1>4
<1> QED BY <1>1, <1>2, <1>5

LEMMA FoldThreadOne ==
  ASSUME NEW m, NEW d
  PROVE  FoldLeft(UnlinkFromThread, m, <<d>>) = UnlinkFromThread(m, d)
<1> DEFINE D == DOMAIN <<d>>
           P(f) == f = [S \in SUBSET D |->
                          IF S = {} THEN m
                          ELSE UnlinkFromThread(f[S \ {Max(S)}], <<d>>[Max(S)])]
           r == UnlinkFromThread(m, d)
           g == [S \in SUBSET D |-> IF S = {} THEN m ELSE r]
           c == CHOOSE f : P(f)
<1>1. D = {1} /\ <<d>>[1] = d
  OBVIOUS
<1>2. \A S \in SUBSET D : S # {} => S = {1}
  BY <1>1
<1>3. Max({1}) = 1
  BY DEF Max
<1>4. FoldLeft(UnlinkFromThread, m, <<d>>) = c[D]
  BY DEF FoldLeft, MapThenFoldSet
<1> HIDE DEF D
<1>5. P(g)
  <2>1. ASSUME NEW S \in SUBSET D
        PROVE  g[S] = IF S = {} THEN m ELSE UnlinkFromThread(g[S \ {Max(S)}], <<d>>[Max(S)])
    <3>1. CASE S = {}
      BY <3>1
    <3>2. CASE S # {}
      <4>1. S = {1} /\ Max(S) = 1 /\ S \ {Max(S)} = {}
        BY <1>2, <1>3, <3>2
      <4>2. g[S] = r /\ g[S \ {Max(S)}] = m
        BY <3>2, <4>1
      <4> QED BY <1>1, <3>2, <4>1, <4>2
    <3> QED BY <3>1, <3>2
  <2> QED BY <2>1
<1>6. P(c)
  BY <1>5
<1> HIDE DEF c, g
<1>7. \A S \in SUBSET D :
        c[S] = IF S = {} THEN m ELSE UnlinkFromThread(c[S \ {Max(S)}], <<d>>[Max(S)])
  BY <1>6
<1>8. c[{}] = m
  BY <1>7
<1>9. c[{1}] = UnlinkFromThread(c[{1} \ {1}], <<d>>[1])
  BY <1>1, <1>3, <1>7
<1>10. {1} \ {1} = {}
  OBVIOUS
<1> QED BY <1>1, <1>4, <1>8, <1>9, <1>10

LEMMA FoldStorageNone ==
  ASSUME NEW m
  PROVE  FoldLeft(UnlinkFromStorage, m, <<>>) = m
<1> DEFINE D == DOMAIN <<>>
           P(f) == f = [S \in SUBSET D |->
                          IF S = {} THEN m
                          ELSE UnlinkFromStorage(f[S \ {Max(S)}], <<>>[Max(S)])]
           g == [S \in SUBSET D |-> m]
           c == CHOOSE f : P(f)
<1>1. D = {}
  OBVIOUS
<1>2. FoldLeft(UnlinkFromStorage, m, <<>>) = c[D]
  BY DEF FoldLeft, MapThenFoldSet
<1>3. P(g)
  BY <1>1
<1>4. P(c)
  BY <1>3
<1>5. c[D] = IF D = {} THEN m ELSE UnlinkFromStorage(c[D \ {Max(D)}], <<>>[Max(D)])
  BY <1>4
<1> QED BY <1>1, <1>2, <1>5

LEMMA FoldStorageOne ==
  ASSUME NEW m, NEW d
  PROVE  FoldLeft(UnlinkFromStorage, m, <<d>>) = UnlinkFromStorage(m, d)
<1> DEFINE D == DOMAIN <<d>>
           P(f) == f = [S \in SUBSET D |->
                          IF S = {} THEN m
                          ELSE UnlinkFromStorage(f[S \ {Max(S)}], <<d>>[Max(S)])]
           r == UnlinkFromStorage(m, d)
           g == [S \in SUBSET D |-> IF S = {} THEN m ELSE r]
           c == CHOOSE f : P(f)
<1>1. D = {1} /\ <<d>>[1] = d
  OBVIOUS
<1>2. \A S \in SUBSET D : S # {} => S = {1}
  BY <1>1
<1>3. Max({1}) = 1
  BY DEF Max
<1>4. FoldLeft(UnlinkFromStorage, m, <<d>>) = c[D]
  BY DEF FoldLeft, MapThenFoldSet
<1> HIDE DEF D
<1>5. P(g)
  <2>1. ASSUME NEW S \in SUBSET D
        PROVE  g[S] = IF S = {} THEN m ELSE UnlinkFromStorage(g[S \ {Max(S)}], <<d>>[Max(S)])
    <3>1. CASE S = {}
      BY <3>1
    <3>2. CASE S # {}
      <4>1. S = {1} /\ Max(S) = 1 /\ S \ {Max(S)} = {}
        BY <1>2, <1>3, <3>2
      <4>2. g[S] = r /\ g[S \ {Max(S)}] = m
        BY <3>2, <4>1
      <4> QED BY <1>1, <3>2, <4>1, <4>2
    <3> QED BY <3>1, <3>2
  <2> QED BY <2>1
<1>6. P(c)
  BY <1>5
<1> HIDE DEF c, g
<1>7. \A S \in SUBSET D :
        c[S] = IF S = {} THEN m ELSE UnlinkFromStorage(c[S \ {Max(S)}], <<d>>[Max(S)])
  BY <1>6
<1>8. c[{}] = m
  BY <1>7
<1>9. c[{1}] = UnlinkFromStorage(c[{1} \ {1}], <<d>>[1])
  BY <1>1, <1>3, <1>7
<1>10. {1} \ {1} = {}
  OBVIOUS
<1> QED BY <1>1, <1>4, <1>8, <1>9, <1>10

\* The memory of d is freed and keeps its contents.
Freed(r, m, d) ==
  /\ \A e \in Data : /\ r.datum[e].live = (m.datum[e].live /\ e # d)
                     /\ r.datum[e].storage = m.datum[e].storage
                     /\ r.datum[e].thread = m.datum[e].thread
                     /\ r.datum[e].data = m.datum[e].data
  /\ SameThreadLinks(r, m) /\ SameStorageLinks(r, m)

LEMMA DatumFreed ==
  ASSUME NEW m \in Memories, NEW d \in Data, NEW r,
         r.datum = [m.datum EXCEPT ![d].live = FALSE]
  PROVE  Freed(r, m, d) /\ r.datum \in [Data -> DatumRecords]
<1> DEFINE v == [m.datum[d] EXCEPT !.live = FALSE]
<1>0. m.datum \in [Data -> DatumRecords]
  BY MemoryParts
<1>1. m.datum[d] \in DatumRecords /\ v \in DatumRecords
  BY <1>0 DEF DatumRecords
<1>2. /\ v.live = FALSE /\ v.storage = m.datum[d].storage
      /\ v.thread = m.datum[d].thread /\ v.data = m.datum[d].data
      /\ v.prev_thread = m.datum[d].prev_thread /\ v.next_thread = m.datum[d].next_thread
      /\ v.prev_data = m.datum[d].prev_data /\ v.next_data = m.datum[d].next_data
  BY <1>1 DEF DatumRecords
<1>3. \A e \in Data : m.datum[e].live \in BOOLEAN
  BY <1>0 DEF DatumRecords
<1>4. r.datum = [m.datum EXCEPT ![d] = v]
  OBVIOUS
<1> HIDE DEF v
<1>5. \A e \in Data : r.datum[e] = IF e = d THEN v ELSE m.datum[e]
  BY <1>0, <1>4
<1>6. \A e \in Data : r.datum[e].live = (m.datum[e].live /\ e # d)
  BY <1>2, <1>3, <1>5
<1>7. SameThreadLinks(r, m) /\ SameStorageLinks(r, m)
  BY <1>2, <1>5
  DEF SameThreadLinks, SameStorageLinks, NextData, PrevData, NextThread, PrevThread
<1>8. r.datum \in [Data -> DatumRecords]
  BY <1>0, <1>1, <1>4
<1> QED BY <1>2, <1>5, <1>6, <1>7, <1>8 DEF Freed

\* d, which has no neighbours on the list by which it is found, is freed, and the
\* list of its thread is empty.
UnlinkedFromThread(r, m, d) ==
  /\ r \in Memories /\ r.storage = m.storage
  /\ r.thread = [m.thread EXCEPT ![m.datum[d].thread].local_data_head = NULL]
  /\ Freed(r, m, d)

LEMMA UnlinkFromThreadEffect ==
  ASSUME NEW m \in Memories, NEW d \in Data, m.datum[d].thread \in Threads,
         m.datum[d].prev_thread = NULL, m.datum[d].next_thread = NULL
  PROVE  UnlinkedFromThread(UnlinkFromThread(m, d), m, d)
<1> DEFINE o == m.datum[d].thread
           T1 == [m.thread EXCEPT ![o].local_data_head = NULL]
           m1 == [m EXCEPT !.thread[o].local_data_head = NULL]
           r == UnlinkFromThread(m, d)
           D1 == [m.datum EXCEPT ![d].live = FALSE]
<1>1. /\ m.thread \in [Threads -> ThreadRecords] /\ m.datum \in [Data -> DatumRecords]
      /\ m.storage \in [Storages -> StorageRecords]
      /\ m = [thread |-> m.thread, storage |-> m.storage, datum |-> m.datum]
  BY MemoryParts
<1>2. r = [m1 EXCEPT !.datum[d].live = FALSE]
  BY DEF UnlinkFromThread
<1> HIDE DEF r
<1>3. m1.thread = T1 /\ m1.storage = m.storage /\ m1.datum = m.datum
      /\ m1 = [thread |-> m1.thread, storage |-> m1.storage, datum |-> m1.datum]
  BY <1>1
<1> HIDE DEF m1
<1>4. r.thread = T1 /\ r.storage = m.storage /\ r.datum = D1
      /\ r = [thread |-> r.thread, storage |-> r.storage, datum |-> r.datum]
  BY <1>2, <1>3
<1>5. T1 \in [Threads -> ThreadRecords]
  BY <1>1 DEF ThreadRecords, Link
<1>6. Freed(r, m, d) /\ r.datum \in [Data -> DatumRecords]
  <2>1. r.datum = [m.datum EXCEPT ![d].live = FALSE]
    BY <1>4
  <2> QED BY <2>1, DatumFreed
<1>7. r \in Memories
  BY <1>1, <1>4, <1>5, <1>6 DEF Memories
<1> QED BY <1>4, <1>6, <1>7 DEF UnlinkedFromThread, r

\* d, which has no neighbours on the list by which it is found, is freed, and the
\* list of its storage is empty.
UnlinkedFromStorage(r, m, d) ==
  /\ r \in Memories /\ r.thread = m.thread
  /\ r.storage = [m.storage EXCEPT ![m.datum[d].storage].data_head = NULL]
  /\ Freed(r, m, d)

LEMMA UnlinkFromStorageEffect ==
  ASSUME NEW m \in Memories, NEW d \in Data, m.datum[d].storage \in Storages,
         m.datum[d].prev_data = NULL, m.datum[d].next_data = NULL
  PROVE  UnlinkedFromStorage(UnlinkFromStorage(m, d), m, d)
<1> DEFINE o == m.datum[d].storage
           T1 == [m.storage EXCEPT ![o].data_head = NULL]
           m1 == [m EXCEPT !.storage[o].data_head = NULL]
           r == UnlinkFromStorage(m, d)
           D1 == [m.datum EXCEPT ![d].live = FALSE]
<1>1. /\ m.thread \in [Threads -> ThreadRecords] /\ m.datum \in [Data -> DatumRecords]
      /\ m.storage \in [Storages -> StorageRecords]
      /\ m = [thread |-> m.thread, storage |-> m.storage, datum |-> m.datum]
  BY MemoryParts
<1>2. r = [m1 EXCEPT !.datum[d].live = FALSE]
  BY DEF UnlinkFromStorage
<1> HIDE DEF r
<1>3. m1.storage = T1 /\ m1.thread = m.thread /\ m1.datum = m.datum
      /\ m1 = [thread |-> m1.thread, storage |-> m1.storage, datum |-> m1.datum]
  BY <1>1
<1> HIDE DEF m1
<1>4. r.storage = T1 /\ r.thread = m.thread /\ r.datum = D1
      /\ r = [thread |-> r.thread, storage |-> r.storage, datum |-> r.datum]
  BY <1>2, <1>3
<1>5. T1 \in [Storages -> StorageRecords]
  BY <1>1 DEF StorageRecords, Link
<1>6. Freed(r, m, d) /\ r.datum \in [Data -> DatumRecords]
  <2>1. r.datum = [m.datum EXCEPT ![d].live = FALSE]
    BY <1>4
  <2> QED BY <2>1, DatumFreed
<1>7. r \in Memories
  BY <1>1, <1>4, <1>5, <1>6 DEF Memories
<1> QED BY <1>4, <1>6, <1>7 DEF UnlinkedFromStorage, r

-----------------------------------------------------------------------------
(* The contents of a datum *)

\* The free datum d is filled.
FilledIn(r, m, d, s, t, data) ==
  /\ r \in Memories /\ r.thread = m.thread /\ r.storage = m.storage
  /\ \A e \in Data : /\ r.datum[e].live = (m.datum[e].live \/ e = d)
                     /\ r.datum[e].storage = IF e = d THEN s ELSE m.datum[e].storage
                     /\ r.datum[e].thread = IF e = d THEN t ELSE m.datum[e].thread
                     /\ r.datum[e].data = IF e = d THEN data ELSE m.datum[e].data
  /\ SameThreadLinks(r, m) /\ SameStorageLinks(r, m)

LEMMA FilledEffect ==
  ASSUME NEW m \in Memories, NEW d \in Data, NEW s \in Storages, NEW t \in Threads,
         NEW data \in Values
  PROVE  FilledIn(Filled(m, d, s, t, data), m, d, s, t, data)
<1> DEFINE v == [m.datum[d] EXCEPT !.live = TRUE, !.storage = s, !.thread = t, !.data = data]
           r == Filled(m, d, s, t, data)
<1>1. /\ m.thread \in [Threads -> ThreadRecords] /\ m.datum \in [Data -> DatumRecords]
      /\ m.storage \in [Storages -> StorageRecords]
      /\ m = [thread |-> m.thread, storage |-> m.storage, datum |-> m.datum]
  BY MemoryParts
<1>2. m.datum[d] \in DatumRecords /\ v \in DatumRecords
  BY <1>1 DEF DatumRecords
<1>3. /\ v.live = TRUE /\ v.storage = s /\ v.thread = t /\ v.data = data
      /\ v.prev_thread = m.datum[d].prev_thread /\ v.next_thread = m.datum[d].next_thread
      /\ v.prev_data = m.datum[d].prev_data /\ v.next_data = m.datum[d].next_data
  BY <1>2 DEF DatumRecords
<1>4. \A e \in Data : m.datum[e].live \in BOOLEAN
  BY <1>1 DEF DatumRecords
<1>5. r = [m EXCEPT !.datum[d] = v]
  BY DEF Filled
<1> HIDE DEF v, r
<1>6. /\ r.thread = m.thread /\ r.storage = m.storage /\ r.datum = [m.datum EXCEPT ![d] = v]
      /\ r = [thread |-> r.thread, storage |-> r.storage, datum |-> r.datum]
  BY <1>1, <1>5
<1>7. r \in Memories
  BY <1>1, <1>2, <1>6 DEF Memories
<1>8. \A e \in Data : r.datum[e] = IF e = d THEN v ELSE m.datum[e]
  BY <1>1, <1>6
<1>9. \A e \in Data : r.datum[e].live = (m.datum[e].live \/ e = d)
  BY <1>3, <1>4, <1>8
<1>10. SameThreadLinks(r, m) /\ SameStorageLinks(r, m)
  BY <1>3, <1>8
  DEF SameThreadLinks, SameStorageLinks, NextData, PrevData, NextThread, PrevThread
<1>11. FilledIn(r, m, d, s, t, data)
  BY <1>3, <1>6, <1>7, <1>8, <1>9, <1>10 DEF FilledIn
<1> QED BY <1>11 DEF r

\* The datum d is given another value.
Overwritten(r, m, d, data) ==
  /\ r \in Memories /\ r.thread = m.thread /\ r.storage = m.storage
  /\ \A e \in Data : /\ r.datum[e].live = m.datum[e].live
                     /\ r.datum[e].storage = m.datum[e].storage
                     /\ r.datum[e].thread = m.datum[e].thread
                     /\ r.datum[e].data = IF e = d THEN data ELSE m.datum[e].data
  /\ SameThreadLinks(r, m) /\ SameStorageLinks(r, m)

LEMMA OverwriteEffect ==
  ASSUME NEW m \in Memories, NEW d \in Data, NEW data \in Values, NEW r,
         r = [m EXCEPT !.datum[d].data = data]
  PROVE  Overwritten(r, m, d, data)
<1> DEFINE v == [m.datum[d] EXCEPT !.data = data]
<1>1. /\ m.thread \in [Threads -> ThreadRecords] /\ m.datum \in [Data -> DatumRecords]
      /\ m.storage \in [Storages -> StorageRecords]
      /\ m = [thread |-> m.thread, storage |-> m.storage, datum |-> m.datum]
  BY MemoryParts
<1>2. m.datum[d] \in DatumRecords /\ v \in DatumRecords
  BY <1>1 DEF DatumRecords
<1>3. /\ v.live = m.datum[d].live /\ v.storage = m.datum[d].storage
      /\ v.thread = m.datum[d].thread /\ v.data = data
      /\ v.prev_thread = m.datum[d].prev_thread /\ v.next_thread = m.datum[d].next_thread
      /\ v.prev_data = m.datum[d].prev_data /\ v.next_data = m.datum[d].next_data
  BY <1>2 DEF DatumRecords
<1>4. r = [m EXCEPT !.datum[d] = v]
  OBVIOUS
<1> HIDE DEF v
<1>5. /\ r.thread = m.thread /\ r.storage = m.storage /\ r.datum = [m.datum EXCEPT ![d] = v]
      /\ r = [thread |-> r.thread, storage |-> r.storage, datum |-> r.datum]
  BY <1>1, <1>4
<1>6. r \in Memories
  BY <1>1, <1>2, <1>5 DEF Memories
<1>7. \A e \in Data : r.datum[e] = IF e = d THEN v ELSE m.datum[e]
  BY <1>1, <1>5
<1>8. SameThreadLinks(r, m) /\ SameStorageLinks(r, m)
  BY <1>3, <1>7
  DEF SameThreadLinks, SameStorageLinks, NextData, PrevData, NextThread, PrevThread
<1> QED BY <1>3, <1>5, <1>6, <1>7, <1>8 DEF Overwritten

-----------------------------------------------------------------------------
(* What Find finds *)

LEMMA MinOfNaturals ==
  ASSUME NEW S \in SUBSET Nat, S # {}
  PROVE  Min(S) \in S
<1> DEFINE R == {ss \in Nat \X Nat : ss[1] < ss[2]}
<1>1. IsWellFoundedOn(R, Nat)
  BY NatLessThanWellFounded DEF OpToRel
<1> HIDE DEF R
<1>2. PICK x \in S : \A y \in S : ~ (<<y, x>> \in R)
  BY <1>1, WFMin
<1>3. ASSUME NEW y \in S PROVE x <= y
  <2>1. x \in Nat /\ y \in Nat
    OBVIOUS
  <2>2. y < x => <<y, x>> \in R
    BY <2>1 DEF R
  <2> QED BY <1>2, <2>1, <2>2
<1> QED BY <1>3 DEF Min

\* The data of a thread for a storage.
Pair(m, s, t) == {d \in DataOf(m, t) : m.datum[d].storage = s}

LEMMA FindIsRight ==
  ASSUME NEW m, Sound(m), NEW s, NEW t \in Live(m.thread)
  PROVE  /\ Pair(m, s, t) = {} => Find(m, s, t) = NULL
         /\ Pair(m, s, t) # {} => Find(m, s, t) \in Pair(m, s, t)
<1> DEFINE q == ThreadData(m, t)
           found == {i \in DOMAIN q : m.datum[q[i]].storage = s}
<1>1. Linked(NextData(m), PrevData(m), m.thread[t].local_data_head, q, DataOf(m, t))
  BY DEF Sound
<1>2. Find(m, s, t) = IF found = {} THEN NULL ELSE q[Min(found)]
  BY DEF Find
<1> HIDE DEF q
<1>3. /\ DOMAIN q = 1 .. Len(q) /\ Len(q) \in Nat
      /\ \A i \in 1 .. Len(q) : q[i] \in DataOf(m, t)
      /\ \A d \in DataOf(m, t) : \E i \in 1 .. Len(q) : q[i] = d
  BY <1>1 DEF Linked
<1>4. ASSUME Pair(m, s, t) = {} PROVE found = {}
  <2>1. ASSUME NEW i \in found PROVE FALSE
    <3>1. q[i] \in DataOf(m, t) /\ m.datum[q[i]].storage = s
      BY <1>3
    <3> QED BY <1>4, <3>1 DEF Pair
  <2> QED BY <2>1
<1>5. ASSUME Pair(m, s, t) # {} PROVE found # {} /\ q[Min(found)] \in Pair(m, s, t)
  <2>1. PICK d \in Pair(m, s, t) : TRUE
    BY <1>5
  <2>2. PICK i \in 1 .. Len(q) : q[i] = d
    BY <1>3, <2>1 DEF Pair
  <2>3. i \in found
    BY <1>3, <2>1, <2>2 DEF Pair
  <2>4. found \in SUBSET Nat
    BY <1>3
  <2>5. Min(found) \in found
    BY <2>3, <2>4, MinOfNaturals
  <2> QED BY <1>3, <2>3, <2>5 DEF Pair
<1> QED BY <1>2, <1>4, <1>5

-----------------------------------------------------------------------------
(* What makes the memory sound *)

ThreadListed(m, t) ==
  \E q : Linked(NextData(m), PrevData(m), m.thread[t].local_data_head, q, DataOf(m, t))
StorageListed(m, s) ==
  \E q : Linked(NextThread(m), PrevThread(m), m.storage[s].data_head, q, DataFor(m, s))
NoneOrphaned(m) ==
  \A d \in Live(m.datum) : /\ m.datum[d].thread \in Live(m.thread)
                           /\ m.datum[d].storage \in Live(m.storage)
                           /\ m.datum[d].data \in Values

\* What is live, by the types of the memory.
LEMMA LiveParts ==
  ASSUME NEW m \in Memories
  PROVE  /\ Live(m.thread) = {t \in Threads : m.thread[t].live}
         /\ Live(m.storage) = {s \in Storages : m.storage[s].live}
         /\ Live(m.datum) = {d \in Data : m.datum[d].live}
         /\ \A t : DataOf(m, t) \in SUBSET Data
         /\ \A s : DataFor(m, s) \in SUBSET Data
<1>1. DOMAIN m.thread = Threads /\ DOMAIN m.storage = Storages /\ DOMAIN m.datum = Data
  BY MemoryParts
<1> QED BY <1>1 DEF Live, DataOf, DataFor

\* The lists that Chain computes need not be mentioned.
LEMMA SoundIf ==
  ASSUME NEW m \in Memories, \A t \in Live(m.thread) : ThreadListed(m, t),
         \A s \in Live(m.storage) : StorageListed(m, s), NoneOrphaned(m)
  PROVE  Sound(m)
<1>1. ASSUME NEW t \in Live(m.thread)
      PROVE  Linked(NextData(m), PrevData(m), m.thread[t].local_data_head, ThreadData(m, t),
                    DataOf(m, t))
  <2>1. PICK q : Linked(NextData(m), PrevData(m), m.thread[t].local_data_head, q, DataOf(m, t))
    BY DEF ThreadListed
  <2>2. DataOf(m, t) \in SUBSET Data
    BY LiveParts
  <2>3. ThreadData(m, t) = q
    BY <2>1, <2>2, ChainIsList DEF ThreadData
  <2> QED BY <2>1, <2>3
<1>2. ASSUME NEW s \in Live(m.storage)
      PROVE  Linked(NextThread(m), PrevThread(m), m.storage[s].data_head, StorageData(m, s),
                    DataFor(m, s))
  <2>1. PICK q : Linked(NextThread(m), PrevThread(m), m.storage[s].data_head, q, DataFor(m, s))
    BY DEF StorageListed
  <2>2. DataFor(m, s) \in SUBSET Data
    BY LiveParts
  <2>3. StorageData(m, s) = q
    BY <2>1, <2>2, ChainIsList DEF StorageData
  <2> QED BY <2>1, <2>3
<1> QED BY <1>1, <1>2 DEF Sound, NoneOrphaned

LEMMA SoundGives ==
  ASSUME NEW m, Sound(m)
  PROVE  /\ m \in Memories /\ NoneOrphaned(m)
         /\ \A t \in Live(m.thread) : ThreadListed(m, t)
         /\ \A s \in Live(m.storage) : StorageListed(m, s)
BY DEF Sound, NoneOrphaned, ThreadListed, StorageListed

\* A list of a thread that no link of changes.
LEMMA ThreadFrame ==
  ASSUME NEW m, NEW r, NEW t, ThreadListed(m, t), DataOf(r, t) = DataOf(m, t),
         r.thread[t].local_data_head = m.thread[t].local_data_head,
         \A d \in DataOf(m, t) : NextData(r)[d] = NextData(m)[d] /\ PrevData(r)[d] = PrevData(m)[d]
  PROVE  ThreadListed(r, t)
<1>1. PICK q : Linked(NextData(m), PrevData(m), m.thread[t].local_data_head, q, DataOf(m, t))
  BY DEF ThreadListed
<1>2. Linked(NextData(r), PrevData(r), m.thread[t].local_data_head, q, DataOf(m, t))
  BY <1>1, LinkedFrame
<1> QED BY <1>2 DEF ThreadListed

LEMMA StorageFrame ==
  ASSUME NEW m, NEW r, NEW s, StorageListed(m, s), DataFor(r, s) = DataFor(m, s),
         r.storage[s].data_head = m.storage[s].data_head,
         \A d \in DataFor(m, s) :
           NextThread(r)[d] = NextThread(m)[d] /\ PrevThread(r)[d] = PrevThread(m)[d]
  PROVE  StorageListed(r, s)
<1>1. PICK q : Linked(NextThread(m), PrevThread(m), m.storage[s].data_head, q, DataFor(m, s))
  BY DEF StorageListed
<1>2. Linked(NextThread(r), PrevThread(r), m.storage[s].data_head, q, DataFor(m, s))
  BY <1>1, LinkedFrame
<1> QED BY <1>2 DEF StorageListed

-----------------------------------------------------------------------------
(* One lemma for each action: it keeps the memory sound *)

\* kthread_ls_set finds the datum and changes its value.
LEMMA OverwriteKeeps ==
  ASSUME NEW m, Sound(m), Unique(m), NEW s, NEW t \in Live(m.thread), NEW data \in Values,
         Find(m, s, t) # NULL, NEW r, r = [m EXCEPT !.datum[Find(m, s, t)].data = data]
  PROVE  /\ Sound(r) /\ Unique(r)
         /\ Find(m, s, t) \in Pair(m, s, t)
         /\ Overwritten(r, m, Find(m, s, t), data)
<1> DEFINE d == Find(m, s, t)
<1>1. d \in Pair(m, s, t) /\ m \in Memories /\ d \in Data
  BY FindIsRight, LiveParts, SoundGives DEF Pair
<1>2. Overwritten(r, m, d, data)
  BY <1>1, OverwriteEffect
<1> HIDE DEF d
<1>3. /\ Live(r.datum) = Live(m.datum) /\ r \in Memories
      /\ \A u : DataOf(r, u) = DataOf(m, u)
      /\ \A u : DataFor(r, u) = DataFor(m, u)
  <2>0. r \in Memories /\ \A e \in Data : r.datum[e].live = m.datum[e].live
    BY <1>2 DEF Overwritten
  <2>1. r \in Memories /\ Live(r.datum) = Live(m.datum)
    <3>1. Live(r.datum) = {e \in Data : r.datum[e].live}
      BY <2>0, LiveParts
    <3>2. Live(m.datum) = {e \in Data : m.datum[e].live}
      BY <1>1, LiveParts
    <3> QED BY <2>0, <3>1, <3>2
  <2> QED BY <1>1, <1>2, <2>1, LiveParts DEF DataOf, DataFor, Overwritten
<1>4. \A u \in Live(r.thread) : ThreadListed(r, u)
  <2> SUFFICES ASSUME NEW u \in Live(r.thread) PROVE ThreadListed(r, u)
    OBVIOUS
  <2>1. r.thread = m.thread /\ SameThreadLinks(r, m)
    BY <1>2 DEF Overwritten
  <2>2. ThreadListed(m, u)
    BY <2>1, SoundGives
  <2> QED BY <1>3, <2>1, <2>2, ThreadFrame DEF SameThreadLinks
<1>5. \A u \in Live(r.storage) : StorageListed(r, u)
  <2> SUFFICES ASSUME NEW u \in Live(r.storage) PROVE StorageListed(r, u)
    OBVIOUS
  <2>1. r.storage = m.storage /\ SameStorageLinks(r, m)
    BY <1>2 DEF Overwritten
  <2>2. StorageListed(m, u)
    BY <2>1, SoundGives
  <2> QED BY <1>3, <2>1, <2>2, StorageFrame DEF SameStorageLinks
<1>6. NoneOrphaned(r)
  BY <1>1, <1>2, <1>3, LiveParts, SoundGives DEF Overwritten, NoneOrphaned
<1>7. Unique(r)
  BY <1>1, <1>2, <1>3, LiveParts DEF Overwritten, Unique
<1> QED BY <1>1, <1>2, <1>3, <1>4, <1>5, <1>6, <1>7, SoundIf DEF d

\* d, filled, is at the head of both lists.
NewlyLinked(r, m, d, s, t, data) ==
  LET ht == m.thread[t].local_data_head
      hs == m.storage[s].data_head
  IN  /\ r \in Memories
      /\ r.thread = [m.thread EXCEPT ![t].local_data_head = d]
      /\ r.storage = [m.storage EXCEPT ![s].data_head = d]
      /\ \A e \in Data : /\ r.datum[e].live = (m.datum[e].live \/ e = d)
                         /\ r.datum[e].storage = IF e = d THEN s ELSE m.datum[e].storage
                         /\ r.datum[e].thread = IF e = d THEN t ELSE m.datum[e].thread
                         /\ r.datum[e].data = IF e = d THEN data ELSE m.datum[e].data
      /\ NextData(r) = [NextData(m) EXCEPT ![d] = ht]
      /\ PrevData(r) = [e \in Data |-> IF e = d THEN NULL ELSE IF e = ht THEN d
                                       ELSE PrevData(m)[e]]
      /\ NextThread(r) = [NextThread(m) EXCEPT ![d] = hs]
      /\ PrevThread(r) = [e \in Data |-> IF e = d THEN NULL ELSE IF e = hs THEN d
                                         ELSE PrevThread(m)[e]]

LEMMA NewEffect ==
  ASSUME NEW m \in Memories, NEW d \in Data, NEW s \in Storages, NEW t \in Threads,
         NEW data \in Values,
         m.thread[t].local_data_head # d, m.storage[s].data_head # d
  PROVE  NewlyLinked(LinkToStorage(LinkToThread(Filled(m, d, s, t, data), d, t), d, s),
                     m, d, s, t, data)
<1> DEFINE m0 == Filled(m, d, s, t, data)
           m1 == LinkToThread(m0, d, t)
           r == LinkToStorage(m1, d, s)
<1>1. FilledIn(m0, m, d, s, t, data)
  BY FilledEffect
<1> HIDE DEF m0
<1>2. m0 \in Memories /\ m0.thread = m.thread /\ m0.storage = m.storage
  BY <1>1 DEF FilledIn
<1>3. LinkedToThread(m1, m0, d, t)
  BY <1>2, LinkToThreadEffect
<1> HIDE DEF m1
<1>4. m1 \in Memories /\ m1.storage = m.storage
  BY <1>2, <1>3 DEF LinkedToThread
<1>5. LinkedToStorage(r, m1, d, s)
  BY <1>4, LinkToStorageEffect
<1> HIDE DEF r
<1>6. /\ r \in Memories
      /\ r.thread = [m.thread EXCEPT ![t].local_data_head = d]
      /\ r.storage = [m.storage EXCEPT ![s].data_head = d]
  BY <1>2, <1>3, <1>4, <1>5 DEF LinkedToThread, LinkedToStorage
<1>7. \A e \in Data : /\ r.datum[e].live = (m.datum[e].live \/ e = d)
                      /\ r.datum[e].storage = IF e = d THEN s ELSE m.datum[e].storage
                      /\ r.datum[e].thread = IF e = d THEN t ELSE m.datum[e].thread
                      /\ r.datum[e].data = IF e = d THEN data ELSE m.datum[e].data
  <2>1. SameContents(r, m1) /\ SameContents(m1, m0)
    BY <1>3, <1>5 DEF LinkedToThread, LinkedToStorage
  <2> QED BY <1>1, <2>1 DEF FilledIn, SameContents
<1>8. SameThreadLinks(m0, m) /\ SameStorageLinks(m0, m)
  BY <1>1 DEF FilledIn
<1>9. SameStorageLinks(m1, m0) /\ SameThreadLinks(r, m1)
  BY <1>3, <1>5 DEF LinkedToThread, LinkedToStorage
<1>10. /\ NextData(r) = [NextData(m) EXCEPT ![d] = m.thread[t].local_data_head]
       /\ PrevData(r) = [e \in Data |-> IF e = d THEN NULL
                                        ELSE IF e = m.thread[t].local_data_head THEN d
                                        ELSE PrevData(m)[e]]
  BY <1>2, <1>3, <1>8, <1>9 DEF LinkedToThread, SameThreadLinks
<1>11. /\ NextThread(r) = [NextThread(m) EXCEPT ![d] = m.storage[s].data_head]
       /\ PrevThread(r) = [e \in Data |-> IF e = d THEN NULL
                                          ELSE IF e = m.storage[s].data_head THEN d
                                          ELSE PrevThread(m)[e]]
  BY <1>4, <1>5, <1>8, <1>9 DEF LinkedToStorage, SameStorageLinks
<1>12. NewlyLinked(r, m, d, s, t, data)
  BY <1>6, <1>7, <1>10, <1>11 DEF NewlyLinked
<1> QED BY <1>12 DEF m0, m1, r

\* kthread_ls_set finds none and makes one.
LEMMA NewKeeps ==
  ASSUME NEW m, Sound(m), Unique(m), NEW s \in Live(m.storage), NEW t \in Live(m.thread),
         NEW data \in Values, Find(m, s, t) = NULL, NEW d \in Free(m.datum), NEW r,
         r = LinkToStorage(LinkToThread(Filled(m, d, s, t, data), d, t), d, s)
  PROVE  Sound(r) /\ Unique(r) /\ NewlyLinked(r, m, d, s, t, data) /\ d \in Data
<1> DEFINE ht == m.thread[t].local_data_head
           hs == m.storage[s].data_head
<1>1. /\ m \in Memories /\ NoneOrphaned(m)
      /\ \A u \in Live(m.thread) : ThreadListed(m, u)
      /\ \A u \in Live(m.storage) : StorageListed(m, u)
  BY SoundGives
<1>2. /\ t \in Threads /\ s \in Storages /\ d \in Data /\ ~m.datum[d].live
      /\ m.thread \in [Threads -> ThreadRecords] /\ m.storage \in [Storages -> StorageRecords]
      /\ NULL \notin Data
  <2>1. m.datum \in [Data -> DatumRecords]
    BY <1>1, MemoryParts
  <2> QED BY <1>1, <2>1, LiveParts, MemoryParts, ThreadLocalAssumption DEF Free, Live
<1>3. \A u : d \notin DataOf(m, u) /\ d \notin DataFor(m, u)
  BY <1>2 DEF DataOf, DataFor, Live
<1>4. PICK qt : Linked(NextData(m), PrevData(m), ht, qt, DataOf(m, t))
  BY <1>1 DEF ThreadListed
<1>5. PICK qs : Linked(NextThread(m), PrevThread(m), hs, qs, DataFor(m, s))
  BY <1>1 DEF StorageListed
<1>6. (ht # NULL => ht \in DataOf(m, t)) /\ (hs # NULL => hs \in DataFor(m, s))
  BY <1>4, <1>5, LinkedHead
<1>7. ht # d /\ hs # d
  BY <1>2, <1>3, <1>6
<1>8. NewlyLinked(r, m, d, s, t, data)
  BY <1>1, <1>2, <1>7, NewEffect
<1>9. /\ r \in Memories /\ Live(r.datum) = Live(m.datum) \union {d}
      /\ Live(r.thread) = Live(m.thread) /\ Live(r.storage) = Live(m.storage)
  <2>1. r \in Memories
    BY <1>8 DEF NewlyLinked
  <2>2. \A e \in Data : r.datum[e].live = (m.datum[e].live \/ e = d)
    BY <1>8 DEF NewlyLinked
  <2>3. \A u \in Threads : r.thread[u].live = m.thread[u].live
    BY <1>2, <1>8 DEF NewlyLinked, ThreadRecords
  <2>4. \A u \in Storages : r.storage[u].live = m.storage[u].live
    BY <1>2, <1>8 DEF NewlyLinked, StorageRecords
  <2>5. /\ Live(m.datum) = {e \in Data : m.datum[e].live}
        /\ Live(m.thread) = {u \in Threads : m.thread[u].live}
        /\ Live(m.storage) = {u \in Storages : m.storage[u].live}
    BY <1>1, LiveParts
  <2>6. /\ Live(r.datum) = {e \in Data : r.datum[e].live}
        /\ Live(r.thread) = {u \in Threads : r.thread[u].live}
        /\ Live(r.storage) = {u \in Storages : r.storage[u].live}
    BY <2>1, LiveParts
  <2>7. Live(r.datum) = Live(m.datum) \union {d}
    BY <1>2, <2>2, <2>5, <2>6
  <2>8. Live(r.thread) = Live(m.thread)
    BY <2>3, <2>5, <2>6
  <2>9. Live(r.storage) = Live(m.storage)
    BY <2>4, <2>5, <2>6
  <2> QED BY <2>1, <2>7, <2>8, <2>9
<1>10. Live(m.datum) \in SUBSET Data /\ d \notin Live(m.datum)
  BY <1>1, <1>2, LiveParts
<1>11. /\ DataOf(r, t) = DataOf(m, t) \union {d}
       /\ \A u : u # t => DataOf(r, u) = DataOf(m, u)
       /\ DataFor(r, s) = DataFor(m, s) \union {d}
       /\ \A u : u # s => DataFor(r, u) = DataFor(m, u)
  <2>1. \A e \in Live(r.datum) :
          /\ r.datum[e].thread = IF e = d THEN t ELSE m.datum[e].thread
          /\ r.datum[e].storage = IF e = d THEN s ELSE m.datum[e].storage
    BY <1>2, <1>8, <1>9, <1>10 DEF NewlyLinked
  <2> QED BY <1>9, <1>10, <2>1 DEF DataOf, DataFor
<1>12. \A u \in Live(r.thread) : ThreadListed(r, u)
  <2> SUFFICES ASSUME NEW u \in Live(m.thread) PROVE ThreadListed(r, u)
    BY <1>9
  <2>1. u \in Threads /\ DataOf(m, u) \in SUBSET Data
    BY <1>1, LiveParts
  <2>2. /\ NextData(r) = [NextData(m) EXCEPT ![d] = ht]
        /\ PrevData(r) = [e \in Data |-> IF e = d THEN NULL ELSE IF e = ht THEN d
                                         ELSE PrevData(m)[e]]
        /\ r.thread = [m.thread EXCEPT ![t].local_data_head = d]
    BY <1>8 DEF NewlyLinked
  <2>3. CASE u = t
    <3>1. /\ NextData(m) \in [Data -> Link] /\ d \in Data \ DataOf(m, t)
          /\ DataOf(m, t) \in SUBSET Data
      BY <1>1, <1>2, <1>3, <2>1, <2>3, LinksAreFunctions
    <3>2. Linked(NextData(r), PrevData(r), d, <<d>> \o qt, DataOf(m, t) \union {d})
      <4>1. \A e \in Data :
              /\ NextData(r)[e] = IF e = d THEN ht ELSE NextData(m)[e]
              /\ PrevData(r)[e] = IF e = d THEN NULL ELSE IF e = ht THEN d ELSE PrevData(m)[e]
        BY <2>2, <3>1
      <4> HIDE DEF ht
      <4> QED BY <1>4, <3>1, <4>1, LinkedPut
    <3>3. r.thread[t].local_data_head = d
      BY <1>2, <2>2 DEF ThreadRecords
    <3> QED BY <1>11, <2>3, <3>2, <3>3 DEF ThreadListed
  <2>4. CASE u # t
    <3>1. ThreadListed(m, u) /\ DataOf(r, u) = DataOf(m, u)
      BY <1>1, <1>11, <2>4
    <3>2. r.thread[u].local_data_head = m.thread[u].local_data_head
      BY <1>2, <2>1, <2>2, <2>4
    <3>3. \A e \in DataOf(m, u) : e # d /\ e # ht
      BY <1>2, <1>3, <1>6, <2>1, <2>4 DEF DataOf
    <3>4. NextData(m) \in [Data -> Link]
      BY <1>1, LinksAreFunctions
    <3>5. \A e \in DataOf(m, u) :
            NextData(r)[e] = NextData(m)[e] /\ PrevData(r)[e] = PrevData(m)[e]
      BY <2>1, <2>2, <3>3, <3>4
    <3> QED BY <3>1, <3>2, <3>5, ThreadFrame
  <2> QED BY <2>3, <2>4
<1>13. \A u \in Live(r.storage) : StorageListed(r, u)
  <2> SUFFICES ASSUME NEW u \in Live(m.storage) PROVE StorageListed(r, u)
    BY <1>9
  <2>1. u \in Storages /\ DataFor(m, u) \in SUBSET Data
    BY <1>1, LiveParts
  <2>2. /\ NextThread(r) = [NextThread(m) EXCEPT ![d] = hs]
        /\ PrevThread(r) = [e \in Data |-> IF e = d THEN NULL ELSE IF e = hs THEN d
                                           ELSE PrevThread(m)[e]]
        /\ r.storage = [m.storage EXCEPT ![s].data_head = d]
    BY <1>8 DEF NewlyLinked
  <2>3. CASE u = s
    <3>1. /\ NextThread(m) \in [Data -> Link] /\ d \in Data \ DataFor(m, s)
          /\ DataFor(m, s) \in SUBSET Data
      BY <1>1, <1>2, <1>3, <2>1, <2>3, LinksAreFunctions
    <3>2. Linked(NextThread(r), PrevThread(r), d, <<d>> \o qs, DataFor(m, s) \union {d})
      <4>1. \A e \in Data :
              /\ NextThread(r)[e] = IF e = d THEN hs ELSE NextThread(m)[e]
              /\ PrevThread(r)[e] = IF e = d THEN NULL ELSE IF e = hs THEN d ELSE PrevThread(m)[e]
        BY <2>2, <3>1
      <4> HIDE DEF hs
      <4> QED BY <1>5, <3>1, <4>1, LinkedPut
    <3>3. r.storage[s].data_head = d
      BY <1>2, <2>2 DEF StorageRecords
    <3> QED BY <1>11, <2>3, <3>2, <3>3 DEF StorageListed
  <2>4. CASE u # s
    <3>1. StorageListed(m, u) /\ DataFor(r, u) = DataFor(m, u)
      BY <1>1, <1>11, <2>4
    <3>2. r.storage[u].data_head = m.storage[u].data_head
      BY <1>2, <2>1, <2>2, <2>4
    <3>3. \A e \in DataFor(m, u) : e # d /\ e # hs
      BY <1>2, <1>3, <1>6, <2>1, <2>4 DEF DataFor
    <3>4. NextThread(m) \in [Data -> Link]
      BY <1>1, LinksAreFunctions
    <3>5. \A e \in DataFor(m, u) :
            NextThread(r)[e] = NextThread(m)[e] /\ PrevThread(r)[e] = PrevThread(m)[e]
      BY <2>1, <2>2, <3>3, <3>4
    <3> QED BY <3>1, <3>2, <3>5, StorageFrame
  <2> QED BY <2>3, <2>4
<1>14. \A e \in Data : /\ r.datum[e].storage = IF e = d THEN s ELSE m.datum[e].storage
                       /\ r.datum[e].thread = IF e = d THEN t ELSE m.datum[e].thread
                       /\ r.datum[e].data = IF e = d THEN data ELSE m.datum[e].data
  BY <1>8 DEF NewlyLinked
<1>15. NoneOrphaned(r)
  <2> SUFFICES ASSUME NEW e \in Live(r.datum)
               PROVE  /\ r.datum[e].thread \in Live(m.thread)
                      /\ r.datum[e].storage \in Live(m.storage)
                      /\ r.datum[e].data \in Values
    BY <1>9 DEF NoneOrphaned
  <2>1. CASE e = d
    BY <1>2, <1>14, <2>1
  <2>2. CASE e # d
    <3>1. e \in Live(m.datum) /\ e \in Data
      BY <1>9, <1>10, <2>2
    <3> QED BY <1>1, <1>14, <2>2, <3>1 DEF NoneOrphaned
  <2> QED BY <2>1, <2>2
<1>16. Unique(r)
  <2>1. NULL \notin Pair(m, s, t)
    BY <1>2, <1>10 DEF Pair, DataOf
  <2>2. Pair(m, s, t) = {}
    BY <2>1, FindIsRight
  <2>3. \A e \in Live(m.datum) : ~(m.datum[e].thread = t /\ m.datum[e].storage = s)
    BY <2>2 DEF Pair, DataOf
  <2> SUFFICES ASSUME NEW e \in Live(r.datum), NEW f \in Live(r.datum),
                      r.datum[e].thread = r.datum[f].thread,
                      r.datum[e].storage = r.datum[f].storage
               PROVE  e = f
    BY DEF Unique
  <2>4. \A g \in Live(r.datum) : g # d => g \in Live(m.datum) /\ g \in Data
    BY <1>9, <1>10
  <2>5. CASE e # d /\ f # d
    BY <1>14, <2>4, <2>5 DEF Unique
  <2>6. CASE e = d \/ f = d
    BY <1>2, <1>14, <2>3, <2>4, <2>6
  <2> QED BY <2>5, <2>6
<1> QED BY <1>2, <1>8, <1>9, <1>12, <1>13, <1>15, <1>16, SoundIf

\* A list of one.
LEMMA LinkedOne ==
  ASSUME NEW next, NEW prev, NEW h, NEW q, NEW Q, Linked(next, prev, h, q, Q)
  PROVE  /\ q = <<>> => Q = {}
         /\ \A d : q = <<d>> => Q = {d} /\ h = d /\ next[d] = NULL /\ prev[d] = NULL
<1>1. q = <<>> => Q = {}
  BY DEF Linked
<1>2. ASSUME NEW d, q = <<d>> PROVE Q = {d} /\ h = d /\ next[d] = NULL /\ prev[d] = NULL
  <2>1. Len(q) = 1 /\ q[1] = d /\ 1 \in 1 .. Len(q)
    BY <1>2
  <2>2. /\ \A e \in Q : \E i \in 1 .. Len(q) : q[i] = e
        /\ q[1] \in Q
        /\ h = q[1] /\ next[q[1]] = NULL /\ prev[q[1]] = NULL
    BY <2>1 DEF Linked
  <2> QED BY <2>1, <2>2
<1> QED BY <1>1, <1>2

\* The storage o is gone and so are its data; the thread of each has an empty list.
StorageGone(r, m, o) ==
  /\ r \in Memories
  /\ Live(r.storage) = Live(m.storage) \ {o} /\ Live(r.thread) = Live(m.thread)
  /\ \A u \in Storages \ {o} : r.storage[u] = m.storage[u]
  /\ \A u \in Live(m.thread) :
       IF DataFor(m, o) \intersect DataOf(m, u) = {}
       THEN r.thread[u] = m.thread[u]
       ELSE DataOf(m, u) \subseteq DataFor(m, o) /\ r.thread[u].local_data_head = NULL
  /\ Live(r.datum) = Live(m.datum) \ DataFor(m, o)
  /\ \A d \in Data : /\ r.datum[d].storage = m.datum[d].storage
                     /\ r.datum[d].thread = m.datum[d].thread
                     /\ r.datum[d].data = m.datum[d].data
  /\ SameThreadLinks(r, m) /\ SameStorageLinks(r, m)

\* What is alone on its lists is the only one of its storage.
LEMMA StorageAlone ==
  ASSUME NEW m, Sound(m), NEW o \in Live(m.storage),
         \A d \in ToSet(StorageData(m, o)) : Alone(m, d)
  PROVE  \/ StorageData(m, o) = <<>> /\ DataFor(m, o) = {}
         \/ \E d \in Data : /\ StorageData(m, o) = <<d>> /\ DataFor(m, o) = {d}
                            /\ DataOf(m, m.datum[d].thread) = {d}
                            /\ m.datum[d].prev_thread = NULL /\ m.datum[d].next_thread = NULL
<1> DEFINE q == StorageData(m, o)
<1>1. Linked(NextThread(m), PrevThread(m), m.storage[o].data_head, q, DataFor(m, o))
  BY DEF Sound
<1>2. m \in Memories /\ NoneOrphaned(m)
  BY SoundGives
<1> HIDE DEF q
<1>3. CASE q = <<>>
  BY <1>1, <1>3, LinkedOne DEF q
<1>4. CASE q # <<>>
  <2>1. q \in Seq(DataFor(m, o)) /\ Len(q) \in Nat /\ Len(q) # 0
    BY <1>1, <1>4 DEF Linked
  <2>2. 1 \in DOMAIN q /\ q[1] \in DataFor(m, o)
    BY <2>1
  <2> DEFINE d == q[1]
  <2>3. Alone(m, d)
    BY <2>2 DEF ToSet, q
  <2>4. d \in Live(m.datum) /\ d \in Data /\ m.datum[d].storage = o
    BY <1>2, <2>2, LiveParts DEF DataFor
  <2>5. q = <<d>> /\ ThreadData(m, m.datum[d].thread) = <<d>>
    BY <2>3, <2>4 DEF Alone, q
  <2>6. m.datum[d].thread \in Live(m.thread)
    BY <1>2, <2>4 DEF NoneOrphaned
  <2>7. Linked(NextData(m), PrevData(m), m.thread[m.datum[d].thread].local_data_head,
               ThreadData(m, m.datum[d].thread), DataOf(m, m.datum[d].thread))
    BY <2>6 DEF Sound
  <2> HIDE DEF d
  <2>8. DataFor(m, o) = {d} /\ NextThread(m)[d] = NULL /\ PrevThread(m)[d] = NULL
    BY <1>1, <2>5, LinkedOne
  <2>9. DataOf(m, m.datum[d].thread) = {d}
    BY <2>5, <2>7, LinkedOne
  <2>10. m.datum[d].prev_thread = NULL /\ m.datum[d].next_thread = NULL
    BY <2>4, <2>8 DEF NextThread, PrevThread
  <2> QED BY <2>4, <2>5, <2>8, <2>9, <2>10 DEF q
<1> QED BY <1>3, <1>4

\* The end of o, when its list is at most one datum that is alone.
LEMMA StorageEnds ==
  ASSUME NEW m, Sound(m), NEW o \in Live(m.storage),
         \A d \in ToSet(StorageData(m, o)) : Alone(m, d), NEW r,
         r = [FoldLeft(UnlinkFromThread, m, StorageData(m, o)) EXCEPT !.storage[o].live = FALSE]
  PROVE  StorageGone(r, m, o)
<1> DEFINE m1 == FoldLeft(UnlinkFromThread, m, StorageData(m, o))
<1>1. m \in Memories /\ NoneOrphaned(m)
  BY SoundGives
<1>2. /\ Live(m.storage) = {u \in Storages : m.storage[u].live}
      /\ Live(m.thread) = {u \in Threads : m.thread[u].live}
      /\ Live(m.datum) = {e \in Data : m.datum[e].live}
      /\ m.storage \in [Storages -> StorageRecords] /\ m.thread \in [Threads -> ThreadRecords]
      /\ o \in Storages
  BY <1>1, LiveParts, MemoryParts
<1>3. /\ m1 \in Memories /\ m1.storage = m.storage
      /\ \A d \in Data : /\ m1.datum[d].live = (m.datum[d].live /\ d \notin DataFor(m, o))
                         /\ m1.datum[d].storage = m.datum[d].storage
                         /\ m1.datum[d].thread = m.datum[d].thread
                         /\ m1.datum[d].data = m.datum[d].data
      /\ SameThreadLinks(m1, m) /\ SameStorageLinks(m1, m)
      /\ \A u \in Threads : m1.thread[u].live = m.thread[u].live
      /\ \A u \in Live(m.thread) :
           IF DataFor(m, o) \intersect DataOf(m, u) = {}
           THEN m1.thread[u] = m.thread[u]
           ELSE DataOf(m, u) \subseteq DataFor(m, o) /\ m1.thread[u].local_data_head = NULL
  <2>1. CASE StorageData(m, o) = <<>> /\ DataFor(m, o) = {}
    <3>1. m1 = m
      BY <2>1, FoldThreadNone
    <3>2. \A d \in Data : m.datum[d].live \in BOOLEAN
      BY <1>1, MemoryParts DEF DatumRecords
    <3> QED BY <1>1, <2>1, <3>1, <3>2 DEF SameThreadLinks, SameStorageLinks
  <2>2. CASE \E d \in Data : /\ StorageData(m, o) = <<d>> /\ DataFor(m, o) = {d}
                             /\ DataOf(m, m.datum[d].thread) = {d}
                             /\ m.datum[d].prev_thread = NULL /\ m.datum[d].next_thread = NULL
    <3>0. PICK d \in Data : /\ StorageData(m, o) = <<d>> /\ DataFor(m, o) = {d}
                            /\ DataOf(m, m.datum[d].thread) = {d}
                            /\ m.datum[d].prev_thread = NULL /\ m.datum[d].next_thread = NULL
      BY <2>2
    <3> DEFINE v == m.datum[d].thread
    <3>1. m1 = UnlinkFromThread(m, d)
      BY <3>0, FoldThreadOne
    <3>2. d \in Live(m.datum) /\ v \in Live(m.thread) /\ v \in Threads
      BY <1>1, <1>2, <3>0 DEF DataFor, NoneOrphaned
    <3>3. UnlinkedFromThread(m1, m, d)
      BY <1>1, <3>0, <3>1, <3>2, UnlinkFromThreadEffect
    <3> HIDE DEF m1
    <3>4. m1 \in Memories /\ m1.storage = m.storage /\ Freed(m1, m, d)
          /\ m1.thread = [m.thread EXCEPT ![v].local_data_head = NULL]
      BY <3>3 DEF UnlinkedFromThread
    <3>5. ASSUME NEW u \in Live(m.thread)
          PROVE  IF DataFor(m, o) \intersect DataOf(m, u) = {}
                 THEN m1.thread[u] = m.thread[u]
                 ELSE DataOf(m, u) \subseteq DataFor(m, o) /\ m1.thread[u].local_data_head = NULL
      <4>1. CASE u = v
        BY <1>2, <3>0, <3>2, <3>4, <4>1 DEF ThreadRecords
      <4>2. CASE u # v
        <5>1. d \notin DataOf(m, u)
          BY <4>2 DEF DataOf
        <5> QED BY <1>2, <3>0, <3>4, <4>2, <5>1
      <4> QED BY <4>1, <4>2
    <3>6. \A u \in Threads : m1.thread[u].live = m.thread[u].live
      BY <1>2, <3>2, <3>4 DEF ThreadRecords
    <3>7. /\ \A e \in Data : /\ m1.datum[e].live = (m.datum[e].live /\ e \notin DataFor(m, o))
                             /\ m1.datum[e].storage = m.datum[e].storage
                             /\ m1.datum[e].thread = m.datum[e].thread
                             /\ m1.datum[e].data = m.datum[e].data
          /\ SameThreadLinks(m1, m) /\ SameStorageLinks(m1, m)
      BY <3>0, <3>4 DEF Freed
    <3> QED BY <3>4, <3>5, <3>6, <3>7
  <2> QED BY <2>1, <2>2, StorageAlone
<1>4. r = [m1 EXCEPT !.storage[o].live = FALSE]
  OBVIOUS
<1> HIDE DEF m1
<1>5. /\ m1 = [thread |-> m1.thread, storage |-> m1.storage, datum |-> m1.datum]
      /\ m1.thread \in [Threads -> ThreadRecords] /\ m1.storage \in [Storages -> StorageRecords]
      /\ m1.datum \in [Data -> DatumRecords]
  BY <1>3, MemoryParts
<1>6. /\ r.storage = [m1.storage EXCEPT ![o].live = FALSE]
      /\ r.thread = m1.thread /\ r.datum = m1.datum
      /\ r = [thread |-> r.thread, storage |-> r.storage, datum |-> r.datum]
  BY <1>4, <1>5
<1>7. [m1.storage EXCEPT ![o].live = FALSE] \in [Storages -> StorageRecords]
  BY <1>5 DEF StorageRecords
<1>8. r \in Memories
  BY <1>5, <1>6, <1>7 DEF Memories
<1>9. /\ Live(r.storage) = {u \in Storages : r.storage[u].live}
      /\ Live(r.thread) = {u \in Threads : r.thread[u].live}
      /\ Live(r.datum) = {e \in Data : r.datum[e].live}
  BY <1>8, LiveParts
<1>10. \A u \in Storages \ {o} : r.storage[u] = m.storage[u]
  BY <1>2, <1>3, <1>6
<1>11. r.storage[o].live = FALSE
  BY <1>2, <1>3, <1>6 DEF StorageRecords
<1>12. Live(r.storage) = Live(m.storage) \ {o}
  BY <1>2, <1>9, <1>10, <1>11
<1>13. Live(r.thread) = Live(m.thread)
  BY <1>2, <1>3, <1>6, <1>9
<1>14. Live(r.datum) = Live(m.datum) \ DataFor(m, o)
  BY <1>2, <1>3, <1>6, <1>9
<1>15. SameThreadLinks(r, m) /\ SameStorageLinks(r, m)
  BY <1>3, <1>6
  DEF SameThreadLinks, SameStorageLinks, NextData, PrevData, NextThread, PrevThread
<1>16. \A u \in Live(m.thread) :
         IF DataFor(m, o) \intersect DataOf(m, u) = {}
         THEN r.thread[u] = m.thread[u]
         ELSE DataOf(m, u) \subseteq DataFor(m, o) /\ r.thread[u].local_data_head = NULL
  BY <1>3, <1>6
<1>17. \A d \in Data : /\ r.datum[d].storage = m.datum[d].storage
                        /\ r.datum[d].thread = m.datum[d].thread
                        /\ r.datum[d].data = m.datum[d].data
  BY <1>3, <1>6
<1> QED BY <1>8, <1>10, <1>12, <1>13, <1>14, <1>15, <1>16, <1>17 DEF StorageGone

LEMMA StorageGoneKeeps ==
  ASSUME NEW m, Sound(m), Unique(m), NEW o \in Live(m.storage), NEW r, StorageGone(r, m, o)
  PROVE  Sound(r) /\ Unique(r)
<1>1. /\ m \in Memories /\ NoneOrphaned(m)
      /\ \A u \in Live(m.thread) : ThreadListed(m, u)
      /\ \A u \in Live(m.storage) : StorageListed(m, u)
  BY SoundGives
<1>2. /\ r \in Memories
      /\ Live(r.storage) = Live(m.storage) \ {o} /\ Live(r.thread) = Live(m.thread)
      /\ Live(r.datum) = Live(m.datum) \ DataFor(m, o)
      /\ SameThreadLinks(r, m) /\ SameStorageLinks(r, m)
      /\ Live(m.datum) \in SUBSET Data /\ Live(m.storage) \in SUBSET Storages
  BY <1>1, LiveParts DEF StorageGone
<1>3. \A d \in Data : /\ r.datum[d].storage = m.datum[d].storage
                      /\ r.datum[d].thread = m.datum[d].thread
                      /\ r.datum[d].data = m.datum[d].data
  BY DEF StorageGone
<1>4. \A u : DataFor(r, u) = DataFor(m, u) \ DataFor(m, o)
  BY <1>2, <1>3 DEF DataFor
<1>5. \A u : DataOf(r, u) = DataOf(m, u) \ DataFor(m, o)
  BY <1>2, <1>3 DEF DataOf
<1>6. \A u \in Live(r.storage) : StorageListed(r, u)
  <2> SUFFICES ASSUME NEW u \in Live(m.storage), u # o PROVE StorageListed(r, u)
    BY <1>2
  <2>1. StorageListed(m, u) /\ r.storage[u] = m.storage[u]
    BY <1>1, <1>2 DEF StorageGone
  <2>2. DataFor(r, u) = DataFor(m, u)
    <3>1. DataFor(m, u) \intersect DataFor(m, o) = {}
      BY DEF DataFor
    <3> QED BY <1>4, <3>1
  <2> QED BY <1>2, <2>1, <2>2, StorageFrame DEF SameStorageLinks
<1>7. \A u \in Live(r.thread) : ThreadListed(r, u)
  <2> SUFFICES ASSUME NEW u \in Live(m.thread) PROVE ThreadListed(r, u)
    BY <1>2
  <2>1. CASE DataFor(m, o) \intersect DataOf(m, u) = {}
    <3>1. ThreadListed(m, u) /\ r.thread[u] = m.thread[u]
      BY <1>1, <2>1 DEF StorageGone
    <3>2. DataOf(r, u) = DataOf(m, u)
      BY <1>5, <2>1
    <3> QED BY <1>2, <3>1, <3>2, ThreadFrame DEF SameThreadLinks
  <2>2. CASE DataFor(m, o) \intersect DataOf(m, u) # {}
    <3>1. DataOf(m, u) \subseteq DataFor(m, o) /\ r.thread[u].local_data_head = NULL
      BY <2>2 DEF StorageGone
    <3>2. DataOf(r, u) = {}
      BY <1>5, <3>1
    <3>3. Linked(NextData(r), PrevData(r), NULL, <<>>, {})
      BY LinkedEmpty
    <3> QED BY <3>1, <3>2, <3>3 DEF ThreadListed
  <2> QED BY <2>1, <2>2
<1>8. NoneOrphaned(r)
  <2> SUFFICES ASSUME NEW d \in Live(r.datum)
               PROVE  /\ r.datum[d].thread \in Live(r.thread)
                      /\ r.datum[d].storage \in Live(r.storage)
                      /\ r.datum[d].data \in Values
    BY DEF NoneOrphaned
  <2>1. d \in Live(m.datum) /\ d \in Data /\ m.datum[d].storage # o
    BY <1>2 DEF DataFor
  <2> QED BY <1>1, <1>2, <1>3, <2>1 DEF NoneOrphaned
<1>9. Unique(r)
  BY <1>2, <1>3 DEF Unique
<1> QED BY <1>2, <1>6, <1>7, <1>8, <1>9, SoundIf

\* The thread o is gone and so are its data; the storage of each has an empty list.
ThreadGone(r, m, o) ==
  /\ r \in Memories
  /\ Live(r.thread) = Live(m.thread) \ {o} /\ Live(r.storage) = Live(m.storage)
  /\ \A u \in Threads \ {o} : r.thread[u] = m.thread[u]
  /\ \A u \in Live(m.storage) :
       IF DataOf(m, o) \intersect DataFor(m, u) = {}
       THEN r.storage[u] = m.storage[u]
       ELSE DataFor(m, u) \subseteq DataOf(m, o) /\ r.storage[u].data_head = NULL
  /\ \A u \in Storages : r.storage[u].dtor = m.storage[u].dtor
  /\ Live(r.datum) = Live(m.datum) \ DataOf(m, o)
  /\ \A d \in Data : /\ r.datum[d].storage = m.datum[d].storage
                     /\ r.datum[d].thread = m.datum[d].thread
                     /\ r.datum[d].data = m.datum[d].data
  /\ SameThreadLinks(r, m) /\ SameStorageLinks(r, m)

\* What is alone on its lists is the only one of its thread.
LEMMA ThreadAlone ==
  ASSUME NEW m, Sound(m), NEW o \in Live(m.thread),
         \A d \in ToSet(ThreadData(m, o)) : Alone(m, d)
  PROVE  \/ ThreadData(m, o) = <<>> /\ DataOf(m, o) = {}
         \/ \E d \in Data : /\ ThreadData(m, o) = <<d>> /\ DataOf(m, o) = {d}
                            /\ DataFor(m, m.datum[d].storage) = {d}
                            /\ m.datum[d].prev_data = NULL /\ m.datum[d].next_data = NULL
<1> DEFINE q == ThreadData(m, o)
<1>1. Linked(NextData(m), PrevData(m), m.thread[o].local_data_head, q, DataOf(m, o))
  BY DEF Sound
<1>2. m \in Memories /\ NoneOrphaned(m)
  BY SoundGives
<1> HIDE DEF q
<1>3. CASE q = <<>>
  BY <1>1, <1>3, LinkedOne DEF q
<1>4. CASE q # <<>>
  <2>1. q \in Seq(DataOf(m, o)) /\ Len(q) \in Nat /\ Len(q) # 0
    BY <1>1, <1>4 DEF Linked
  <2>2. 1 \in DOMAIN q /\ q[1] \in DataOf(m, o)
    BY <2>1
  <2> DEFINE d == q[1]
  <2>3. Alone(m, d)
    BY <2>2 DEF ToSet, q
  <2>4. d \in Live(m.datum) /\ d \in Data /\ m.datum[d].thread = o
    BY <1>2, <2>2, LiveParts DEF DataOf
  <2>5. q = <<d>> /\ StorageData(m, m.datum[d].storage) = <<d>>
    BY <2>3, <2>4 DEF Alone, q
  <2>6. m.datum[d].storage \in Live(m.storage)
    BY <1>2, <2>4 DEF NoneOrphaned
  <2>7. Linked(NextThread(m), PrevThread(m), m.storage[m.datum[d].storage].data_head,
               StorageData(m, m.datum[d].storage), DataFor(m, m.datum[d].storage))
    BY <2>6 DEF Sound
  <2> HIDE DEF d
  <2>8. DataOf(m, o) = {d} /\ NextData(m)[d] = NULL /\ PrevData(m)[d] = NULL
    BY <1>1, <2>5, LinkedOne
  <2>9. DataFor(m, m.datum[d].storage) = {d}
    BY <2>5, <2>7, LinkedOne
  <2>10. m.datum[d].prev_data = NULL /\ m.datum[d].next_data = NULL
    BY <2>4, <2>8 DEF NextData, PrevData
  <2> QED BY <2>4, <2>5, <2>8, <2>9, <2>10 DEF q
<1> QED BY <1>3, <1>4

\* The end of o, when its list is at most one datum that is alone.
LEMMA ThreadEnds ==
  ASSUME NEW m, Sound(m), NEW o \in Live(m.thread),
         \A d \in ToSet(ThreadData(m, o)) : Alone(m, d), NEW r,
         r = [FoldLeft(UnlinkFromStorage, m, ThreadData(m, o)) EXCEPT !.thread[o].live = FALSE]
  PROVE  ThreadGone(r, m, o)
<1> DEFINE m1 == FoldLeft(UnlinkFromStorage, m, ThreadData(m, o))
<1>1. m \in Memories /\ NoneOrphaned(m)
  BY SoundGives
<1>2. /\ Live(m.thread) = {u \in Threads : m.thread[u].live}
      /\ Live(m.storage) = {u \in Storages : m.storage[u].live}
      /\ Live(m.datum) = {e \in Data : m.datum[e].live}
      /\ m.thread \in [Threads -> ThreadRecords] /\ m.storage \in [Storages -> StorageRecords]
      /\ o \in Threads
  BY <1>1, LiveParts, MemoryParts
<1>3. /\ m1 \in Memories /\ m1.thread = m.thread
      /\ \A d \in Data : /\ m1.datum[d].live = (m.datum[d].live /\ d \notin DataOf(m, o))
                         /\ m1.datum[d].storage = m.datum[d].storage
                         /\ m1.datum[d].thread = m.datum[d].thread
                         /\ m1.datum[d].data = m.datum[d].data
      /\ SameThreadLinks(m1, m) /\ SameStorageLinks(m1, m)
      /\ \A u \in Storages :
           /\ m1.storage[u].live = m.storage[u].live
           /\ m1.storage[u].dtor = m.storage[u].dtor
      /\ \A u \in Live(m.storage) :
           IF DataOf(m, o) \intersect DataFor(m, u) = {}
           THEN m1.storage[u] = m.storage[u]
           ELSE DataFor(m, u) \subseteq DataOf(m, o) /\ m1.storage[u].data_head = NULL
  <2>1. CASE ThreadData(m, o) = <<>> /\ DataOf(m, o) = {}
    <3>1. m1 = m
      BY <2>1, FoldStorageNone
    <3>2. \A d \in Data : m.datum[d].live \in BOOLEAN
      BY <1>1, MemoryParts DEF DatumRecords
    <3> QED BY <1>1, <2>1, <3>1, <3>2 DEF SameThreadLinks, SameStorageLinks
  <2>2. CASE \E d \in Data : /\ ThreadData(m, o) = <<d>> /\ DataOf(m, o) = {d}
                             /\ DataFor(m, m.datum[d].storage) = {d}
                             /\ m.datum[d].prev_data = NULL /\ m.datum[d].next_data = NULL
    <3>0. PICK d \in Data : /\ ThreadData(m, o) = <<d>> /\ DataOf(m, o) = {d}
                            /\ DataFor(m, m.datum[d].storage) = {d}
                            /\ m.datum[d].prev_data = NULL /\ m.datum[d].next_data = NULL
      BY <2>2
    <3> DEFINE v == m.datum[d].storage
    <3>1. m1 = UnlinkFromStorage(m, d)
      BY <3>0, FoldStorageOne
    <3>2. d \in Live(m.datum) /\ v \in Live(m.storage) /\ v \in Storages
      BY <1>1, <1>2, <3>0 DEF DataOf, NoneOrphaned
    <3>3. UnlinkedFromStorage(m1, m, d)
      BY <1>1, <3>0, <3>1, <3>2, UnlinkFromStorageEffect
    <3> HIDE DEF m1
    <3>4. m1 \in Memories /\ m1.thread = m.thread /\ Freed(m1, m, d)
          /\ m1.storage = [m.storage EXCEPT ![v].data_head = NULL]
      BY <3>3 DEF UnlinkedFromStorage
    <3>5. ASSUME NEW u \in Live(m.storage)
          PROVE  IF DataOf(m, o) \intersect DataFor(m, u) = {}
                 THEN m1.storage[u] = m.storage[u]
                 ELSE DataFor(m, u) \subseteq DataOf(m, o) /\ m1.storage[u].data_head = NULL
      <4>1. CASE u = v
        BY <1>2, <3>0, <3>2, <3>4, <4>1 DEF StorageRecords
      <4>2. CASE u # v
        <5>1. d \notin DataFor(m, u)
          BY <4>2 DEF DataFor
        <5> QED BY <1>2, <3>0, <3>4, <4>2, <5>1
      <4> QED BY <4>1, <4>2
    <3>6. \A u \in Storages :
           /\ m1.storage[u].live = m.storage[u].live
           /\ m1.storage[u].dtor = m.storage[u].dtor
      BY <1>2, <3>2, <3>4 DEF StorageRecords
    <3>7. /\ \A e \in Data : /\ m1.datum[e].live = (m.datum[e].live /\ e \notin DataOf(m, o))
                             /\ m1.datum[e].storage = m.datum[e].storage
                             /\ m1.datum[e].thread = m.datum[e].thread
                             /\ m1.datum[e].data = m.datum[e].data
          /\ SameThreadLinks(m1, m) /\ SameStorageLinks(m1, m)
      BY <3>0, <3>4 DEF Freed
    <3> QED BY <3>4, <3>5, <3>6, <3>7
  <2> QED BY <2>1, <2>2, ThreadAlone
<1>4. r = [m1 EXCEPT !.thread[o].live = FALSE]
  OBVIOUS
<1> HIDE DEF m1
<1>5. /\ m1 = [thread |-> m1.thread, storage |-> m1.storage, datum |-> m1.datum]
      /\ m1.thread \in [Threads -> ThreadRecords] /\ m1.storage \in [Storages -> StorageRecords]
      /\ m1.datum \in [Data -> DatumRecords]
  BY <1>3, MemoryParts
<1>6. /\ r.thread = [m1.thread EXCEPT ![o].live = FALSE]
      /\ r.storage = m1.storage /\ r.datum = m1.datum
      /\ r = [thread |-> r.thread, storage |-> r.storage, datum |-> r.datum]
  BY <1>4, <1>5
<1>7. [m1.thread EXCEPT ![o].live = FALSE] \in [Threads -> ThreadRecords]
  BY <1>5 DEF ThreadRecords
<1>8. r \in Memories
  BY <1>5, <1>6, <1>7 DEF Memories
<1>9. /\ Live(r.thread) = {u \in Threads : r.thread[u].live}
      /\ Live(r.storage) = {u \in Storages : r.storage[u].live}
      /\ Live(r.datum) = {e \in Data : r.datum[e].live}
  BY <1>8, LiveParts
<1>10. \A u \in Threads \ {o} : r.thread[u] = m.thread[u]
  BY <1>2, <1>3, <1>6
<1>11. r.thread[o].live = FALSE
  BY <1>2, <1>3, <1>6 DEF ThreadRecords
<1>12. Live(r.thread) = Live(m.thread) \ {o}
  BY <1>2, <1>9, <1>10, <1>11
<1>13. Live(r.storage) = Live(m.storage)
  BY <1>2, <1>3, <1>6, <1>9
<1>14. Live(r.datum) = Live(m.datum) \ DataOf(m, o)
  BY <1>2, <1>3, <1>6, <1>9
<1>15. SameThreadLinks(r, m) /\ SameStorageLinks(r, m)
  BY <1>3, <1>6
  DEF SameThreadLinks, SameStorageLinks, NextData, PrevData, NextThread, PrevThread
<1>16. \A u \in Live(m.storage) :
         IF DataOf(m, o) \intersect DataFor(m, u) = {}
         THEN r.storage[u] = m.storage[u]
         ELSE DataFor(m, u) \subseteq DataOf(m, o) /\ r.storage[u].data_head = NULL
  BY <1>3, <1>6
<1>17. \A d \in Data : /\ r.datum[d].storage = m.datum[d].storage
                        /\ r.datum[d].thread = m.datum[d].thread
                        /\ r.datum[d].data = m.datum[d].data
  BY <1>3, <1>6
<1>18. \A u \in Storages : r.storage[u].dtor = m.storage[u].dtor
  BY <1>3, <1>6
<1> QED BY <1>8, <1>10, <1>12, <1>13, <1>14, <1>15, <1>16, <1>17, <1>18 DEF ThreadGone

LEMMA ThreadGoneKeeps ==
  ASSUME NEW m, Sound(m), Unique(m), NEW o \in Live(m.thread), NEW r, ThreadGone(r, m, o)
  PROVE  Sound(r) /\ Unique(r)
<1>1. /\ m \in Memories /\ NoneOrphaned(m)
      /\ \A u \in Live(m.thread) : ThreadListed(m, u)
      /\ \A u \in Live(m.storage) : StorageListed(m, u)
  BY SoundGives
<1>2. /\ r \in Memories
      /\ Live(r.thread) = Live(m.thread) \ {o} /\ Live(r.storage) = Live(m.storage)
      /\ Live(r.datum) = Live(m.datum) \ DataOf(m, o)
      /\ SameThreadLinks(r, m) /\ SameStorageLinks(r, m)
      /\ Live(m.datum) \in SUBSET Data /\ Live(m.thread) \in SUBSET Threads
  BY <1>1, LiveParts DEF ThreadGone
<1>3. \A d \in Data : /\ r.datum[d].storage = m.datum[d].storage
                      /\ r.datum[d].thread = m.datum[d].thread
                      /\ r.datum[d].data = m.datum[d].data
  BY DEF ThreadGone
<1>4. \A u : DataOf(r, u) = DataOf(m, u) \ DataOf(m, o)
  BY <1>2, <1>3 DEF DataOf
<1>5. \A u : DataFor(r, u) = DataFor(m, u) \ DataOf(m, o)
  BY <1>2, <1>3 DEF DataFor
<1>6. \A u \in Live(r.thread) : ThreadListed(r, u)
  <2> SUFFICES ASSUME NEW u \in Live(m.thread), u # o PROVE ThreadListed(r, u)
    BY <1>2
  <2>1. ThreadListed(m, u) /\ r.thread[u] = m.thread[u]
    BY <1>1, <1>2 DEF ThreadGone
  <2>2. DataOf(r, u) = DataOf(m, u)
    <3>1. DataOf(m, u) \intersect DataOf(m, o) = {}
      BY DEF DataOf
    <3> QED BY <1>4, <3>1
  <2> QED BY <1>2, <2>1, <2>2, ThreadFrame DEF SameThreadLinks
<1>7. \A u \in Live(r.storage) : StorageListed(r, u)
  <2> SUFFICES ASSUME NEW u \in Live(m.storage) PROVE StorageListed(r, u)
    BY <1>2
  <2>1. CASE DataOf(m, o) \intersect DataFor(m, u) = {}
    <3>1. StorageListed(m, u) /\ r.storage[u] = m.storage[u]
      BY <1>1, <2>1 DEF ThreadGone
    <3>2. DataFor(r, u) = DataFor(m, u)
      BY <1>5, <2>1
    <3> QED BY <1>2, <3>1, <3>2, StorageFrame DEF SameStorageLinks
  <2>2. CASE DataOf(m, o) \intersect DataFor(m, u) # {}
    <3>1. DataFor(m, u) \subseteq DataOf(m, o) /\ r.storage[u].data_head = NULL
      BY <2>2 DEF ThreadGone
    <3>2. DataFor(r, u) = {}
      BY <1>5, <3>1
    <3>3. Linked(NextThread(r), PrevThread(r), NULL, <<>>, {})
      BY LinkedEmpty
    <3> QED BY <3>1, <3>2, <3>3 DEF StorageListed
  <2> QED BY <2>1, <2>2
<1>8. NoneOrphaned(r)
  <2> SUFFICES ASSUME NEW d \in Live(r.datum)
               PROVE  /\ r.datum[d].thread \in Live(r.thread)
                      /\ r.datum[d].storage \in Live(r.storage)
                      /\ r.datum[d].data \in Values
    BY DEF NoneOrphaned
  <2>1. d \in Live(m.datum) /\ d \in Data /\ m.datum[d].thread # o
    BY <1>2 DEF DataOf
  <2> QED BY <1>1, <1>2, <1>3, <2>1 DEF NoneOrphaned
<1>9. Unique(r)
  BY <1>2, <1>3 DEF Unique
<1> QED BY <1>2, <1>6, <1>7, <1>8, <1>9, SoundIf

\* A storage that is created has no data.
LEMMA StorageCreatedKeeps ==
  ASSUME NEW m, Sound(m), Unique(m), NEW o \in Free(m.storage), NEW new \in StorageRecords,
         new.live = TRUE, new.data_head = NULL, NEW r,
         r = [thread |-> m.thread, storage |-> [m.storage EXCEPT ![o] = new], datum |-> m.datum]
  PROVE  Sound(r) /\ Unique(r)
<1>1. /\ m \in Memories /\ NoneOrphaned(m)
      /\ \A u \in Live(m.thread) : ThreadListed(m, u)
      /\ \A u \in Live(m.storage) : StorageListed(m, u)
  BY SoundGives
<1>2. /\ m.thread \in [Threads -> ThreadRecords] /\ m.datum \in [Data -> DatumRecords]
      /\ m.storage \in [Storages -> StorageRecords] /\ o \in Storages
  BY <1>1, MemoryParts DEF Free
<1>3. /\ r.storage = [m.storage EXCEPT ![o] = new] /\ r.thread = m.thread /\ r.datum = m.datum
      /\ r \in Memories
  BY <1>2 DEF Memories
<1>4. Live(r.storage) = Live(m.storage) \union {o} /\ Live(r.thread) = Live(m.thread)
      /\ o \notin Live(m.storage)
  BY <1>2, <1>3 DEF Live, Free
<1>5. /\ SameThreadLinks(r, m) /\ SameStorageLinks(r, m)
      /\ \A u : DataOf(r, u) = DataOf(m, u)
      /\ \A u : DataFor(r, u) = DataFor(m, u)
  BY <1>3
  DEF SameThreadLinks, SameStorageLinks, NextData, PrevData, NextThread, PrevThread, DataOf, DataFor
<1>6. ASSUME NEW u \in Live(r.storage) PROVE StorageListed(r, u)
  <2>1. CASE u = o
    <3>1. DataFor(r, o) = {}
      <4>1. \A e \in Live(m.datum) : m.datum[e].storage # o
        BY <1>1, <1>4 DEF NoneOrphaned
      <4> QED BY <1>5, <4>1 DEF DataFor
    <3>2. r.storage[o].data_head = NULL
      BY <1>2, <1>3
    <3>3. Linked(NextThread(r), PrevThread(r), NULL, <<>>, {})
      BY LinkedEmpty
    <3> QED BY <2>1, <3>1, <3>2, <3>3 DEF StorageListed
  <2>2. CASE u # o
    <3>1. StorageListed(m, u) /\ r.storage[u] = m.storage[u]
      BY <1>1, <1>2, <1>3, <1>4, <2>2 DEF Live
    <3> QED BY <1>5, <3>1, StorageFrame DEF SameStorageLinks
  <2> QED BY <2>1, <2>2
<1>7. ASSUME NEW u \in Live(r.thread) PROVE ThreadListed(r, u)
  <2>1. ThreadListed(m, u)
    BY <1>1, <1>4
  <2> QED BY <1>3, <1>5, <2>1, ThreadFrame DEF SameThreadLinks
<1>8. NoneOrphaned(r) /\ Unique(r)
  BY <1>1, <1>3, <1>4 DEF NoneOrphaned, Unique
<1> QED BY <1>3, <1>6, <1>7, <1>8, SoundIf

\* A thread that is created has no data.
LEMMA ThreadCreatedKeeps ==
  ASSUME NEW m, Sound(m), Unique(m), NEW o \in Free(m.thread), NEW new \in ThreadRecords,
         new.live = TRUE, new.local_data_head = NULL, NEW r,
         r = [thread |-> [m.thread EXCEPT ![o] = new], storage |-> m.storage, datum |-> m.datum]
  PROVE  Sound(r) /\ Unique(r)
<1>1. /\ m \in Memories /\ NoneOrphaned(m)
      /\ \A u \in Live(m.thread) : ThreadListed(m, u)
      /\ \A u \in Live(m.storage) : StorageListed(m, u)
  BY SoundGives
<1>2. /\ m.thread \in [Threads -> ThreadRecords] /\ m.datum \in [Data -> DatumRecords]
      /\ m.storage \in [Storages -> StorageRecords] /\ o \in Threads
  BY <1>1, MemoryParts DEF Free
<1>3. /\ r.thread = [m.thread EXCEPT ![o] = new] /\ r.storage = m.storage /\ r.datum = m.datum
      /\ r \in Memories
  BY <1>2 DEF Memories
<1>4. Live(r.thread) = Live(m.thread) \union {o} /\ Live(r.storage) = Live(m.storage)
      /\ o \notin Live(m.thread)
  BY <1>2, <1>3 DEF Live, Free
<1>5. /\ SameThreadLinks(r, m) /\ SameStorageLinks(r, m)
      /\ \A u : DataOf(r, u) = DataOf(m, u)
      /\ \A u : DataFor(r, u) = DataFor(m, u)
  BY <1>3
  DEF SameThreadLinks, SameStorageLinks, NextData, PrevData, NextThread, PrevThread, DataOf, DataFor
<1>6. ASSUME NEW u \in Live(r.thread) PROVE ThreadListed(r, u)
  <2>1. CASE u = o
    <3>1. DataOf(r, o) = {}
      <4>1. \A e \in Live(m.datum) : m.datum[e].thread # o
        BY <1>1, <1>4 DEF NoneOrphaned
      <4> QED BY <1>5, <4>1 DEF DataOf
    <3>2. r.thread[o].local_data_head = NULL
      BY <1>2, <1>3
    <3>3. Linked(NextData(r), PrevData(r), NULL, <<>>, {})
      BY LinkedEmpty
    <3> QED BY <2>1, <3>1, <3>2, <3>3 DEF ThreadListed
  <2>2. CASE u # o
    <3>1. ThreadListed(m, u) /\ r.thread[u] = m.thread[u]
      BY <1>1, <1>2, <1>3, <1>4, <2>2 DEF Live
    <3> QED BY <1>5, <3>1, ThreadFrame DEF SameThreadLinks
  <2> QED BY <2>1, <2>2
<1>7. ASSUME NEW u \in Live(r.storage) PROVE StorageListed(r, u)
  <2>1. StorageListed(m, u)
    BY <1>1, <1>4
  <2> QED BY <1>3, <1>5, <2>1, StorageFrame DEF SameStorageLinks
<1>8. NoneOrphaned(r) /\ Unique(r)
  BY <1>1, <1>3, <1>4 DEF NoneOrphaned, Unique
<1> QED BY <1>3, <1>6, <1>7, <1>8, SoundIf

-----------------------------------------------------------------------------
(* The invariant *)

\* What a step makes of the memory is the memory after it.
LEMMA MemoryAfter ==
  ASSUME NEW r \in Memories, Becomes(r)
  PROVE  Memory' = r
BY MemoryParts DEF Becomes, Memory

LEMMA InitiallySound ==
  ASSUME ThreadLocalInit
  PROVE  SoundInv
<1>1. /\ thread \in [Threads -> ThreadRecords] /\ storage \in [Storages -> StorageRecords]
      /\ datum \in [Data -> DatumRecords]
  BY DEF ThreadLocalInit, ThreadRecords, StorageRecords, DatumRecords, Link
<1>2. /\ Memory.thread = thread /\ Memory.storage = storage /\ Memory.datum = datum
      /\ Memory \in Memories
  BY <1>1 DEF Memory, Memories
<1>3. Live(Memory.thread) = {} /\ Live(Memory.storage) = {} /\ Live(Memory.datum) = {}
  BY <1>2 DEF ThreadLocalInit, Live
<1>4. NoneOrphaned(Memory) /\ Unique(Memory)
  BY <1>3 DEF NoneOrphaned, Unique
<1>5. Sound(Memory)
  BY <1>2, <1>3, <1>4, SoundIf
<1> QED BY <1>4, <1>5 DEF SoundInv, ThreadLocalInit

\* The values given to destructors are users' values.
LEMMA DestructedTyped ==
  ASSUME NEW m, Sound(m), NEW t \in Live(m.thread)
  PROVE  /\ ToSet(ThreadData(m, t)) = DataOf(m, t)
         /\ Destructed(m, t) \subseteq Storages \X Values
<1> DEFINE q == ThreadData(m, t)
<1>1. Linked(NextData(m), PrevData(m), m.thread[t].local_data_head, q, DataOf(m, t))
  BY DEF Sound
<1>2. m \in Memories /\ NoneOrphaned(m) /\ Live(m.storage) \subseteq Storages
  BY SoundGives, LiveParts
<1> HIDE DEF q
<1>3. ToSet(q) = DataOf(m, t)
  <2>1. q \in Seq(DataOf(m, t)) /\ \A d \in DataOf(m, t) : \E i \in 1 .. Len(q) : q[i] = d
    BY <1>1 DEF Linked
  <2>2. DOMAIN q = 1 .. Len(q) /\ \A i \in 1 .. Len(q) : q[i] \in DataOf(m, t)
    BY <2>1
  <2> QED BY <2>1, <2>2 DEF ToSet
<1>4. \A d \in DataOf(m, t) : m.datum[d].storage \in Storages /\ m.datum[d].data \in Values
  BY <1>2 DEF NoneOrphaned, DataOf
<1> QED BY <1>3, <1>4 DEF Destructed, q

LEMMA SoundStep ==
  ASSUME Disciplined = TRUE, SoundInv, [ThreadLocalNext]_tls_vars
  PROVE  SoundInv'
<1> DEFINE m == Memory
<1>0. /\ m.thread = thread /\ m.storage = storage /\ m.datum = datum
      /\ Sound(m) /\ Unique(m) /\ handed \subseteq Storages \X Values
  BY DEF SoundInv, Memory
<1>1. Live(m.thread) \subseteq Threads /\ Live(m.storage) \subseteq Storages /\ m \in Memories
  BY <1>0, SoundGives, LiveParts
<1> SUFFICES Sound(Memory') /\ Unique(Memory') /\ handed' \subseteq Storages \X Values
  BY DEF SoundInv, Sound, Unique
<1>2. ASSUME NEW s \in Storages, NEW dtor \in BOOLEAN, syscall_ts_create(s, dtor)
      PROVE  Sound(Memory') /\ Unique(Memory') /\ handed' \subseteq Storages \X Values
  <2> DEFINE new == [live |-> TRUE, dtor |-> dtor, data_head |-> NULL]
  <2>1. new \in StorageRecords /\ new.live = TRUE /\ new.data_head = NULL
    BY DEF StorageRecords, Link
  <2>2. /\ s \in Free(m.storage) /\ handed' = {}
        /\ Memory' = [thread |-> m.thread, storage |-> [m.storage EXCEPT ![s] = new],
                      datum |-> m.datum]
    BY <1>0, <1>2 DEF syscall_ts_create, Memory
  <2> HIDE DEF new
  <2> QED BY <1>0, <2>1, <2>2, StorageCreatedKeeps
<1>3. ASSUME NEW s \in Storages, syscall_ts_destroy(s)
      PROVE  Sound(Memory') /\ Unique(Memory') /\ handed' \subseteq Storages \X Values
  <2> DEFINE r == kthread_ls_destroy(m, s)
  <2>1. /\ s \in Live(m.storage) /\ Becomes(r) /\ handed' = {}
        /\ \A d \in ToSet(StorageData(m, s)) : Alone(m, d)
    BY <1>0, <1>3 DEF syscall_ts_destroy, MayDestroy
  <2>2. StorageGone(r, m, s)
    BY <1>0, <2>1, StorageEnds DEF kthread_ls_destroy
  <2> HIDE DEF r
  <2>3. Sound(r) /\ Unique(r) /\ r \in Memories
    BY <1>0, <2>1, <2>2, StorageGoneKeeps DEF StorageGone
  <2> QED BY <2>1, <2>3, MemoryAfter
<1>4. ASSUME NEW s \in Storages, NEW t \in Threads, NEW data \in Values, syscall_ts_set(s, t, data)
      PROVE  Sound(Memory') /\ Unique(Memory') /\ handed' \subseteq Storages \X Values
  <2>1. PICK r \in kthread_ls_set(m, s, t, data) : Becomes(r)
    BY <1>4 DEF syscall_ts_set
  <2>2. s \in Live(m.storage) /\ t \in Live(m.thread) /\ handed' = {}
    BY <1>0, <1>4 DEF syscall_ts_set
  <2>3. Sound(r) /\ Unique(r)
    <3>1. CASE Find(m, s, t) # NULL
      <4>1. r = [m EXCEPT !.datum[Find(m, s, t)].data = data]
        BY <2>1, <3>1 DEF kthread_ls_set
      <4> QED BY <1>0, <2>2, <3>1, <4>1, OverwriteKeeps
    <3>2. CASE Find(m, s, t) = NULL
      <4>1. PICK d \in Free(m.datum) :
              r = LinkToStorage(LinkToThread(Filled(m, d, s, t, data), d, t), d, s)
        BY <2>1, <3>2 DEF kthread_ls_set
      <4> QED BY <1>0, <2>2, <3>2, <4>1, NewKeeps
    <3> QED BY <3>1, <3>2
  <2>4. r \in Memories
    BY <2>3, SoundGives
  <2> QED BY <2>1, <2>2, <2>3, <2>4, MemoryAfter
<1>5. ASSUME NEW t \in Threads, kthread_create(t)
      PROVE  Sound(Memory') /\ Unique(Memory') /\ handed' \subseteq Storages \X Values
  <2> DEFINE new == [live |-> TRUE, local_data_head |-> NULL]
  <2>1. new \in ThreadRecords /\ new.live = TRUE /\ new.local_data_head = NULL
    BY DEF ThreadRecords, Link
  <2>2. /\ t \in Free(m.thread) /\ handed' = {}
        /\ Memory' = [thread |-> [m.thread EXCEPT ![t] = new], storage |-> m.storage,
                      datum |-> m.datum]
    BY <1>0, <1>5 DEF kthread_create, Memory
  <2> HIDE DEF new
  <2> QED BY <1>0, <2>1, <2>2, ThreadCreatedKeeps
<1>6. ASSUME NEW t \in Threads, kthread_destroy(t)
      PROVE  Sound(Memory') /\ Unique(Memory') /\ handed' \subseteq Storages \X Values
  <2> DEFINE r == [kthread_clean_td(m, t) EXCEPT !.thread[t].live = FALSE]
  <2>1. /\ t \in Live(m.thread) /\ Becomes(r) /\ handed' = Destructed(m, t)
        /\ \A d \in ToSet(ThreadData(m, t)) : Alone(m, d)
    BY <1>0, <1>6 DEF kthread_destroy, MayEnd
  <2>2. ThreadGone(r, m, t)
    BY <1>0, <2>1, ThreadEnds DEF kthread_clean_td
  <2> HIDE DEF r
  <2>3. Sound(r) /\ Unique(r) /\ r \in Memories
    BY <1>0, <2>1, <2>2, ThreadGoneKeeps DEF ThreadGone
  <2> QED BY <1>0, <2>1, <2>3, MemoryAfter, DestructedTyped
<1>7. CASE \/ UNCHANGED tls_vars
           \/ \E s \in Storages, t \in Threads : syscall_ts_set_fails(s, t)
  <2>1. Memory' = m /\ handed' \in {handed, {}}
    BY <1>7 DEF tls_vars, syscall_ts_set_fails, Memory
  <2> QED BY <1>0, <2>1
<1> QED BY <1>2, <1>3, <1>4, <1>5, <1>6, <1>7 DEF ThreadLocalNext

\* The lists link what they should, and each datum is the only one of its thread
\* for its storage.
THEOREM ThreadLocalInvariance ==
  ASSUME Disciplined = TRUE
  PROVE  ThreadLocalSpec => []SoundInv
<1>1. ThreadLocalInit => SoundInv
  BY InitiallySound
<1>2. SoundInv /\ [ThreadLocalNext]_tls_vars => SoundInv'
  BY SoundStep
<1> QED BY <1>1, <1>2, PTL DEF ThreadLocalSpec

LEMMA SoundIsRight ==
  ASSUME SoundInv
  PROVE  ThreadLocalInv
<1>1. /\ Memory.thread = thread /\ Memory.storage = storage /\ Memory.datum = datum
      /\ Sound(Memory) /\ Memory \in Memories
  BY DEF SoundInv, Memory, Sound
<1>2. ASSUME NEW Q \in SUBSET Data, NEW next, NEW prev, NEW h, NEW q, Linked(next, prev, h, q, Q)
      PROVE  IsListOf(q, prev, Q)
  <2>1. /\ q \in Seq(Q) /\ \A d \in Q : \E i \in 1 .. Len(q) : q[i] = d
        /\ \A i, j \in 1 .. Len(q) : q[i] = q[j] => i = j
        /\ \A i \in 1 .. Len(q) : prev[q[i]] = IF i = 1 THEN NULL ELSE q[i - 1]
    BY <1>2 DEF Linked
  <2>2. Len(q) = Cardinality(Q)
    BY <2>1, ListSize
  <2>3. DOMAIN q = 1 .. Len(q) /\ \A i \in 1 .. Len(q) : q[i] \in Q
    BY <2>1
  <2>4. ToSet(q) = Q
    BY <2>1, <2>3 DEF ToSet
  <2> QED BY <2>1, <2>2, <2>3, <2>4 DEF IsListOf
<1>3. ASSUME NEW t \in Live(thread)
      PROVE  IsListOf(ThreadData(Memory, t), PrevData(Memory), DataOf(Memory, t))
  <2>1. /\ DataOf(Memory, t) \in SUBSET Data
        /\ Linked(NextData(Memory), PrevData(Memory), Memory.thread[t].local_data_head,
                  ThreadData(Memory, t), DataOf(Memory, t))
    BY <1>1, LiveParts DEF Sound
  <2> QED BY <1>2, <2>1
<1>4. ASSUME NEW s \in Live(storage)
      PROVE  IsListOf(StorageData(Memory, s), PrevThread(Memory), DataFor(Memory, s))
  <2>1. /\ DataFor(Memory, s) \in SUBSET Data
        /\ Linked(NextThread(Memory), PrevThread(Memory), Memory.storage[s].data_head,
                  StorageData(Memory, s), DataFor(Memory, s))
    BY <1>1, LiveParts DEF Sound
  <2> QED BY <1>2, <2>1
<1>5. NoOrphan
  BY <1>1 DEF Sound, NoOrphan
<1> QED BY <1>1, <1>3, <1>4, <1>5 DEF ThreadLocalInv, ThreadLocalTypeOK, OnBothLists, SoundInv

\* ThreadLocalInv: every datum is on the list of its thread and on that of its
\* storage, once, and back links lead back (thread_local.c:18-27,64-72).
THEOREM ListsAreRight ==
  ASSUME Disciplined = TRUE
  PROVE  ThreadLocalSpec => []ThreadLocalInv
BY ThreadLocalInvariance, SoundIsRight, PTL

-----------------------------------------------------------------------------
(* The table *)

TableDtors(m) ==
  [s \in Storages |-> IF m.storage[s].live THEN m.storage[s].dtor ELSE Unset]
TableStore(m) ==
  [t \in Threads |-> [s \in Storages |-> IF m.thread[t].live THEN Lookup(m, s, t) ELSE Unset]]

\* A thread reads the value of its datum, if it has one.
LEMMA LookupIsRight ==
  ASSUME NEW m, Sound(m), Unique(m), NEW s, NEW t \in Live(m.thread)
  PROVE  /\ Pair(m, s, t) = {} => Lookup(m, s, t) = Unset
         /\ \A d \in Pair(m, s, t) :
              Lookup(m, s, t) = m.datum[d].data /\ Lookup(m, s, t) \in Values
<1>1. m \in Memories /\ NoneOrphaned(m) /\ Live(m.datum) \subseteq Data /\ NULL \notin Data
  BY SoundGives, LiveParts, ThreadLocalAssumption
<1>2. \A d \in Pair(m, s, t) :
        /\ d \in Live(m.datum) /\ d # NULL /\ m.datum[d].data \in Values
        /\ m.datum[d].thread = t /\ m.datum[d].storage = s
  BY <1>1 DEF Pair, DataOf, NoneOrphaned
<1>3. \A d, e \in Pair(m, s, t) : d = e
  BY <1>2 DEF Unique
<1>4. /\ Pair(m, s, t) = {} => Find(m, s, t) = NULL
      /\ Pair(m, s, t) # {} => Find(m, s, t) \in Pair(m, s, t)
  BY FindIsRight
<1>5. Lookup(m, s, t) = IF Find(m, s, t) = NULL THEN Unset ELSE m.datum[Find(m, s, t)].data
  BY DEF Lookup
<1> QED BY <1>2, <1>3, <1>4, <1>5

LEMMA LookupKept ==
  ASSUME NEW m, Sound(m), Unique(m), NEW r, Sound(r), Unique(r),
         NEW s, NEW t, t \in Live(m.thread), t \in Live(r.thread),
         Pair(r, s, t) = Pair(m, s, t),
         \A d \in Pair(m, s, t) : r.datum[d].data = m.datum[d].data
  PROVE  Lookup(r, s, t) = Lookup(m, s, t)
<1>1. /\ Pair(m, s, t) = {} => Lookup(m, s, t) = Unset
      /\ \A d \in Pair(m, s, t) : Lookup(m, s, t) = m.datum[d].data
  BY LookupIsRight
<1>2. /\ Pair(r, s, t) = {} => Lookup(r, s, t) = Unset
      /\ \A d \in Pair(r, s, t) : Lookup(r, s, t) = r.datum[d].data
  BY LookupIsRight
<1> QED BY <1>1, <1>2

StorageCreated(r, m, s, dtor) ==
  /\ s \in Free(m.storage)
  /\ r.thread = m.thread /\ r.datum = m.datum
  /\ \A u \in Storages :
       r.storage[u] = IF u = s THEN [live |-> TRUE, dtor |-> dtor, data_head |-> NULL]
                      ELSE m.storage[u]

\* A new storage has an entry of its own, and no values.
LEMMA StorageCreatedInTable ==
  ASSUME NEW m, Sound(m), Unique(m), NEW s, NEW dtor, NEW r, Sound(r), Unique(r),
         StorageCreated(r, m, s, dtor)
  PROVE  /\ TableDtors(m)[s] = Unset
         /\ TableDtors(r) = [TableDtors(m) EXCEPT ![s] = dtor]
         /\ TableStore(r) = TableStore(m)
<1>1. m \in Memories
  BY SoundGives
<1>2. m.storage \in [Storages -> StorageRecords] /\ s \in Storages /\ ~m.storage[s].live
  BY <1>1, MemoryParts DEF Free, Live, StorageCreated
<1>3. r.thread = m.thread /\ r.datum = m.datum
  BY DEF StorageCreated
<1>4. \A u \in Storages : /\ r.storage[u].live = IF u = s THEN TRUE ELSE m.storage[u].live
                          /\ r.storage[u].dtor = IF u = s THEN dtor ELSE m.storage[u].dtor
  <2> SUFFICES ASSUME NEW u \in Storages
               PROVE  /\ r.storage[u].live = IF u = s THEN TRUE ELSE m.storage[u].live
                      /\ r.storage[u].dtor = IF u = s THEN dtor ELSE m.storage[u].dtor
    OBVIOUS
  <2>1. r.storage[u] = IF u = s THEN [live |-> TRUE, dtor |-> dtor, data_head |-> NULL]
                       ELSE m.storage[u]
    BY DEF StorageCreated
  <2> QED BY <2>1
<1>5. TableDtors(m)[s] = Unset /\ TableDtors(r) = [TableDtors(m) EXCEPT ![s] = dtor]
  BY <1>2, <1>4 DEF TableDtors
<1>6. ASSUME NEW t \in Threads, NEW u \in Storages, m.thread[t].live
      PROVE  Lookup(r, u, t) = Lookup(m, u, t)
  <2>1. t \in Live(m.thread) /\ t \in Live(r.thread)
    BY <1>1, <1>3, <1>6, LiveParts
  <2>2. Pair(r, u, t) = Pair(m, u, t)
    BY <1>3 DEF Pair, DataOf
  <2> QED BY <1>3, <2>1, <2>2, LookupKept
<1>7. TableStore(r) = TableStore(m)
  BY <1>3, <1>6 DEF TableStore
<1> QED BY <1>5, <1>7

\* The values for a storage go with it.
LEMMA StorageGoneInTable ==
  ASSUME NEW m, Sound(m), Unique(m), NEW s \in Live(m.storage), NEW r, Sound(r), Unique(r),
         StorageGone(r, m, s)
  PROVE  /\ TableDtors(m)[s] # Unset
         /\ TableDtors(r) = [TableDtors(m) EXCEPT ![s] = Unset]
         /\ TableStore(r) = [t \in Threads |-> [TableStore(m)[t] EXCEPT ![s] = Unset]]
<1>1. m \in Memories /\ r \in Memories
  BY SoundGives
<1>2. /\ Live(m.storage) = {u \in Storages : m.storage[u].live}
      /\ Live(r.storage) = {u \in Storages : r.storage[u].live}
      /\ Live(m.thread) = {u \in Threads : m.thread[u].live}
      /\ Live(r.thread) = {u \in Threads : r.thread[u].live}
      /\ Live(m.datum) \in SUBSET Data /\ s \in Storages
  BY <1>1, LiveParts
<1>3. /\ Live(r.storage) = Live(m.storage) \ {s} /\ Live(r.thread) = Live(m.thread)
      /\ Live(r.datum) = Live(m.datum) \ DataFor(m, s)
      /\ \A u \in Storages \ {s} : r.storage[u] = m.storage[u]
      /\ \A d \in Data : /\ r.datum[d].storage = m.datum[d].storage
                         /\ r.datum[d].thread = m.datum[d].thread
                         /\ r.datum[d].data = m.datum[d].data
  BY DEF StorageGone
<1>4. m.storage[s].dtor \in BOOLEAN /\ m.storage[s].live /\ ~r.storage[s].live
      /\ Unset \notin BOOLEAN
  BY <1>1, <1>2, <1>3, MemoryParts, ThreadLocalAssumption DEF StorageRecords
<1>5. TableDtors(m)[s] # Unset /\ TableDtors(r) = [TableDtors(m) EXCEPT ![s] = Unset]
  BY <1>2, <1>3, <1>4 DEF TableDtors
<1>6. ASSUME NEW t \in Threads, NEW u \in Storages
      PROVE  TableStore(r)[t][u] = IF u = s THEN Unset ELSE TableStore(m)[t][u]
  <2>1. CASE t \notin Live(m.thread)
    BY <1>2, <1>3, <2>1 DEF TableStore
  <2>2. CASE t \in Live(m.thread) /\ u = s
    <3>1. Pair(r, u, t) = {}
      BY <1>2, <1>3, <2>2 DEF Pair, DataOf, DataFor
    <3>2. Lookup(r, u, t) = Unset
      BY <1>3, <2>2, <3>1, LookupIsRight
    <3> QED BY <2>2, <3>2 DEF TableStore
  <2>3. CASE t \in Live(m.thread) /\ u # s
    <3>1. Pair(r, u, t) = Pair(m, u, t) /\ Pair(m, u, t) \in SUBSET Data
      BY <1>2, <1>3, <2>3 DEF Pair, DataOf, DataFor
    <3>2. Lookup(r, u, t) = Lookup(m, u, t)
      BY <1>3, <2>3, <3>1, LookupKept
    <3> QED BY <1>2, <1>3, <2>3, <3>2 DEF TableStore
  <2> QED BY <2>1, <2>2, <2>3
<1>7. TableStore(r) = [t \in Threads |-> [TableStore(m)[t] EXCEPT ![s] = Unset]]
  <2>1. \A t \in Threads : TableStore(r)[t] = [TableStore(m)[t] EXCEPT ![s] = Unset]
    <3> SUFFICES ASSUME NEW t \in Threads
                 PROVE  TableStore(r)[t] = [TableStore(m)[t] EXCEPT ![s] = Unset]
      OBVIOUS
    <3>1. /\ TableStore(r)[t] = [u \in Storages |-> TableStore(r)[t][u]]
          /\ TableStore(m)[t] = [u \in Storages |-> TableStore(m)[t][u]]
      BY DEF TableStore
    <3> QED BY <1>6, <3>1
  <2>2. TableStore(r) = [t \in Threads |-> TableStore(r)[t]]
    BY DEF TableStore
  <2> QED BY <2>1, <2>2
<1> QED BY <1>5, <1>7

\* What a thread stores is in the table; nothing else changes.
LEMMA SetInTable ==
  ASSUME NEW m, Sound(m), Unique(m), NEW s \in Live(m.storage), NEW t \in Live(m.thread),
         NEW data \in Values, NEW r \in kthread_ls_set(m, s, t, data)
  PROVE  /\ Sound(r) /\ Unique(r)
         /\ TableDtors(m)[s] # Unset /\ TableDtors(r) = TableDtors(m)
         /\ TableStore(r) = [TableStore(m) EXCEPT ![t][s] = data]
<1>1. /\ m \in Memories /\ s \in Storages /\ t \in Threads
      /\ m.storage[s].live /\ m.storage[s].dtor \in BOOLEAN /\ Unset \notin BOOLEAN
      /\ m.thread[t].live /\ m.datum \in [Data -> DatumRecords]
      /\ Live(m.datum) \in SUBSET Data
      /\ Live(m.thread) = {u \in Threads : m.thread[u].live}
  BY SoundGives, LiveParts, MemoryParts, ThreadLocalAssumption DEF StorageRecords
<1>2. PICK d :
        /\ Sound(r) /\ Unique(r)
        /\ \A u \in Threads : r.thread[u].live = m.thread[u].live
        /\ \A u \in Storages : /\ r.storage[u].live = m.storage[u].live
                               /\ r.storage[u].dtor = m.storage[u].dtor
        /\ Pair(r, s, t) = {d} /\ r.datum[d].data = data
        /\ \A u \in Threads, v \in Storages : u # t \/ v # s =>
             /\ Pair(r, v, u) = Pair(m, v, u)
             /\ \A e \in Pair(m, v, u) : r.datum[e].data = m.datum[e].data
  <2>1. CASE Find(m, s, t) # NULL
    <3> DEFINE d == Find(m, s, t)
    <3>1. r = [m EXCEPT !.datum[d].data = data]
      BY <2>1 DEF kthread_ls_set
    <3>2. Sound(r) /\ Unique(r) /\ d \in Pair(m, s, t) /\ Overwritten(r, m, d, data)
      BY <2>1, <3>1, OverwriteKeeps
    <3> HIDE DEF d
    <3>3. /\ \A u, v : Pair(r, v, u) = Pair(m, v, u)
          /\ \A u, v : Pair(m, v, u) \in SUBSET Live(m.datum)
      <4>1. r \in Memories /\ \A e \in Data : /\ r.datum[e].live = m.datum[e].live
                                              /\ r.datum[e].storage = m.datum[e].storage
                                              /\ r.datum[e].thread = m.datum[e].thread
        BY <3>2 DEF Overwritten
      <4>2. /\ Live(r.datum) = {e \in Data : r.datum[e].live}
            /\ Live(m.datum) = {e \in Data : m.datum[e].live}
        BY <1>1, <4>1, LiveParts
      <4>3. Live(r.datum) = Live(m.datum)
        BY <4>1, <4>2
      <4> QED BY <4>1, <4>2, <4>3 DEF Pair, DataOf
    <3>4. d \in Data /\ Pair(m, s, t) = {d}
      <4>1. \A e \in Pair(m, s, t) : e = d
        BY <3>2 DEF Unique, Pair, DataOf
      <4> QED BY <1>1, <3>2, <3>3, <4>1
    <3>5. r.datum[d].data = data /\ \A e \in Data : e # d => r.datum[e].data = m.datum[e].data
      BY <3>2, <3>4 DEF Overwritten
    <3>6. ASSUME NEW u \in Threads, NEW v \in Storages, u # t \/ v # s,
                 NEW e \in Pair(m, v, u)
          PROVE  r.datum[e].data = m.datum[e].data
      <4>1. e # d /\ e \in Data
        BY <1>1, <3>2, <3>3, <3>6 DEF Pair, DataOf
      <4> QED BY <3>5, <4>1
    <3>7. r.thread = m.thread /\ r.storage = m.storage
      BY <3>2 DEF Overwritten
    <3> QED BY <3>2, <3>3, <3>4, <3>5, <3>6, <3>7
  <2>2. CASE Find(m, s, t) = NULL
    <3>1. PICK d \in Free(m.datum) :
            r = LinkToStorage(LinkToThread(Filled(m, d, s, t, data), d, t), d, s)
      BY <2>2 DEF kthread_ls_set
    <3>2. Sound(r) /\ Unique(r) /\ NewlyLinked(r, m, d, s, t, data) /\ d \in Data
      BY <2>2, <3>1, NewKeeps
    <3>3. /\ r \in Memories
          /\ \A e \in Data : /\ r.datum[e].live = (m.datum[e].live \/ e = d)
                             /\ r.datum[e].storage = IF e = d THEN s ELSE m.datum[e].storage
                             /\ r.datum[e].thread = IF e = d THEN t ELSE m.datum[e].thread
                             /\ r.datum[e].data = IF e = d THEN data ELSE m.datum[e].data
      BY <3>2 DEF NewlyLinked
    <3>4. /\ Live(r.datum) = {e \in Data : r.datum[e].live}
          /\ Live(m.datum) = {e \in Data : m.datum[e].live}
          /\ ~m.datum[d].live
      BY <1>1, <3>2, <3>3, LiveParts DEF Free, Live
    <3>5. Live(r.datum) = Live(m.datum) \union {d} /\ d \notin Live(m.datum)
      BY <3>2, <3>3, <3>4
    <3>6. \A u, v : Pair(r, v, u) = IF u = t /\ v = s THEN Pair(m, v, u) \union {d}
                                    ELSE Pair(m, v, u)
      BY <1>1, <3>2, <3>3, <3>5 DEF Pair, DataOf
    <3>7. Pair(m, s, t) = {}
      <4>1. NULL \notin Pair(m, s, t)
        BY <1>1, ThreadLocalAssumption DEF Pair, DataOf
      <4> QED BY <2>2, <4>1, FindIsRight
    <3>8. \A u, v : \A e \in Pair(m, v, u) : r.datum[e].data = m.datum[e].data
      BY <1>1, <3>3, <3>5 DEF Pair, DataOf
    <3>9. /\ \A u \in Threads : r.thread[u].live = m.thread[u].live
          /\ \A u \in Storages : /\ r.storage[u].live = m.storage[u].live
                                 /\ r.storage[u].dtor = m.storage[u].dtor
      <4>1. /\ m.thread \in [Threads -> ThreadRecords] /\ m.storage \in [Storages -> StorageRecords]
            /\ r.thread = [m.thread EXCEPT ![t].local_data_head = d]
            /\ r.storage = [m.storage EXCEPT ![s].data_head = d]
        BY <1>1, <3>2, MemoryParts DEF NewlyLinked
      <4> QED BY <1>1, <4>1 DEF ThreadRecords, StorageRecords
    <3> QED BY <3>2, <3>3, <3>6, <3>7, <3>8, <3>9
  <2> QED BY <2>1, <2>2
<1>3. TableDtors(m)[s] # Unset /\ TableDtors(r) = TableDtors(m)
  BY <1>1, <1>2 DEF TableDtors
<1>4. ASSUME NEW u \in Threads, NEW v \in Storages
      PROVE  TableStore(r)[u][v] = IF u = t /\ v = s THEN data ELSE TableStore(m)[u][v]
  <2>1. r \in Memories
    BY <1>2, SoundGives
  <2>2. Live(r.thread) = Live(m.thread)
    <3>1. Live(r.thread) = {w \in Threads : r.thread[w].live}
      BY <2>1, LiveParts
    <3> QED BY <1>1, <1>2, <3>1
  <2>3. CASE u \notin Live(m.thread)
    BY <1>1, <1>2, <2>2, <2>3 DEF TableStore
  <2>4. CASE u = t /\ v = s
    <3>1. Lookup(r, s, t) = data
      BY <1>2, <2>2, LookupIsRight
    <3> QED BY <1>1, <1>2, <2>4, <3>1 DEF TableStore
  <2>5. CASE u \in Live(m.thread) /\ (u # t \/ v # s)
    <3>1. /\ Pair(r, v, u) = Pair(m, v, u)
          /\ \A e \in Pair(m, v, u) : r.datum[e].data = m.datum[e].data
      BY <1>2, <2>5
    <3>2. Lookup(r, v, u) = Lookup(m, v, u)
      BY <1>2, <2>2, <2>5, <3>1, LookupKept
    <3> QED BY <1>1, <1>2, <2>5, <3>2 DEF TableStore
  <2> QED BY <2>3, <2>4, <2>5
<1>5. TableStore(r) = [TableStore(m) EXCEPT ![t][s] = data]
  <2>1. TableStore(r)[t] = [TableStore(m)[t] EXCEPT ![s] = data]
    <3>1. /\ TableStore(r)[t] = [v \in Storages |-> TableStore(r)[t][v]]
          /\ TableStore(m)[t] = [v \in Storages |-> TableStore(m)[t][v]]
      BY <1>1 DEF TableStore
    <3> QED BY <1>1, <1>4, <3>1
  <2>2. \A u \in Threads : u # t => TableStore(r)[u] = TableStore(m)[u]
    <3> SUFFICES ASSUME NEW u \in Threads, u # t PROVE TableStore(r)[u] = TableStore(m)[u]
      OBVIOUS
    <3>1. /\ TableStore(r)[u] = [v \in Storages |-> TableStore(r)[u][v]]
          /\ TableStore(m)[u] = [v \in Storages |-> TableStore(m)[u][v]]
      BY DEF TableStore
    <3> QED BY <1>4, <3>1
  <2>3. /\ TableStore(r) = [u \in Threads |-> TableStore(r)[u]]
        /\ TableStore(m) = [u \in Threads |-> TableStore(m)[u]]
    BY DEF TableStore
  <2> QED BY <1>1, <2>1, <2>2, <2>3
<1> QED BY <1>2, <1>3, <1>5

\* A new thread has stored nothing.
LEMMA ThreadCreatedInTable ==
  ASSUME NEW m, Sound(m), Unique(m), NEW t \in Free(m.thread), NEW new \in ThreadRecords,
         new.live = TRUE, new.local_data_head = NULL, NEW r, Sound(r), Unique(r),
         r = [thread |-> [m.thread EXCEPT ![t] = new], storage |-> m.storage, datum |-> m.datum]
  PROVE  TableDtors(r) = TableDtors(m) /\ TableStore(r) = TableStore(m)
<1>1. m \in Memories /\ r \in Memories /\ NoneOrphaned(m)
  BY SoundGives
<1>2. /\ m.thread \in [Threads -> ThreadRecords] /\ t \in Threads /\ ~m.thread[t].live
      /\ Live(m.thread) = {u \in Threads : m.thread[u].live}
      /\ Live(r.thread) = {u \in Threads : r.thread[u].live}
  BY <1>1, MemoryParts, LiveParts DEF Free, Live
<1>3. r.storage = m.storage /\ r.datum = m.datum
      /\ \A u \in Threads : r.thread[u] = IF u = t THEN new ELSE m.thread[u]
  BY <1>2
<1>4. \A u, v : Pair(r, v, u) = Pair(m, v, u)
  BY <1>3 DEF Pair, DataOf
<1>5. ASSUME NEW u \in Threads, NEW v \in Storages
      PROVE  (IF r.thread[u].live THEN Lookup(r, v, u) ELSE Unset)
               = (IF m.thread[u].live THEN Lookup(m, v, u) ELSE Unset)
  <2>1. CASE u = t
    <3>1. Pair(r, v, t) = {}
      <4>1. \A d \in Live(m.datum) : m.datum[d].thread # t
        BY <1>1, <1>2 DEF NoneOrphaned
      <4> QED BY <1>4, <4>1 DEF Pair, DataOf
    <3>2. t \in Live(r.thread)
      BY <1>2, <1>3
    <3>3. Lookup(r, v, t) = Unset
      BY <3>1, <3>2, LookupIsRight
    <3> QED BY <1>2, <2>1, <3>3
  <2>2. CASE u # t /\ m.thread[u].live
    <3>1. u \in Live(m.thread) /\ u \in Live(r.thread)
      BY <1>2, <1>3, <2>2
    <3>2. Lookup(r, v, u) = Lookup(m, v, u)
      BY <1>3, <1>4, <3>1, LookupKept
    <3> QED BY <1>3, <2>2, <3>2
  <2>3. CASE u # t /\ ~m.thread[u].live
    BY <1>3, <2>3
  <2> QED BY <2>1, <2>2, <2>3
<1>6. TableStore(r) = TableStore(m)
  BY <1>5 DEF TableStore
<1> QED BY <1>3, <1>6 DEF TableDtors

\* The row of a thread that ends is cleared.
LEMMA ThreadGoneInTable ==
  ASSUME NEW m, Sound(m), Unique(m), NEW t \in Live(m.thread), NEW r, Sound(r), Unique(r),
         ThreadGone(r, m, t)
  PROVE  /\ TableDtors(r) = TableDtors(m)
         /\ TableStore(r) = [TableStore(m) EXCEPT ![t] = [s \in Storages |-> Unset]]
<1>1. m \in Memories /\ r \in Memories
  BY SoundGives
<1>2. /\ Live(m.storage) = {u \in Storages : m.storage[u].live}
      /\ Live(r.storage) = {u \in Storages : r.storage[u].live}
      /\ Live(m.thread) = {u \in Threads : m.thread[u].live}
      /\ Live(r.thread) = {u \in Threads : r.thread[u].live}
      /\ Live(m.datum) \in SUBSET Data /\ t \in Threads
      /\ m.storage \in [Storages -> StorageRecords] /\ r.storage \in [Storages -> StorageRecords]
  BY <1>1, LiveParts, MemoryParts
<1>3. /\ Live(r.thread) = Live(m.thread) \ {t} /\ Live(r.storage) = Live(m.storage)
      /\ Live(r.datum) = Live(m.datum) \ DataOf(m, t)
      /\ \A u \in Threads \ {t} : r.thread[u] = m.thread[u]
      /\ \A u \in Storages : r.storage[u].dtor = m.storage[u].dtor
      /\ \A d \in Data : /\ r.datum[d].storage = m.datum[d].storage
                         /\ r.datum[d].thread = m.datum[d].thread
                         /\ r.datum[d].data = m.datum[d].data
  BY DEF ThreadGone
<1>4. TableDtors(r) = TableDtors(m)
  <2>1. \A u \in Storages : r.storage[u].live <=> m.storage[u].live
    BY <1>2, <1>3
  <2> QED BY <1>3, <2>1 DEF TableDtors
<1>5. ASSUME NEW u \in Threads, NEW v \in Storages, u # t
      PROVE  TableStore(r)[u][v] = TableStore(m)[u][v]
  <2>1. CASE u \notin Live(m.thread)
    BY <1>2, <1>3, <1>5, <2>1 DEF TableStore
  <2>2. CASE u \in Live(m.thread)
    <3>1. Pair(r, v, u) = Pair(m, v, u) /\ Pair(m, v, u) \in SUBSET Data
      BY <1>2, <1>3, <1>5 DEF Pair, DataOf
    <3>2. Lookup(r, v, u) = Lookup(m, v, u)
      BY <1>3, <1>5, <2>2, <3>1, LookupKept
    <3> QED BY <1>2, <1>3, <1>5, <2>2, <3>2 DEF TableStore
  <2> QED BY <2>1, <2>2
<1>6. TableStore(r)[t] = [s \in Storages |-> Unset]
  BY <1>2, <1>3 DEF TableStore
<1>7. \A u \in Threads : u # t => TableStore(r)[u] = TableStore(m)[u]
  <2> SUFFICES ASSUME NEW u \in Threads, u # t PROVE TableStore(r)[u] = TableStore(m)[u]
    OBVIOUS
  <2>1. /\ TableStore(r)[u] = [v \in Storages |-> TableStore(r)[u][v]]
        /\ TableStore(m)[u] = [v \in Storages |-> TableStore(m)[u][v]]
    BY DEF TableStore
  <2> QED BY <1>5, <2>1
<1>8. /\ TableStore(r) = [u \in Threads |-> TableStore(r)[u]]
      /\ TableStore(m) = [u \in Threads |-> TableStore(m)[u]]
  BY DEF TableStore
<1>9. TableStore(r) = [TableStore(m) EXCEPT ![t] = [s \in Storages |-> Unset]]
  BY <1>2, <1>6, <1>7, <1>8
<1> QED BY <1>4, <1>9

\* The destructors get what the thread has stored for their storages.
LEMMA DestructedInTable ==
  ASSUME NEW m, Sound(m), Unique(m), NEW t \in Live(m.thread)
  PROVE  Destructed(m, t) =
           {<<s, TableStore(m)[t][s]>> :
            s \in {x \in Storages : TableStore(m)[t][x] # Unset /\ TableDtors(m)[x] = TRUE}}
<1> DEFINE S == {x \in Storages : TableStore(m)[t][x] # Unset /\ TableDtors(m)[x] = TRUE}
           D == {x \in DataOf(m, t) : m.storage[m.datum[x].storage].dtor}
<1>1. m \in Memories /\ NoneOrphaned(m)
  BY SoundGives
<1>2. /\ Live(m.storage) = {u \in Storages : m.storage[u].live}
      /\ Live(m.thread) = {u \in Threads : m.thread[u].live}
      /\ m.storage \in [Storages -> StorageRecords] /\ t \in Threads /\ m.thread[t].live
  BY <1>1, LiveParts, MemoryParts
<1>3. Destructed(m, t) = {<<m.datum[d].storage, m.datum[d].data>> : d \in D}
  BY DestructedTyped DEF Destructed
<1>4. ASSUME NEW d \in D
      PROVE  m.datum[d].storage \in S /\ TableStore(m)[t][m.datum[d].storage] = m.datum[d].data
  <2> DEFINE s == m.datum[d].storage
  <2>1. d \in Pair(m, s, t) /\ s \in Live(m.storage) /\ m.storage[s].dtor
    BY <1>1 DEF Pair, DataOf, NoneOrphaned
  <2>2. Lookup(m, s, t) = m.datum[d].data /\ Lookup(m, s, t) \in Values
    BY <2>1, LookupIsRight
  <2> HIDE DEF s
  <2>3. s \in Storages /\ m.storage[s].live /\ m.storage[s].dtor = TRUE
    BY <1>2, <2>1 DEF StorageRecords
  <2>4. TableStore(m)[t][s] = m.datum[d].data /\ TableDtors(m)[s] = TRUE
    BY <1>2, <2>2, <2>3 DEF TableStore, TableDtors
  <2>5. m.datum[d].data # Unset
    BY <2>2, ThreadLocalAssumption
  <2> QED BY <2>3, <2>4, <2>5 DEF s
<1>5. ASSUME NEW s \in S
      PROVE  \E d \in D : m.datum[d].storage = s /\ m.datum[d].data = TableStore(m)[t][s]
  <2>1. TableStore(m)[t][s] = Lookup(m, s, t) /\ Lookup(m, s, t) # Unset
    BY <1>2 DEF TableStore
  <2>2. Pair(m, s, t) # {}
    BY <2>1, LookupIsRight
  <2>3. PICK d \in Pair(m, s, t) : TRUE
    BY <2>2
  <2>4. Lookup(m, s, t) = m.datum[d].data
    BY <2>3, LookupIsRight
  <2>5. m.storage[s].dtor
    <3>1. TableDtors(m)[s] = TRUE /\ s \in Storages
      OBVIOUS
    <3>2. TRUE # Unset
      BY ThreadLocalAssumption
    <3> QED BY <3>1, <3>2 DEF TableDtors
  <2>6. d \in DataOf(m, t) /\ m.datum[d].storage = s
    BY <2>3 DEF Pair
  <2>7. d \in D
    BY <2>5, <2>6
  <2> QED BY <2>1, <2>4, <2>6, <2>7
<1> HIDE DEF D, S
<1>6. {<<m.datum[d].storage, m.datum[d].data>> : d \in D}
        = {<<s, TableStore(m)[t][s]>> : s \in S}
  BY <1>4, <1>5
<1> QED BY <1>3, <1>6 DEF S


\* What the refinement mapping makes of a state and of the next one.
LEMMA MappedState ==
  /\ [s \in Storages |-> IF storage[s].live THEN storage[s].dtor ELSE Unset] = TableDtors(Memory)
  /\ [t \in Threads |-> [s \in Storages |->
        IF thread[t].live THEN Lookup(Memory, s, t) ELSE Unset]] = TableStore(Memory)
  /\ [s \in Storages |-> IF storage'[s].live THEN storage'[s].dtor ELSE Unset]
       = TableDtors(Memory')
  /\ [t \in Threads |-> [s \in Storages |->
        IF thread'[t].live THEN Lookup(Memory', s, t) ELSE Unset]] = TableStore(Memory')
<1>1. Memory.thread = thread /\ Memory.storage = storage
  BY DEF Memory
<1>2. Memory'.thread = thread' /\ Memory'.storage = storage'
  BY DEF Memory
<1> QED BY <1>1, <1>2 DEF TableDtors, TableStore

\* One step of LocalStore, or none, for each step.
LEMMA StepInTable ==
  ASSUME Disciplined = TRUE, SoundInv, SoundInv', [ThreadLocalNext]_tls_vars
  PROVE  [Table!StoreNext]_Table!store_vars
<1> DEFINE m == Memory
           r == Memory'
<1>0. /\ m.thread = thread /\ m.storage = storage /\ m.datum = datum
      /\ Sound(m) /\ Unique(m) /\ m \in Memories
  BY SoundGives DEF SoundInv, Memory
<1>1. Sound(r) /\ Unique(r)
  BY DEF SoundInv, Sound, Unique
<1>2. ASSUME NEW s \in Storages, NEW dtor \in BOOLEAN, syscall_ts_create(s, dtor)
      PROVE  Table!Create(s)
  <2>1. StorageCreated(r, m, s, dtor) /\ handed' = {}
    <3>1. /\ s \in Free(storage) /\ handed' = {} /\ UNCHANGED <<thread, datum>>
          /\ storage' = [storage EXCEPT ![s] = [live |-> TRUE, dtor |-> dtor, data_head |-> NULL]]
      BY <1>2 DEF syscall_ts_create
    <3>2. storage \in [Storages -> StorageRecords]
      BY <1>0, MemoryParts
    <3>3. r.thread = thread' /\ r.storage = storage' /\ r.datum = datum'
      BY DEF Memory
    <3> QED BY <1>0, <3>1, <3>2, <3>3 DEF StorageCreated
  <2>2. /\ TableDtors(m)[s] = Unset
        /\ TableDtors(r) = [TableDtors(m) EXCEPT ![s] = dtor]
        /\ TableStore(r) = TableStore(m)
    BY <1>0, <1>1, <2>1, StorageCreatedInTable
  <2> QED BY <2>1, <2>2, MappedState DEF Table!Create
<1>3. ASSUME NEW s \in Storages, syscall_ts_destroy(s)
      PROVE  Table!Destroy(s)
  <2> DEFINE n == kthread_ls_destroy(m, s)
  <2>1. /\ s \in Live(m.storage) /\ Becomes(n) /\ handed' = {}
        /\ \A d \in ToSet(StorageData(m, s)) : Alone(m, d)
    BY <1>0, <1>3 DEF syscall_ts_destroy, MayDestroy
  <2>2. StorageGone(n, m, s)
    BY <1>0, <2>1, StorageEnds DEF kthread_ls_destroy
  <2> HIDE DEF n
  <2>3. n = r
    BY <2>1, <2>2, MemoryAfter DEF StorageGone
  <2>4. /\ TableDtors(m)[s] # Unset
        /\ TableDtors(r) = [TableDtors(m) EXCEPT ![s] = Unset]
        /\ TableStore(r) = [t \in Threads |-> [TableStore(m)[t] EXCEPT ![s] = Unset]]
    BY <1>0, <1>1, <2>1, <2>2, <2>3, StorageGoneInTable
  <2> QED BY <2>1, <2>4, MappedState DEF Table!Destroy
<1>4. ASSUME NEW s \in Storages, NEW t \in Threads, NEW data \in Values, syscall_ts_set(s, t, data)
      PROVE  Table!Set(t, s, data)
  <2>1. PICK n \in kthread_ls_set(m, s, t, data) : Becomes(n)
    BY <1>4 DEF syscall_ts_set
  <2>2. s \in Live(m.storage) /\ t \in Live(m.thread) /\ handed' = {}
    BY <1>0, <1>4 DEF syscall_ts_set
  <2>3. /\ Sound(n) /\ Unique(n)
        /\ TableDtors(m)[s] # Unset /\ TableDtors(n) = TableDtors(m)
        /\ TableStore(n) = [TableStore(m) EXCEPT ![t][s] = data]
    <3> HIDE DEF m, r
    <3>1. Sound(m) /\ Unique(m) /\ n \in kthread_ls_set(m, s, t, data)
      BY <1>0, <2>1
    <3> QED BY <2>2, <3>1, SetInTable
  <2>4. n = r
    BY <2>1, <2>3, SoundGives, MemoryAfter
  <2> QED BY <2>2, <2>3, <2>4, MappedState DEF Table!Set
<1>5. ASSUME NEW t \in Threads, kthread_create(t)
      PROVE  Table!Nothing
  <2> DEFINE new == [live |-> TRUE, local_data_head |-> NULL]
  <2>1. new \in ThreadRecords /\ new.live = TRUE /\ new.local_data_head = NULL
    BY DEF ThreadRecords, Link
  <2>2. /\ t \in Free(m.thread) /\ handed' = {}
        /\ r = [thread |-> [m.thread EXCEPT ![t] = new], storage |-> m.storage,
                datum |-> m.datum]
    BY <1>0, <1>5 DEF kthread_create, Memory
  <2> HIDE DEF new
  <2>3. TableDtors(r) = TableDtors(m) /\ TableStore(r) = TableStore(m)
    BY <1>0, <1>1, <2>1, <2>2, ThreadCreatedInTable
  <2> QED BY <2>2, <2>3, MappedState DEF Table!Nothing
<1>6. ASSUME NEW t \in Threads, kthread_destroy(t)
      PROVE  Table!End(t)
  <2> DEFINE n == [kthread_clean_td(m, t) EXCEPT !.thread[t].live = FALSE]
  <2>1. /\ t \in Live(m.thread) /\ Becomes(n) /\ handed' = Destructed(m, t)
        /\ \A d \in ToSet(ThreadData(m, t)) : Alone(m, d)
    BY <1>0, <1>6 DEF kthread_destroy, MayEnd
  <2>2. ThreadGone(n, m, t)
    BY <1>0, <2>1, ThreadEnds DEF kthread_clean_td
  <2> HIDE DEF n
  <2>3. n = r
    BY <2>1, <2>2, MemoryAfter DEF ThreadGone
  <2>4. /\ TableDtors(r) = TableDtors(m)
        /\ TableStore(r) = [TableStore(m) EXCEPT ![t] = [s \in Storages |-> Unset]]
    BY <1>0, <1>1, <2>1, <2>2, <2>3, ThreadGoneInTable
  <2>5. handed' = {<<s, TableStore(m)[t][s]>> :
          s \in {x \in Storages : TableStore(m)[t][x] # Unset /\ TableDtors(m)[x] = TRUE}}
    BY <1>0, <2>1, DestructedInTable
  <2>6. Table!Empty[t] = [s \in Storages |-> Unset]
    BY DEF Table!Empty
  <2>7. Table!Owed(t) = handed'
    <3>1. \A s \in Storages :
            /\ (IF storage[s].live THEN storage[s].dtor ELSE Unset) = TableDtors(m)[s]
            /\ (IF thread[t].live THEN Lookup(Memory, s, t) ELSE Unset) = TableStore(m)[t][s]
      BY <1>0 DEF TableDtors, TableStore
    <3> DEFINE val(s) == IF thread[t].live THEN Lookup(Memory, s, t) ELSE Unset
               dtor(s) == IF storage[s].live THEN storage[s].dtor ELSE Unset
    <3>2. Table!Owed(t) = {<<s, val(s)>> : s \in {x \in Storages : val(x) # Unset /\ dtor(x) = TRUE}}
      BY DEF Table!Owed
    <3>3. \A s \in Storages : val(s) = TableStore(m)[t][s] /\ dtor(s) = TableDtors(m)[s]
      BY <3>1
    <3> HIDE DEF val, dtor
    <3> QED BY <2>5, <3>2, <3>3
  <2> QED BY <2>4, <2>6, <2>7, MappedState DEF Table!End
<1>7. ASSUME NEW s \in Storages, NEW t \in Threads, syscall_ts_set_fails(s, t)
      PROVE  Table!Nothing
  <2>1. r = m /\ handed' = {}
    BY <1>7 DEF syscall_ts_set_fails, Memory
  <2> QED BY <2>1, MappedState DEF Table!Nothing
<1>8. CASE UNCHANGED tls_vars
  <2>1. r = m /\ handed' = handed
    BY <1>8 DEF tls_vars, Memory
  <2>2. UNCHANGED Table!store_vars
    BY <2>1, MappedState DEF Table!store_vars
  <2> QED BY <2>2
<1> QED BY <1>2, <1>3, <1>4, <1>5, <1>6, <1>7, <1>8 DEF ThreadLocalNext, Table!StoreNext

LEMMA InitiallyEmpty ==
  ASSUME ThreadLocalInit
  PROVE  Table!StoreInit
<1>1. /\ \A t \in Threads : ~thread[t].live
      /\ \A s \in Storages : ~storage[s].live
      /\ handed = {}
  BY DEF ThreadLocalInit
<1> QED BY <1>1 DEF Table!StoreInit, Table!Empty

\* ActsAsTable: threads read what they last stored, and the destructors get each
\* such value of a thread that ends (thread_local.c:37-75, thread.c:101-120).
THEOREM StorageIsATable ==
  ASSUME Disciplined = TRUE
  PROVE  ThreadLocalSpec => ActsAsTable
<1>1. ThreadLocalInit => Table!StoreInit
  BY InitiallyEmpty
<1>2. SoundInv /\ SoundInv' /\ [ThreadLocalNext]_tls_vars => [Table!StoreNext]_Table!store_vars
  BY StepInTable
<1>3. ThreadLocalSpec => []SoundInv
  BY ThreadLocalInvariance
<1> QED BY <1>1, <1>2, <1>3, PTL DEF ThreadLocalSpec, ActsAsTable, Table!StoreSpec
=============================================================================
