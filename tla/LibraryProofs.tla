--------------------------- MODULE LibraryProofs ---------------------------
(***************************************************************************)
(* Theorems and proofs about Library, for arrays, keys, texts, numerals    *)
(* and limits of the types of any kind.                                    *)
(***************************************************************************)
EXTENDS Library, FiniteSetTheorems, SequenceTheorems, WellFoundedInduction, TLAPS

-----------------------------------------------------------------------------
(* Natural numbers *)

\* What holds of 0 and of the successors of the numbers it holds of, of all.
LEMMA SetInduction ==
  ASSUME NEW S, 0 \in S, \A n \in Nat : n \in S => n + 1 \in S
  PROVE  \A n \in Nat : n \in S
<1> DEFINE T == Nat \ S
           R == {ss \in Nat \X Nat : ss[1] < ss[2]}
<1> SUFFICES ASSUME T # {} PROVE FALSE
  OBVIOUS
<1>1. IsWellFoundedOn(R, Nat)
  BY NatLessThanWellFounded DEF OpToRel
<1> HIDE DEF R
<1>2. PICK x \in T : \A y \in T : ~ (<<y, x>> \in R)
  BY <1>1, WFMin
<1>3. x - 1 \in Nat /\ x - 1 < x /\ (x - 1) + 1 = x
  OBVIOUS
<1>4. x - 1 \in T
  BY <1>3
<1>5. <<x - 1, x>> \in R
  BY <1>3 DEF R
<1> QED BY <1>2, <1>4, <1>5

\* The least of some numbers.
LEMMA LeastNumber ==
  ASSUME NEW S, S \subseteq Nat, S # {}
  PROVE  \E a \in S : \A b \in S : a <= b
<1> SUFFICES ASSUME \A a \in S : \E b \in S : b < a PROVE FALSE
  OBVIOUS
<1> DEFINE T == {n \in Nat : \A m \in 0..n : m \notin S}
<1>1. 0 \in T
  OBVIOUS
<1>2. ASSUME NEW n \in Nat, n \in T PROVE n + 1 \in T
  BY <1>2
<1> HIDE DEF T
<1>3. \A n \in Nat : n \in T
  BY <1>1, <1>2, SetInduction
<1>4. PICK a \in S : TRUE
  OBVIOUS
<1>5. a \in T /\ a \in 0..a
  BY <1>3, <1>4
<1> QED BY <1>4, <1>5 DEF T

-----------------------------------------------------------------------------
(* bsearch *)

\* A size_t keeps what it can hold.
LEMMA WrappedIs ==
  ASSUME NEW i \in Int, SIZE_MAX \in Nat
  PROVE  Wrapped(i) \in 0..SIZE_MAX /\ (i \in 0..SIZE_MAX => Wrapped(i) = i)
<1> DEFINE n == SIZE_MAX + 1
           q == i \div n
<1>1. n \in Nat /\ n > 0 /\ q \in Int
  OBVIOUS
<1>2. i % n \in 0..(n - 1) /\ i = n * q + (i % n)
  BY <1>1
<1>3. ASSUME i \in 0..(n - 1) PROVE q = 0
  <2>1. ASSUME q <= -1 PROVE n * q <= -n
    BY <2>1, <1>1
  <2>2. ASSUME q >= 1 PROVE n * q >= n
    BY <2>2, <1>1
  <2> QED BY <2>1, <2>2, <1>1, <1>2, <1>3
<1> QED BY <1>1, <1>2, <1>3 DEF Wrapped

LEMMA SearchInit == LibraryInit => SearchInv
<1> SUFFICES ASSUME LibraryInit, Runs("bsearch") PROVE SearchInv
  BY DEF SearchInv, SearchTypes, Between, Finds, Searching
<1>1. /\ call \in [function : {"bsearch"}, array : Arrays, key : Keys]
      /\ local = bsearch_init(call.array)
  BY DEF LibraryInit, Runs
<1> DEFINE n == Len(call.array)
<1>2. /\ call.array \in Arrays /\ call.key \in Keys /\ n \in Nat /\ n <= SIZE_MAX
      /\ SIZE_MAX \in Nat /\ call.array \in Seq(Int)
  BY <1>1, LibraryAssumption
<1>3. local.left = 0 /\ local.right = Wrapped(n - 1) /\ local.result = "none"
  BY <1>1 DEF bsearch_init
<1>4. Wrapped(n - 1) \in 0..SIZE_MAX
  BY <1>2, WrappedIs
<1>5. SearchTypes
  BY <1>1, <1>2, <1>3, <1>4 DEF SearchTypes, bsearch_init
<1>6. Between
  <2> SUFFICES ASSUME ~Below PROVE local.right = n - 1 /\ n - 1 \in Nat
    BY <1>2, <1>3 DEF Between
  <2>1. n - 1 \in Nat
    BY <1>2 DEF Below
  <2> QED BY <2>1, <1>2, <1>3, WrappedIs
<1>7. Finds
  BY <1>3 DEF Finds, Searching, Runs
<1> QED BY <1>5, <1>6, <1>7 DEF SearchInv

\* Where the middle is, while the search goes on.
LEMMA MiddleBetween ==
  ASSUME SearchInv, Searching, local.left <= local.right
  PROVE  /\ middle \in local.left..local.right
         /\ ~Below => ~Outside /\ middle + 1 \in DOMAIN call.array
<1>1. /\ local.left \in 0..SIZE_MAX /\ local.right \in 0..SIZE_MAX /\ SIZE_MAX \in Nat
      /\ call.array \in Arrays
  BY LibraryAssumption DEF SearchInv, SearchTypes, Searching
<1>2. middle \in local.left..local.right
  BY <1>1 DEF middle
<1>3. call.array \in Seq(Int) /\ Len(call.array) \in Nat
  BY <1>1, LibraryAssumption
<1>4. ASSUME ~Below PROVE middle < Len(call.array) /\ middle \in Nat
  <2>1. local.right \in 0..(Len(call.array) - 1)
    BY <1>4 DEF SearchInv, Between
  <2> QED BY <2>1, <1>1, <1>2, <1>3
<1> QED BY <1>2, <1>3, <1>4 DEF Outside

LEMMA TurnStep ==
  ASSUME SearchInv, Turn
  PROVE  SearchInv'
<1>1. Searching /\ local.left <= local.right /\ call' = call
  BY DEF Turn
<1>2. PICK comparison \in Comparisons : local' = bsearch_step(comparison)
  BY DEF Turn
<1> DEFINE n == Len(call.array)
<1>3. /\ local = [left |-> local.left, right |-> local.right, result |-> local.result]
      /\ local.left \in 0..SIZE_MAX /\ local.right \in 0..SIZE_MAX /\ SIZE_MAX \in Nat
      /\ local.result = "none" /\ call.array \in Arrays /\ call.key \in Keys
  BY <1>1, LibraryAssumption DEF SearchInv, SearchTypes, Searching
<1>4. call.array \in Seq(Int) /\ n \in Nat /\ n <= SIZE_MAX /\ call.key \in Int
  BY <1>3, LibraryAssumption
<1>5. middle \in local.left..local.right /\ middle \in 0..SIZE_MAX
  BY <1>1, <1>3, MiddleBetween
<1>6. comparison \in {-1, 0, 1}
  BY <1>2 DEF Comparisons
<1>7. ASSUME ~Below
      PROVE  /\ middle + 1 \in 1..n /\ call.array[middle + 1] \in Int
             /\ comparison = IF call.key < call.array[middle + 1] THEN -1
                             ELSE IF call.key = call.array[middle + 1] THEN 0 ELSE 1
             /\ local.left \in 0..n /\ local.right \in 0..(n - 1)
             /\ \A i \in 1..local.left : call.array[i] < call.key
             /\ \A i \in (local.right + 2)..n : call.array[i] > call.key
             /\ \A i, j \in 1..n : i <= j => call.array[i] <= call.array[j]
             /\ \A i \in 1..n : call.array[i] \in Int
  <2>1. ~Outside /\ middle + 1 \in 1..n
    BY <1>1, <1>4, <1>7, MiddleBetween
  <2>2. \A i, j \in 1..n : i <= j => call.array[i] <= call.array[j]
    BY <1>3, <1>4, LibraryAssumption
  <2>3. \A i \in 1..n : call.array[i] \in Int
    BY <1>4
  <2> QED BY <2>1, <2>2, <2>3, <1>1, <1>2, <1>7 DEF Comparisons, SearchInv, Between
<1>8. CASE comparison = 0
  <2>1. /\ local' = [left |-> local.left, right |-> local.right, result |-> "found"]
    BY <1>2, <1>3, <1>8 DEF bsearch_step
  <2>2. SearchTypes' /\ ~Searching'
    BY <1>1, <1>3, <2>1 DEF SearchTypes, Searching, Runs
  <2>3. middle' = middle /\ local'.result = "found"
    BY <2>1 DEF middle
  <2>4. Finds'
    BY <1>1, <1>7, <1>8, <2>3 DEF Finds, Below
  <2> QED BY <2>2, <2>4 DEF SearchInv, Between
<1>9. CASE comparison = -1
  <2>1. /\ local' = [left |-> local.left, right |-> Wrapped(middle - 1), result |-> "none"]
    BY <1>2, <1>3, <1>9 DEF bsearch_step
  <2>2. Wrapped(middle - 1) \in 0..SIZE_MAX
    BY <1>3, <1>5, WrappedIs
  <2>3. SearchTypes' /\ Searching'
    BY <1>1, <1>3, <2>1, <2>2 DEF SearchTypes, Searching, Runs
  <2>4. Between'
    <3> SUFFICES ASSUME ~Below
                 PROVE  /\ local.left \in 0..n /\ Wrapped(middle - 1) \in 0..(n - 1)
                        /\ \A i \in 1..local.left : call.array[i] < call.key
                        /\ \A i \in (Wrapped(middle - 1) + 2)..n : call.array[i] > call.key
      BY <1>1, <2>1 DEF Between, Below
    <3>1. call.key < call.array[middle + 1]
      BY <1>7, <1>9
    <3>2. middle # 0
      BY <3>1 DEF Below
    <3>3. Wrapped(middle - 1) = middle - 1
      BY <3>2, <1>3, <1>5, WrappedIs
    <3>4. ASSUME NEW i \in (middle + 1)..n PROVE call.array[i] > call.key
      <4>0. i \in 1..n /\ middle + 1 \in 1..n
        BY <1>4, <1>5, <1>7
      <4>1. /\ call.array[middle + 1] <= call.array[i] /\ call.array[i] \in Int
            /\ call.array[middle + 1] \in Int
        BY <4>0, <1>7, <1>4, <1>5
      <4> QED BY <4>1, <3>1, <1>4
    <3>5. middle - 1 \in 0..(n - 1) /\ middle - 1 + 2 = middle + 1
      BY <3>2, <1>4, <1>5, <1>7
    <3> QED BY <3>3, <3>4, <3>5, <1>7
  <2> QED BY <2>3, <2>4 DEF SearchInv, Finds
<1>10. CASE comparison = 1
  <2>1. /\ local' = [left |-> Wrapped(middle + 1), right |-> local.right, result |-> "none"]
    BY <1>2, <1>3, <1>10 DEF bsearch_step
  <2>2. Wrapped(middle + 1) \in 0..SIZE_MAX
    BY <1>3, <1>5, WrappedIs
  <2>3. SearchTypes' /\ Searching'
    BY <1>1, <1>3, <2>1, <2>2 DEF SearchTypes, Searching, Runs
  <2>4. Between'
    <3> SUFFICES ASSUME ~Below
                 PROVE  /\ Wrapped(middle + 1) \in 0..n /\ local.right \in 0..(n - 1)
                        /\ \A i \in 1..Wrapped(middle + 1) : call.array[i] < call.key
                        /\ \A i \in (local.right + 2)..n : call.array[i] > call.key
      BY <1>1, <2>1 DEF Between, Below
    <3>1. call.array[middle + 1] < call.key
      BY <1>7, <1>10, <1>4
    <3>2. Wrapped(middle + 1) = middle + 1
      BY <1>3, <1>4, <1>5, <1>7, WrappedIs
    <3>3. ASSUME NEW i \in 1..(middle + 1) PROVE call.array[i] < call.key
      <4>0. i \in 1..n /\ middle + 1 \in 1..n
        BY <1>4, <1>5, <1>7
      <4>1. /\ call.array[i] <= call.array[middle + 1] /\ call.array[i] \in Int
            /\ call.array[middle + 1] \in Int
        BY <4>0, <1>7, <1>4, <1>5
      <4> QED BY <4>1, <3>1, <1>4
    <3> QED BY <3>2, <3>3, <1>4, <1>5, <1>7
  <2> QED BY <2>3, <2>4 DEF SearchInv, Finds
<1> QED BY <1>6, <1>8, <1>9, <1>10

LEMMA NotFoundStep ==
  ASSUME SearchInv, NotFound
  PROVE  SearchInv'
<1>1. Searching /\ local.left > local.right /\ call' = call
  BY DEF NotFound
<1>2. /\ local = [left |-> local.left, right |-> local.right, result |-> local.result]
      /\ local.left \in 0..SIZE_MAX /\ local.right \in 0..SIZE_MAX /\ SIZE_MAX \in Nat
      /\ call.array \in Arrays /\ call.key \in Keys
  BY <1>1, LibraryAssumption DEF SearchInv, SearchTypes, Searching
<1>3. local' = [left |-> local.left, right |-> local.right, result |-> "absent"]
  BY <1>2 DEF NotFound
<1>4. SearchTypes' /\ ~Searching'
  BY <1>1, <1>2, <1>3 DEF SearchTypes, Searching, Runs
<1>5. ASSUME ~Below PROVE call.key \notin ToSet(call.array)
  <2>1. /\ call.array \in Seq(Int) /\ Len(call.array) \in Nat /\ call.key \in Int
        /\ \A i \in 1..Len(call.array) : call.array[i] \in Int
    BY <1>2, LibraryAssumption
  <2>2. /\ \A i \in 1..local.left : call.array[i] < call.key
        /\ \A i \in (local.right + 2)..Len(call.array) : call.array[i] > call.key
        /\ local.left \in Nat /\ local.right \in Nat
    BY <1>1, <1>2, <1>5 DEF SearchInv, Between
  <2>3. \A i \in 1..Len(call.array) : i <= local.left \/ i >= local.right + 2
    BY <1>1, <2>1, <2>2
  <2>4. \A i \in 1..Len(call.array) : call.array[i] # call.key
    BY <2>1, <2>2, <2>3
  <2> QED BY <2>1, <2>4 DEF ToSet
<1>6. Finds'
  BY <1>1, <1>3, <1>5 DEF Finds, Below
<1> QED BY <1>4, <1>6 DEF SearchInv, Between

\* The other functions do not touch it.
LEMMA SearchInvStep ==
  ASSUME SearchInv, [LibraryNext]_library_vars
  PROVE  SearchInv'
<1>1. CASE Turn
  BY <1>1, TurnStep
<1>2. CASE NotFound
  BY <1>2, NotFoundStep
<1>3. CASE ~Runs("bsearch") /\ call' = call
  BY <1>3 DEF SearchInv, SearchTypes, Between, Finds, Searching, Runs
<1>4. CASE UNCHANGED library_vars
  BY <1>4 DEF SearchInv, SearchTypes, Between, Finds, Searching, Runs, Below, middle, library_vars
<1>5. ASSUME Conversion \/ NextToken \/ \E user \in Users : FirstToken(user)
      PROVE  ~Runs("bsearch") /\ call' = call
  BY <1>5 DEF Conversion, NextToken, FirstToken, Runs
<1> QED BY <1>1, <1>2, <1>3, <1>4, <1>5 DEF LibraryNext

LEMMA SearchInvEnough ==
  ASSUME SearchInv
  PROVE  SearchIsRight
<1>1. StaysInside
  BY MiddleBetween DEF StaysInside
<1> QED BY <1>1 DEF SearchInv, SearchTypes, SearchIsRight

\* bsearch reads outside the array only below it, and finds what is in the array.
THEOREM SearchFinds == LibrarySpec => []SearchIsRight
<1>1. LibraryInit => SearchInv
  BY SearchInit
<1>2. SearchInv /\ [LibraryNext]_library_vars => SearchInv'
  BY SearchInvStep
<1>3. SearchInv => SearchIsRight
  BY SearchInvEnough
<1> QED BY <1>1, <1>2, <1>3, PTL DEF LibrarySpec

\* The middle is in the middle.
LEMMA TurnHalves ==
  ASSUME SearchInv, Turn, ~Below, Searching'
  PROVE  2 * Window' <= Window
<1>1. Searching /\ local.left <= local.right /\ Runs("bsearch")
  BY DEF Turn, Searching
<1>2. PICK comparison \in Comparisons : local' = bsearch_step(comparison)
  BY DEF Turn
<1> DEFINE n == Len(call.array)
<1>3. /\ local = [left |-> local.left, right |-> local.right, result |-> local.result]
      /\ call.array \in Arrays /\ SIZE_MAX \in Nat
  BY <1>1, LibraryAssumption DEF SearchInv, SearchTypes
<1>4. n \in Nat /\ n <= SIZE_MAX
  BY <1>3, LibraryAssumption
<1>5. local.left \in 0..n /\ local.right \in 0..(n - 1)
  BY <1>1 DEF SearchInv, Between
<1>6. middle \in local.left..local.right /\ ~Outside
  BY <1>1, MiddleBetween
<1>7. comparison = IF call.key < call.array[middle + 1] THEN -1
                   ELSE IF call.key = call.array[middle + 1] THEN 0 ELSE 1
  BY <1>2, <1>6 DEF Comparisons
<1> DEFINE l == local.left
           r == local.right
           m == middle
<1>8. /\ l \in Nat /\ r \in Nat /\ m \in Nat /\ l <= m /\ m <= r /\ r < n
      /\ m = l + (r - l) \div 2 /\ Window = r - l + 1
  BY <1>1, <1>4, <1>5, <1>6 DEF middle, Window
<1> HIDE DEF l, r, m
<1>9. 2 * (m - l) <= r - l + 1 /\ 2 * (r - m) <= r - l + 1
  BY <1>8
<1>10. CASE comparison = 0
  BY <1>2, <1>3, <1>10 DEF bsearch_step, Searching
<1>11. CASE comparison = -1
  <2>1. local' = [local EXCEPT !.right = Wrapped(m - 1)]
    BY <1>2, <1>11 DEF bsearch_step, m
  <2>2. m # 0
    <3>1. call.key < call.array[m + 1]
      BY <1>7, <1>11 DEF m
    <3> QED BY <3>1 DEF Below
  <2>3. Wrapped(m - 1) = m - 1
    BY <1>3, <1>4, <1>8, <2>2, WrappedIs
  <2>4. local'.left = l /\ local'.right = m - 1
    BY <1>3, <2>1, <2>3 DEF l
  <2>5. Window' = m - 1 - l + 1
    BY <2>4 DEF Window
  <2> QED BY <1>8, <1>9, <2>5
<1>12. CASE comparison = 1
  <2>1. local' = [local EXCEPT !.left = Wrapped(m + 1)]
    BY <1>2, <1>12 DEF bsearch_step, m
  <2>2. Wrapped(m + 1) = m + 1
    BY <1>3, <1>4, <1>8, WrappedIs
  <2>3. local'.left = m + 1 /\ local'.right = r
    BY <1>3, <2>1, <2>2 DEF r
  <2>4. Window' = r - (m + 1) + 1
    BY <2>3 DEF Window
  <2> QED BY <1>8, <1>9, <2>4
<1> QED BY <1>7, <1>10, <1>11, <1>12

\* A turn of bsearch leaves half of the elements to search, or fewer.
THEOREM SearchHalves == LibrarySpec => Halves
<1>1. LibraryInit => SearchInv
  BY SearchInit
<1>2. SearchInv /\ [LibraryNext]_library_vars => SearchInv'
  BY SearchInvStep
<1>3. SearchInv /\ [LibraryNext]_library_vars
        => [Turn /\ ~Below /\ Searching' => 2 * Window' <= Window]_library_vars
  BY TurnHalves
<1> QED BY <1>1, <1>2, <1>3, PTL DEF LibrarySpec, Halves

-----------------------------------------------------------------------------
(* Sets of numbers in ascending order *)

IsAscending(s, S) ==
  /\ s \in Seq(Nat)
  /\ \A i, j \in 1..Len(s) : i < j => s[i] < s[j]
  /\ \A i \in 1..Len(s) : s[i] \in S
  /\ \A x \in S : \E i \in 1..Len(s) : s[i] = x

LEMMA AscendingAgree ==
  ASSUME NEW S, NEW s, NEW t, IsAscending(s, S), IsAscending(t, S)
  PROVE  Len(s) <= Len(t) /\ \A i \in 1..Len(s) : s[i] = t[i]
<1>0. /\ Len(s) \in Nat /\ Len(t) \in Nat
      /\ \A i \in 1..Len(s) : s[i] \in Nat
      /\ \A i \in 1..Len(t) : t[i] \in Nat
  BY DEF IsAscending
<1> DEFINE Differ == {i \in 1..Len(s) : i > Len(t) \/ s[i] # t[i]}
<1>1. ASSUME Differ # {} PROVE FALSE
  <2>1. PICK i \in Differ : \A j \in Differ : i <= j
    <3>1. Differ \subseteq Nat
      BY <1>0
    <3> HIDE DEF Differ
    <3> QED BY <1>1, <3>1, LeastNumber
  <2>2. i \in 1..Len(s) /\ \A j \in 1..Len(s) : j < i => j <= Len(t) /\ s[j] = t[j]
    BY <1>0, <2>1
  <2>3. PICK k \in 1..Len(t) : t[k] = s[i]
    BY <2>2 DEF IsAscending
  <2>4. k >= i
    <3> SUFFICES ASSUME k < i PROVE FALSE
      BY <1>0, <2>2
    <3>1. k \in 1..Len(s) /\ s[k] = t[k] /\ s[k] < s[i]
      BY <1>0, <2>2 DEF IsAscending
    <3> QED BY <1>0, <2>2, <2>3, <3>1
  <2>5. i \in 1..Len(t) /\ s[i] # t[i]
    BY <1>0, <2>1, <2>2, <2>4
  <2>6. t[i] < s[i]
    <3>1. k > i
      BY <1>0, <2>3, <2>4, <2>5
    <3> QED BY <2>3, <2>5, <3>1 DEF IsAscending
  <2>7. PICK m \in 1..Len(s) : s[m] = t[i]
    BY <2>5 DEF IsAscending
  <2>8. CASE m < i
    <3>1. s[m] = t[m] /\ m \in 1..Len(t)
      BY <1>0, <2>2, <2>8
    <3>2. t[m] < t[i]
      BY <2>5, <2>8, <3>1 DEF IsAscending
    <3> QED BY <1>0, <2>5, <2>7, <3>1, <3>2
  <2>9. CASE m >= i
    <3>0. s[i] \in Nat /\ s[m] \in Nat
      BY <1>0, <2>2
    <3>1. s[i] <= s[m]
      <4>1. CASE m = i
        BY <4>1, <3>0
      <4>2. CASE m > i
        BY <2>2, <3>0, <4>2 DEF IsAscending
      <4> QED BY <1>0, <2>2, <2>9, <4>1, <4>2
    <3> QED BY <1>0, <2>2, <2>5, <2>6, <2>7, <3>1
  <2> QED BY <1>0, <2>2, <2>8, <2>9
<1> QED BY <1>0, <1>1

LEMMA AscendingUnique ==
  ASSUME NEW S, NEW s, NEW t, IsAscending(s, S), IsAscending(t, S)
  PROVE  s = t
<1>1. /\ Len(s) <= Len(t) /\ Len(t) <= Len(s)
      /\ \A i \in 1..Len(s) : s[i] = t[i]
  BY AscendingAgree
<1>2. s \in Seq(Nat) /\ t \in Seq(Nat)
  BY DEF IsAscending
<1> QED BY <1>1, <1>2

LEMMA AscendingExists ==
  \A n \in Nat : \A S \in SUBSET (0..(n - 1)) :
    IsFiniteSet(S) /\ \E s : IsAscending(s, S) /\ Len(s) = Cardinality(S)
<1> DEFINE T == {n \in Nat : \A S \in SUBSET (0..(n - 1)) :
                   IsFiniteSet(S) /\ \E s : IsAscending(s, S) /\ Len(s) = Cardinality(S)}
<1>1. 0 \in T
  <2> SUFFICES ASSUME NEW S \in SUBSET (0..(0 - 1))
               PROVE IsFiniteSet(S) /\ \E s : IsAscending(s, S) /\ Len(s) = Cardinality(S)
    OBVIOUS
  <2>1. S = {}
    OBVIOUS
  <2>2. IsFiniteSet(S) /\ Cardinality(S) = 0
    BY <2>1, FS_EmptySet
  <2>3. IsAscending(<<>>, S) /\ Len(<<>>) = 0
    BY <2>1 DEF IsAscending
  <2> QED BY <2>2, <2>3
<1>2. ASSUME NEW n \in Nat, n \in T PROVE n + 1 \in T
  <2> SUFFICES ASSUME NEW S \in SUBSET (0..n)
               PROVE IsFiniteSet(S) /\ \E s : IsAscending(s, S) /\ Len(s) = Cardinality(S)
    OBVIOUS
  <2>0. \A U \in SUBSET (0..(n - 1)) :
          IsFiniteSet(U) /\ \E s : IsAscending(s, U) /\ Len(s) = Cardinality(U)
    BY <1>2
  <2>1. CASE n \notin S
    <3>1. S \in SUBSET (0..(n - 1))
      BY <2>1
    <3> QED BY <2>0, <3>1
  <2>2. CASE n \in S
    <3> DEFINE U == S \ {n}
    <3>1. U \in SUBSET (0..(n - 1)) /\ S = U \union {n} /\ n \notin U
      BY <2>2
    <3> HIDE DEF U
    <3>2. PICK s : IsAscending(s, U) /\ Len(s) = Cardinality(U)
      BY <2>0, <3>1
    <3>3. IsFiniteSet(S) /\ Cardinality(S) = Cardinality(U) + 1
      BY <2>0, <3>1, FS_AddElement
    <3> DEFINE t == Append(s, n)
    <3>4. /\ s \in Seq(Nat) /\ t \in Seq(Nat) /\ Len(s) \in Nat /\ Len(t) = Len(s) + 1
          /\ \A i \in 1..Len(t) : t[i] = IF i = Len(t) THEN n ELSE s[i]
      BY <3>2 DEF IsAscending
    <3> HIDE DEF t
    <3>5. ASSUME NEW i \in 1..Len(t), NEW j \in 1..Len(t), i < j PROVE t[i] < t[j]
      <4>1. i \in 1..Len(s) /\ t[i] = s[i] /\ s[i] \in U
        BY <3>2, <3>4, <3>5 DEF IsAscending
      <4>2. CASE j = Len(t)
        BY <3>1, <3>4, <4>1, <4>2
      <4>3. CASE j # Len(t)
        <5>1. j \in 1..Len(s) /\ t[j] = s[j]
          BY <3>4, <4>3
        <5> QED BY <3>2, <3>5, <4>1, <5>1 DEF IsAscending
      <4> QED BY <4>2, <4>3
    <3>6. \A i \in 1..Len(t) : t[i] \in S
      BY <3>1, <3>2, <3>4 DEF IsAscending
    <3>7. ASSUME NEW x \in S PROVE \E i \in 1..Len(t) : t[i] = x
      <4>1. CASE x = n
        <5>1. Len(t) \in 1..Len(t) /\ t[Len(t)] = n
          BY <3>4
        <5> QED BY <4>1, <5>1
      <4>2. CASE x # n
        <5>1. PICK i \in 1..Len(s) : s[i] = x
          BY <3>1, <3>2, <4>2 DEF IsAscending
        <5>2. i \in 1..Len(t) /\ t[i] = s[i]
          BY <3>4
        <5> QED BY <5>1, <5>2
      <4> QED BY <4>1, <4>2
    <3>8. IsAscending(t, S)
      BY <3>4, <3>5, <3>6, <3>7 DEF IsAscending
    <3> QED BY <3>2, <3>3, <3>4, <3>8
  <2> QED BY <2>1, <2>2
<1> HIDE DEF T
<1>3. \A n \in Nat : n \in T
  BY <1>1, <1>2, SetInduction
<1> QED BY <1>3 DEF T

\* What Ascending gives.
LEMMA AscendingIs ==
  ASSUME NEW n \in Nat, NEW S \in SUBSET (0..n)
  PROVE  IsAscending(Ascending(S), S)
<1>1. PICK s : IsAscending(s, S) /\ Len(s) = Cardinality(S)
  <2>1. n + 1 \in Nat /\ (n + 1) - 1 = n
    OBVIOUS
  <2> QED BY <2>1, AscendingExists
<1> DEFINE Is(f) == /\ \A i, j \in DOMAIN f : i < j => f[i] < f[j]
                    /\ \A x \in S : \E i \in DOMAIN f : f[i] = x
<1>2. s \in [1..Cardinality(S) -> S] /\ Is(s)
  BY <1>1 DEF IsAscending
<1>3. Ascending(S) \in [1..Cardinality(S) -> S] /\ Is(Ascending(S))
  BY <1>2 DEF Ascending
<1>4. Cardinality(S) \in Nat /\ S \subseteq Nat
  BY <1>1 DEF IsAscending
<1> HIDE DEF Is
<1>5. Ascending(S) \in Seq(Nat) /\ Len(Ascending(S)) = Cardinality(S)
      /\ DOMAIN Ascending(S) = 1..Len(Ascending(S))
  <2>1. \A k \in Nat : \A f \in [1..k -> S] : f \in Seq(Nat) /\ Len(f) = k /\ DOMAIN f = 1..Len(f)
    <3> SUFFICES ASSUME NEW k \in Nat, NEW f \in [1..k -> S]
                 PROVE  f \in Seq(Nat) /\ Len(f) = k /\ DOMAIN f = 1..Len(f)
      OBVIOUS
    <3>1. f \in [1..k -> Nat]
      BY <1>4
    <3>2. f \in Seq(Nat)
      BY <3>1
    <3> QED BY <3>1, <3>2
  <2> QED BY <1>3, <1>4, <2>1
<1>6. \A i \in 1..Len(Ascending(S)) : Ascending(S)[i] \in S
  BY <1>3, <1>5
<1> QED BY <1>3, <1>5, <1>6 DEF Is, IsAscending

-----------------------------------------------------------------------------
(* strtok *)

\* Where the token that starts at i ends.
LEMMA TokenEndIs ==
  ASSUME NEW t, IsString(t), NEW i \in 1..Len(t)
  PROVE  /\ TokenEnd(t, i) \in i..Len(t)
         /\ t[TokenEnd(t, i)] \in Delimiters \union {NUL}
         /\ \A j \in i..(TokenEnd(t, i) - 1) : t[j] \notin Delimiters \union {NUL}
<1>1. Len(t) \in Nat /\ Len(t) \in i..Len(t) /\ t[Len(t)] = NUL
  BY DEF IsString
<1> DEFINE S == {k \in i..Len(t) : t[k] \in Delimiters \union {NUL}}
<1>2. S \subseteq Nat /\ S # {}
  BY <1>1
<1>3. PICK k \in S : \A j \in S : k <= j
  <2> HIDE DEF S
  <2> QED BY <1>2, LeastNumber
<1>4. k \in i..Len(t) /\ t[k] \in Delimiters \union {NUL}
  OBVIOUS
<1>5. \A j \in i..(k - 1) : t[j] \notin Delimiters \union {NUL}
  BY <1>1, <1>3
<1> HIDE DEF S
<1> QED BY <1>4, <1>5 DEF TokenEnd

\* And that this says which one it is.
LEMMA TokenEndUnique ==
  ASSUME NEW t, IsString(t), NEW i \in 1..Len(t), NEW k \in i..Len(t),
         t[k] \in Delimiters \union {NUL},
         \A j \in i..(k - 1) : t[j] \notin Delimiters \union {NUL}
  PROVE  TokenEnd(t, i) = k
<1> DEFINE e == TokenEnd(t, i)
<1>1. /\ e \in i..Len(t) /\ t[e] \in Delimiters \union {NUL}
      /\ \A j \in i..(e - 1) : t[j] \notin Delimiters \union {NUL}
  BY TokenEndIs
<1>2. Len(t) \in Nat
  BY DEF IsString
<1> HIDE DEF e
<1>3. ~(e < k)
  <2>1. e < k => e \in i..(k - 1)
    BY <1>1, <1>2
  <2> QED BY <1>1, <2>1
<1>4. ~(k < e)
  <2>1. k < e => k \in i..(e - 1)
    BY <1>1, <1>2
  <2> QED BY <1>1, <2>1
<1>5. e = k
  BY <1>1, <1>2, <1>3, <1>4
<1> QED BY <1>5 DEF e

\* The end of a string.
LEMMA TextEndIs ==
  ASSUME NEW t, IsString(t)
  PROVE  /\ TextEnd(t) \in 1..Len(t) /\ t[TextEnd(t)] = NUL
         /\ \A j \in 1..(TextEnd(t) - 1) : t[j] # NUL
<1>1. Len(t) \in Nat /\ Len(t) \in 1..Len(t) /\ t[Len(t)] = NUL /\ DOMAIN t = 1..Len(t)
  BY DEF IsString
<1> DEFINE S == {k \in 1..Len(t) : t[k] = NUL}
<1>2. S \subseteq Nat /\ S # {}
  BY <1>1
<1>3. PICK k \in S : \A j \in S : k <= j
  <2> HIDE DEF S
  <2> QED BY <1>2, LeastNumber
<1>4. k \in 1..Len(t) /\ t[k] = NUL
  OBVIOUS
<1>5. \A j \in 1..(k - 1) : t[j] # NUL
  BY <1>1, <1>3
<1> HIDE DEF S
<1> QED BY <1>1, <1>4, <1>5 DEF TextEnd

LEMMA TextEndUnique ==
  ASSUME NEW t, IsString(t), NEW k \in 1..Len(t), t[k] = NUL, \A j \in 1..(k - 1) : t[j] # NUL
  PROVE  TextEnd(t) = k
<1> DEFINE e == TextEnd(t)
<1>1. e \in 1..Len(t) /\ t[e] = NUL /\ \A j \in 1..(e - 1) : t[j] # NUL
  BY TextEndIs
<1>2. Len(t) \in Nat
  BY DEF IsString
<1> HIDE DEF e
<1>3. ~(e < k)
  <2>1. e < k => e \in 1..(k - 1)
    BY <1>1, <1>2
  <2> QED BY <1>1, <2>1
<1>4. ~(k < e)
  <2>1. k < e => k \in 1..(e - 1)
    BY <1>1, <1>2
  <2> QED BY <1>1, <2>1
<1>5. e = k
  BY <1>1, <1>2, <1>3, <1>4
<1> QED BY <1>5 DEF e

\* The rest of a string is a string.
LEMMA RestIs ==
  ASSUME NEW t, IsString(t), NEW i \in 1..Len(t)
  PROVE  /\ IsString(Rest(t, i)) /\ Len(Rest(t, i)) = Len(t) - i + 1
         /\ \A j \in 1..(Len(t) - i + 1) : Rest(t, i)[j] = t[i - 1 + j]
<1>1. t \in Seq(Nat) /\ Len(t) \in Nat /\ t[Len(t)] = NUL
  BY DEF IsString
<1>2. /\ Rest(t, i) \in Seq(Nat) /\ Len(Rest(t, i)) = Len(t) - i + 1
      /\ \A j \in 1..(Len(t) - i + 1) : Rest(t, i)[j] = t[i - 1 + j]
  BY <1>1 DEF Rest
<1>3. Len(t) - i + 1 \in 1..(Len(t) - i + 1) /\ i - 1 + (Len(t) - i + 1) = Len(t)
  BY <1>1
<1>4. Rest(t, i)[Len(Rest(t, i))] = NUL /\ Rest(t, i) # <<>>
  BY <1>1, <1>2, <1>3
<1> QED BY <1>2, <1>4 DEF IsString

LEMMA RestOfRest ==
  ASSUME NEW t, IsString(t), NEW i \in 1..Len(t), NEW j \in 1..(Len(t) - i + 1)
  PROVE  Rest(Rest(t, i), j) = Rest(t, i + j - 1)
<1>0. Len(t) \in Nat
  BY DEF IsString
<1> DEFINE r == Rest(t, i)
           k == i + j - 1
<1>1. /\ IsString(r) /\ Len(r) = Len(t) - i + 1
      /\ \A x \in 1..(Len(t) - i + 1) : r[x] = t[i - 1 + x]
  BY RestIs
<1>2. j \in 1..Len(r) /\ k \in 1..Len(t)
  BY <1>0, <1>1
<1>3. /\ Rest(r, j) \in Seq(Nat) /\ Len(Rest(r, j)) = Len(r) - j + 1
      /\ \A x \in 1..(Len(r) - j + 1) : Rest(r, j)[x] = r[j - 1 + x]
  BY <1>1, <1>2, RestIs DEF IsString
<1>4. /\ Rest(t, k) \in Seq(Nat) /\ Len(Rest(t, k)) = Len(t) - k + 1
      /\ \A x \in 1..(Len(t) - k + 1) : Rest(t, k)[x] = t[k - 1 + x]
  BY <1>2, RestIs DEF IsString
<1>5. Len(r) - j + 1 = Len(t) - k + 1
  BY <1>0, <1>1
<1>6. ASSUME NEW x \in 1..(Len(t) - k + 1) PROVE Rest(r, j)[x] = Rest(t, k)[x]
  <2>1. j - 1 + x \in 1..(Len(t) - i + 1) /\ i - 1 + (j - 1 + x) = k - 1 + x
    BY <1>0
  <2>2. r[j - 1 + x] = t[k - 1 + x]
    BY <1>1, <2>1
  <2> QED BY <1>3, <1>4, <1>5, <2>2
<1> HIDE DEF r, k
<1>7. Rest(r, j) = Rest(t, k)
  BY <1>3, <1>4, <1>5, <1>6
<1> QED BY <1>7 DEF r, k

\* The cuts of a text in ascending order.
LEMMA CutsAre ==
  ASSUME NEW t, IsString(t)
  PROVE  /\ IsAscending(Ascending(Cuts(t)), Cuts(t))
         /\ Cuts(t) \subseteq 0..Len(t) /\ Len(Ascending(Cuts(t))) >= 2
         /\ Ascending(Cuts(t))[1] = 0
<1> DEFINE c == Ascending(Cuts(t))
<1>1. TextEnd(t) \in 1..Len(t) /\ Len(t) \in Nat
  BY TextEndIs DEF IsString
<1>2. Cuts(t) \subseteq 0..Len(t) /\ 0 \in Cuts(t) /\ TextEnd(t) \in Cuts(t)
  BY <1>1 DEF Cuts
<1>3. IsAscending(c, Cuts(t))
  BY <1>1, <1>2, AscendingIs
<1> HIDE DEF c
<1>4. PICK i, j \in 1..Len(c) : c[i] = 0 /\ c[j] = TextEnd(t)
  BY <1>2, <1>3 DEF IsAscending
<1>5. Len(c) \in Nat /\ \A k \in 1..Len(c) : c[k] \in Nat
  BY <1>3 DEF IsAscending
<1>6. i # j
  BY <1>1, <1>4
<1>7. Len(c) >= 2
  BY <1>4, <1>5, <1>6
<1>8. c[1] = 0
  <2>1. i # 1 => c[1] < c[i]
    BY <1>3, <1>4, <1>5 DEF IsAscending
  <2> QED BY <1>4, <1>5, <1>7, <2>1
<1> QED BY <1>2, <1>3, <1>7, <1>8 DEF c

LEMMA FieldsAre ==
  ASSUME NEW t, IsString(t)
  PROVE  Fields(t) \in Seq(Seq(Nat))
<1> DEFINE c == Ascending(Cuts(t))
<1>1. IsAscending(c, Cuts(t)) /\ Cuts(t) \subseteq 0..Len(t) /\ Len(c) >= 2
  BY CutsAre
<1>2. Fields(t) = [f \in 1..(Len(c) - 1) |-> SubSeq(t, c[f] + 1, c[f + 1] - 1)]
  BY DEF Fields
<1>3. t \in Seq(Nat) /\ Len(t) \in Nat /\ Len(c) \in Nat
  BY <1>1 DEF IsString, IsAscending
<1> HIDE DEF c
<1>4. ASSUME NEW f \in 1..(Len(c) - 1) PROVE SubSeq(t, c[f] + 1, c[f + 1] - 1) \in Seq(Nat)
  <2>1. f \in 1..Len(c) /\ f + 1 \in 1..Len(c)
    BY <1>3
  <2>2. c[f] \in 0..Len(t) /\ c[f + 1] \in 0..Len(t)
    BY <1>1, <2>1 DEF IsAscending
  <2>3. c[f] + 1 \in 1..(Len(t) + 1) /\ c[f + 1] - 1 \in -1..Len(t)
    BY <1>3, <2>2
  <2> QED BY <1>3, <2>3
<1>5. Len(c) - 1 \in Nat
  BY <1>1, <1>3
<1> QED BY <1>2, <1>4, <1>5

\* A text without delimiter is one field.
LEMMA FieldsLast ==
  ASSUME NEW t, IsString(t), t[TokenEnd(t, 1)] = NUL
  PROVE  Fields(t) = <<SubSeq(t, 1, TokenEnd(t, 1) - 1)>>
<1> DEFINE e == TokenEnd(t, 1)
<1>0. Len(t) \in Nat /\ 1 \in 1..Len(t)
  BY DEF IsString
<1>1. /\ e \in 1..Len(t) /\ t[e] = NUL
      /\ \A j \in 1..(e - 1) : t[j] \notin Delimiters \union {NUL}
  BY <1>0, TokenEndIs
<1> HIDE DEF e
<1>2. TextEnd(t) = e
  BY <1>1, TextEndUnique
<1>3. Cuts(t) = {0, e}
  <2>1. ASSUME NEW k \in 1..e, t[k] \in Delimiters PROVE k = e
    <3>1. k # e => k \in 1..(e - 1)
      BY <1>0, <1>1
    <3> QED BY <1>1, <2>1, <3>1
  <2> QED BY <1>2, <2>1 DEF Cuts
<1>4. IsAscending(<<0, e>>, {0, e})
  <2>1. <<0, e>> \in Seq(Nat) /\ Len(<<0, e>>) = 2 /\ e > 0
    BY <1>0, <1>1
  <2>2. \A i \in 1..2 : i = 1 \/ i = 2
    OBVIOUS
  <2> QED BY <2>1, <2>2 DEF IsAscending
<1>5. Ascending(Cuts(t)) = <<0, e>>
  BY <1>3, <1>4, CutsAre, AscendingUnique
<1>6. Fields(t) = [f \in 1..(2 - 1) |-> SubSeq(t, <<0, e>>[f] + 1, <<0, e>>[f + 1] - 1)]
  BY <1>5 DEF Fields
<1>7. Fields(t) \in Seq(Seq(Nat)) /\ Len(Fields(t)) = 1
  <2>1. Fields(t) \in Seq(Seq(Nat))
    BY FieldsAre
  <2>2. 2 - 1 = 1
    OBVIOUS
  <2>3. DOMAIN Fields(t) = 1..1
    BY <1>6, <2>2
  <2> QED BY <2>1, <2>3
<1>8. Fields(t)[1] = SubSeq(t, 1, e - 1)
  BY <1>0, <1>1, <1>6
<1> QED BY <1>7, <1>8 DEF e

\* r is what follows the first delimiter of t, at e.
Follows(r, t, e) ==
  /\ IsString(t) /\ e \in 1..(Len(t) - 1) /\ t[e] \in Delimiters /\ t[e] # NUL
  /\ \A j \in 1..(e - 1) : t[j] \notin Delimiters \union {NUL}
  /\ IsString(r) /\ Len(r) = Len(t) - e /\ \A j \in 1..Len(r) : r[j] = t[e + j]

\* Zero, and the numbers that are e further.
Further(e, U, S) == \A x : x \in S <=> x = 0 \/ \E y \in U : x = e + y

\* The cuts of a text after its first delimiter are those of the rest.
LEMMA CutsMore ==
  ASSUME NEW t, NEW e, NEW r, Follows(r, t, e)
  PROVE  Further(e, Cuts(r), Cuts(t))
<1> USE DEF Follows
<1>0. Len(t) \in Nat /\ Len(r) \in Nat /\ e \in Nat /\ e > 0
  BY DEF IsString
<1> DEFINE n == TextEnd(r)
<1>1. n \in 1..Len(r) /\ r[n] = NUL /\ \A j \in 1..(n - 1) : r[j] # NUL
  BY TextEndIs
<1>2. Cuts(r) = {0, n} \union {k \in 1..n : r[k] \in Delimiters}
  BY DEF Cuts
<1> HIDE DEF n
<1>3. n \in Nat /\ n > 0 /\ n <= Len(r)
  BY <1>0, <1>1
<1>4. TextEnd(t) = e + n
  <2> DEFINE k == e + n
  <2>1. k \in 1..Len(t)
    BY <1>0, <1>3
  <2>2. t[k] = NUL
    BY <1>1
  <2>3. ASSUME NEW j \in 1..(k - 1) PROVE t[j] # NUL
    <3>1. CASE j < e
      <4>1. j \in 1..(e - 1)
        BY <1>0, <1>3, <3>1
      <4> QED BY <4>1
    <3>2. CASE j = e
      BY <3>2
    <3>3. CASE j > e
      <4>1. j - e \in 1..(n - 1) /\ j - e \in 1..Len(r) /\ e + (j - e) = j
        BY <1>0, <1>3, <3>3
      <4>2. r[j - e] # NUL /\ r[j - e] = t[e + (j - e)]
        BY <1>1, <4>1
      <4> QED BY <4>1, <4>2
    <3> QED BY <1>0, <1>3, <3>1, <3>2, <3>3
  <2> HIDE DEF k
  <2>4. TextEnd(t) = k
    BY <2>1, <2>2, <2>3, TextEndUnique
  <2> QED BY <2>4 DEF k
<1>5. Cuts(t) = {0, e + n} \union {k \in 1..(e + n) : t[k] \in Delimiters}
  BY <1>4 DEF Cuts
<1>6. ASSUME NEW x, x \in Cuts(t), x # 0 PROVE \E y \in Cuts(r) : x = e + y
  <2>1. CASE x = e + n
    BY <1>2, <2>1
  <2>2. CASE x \in 1..(e + n) /\ t[x] \in Delimiters
    <3>1. x >= e
      <4>1. x < e => x \in 1..(e - 1)
        BY <1>0, <1>3, <2>2
      <4> QED BY <1>0, <1>3, <2>2, <4>1
    <3>2. CASE x = e
      <4>1. 0 \in Cuts(r) /\ x = e + 0
        BY <1>0, <1>2, <3>2
      <4> QED BY <4>1
    <3>3. CASE x # e
      <4>1. x - e \in 1..n /\ x - e \in 1..Len(r) /\ e + (x - e) = x
        BY <1>0, <1>3, <2>2, <3>1, <3>3
      <4>2. r[x - e] = t[e + (x - e)]
        BY <4>1
      <4>3. x - e \in Cuts(r)
        BY <1>2, <2>2, <4>1, <4>2
      <4> QED BY <4>1, <4>3
    <3> QED BY <3>2, <3>3
  <2> QED BY <1>5, <1>6, <2>1, <2>2
<1>7. ASSUME NEW y \in Cuts(r) PROVE e + y \in Cuts(t)
  <2>1. CASE y = 0
    <3>1. e + y = e /\ e \in 1..(e + n)
      BY <1>0, <1>3, <2>1
    <3> QED BY <1>5, <3>1
  <2>2. CASE y = n
    BY <1>5, <2>2
  <2>3. CASE y \in 1..n /\ r[y] \in Delimiters
    <3>1. e + y \in 1..(e + n) /\ y \in 1..Len(r)
      BY <1>0, <1>3, <2>3
    <3>2. t[e + y] = r[y]
      BY <3>1
    <3> QED BY <1>5, <2>3, <3>1, <3>2
  <2> QED BY <1>2, <2>1, <2>2, <2>3
<1>8. 0 \in Cuts(t)
  BY <1>5
<1> QED BY <1>6, <1>7, <1>8 DEF Further

\* In ascending order, too.
LEMMA AscendingMore ==
  ASSUME NEW S, NEW U, NEW e \in Nat, e > 0, Further(e, U, S), NEW c, IsAscending(c, U),
         NEW s \in Seq(Nat), Len(s) = Len(c) + 1,
         \A i \in 1..Len(s) : s[i] = IF i = 1 THEN 0 ELSE e + c[i - 1]
  PROVE  IsAscending(s, S)
<1>0. \A x : x \in S <=> x = 0 \/ \E y \in U : x = e + y
  BY DEF Further
<1>1. Len(c) \in Nat /\ \A i \in 1..Len(c) : c[i] \in Nat /\ c[i] \in U
  BY DEF IsAscending
<1>2. ASSUME NEW i \in 1..Len(s), i # 1
      PROVE  i - 1 \in 1..Len(c) /\ s[i] = e + c[i - 1] /\ c[i - 1] \in Nat /\ c[i - 1] \in U
  <2>1. i - 1 \in 1..Len(c)
    BY <1>1, <1>2
  <2> QED BY <1>1, <1>2, <2>1
<1>3. 1 \in 1..Len(s) /\ s[1] = 0
  BY <1>1
<1>4. ASSUME NEW i \in 1..Len(s), NEW j \in 1..Len(s), i < j PROVE s[i] < s[j]
  <2>1. j # 1
    BY <1>1, <1>4
  <2>2. j - 1 \in 1..Len(c) /\ s[j] = e + c[j - 1] /\ c[j - 1] \in Nat
    BY <1>2, <2>1
  <2>3. CASE i = 1
    BY <1>3, <2>2, <2>3
  <2>4. CASE i # 1
    <3>1. i - 1 \in 1..Len(c) /\ s[i] = e + c[i - 1] /\ c[i - 1] \in Nat
      BY <1>2, <2>4
    <3>2. i - 1 < j - 1
      BY <1>1, <1>4
    <3>3. c[i - 1] < c[j - 1]
      BY <2>2, <3>1, <3>2 DEF IsAscending
    <3> QED BY <2>2, <3>1, <3>3
  <2> QED BY <2>3, <2>4
<1>5. ASSUME NEW i \in 1..Len(s) PROVE s[i] \in S
  <2>1. CASE i = 1
    BY <1>0, <1>3, <2>1
  <2>2. CASE i # 1
    BY <1>0, <1>2, <2>2
  <2> QED BY <2>1, <2>2
<1>6. ASSUME NEW x \in S PROVE \E i \in 1..Len(s) : s[i] = x
  <2>1. CASE x = 0
    BY <1>3, <2>1
  <2>2. CASE x # 0
    <3>1. PICK y \in U : x = e + y
      BY <1>0, <2>2
    <3>2. PICK i \in 1..Len(c) : c[i] = y
      BY DEF IsAscending
    <3>3. i + 1 \in 1..Len(s) /\ i + 1 # 1 /\ (i + 1) - 1 = i
      BY <1>1
    <3>4. s[i + 1] = e + c[i]
      BY <3>3
    <3> QED BY <3>1, <3>2, <3>3, <3>4
  <2> QED BY <2>1, <2>2
<1> QED BY <1>4, <1>5, <1>6 DEF IsAscending

\* A piece of the rest is a piece of the text.
LEMMA SubSeqOfRest ==
  ASSUME NEW t \in Seq(Nat), NEW e \in Nat, NEW r \in Seq(Nat), e + Len(r) = Len(t),
         \A j \in 1..Len(r) : r[j] = t[e + j],
         NEW x \in 0..Len(r), NEW y \in 0..Len(r)
  PROVE  SubSeq(t, e + x + 1, e + y - 1) = SubSeq(r, x + 1, y - 1)
<1>1. Len(r) \in Nat /\ Len(t) \in Nat /\ x \in Nat /\ y \in Nat
  OBVIOUS
<1>2. SubSeq(t, e + x + 1, e + y - 1)
        = [i \in 1..(e + y - 1 - (e + x + 1) + 1) |-> t[e + x + 1 + i - 1]]
  BY <1>1
<1>3. SubSeq(r, x + 1, y - 1) = [i \in 1..(y - 1 - (x + 1) + 1) |-> r[x + 1 + i - 1]]
  BY <1>1
<1>4. e + y - 1 - (e + x + 1) + 1 = y - 1 - (x + 1) + 1
  BY <1>1
<1>5. ASSUME NEW i \in 1..(y - 1 - (x + 1) + 1)
      PROVE  t[e + x + 1 + i - 1] = r[x + 1 + i - 1]
  <2> DEFINE j == x + 1 + i - 1
             k == e + x + 1 + i - 1
  <2>1. j \in 1..Len(r) /\ e + j = k
    <3>1. i \in Int /\ 1 <= i /\ i <= y - x - 1 /\ y <= Len(r)
      BY <1>1
    <3>2. x + 1 + i - 1 = x + i /\ e + x + 1 + i - 1 = e + x + i
      BY <1>1, <3>1
    <3>3. x + i \in 1..Len(r)
      BY <1>1, <3>1
    <3> QED BY <1>1, <3>1, <3>2, <3>3
  <2> HIDE DEF j, k
  <2>2. r[j] = t[k]
    BY <2>1
  <2> QED BY <2>2 DEF j, k
<1> QED BY <1>2, <1>3, <1>4, <1>5

\* A delimiter ends the first field, and the others are those of the rest.
LEMMA FieldsFollow ==
  ASSUME NEW t, NEW e, NEW r, Follows(r, t, e)
  PROVE  Fields(t) = <<SubSeq(t, 1, e - 1)>> \o Fields(r)
<1>0. t \in Seq(Nat) /\ Len(t) \in Nat /\ r \in Seq(Nat) /\ Len(r) \in Nat
  BY DEF Follows, IsString
<1>2. e \in 1..(Len(t) - 1) /\ e \in Nat /\ e > 0
  BY <1>0 DEF Follows
<1>3. /\ IsString(t) /\ IsString(r) /\ Len(r) = Len(t) - e
      /\ \A j \in 1..Len(r) : r[j] = t[e + j]
  BY DEF Follows
<1>a. e + Len(r) = Len(t)
  BY <1>0, <1>2, <1>3
<1> DEFINE c == Ascending(Cuts(r))
           d == Ascending(Cuts(t))
           s == [i \in 1..(Len(c) + 1) |-> IF i = 1 THEN 0 ELSE e + c[i - 1]]
<1>4. /\ IsAscending(c, Cuts(r)) /\ Cuts(r) \subseteq 0..Len(r) /\ c[1] = 0 /\ Len(c) >= 2
      /\ IsAscending(d, Cuts(t))
  BY <1>3, CutsAre
<1>5. /\ Fields(r) = [f \in 1..(Len(c) - 1) |-> SubSeq(r, c[f] + 1, c[f + 1] - 1)]
      /\ Fields(t) = [f \in 1..(Len(d) - 1) |-> SubSeq(t, d[f] + 1, d[f + 1] - 1)]
  BY DEF Fields
<1> HIDE DEF c, d
<1>6. /\ Len(c) \in Nat /\ \A i \in 1..Len(c) : c[i] \in Nat /\ c[i] \in 0..Len(r)
  <2>1. Len(c) \in Nat /\ \A i \in 1..Len(c) : c[i] \in Nat /\ c[i] \in Cuts(r)
    <3>1. c \in Seq(Nat) /\ \A i \in 1..Len(c) : c[i] \in Cuts(r)
      BY <1>4 DEF IsAscending
    <3> QED BY <3>1
  <2> QED BY <1>4, <2>1
<1>7. /\ s \in Seq(Nat) /\ Len(s) = Len(c) + 1
      /\ \A i \in 1..Len(s) : s[i] = IF i = 1 THEN 0 ELSE e + c[i - 1]
  <2>1. ASSUME NEW i \in 1..(Len(c) + 1), i # 1 PROVE e + c[i - 1] \in Nat
    <3>1. i - 1 \in 1..Len(c)
      BY <1>6, <2>1
    <3> QED BY <1>2, <1>6, <3>1
  <2>2. Len(c) + 1 \in Nat
    BY <1>6
  <2>3. s \in [1..(Len(c) + 1) -> Nat]
    BY <2>1
  <2> QED BY <2>2, <2>3
<1> HIDE DEF s
<1>8. d = s
  <2>2. Further(e, Cuts(r), Cuts(t))
    BY CutsMore
  <2>3. IsAscending(s, Cuts(t))
    BY <1>2, <1>4, <1>7, <2>2, AscendingMore
  <2> QED BY <1>4, <2>3, AscendingUnique
<1>9. ASSUME NEW f \in 1..Len(c)
      PROVE  SubSeq(t, d[f] + 1, d[f + 1] - 1)
               = IF f = 1 THEN SubSeq(t, 1, e - 1) ELSE SubSeq(r, c[f - 1] + 1, c[f] - 1)
  <2>0. f + 1 \in 1..Len(s) /\ f \in 1..Len(s) /\ f + 1 # 1 /\ (f + 1) - 1 = f
    BY <1>6, <1>7
  <2>1. d[f + 1] = e + c[f] /\ c[f] \in 0..Len(r)
    BY <1>6, <1>7, <1>8, <2>0
  <2>2. CASE f = 1
    <3>1. d[f] = 0 /\ d[f + 1] = e
      BY <1>2, <1>4, <1>7, <1>8, <2>0, <2>1, <2>2
    <3> QED BY <2>2, <3>1
  <2>3. CASE f # 1
    <3>1. f - 1 \in 1..Len(c)
      BY <1>6, <2>3
    <3>2. d[f] = e + c[f - 1] /\ c[f - 1] \in 0..Len(r)
      BY <1>6, <1>7, <1>8, <2>0, <2>3, <3>1
    <3> DEFINE a == c[f - 1]
               b == c[f]
    <3>3. a \in 0..Len(r) /\ b \in 0..Len(r)
      BY <2>1, <3>2
    <3> HIDE DEF a, b
    <3>4. SubSeq(t, e + a + 1, e + b - 1) = SubSeq(r, a + 1, b - 1)
      BY <1>0, <1>2, <1>3, <1>a, <3>3, SubSeqOfRest
    <3>5. d[f] + 1 = e + a + 1 /\ d[f + 1] - 1 = e + b - 1
      BY <1>2, <2>1, <3>2, <3>3 DEF a, b
    <3>6. SubSeq(t, d[f] + 1, d[f + 1] - 1) = SubSeq(r, a + 1, b - 1)
      BY ONLY <3>4, <3>5
    <3> QED BY ONLY <2>3, <3>6 DEF a, b
  <2> QED BY <2>2, <2>3
<1>10. /\ Len(Fields(t)) = Len(c) /\ Fields(t) \in Seq(Seq(Nat))
       /\ \A f \in 1..Len(c) : Fields(t)[f] = SubSeq(t, d[f] + 1, d[f + 1] - 1)
  <2>1. Len(d) - 1 = Len(c)
    BY <1>6, <1>7, <1>8
  <2>2. Fields(t) = [f \in 1..Len(c) |-> SubSeq(t, d[f] + 1, d[f + 1] - 1)]
    BY <1>5, <2>1
  <2>3. Fields(t) \in Seq(Seq(Nat)) /\ DOMAIN Fields(t) = 1..Len(c)
    BY <1>3, <2>2, FieldsAre
  <2>4. Len(Fields(t)) = Len(c)
    BY <1>6, <2>3
  <2> QED BY <2>2, <2>3, <2>4
<1>11. /\ Len(Fields(r)) = Len(c) - 1 /\ Fields(r) \in Seq(Seq(Nat))
       /\ \A f \in 1..(Len(c) - 1) : Fields(r)[f] = SubSeq(r, c[f] + 1, c[f + 1] - 1)
  <2>1. Len(c) - 1 \in Nat
    BY <1>4, <1>6
  <2>2. Fields(r) \in Seq(Seq(Nat)) /\ DOMAIN Fields(r) = 1..(Len(c) - 1)
    BY <1>3, <1>5, FieldsAre
  <2>3. Len(Fields(r)) = Len(c) - 1
    BY <2>1, <2>2
  <2> QED BY <1>5, <2>2, <2>3
<1> DEFINE h == SubSeq(t, 1, e - 1)
           g == <<h>> \o Fields(r)
<1>12. h \in Seq(Nat)
  BY <1>0, <1>2
<1> HIDE DEF h
<1>13. /\ Len(g) = Len(c) /\ g \in Seq(Seq(Nat))
       /\ \A f \in 1..Len(c) : g[f] = IF f = 1 THEN h ELSE Fields(r)[f - 1]
  <2>1. <<h>> \in Seq(Seq(Nat)) /\ Len(<<h>>) = 1 /\ <<h>>[1] = h
    BY <1>12
  <2>2. g \in Seq(Seq(Nat)) /\ Len(g) = 1 + Len(Fields(r))
    BY <1>11, <2>1
  <2>3. Len(g) = Len(c)
    BY <1>6, <1>11, <2>2
  <2>4. ASSUME NEW f \in 1..Len(c) PROVE g[f] = IF f = 1 THEN h ELSE Fields(r)[f - 1]
    BY <1>6, <1>11, <2>1, <2>3
  <2> QED BY <2>2, <2>3, <2>4
<1> HIDE DEF g
<1>14. ASSUME NEW f \in 1..Len(c) PROVE Fields(t)[f] = g[f]
  <2>1. CASE f = 1
    <3>1. 1 \in 1..Len(c)
      BY <2>1
    <3>2. Fields(t)[1] = SubSeq(t, d[1] + 1, d[1 + 1] - 1)
      BY <1>10, <3>1
    <3>3. SubSeq(t, d[1] + 1, d[1 + 1] - 1) = h
      BY <1>9, <3>1 DEF h
    <3>4. g[1] = h
      BY <1>13, <3>1
    <3> QED BY <2>1, <3>2, <3>3, <3>4
  <2>2. CASE f # 1
    <3>1. f - 1 \in 1..(Len(c) - 1) /\ (f - 1) + 1 = f
      BY <1>6, <2>2
    <3>2. Fields(r)[f - 1] = SubSeq(r, c[f - 1] + 1, c[f] - 1)
      BY <1>11, <3>1
    <3> QED BY <1>9, <1>10, <1>13, <2>2, <3>2
  <2> QED BY <2>1, <2>2
<1>15. Fields(t) = g
  <2> DEFINE F == Fields(t)
  <2>1. F \in Seq(Seq(Nat)) /\ Len(F) = Len(g) /\ \A f \in 1..Len(g) : F[f] = g[f]
    BY <1>10, <1>13, <1>14
  <2>2. g \in Seq(Seq(Nat))
    BY <1>13
  <2> HIDE DEF F
  <2>3. F = g
    BY <2>1, <2>2, SeqEqual
  <2> QED BY <2>3 DEF F
<1> QED BY <1>15 DEF g, h

LEMMA FieldsMore ==
  ASSUME NEW t, IsString(t), t[TokenEnd(t, 1)] # NUL
  PROVE  /\ TokenEnd(t, 1) \in 1..(Len(t) - 1)
         /\ Fields(t) = <<SubSeq(t, 1, TokenEnd(t, 1) - 1)>> \o Fields(Rest(t, TokenEnd(t, 1) + 1))
<1> DEFINE e == TokenEnd(t, 1)
           r == Rest(t, e + 1)
<1>0. t \in Seq(Nat) /\ Len(t) \in Nat /\ 1 \in 1..Len(t) /\ t[Len(t)] = NUL
  BY DEF IsString
<1>1. /\ e \in 1..Len(t) /\ t[e] \in Delimiters /\ t[e] # NUL
      /\ \A j \in 1..(e - 1) : t[j] \notin Delimiters \union {NUL}
  BY <1>0, TokenEndIs
<1> HIDE DEF e
<1>2. e \in 1..(Len(t) - 1) /\ e + 1 \in 1..Len(t)
  BY <1>0, <1>1
<1>3. /\ IsString(r) /\ Len(r) = Len(t) - (e + 1) + 1
      /\ \A j \in 1..(Len(t) - (e + 1) + 1) : r[j] = t[(e + 1) - 1 + j]
  BY <1>2, RestIs
<1>4. Len(t) - (e + 1) + 1 = Len(t) - e /\ (e + 1) - 1 = e
  BY <1>0, <1>2
<1> HIDE DEF r
<1>5. Follows(r, t, e)
  BY <1>1, <1>2, <1>3, <1>4 DEF Follows
<1>6. Fields(t) = <<SubSeq(t, 1, e - 1)>> \o Fields(r)
  BY <1>5, FieldsFollow
<1> QED BY <1>2, <1>6 DEF e, r

\* Appending and then concatenating.
LEMMA AppendConcat ==
  ASSUME NEW S, NEW s \in Seq(S), NEW x \in S, NEW t \in Seq(S)
  PROVE  Append(s, x) \o t = s \o (<<x>> \o t)
<1>1. <<x>> \in Seq(S) /\ Len(<<x>>) = 1 /\ <<x>>[1] = x
  OBVIOUS
<1>2. /\ <<x>> \o t \in Seq(S) /\ Len(<<x>> \o t) = 1 + Len(t)
      /\ \A k \in 1..(1 + Len(t)) : (<<x>> \o t)[k] = IF k = 1 THEN x ELSE t[k - 1]
  BY <1>1
<1>3. /\ Append(s, x) \in Seq(S) /\ Len(Append(s, x)) = Len(s) + 1
      /\ \A k \in 1..(Len(s) + 1) : Append(s, x)[k] = IF k = Len(s) + 1 THEN x ELSE s[k]
  OBVIOUS
<1>4. Len(s) \in Nat /\ Len(t) \in Nat
  OBVIOUS
<1> DEFINE u == <<x>> \o t
           v == Append(s, x)
<1> HIDE DEF u, v
<1>5. /\ v \o t \in Seq(S) /\ Len(v \o t) = Len(s) + 1 + Len(t)
      /\ \A k \in 1..(Len(s) + 1 + Len(t)) :
           (v \o t)[k] = IF k <= Len(s) + 1 THEN v[k] ELSE t[k - (Len(s) + 1)]
  BY <1>3, <1>4 DEF v
<1>6. /\ s \o u \in Seq(S) /\ Len(s \o u) = Len(s) + 1 + Len(t)
      /\ \A k \in 1..(Len(s) + 1 + Len(t)) :
           (s \o u)[k] = IF k <= Len(s) THEN s[k] ELSE u[k - Len(s)]
  BY <1>2, <1>4 DEF u
<1>7. ASSUME NEW k \in 1..(Len(s) + 1 + Len(t)) PROVE (v \o t)[k] = (s \o u)[k]
  <2>1. CASE k <= Len(s)
    BY <1>3, <1>4, <1>5, <1>6, <2>1 DEF v
  <2>2. CASE k = Len(s) + 1
    <3>1. (v \o t)[k] = x
      BY <1>3, <1>4, <1>5, <2>2 DEF v
    <3>2. k - Len(s) = 1 /\ 1 \in 1..(1 + Len(t)) /\ ~(k <= Len(s))
      BY <1>4, <2>2
    <3>3. u[1] = x
      BY <1>2, <3>2 DEF u
    <3> QED BY <1>6, <3>1, <3>2, <3>3
  <2>3. CASE k > Len(s) + 1
    <3>1. /\ k - Len(s) \in 1..(1 + Len(t)) /\ k - Len(s) # 1 /\ ~(k <= Len(s))
          /\ ~(k <= Len(s) + 1) /\ (k - Len(s)) - 1 = k - (Len(s) + 1)
      BY <1>4, <2>3
    <3>2. u[k - Len(s)] = t[k - (Len(s) + 1)]
      BY <1>2, <3>1 DEF u
    <3>3. (v \o t)[k] = t[k - (Len(s) + 1)]
      BY <1>5, <3>1
    <3>4. (s \o u)[k] = u[k - Len(s)]
      BY <1>6, <3>1
    <3> QED BY <3>2, <3>3, <3>4
  <2>4. k <= Len(s) \/ k = Len(s) + 1 \/ k > Len(s) + 1
    BY <1>4
  <2> QED BY ONLY <2>1, <2>2, <2>3, <2>4
<1>8. v \o t = s \o u
  BY <1>4, <1>5, <1>6, <1>7, SeqEqual
<1> QED BY <1>8 DEF u, v

\* What a call from position i gives is the first field of the rest.
LEMMA FieldsFrom ==
  ASSUME NEW t, IsString(t), NEW i \in 1..Len(t), NEW e, e = TokenEnd(t, i)
  PROVE  /\ e \in i..Len(t) /\ SubSeq(t, i, e - 1) \in Seq(Nat)
         /\ t[e] # NUL => e + 1 \in 2..Len(t)
         /\ Fields(Rest(t, i)) = IF t[e] = NUL THEN <<SubSeq(t, i, e - 1)>>
                                 ELSE <<SubSeq(t, i, e - 1)>> \o Fields(Rest(t, e + 1))
<1>0. Len(t) \in Nat /\ t \in Seq(Nat)
  BY DEF IsString
<1>1. /\ e \in i..Len(t) /\ t[e] \in Delimiters \union {NUL}
      /\ \A j \in i..(e - 1) : t[j] \notin Delimiters \union {NUL}
  BY TokenEndIs
<1>a. e \in Nat /\ i \in Nat /\ 1 <= i /\ i <= e /\ e <= Len(t)
  BY <1>0, <1>1
<1> DEFINE r == Rest(t, i)
           k == e - i + 1
<1>2. /\ IsString(r) /\ Len(r) = Len(t) - i + 1
      /\ \A j \in 1..(Len(t) - i + 1) : r[j] = t[i - 1 + j]
  BY RestIs
<1>3. k \in 1..(Len(t) - i + 1) /\ i - 1 + k = e /\ i + (k + 1) - 1 = e + 1
  BY <1>0, <1>a
<1>4. r[k] = t[e]
  BY <1>2, <1>3
<1>5. ASSUME NEW j \in 1..(k - 1) PROVE r[j] \notin Delimiters \union {NUL}
  <2>1. j \in 1..(Len(t) - i + 1) /\ i - 1 + j \in i..(e - 1)
    BY <1>0, <1>1
  <2>2. r[j] = t[i - 1 + j]
    BY <1>2, <2>1
  <2> QED BY <1>1, <2>1, <2>2
<1>6. SubSeq(r, 1, k - 1) = SubSeq(t, i, e - 1)
  <2>1. SubSeq(r, 1, k - 1) = [j \in 1..(k - 1 - 1 + 1) |-> r[1 + j - 1]]
    BY <1>3
  <2>2. SubSeq(t, i, e - 1) = [j \in 1..(e - 1 - i + 1) |-> t[i + j - 1]]
    BY <1>1
  <2>3. k - 1 - 1 + 1 = e - 1 - i + 1
    BY <1>1
  <2>4. ASSUME NEW j \in 1..(e - 1 - i + 1) PROVE r[1 + j - 1] = t[i + j - 1]
    <3>1. j \in 1..(Len(t) - i + 1) /\ 1 + j - 1 = j /\ i - 1 + j = i + j - 1
      BY <1>0, <1>1
    <3>2. r[j] = t[i - 1 + j]
      BY <1>2, <3>1
    <3> QED BY <3>1, <3>2
  <2> HIDE DEF r, k
  <2> QED BY <2>1, <2>2, <2>3, <2>4
<1> HIDE DEF r, k
<1>7. TokenEnd(r, 1) = k
  <2>1. 1 \in 1..Len(r) /\ k \in 1..Len(r)
    BY <1>2, <1>3
  <2>2. r[k] \in Delimiters \union {NUL}
    BY <1>1, <1>4
  <2> QED BY <1>2, <1>5, <2>1, <2>2, TokenEndUnique
<1>8. SubSeq(t, i, e - 1) \in Seq(Nat)
  <2>1. i \in 1..(Len(t) + 1) /\ e - 1 \in (i - 1)..Len(t)
    BY <1>0, <1>1
  <2> QED BY <1>0, <2>1
<1>9. t[e] # NUL => e + 1 \in 2..Len(t)
  <2>1. t[Len(t)] = NUL
    BY DEF IsString
  <2> QED BY <1>0, <1>1, <2>1
<1>10. CASE t[e] = NUL
  <2>1. Fields(r) = <<SubSeq(r, 1, k - 1)>>
    BY <1>2, <1>4, <1>7, <1>10, FieldsLast
  <2> QED BY <1>1, <1>6, <1>8, <1>9, <1>10, <2>1 DEF r
<1>11. CASE t[e] # NUL
  <2>1. k \in 1..(Len(r) - 1) /\ Fields(r) = <<SubSeq(r, 1, k - 1)>> \o Fields(Rest(r, k + 1))
    BY <1>2, <1>4, <1>7, <1>11, FieldsMore
  <2>2. k + 1 \in 1..(Len(t) - i + 1)
    BY <1>0, <1>2, <1>3, <2>1
  <2>3. Rest(r, k + 1) = Rest(t, i + (k + 1) - 1)
    BY <2>2, RestOfRest DEF r
  <2>4. Rest(r, k + 1) = Rest(t, e + 1)
    BY <1>3, <2>3
  <2> QED BY <1>1, <1>6, <1>8, <1>9, <1>11, <2>1, <2>4 DEF r
<1> QED BY <1>10, <1>11

\* Writing a NUL leaves a string, and what follows it as it was.
LEMMA NulWritten ==
  ASSUME NEW t, IsString(t), NEW e \in 1..Len(t), NEW u, u = [t EXCEPT ![e] = NUL]
  PROVE  /\ IsString(u) /\ Len(u) = Len(t)
         /\ \A i \in (e + 1)..Len(t) : Rest(u, i) = Rest(t, i)
<1>0. Len(t) \in Nat /\ t \in Seq(Nat) /\ t[Len(t)] = NUL /\ t # <<>>
  BY DEF IsString
<1>1. u \in Seq(Nat) /\ Len(u) = Len(t)
  BY <1>0 DEF NUL
<1>2. \A i \in 1..Len(t) : u[i] = IF i = e THEN NUL ELSE t[i]
  BY <1>0
<1>3. IsString(u)
  <2>1. Len(u) \in 1..Len(t)
    BY <1>0, <1>1
  <2>2. u[Len(u)] = NUL
    BY <1>0, <1>1, <1>2, <2>1
  <2>3. u # <<>>
    BY <1>1, <2>1
  <2> QED BY <1>1, <2>2, <2>3 DEF IsString
<1>4. ASSUME NEW i \in (e + 1)..Len(t) PROVE Rest(u, i) = Rest(t, i)
  <2>0. i \in 1..Len(t) /\ i \in 1..Len(u)
    BY <1>0, <1>1
  <2>1. /\ Rest(t, i) \in Seq(Nat) /\ Len(Rest(t, i)) = Len(t) - i + 1
        /\ \A j \in 1..(Len(t) - i + 1) : Rest(t, i)[j] = t[i - 1 + j]
    BY <2>0, RestIs DEF IsString
  <2>2. /\ IsString(Rest(u, i)) /\ Len(Rest(u, i)) = Len(u) - i + 1
        /\ \A j \in 1..(Len(u) - i + 1) : Rest(u, i)[j] = u[i - 1 + j]
    BY <1>3, <2>0, RestIs
  <2>3. ASSUME NEW j \in 1..(Len(t) - i + 1) PROVE t[i - 1 + j] = u[i - 1 + j]
    <3>0. j \in Nat /\ 1 <= j /\ j <= Len(t) - i + 1 /\ i \in Nat /\ e + 1 <= i /\ i <= Len(t)
          /\ e \in Nat
      BY <1>0
    <3>a. \A n \in Nat : j <= n - i + 1 /\ i <= n => i - 1 + j \in 1..n /\ i - 1 + j # e
      BY ONLY <3>0
    <3>1. i - 1 + j \in 1..Len(t) /\ i - 1 + j # e
      BY ONLY <1>0, <3>0, <3>a
    <3> DEFINE k == i - 1 + j
    <3> HIDE DEF k
    <3>2. t[k] = u[k]
      BY <1>2, <3>1 DEF k
    <3> QED BY <3>2 DEF k
  <2> DEFINE a == Rest(u, i)
             b == Rest(t, i)
  <2>4. a \in Seq(Nat) /\ b \in Seq(Nat) /\ Len(a) = Len(b)
    BY <1>1, <2>1, <2>2 DEF IsString
  <2>5. ASSUME NEW j \in 1..Len(a) PROVE a[j] = b[j]
    <3>1. j \in 1..(Len(t) - i + 1)
      BY <1>1, <2>2
    <3> QED BY <1>1, <2>1, <2>2, <2>3, <3>1
  <2> HIDE DEF a, b
  <2>6. a = b
    BY <2>4, <2>5, SeqEqual
  <2> QED BY <2>6 DEF a, b
<1> QED BY <1>1, <1>3, <1>4

LEMMA TokenInit == LibraryInit => TokenInv
<1> SUFFICES ASSUME LibraryInit, Runs("strtok") PROVE TokenInv
  BY DEF TokenInv, TokenTypes
<1>1. local \in [text : [Users -> Texts], last : {NULL}, given : {<<>>}, passed : {<<NUL>>}]
  BY DEF LibraryInit, Runs
<1>2. /\ local = [text |-> local.text, last |-> local.last, given |-> local.given,
                  passed |-> local.passed]
      /\ local.text \in [Users -> Texts] /\ local.last = NULL
      /\ local.given = <<>> /\ local.passed = <<NUL>>
  BY <1>1
<1>3. \A user \in Users : IsString(local.text[user])
  BY <1>2, LibraryAssumption
<1>4. <<>> \in Seq(Seq(Nat)) /\ IsString(<<NUL>>)
  BY DEF IsString, NUL
<1>5. local.text = [user \in Users |-> local.text[user]]
  BY <1>2
<1> QED BY <1>2, <1>3, <1>4, <1>5 DEF TokenInv, TokenTypes

\* A call changes the text and last.
LEMMA StrtokIs ==
  ASSUME TokenTypes, Runs("strtok"), NEW user, NEW i
  PROVE  /\ strtok(user, i) = [text |-> strtok(user, i).text, last |-> strtok(user, i).last,
                               given |-> strtok(user, i).given,
                               passed |-> strtok(user, i).passed]
         /\ strtok(user, i).given = local.given /\ strtok(user, i).passed = local.passed
<1> DEFINE e == TokenEnd(local.text[user], i)
           last == IF local.text[user][e] # NUL THEN [user |-> user, at |-> e + 1] ELSE NULL
<1>1. local = [text |-> local.text, last |-> local.last, given |-> local.given,
               passed |-> local.passed]
  BY DEF TokenTypes
<1>2. strtok(user, i) = [local EXCEPT !.text[user][e] = NUL, !.last = last]
  BY DEF strtok
<1> HIDE DEF e, last
<1>3. strtok(user, i) = [text |-> [local.text EXCEPT ![user][e] = NUL], last |-> last,
                         given |-> local.given, passed |-> local.passed]
  BY <1>1, <1>2
<1> QED BY <1>3

\* A call from position i of a user's text, whose fields from there on are to come.
LEMMA CallStep ==
  ASSUME TokenTypes, Runs("strtok"), UNCHANGED call,
         NEW user \in Users, NEW i \in 1..Len(local.text[user]),
         NEW given, NEW passed,
         given \in Seq(Seq(Nat)), IsString(passed),
         Fields(passed) = given \o Fields(Rest(local.text[user], i)),
         local' = [text |-> strtok(user, i).text, last |-> strtok(user, i).last,
                   given |-> Append(given, Token(user, i)), passed |-> passed]
  PROVE  TokenInv'
<1> DEFINE t == local.text[user]
           e == TokenEnd(t, i)
           tok == SubSeq(t, i, e - 1)
           u == [t EXCEPT ![e] = NUL]
           last == IF t[e] # NUL THEN [user |-> user, at |-> e + 1] ELSE NULL
<1>1. /\ IsString(t) /\ \A x \in Users : IsString(local.text[x])
      /\ local.text = [x \in Users |-> local.text[x]]
      /\ local = [text |-> local.text, last |-> local.last, given |-> local.given,
                  passed |-> local.passed]
  BY DEF TokenTypes
<1>2. /\ e \in i..Len(t) /\ tok \in Seq(Nat)
      /\ t[e] # NUL => e + 1 \in 2..Len(t)
      /\ Fields(Rest(t, i)) = IF t[e] = NUL THEN <<tok>> ELSE <<tok>> \o Fields(Rest(t, e + 1))
  BY <1>1, FieldsFrom
<1>3. e \in 1..Len(t) /\ Len(t) \in Nat
  <2>1. Len(t) \in Nat
    BY <1>1 DEF IsString
  <2>2. e \in i..Len(t) /\ i \in 1..Len(t)
    BY <1>2
  <2> HIDE DEF e
  <2> QED BY <2>1, <2>2
<1>4. Token(user, i) = tok
  BY DEF Token
<1>5. local'.text = [local.text EXCEPT ![user] = u] /\ local'.last = last
  <2>1. /\ local'.text = strtok(user, i).text
        /\ local'.last = strtok(user, i).last
    OBVIOUS
  <2>2. strtok(user, i) = [local EXCEPT !.text[user][e] = NUL, !.last = last]
    BY DEF strtok
  <2>3. strtok(user, i) = [text |-> [local.text EXCEPT ![user][e] = NUL], last |-> last,
                           given |-> local.given, passed |-> local.passed]
    <3> HIDE DEF e, last
    <3> QED BY <1>1, <2>2
  <2>4. [local.text EXCEPT ![user][e] = NUL] = [local.text EXCEPT ![user] = u]
    OBVIOUS
  <2> HIDE DEF e, last, u
  <2> QED BY <2>1, <2>3, <2>4
<1> HIDE DEF u, e, last, tok
<1>6. /\ IsString(u) /\ Len(u) = Len(t)
      /\ \A j \in (e + 1)..Len(t) : Rest(u, j) = Rest(t, j)
  BY <1>1, <1>3, NulWritten DEF u
<1>7. /\ local'.text = [x \in Users |-> local'.text[x]]
      /\ local'.text[user] = u
      /\ \A x \in Users : IsString(local'.text[x])
  <2>1. local'.text = [x \in Users |-> IF x = user THEN u ELSE local.text[x]]
    BY <1>1, <1>5
  <2>2. \A x \in Users : local'.text[x] = IF x = user THEN u ELSE local.text[x]
    BY <2>1
  <2>3. local'.text[user] = u
    BY <2>2
  <2>4. \A x \in Users : IsString(local'.text[x])
    BY <1>1, <1>6, <2>2
  <2>5. local'.text = [x \in Users |-> local'.text[x]]
    BY <2>1
  <2> QED BY <2>3, <2>4, <2>5
<1>8. local'.given = Append(given, tok) /\ local'.passed = passed
      /\ local' = [text |-> local'.text, last |-> local'.last, given |-> local'.given,
                   passed |-> local'.passed]
  BY <1>4
<1>9. local'.given \in Seq(Seq(Nat)) /\ IsString(local'.passed) /\ local'.given # <<>>
  <2>1. Append(given, tok) \in Seq(Seq(Nat)) /\ Len(Append(given, tok)) # 0
    BY <1>2
  <2>2. Len(<<>>) = 0
    OBVIOUS
  <2> QED BY <1>8, <2>1, <2>2
<1>10. last # NULL => /\ last = [user |-> user, at |-> e + 1] /\ t[e] # NUL
                      /\ e + 1 \in 2..Len(t)
  <2>1. t[e] # NUL => e + 1 \in 2..Len(t)
    BY <1>2
  <2>2. CASE t[e] # NUL
    BY <2>1, <2>2 DEF last
  <2>3. CASE t[e] = NUL
    BY <2>3 DEF last
  <2> QED BY <2>2, <2>3
<1>11. TokenTypes'
  <2>1. local'.last # NULL =>
          /\ local'.last.user \in Users
          /\ local'.last = [user |-> local'.last.user, at |-> local'.last.at]
          /\ local'.last.at \in 2..Len(local'.text[local'.last.user])
    <3> SUFFICES ASSUME local'.last # NULL
                 PROVE  /\ local'.last.user \in Users
                        /\ local'.last = [user |-> local'.last.user, at |-> local'.last.at]
                        /\ local'.last.at \in 2..Len(local'.text[local'.last.user])
      OBVIOUS
    <3>1. local'.last.user = user /\ local'.last.at = e + 1
          /\ local'.last = [user |-> user, at |-> e + 1] /\ e + 1 \in 2..Len(t)
      BY <1>5, <1>10
    <3>2. Len(local'.text[local'.last.user]) = Len(t)
      BY <1>6, <1>7, <3>1
    <3> QED BY <3>1, <3>2
  <2> QED BY <1>7, <1>8, <1>9, <2>1 DEF TokenTypes
<1>12. Runs("strtok")'
  BY DEF Runs
<1>13. Fields(local'.passed)
         = IF local'.last = NULL THEN local'.given
           ELSE local'.given
                            \o Fields(Rest(local'.text[local'.last.user], local'.last.at))
  <2>1. CASE t[e] = NUL
    <3>1. local'.last = NULL
      BY <1>5, <2>1 DEF last
    <3>2. Fields(passed) = given \o <<tok>>
      BY <1>2, <2>1
    <3>3. given \o <<tok>> = Append(given, tok)
      <4> DEFINE v == given \o <<tok>>
                 w == Append(given, tok)
      <4>1. <<tok>> \in Seq(Seq(Nat)) /\ Len(<<tok>>) = 1 /\ <<tok>>[1] = tok
        BY <1>2
      <4>2. v \in Seq(Seq(Nat)) /\ w \in Seq(Seq(Nat)) /\ Len(v) = Len(w)
        BY <1>2, <4>1
      <4>3. ASSUME NEW k \in 1..Len(v) PROVE v[k] = w[k]
        BY <1>2, <4>1
      <4> HIDE DEF v, w
      <4>4. v = w
        BY <4>2, <4>3, SeqEqual
      <4> QED BY <4>4 DEF v, w
    <3> QED BY <1>8, <3>1, <3>2, <3>3
  <2>2. CASE t[e] # NUL
    <3>1. last = [user |-> user, at |-> e + 1] /\ last # NULL
      <4>1. [user |-> user, at |-> e + 1] \in [user : Users, at : Nat]
        BY <1>3
      <4>2. [user |-> user, at |-> e + 1] # NULL
        BY <4>1, LibraryAssumption
      <4> QED BY <2>2, <4>2 DEF last
    <3>2. local'.last # NULL /\ local'.last.user = user /\ local'.last.at = e + 1
      BY <1>5, <3>1
    <3>3. Rest(u, e + 1) = Rest(t, e + 1) /\ e + 1 \in 1..Len(t)
      BY <1>2, <1>3, <1>6, <2>2
    <3>4. Fields(Rest(t, e + 1)) \in Seq(Seq(Nat))
      BY <1>1, <3>3, RestIs, FieldsAre
    <3>5. Append(given, tok) \o Fields(Rest(t, e + 1))
            = given \o (<<tok>> \o Fields(Rest(t, e + 1)))
      BY <1>2, <3>4, AppendConcat
    <3>6. Fields(passed) = given \o (<<tok>> \o Fields(Rest(t, e + 1)))
      BY <1>2, <2>2
    <3> QED BY <1>7, <1>8, <3>2, <3>3, <3>5, <3>6
  <2> QED BY <2>1, <2>2
<1> QED BY <1>9, <1>11, <1>12, <1>13 DEF TokenInv

LEMMA FirstTokenStep ==
  ASSUME TokenInv, NEW user \in Users, FirstToken(user)
  PROVE  TokenInv'
<1> DEFINE t == local.text[user]
<1>1. /\ TokenTypes /\ Runs("strtok") /\ UNCHANGED call
      /\ local' = [strtok(user, 1) EXCEPT !.passed = t, !.given = <<Token(user, 1)>>]
  BY DEF TokenInv, FirstToken
<1>2. IsString(t)
  BY <1>1 DEF TokenTypes
<1>3. strtok(user, 1) = [text |-> strtok(user, 1).text, last |-> strtok(user, 1).last,
                         given |-> strtok(user, 1).given, passed |-> strtok(user, 1).passed]
  BY <1>1, StrtokIs
<1>4. local' = [text |-> strtok(user, 1).text, last |-> strtok(user, 1).last,
                given |-> <<Token(user, 1)>>, passed |-> t]
  BY <1>1, <1>3
<1>5. 1 \in 1..Len(t) /\ Rest(t, 1) = t
  <2>1. t \in Seq(Nat) /\ Len(t) \in Nat /\ 1 \in 1..Len(t)
    BY <1>2 DEF IsString
  <2> HIDE DEF t
  <2>2. /\ Rest(t, 1) \in Seq(Nat) /\ Len(Rest(t, 1)) = Len(t) - 1 + 1
        /\ \A j \in 1..(Len(t) - 1 + 1) : Rest(t, 1)[j] = t[1 - 1 + j]
    BY <1>2, <2>1, RestIs DEF IsString
  <2>3. Len(t) - 1 + 1 = Len(t) /\ \A j \in 1..Len(t) : 1 - 1 + j = j
    BY <2>1
  <2>4. Rest(t, 1) = t
    BY <2>1, <2>2, <2>3, SeqEqual
  <2> QED BY <2>1, <2>4
<1>6. Fields(t) \in Seq(Seq(Nat))
  BY <1>2, FieldsAre
<1>7. <<>> \in Seq(Seq(Nat)) /\ Append(<<>>, Token(user, 1)) = <<Token(user, 1)>>
  OBVIOUS
<1>8. <<>> \o Fields(t) = Fields(t)
  <2> DEFINE F == Fields(t)
  <2> HIDE DEF F
  <2>1. F \in Seq(Seq(Nat))
    BY <1>6 DEF F
  <2>2. <<>> \o F = F
    BY <2>1
  <2> QED BY <2>2 DEF F
<1>9. Fields(t) = <<>> \o Fields(Rest(t, 1))
  BY <1>5, <1>8
<1> QED BY <1>1, <1>2, <1>4, <1>5, <1>6, <1>7, <1>9, CallStep

LEMMA NextTokenStep ==
  ASSUME TokenInv, NextToken
  PROVE  TokenInv'
<1> DEFINE user == local.last.user
           i == local.last.at
<1>1. /\ TokenTypes /\ Runs("strtok") /\ UNCHANGED call /\ local.last # NULL
      /\ local' = [strtok(user, i) EXCEPT !.given = Append(@, Token(user, i))]
      /\ Fields(local.passed) = local.given \o Fields(Rest(local.text[user], i))
  BY DEF TokenInv, NextToken
<1>2. /\ user \in Users /\ i \in 2..Len(local.text[user]) /\ IsString(local.text[user])
      /\ local.given \in Seq(Seq(Nat)) /\ IsString(local.passed)
  BY <1>1 DEF TokenTypes
<1>3. i \in 1..Len(local.text[user])
  BY <1>2 DEF IsString
<1>4. /\ strtok(user, i) = [text |-> strtok(user, i).text, last |-> strtok(user, i).last,
                            given |-> strtok(user, i).given, passed |-> strtok(user, i).passed]
      /\ strtok(user, i).given = local.given /\ strtok(user, i).passed = local.passed
  BY <1>1, StrtokIs
<1>5. local' = [text |-> strtok(user, i).text, last |-> strtok(user, i).last,
                given |-> Append(local.given, Token(user, i)), passed |-> local.passed]
  BY <1>1, <1>4
<1> HIDE DEF user, i
<1> QED BY <1>1, <1>2, <1>3, <1>5, CallStep DEF user, i

\* Every step keeps it.
LEMMA TokenInvStep == TokenInv /\ [LibraryNext]_library_vars => TokenInv'
<1> SUFFICES ASSUME TokenInv, [LibraryNext]_library_vars PROVE TokenInv'
  OBVIOUS
<1>1. CASE Conversion
  BY <1>1 DEF Conversion, TokenInv, TokenTypes, Runs
<1>2. CASE Turn \/ NotFound
  BY <1>2 DEF Turn, NotFound, Searching, TokenInv, TokenTypes, Runs
<1>3. CASE \E user \in Users : FirstToken(user)
  BY <1>3, FirstTokenStep
<1>4. CASE NextToken
  BY <1>4, NextTokenStep
<1>5. CASE UNCHANGED library_vars
  BY <1>5 DEF library_vars, TokenInv, TokenTypes, Runs
<1> QED BY <1>1, <1>2, <1>3, <1>4, <1>5 DEF LibraryNext

\* Between the cuts of a text without empty fields lie its tokens.
LEMMA TokensAreFields ==
  ASSUME NEW t, IsString(t), ~HasEmptyField(t)
  PROVE  Tokens(t) = Fields(t)
<1> DEFINE c == Ascending(Cuts(t))
           E == TextEnd(t)
           S == TokenStarts(t)
           s == [f \in 1..(Len(c) - 1) |-> c[f] + 1]
<1>1. /\ E \in 1..Len(t) /\ t[E] = NUL /\ \A j \in 1..(E - 1) : t[j] # NUL
      /\ t \in Seq(Nat) /\ Len(t) \in Nat
  BY TextEndIs DEF IsString
<1>2. /\ IsAscending(c, Cuts(t)) /\ Len(c) >= 2 /\ Len(c) \in Nat
      /\ \A i \in 1..Len(c) : c[i] \in Cuts(t) /\ c[i] \in Nat
      /\ \A i, j \in 1..Len(c) : i < j => c[i] < c[j]
      /\ \A x \in Cuts(t) : \E i \in 1..Len(c) : c[i] = x
  BY CutsAre DEF IsAscending
<1>3. /\ \A x : x \in Cuts(t) <=> x = 0 \/ x = E \/ (x \in 1..E /\ t[x] \in Delimiters)
      /\ \A k : k \in S <=> k \in 1..(E - 1) /\ t[k] \notin Delimiters
                           /\ (k = 1 \/ t[k - 1] \in Delimiters)
      /\ \A x \in Cuts(t) : x + 1 \notin Cuts(t)
  BY DEF Cuts, TokenStarts, HasEmptyField
<1>4. Fields(t) = [f \in 1..(Len(c) - 1) |-> SubSeq(t, c[f] + 1, c[f + 1] - 1)]
  BY DEF Fields
<1>5. Tokens(t) = [n \in 1..Len(Ascending(S)) |->
                     SubSeq(t, Ascending(S)[n], TokenEnd(t, Ascending(S)[n]) - 1)]
  BY DEF Tokens
<1>6. S \subseteq 0..Len(t)
  BY <1>1, <1>3
<1>7. IsAscending(Ascending(S), S)
  BY <1>1, <1>6, AscendingIs
<1> HIDE DEF c, E, S
<1>8. \A i \in 1..Len(c) : c[i] <= E
  BY <1>1, <1>2, <1>3
<1>9. ASSUME NEW f \in 1..(Len(c) - 1)
      PROVE  /\ c[f] \in 0..(E - 2) /\ c[f] + 1 \in S
             /\ c[f + 1] \in (c[f] + 1)..E
             /\ TokenEnd(t, c[f] + 1) = c[f + 1]
  <2>1. f \in 1..Len(c) /\ f + 1 \in 1..Len(c)
    BY <1>2
  <2>2. c[f] < c[f + 1] /\ c[f + 1] <= E /\ c[f] \in Nat /\ c[f + 1] \in Nat /\ c[f] \in Cuts(t)
        /\ c[f + 1] \in Cuts(t)
    BY <1>2, <1>8, <2>1
  <2>3. c[f] + 1 # E /\ c[f] + 1 \notin Cuts(t) /\ c[f] # E
    BY <1>1, <1>3, <2>2
  <2>4. c[f] \in 0..(E - 2)
    BY <1>1, <2>2, <2>3
  <2>5. c[f] + 1 \in 1..(E - 1) /\ t[c[f] + 1] \notin Delimiters
    <3>1. c[f] + 1 \in 1..(E - 1) /\ c[f] + 1 \in 1..E
      BY <1>1, <2>4
    <3> DEFINE x == c[f] + 1
    <3>2. x \notin Cuts(t) /\ x \in 1..E
      BY <2>3, <3>1
    <3> HIDE DEF x
    <3>3. t[x] \notin Delimiters
      BY <1>3, <3>2
    <3> QED BY <3>1, <3>3 DEF x
  <2>6. c[f] = 0 \/ t[c[f]] \in Delimiters
    BY <1>3, <2>2, <2>3
  <2>7. c[f] + 1 \in S
    BY <1>3, <2>4, <2>5, <2>6
  <2>8. c[f + 1] \in (c[f] + 1)..Len(t) /\ c[f] + 1 \in 1..Len(t)
    BY <1>1, <2>2, <2>4
  <2>9. t[c[f + 1]] \in Delimiters \union {NUL}
    BY <1>1, <1>3, <2>2
  <2>10. ASSUME NEW j \in (c[f] + 1)..(c[f + 1] - 1)
         PROVE  t[j] \notin Delimiters \union {NUL}
    <3>1. j \in 1..(E - 1) /\ c[f] < j /\ j < c[f + 1]
      BY <1>1, <2>2
    <3>2. t[j] # NUL
      BY <1>1, <3>1
    <3>3. j \notin Cuts(t)
      <4> SUFFICES ASSUME NEW i \in 1..Len(c), c[i] = j PROVE FALSE
        BY <1>2
      <4>1. i <= f \/ f + 1 <= i
        BY <1>2
      <4>2. i <= f => c[i] <= c[f]
        BY <1>2, <2>1
      <4>3. f + 1 <= i => c[f + 1] <= c[i]
        BY <1>2, <2>1
      <4> QED BY <2>2, <3>1, <4>1, <4>2, <4>3
    <3>4. j \in 1..E
      BY <1>1, <3>1
    <3>5. t[j] \notin Delimiters
      BY <1>3, <3>3, <3>4
    <3> QED BY <3>2, <3>5
  <2>11. TokenEnd(t, c[f] + 1) = c[f + 1]
    BY <2>8, <2>9, <2>10, TokenEndUnique
  <2> QED BY <2>2, <2>4, <2>7, <2>11
<1>10. IsAscending(s, S)
  <2>1. /\ s \in Seq(Nat) /\ Len(s) = Len(c) - 1
        /\ \A f \in 1..(Len(c) - 1) : s[f] = c[f] + 1
    BY <1>2
  <2> HIDE DEF s
  <2>2. ASSUME NEW i \in 1..Len(s), NEW j \in 1..Len(s), i < j PROVE s[i] < s[j]
    <3>1. i \in 1..Len(c) /\ j \in 1..Len(c) /\ i \in 1..(Len(c) - 1) /\ j \in 1..(Len(c) - 1)
      BY <1>2, <2>1
    <3>2. c[i] < c[j] /\ c[i] \in Nat /\ c[j] \in Nat
      BY <1>2, <2>2, <3>1
    <3>3. s[i] = c[i] + 1 /\ s[j] = c[j] + 1
      BY <2>1, <3>1
    <3> QED BY <3>2, <3>3
  <2>3. \A i \in 1..Len(s) : s[i] \in S
    BY <1>9, <2>1
  <2>4. ASSUME NEW k \in S PROVE \E i \in 1..Len(s) : s[i] = k
    <3>1. k \in 1..(E - 1) /\ k - 1 \in Cuts(t)
      <4>1. k \in 1..(E - 1) /\ (k = 1 \/ t[k - 1] \in Delimiters)
        BY <1>3
      <4>2. k # 1 => k - 1 \in 1..E
        BY <1>1, <4>1
      <4>3. k = 1 => k - 1 = 0
        OBVIOUS
      <4> DEFINE x == k - 1
      <4>4. x = 0 \/ (x \in 1..E /\ t[x] \in Delimiters)
        BY <4>1, <4>2, <4>3
      <4> HIDE DEF x
      <4>5. x \in Cuts(t)
        BY <1>3, <4>4
      <4> QED BY <4>1, <4>5 DEF x
    <3>2. PICK i \in 1..Len(c) : c[i] = k - 1
      BY <1>2, <3>1
    <3>3. PICK j \in 1..Len(c) : c[j] = E
      BY <1>2, <1>3
    <3>4. c[i] < c[j]
      BY <1>1, <3>1, <3>2, <3>3
    <3>5. i # Len(c)
      BY <1>2, <3>4
    <3>6. i \in 1..(Len(c) - 1)
      BY <1>2, <3>5
    <3>7. s[i] = k
      BY <2>1, <3>1, <3>2, <3>6
    <3> QED BY <2>1, <3>6, <3>7
  <2> QED BY <2>1, <2>2, <2>3, <2>4 DEF IsAscending
<1>11. Ascending(S) = s
  BY <1>7, <1>10, AscendingUnique
<1>12. Len(s) = Len(c) - 1
  BY <1>2
<1>13. ASSUME NEW f \in 1..(Len(c) - 1)
       PROVE  SubSeq(t, s[f], TokenEnd(t, s[f]) - 1) = SubSeq(t, c[f] + 1, c[f + 1] - 1)
  BY <1>9
<1> HIDE DEF s
<1> QED BY <1>4, <1>5, <1>11, <1>12, <1>13

LEMMA TokenInvEnough == TokenInv => ReturnsTokens
<1> SUFFICES ASSUME TokenInv, Runs("strtok"), local.given # <<>>, ~HasEmptyField(local.passed)
             PROVE  /\ IsPrefix(local.given, Tokens(local.passed))
                    /\ local.last = NULL => local.given = Tokens(local.passed)
  BY DEF ReturnsTokens
<1>1. /\ local.given \in Seq(Seq(Nat)) /\ IsString(local.passed)
      /\ local.last # NULL => /\ local.last.user \in Users
                              /\ local.last.at \in 2..Len(local.text[local.last.user])
                              /\ IsString(local.text[local.last.user])
  BY DEF TokenInv, TokenTypes
<1> DEFINE g == local.given
           tokens == Tokens(local.passed)
<1>2. tokens = Fields(local.passed)
  BY <1>1, TokensAreFields
<1> HIDE DEF tokens
<1>3. CASE local.last = NULL
  <2>1. tokens = g
    BY <1>2, <1>3 DEF TokenInv
  <2>2. IsPrefix(g, g)
    <3>1. SubSeq(g, 1, Len(g)) = g
      BY <1>1
    <3> QED BY <3>1 DEF IsPrefix
  <2> QED BY <2>1, <2>2 DEF tokens
<1>4. CASE local.last # NULL
  <2> DEFINE t == local.text[local.last.user]
             i == local.last.at
             F == Fields(Rest(t, i))
  <2>1. tokens = g \o F
    BY <1>2, <1>4 DEF TokenInv
  <2>2. i \in 1..Len(t) /\ IsString(t)
    BY <1>1, <1>4 DEF IsString
  <2>3. F \in Seq(Seq(Nat))
    BY <2>2, RestIs, FieldsAre
  <2>4. IsPrefix(g, g \o F)
    <3> HIDE DEF F, g
    <3>1. g \in Seq(Seq(Nat))
      BY <1>1 DEF g
    <3>2. Len(g) <= Len(g \o F)
      BY <2>3, <3>1
    <3>3. SubSeq(g, 1, Len(g)) = SubSeq(g \o F, 1, Len(g))
      BY <2>3, <3>1
    <3> QED BY <3>2, <3>3 DEF IsPrefix
  <2> QED BY <1>4, <2>1, <2>4 DEF tokens
<1> QED BY <1>3, <1>4

\* Of a text without empty fields, passed to it last, strtok returns the tokens that the
\* C standard asks for, whatever it has been called for before
\* (string_functions.c:135-155).
THEOREM TokensAreRight == LibrarySpec => []ReturnsTokens
<1>1. LibraryInit => TokenInv
  BY TokenInit
<1>2. TokenInv /\ [LibraryNext]_library_vars => TokenInv'
  BY TokenInvStep
<1> QED BY <1>1, <1>2, TokenInvEnough, PTL DEF LibrarySpec

-----------------------------------------------------------------------------
(* The conversions *)

LEMMA DigitIs ==
  ASSUME NEW c \in Nat
  PROVE  Digit(c) \in Nat /\ Digit(NUL) = 99
<1>1. Digit(NUL) = 99
  BY DEF Digit, NUL
<1>2. CASE c \in 48..57
  BY <1>1, <1>2 DEF Digit
<1>3. CASE c \in 97..122
  BY <1>1, <1>3 DEF Digit
<1>4. CASE c \in 65..90
  BY <1>1, <1>4 DEF Digit
<1>5. CASE c \notin 48..57 /\ c \notin 97..122 /\ c \notin 65..90
  BY <1>1, <1>5 DEF Digit
<1> QED BY <1>2, <1>3, <1>4, <1>5

\* The test of the loops: one more digit takes the result past max.
LEMMA OverflowTest ==
  ASSUME NEW max \in Int, NEW base \in 1..36, NEW result \in Nat, NEW d \in Nat
  PROVE  result > (max - d) \div base <=> result * base + d > max
<1> DEFINE m == max - d
<1>1. /\ m \in Int /\ m \div base \in Int
      /\ (m \div base) * base <= m /\ m < (m \div base) * base + base
  OBVIOUS
<1> DEFINE q == m \div base
<1>2. q \in Int /\ q * base <= m /\ m < q * base + base
  BY <1>1
<1> HIDE DEF q, m
<1>3. result > q => result * base >= q * base + base
  BY <1>1, <1>2
<1>4. result <= q => result * base <= q * base
  BY <1>1, <1>2
<1>5. result * base \in Int /\ q * base \in Int
  BY <1>2
<1>6. result > q <=> result * base > m
  BY <1>1, <1>2, <1>3, <1>4, <1>5
<1>7. result * base > m <=> result * base + d > max
  BY <1>5 DEF m
<1> QED BY <1>6, <1>7 DEF q, m

\* Where the digits stop.
IsStop(s, base, n) ==
  /\ n \in 1..Len(s) /\ Digit(s[n]) >= base
  /\ \A j \in 1..(n - 1) : Digit(s[j]) < base

LEMMA StopIs ==
  ASSUME NEW s, IsString(s), NEW base \in 1..36
  PROVE  IsStop(s, base, Stop(s, base))
<1>0. /\ s \in Seq(Nat) /\ Len(s) \in Nat /\ Len(s) \in 1..Len(s) /\ s[Len(s)] = NUL
      /\ DOMAIN s = 1..Len(s)
  BY DEF IsString
<1> DEFINE S == {k \in 1..Len(s) : Digit(s[k]) >= base}
<1>1. Len(s) \in S
  <2>1. Digit(NUL) = 99 /\ 99 >= base
    BY DigitIs
  <2> QED BY <1>0, <2>1
<1>2. S \subseteq Nat /\ S # {}
  BY <1>0, <1>1
<1>3. PICK k \in S : \A j \in S : k <= j
  <2> HIDE DEF S
  <2> QED BY <1>2, LeastNumber
<1>4. k \in 1..Len(s) /\ Digit(s[k]) >= base
  OBVIOUS
<1>5. ASSUME NEW j \in 1..(k - 1) PROVE Digit(s[j]) < base
  <2>1. j \in 1..Len(s) /\ j < k
    BY <1>0, <1>4
  <2>2. j \notin S
    BY <1>3, <2>1
  <2>3. s[j] \in Nat
    BY <1>0, <2>1
  <2>4. Digit(s[j]) \in Nat
    BY <2>3, DigitIs
  <2> QED BY <2>1, <2>2, <2>4
<1> HIDE DEF S
<1>6. Stop(s, base) \in 1..Len(s) /\ Digit(s[Stop(s, base)]) >= base
      /\ \A j \in 1..(Stop(s, base) - 1) : Digit(s[j]) < base
  BY <1>0, <1>4, <1>5 DEF Stop
<1> QED BY <1>6 DEF IsStop

\* v are the values of the first digits of s, up to n.
AreValues(v, s, base, n) ==
  v = [k \in 0..n |-> IF k = 0 THEN 0 ELSE v[k - 1] * base + Digit(s[k])]

LEMMA ValuesExist ==
  ASSUME NEW s, NEW base
  PROVE  \A n \in Nat : \E v : AreValues(v, s, base, n)
<1> DEFINE T == {n \in Nat : \E v : AreValues(v, s, base, n)}
<1>1. 0 \in T
  <2> DEFINE v == [k \in 0..0 |-> 0]
  <2>1. v = [k \in 0..0 |-> IF k = 0 THEN 0 ELSE v[k - 1] * base + Digit(s[k])]
    OBVIOUS
  <2>2. AreValues(v, s, base, 0)
    BY <2>1 DEF AreValues
  <2> QED BY <2>2
<1>2. ASSUME NEW n \in Nat, n \in T PROVE n + 1 \in T
  <2>1. PICK v : AreValues(v, s, base, n)
    BY <1>2
  <2> DEFINE w == [k \in 0..(n + 1) |-> IF k = n + 1 THEN v[n] * base + Digit(s[n + 1]) ELSE v[k]]
             F(k) == IF k = 0 THEN 0 ELSE w[k - 1] * base + Digit(s[k])
  <2>2. ASSUME NEW k \in 0..(n + 1) PROVE w[k] = F(k)
    <3>1. CASE k = n + 1
      <4>1. k - 1 = n /\ n \in 0..(n + 1) /\ n # n + 1 /\ k # 0
        BY <3>1
      <4>2. w[n] = v[n] /\ w[n + 1] = v[n] * base + Digit(s[n + 1])
        BY <4>1
      <4> HIDE DEF w
      <4> QED BY <3>1, <4>1, <4>2
    <3>2. CASE k = 0
      <4>1. v[0] = 0
        BY <2>1 DEF AreValues
      <4> QED BY <3>2, <4>1
    <3>3. CASE k # 0 /\ k # n + 1
      <4>1. k \in 0..n /\ k - 1 \in 0..(n + 1) /\ k - 1 # n + 1
        BY <3>3
      <4>2. v[k] = v[k - 1] * base + Digit(s[k])
        BY <2>1, <3>3, <4>1 DEF AreValues
      <4>3. w[k] = v[k] /\ w[k - 1] = v[k - 1]
        BY <3>3, <4>1
      <4> HIDE DEF w
      <4> QED BY <3>3, <4>2, <4>3
    <3> QED BY <3>1, <3>2, <3>3
  <2>3. w = [k \in 0..(n + 1) |-> w[k]]
    OBVIOUS
  <2> HIDE DEF w
  <2>4. w = [k \in 0..(n + 1) |-> F(k)]
    BY <2>2, <2>3
  <2>5. AreValues(w, s, base, n + 1)
    BY <2>4 DEF AreValues
  <2> QED BY <2>5
<1> HIDE DEF T
<1>3. \A n \in Nat : n \in T
  BY <1>1, <1>2, SetInduction
<1> QED BY <1>3 DEF T

\* A digit more makes a number no smaller.
LEMMA ShiftIs ==
  ASSUME NEW x \in Nat, NEW base \in 1..36
  PROVE  x * base >= x /\ x * base \in Nat
<1>1. base - 1 \in Nat /\ x * base = x * (base - 1) + x
  OBVIOUS
<1>2. x * (base - 1) \in Nat
  BY <1>1
<1> QED BY <1>1, <1>2

\* They are numbers, and never decrease.
LEMMA ValuesAre ==
  ASSUME NEW s \in Seq(Nat), NEW base \in 1..36, NEW n \in 0..Len(s), NEW v,
         AreValues(v, s, base, n)
  PROVE  /\ \A k \in 0..n : v[k] \in Nat
         /\ v[0] = 0 /\ \A k \in 1..n : v[k] = v[k - 1] * base + Digit(s[k])
         /\ \A k \in 0..n : v[k] <= v[n]
<1>0. Len(s) \in Nat /\ n \in Nat
  OBVIOUS
<1>1. v[0] = 0 /\ \A k \in 1..n : v[k] = v[k - 1] * base + Digit(s[k])
  <2>1. v[0] = 0
    BY <1>0 DEF AreValues
  <2>2. ASSUME NEW k \in 1..n PROVE v[k] = v[k - 1] * base + Digit(s[k])
    <3>1. k \in 0..n /\ k # 0
      BY <1>0
    <3> QED BY <3>1 DEF AreValues
  <2> QED BY <2>1, <2>2
<1>2. ASSUME NEW k \in 1..n PROVE Digit(s[k]) \in Nat
  <2>1. s[k] \in Nat
    BY <1>0
  <2> QED BY <2>1, DigitIs
<1> DEFINE T == {k \in Nat : k <= n => v[k] \in Nat}
<1>3. 0 \in T
  BY <1>1
<1>4. ASSUME NEW k \in Nat, k \in T PROVE k + 1 \in T
  <2> SUFFICES ASSUME k + 1 <= n PROVE v[k + 1] \in Nat
    OBVIOUS
  <2>1. k + 1 \in 1..n /\ (k + 1) - 1 = k /\ v[k] \in Nat
    BY <1>0, <1>4
  <2>2. v[k + 1] = v[k] * base + Digit(s[k + 1])
    BY <1>1, <2>1
  <2>3. v[k] * base \in Nat
    BY <2>1
  <2> QED BY <1>2, <2>1, <2>2, <2>3
<1> HIDE DEF T
<1>5. \A k \in Nat : k \in T
  BY <1>3, <1>4, SetInduction
<1>6. \A k \in 0..n : v[k] \in Nat
  BY <1>0, <1>5 DEF T
<1>7. ASSUME NEW k \in 1..n PROVE v[k - 1] <= v[k]
  <2>1. v[k - 1] \in Nat /\ Digit(s[k]) \in Nat /\ v[k] = v[k - 1] * base + Digit(s[k])
    <3>1. k - 1 \in 0..n
      BY <1>0
    <3> QED BY <1>1, <1>2, <1>6, <3>1
  <2> DEFINE x == v[k - 1]
             d == Digit(s[k])
  <2> HIDE DEF x, d
  <2>2. x \in Nat /\ d \in Nat /\ v[k] = x * base + d
    BY <2>1 DEF x, d
  <2>3. x * base >= x /\ x * base \in Nat
    BY <2>2, ShiftIs
  <2>4. x <= v[k]
    BY <2>2, <2>3
  <2> QED BY <2>4 DEF x
<1> DEFINE U == {k \in Nat : k <= n => v[n - k] <= v[n]}
<1>8. 0 \in U
  BY <1>0, <1>6
<1>9. ASSUME NEW k \in Nat, k \in U PROVE k + 1 \in U
  <2> SUFFICES ASSUME k + 1 <= n PROVE v[n - (k + 1)] <= v[n]
    OBVIOUS
  <2>1. n - k \in 1..n /\ (n - k) - 1 = n - (k + 1) /\ v[n - k] <= v[n]
    BY <1>0, <1>9
  <2>2. v[n - (k + 1)] <= v[n - k]
    BY <1>7, <2>1
  <2>3. n - (k + 1) \in 0..n /\ n - k \in 0..n /\ n \in 0..n
    BY <1>0, <2>1
  <2>4. v[n - (k + 1)] \in Nat /\ v[n - k] \in Nat /\ v[n] \in Nat
    BY <1>6, <2>3
  <2> QED BY <2>1, <2>2, <2>4
<1> HIDE DEF U
<1>10. \A k \in Nat : k \in U
  BY <1>8, <1>9, SetInduction
<1>11. ASSUME NEW k \in 0..n PROVE v[k] <= v[n]
  <2>1. n - k \in Nat /\ n - k <= n /\ n - (n - k) = k
    BY <1>0
  <2> QED BY <1>10, <2>1 DEF U
<1> QED BY <1>1, <1>6, <1>11

\* What the digits that s starts with are worth.
LEMMA ValueIs ==
  ASSUME NEW s, IsString(s), NEW base \in 1..36
  PROVE  \E v : AreValues(v, s, base, Stop(s, base) - 1) /\ Value(s, base) = v[Stop(s, base) - 1]
<1> DEFINE n == Stop(s, base)
           w == CHOOSE v : v = [k \in 0..(n - 1) |->
                  IF k = 0 THEN 0 ELSE v[k - 1] * base + Digit(s[k])]
<1>1. Value(s, base) = w[n - 1]
  BY DEF Value, Stop
<1>2. n - 1 \in Nat
  <2>1. IsStop(s, base, n)
    BY StopIs
  <2> HIDE DEF n
  <2> QED BY <2>1 DEF IsStop, IsString
<1>3. PICK v : AreValues(v, s, base, n - 1)
  BY <1>2, ValuesExist
<1>4. AreValues(w, s, base, n - 1)
  BY <1>3 DEF AreValues
<1> QED BY <1>1, <1>4

\* A turn of the loop at i, and the loop.
Body(f, s, base, max, clamp, i) ==
  [result \in Nat |->
     IF Digit(s[i]) >= base THEN [value |-> result, own_errno |-> "kept"]
     ELSE IF result > (max - Digit(s[i])) \div base
          THEN [value |-> clamp, own_errno |-> "ERANGE"]
     ELSE f[i + 1][result * base + Digit(s[i])]]

IsLoop(f, s, base, max, clamp) ==
  f = [i \in DOMAIN s |-> Body(f, s, base, max, clamp, i)]

LEMMA LoopExists ==
  ASSUME NEW s, IsString(s), NEW base \in 1..36, NEW max, NEW clamp
  PROVE  \E f : IsLoop(f, s, base, max, clamp)
<1> DEFINE B(f, i) == Body(f, s, base, max, clamp, i)
           n == Len(s)
<1>0. n \in Nat /\ n >= 1 /\ s[n] = NUL /\ DOMAIN s = 1..n /\ s \in Seq(Nat)
  BY DEF IsString
<1> HIDE DEF n
<1>1. ASSUME NEW i \in 1..n, NEW f, NEW g, i < n => f[i + 1] = g[i + 1]
      PROVE  B(f, i) = B(g, i)
  <2>1. CASE i < n
    BY <1>1, <2>1 DEF Body
  <2>2. CASE i = n
    <3>1. Digit(s[i]) >= base
      <4>1. Digit(NUL) = 99 /\ 99 >= base
        BY DigitIs
      <4> QED BY <1>0, <2>2, <4>1
    <3> QED BY <3>1 DEF Body
  <2> QED BY <1>0, <2>1, <2>2
<1> HIDE DEF B
<1> DEFINE Upto(m, f) == /\ f = [i \in 1..n |-> f[i]]
                         /\ \A i \in 1..n : i >= n - m => f[i] = B(f, i)
           T == {m \in Nat : \E f : Upto(m, f)}
<1>2. 0 \in T
  <2> DEFINE f == [i \in 1..n |-> B(<<>>, i)]
  <2>1. f = [i \in 1..n |-> f[i]]
    OBVIOUS
  <2>2. ASSUME NEW i \in 1..n, i >= n - 0 PROVE f[i] = B(f, i)
    <3>1. f[i] = B(<<>>, i) /\ ~(i < n)
      BY <1>0, <2>2
    <3> HIDE DEF f
    <3>2. B(<<>>, i) = B(f, i)
      BY <1>1, <3>1
    <3> QED BY <3>1, <3>2
  <2> HIDE DEF f
  <2>3. Upto(0, f)
    BY <2>1, <2>2
  <2> QED BY <2>3
<1>3. ASSUME NEW m \in Nat, m \in T PROVE m + 1 \in T
  <2>1. PICK f : Upto(m, f)
    BY <1>3
  <2> DEFINE g == [i \in 1..n |-> IF i = n - (m + 1) THEN B(f, i) ELSE f[i]]
  <2>2. g = [i \in 1..n |-> g[i]]
    OBVIOUS
  <2>3. ASSUME NEW i \in 1..n, i >= n - (m + 1) PROVE g[i] = B(g, i)
    <3>1. g[i] = B(f, i)
      <4>1. CASE i = n - (m + 1)
        BY <4>1
      <4>2. CASE i # n - (m + 1)
        <5>1. i >= n - m
          BY <1>0, <2>3, <4>2
        <5> QED BY <2>1, <4>2, <5>1
      <4> QED BY <4>1, <4>2
    <3>2. i < n => g[i + 1] = f[i + 1]
      <4> SUFFICES ASSUME i < n PROVE g[i + 1] = f[i + 1]
        OBVIOUS
      <4>1. i + 1 \in 1..n /\ i + 1 # n - (m + 1)
        BY <1>0, <2>3
      <4> QED BY <4>1
    <3> HIDE DEF g
    <3>3. B(g, i) = B(f, i)
      BY <1>1, <3>2
    <3> QED BY <3>1, <3>3
  <2> HIDE DEF g
  <2>4. Upto(m + 1, g)
    BY <2>2, <2>3
  <2> HIDE DEF Upto
  <2>5. \E f1 : Upto(m + 1, f1)
    BY <2>4
  <2> QED BY <2>5
<1> HIDE DEF T
<1>4. n \in T
  BY <1>0, <1>2, <1>3, SetInduction
<1>5. PICK f : Upto(n, f)
  BY <1>4 DEF T
<1>6. ASSUME NEW i \in 1..n PROVE f[i] = B(f, i)
  <2>1. i >= n - n
    BY <1>0
  <2> QED BY <1>5, <2>1
<1>7. f = [i \in 1..n |-> B(f, i)]
  BY <1>5, <1>6
<1> QED BY <1>0, <1>7 DEF B, IsLoop

\* The value of the digits, or the clamp if it is over max.
LEMMA AccumulateIs ==
  ASSUME NEW s, IsString(s), NEW base \in 1..36, NEW max \in Nat, NEW clamp,
         NEW n, IsStop(s, base, n), NEW v, AreValues(v, s, base, n - 1)
  PROVE  Accumulate(s, base, max, clamp)
           = IF v[n - 1] <= max THEN [value |-> v[n - 1], own_errno |-> "kept"]
             ELSE [value |-> clamp, own_errno |-> "ERANGE"]
<1>0. s \in Seq(Nat) /\ Len(s) \in Nat /\ DOMAIN s = 1..Len(s)
  BY DEF IsString
<1>1. n \in 1..Len(s) /\ Digit(s[n]) >= base /\ \A j \in 1..(n - 1) : Digit(s[j]) < base
  BY DEF IsStop
<1>2. n - 1 \in 0..Len(s) /\ n \in Nat /\ n >= 1
  BY <1>0, <1>1
<1>3. /\ \A k \in 0..(n - 1) : v[k] \in Nat
      /\ v[0] = 0 /\ \A k \in 1..(n - 1) : v[k] = v[k - 1] * base + Digit(s[k])
      /\ \A k \in 0..(n - 1) : v[k] <= v[n - 1]
  BY <1>0, <1>2, ValuesAre
<1> DEFINE loop == CHOOSE loop : loop = [i \in DOMAIN s |-> [result \in Nat |->
                     IF Digit(s[i]) >= base THEN [value |-> result, own_errno |-> "kept"]
                     ELSE IF result > (max - Digit(s[i])) \div base
                          THEN [value |-> clamp, own_errno |-> "ERANGE"]
                     ELSE loop[i + 1][result * base + Digit(s[i])]]]
<1>4. Accumulate(s, base, max, clamp) = loop[1][0]
  BY DEF Accumulate
<1>5. IsLoop(loop, s, base, max, clamp)
  <2>1. \E f : IsLoop(f, s, base, max, clamp)
    BY LoopExists
  <2> QED BY <2>1 DEF IsLoop, Body
<1> HIDE DEF loop
<1>6. ASSUME NEW i \in 1..Len(s), NEW result \in Nat
      PROVE  loop[i][result]
               = IF Digit(s[i]) >= base THEN [value |-> result, own_errno |-> "kept"]
                 ELSE IF result > (max - Digit(s[i])) \div base
                      THEN [value |-> clamp, own_errno |-> "ERANGE"]
                 ELSE loop[i + 1][result * base + Digit(s[i])]
  <2>1. loop[i] = Body(loop, s, base, max, clamp, i)
    BY <1>0, <1>5 DEF IsLoop
  <2> QED BY <2>1 DEF Body
\* One more digit.
<1>7. ASSUME NEW k \in 1..(n - 1)
      PROVE  loop[k][v[k - 1]] = IF v[k] > max THEN [value |-> clamp, own_errno |-> "ERANGE"]
                                 ELSE loop[k + 1][v[k]]
  <2> DEFINE r == v[k - 1]
             d == Digit(s[k])
  <2>1. k \in 1..Len(s) /\ k - 1 \in 0..(n - 1)
    BY <1>0, <1>1, <1>2
  <2>2. r \in Nat /\ d \in Nat /\ d < base /\ v[k] = r * base + d
    <3>1. s[k] \in Nat
      BY <1>0, <2>1
    <3> QED BY <1>1, <1>3, <2>1, <3>1, DigitIs
  <2>3. loop[k][r] = IF d >= base THEN [value |-> r, own_errno |-> "kept"]
                     ELSE IF r > (max - d) \div base THEN [value |-> clamp, own_errno |-> "ERANGE"]
                     ELSE loop[k + 1][r * base + d]
    BY <1>6, <2>1, <2>2
  <2> HIDE DEF r, d
  <2>4. r > (max - d) \div base <=> r * base + d > max
    BY <2>2, OverflowTest
  <2>5. ~(d >= base)
    BY <2>2
  <2>6. loop[k][r] = IF v[k] > max THEN [value |-> clamp, own_errno |-> "ERANGE"]
                     ELSE loop[k + 1][v[k]]
    <3> DEFINE over == r > (max - d) \div base
               above == v[k] > max
    <3>1. over <=> above
      BY <2>2, <2>4
    <3>2. loop[k][r] = IF over THEN [value |-> clamp, own_errno |-> "ERANGE"]
                       ELSE loop[k + 1][r * base + d]
      BY <2>3, <2>5
    <3>3. r * base + d = v[k]
      BY <2>2
    <3> HIDE DEF over, above
    <3> QED BY <3>1, <3>2, <3>3 DEF above
  <2> QED BY <2>6 DEF r
<1> DEFINE T == {k \in Nat : k <= n - 1 /\ v[k] <= max => loop[1][0] = loop[k + 1][v[k]]}
<1>8. 0 \in T
  BY <1>3
<1>9. ASSUME NEW k \in Nat, k \in T PROVE k + 1 \in T
  <2> SUFFICES ASSUME k + 1 <= n - 1, v[k + 1] <= max
               PROVE  loop[1][0] = loop[(k + 1) + 1][v[k + 1]]
    OBVIOUS
  <2>1. k + 1 \in 1..(n - 1) /\ (k + 1) - 1 = k /\ k \in 0..(n - 1) /\ k + 1 \in 0..(n - 1)
        /\ k <= n - 1
    BY <1>2
  <2>2. v[k] \in Nat /\ v[k + 1] \in Nat /\ v[k + 1] = v[k] * base + Digit(s[k + 1])
    BY <1>3, <2>1
  <2>3. Digit(s[k + 1]) \in Nat
    <3>1. k + 1 \in 1..Len(s)
      BY <1>0, <1>1, <2>1
    <3>2. s[k + 1] \in Nat
      BY <1>0, <3>1
    <3> QED BY <3>2, DigitIs
  <2>4. v[k] <= max
    <3>1. v[k] * base >= v[k] /\ v[k] * base \in Nat
      BY <2>2, ShiftIs
    <3> QED BY <2>2, <2>3, <3>1
  <2>5. loop[1][0] = loop[k + 1][v[k]]
    BY <1>9, <2>1, <2>4
  <2>6. loop[k + 1][v[k]] = loop[(k + 1) + 1][v[k + 1]]
    <3>1. ~(v[k + 1] > max)
      BY <2>2
    <3> QED BY <1>7, <2>1, <3>1
  <2> QED BY <2>5, <2>6
<1> HIDE DEF T
<1>10. \A k \in Nat : k \in T
  BY <1>8, <1>9, SetInduction
<1>11. CASE v[n - 1] <= max
  <2>1. n - 1 \in Nat /\ n - 1 <= n - 1 /\ (n - 1) + 1 = n
    BY <1>2
  <2>2. loop[1][0] = loop[n][v[n - 1]]
    BY <1>10, <1>11, <2>1 DEF T
  <2>3. v[n - 1] \in Nat
    BY <1>2, <1>3
  <2>4. loop[n][v[n - 1]] = [value |-> v[n - 1], own_errno |-> "kept"]
    BY <1>1, <1>6, <2>3
  <2> QED BY <1>4, <1>11, <2>2, <2>4
<1>12. CASE ~(v[n - 1] <= max)
  <2> DEFINE S == {k \in 0..(n - 1) : v[k] > max}
  <2>1. n - 1 \in S /\ S \subseteq Nat
    BY <1>2, <1>3, <1>12
  <2>2. PICK k \in S : \A j \in S : k <= j
    <3> HIDE DEF S
    <3> QED BY <2>1, LeastNumber
  <2>3. k \in 0..(n - 1) /\ v[k] > max
    OBVIOUS
  <2>4. k \in 1..(n - 1)
    BY <1>2, <1>3, <2>3
  <2>5. k - 1 \in 0..(n - 1) /\ k - 1 \in Nat /\ k - 1 <= n - 1 /\ (k - 1) + 1 = k /\ k - 1 < k
    BY <1>2, <2>4
  <2>6. v[k - 1] <= max
    <3>1. k - 1 \notin S
      BY <2>2, <2>5
    <3>2. v[k - 1] \in Nat
      BY <1>3, <2>5
    <3> QED BY <2>5, <3>1, <3>2
  <2> HIDE DEF S
  <2>7. loop[1][0] = loop[k][v[k - 1]]
    BY <1>10, <2>5, <2>6 DEF T
  <2>8. loop[k][v[k - 1]] = [value |-> clamp, own_errno |-> "ERANGE"]
    BY <1>7, <2>3, <2>4
  <2> QED BY <1>4, <1>12, <2>7, <2>8
<1> QED BY <1>11, <1>12

\* What starts with something else than NUL goes on.
LEMMA TailIs ==
  ASSUME NEW s, IsString(s), s[1] # NUL
  PROVE  IsString(Tail(s)) /\ Tail(s) = SubSeq(s, 2, Len(s)) /\ Tail(s)[1] = s[2] /\ Len(s) >= 2
<1>1. s \in Seq(Nat) /\ Len(s) \in Nat /\ s # <<>> /\ s[Len(s)] = NUL
  BY DEF IsString
<1>2. Len(s) # 0
  BY <1>1
<1>3. Len(s) >= 2
  BY <1>1, <1>2
<1>4. /\ Tail(s) \in Seq(Nat) /\ Len(Tail(s)) = Len(s) - 1
      /\ \A i \in 1..(Len(s) - 1) : Tail(s)[i] = s[i + 1]
  BY <1>1, <1>3
<1>5. Len(s) - 1 \in 1..(Len(s) - 1) /\ (Len(s) - 1) + 1 = Len(s) /\ 1 \in 1..(Len(s) - 1)
  BY <1>1, <1>3
<1>6. Tail(s)[Len(Tail(s))] = NUL /\ Tail(s)[1] = s[1 + 1]
  BY <1>1, <1>4, <1>5
<1>7. Tail(s) # <<>>
  <2>1. Len(Tail(s)) # 0
    BY <1>1, <1>3, <1>4
  <2>2. Len(<<>>) = 0
    OBVIOUS
  <2> QED BY <2>1, <2>2
<1>8. Tail(s) = SubSeq(s, 2, Len(s))
  BY <1>1, <1>3
<1> QED BY <1>3, <1>4, <1>6, <1>7, <1>8 DEF IsString

\* Where a number starts for the standard.
LEMMA StartIs ==
  ASSUME NEW str, IsString(str)
  PROVE  /\ Start(str) \in 1..Len(str) /\ str[Start(str)] \notin White
         /\ \A j \in 1..(Start(str) - 1) : str[j] \in White
<1>0. /\ Len(str) \in Nat /\ Len(str) \in 1..Len(str) /\ str[Len(str)] = NUL
      /\ DOMAIN str = 1..Len(str)
  BY DEF IsString
<1> DEFINE S == {k \in 1..Len(str) : str[k] \notin White}
<1>1. Len(str) \in S
  BY <1>0 DEF White, NUL
<1>2. S \subseteq Nat /\ S # {}
  BY <1>0, <1>1
<1>3. PICK k \in S : \A j \in S : k <= j
  <2> HIDE DEF S
  <2> QED BY <1>2, LeastNumber
<1>4. k \in 1..Len(str) /\ str[k] \notin White
  OBVIOUS
<1>5. \A j \in 1..(k - 1) : str[j] \in White
  <2> SUFFICES ASSUME NEW j \in 1..(k - 1), str[j] \notin White PROVE FALSE
    OBVIOUS
  <2>1. j \in 1..Len(str) /\ ~(k <= j)
    BY <1>0, <1>4
  <2> QED BY <1>3, <2>1
<1> HIDE DEF S
<1> QED BY <1>0, <1>4, <1>5 DEF Start

\* And for the code, unless a space comes before it.
LEMMA StrippedIs ==
  ASSUME NEW str, IsString(str), \A k \in 1..(Start(str) - 1) : str[k] # 32
  PROVE  Stripped(str) = Rest(str, Start(str))
<1> DEFINE a == Start(str)
           Is(x) == ~isspace(str[x]) /\ \A j \in 1..(x - 1) : isspace(str[j])
           i == CHOOSE x \in DOMAIN str : Is(x)
<1>1. /\ a \in 1..Len(str) /\ str[a] \notin White /\ \A j \in 1..(a - 1) : str[j] \in White
      /\ DOMAIN str = 1..Len(str) /\ Len(str) \in Nat
  BY StartIs DEF IsString
<1>2. Is(a)
  BY <1>1 DEF White, isspace
<1>3. i \in 1..Len(str) /\ Is(i)
  BY <1>1, <1>2
<1>4. Stripped(str) = Rest(str, i)
  BY DEF Stripped
<1> HIDE DEF i, a
<1>5. ~(i < a) /\ ~(a < i)
  <2>1. i < a => i \in 1..(a - 1)
    BY <1>1, <1>3
  <2>2. a < i => a \in 1..(i - 1)
    BY <1>1, <1>3
  <2> QED BY <1>2, <1>3, <2>1, <2>2
<1>6. i = a
  BY <1>1, <1>3, <1>5
<1> QED BY <1>4, <1>6 DEF a

\* What both loops start from is what the standard says, of a string that is read alike.
LEMMA PrefixIs ==
  ASSUME NEW str, IsString(str), NEW base \in 0..36, ReadAlike(str, base)
  PROVE  /\ Prefix(str, base) = [sign |-> IF str[Start(str)] = 45 THEN -1 ELSE 1,
                                 base |-> Radix(str, base), rest |-> Digits(str, base)]
         /\ Radix(str, base) \in 1..36 /\ IsString(Digits(str, base))
<1> DEFINE a == Start(str)
           u == Unsigned(str)
           bare == Stripped(str)
           sign == IF bare[1] = 45 THEN -1 ELSE 1
           s == IF Signed(bare) THEN Tail(bare) ELSE bare
           hex == s[1] = 48 /\ s[2] \in {120, 88}
           p == CASE base # 0 -> [sign |-> sign, base |-> base, rest |-> s]
                  [] base = 0 /\ hex -> [sign |-> sign, base |-> 16, rest |-> Rest(s, 3)]
                  [] base = 0 /\ ~hex /\ s[1] = 48 -> [sign |-> sign, base |-> 8, rest |-> s]
                  [] OTHER -> [sign |-> sign, base |-> 10, rest |-> s]
<1>1. Prefix(str, base) = p
  BY DEF Prefix
<1>2. /\ a \in 1..Len(str) /\ Len(str) \in Nat /\ str[Len(str)] = NUL
      /\ u = (IF str[a] \in {43, 45} THEN a + 1 ELSE a)
  BY StartIs DEF IsString, Unsigned
<1>3. bare = Rest(str, a)
  BY StrippedIs DEF ReadAlike
<1> HIDE DEF a, u
<1>4. IsString(bare) /\ Len(bare) = Len(str) - a + 1 /\ bare[1] = str[a]
  <2>1. 1 \in 1..(Len(str) - a + 1) /\ a - 1 + 1 = a
    BY <1>2
  <2> QED BY <1>2, <1>3, <2>1, RestIs
<1>5. u \in 1..Len(str) /\ s = Rest(str, u)
  <2>1. CASE Signed(bare)
    <3>1. str[a] \in {43, 45} /\ bare[1] # NUL
      BY <1>4, <2>1 DEF Signed, NUL
    <3>2. u = a + 1 /\ a # Len(str)
      BY <1>2, <3>1 DEF NUL
    <3>3. s = Rest(bare, 2)
      BY <1>4, <2>1, <3>1, TailIs DEF Rest
    <3>4. 2 \in 1..(Len(str) - a + 1) /\ a + 2 - 1 = a + 1 /\ u \in 1..Len(str)
      BY <1>2, <3>2
    <3>5. Rest(bare, 2) = Rest(str, a + 2 - 1)
      BY <1>2, <1>3, <3>4, RestOfRest
    <3> QED BY <3>2, <3>3, <3>4, <3>5
  <2>2. CASE ~Signed(bare)
    BY <1>2, <1>3, <1>4, <2>2 DEF Signed
  <2> QED BY <2>1, <2>2
<1>6. sign = IF str[a] = 45 THEN -1 ELSE 1
  BY <1>4
<1> HIDE DEF s, sign
<1>7. IsString(s) /\ Len(s) = Len(str) - u + 1 /\ s[1] = str[u]
      /\ (u + 1 <= Len(str) => s[2] = str[u + 1])
  <2>1. /\ IsString(s) /\ Len(s) = Len(str) - u + 1
        /\ \A j \in 1..(Len(str) - u + 1) : s[j] = str[u - 1 + j]
    BY <1>5, RestIs
  <2>2. 1 \in 1..(Len(str) - u + 1) /\ u - 1 + 1 = u /\ u - 1 + 2 = u + 1
    BY <1>2, <1>5
  <2>3. u + 1 <= Len(str) => 2 \in 1..(Len(str) - u + 1)
    BY <1>2, <1>5
  <2>4. s[1] = str[u]
    BY <2>1, <2>2
  <2>5. u + 1 <= Len(str) => s[2] = str[u + 1]
    BY <2>1, <2>2, <2>3
  <2> QED BY <2>1, <2>4, <2>5
<1>8. hex <=> HexMark(str)
  <2>1. str[u] = 48 => u + 1 <= Len(str)
    BY <1>2, <1>5 DEF NUL
  <2>2. HexMark(str) <=> str[u] = 48 /\ str[u + 1] \in {120, 88}
    BY DEF HexMark, u
  <2> QED BY <1>7, <2>1, <2>2
<1>9. hex => u + 2 \in 1..Len(str) /\ Rest(s, 3) = Rest(str, u + 2)
  <2> SUFFICES ASSUME hex PROVE u + 2 \in 1..Len(str) /\ Rest(s, 3) = Rest(str, u + 2)
    OBVIOUS
  <2>1. str[u] = 48 /\ str[u + 1] \in {120, 88}
    BY <1>8 DEF HexMark, u
  <2>2. u # Len(str) /\ u + 1 # Len(str)
    BY <1>2, <2>1 DEF NUL
  <2>3. u + 2 \in 1..Len(str) /\ 3 \in 1..(Len(str) - u + 1) /\ u + 3 - 1 = u + 2
    BY <1>2, <1>5, <2>2
  <2>4. Rest(s, 3) = Rest(str, u + 3 - 1)
    BY <1>5, <2>3, RestOfRest
  <2> QED BY <2>3, <2>4
<1>10. /\ Radix(str, base) = CASE base # 0 -> base
                               [] base = 0 /\ hex -> 16
                               [] base = 0 /\ ~hex /\ str[u] = 48 -> 8
                               [] OTHER -> 10
       /\ Digits(str, base)
            = Rest(str, IF base \in {0, 16} /\ hex THEN u + 2 ELSE u)
       /\ base = 16 => ~hex
  BY <1>8 DEF Radix, Digits, ReadAlike, u
<1>11. IsString(Digits(str, base))
  <2>1. (IF base \in {0, 16} /\ hex THEN u + 2 ELSE u) \in 1..Len(str)
    BY <1>5, <1>9
  <2> QED BY <1>10, <2>1, RestIs
<1> HIDE DEF hex
<1>12. CASE base # 0
  <2>1. p = [sign |-> sign, base |-> base, rest |-> s]
    BY <1>12
  <2>2. Radix(str, base) = base /\ Digits(str, base) = s
    BY <1>5, <1>10, <1>12
  <2> QED BY <1>1, <1>6, <1>11, <1>12, <2>1, <2>2 DEF a
<1>13. CASE base = 0 /\ hex
  <2> DEFINE r == Rest(s, 3)
  <2>1. p = [sign |-> sign, base |-> 16, rest |-> r]
    BY <1>13
  <2>2. Radix(str, base) = 16 /\ Digits(str, base) = r
    BY <1>9, <1>10, <1>13
  <2> HIDE DEF r, p
  <2> QED BY <1>1, <1>6, <1>11, <2>1, <2>2 DEF a
<1>14. CASE base = 0 /\ ~hex /\ s[1] = 48
  <2>1. p = [sign |-> sign, base |-> 8, rest |-> s]
    BY <1>14
  <2>2. Radix(str, base) = 8 /\ Digits(str, base) = s
    BY <1>5, <1>7, <1>10, <1>14
  <2> QED BY <1>1, <1>6, <1>11, <2>1, <2>2 DEF a
<1>15. CASE base = 0 /\ ~hex /\ s[1] # 48
  <2>1. p = [sign |-> sign, base |-> 10, rest |-> s]
    BY <1>15
  <2>2. Radix(str, base) = 10 /\ Digits(str, base) = s
    BY <1>5, <1>7, <1>10, <1>15
  <2> QED BY <1>1, <1>6, <1>11, <2>1, <2>2 DEF a
<1> QED BY <1>12, <1>13, <1>14, <1>15

\* The loop gives the value of the digits, or clamps.
LEMMA LoopGives ==
  ASSUME NEW s, IsString(s), NEW base \in 1..36, NEW max \in Nat, NEW clamp
  PROVE  /\ Value(s, base) \in Nat
         /\ Accumulate(s, base, max, clamp)
              = IF Value(s, base) <= max THEN Exactly(Value(s, base)) ELSE Clamped(clamp)
<1> DEFINE n == Stop(s, base)
<1>1. PICK v : AreValues(v, s, base, n - 1) /\ Value(s, base) = v[n - 1]
  BY ValueIs
<1>2. IsStop(s, base, n)
  BY StopIs
<1> HIDE DEF n
<1>3. Accumulate(s, base, max, clamp)
        = IF v[n - 1] <= max THEN [value |-> v[n - 1], own_errno |-> "kept"]
          ELSE [value |-> clamp, own_errno |-> "ERANGE"]
  BY <1>1, <1>2, AccumulateIs
<1>4. v[n - 1] \in Nat
  <2>1. s \in Seq(Nat) /\ n - 1 \in 0..Len(s) /\ n - 1 \in 0..(n - 1)
    BY <1>2 DEF IsString, IsStop
  <2> QED BY <1>1, <2>1, ValuesAre
<1> QED BY <1>1, <1>3, <1>4 DEF Exactly, Clamped

\* A remainder is its number if that is in range.
LEMMA RemainderIs ==
  ASSUME NEW m \in Nat, m > 0, NEW x \in Int
  PROVE  /\ x % m \in 0..(m - 1)
         /\ x \in 0..(m - 1) => x % m = x
         /\ x \in -(m - 1)..-1 => x % m = x + m
<1> DEFINE q == x \div m
<1>1. q \in Int /\ x % m \in 0..(m - 1) /\ x = m * q + (x % m)
  OBVIOUS
<1> HIDE DEF q
<1>2. q <= -2 => m * q <= -(m + m)
  BY <1>1
<1>3. q >= 1 => m * q >= m
  BY <1>1
<1>4. m * q \in Int /\ (q = 0 => m * q = 0) /\ (q = -1 => m * q = -m)
  BY <1>1
<1>5. ASSUME x \in 0..(m - 1) PROVE x % m = x
  <2>1. q # -1 /\ ~(q <= -2) /\ ~(q >= 1)
    BY <1>1, <1>2, <1>3, <1>4, <1>5
  <2> QED BY <1>1, <1>4, <2>1
<1>6. ASSUME x \in -(m - 1)..-1 PROVE x % m = x + m
  <2>1. q # 0 /\ ~(q <= -2) /\ ~(q >= 1)
    BY <1>1, <1>2, <1>3, <1>4, <1>6
  <2> QED BY <1>1, <1>4, <2>1
<1> QED BY <1>1, <1>5, <1>6

LEMMA LimitsAre ==
  /\ LONG_MAX \in Nat /\ LLONG_MAX \in Nat /\ ULONG_MAX \in Nat /\ ULLONG_MAX \in Nat
  /\ LONG_MIN = -LONG_MAX - 1 /\ LLONG_MIN = -LLONG_MAX - 1 /\ ULONG_MAX = LONG_MAX + LONG_MAX + 1
  /\ ULLONG_MAX = LLONG_MAX + LLONG_MAX + 1 /\ ULONG_MAX <= LLONG_MAX
  BY LibraryAssumption DEF ULONG_MAX, ULLONG_MAX, LONG_MIN, LLONG_MIN

\* The number, and the sign and digits the loops start from.
LEMMA NumberIs ==
  ASSUME NEW str, IsString(str), NEW base \in 0..36, ReadAlike(str, base)
  PROVE  LET p == Prefix(str, base)
             V == Magnitude(str, base)
         IN  /\ p.sign \in {-1, 1} /\ p.base \in 1..36 /\ IsString(p.rest)
             /\ V = Value(p.rest, p.base) /\ V \in Nat
             /\ Number(str, base) = p.sign * V
<1>1. /\ Prefix(str, base) = [sign |-> IF str[Start(str)] = 45 THEN -1 ELSE 1,
                              base |-> Radix(str, base), rest |-> Digits(str, base)]
      /\ Radix(str, base) \in 1..36 /\ IsString(Digits(str, base))
  BY PrefixIs
<1>2. Magnitude(str, base) = Value(Digits(str, base), Radix(str, base))
      /\ Magnitude(str, base) \in Nat
  <2>1. 0 \in Nat
    OBVIOUS
  <2> QED BY <1>1, <2>1, LoopGives DEF Magnitude
<1>3. Number(str, base)
        = (IF str[Start(str)] = 45 THEN -1 ELSE 1) * Magnitude(str, base)
  BY <1>2 DEF Number
<1> QED BY <1>1, <1>2, <1>3

\* strtol and strtoll give the nearest number.
LEMMA SignedAre ==
  ASSUME NEW str, IsString(str), NEW base \in 0..36, ReadAlike(str, base)
  PROVE  LET number == Number(str, base)
         IN  /\ strtol(str, base) = Nearest(number, LONG_MIN, LONG_MAX)
             /\ strtoll(str, base) = Nearest(number, -LLONG_MAX, LLONG_MAX)
             /\ number \in Int
<1> DEFINE sign == Prefix(str, base).sign
           V == Magnitude(str, base)
           number == sign * V
           r == strtoll(str, base)
<1>1. /\ sign \in {-1, 1} /\ V \in Nat /\ Number(str, base) = number
      /\ Prefix(str, base).base \in 1..36 /\ IsString(Prefix(str, base).rest)
      /\ V = Value(Prefix(str, base).rest, Prefix(str, base).base)
  BY NumberIs
<1>2. r = IF V <= LLONG_MAX THEN [value |-> V * sign, own_errno |-> "kept"]
          ELSE [value |-> LLONG_MAX * sign, own_errno |-> "ERANGE"]
  <2> DEFINE a == Accumulate(Prefix(str, base).rest, Prefix(str, base).base, LLONG_MAX, LLONG_MAX)
  <2>1. a = IF V <= LLONG_MAX THEN Exactly(V) ELSE Clamped(LLONG_MAX)
    BY <1>1, LoopGives, LimitsAre
  <2>2. r = [a EXCEPT !.value = @ * sign]
    BY DEF strtoll
  <2> HIDE DEF a, V, sign, r
  <2> QED BY <2>1, <2>2 DEF Exactly, Clamped
<1>3. strtol(str, base) = CASE r.value > LONG_MAX -> Clamped(LONG_MAX)
                            [] r.value < LONG_MIN -> Clamped(LONG_MIN)
                            [] OTHER -> r
  BY DEF strtol, Clamped
<1> DEFINE Near(min, max) == IF number > max THEN Clamped(max)
                             ELSE IF number < min THEN Clamped(min) ELSE Exactly(number)
<1>4. \A min, max : Nearest(Number(str, base), min, max) = Near(min, max)
  BY <1>1 DEF Nearest
<1> SUFFICES /\ strtol(str, base) = Near(LONG_MIN, LONG_MAX) /\ r = Near(-LLONG_MAX, LLONG_MAX)
             /\ number \in Int
  BY <1>1, <1>4
<1> HIDE DEF V, sign, r
<1>5. /\ number \in Int /\ V * sign = number
      /\ LLONG_MAX * sign = IF sign = 1 THEN LLONG_MAX ELSE -LLONG_MAX
      /\ number = IF sign = 1 THEN V ELSE -V
  BY <1>1, LimitsAre
<1> HIDE DEF number
<1>6. r = Near(-LLONG_MAX, LLONG_MAX)
  <2>1. CASE V <= LLONG_MAX
    <3>1. r = Exactly(number)
      BY <1>2, <1>5, <2>1 DEF Exactly
    <3>2. ~(number > LLONG_MAX) /\ ~(number < -LLONG_MAX)
      BY <1>1, <1>5, <2>1, LimitsAre
    <3> QED BY <3>1, <3>2
  <2>2. CASE ~(V <= LLONG_MAX) /\ sign = 1
    <3>1. r = Clamped(LLONG_MAX) /\ number > LLONG_MAX
      BY <1>1, <1>2, <1>5, <2>2, LimitsAre DEF Clamped
    <3> QED BY <3>1
  <2>3. CASE ~(V <= LLONG_MAX) /\ sign = -1
    <3>1. r = Clamped(-LLONG_MAX) /\ number < -LLONG_MAX /\ ~(number > LLONG_MAX)
      BY <1>1, <1>2, <1>5, <2>3, LimitsAre DEF Clamped
    <3> QED BY <3>1
  <2> QED BY <1>1, <2>1, <2>2, <2>3
<1>7. strtol(str, base) = Near(LONG_MIN, LONG_MAX)
  <2>1. CASE number > LLONG_MAX
    <3>1. r.value = LLONG_MAX /\ r = Clamped(LLONG_MAX)
      BY <1>6, <2>1 DEF Clamped
    <3>2. number > LONG_MAX
      BY <1>5, <2>1, LimitsAre
    <3>3. LLONG_MAX > LONG_MAX /\ ~(LLONG_MAX < LONG_MIN)
      BY LimitsAre
    <3> QED BY <1>3, <3>1, <3>2, <3>3
  <2>2. CASE number < -LLONG_MAX
    <3>1. r.value = -LLONG_MAX /\ r = Clamped(-LLONG_MAX)
      BY <1>5, <1>6, <2>2, LimitsAre DEF Clamped
    <3>2. ~(number > LONG_MAX) /\ number < LONG_MIN /\ ~(-LLONG_MAX > LONG_MAX)
          /\ -LLONG_MAX <= LONG_MIN
      BY <1>5, <2>2, LimitsAre
    <3>3. CASE -LLONG_MAX < LONG_MIN
      BY <1>3, <3>1, <3>2, <3>3
    <3>4. CASE -LLONG_MAX = LONG_MIN
      BY <1>3, <3>1, <3>2, <3>4
    <3>5. -LLONG_MAX < LONG_MIN \/ -LLONG_MAX = LONG_MIN
      BY <3>2, LimitsAre
    <3> QED BY <3>3, <3>4, <3>5
  <2>3. CASE ~(number > LLONG_MAX) /\ ~(number < -LLONG_MAX)
    <3>1. r = Exactly(number) /\ r.value = number
      BY <1>6, <2>3 DEF Exactly
    <3> QED BY <1>3, <1>5, <3>1, LimitsAre
  <2> QED BY <2>1, <2>2, <2>3
<1> QED BY <1>5, <1>6, <1>7

\* What strtoull and strtoul give.
LEMMA UnsignedAre ==
  ASSUME NEW str, IsString(str), NEW base \in 0..36, ReadAlike(str, base)
  PROVE  LET magnitude == Magnitude(str, base)
             number == Number(str, base)
         IN  /\ IF magnitude <= ULLONG_MAX
                THEN strtoull(str, base) = Exactly(number % (ULLONG_MAX + 1))
                ELSE /\ strtoull(str, base).own_errno = "ERANGE"
                     /\ strtoul(str, base).own_errno = "ERANGE"
             /\ number \in -ULONG_MAX..ULONG_MAX =>
                  strtoul(str, base) = Exactly(number % (ULONG_MAX + 1))
             /\ number \in (ULONG_MAX + 1)..LLONG_MAX => strtoul(str, base) = Clamped(ULONG_MAX)
<1> DEFINE sign == Prefix(str, base).sign
           V == Magnitude(str, base)
           number == sign * V
           M == ULLONG_MAX + 1
           r == strtoull(str, base)
           result == IF r.value > LLONG_MAX THEN r.value - ULLONG_MAX - 1 ELSE r.value
           l == strtoul(str, base)
<1>1. /\ sign \in {-1, 1} /\ V \in Nat /\ Number(str, base) = number
      /\ Prefix(str, base).base \in 1..36 /\ IsString(Prefix(str, base).rest)
      /\ V = Value(Prefix(str, base).rest, Prefix(str, base).base)
  BY NumberIs
<1>2. r = IF V <= ULLONG_MAX THEN [value |-> (V * sign) % M, own_errno |-> "kept"]
          ELSE [value |-> (LLONG_MAX * sign) % M, own_errno |-> "ERANGE"]
  <2> DEFINE a == Accumulate(Prefix(str, base).rest, Prefix(str, base).base, ULLONG_MAX, LLONG_MAX)
  <2>1. a = IF V <= ULLONG_MAX THEN Exactly(V) ELSE Clamped(LLONG_MAX)
    BY <1>1, LoopGives, LimitsAre
  <2>2. r = [a EXCEPT !.value = (@ * sign) % M]
    BY DEF strtoull
  <2> HIDE DEF a, V, sign, r, M
  <2> QED BY <2>1, <2>2 DEF Exactly, Clamped
<1>3. l = IF result > ULONG_MAX THEN Clamped(ULONG_MAX)
          ELSE [r EXCEPT !.value = result % (ULONG_MAX + 1)]
  BY DEF strtoul, Clamped
<1>4. Number(str, base) = number
  BY <1>1
<1> HIDE DEF V, sign, r, l
<1>5. number \in Int /\ V * sign = number /\ number = IF sign = 1 THEN V ELSE -V
  BY <1>1
<1> HIDE DEF number
<1>6. V <= ULLONG_MAX => r = Exactly(number % M)
  BY <1>2, <1>5 DEF Exactly
<1>7. ~(V <= ULLONG_MAX) => r.own_errno = "ERANGE" /\ l.own_errno = "ERANGE"
  <2> SUFFICES ASSUME ~(V <= ULLONG_MAX) PROVE r.own_errno = "ERANGE" /\ l.own_errno = "ERANGE"
    OBVIOUS
  <2>1. r = [value |-> (LLONG_MAX * sign) % M, own_errno |-> "ERANGE"]
    BY <1>2
  <2>2. r.own_errno = "ERANGE"
    BY <2>1
  <2> HIDE DEF result
  <2>3. [r EXCEPT !.value = result % (ULONG_MAX + 1)].own_errno = "ERANGE"
    BY <2>1
  <2>4. Clamped(ULONG_MAX).own_errno = "ERANGE"
    BY DEF Clamped
  <2> QED BY <1>3, <2>2, <2>3, <2>4
\* A number that a long long holds comes back from the wrapped product.
<1>8. ASSUME number \in -ULONG_MAX..LLONG_MAX
      PROVE  r = [value |-> r.value, own_errno |-> "kept"] /\ result = number
  <2>1. V <= ULLONG_MAX
    BY <1>1, <1>5, <1>8, LimitsAre
  <2>2. r = [value |-> number % M, own_errno |-> "kept"] /\ r.value = number % M
    BY <1>6, <2>1 DEF Exactly
  <2>3. M \in Nat /\ M > 0 /\ M = LLONG_MAX + LLONG_MAX + 2
    BY LimitsAre
  <2>4. CASE number >= 0
    <3>1. number \in 0..(M - 1) /\ number <= LLONG_MAX
      BY <1>5, <1>8, <2>3, <2>4, LimitsAre
    <3>2. number % M = number
      BY <1>5, <2>3, <3>1, RemainderIs
    <3>3. result = number
      BY <1>5, <2>2, <3>1, <3>2, LimitsAre
    <3> QED BY <2>2, <3>3
  <2>5. CASE number < 0
    <3>1. number \in -(M - 1)..-1 /\ number + M > LLONG_MAX
      BY <1>5, <1>8, <2>3, <2>5, LimitsAre
    <3> HIDE DEF M
    <3>2. number % M = number + M
      BY <1>5, <2>3, <3>1, RemainderIs
    <3>3. r.value > LLONG_MAX /\ r.value - ULLONG_MAX - 1 = number
      BY <1>5, <2>2, <2>3, <3>1, <3>2, LimitsAre DEF M
    <3> QED BY <2>2, <3>3
  <2> QED BY <1>5, <2>4, <2>5
<1>9. number \in -ULONG_MAX..ULONG_MAX => l = Exactly(number % (ULONG_MAX + 1))
  <2> SUFFICES ASSUME number \in -ULONG_MAX..ULONG_MAX PROVE l = Exactly(number % (ULONG_MAX + 1))
    OBVIOUS
  <2>1. r = [value |-> r.value, own_errno |-> "kept"] /\ result = number
    BY <1>8, LimitsAre
  <2>2. ~(number > ULONG_MAX)
    BY LimitsAre
  <2> HIDE DEF result
  <2>3. l = [r EXCEPT !.value = number % (ULONG_MAX + 1)]
    BY <1>3, <2>1, <2>2
  <2> QED BY <2>1, <2>3 DEF Exactly
<1>10. number \in (ULONG_MAX + 1)..LLONG_MAX => l = Clamped(ULONG_MAX)
  <2> SUFFICES ASSUME number \in (ULONG_MAX + 1)..LLONG_MAX PROVE l = Clamped(ULONG_MAX)
    OBVIOUS
  <2>1. result = number /\ number > ULONG_MAX
    BY <1>8, LimitsAre
  <2> HIDE DEF result
  <2> QED BY <1>3, <2>1
<1> QED BY <1>4, <1>6, <1>7, <1>9, <1>10 DEF V, r, l

\* The arguments of a conversion, and what it gave.
ConversionInv ==
  /\ Runs("strto") => call.str \in Numerals /\ call.base \in Bases
  /\ ConversionsAreRight

LEMMA ConversionInit == LibraryInit => ConversionInv
<1> SUFFICES ASSUME LibraryInit, Runs("strto") PROVE ConversionInv
  BY DEF ConversionInv, ConversionsAreRight, SignedConversions, UnsignedConversions, Converted
<1>1. call \in [function : {"strto"}, str : Numerals, base : Bases] /\ local = [returned |-> FALSE]
  BY DEF LibraryInit, Runs
<1>2. ~local.returned
  BY <1>1
<1> QED BY <1>1, <1>2
        DEF ConversionInv, ConversionsAreRight, SignedConversions, UnsignedConversions, Converted

LEMMA ConversionStep == ConversionInv /\ [LibraryNext]_library_vars => ConversionInv'
<1> SUFFICES ASSUME ConversionInv, [LibraryNext]_library_vars PROVE ConversionInv'
  OBVIOUS
<1>1. CASE Conversion
  <2>1. /\ Runs("strto") /\ call' = call
        /\ local'.strtol = strtol(call.str, call.base)
        /\ local'.strtoll = strtoll(call.str, call.base)
        /\ local'.strtoul = strtoul(call.str, call.base)
        /\ local'.strtoull = strtoull(call.str, call.base)
    BY <1>1 DEF Conversion
  <2>2. call.str \in Numerals /\ call.base \in Bases
    BY <2>1 DEF ConversionInv
  <2>3. IsString(call.str) /\ call.base \in 0..36
    BY <2>2, LibraryAssumption
  <2>4. SignedConversions'
    <3> DEFINE number == Number(call.str, call.base)
    <3> SUFFICES ASSUME ReadAlike(call.str, call.base)
                 PROVE  /\ strtol(call.str, call.base) = Nearest(number, LONG_MIN, LONG_MAX)
                        /\ number > LLONG_MIN =>
                             strtoll(call.str, call.base) = Nearest(number, LLONG_MIN, LLONG_MAX)
                        /\ number < LLONG_MIN => strtoll(call.str, call.base).own_errno = "ERANGE"
      BY <2>1 DEF SignedConversions, Converted
    <3>1. /\ strtol(call.str, call.base) = Nearest(number, LONG_MIN, LONG_MAX)
          /\ strtoll(call.str, call.base) = Nearest(number, -LLONG_MAX, LLONG_MAX)
          /\ number \in Int
      BY <2>3, SignedAre
    <3> HIDE DEF number
    <3>2. number > LLONG_MIN =>
            Nearest(number, -LLONG_MAX, LLONG_MAX) = Nearest(number, LLONG_MIN, LLONG_MAX)
      BY <3>1, LimitsAre DEF Nearest
    <3>3. number < LLONG_MIN =>
            Nearest(number, -LLONG_MAX, LLONG_MAX) = Clamped(-LLONG_MAX)
      BY <3>1, LimitsAre DEF Nearest
    <3> QED BY <3>1, <3>2, <3>3 DEF Clamped
  <2>5. UnsignedConversions'
    BY <2>1, <2>3, UnsignedAre DEF UnsignedConversions, Converted
  <2> QED BY <2>1, <2>2, <2>4, <2>5 DEF ConversionInv, ConversionsAreRight, Runs
<1>2. CASE (Turn \/ NotFound \/ \E user \in Users : FirstToken(user)) \/ NextToken
  <2>1. call' = call /\ ~Runs("strto")
    BY <1>2 DEF Turn, NotFound, FirstToken, NextToken, Searching, Runs
  <2>2. ~Runs("strto")'
    BY <2>1 DEF Runs
  <2> QED BY <2>2
          DEF ConversionInv, ConversionsAreRight, SignedConversions, UnsignedConversions, Converted
<1>3. CASE UNCHANGED library_vars
  BY <1>3 DEF library_vars, ConversionInv, ConversionsAreRight, SignedConversions,
              UnsignedConversions, Converted, Runs
<1> QED BY <1>1, <1>2, <1>3 DEF LibraryNext

\* Strings that the code and the C standard read alike are converted to the standard's
\* values within the limits named in SignedConversions and UnsignedConversions, for every
\* width of the types (conv_functions.c).
THEOREM ConversionsConvert == LibrarySpec => []ConversionsAreRight
<1>1. LibraryInit => ConversionInv
  BY ConversionInit
<1>2. ConversionInv /\ [LibraryNext]_library_vars => ConversionInv'
  BY ConversionStep
<1>3. ConversionInv => ConversionsAreRight
  BY DEF ConversionInv
<1> QED BY <1>1, <1>2, <1>3, PTL DEF LibrarySpec
=============================================================================
