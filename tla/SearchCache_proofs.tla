------------------------- MODULE SearchCache_proofs -------------------------
(***************************************************************************)
(* The search cache does what the searches ask of it, for every number of  *)
(* vectors, width of the mark type, capacity and distances: the visited    *)
(* set is exact, it hides nothing from the queue, and the sorted array     *)
(* with its binary search and its cursor implements the pool of            *)
(* candidates.                                                             *)
(***************************************************************************)
EXTENDS SearchCache, Order_proofs, SequenceTheorems

\* The pool that the array holds.
P == INSTANCE CandidatePool
         WITH kept <- Queue!Ids, expanded <- Queue!Expanded, handed <- returned

-----------------------------------------------------------------------------
\* The visited set.

(***************************************************************************)
(* The operations of the visited set keep its invariant: the marks, the    *)
(* counter and its wrap-around in visited_set.h (lines 14-40).             *)
(***************************************************************************)
LEMMA MarksNext == IInv /\ [Next]_vars => IInv'
<1> SUFFICES ASSUME IInv, [Next]_vars PROVE IInv'
  OBVIOUS
<1> USE MarkRangeAssumption
    DEF IInv, TypeOK, CheckIsExact, MarksBelowCounter, Mark, check
<1>1. CASE reinit
  BY <1>1 DEF reinit
<1>2. CASE clear
  <2>1. CASE NextValue = 0
    BY <1>2, <2>1 DEF clear
  <2>2. CASE NextValue # 0
    <3>1. phase = "ready" /\ curValue + 1 < MarkRange
      BY <2>2 DEF NextValue
    <3>2. curValue' = curValue + 1 /\ marks' = marks /\ visited' = {}
      BY <1>2, <2>2, <3>1 DEF clear, NextValue
    <3>3. \A e \in Elem : marks[e] \in Nat /\ marks[e] <= curValue
      BY <3>1
    <3>4. QED
      BY <1>2, <3>1, <3>2, <3>3 DEF clear
  <2>3. QED
    BY <2>1, <2>2
<1>3. ASSUME NEW e \in Elem, set(e) PROVE IInv'
  BY <1>3 DEF set
<1>4. CASE UNCHANGED vars
  BY <1>4 DEF vars
<1>5. QED
  BY <1>1, <1>2, <1>3, <1>4 DEF Next

\* The constructor leaves the counter where the first clear() wraps it.
LEMMA MarksInit == Init => IInv
BY MarkRangeAssumption
DEF Init, IInv, TypeOK, CheckIsExact, MarksBelowCounter, Mark

(***************************************************************************)
(* A visited set on its own keeps the invariant, too.                      *)
(***************************************************************************)
THEOREM MarksInvariance == Spec => []IInv
BY MarksInit, MarksNext, PTL DEF Spec

-----------------------------------------------------------------------------
\* The order of the candidates.

\* CandidatePool has its own copies of the operators on finite sets.
LEMMA SameSets ==
    /\ \A S : P!Cardinality(S) = Cardinality(S)
    /\ \A S : P!IsFiniteSet(S) <=> IsFiniteSet(S)
<1>1. ASSUME NEW S PROVE P!Cardinality(S) = Cardinality(S)
  BY DEF P!Cardinality, Cardinality
<1>2. ASSUME NEW S PROVE P!IsFiniteSet(S) <=> IsFiniteSet(S)
  BY DEF P!IsFiniteSet, IsFiniteSet
<1>3. QED
  BY <1>1, <1>2

Order == {p \in Id \X Id : P!Closer(p[1], p[2])}

(***************************************************************************)
(* Candidate::operator< is a strict total order of the candidates.         *)
(***************************************************************************)
LEMMA TotalOrder ==
    ASSUME dist \in [Id -> Distance]
    PROVE  /\ \A i \in Id : ~P!Closer(i, i)
           /\ \A i, j \in Id : <<i, j>> \in Order <=> P!Closer(i, j)
           /\ TotalOn(Order, Id)
<1>1. \A i \in Id : i \in Nat /\ dist[i] \in Nat
  BY IdAssumption
<1>2. /\ \A i \in Id : ~P!Closer(i, i)
      /\ \A i, j, k \in Id : P!Closer(i, j) /\ P!Closer(j, k) => P!Closer(i, k)
      /\ \A i, j \in Id : i # j => P!Closer(i, j) \/ P!Closer(j, i)
  BY <1>1, SMT DEF P!Closer
<1>3. \A i, j \in Id : <<i, j>> \in Order <=> P!Closer(i, j)
  BY DEF Order
<1>4. QED
  BY <1>2, <1>3 DEF TotalOn

\* The pool keeps the nearest in that order.
LEMMA ClosestIsNearest ==
    ASSUME dist \in [Id -> Distance], NEW S, S \subseteq Id
    PROVE  P!Closest(S) = Nearest(Order, S, Capacity)
<1>1. ASSUME NEW i \in S PROVE {j \in S : P!Closer(j, i)} = Nearer(Order, S, i)
  BY TotalOrder DEF Nearer
<1>2. \A i \in S : P!Cardinality({j \in S : P!Closer(j, i)}) = Cardinality(Nearer(Order, S, i))
  BY <1>1, SameSets
<1>3. QED
  BY <1>2 DEF P!Closest, Nearest

\* Of candidates in ascending order the first Capacity are the closest.
LEMMA ClosestOfSorted ==
    ASSUME dist \in [Id -> Distance], NEW n \in Nat, NEW m \in [1 .. n -> Id],
           \A j, k \in 1 .. n : j < k => P!Closer(m[j], m[k])
    PROVE  P!Closest({m[k] : k \in 1 .. n}) = {m[k] : k \in {j \in 1 .. n : j <= Capacity}}
<1> DEFINE S == {m[k] : k \in 1 .. n}
<1>1. S \subseteq Id
  OBVIOUS
<1>2. TotalOn(Order, Id) /\ Capacity \in Nat
  BY TotalOrder, CapacityAssumption
<1>3. \A j, k \in 1 .. n : j < k => <<m[j], m[k]>> \in Order
  BY TotalOrder
<1>4. Nearest(Order, S, Capacity) = {m[k] : k \in {j \in 1 .. n : j <= Capacity}}
  BY <1>2, <1>3, NearestOfSorted
<1>5. P!Closest(S) = Nearest(Order, S, Capacity)
  BY <1>1, ClosestIsNearest
<1>6. QED
  BY <1>4, <1>5

-----------------------------------------------------------------------------
\* The pool.

\* The empty pool holds the closest of nothing.
LEMMA PoolInit == P!Init => P!IInv
<1> SUFFICES ASSUME P!Init PROVE P!IInv
  OBVIOUS
<1>1. P!Closest({}) = {}
  BY DEF P!Closest
<1>2. P!IsFiniteSet({}) /\ P!Cardinality({}) = 0
  BY FS_EmptySet, SameSets
<1>3. QED
  BY <1>1, <1>2, CapacityAssumption DEF P!Init, P!IInv, P!TypeOK, P!HoldsClosest, P!HandedOnce

(***************************************************************************)
(* Inserting keeps the invariant: the new candidate only displaces what    *)
(* the capacity has no room for, and one that was handed out and dropped   *)
(* does not come back.                                                     *)
(***************************************************************************)
LEMMA PoolInsert ==
    ASSUME P!IInv, NEW i \in Id, P!Insert(i)
    PROVE  P!IInv'
<1> USE DEF P!IInv
<1>1. dist' = dist /\ dist \in [Id -> Distance] /\ offered \subseteq Id /\ IsFiniteSet(offered)
  BY SameSets DEF P!Insert, P!TypeOK
<1>2. offered' \subseteq Id /\ IsFiniteSet(offered') /\ offered' = offered \cup {i}
  BY <1>1, FS_AddElement DEF P!Insert
<1>3. Queue!Ids' = P!Closest(offered')
  <2> DEFINE C == P!Closest(offered)
  <2>1. C = Nearest(Order, offered, Capacity) /\ C \subseteq Id
    BY <1>1, ClosestIsNearest DEF P!Closest
  <2>2. Queue!Ids' = P!Closest(C \cup {i})
    BY DEF P!Insert, P!HoldsClosest
  <2> HIDE DEF C
  <2>3. P!Closest(C \cup {i}) = Nearest(Order, C \cup {i}, Capacity)
    <3>1. C \cup {i} \subseteq Id
      BY <2>1
    <3>2. QED
      BY <1>1, <3>1, ClosestIsNearest
  <2>4. TotalOn(Order, Id) /\ IsFiniteSet({i}) /\ {i} \subseteq Id /\ Capacity \in Nat
    BY <1>1, TotalOrder, FS_Singleton, CapacityAssumption
  <2>5. Nearest(Order, Nearest(Order, offered, Capacity) \cup {i}, Capacity)
          = Nearest(Order, offered \cup {i}, Capacity)
    BY <1>1, <2>4, NearestAgain
  <2>6. P!Closest(offered') = Nearest(Order, offered', Capacity)
    BY <1>1, <1>2, ClosestIsNearest
  <2>7. QED
    BY <1>2, <2>1, <2>2, <2>3, <2>5, <2>6
<1>4. P!Cardinality(Queue!Ids') <= Capacity
  <2>1. TotalOn(Order, Id) /\ Capacity \in Nat
    BY <1>1, TotalOrder, CapacityAssumption
  <2>2. Cardinality(Nearest(Order, offered', Capacity)) <= Capacity
    BY <1>2, <2>1, NearestBounded
  <2>3. Queue!Ids' = Nearest(Order, offered', Capacity)
    BY <1>1, <1>2, <1>3, ClosestIsNearest
  <2>4. QED
    BY <2>2, <2>3, SameSets
<1>5. Queue!Ids' \subseteq offered'
  BY <1>3 DEF P!Closest
<1>6. P!HoldsClosest'
  BY <1>1, <1>3 DEF P!HoldsClosest, P!Closest, P!Closer
<1>7. P!TypeOK'
  BY <1>1, <1>2, <1>4, <1>5, SameSets DEF P!Insert, P!TypeOK
<1>8. P!HandedOnce'
  <2>1. Queue!Expanded' = Queue!Expanded \cap Queue!Ids' /\ returned' = returned
    BY DEF P!Insert
  <2>2. Queue!Ids' \subseteq Queue!Ids \cup {i}
    BY DEF P!Insert, P!Closest
  <2>3. ASSUME NEW c \in returned \cap Queue!Ids' PROVE c \in Queue!Ids
    <3>1. CASE i \in returned
      <4>1. offered' = offered
        BY <1>2, <3>1 DEF P!TypeOK
      <4>2. Queue!Ids' = Queue!Ids
        BY <1>3, <4>1 DEF P!HoldsClosest
      <4>3. QED
        BY <2>3, <4>2
    <3>2. CASE i \notin returned
      BY <2>2, <2>3, <3>2
    <3>3. QED
      BY <3>1, <3>2
  <2>4. QED
    BY <2>1, <2>3 DEF P!HandedOnce
<1>9. QED
  BY <1>6, <1>7, <1>8

\* Handing out the closest candidate that is not marked keeps it, too.
LEMMA PoolExpand ==
    ASSUME P!IInv, NEW i \in Id, P!Expand(i)
    PROVE  P!IInv'
<1> USE DEF P!IInv
<1>1. P!TypeOK'
  BY DEF P!Expand, P!TypeOK
<1>2. P!HoldsClosest'
  BY DEF P!Expand, P!HoldsClosest, P!Closest, P!Closer
<1>3. P!HandedOnce'
  BY DEF P!Expand, P!HandedOnce
<1>4. QED
  BY <1>1, <1>2, <1>3

\* ... and so does a new search.
LEMMA PoolClear ==
    ASSUME P!IInv, P!Clear
    PROVE  P!IInv'
<1>1. P!IsFiniteSet({}) /\ P!Cardinality({}) = 0
  BY FS_EmptySet, SameSets
<1>2. P!TypeOK'
  BY <1>1, CapacityAssumption DEF P!Clear, P!TypeOK
<1>3. P!HoldsClosest' /\ P!HandedOnce'
  BY DEF P!Clear, P!HoldsClosest, P!HandedOnce, P!Closest
<1>4. QED
  BY <1>2, <1>3 DEF P!IInv

\* The invariant of the pool is inductive.
LEMMA PoolNext == P!IInv /\ [P!Next]_P!vars => P!IInv'
<1> SUFFICES ASSUME P!IInv, [P!Next]_P!vars PROVE P!IInv'
  OBVIOUS
<1>1. ASSUME NEW i \in Id, P!Insert(i) PROVE P!IInv'
  BY <1>1, PoolInsert
<1>2. ASSUME NEW i \in Id, P!Expand(i) PROVE P!IInv'
  BY <1>2, PoolExpand
<1>3. CASE P!Clear
  BY <1>3, PoolClear
<1>4. CASE UNCHANGED P!vars
  BY <1>4 DEF P!IInv, P!TypeOK, P!HoldsClosest, P!HandedOnce, P!Closest, P!Closer, P!vars
<1>5. QED
  BY <1>1, <1>2, <1>3, <1>4 DEF P!Next

(***************************************************************************)
(* The pool on its own: whatever is offered in whatever order, it holds    *)
(* the Capacity closest of all that was offered, and a candidate is marked *)
(* exactly when it was handed out since the last clear, so that none is    *)
(* handed out twice.                                                       *)
(***************************************************************************)
THEOREM PoolInvariance == P!Spec => [](P!HoldsClosest /\ P!HandedOnce)
<1>1. P!IInv => P!HoldsClosest /\ P!HandedOnce
  BY DEF P!IInv
<1>2. QED
  BY PoolInit, PoolNext, <1>1, PTL DEF P!Spec

-----------------------------------------------------------------------------
\* The binary search.

\* One step of the binary search, given what it finds in a shorter range.
SearchStep(find, new, r) ==
    LET lo == r[1]
        hi == r[2]
        mid == (lo + hi) \div 2
    IN  IF lo >= hi THEN lo
        ELSE IF Queue!Less(new, Queue!At(mid)) THEN find[<<lo, mid>>]
        ELSE IF Queue!At(mid).id = new.id THEN -1
        ELSE find[<<mid + 1, hi>>]

Places == 0 .. Queue!size
Ranges == Places \X Places

\* The range halves: the middle is inside, and both parts are shorter.
LEMMA Halves ==
    ASSUME NEW n \in Nat, NEW lo \in 0 .. n, NEW hi \in 0 .. n, lo < hi
    PROVE  LET mid == (lo + hi) \div 2
           IN  /\ mid \in lo .. hi - 1
               /\ mid \in 0 .. n /\ mid + 1 \in 0 .. n
               /\ mid - lo < hi - lo /\ hi - (mid + 1) < hi - lo
BY SMT

(***************************************************************************)
(* The binary search ends for every range: there is a function that        *)
(* answers every range by the step above.                                  *)
(***************************************************************************)
LEMMA SearchIsDefined ==
    ASSUME NEW new, Queue!size \in Nat
    PROVE  \E f : f = [r \in Ranges |-> SearchStep(f, new, r)]
<1> DEFINE Solves(f, k) == \A r \in Ranges : r[2] - r[1] <= k => f[r] = SearchStep(f, new, r)
           K == {k \in Nat : \E f : Solves(f, k)}
<1>1. ASSUME NEW f, NEW g, NEW k \in Int, NEW r \in Ranges, r[2] - r[1] <= k + 1,
             \A s \in Ranges : s[2] - s[1] <= k => f[s] = g[s]
      PROVE  SearchStep(f, new, r) = SearchStep(g, new, r)
  <2>1. PICK lo \in Places, hi \in Places : r = <<lo, hi>>
    BY DEF Ranges
  <2>2. CASE lo >= hi
    BY <2>1, <2>2 DEF SearchStep
  <2>3. CASE lo < hi
    <3> DEFINE mid == (lo + hi) \div 2
    <3>1. /\ mid \in Places /\ mid + 1 \in Places
          /\ mid - lo <= k /\ hi - (mid + 1) <= k
      BY <1>1, <2>1, <2>3, Halves DEF Places
    <3>2. <<lo, mid>> \in Ranges /\ <<mid + 1, hi>> \in Ranges
      BY <3>1 DEF Ranges
    <3>3. f[<<lo, mid>>] = g[<<lo, mid>>] /\ f[<<mid + 1, hi>>] = g[<<mid + 1, hi>>]
      BY <1>1, <3>1, <3>2
    <3>4. QED
      BY <2>1, <3>3 DEF SearchStep
  <2>4. lo \in Nat /\ hi \in Nat
    BY DEF Places
  <2>5. QED
    BY <2>2, <2>3, <2>4
<1>2. 0 \in K
  <2> DEFINE f == [r \in Ranges |-> r[1]]
  <2>1. ASSUME NEW r \in Ranges, r[2] - r[1] <= 0 PROVE f[r] = SearchStep(f, new, r)
    <3>1. r[1] \in Nat /\ r[2] \in Nat /\ r[1] >= r[2]
      BY <2>1 DEF Ranges, Places
    <3>2. QED
      BY <3>1 DEF SearchStep
  <2>2. Solves(f, 0)
    BY <2>1
  <2>3. QED
    BY <2>2
<1>3. ASSUME NEW k \in Nat, k \in K PROVE k + 1 \in K
  <2>1. PICK f : Solves(f, k)
    BY <1>3
  <2> DEFINE g == [r \in Ranges |-> SearchStep(f, new, r)]
  <2>2. \A r \in Ranges : r[2] - r[1] <= k => f[r] = g[r]
    BY <2>1
  <2>3. ASSUME NEW r \in Ranges, r[2] - r[1] <= k + 1 PROVE g[r] = SearchStep(g, new, r)
    <3>1. g[r] = SearchStep(f, new, r)
      OBVIOUS
    <3> HIDE DEF g
    <3>2. SearchStep(f, new, r) = SearchStep(g, new, r)
      BY <1>1, <2>2, <2>3
    <3>3. QED
      BY <3>1, <3>2
  <2>4. Solves(g, k + 1)
    BY <2>3
  <2> HIDE DEF g, Solves
  <2>5. QED
    BY <2>4
<1>4. \A k \in Nat : k \in K
  <2> HIDE DEF K
  <2>1. QED
    BY <1>2, <1>3, SetInduction
<1>5. PICK f : Solves(f, Queue!size)
  BY <1>4
<1> DEFINE g == [r \in Ranges |-> SearchStep(f, new, r)]
<1>6. \A r \in Ranges : r[2] - r[1] <= Queue!size
  BY DEF Ranges, Places
<1>7. \A r \in Ranges : f[r] = g[r]
  BY <1>5, <1>6
<1>8. ASSUME NEW r \in Ranges PROVE SearchStep(f, new, r) = SearchStep(g, new, r)
  <2> HIDE DEF g
  <2>1. r[2] - r[1] <= Queue!size + 1
    BY <1>6 DEF Ranges, Places
  <2>2. QED
    BY <1>1, <1>7, <2>1
<1>9. g = [r \in Ranges |-> SearchStep(g, new, r)]
  <2>1. [r \in Ranges |-> SearchStep(f, new, r)] = [r \in Ranges |-> SearchStep(g, new, r)]
    BY <1>8
  <2>2. QED
    BY <2>1
<1> HIDE DEF g
<1>10. QED
  BY <1>9

(***************************************************************************)
(* Hence Search is the answer of such a function for the whole array.      *)
(***************************************************************************)
LEMMA SearchAnswers ==
    ASSUME NEW new, Queue!size \in Nat
    PROVE  \E f : /\ f = [r \in Ranges |-> SearchStep(f, new, r)]
                  /\ Queue!Search(new) = f[<<0, Queue!size>>]
<1> DEFINE f == CHOOSE g : g = [r \in Ranges |-> SearchStep(g, new, r)]
<1>1. f = [r \in Ranges |-> SearchStep(f, new, r)]
  <2>1. \E g : g = [r \in Ranges |-> SearchStep(g, new, r)]
    BY SearchIsDefined
  <2>2. QED
    BY <2>1, Zenon
<1>2. Queue!Search(new) = f[<<0, Queue!size>>]
  BY Zenon DEF Queue!Search, SearchStep, Ranges, Places
<1> HIDE DEF f
<1>3. QED
  BY <1>1, <1>2

\* Candidate::operator< on the elements of the array.
Element == [id : Id, distance : Distance, expanded : BOOLEAN]

\* The order of the array is total on candidates of different ids.
LEMMA LessIsTotal ==
    ASSUME NEW c \in Element, NEW d \in Element
    PROVE  /\ ~Queue!Less(c, c)
           /\ ~(Queue!Less(c, d) /\ Queue!Less(d, c))
           /\ c.id # d.id => Queue!Less(c, d) \/ Queue!Less(d, c)
           /\ \A e \in Element : Queue!Less(c, d) /\ Queue!Less(d, e) => Queue!Less(c, e)
<1>1. \A e \in Element : e.id \in Nat /\ e.distance \in Nat
  BY IdAssumption DEF Element
<1>2. QED
  BY <1>1, SMT DEF Queue!Less

\* Where an element is in a sorted array.
Fits(new, p) == /\ \A k \in 1 .. p : Queue!Less(data[k], new)
                /\ \A k \in p + 1 .. Queue!size : Queue!Less(new, data[k])

(***************************************************************************)
(* The binary search finds the place of a new candidate in the array, or   *)
(* the candidate itself (search_queue.cpp, lines 31-41).                   *)
(***************************************************************************)
LEMMA SearchIsCorrect ==
    ASSUME Queue!TypeOK, Queue!Sorted, NEW new \in Element
    PROVE  \/ Queue!Search(new) = -1 /\ new.id \in Queue!Ids
           \/ Queue!Search(new) \in Places /\ Fits(new, Queue!Search(new))
<1>1. Queue!size \in Nat /\ \A k \in 1 .. Queue!size : data[k] \in Element
  <2>1. data \in Seq(Element)
    BY DEF Queue!TypeOK, Element
  <2> HIDE DEF Element
  <2>2. QED
    BY <2>1 DEF Queue!size
<1>2. PICK f : /\ f = [r \in Ranges |-> SearchStep(f, new, r)]
               /\ Queue!Search(new) = f[<<0, Queue!size>>]
  BY <1>1, SearchAnswers
<1> DEFINE Inside(lo, hi) == /\ \A k \in 1 .. lo : Queue!Less(data[k], new)
                             /\ \A k \in hi + 1 .. Queue!size : Queue!Less(new, data[k])
           Right(p) == \/ p = -1 /\ new.id \in Queue!Ids
                       \/ p \in Places /\ Fits(new, p)
           K == {k \in Nat : \A lo, hi \in Places :
                                lo <= hi /\ hi - lo <= k /\ Inside(lo, hi) => Right(f[<<lo, hi>>])}
<1>3. \A lo, hi \in Places :
         /\ <<lo, hi>> \in Ranges
         /\ f[<<lo, hi>>] = SearchStep(f, new, <<lo, hi>>)
  BY <1>2 DEF Ranges
<1>4. ASSUME NEW lo \in Places PROVE Inside(lo, lo) => Right(f[<<lo, lo>>])
  <2>1. f[<<lo, lo>>] = SearchStep(f, new, <<lo, lo>>)
    BY <1>3
  <2>2. lo >= lo
    BY <1>1 DEF Places
  <2>3. f[<<lo, lo>>] = lo
    BY <2>1, <2>2 DEF SearchStep
  <2>4. QED
    BY <2>3 DEF Fits
<1>5. 0 \in K
  <2>1. ASSUME NEW lo \in Places, NEW hi \in Places, lo <= hi, hi - lo <= 0
        PROVE  Inside(lo, hi) => Right(f[<<lo, hi>>])
    <3>1. lo = hi
      BY <2>1 DEF Places
    <3> HIDE DEF Inside, Right
    <3>2. QED
      BY <1>4, <3>1
  <2> HIDE DEF Inside, Right
  <2>2. QED
    BY <2>1
<1>6. ASSUME NEW k \in Nat, k \in K PROVE k + 1 \in K
  <2>1. ASSUME NEW lo \in Places, NEW hi \in Places, lo <= hi, hi - lo <= k + 1, Inside(lo, hi)
        PROVE  Right(f[<<lo, hi>>])
    <3>1. CASE lo = hi
      <4> HIDE DEF Inside, Right
      <4> QED
        BY <1>4, <2>1, <3>1
    <3>2. CASE lo # hi
      <4> DEFINE mid == (lo + hi) \div 2
      <4>1. /\ mid \in lo .. hi - 1 /\ mid \in Places /\ mid + 1 \in Places
            /\ mid - lo <= k /\ hi - (mid + 1) <= k
            /\ lo < hi /\ mid + 1 \in 1 .. Queue!size /\ mid \in Nat
        BY <1>1, <2>1, <3>2, Halves DEF Places
      <4> HIDE DEF mid
      <4>2. f[<<lo, hi>>] = IF Queue!Less(new, data[mid + 1]) THEN f[<<lo, mid>>]
                            ELSE IF data[mid + 1].id = new.id THEN -1
                            ELSE f[<<mid + 1, hi>>]
        BY <1>3, <4>1 DEF SearchStep, Queue!At, mid, Places
      <4>3. data[mid + 1] \in Element
        BY <1>1, <4>1
      <4>4. CASE Queue!Less(new, data[mid + 1])
        <5>1. ASSUME NEW j \in mid + 1 .. Queue!size PROVE Queue!Less(new, data[j])
          <6>1. CASE j = mid + 1
            BY <4>4, <6>1
          <6>2. CASE j # mid + 1
            <7>1. j \in 1 .. Queue!size /\ mid + 1 < j
              BY <1>1, <4>1, <6>2
            <7>2. Queue!Less(data[mid + 1], data[j]) /\ data[j] \in Element
              BY <1>1, <4>1, <7>1 DEF Queue!Sorted
            <7>3. QED
              BY <4>3, <4>4, <7>2, LessIsTotal
          <6>3. QED
            BY <6>1, <6>2
        <5>2. Inside(lo, mid)
          BY <2>1, <5>1
        <5> HIDE DEF Inside, Right
        <5>3. lo <= mid
          BY <4>1
        <5>4. Right(f[<<lo, mid>>])
          BY <1>6, <4>1, <5>2, <5>3
        <5>5. QED
          BY <4>2, <4>4, <5>4
      <4>5. CASE ~Queue!Less(new, data[mid + 1]) /\ data[mid + 1].id = new.id
        <5>1. new.id \in Queue!Ids
          BY <4>1, <4>5 DEF Queue!Ids
        <5>2. QED
          BY <4>2, <4>5, <5>1
      <4>6. CASE ~Queue!Less(new, data[mid + 1]) /\ data[mid + 1].id # new.id
        <5>1. ASSUME NEW j \in 1 .. mid + 1 PROVE Queue!Less(data[j], new)
          <6>1. Queue!Less(data[mid + 1], new)
            BY <4>3, <4>6, LessIsTotal
          <6>2. CASE j = mid + 1
            BY <6>1, <6>2
          <6>3. CASE j # mid + 1
            <7>1. j \in 1 .. Queue!size /\ j < mid + 1
              BY <1>1, <4>1, <6>3
            <7>2. Queue!Less(data[j], data[mid + 1]) /\ data[j] \in Element
              BY <1>1, <4>1, <7>1 DEF Queue!Sorted
            <7>3. QED
              BY <4>3, <6>1, <7>2, LessIsTotal
          <6>4. QED
            BY <6>2, <6>3
        <5>2. Inside(mid + 1, hi)
          BY <2>1, <5>1
        <5> HIDE DEF Inside, Right
        <5>3. mid + 1 <= hi
          BY <2>1, <4>1 DEF Places
        <5>4. Right(f[<<mid + 1, hi>>])
          BY <1>6, <4>1, <5>2, <5>3
        <5>5. QED
          BY <4>2, <4>6, <5>4
      <4>7. QED
        BY <4>4, <4>5, <4>6
    <3>3. QED
      BY <3>1, <3>2
  <2> HIDE DEF Inside, Right
  <2>2. QED
    BY <2>1
<1>7. \A k \in Nat : k \in K
  <2> HIDE DEF K
  <2>1. QED
    BY <1>5, <1>6, SetInduction
<1>8. Right(f[<<0, Queue!size>>])
  <2>1. Inside(0, Queue!size)
    BY <1>1
  <2> HIDE DEF Inside, Right
  <2>2. 0 \in Places /\ Queue!size \in Places /\ 0 <= Queue!size /\ Queue!size - 0 <= Queue!size
    BY <1>1 DEF Places
  <2>3. Queue!size \in K
    BY <1>1, <1>7
  <2>4. QED
    BY <2>1, <2>2, <2>3
<1>9. QED
  BY <1>2, <1>8

-----------------------------------------------------------------------------
\* An insertion.

\* An element is put after the first p of a sequence, and the first c are kept.
Putted(s, e, p, c) == SubSeq(SubSeq(s, 1, p) \o <<e>> \o SubSeq(s, p + 1, Len(s)), 1, c)

\* What the memmove followed by the assignment leaves at each position.
LEMMA Put ==
    ASSUME NEW R, NEW s \in Seq(R), NEW e \in R, NEW p \in 0 .. Len(s),
           NEW c \in 0 .. Len(s) + 1
    PROVE  /\ Putted(s, e, p, c) \in Seq(R)
           /\ Len(Putted(s, e, p, c)) = c
           /\ \A k \in 1 .. c :
                 Putted(s, e, p, c)[k]
                   = IF k <= p THEN s[k] ELSE IF k = p + 1 THEN e ELSE s[k - 1]
<1> DEFINE a == SubSeq(s, 1, p)
           b == SubSeq(s, p + 1, Len(s))
           d == a \o <<e>>
           m == d \o b
           t == SubSeq(m, 1, c)
<1> HIDE DEF t
<1>0. Len(s) \in Nat /\ \A k \in 1 .. Len(s) : s[k] \in R
  BY ElementOfSeq
<1>1. a \in Seq(R) /\ Len(a) = p /\ \A k \in 1 .. p : a[k] = s[k]
  <2>1. \A k \in 1 .. p : s[k] \in R
    BY <1>0
  <2> HIDE DEF a
  <2>2. /\ a \in Seq(R) /\ Len(a) = IF 1 <= p THEN p - 1 + 1 ELSE 0
        /\ \A k \in 1 .. p - 1 + 1 : a[k] = s[1 + k - 1]
    BY <1>0, <2>1, SubSeqProperties DEF a
  <2>3. QED
    BY <1>0, <2>2
<1>2. b \in Seq(R) /\ Len(b) = Len(s) - p /\ \A k \in 1 .. Len(s) - p : b[k] = s[p + k]
  <2>1. \A k \in p + 1 .. Len(s) : s[k] \in R
    BY <1>0
  <2> HIDE DEF b
  <2>2. /\ b \in Seq(R) /\ Len(b) = IF p + 1 <= Len(s) THEN Len(s) - (p + 1) + 1 ELSE 0
        /\ \A k \in 1 .. Len(s) - (p + 1) + 1 : b[k] = s[p + 1 + k - 1]
    BY <1>0, <2>1, SubSeqProperties DEF b
  <2>3. QED
    BY <1>0, <2>2
<1> HIDE DEF a, b
<1>3. /\ d \in Seq(R) /\ Len(d) = p + 1
      /\ \A k \in 1 .. p + 1 : d[k] = IF k <= p THEN a[k] ELSE e
  <2>1. <<e>> \in Seq(R) /\ Len(<<e>>) = 1 /\ <<e>>[1] = e
    OBVIOUS
  <2>2. /\ d \in Seq(R) /\ Len(d) = Len(a) + Len(<<e>>)
        /\ \A k \in 1 .. Len(a) + Len(<<e>>) :
              d[k] = IF k <= Len(a) THEN a[k] ELSE <<e>>[k - Len(a)]
    BY <1>1, <2>1, ConcatProperties
  <2> HIDE DEF d
  <2>3. QED
    BY <1>0, <1>1, <2>1, <2>2
<1> HIDE DEF d
<1>4. /\ m \in Seq(R) /\ Len(m) = Len(s) + 1
      /\ \A k \in 1 .. Len(s) + 1 : m[k] = IF k <= p + 1 THEN d[k] ELSE b[k - (p + 1)]
  <2>1. /\ m \in Seq(R) /\ Len(m) = Len(d) + Len(b)
        /\ \A k \in 1 .. Len(d) + Len(b) : m[k] = IF k <= Len(d) THEN d[k] ELSE b[k - Len(d)]
    BY <1>2, <1>3, ConcatProperties
  <2> HIDE DEF m
  <2>2. Len(d) = p + 1 /\ Len(d) + Len(b) = Len(s) + 1
    BY <1>0, <1>2, <1>3
  <2>3. QED
    BY <2>1, <2>2
<1> HIDE DEF m
<1>6. t \in Seq(R) /\ Len(t) = c /\ \A k \in 1 .. c : t[k] = m[k]
  <2>1. \A k \in 1 .. c : m[k] \in R
    BY <1>0, <1>4, ElementOfSeq
  <2>2. c \in Int /\ 1 \in Int
    BY <1>0
  <2>3. /\ t \in Seq(R) /\ Len(t) = IF 1 <= c THEN c - 1 + 1 ELSE 0
        /\ \A k \in 1 .. c - 1 + 1 : t[k] = m[1 + k - 1]
    BY <2>1, <2>2, SubSeqProperties DEF t
  <2>4. QED
    BY <1>0, <2>3
<1>7. \A k \in 1 .. c : m[k] = IF k <= p THEN s[k] ELSE IF k = p + 1 THEN e ELSE s[k - 1]
  <2> TAKE k \in 1 .. c
  <2>1. k \in 1 .. Len(s) + 1 /\ k \in Int
    BY <1>0
  <2>2. CASE k <= p
    BY <1>0, <1>1, <1>3, <1>4, <2>1, <2>2
  <2>3. CASE k = p + 1
    BY <1>0, <1>3, <1>4, <2>1, <2>3
  <2>4. CASE p + 1 < k
    <3>1. k - (p + 1) \in 1 .. Len(s) - p /\ p + (k - (p + 1)) = k - 1 /\ ~(k <= p + 1)
      BY <1>0, <2>1, <2>4
    <3>2. b[k - (p + 1)] = s[p + (k - (p + 1))]
      BY <1>2, <3>1
    <3>3. m[k] = s[k - 1]
      BY <1>4, <2>1, <3>1, <3>2
    <3>4. QED
      BY <1>0, <2>1, <2>4, <3>3
  <2>5. QED
    BY <1>0, <2>1, <2>2, <2>3, <2>4
<1>8. t \in Seq(R) /\ Len(t) = c
      /\ \A k \in 1 .. c : t[k] = IF k <= p THEN s[k] ELSE IF k = p + 1 THEN e ELSE s[k - 1]
  BY <1>6, <1>7
<1>9. QED
  BY <1>8 DEF Putted, t, m, d, a, b

\* What the array has of its own, without the history of the search.
ArrayInv == Queue!TypeOK /\ Queue!Sorted /\ Queue!OwnDistances /\ Queue!CursorOnFirst

\* The new candidate of insert(), and the ids of the array with it.
New(i) == [id |-> i, distance |-> dist[i], expanded |-> FALSE]
MergedId(i, lo, k) == IF k <= lo THEN data[k].id ELSE IF k = lo + 1 THEN i ELSE data[k - 1].id

\* What the array holds: distinct ids, in the order of the candidates.
LEMMA ArrayFacts ==
    ASSUME ArrayInv
    PROVE  /\ Queue!size \in Nat /\ Queue!size <= Capacity
           /\ data \in Seq(Element) /\ dist \in [Id -> Distance]
           /\ \A k \in 1 .. Queue!size : data[k] \in Element /\ data[k].id \in Id
           /\ \A j, k \in 1 .. Queue!size : j < k => P!Closer(data[j].id, data[k].id)
           /\ \A j, k \in 1 .. Queue!size : data[j].id = data[k].id => j = k
           /\ Queue!Ids = {data[k].id : k \in 1 .. Queue!size}
<1>1. data \in Seq(Element) /\ dist \in [Id -> Distance] /\ Queue!size <= Capacity
  BY DEF ArrayInv, Queue!TypeOK, Element
<1>2. Queue!size \in Nat
  BY <1>1 DEF Queue!size
<1>3. \A k \in 1 .. Queue!size : data[k] \in Element
  BY <1>1, ElementOfSeq DEF Queue!size
<1>4. \A k \in 1 .. Queue!size : data[k].id \in Id
  BY <1>3 DEF Element
<1>5. \A j, k \in 1 .. Queue!size : j < k => P!Closer(data[j].id, data[k].id)
  BY DEF ArrayInv, Queue!Sorted, Queue!OwnDistances, Queue!Less, P!Closer
<1>6. ASSUME NEW j \in 1 .. Queue!size, NEW k \in 1 .. Queue!size, data[j].id = data[k].id
      PROVE  j = k
  <2>1. ~P!Closer(data[j].id, data[j].id)
    BY <1>1, <1>4, TotalOrder
  <2>2. ~(j < k) /\ ~(k < j)
    BY <1>5, <1>6, <2>1
  <2>3. QED
    BY <1>2, <2>2
<1>7. QED
  BY <1>1, <1>2, <1>3, <1>4, <1>5, <1>6 DEF Queue!Ids

\* The queue holds no more than it can: all of them are the closest.
LEMMA AllAreClosest ==
    ASSUME ArrayInv
    PROVE  P!Closest(Queue!Ids) = Queue!Ids
<1> DEFINE n == Queue!size
           m == [k \in 1 .. n |-> data[k].id]
<1>1. n \in Nat /\ m \in [1 .. n -> Id] /\ dist \in [Id -> Distance]
  BY ArrayFacts
<1>2. \A j, k \in 1 .. n : j < k => P!Closer(m[j], m[k])
  BY ArrayFacts
<1>3. Queue!Ids = {m[k] : k \in 1 .. n}
  BY ArrayFacts
<1>4. \A k \in 1 .. n : k <= Capacity
  BY ArrayFacts, CapacityAssumption
<1> HIDE DEF n, m
<1>5. P!Closest({m[k] : k \in 1 .. n}) = {m[k] : k \in {j \in 1 .. n : j <= Capacity}}
  BY <1>1, <1>2, ClosestOfSorted
<1>6. {j \in 1 .. n : j <= Capacity} = 1 .. n
  BY <1>4
<1>7. QED
  BY <1>3, <1>5, <1>6

(***************************************************************************)
(* With a new candidate at its place the array is sorted, and its first    *)
(* Capacity elements are the closest.                                      *)
(***************************************************************************)
LEMMA ClosestWithNew ==
    ASSUME ArrayInv, NEW i \in Id, NEW lo \in Places, Fits(New(i), lo)
    PROVE  /\ i \notin Queue!Ids
           /\ P!Closest(Queue!Ids \cup {i})
                = {MergedId(i, lo, k) : k \in {j \in 1 .. Queue!size + 1 : j <= Capacity}}
<1> DEFINE n == Queue!size
           m == [k \in 1 .. n + 1 |-> MergedId(i, lo, k)]
<1>1. /\ n \in Nat /\ dist \in [Id -> Distance] /\ lo \in Nat /\ lo <= n
      /\ \A k \in 1 .. n : data[k].id \in Id
      /\ \A j, k \in 1 .. n : j < k => P!Closer(data[j].id, data[k].id)
      /\ Queue!Ids = {data[k].id : k \in 1 .. n}
  BY ArrayFacts DEF Places
<1>2. /\ \A k \in 1 .. lo : P!Closer(data[k].id, i)
      /\ \A k \in lo + 1 .. n : P!Closer(i, data[k].id)
  <2>1. \A k \in 1 .. n : data[k].distance = dist[data[k].id]
    BY DEF ArrayInv, Queue!OwnDistances
  <2>2. QED
    BY <1>1, <2>1 DEF Fits, New, Queue!Less, P!Closer
<1>3. i \notin Queue!Ids
  <2>1. SUFFICES ASSUME NEW k \in 1 .. n, data[k].id = i PROVE FALSE
    BY <1>1
  <2>2. k \in 1 .. lo \/ k \in lo + 1 .. n
    BY <1>1
  <2>3. P!Closer(i, i)
    BY <1>2, <2>1, <2>2
  <2>4. QED
    BY <1>1, <2>3, TotalOrder
<1>4. m \in [1 .. n + 1 -> Id]
  <2>1. ASSUME NEW k \in 1 .. n + 1 PROVE MergedId(i, lo, k) \in Id
    <3>1. CASE k <= lo
      BY <1>1, <3>1 DEF MergedId
    <3>2. CASE k = lo + 1
      BY <1>1, <3>2 DEF MergedId
    <3>3. CASE lo + 1 < k
      <4>1. k - 1 \in 1 .. n /\ ~(k <= lo) /\ k # lo + 1
        BY <1>1, <3>3
      <4>2. QED
        BY <1>1, <4>1 DEF MergedId
    <3>4. QED
      BY <1>1, <3>1, <3>2, <3>3
  <2>2. QED
    BY <2>1
<1>5. ASSUME NEW j \in 1 .. n + 1, NEW k \in 1 .. n + 1, j < k
      PROVE  P!Closer(MergedId(i, lo, j), MergedId(i, lo, k))
  <2>1. CASE k <= lo
    <3>1. j \in 1 .. n /\ k \in 1 .. n /\ j <= lo
      BY <1>1, <1>5, <2>1
    <3>2. QED
      BY <1>1, <1>5, <2>1, <3>1 DEF MergedId
  <2>2. CASE k = lo + 1
    <3>1. j \in 1 .. lo /\ j <= lo /\ ~(k <= lo)
      BY <1>1, <1>5, <2>2
    <3>2. QED
      BY <1>2, <2>2, <3>1 DEF MergedId
  <2>3. CASE lo + 1 < k /\ j <= lo
    <3>1. j \in 1 .. n /\ k - 1 \in 1 .. n /\ j < k - 1 /\ ~(k <= lo) /\ k # lo + 1
      BY <1>1, <1>5, <2>3
    <3>2. QED
      BY <1>1, <2>3, <3>1 DEF MergedId
  <2>4. CASE lo + 1 < k /\ j = lo + 1
    <3>1. k - 1 \in lo + 1 .. n /\ ~(k <= lo) /\ k # lo + 1 /\ ~(j <= lo)
      BY <1>1, <1>5, <2>4
    <3>2. QED
      BY <1>2, <2>4, <3>1 DEF MergedId
  <2>5. CASE lo + 1 < k /\ lo + 1 < j
    <3>1. /\ j - 1 \in 1 .. n /\ k - 1 \in 1 .. n /\ j - 1 < k - 1
          /\ ~(k <= lo) /\ k # lo + 1 /\ ~(j <= lo) /\ j # lo + 1
      BY <1>1, <1>5, <2>5
    <3>2. QED
      BY <1>1, <3>1 DEF MergedId
  <2>6. QED
    BY <1>1, <2>1, <2>2, <2>3, <2>4, <2>5
<1>6. Queue!Ids \cup {i} = {m[k] : k \in 1 .. n + 1}
  <2>1. ASSUME NEW k \in 1 .. n PROVE \E j \in 1 .. n + 1 : MergedId(i, lo, j) = data[k].id
    <3>1. CASE k <= lo
      <4>1. k \in 1 .. n + 1 /\ MergedId(i, lo, k) = data[k].id
        BY <1>1, <3>1 DEF MergedId
      <4>2. QED
        BY <4>1
    <3>2. CASE ~(k <= lo)
      <4>1. k + 1 \in 1 .. n + 1 /\ ~(k + 1 <= lo) /\ k + 1 # lo + 1 /\ (k + 1) - 1 = k
        BY <1>1, <3>2
      <4>2. MergedId(i, lo, k + 1) = data[k].id
        BY <4>1 DEF MergedId
      <4>3. QED
        BY <4>1, <4>2
    <3>3. QED
      BY <3>1, <3>2
  <2>2. lo + 1 \in 1 .. n + 1 /\ MergedId(i, lo, lo + 1) = i
    BY <1>1 DEF MergedId
  <2>3. ASSUME NEW k \in 1 .. n + 1
        PROVE  MergedId(i, lo, k) = i \/ \E j \in 1 .. n : MergedId(i, lo, k) = data[j].id
    <3>1. CASE k <= lo
      <4>1. k \in 1 .. n /\ MergedId(i, lo, k) = data[k].id
        BY <1>1, <3>1 DEF MergedId
      <4>2. QED
        BY <4>1
    <3>2. CASE k = lo + 1
      BY <2>2, <3>2
    <3>3. CASE lo + 1 < k
      <4>1. k - 1 \in 1 .. n /\ ~(k <= lo) /\ k # lo + 1
        BY <1>1, <3>3
      <4>2. MergedId(i, lo, k) = data[k - 1].id
        BY <4>1 DEF MergedId
      <4>3. QED
        BY <4>1, <4>2
    <3>4. QED
      BY <1>1, <3>1, <3>2, <3>3
  <2>4. \A x : x \in {m[k] : k \in 1 .. n + 1} <=> \E k \in 1 .. n + 1 : x = MergedId(i, lo, k)
    OBVIOUS
  <2> HIDE DEF m
  <2>5. ASSUME NEW x \in Queue!Ids \cup {i} PROVE x \in {m[k] : k \in 1 .. n + 1}
    <3>1. x = i \/ \E k \in 1 .. n : x = data[k].id
      BY <1>1, <2>5
    <3>2. \E j \in 1 .. n + 1 : x = MergedId(i, lo, j)
      BY <2>1, <2>2, <3>1
    <3>3. QED
      BY <2>4, <3>2
  <2>6. ASSUME NEW x \in {m[k] : k \in 1 .. n + 1} PROVE x \in Queue!Ids \cup {i}
    <3>1. PICK k \in 1 .. n + 1 : x = MergedId(i, lo, k)
      BY <2>4, <2>6
    <3>2. x = i \/ \E j \in 1 .. n : x = data[j].id
      BY <2>3, <3>1
    <3>3. QED
      BY <1>1, <3>2
  <2>7. QED
    BY <2>5, <2>6
<1>7. n + 1 \in Nat /\ \A j, k \in 1 .. n + 1 : j < k => P!Closer(m[j], m[k])
  BY <1>1, <1>5
<1>8. \A k \in 1 .. n + 1 : m[k] = MergedId(i, lo, k)
  OBVIOUS
<1> HIDE DEF n, m
<1>9. P!Closest({m[k] : k \in 1 .. n + 1}) = {m[k] : k \in {j \in 1 .. n + 1 : j <= Capacity}}
  BY <1>1, <1>4, <1>7, ClosestOfSorted
<1>10. {m[k] : k \in {j \in 1 .. n + 1 : j <= Capacity}}
         = {MergedId(i, lo, k) : k \in {j \in 1 .. n + 1 : j <= Capacity}}
  BY <1>8
<1>11. QED
  BY <1>3, <1>6, <1>9, <1>10 DEF n

\* The flags of the array.
LEMMA ExpandedFacts ==
    ASSUME ArrayInv
    PROVE  /\ Queue!Expanded \subseteq Queue!Ids
           /\ \A k \in 1 .. Queue!size : data[k].id \in Queue!Expanded <=> data[k].expanded
BY ArrayFacts DEF Queue!Expanded

\* An insertion that leaves the array as it is.
LEMMA ArrayUnchanged ==
    ASSUME ArrayInv, UNCHANGED <<dist, data, curUnexpanded>>
    PROVE  ArrayInv' /\ Queue!Ids' = Queue!Ids /\ Queue!Expanded' = Queue!Expanded
BY DEF ArrayInv, Queue!TypeOK, Queue!Sorted, Queue!OwnDistances, Queue!CursorOnFirst,
       Queue!size, Queue!At, Queue!Less, Queue!Ids, Queue!Expanded

(***************************************************************************)
(* insert() keeps the array sorted and its cursor on the first candidate   *)
(* that is not expanded, and is an insertion into the pool, whether it     *)
(* moves the elements, drops the new one or finds it (search_queue.cpp,    *)
(* lines 26-53).                                                           *)
(***************************************************************************)
LEMMA InsertStep ==
    ASSUME ArrayInv, NEW i \in Id, Queue!insert(i)
    PROVE  ArrayInv' /\ P!Insert(i)
<1> DEFINE new == New(i)
           lo == Queue!Search(new)
           Full == Queue!size = Capacity /\ Queue!Less(Queue!At(Queue!size - 1), new)
<1>1. /\ offered' = offered \cup {i} /\ UNCHANGED <<dist, returned>>
      /\ Full \/ lo = -1 => UNCHANGED <<data, curUnexpanded>>
      /\ ~(Full \/ lo = -1) => /\ data' = Queue!MoveAndPut(lo, new)
                               /\ curUnexpanded' = Queue!PointerAfter(lo)
  BY Zenon DEF Queue!insert, New
<1>2. /\ Queue!size \in Nat /\ Queue!size <= Capacity /\ data \in Seq(Element)
      /\ dist \in [Id -> Distance]
      /\ \A k \in 1 .. Queue!size : data[k] \in Element
      /\ Queue!Ids = {data[k].id : k \in 1 .. Queue!size}
  BY ArrayFacts
<1>3. new \in Element
  BY <1>2 DEF New, Element
<1>4. Queue!TypeOK /\ Queue!Sorted
  BY DEF ArrayInv
<1>5. \/ lo = -1 /\ i \in Queue!Ids
      \/ lo \in Places /\ Fits(new, lo)
  <2>1. new.id = i
    BY DEF New
  <2> HIDE DEF new
  <2>2. QED
    BY <1>3, <1>4, <2>1, SearchIsCorrect
<1>6. CASE Full
  <2>1. UNCHANGED <<dist, data, curUnexpanded>>
    BY <1>1, <1>6
  <2>2. Queue!size \in 1 .. Queue!size /\ Queue!Less(data[Queue!size], new)
    BY <1>2, <1>6, CapacityAssumption DEF Queue!At
  <2>3. ASSUME NEW k \in 1 .. Queue!size PROVE Queue!Less(data[k], new)
    <3>1. CASE k = Queue!size
      BY <2>2, <3>1
    <3>2. CASE k # Queue!size
      <4>1. Queue!Less(data[k], data[Queue!size])
        BY <1>2, <1>4, <2>2, <3>2 DEF Queue!Sorted
      <4> HIDE DEF new
      <4>2. QED
        BY <1>2, <1>3, <2>2, <4>1, LessIsTotal
    <3>3. QED
      BY <3>1, <3>2
  <2>4. Queue!size \in Places /\ Fits(new, Queue!size)
    BY <1>2, <2>3 DEF Places, Fits
  <2>5. P!Closest(Queue!Ids \cup {i})
          = {MergedId(i, Queue!size, k) : k \in {j \in 1 .. Queue!size + 1 : j <= Capacity}}
    BY <2>4, ClosestWithNew
  <2>6. {j \in 1 .. Queue!size + 1 : j <= Capacity} = 1 .. Queue!size
    BY <1>2, <1>6
  <2>7. \A k \in 1 .. Queue!size : MergedId(i, Queue!size, k) = data[k].id
    BY <1>2 DEF MergedId
  <2>8. P!Closest(Queue!Ids \cup {i}) = Queue!Ids
    BY <1>2, <2>5, <2>6, <2>7
  <2>9. QED
    BY <1>1, <2>1, <2>8, ArrayUnchanged, ExpandedFacts DEF P!Insert
<1>7. CASE ~Full /\ lo = -1
  <2>1. UNCHANGED <<dist, data, curUnexpanded>>
    BY <1>1, <1>7
  <2>2. Queue!Ids \cup {i} = Queue!Ids
    BY <1>5, <1>7 DEF Places
  <2>3. P!Closest(Queue!Ids \cup {i}) = Queue!Ids
    BY <2>2, AllAreClosest
  <2>4. QED
    BY <1>1, <2>1, <2>3, ArrayUnchanged, ExpandedFacts DEF P!Insert
<1>8. CASE ~Full /\ lo # -1
  <2> DEFINE c == IF Queue!size < Capacity THEN Queue!size + 1 ELSE Capacity
  <2>1. lo \in Places /\ Fits(new, lo)
    BY <1>5, <1>8
  <2>2. c \in 0 .. Queue!size + 1 /\ c <= Capacity /\ Queue!size <= c
    BY <1>2, CapacityAssumption
  <2>3. data' = SubSeq(SubSeq(data, 1, lo) \o <<new>> \o SubSeq(data, lo + 1, Len(data)), 1, c)
    BY <1>1, <1>8 DEF Queue!MoveAndPut, Queue!size
  <2>4. curUnexpanded' = IF lo < curUnexpanded THEN lo ELSE curUnexpanded
    BY <1>1, <1>8 DEF Queue!PointerAfter
  <2>5. new.id = i /\ new.distance = dist[i] /\ new.expanded = FALSE
    BY DEF New
  <2>6. dist' = dist /\ returned' = returned /\ offered' = offered \cup {i}
    BY <1>1
  <2>7. /\ i \notin Queue!Ids
        /\ P!Closest(Queue!Ids \cup {i})
             = {MergedId(i, lo, k) : k \in {j \in 1 .. Queue!size + 1 : j <= Capacity}}
    BY <2>1, ClosestWithNew
  <2>8. lo < c
    <3>1. CASE Queue!size < Capacity
      BY <1>2, <2>1, <3>1 DEF Places
    <3>2. CASE Queue!size = Capacity
      <4>1. SUFFICES ASSUME lo = Queue!size PROVE FALSE
        BY <1>2, <2>1, <3>2 DEF Places
      <4>2. Queue!size \in 1 .. lo
        BY <1>2, <3>2, <4>1, CapacityAssumption
      <4>3. Queue!Less(data[Queue!size], new)
        BY <2>1, <4>2 DEF Fits
      <4>4. QED
        BY <1>2, <1>8, <3>2, <4>3 DEF Queue!At
    <3>3. QED
      BY <1>2, <3>1, <3>2, CapacityAssumption
  <2> HIDE DEF new, lo
  <2>9. /\ data' \in Seq(Element) /\ Len(data') = c
        /\ \A k \in 1 .. c : data'[k] = IF k <= lo THEN data[k]
                                        ELSE IF k = lo + 1 THEN new ELSE data[k - 1]
    <3>1. lo \in 0 .. Len(data) /\ c \in 0 .. Len(data) + 1
      BY <2>1, <2>2 DEF Places, Queue!size
    <3> HIDE DEF c
    <3>2. QED
      <4>1. data' = Putted(data, new, lo, c)
        BY <2>3 DEF Putted
      <4>2. QED
        BY <1>2, <1>3, <3>1, <4>1, Put
  <2>10. /\ \A k \in 1 .. c : k <= lo => k \in 1 .. Queue!size /\ k \in 1 .. lo /\ data'[k] = data[k]
         /\ data'[lo + 1] = new /\ lo + 1 \in 1 .. c
         /\ \A k \in 1 .. c : lo + 1 < k => /\ k - 1 \in 1 .. Queue!size
                                           /\ k - 1 \in lo + 1 .. Queue!size
                                           /\ data'[k] = data[k - 1]
         /\ \A k \in 1 .. c : k <= lo \/ k = lo + 1 \/ lo + 1 < k
    <3>1. lo \in Nat /\ lo <= Queue!size /\ c \in Nat
      BY <1>2, <2>1, <2>2 DEF Places
    <3>2. ASSUME NEW k \in 1 .. c, k <= lo
          PROVE  k \in 1 .. Queue!size /\ k \in 1 .. lo /\ data'[k] = data[k]
      <4>1. k \in 1 .. Queue!size /\ k \in 1 .. lo
        BY <1>2, <3>1, <3>2
      <4>2. data'[k] = data[k]
        BY <2>9, <3>2
      <4>3. QED
        BY <4>1, <4>2
    <3>3. lo + 1 \in 1 .. c /\ ~(lo + 1 <= lo)
      BY <2>8, <3>1
    <3>4. data'[lo + 1] = new
      BY <2>9, <3>3
    <3>5. ASSUME NEW k \in 1 .. c, lo + 1 < k
          PROVE  k - 1 \in 1 .. Queue!size /\ k - 1 \in lo + 1 .. Queue!size /\ data'[k] = data[k - 1]
      <4>1. ~(k <= lo) /\ k # lo + 1
        BY <3>1, <3>5
      <4>2. k - 1 \in 1 .. Queue!size /\ k - 1 \in lo + 1 .. Queue!size
        BY <1>2, <2>2, <3>1, <3>5
      <4>3. QED
        BY <2>9, <4>1, <4>2
    <3>6. \A k \in 1 .. c : k <= lo \/ k = lo + 1 \/ lo + 1 < k
      BY <3>1
    <3>7. QED
      BY <3>2, <3>3, <3>4, <3>5, <3>6
  <2>11. Queue!size' = c /\ c \in Nat /\ lo \in Nat
    BY <1>2, <2>1, <2>2, <2>9 DEF Queue!size, Places
  <2>12. /\ curUnexpanded' = IF lo < curUnexpanded THEN lo ELSE curUnexpanded
         /\ curUnexpanded \in Nat /\ curUnexpanded <= Queue!size
         /\ \A k \in 1 .. curUnexpanded : data[k].expanded
         /\ curUnexpanded < Queue!size => ~data[curUnexpanded + 1].expanded
    BY <1>2, <2>4 DEF ArrayInv, Queue!TypeOK, Queue!CursorOnFirst, Queue!At
  <2> HIDE DEF c
  <2>13. Queue!TypeOK'
    <3>1. curUnexpanded' \in 0 .. c
      BY <1>2, <2>2, <2>8, <2>11, <2>12
    <3>2. dist' \in [Id -> Distance] /\ data' \in Seq(Element)
      BY <1>2, <2>6, <2>9
    <3>3. QED
      BY <2>2, <2>11, <3>1, <3>2 DEF Queue!TypeOK, Element
  <2>14. Queue!OwnDistances'
    <3>1. \A k \in 1 .. Queue!size : data[k].distance = dist[data[k].id]
      BY DEF ArrayInv, Queue!OwnDistances
    <3>2. ASSUME NEW k \in 1 .. c PROVE data'[k].distance = dist[data'[k].id]
      BY <2>5, <2>10, <3>1
    <3>3. QED
      BY <2>6, <2>11, <3>2 DEF Queue!OwnDistances
  <2>15. Queue!Sorted'
    <3>1. \A j, k \in 1 .. Queue!size : j < k => Queue!Less(data[j], data[k])
      BY DEF ArrayInv, Queue!Sorted
    <3>2. /\ \A k \in 1 .. lo : Queue!Less(data[k], new)
          /\ \A k \in lo + 1 .. Queue!size : Queue!Less(new, data[k])
      BY <2>1 DEF Fits
    <3>3. ASSUME NEW j \in 1 .. c, NEW k \in 1 .. c, j < k
          PROVE  Queue!Less(data'[j], data'[k])
      <4>1. CASE k <= lo
        <5>1. j <= lo
          BY <2>11, <3>3, <4>1
        <5>2. QED
          BY <2>10, <3>1, <3>3, <4>1, <5>1
      <4>2. CASE k = lo + 1
        <5>1. j <= lo
          BY <2>11, <3>3, <4>2
        <5>2. QED
          BY <2>10, <3>2, <4>2, <5>1
      <4>3. CASE lo + 1 < k /\ j <= lo
        <5>1. j < k - 1
          BY <2>11, <4>3
        <5>2. QED
          BY <2>10, <3>1, <4>3, <5>1
      <4>4. CASE lo + 1 < k /\ j = lo + 1
        BY <2>10, <3>2, <4>4
      <4>5. CASE lo + 1 < k /\ lo + 1 < j
        <5>1. j - 1 < k - 1
          BY <2>11, <3>3
        <5>2. QED
          BY <2>10, <3>1, <4>5, <5>1
      <4>6. QED
        BY <2>10, <2>11, <4>1, <4>2, <4>3, <4>4, <4>5
    <3>4. QED
      BY <2>11, <3>3 DEF Queue!Sorted, Queue!Less
  <2>16. Queue!CursorOnFirst'
    <3>1. ASSUME NEW k \in 1 .. curUnexpanded' PROVE data'[k].expanded
      <4>1. k \in 1 .. c /\ k <= lo /\ k \in 1 .. curUnexpanded
        BY <2>8, <2>11, <2>12
      <4>2. QED
        BY <2>10, <2>12, <4>1
    <3>2. ~data'[curUnexpanded' + 1].expanded
      <4>1. CASE lo <= curUnexpanded
        <5>1. curUnexpanded' = lo
          BY <2>11, <2>12, <4>1
        <5>2. QED
          BY <2>5, <2>10, <5>1
      <4>2. CASE curUnexpanded < lo
        <5>1. curUnexpanded' = curUnexpanded
          BY <2>11, <2>12, <4>2
        <5>2. curUnexpanded + 1 \in 1 .. c /\ curUnexpanded + 1 <= lo /\ curUnexpanded < Queue!size
          BY <1>2, <2>1, <2>8, <2>11, <2>12, <4>2 DEF Places
        <5>3. QED
          BY <2>10, <2>12, <5>1, <5>2
      <4>3. QED
        BY <2>11, <2>12, <4>1, <4>2
    <3>3. QED
      BY <3>1, <3>2 DEF Queue!CursorOnFirst, Queue!At
  <2>17. Queue!Ids' = P!Closest(Queue!Ids \cup {i})
    <3>1. {j \in 1 .. Queue!size + 1 : j <= Capacity} = 1 .. c
      BY <1>2, CapacityAssumption DEF c
    <3>2. ASSUME NEW k \in 1 .. c PROVE data'[k].id = MergedId(i, lo, k)
      <4>1. CASE k <= lo
        BY <2>10, <4>1 DEF MergedId
      <4>2. CASE k = lo + 1
        <5>1. ~(k <= lo)
          BY <2>11, <4>2
        <5>2. QED
          BY <2>5, <2>10, <4>2, <5>1 DEF MergedId
      <4>3. CASE lo + 1 < k
        <5>1. ~(k <= lo) /\ k # lo + 1
          BY <2>11, <4>3
        <5>2. QED
          BY <2>10, <4>3, <5>1 DEF MergedId
      <4>4. QED
        BY <2>10, <4>1, <4>2, <4>3
    <3>3. Queue!Ids' = {data'[k].id : k \in 1 .. c}
      BY <2>11 DEF Queue!Ids
    <3>4. QED
      BY <2>7, <3>1, <3>2, <3>3
  <2>18. Queue!Expanded' = Queue!Expanded \cap Queue!Ids'
    <3>1. /\ \A x : x \in Queue!Expanded' <=> \E k \in 1 .. c : data'[k].expanded /\ x = data'[k].id
          /\ \A x : x \in Queue!Ids' <=> \E k \in 1 .. c : x = data'[k].id
      BY <2>11 DEF Queue!Expanded, Queue!Ids
    <3>2. \A k \in 1 .. Queue!size : data[k].id \in Queue!Ids
      BY <1>2
    <3>3. ASSUME NEW k \in 1 .. c
          PROVE  data'[k].expanded <=> data'[k].id \in Queue!Expanded
      <4>1. CASE k = lo + 1
        BY <2>5, <2>7, <2>10, <4>1, ExpandedFacts
      <4>2. CASE k # lo + 1
        <5>1. \E j \in 1 .. Queue!size : data'[k] = data[j]
          BY <2>10, <4>2
        <5>2. QED
          BY <5>1, ExpandedFacts
      <4>3. QED
        BY <4>1, <4>2
    <3>4. QED
      BY <3>1, <3>3
  <2>19. QED
    BY <2>6, <2>13, <2>14, <2>15, <2>16, <2>17, <2>18 DEF ArrayInv, P!Insert
<1>9. QED
  BY <1>6, <1>7, <1>8

-----------------------------------------------------------------------------
\* An expansion.

\* The loop of get_closest_unexpanded stops: at a candidate that is not
\* expanded, or at the end.
LEMMA CursorStops ==
    ASSUME NEW flags, curUnexpanded \in Nat, Queue!size \in Nat, curUnexpanded <= Queue!size
    PROVE  \E k \in curUnexpanded .. Queue!size :
              /\ k = Queue!NextUnexpanded(flags)
              /\ \A j \in curUnexpanded + 1 .. k : flags[j].expanded
              /\ k < Queue!size => ~flags[k + 1].expanded
<1> DEFINE Stops(k) == /\ \A j \in curUnexpanded .. k - 1 : flags[j + 1].expanded
                       /\ k < Queue!size => ~flags[k + 1].expanded
           B == {k \in curUnexpanded .. Queue!size : k = Queue!size \/ ~flags[k + 1].expanded}
<1>1. B \subseteq Nat /\ B # {}
  OBVIOUS
<1>2. PICK m \in B : \A j \in B : m <= j
  <2> HIDE DEF B
  <2>1. QED
    BY <1>1, LeastNat
<1>3. \A j \in curUnexpanded .. m - 1 : flags[j + 1].expanded
  BY <1>2
<1>4. m \in curUnexpanded .. Queue!size /\ Stops(m)
  BY <1>3
<1> HIDE DEF Stops
<1>5. Queue!NextUnexpanded(flags) = CHOOSE l \in curUnexpanded .. Queue!size : Stops(l)
  BY Zenon DEF Queue!NextUnexpanded, Stops
<1>6. /\ Queue!NextUnexpanded(flags) \in curUnexpanded .. Queue!size
      /\ Stops(Queue!NextUnexpanded(flags))
  BY <1>4, <1>5, Zenon
<1>7. PICK k \in curUnexpanded .. Queue!size : k = Queue!NextUnexpanded(flags) /\ Stops(k)
  BY <1>6
<1>8. ASSUME NEW j \in curUnexpanded + 1 .. k PROVE flags[j].expanded
  <2>1. j - 1 \in curUnexpanded .. k - 1 /\ (j - 1) + 1 = j
    OBVIOUS
  <2>2. flags[(j - 1) + 1].expanded
    BY <1>7, <2>1 DEF Stops
  <2>3. QED
    BY <2>1, <2>2
<1>9. QED
  BY <1>7, <1>8 DEF Stops

(***************************************************************************)
(* get_closest_unexpanded() hands out the closest candidate that is not    *)
(* expanded and moves the cursor to the next (search_queue.cpp, lines      *)
(* 57-63).                                                                 *)
(***************************************************************************)
LEMMA ExpandStep ==
    ASSUME ArrayInv, Queue!get_closest_unexpanded
    PROVE  ArrayInv' /\ \E i \in Id : P!Expand(i)
<1> DEFINE cur == curUnexpanded
           n == Queue!size
           i == data[cur + 1].id
<1>1. /\ cur < n
      /\ data' = [data EXCEPT ![cur + 1].expanded = TRUE]
      /\ cur' = Queue!NextUnexpanded(data')
      /\ returned' = returned \cup {i}
      /\ dist' = dist /\ offered' = offered
  BY DEF Queue!get_closest_unexpanded, Queue!At
<1>2. /\ n \in Nat /\ n <= Capacity /\ data \in Seq(Element) /\ dist \in [Id -> Distance]
      /\ \A k \in 1 .. n : data[k] \in Element /\ data[k].id \in Id
      /\ \A j, k \in 1 .. n : j < k => P!Closer(data[j].id, data[k].id)
      /\ \A j, k \in 1 .. n : data[j].id = data[k].id => j = k
      /\ Queue!Ids = {data[k].id : k \in 1 .. n}
  BY ArrayFacts
<1>3. cur \in Nat /\ cur + 1 \in 1 .. n /\ i \in Id
  BY <1>1, <1>2 DEF ArrayInv, Queue!TypeOK
<1>4. /\ \A k \in 1 .. cur : data[k].expanded
      /\ ~data[cur + 1].expanded
  BY <1>1 DEF ArrayInv, Queue!CursorOnFirst, Queue!At
<1>5. DOMAIN data = 1 .. n
  BY <1>2 DEF Queue!size
<1>6. /\ \A k \in 1 .. n : k # cur + 1 => data'[k] = data[k]
      /\ data'[cur + 1] = [data[cur + 1] EXCEPT !.expanded = TRUE]
      /\ Queue!size' = n /\ DOMAIN data' = 1 .. n
      /\ data' \in Seq(Element)
  <2>1. [data[cur + 1] EXCEPT !.expanded = TRUE] \in Element
    BY <1>2, <1>3 DEF Element
  <2>2. data' = [data EXCEPT ![cur + 1] = [data[cur + 1] EXCEPT !.expanded = TRUE]]
    BY <1>1, <1>3, <1>5
  <2>3. data' \in Seq(Element) /\ Len(data') = Len(data) /\ DOMAIN data' = DOMAIN data
    BY <1>2, <1>3, <2>1, <2>2, ExceptSeq DEF Queue!size
  <2>4. QED
    BY <1>3, <1>5, <2>2, <2>3 DEF Queue!size
<1>7. \A k \in 1 .. n : /\ data'[k].id = data[k].id /\ data'[k].distance = data[k].distance
                        /\ data'[k].expanded <=> data[k].expanded \/ k = cur + 1
  BY <1>2, <1>3, <1>6 DEF Element
<1>8. /\ cur' \in cur .. n
      /\ \A j \in cur + 1 .. cur' : data'[j].expanded
      /\ cur' < n => ~data'[cur' + 1].expanded
  <2>1. \A flags : \E k \in cur .. n :
              /\ k = Queue!NextUnexpanded(flags)
              /\ \A j \in cur + 1 .. k : flags[j].expanded
              /\ k < n => ~flags[k + 1].expanded
    BY <1>1, <1>2, <1>3, CursorStops
  <2>2. PICK k \in cur .. n :
              /\ k = Queue!NextUnexpanded(data')
              /\ \A j \in cur + 1 .. k : data'[j].expanded
              /\ k < n => ~data'[k + 1].expanded
    BY <2>1
  <2>3. k = cur'
    BY <1>1, <2>2
  <2>4. QED
    BY <2>2, <2>3
<1>9. Queue!TypeOK'
  <2>1. cur' \in 0 .. n
    BY <1>2, <1>3, <1>8
  <2>2. QED
    BY <1>1, <1>2, <1>6, <2>1 DEF Queue!TypeOK, Element
<1>10. Queue!Sorted' /\ Queue!OwnDistances'
  BY <1>1, <1>6, <1>7 DEF ArrayInv, Queue!Sorted, Queue!OwnDistances, Queue!Less
<1>11. Queue!CursorOnFirst'
  <2>1. ASSUME NEW k \in 1 .. cur' PROVE data'[k].expanded
    <3>1. CASE k \in 1 .. cur
      <4>1. k \in 1 .. n
        BY <1>2, <1>3, <3>1
      <4>2. QED
        BY <1>4, <1>7, <3>1, <4>1
    <3>2. CASE k \notin 1 .. cur
      <4>1. k \in cur + 1 .. cur'
        BY <1>2, <1>3, <1>8, <3>2
      <4>2. QED
        BY <1>8, <4>1
    <3>3. QED
      BY <3>1, <3>2
  <2>2. QED
    BY <1>6, <1>8, <2>1 DEF Queue!CursorOnFirst, Queue!At
<1>12. Queue!Ids' = Queue!Ids
  BY <1>6, <1>7 DEF Queue!Ids
<1>13. /\ \A k \in 1 .. n : data[k].id \in Queue!Expanded <=> data[k].expanded
       /\ Queue!Expanded \subseteq Queue!Ids
  BY ExpandedFacts
<1>14. Queue!Expanded' = Queue!Expanded \cup {i}
  <2>1. \A x : x \in Queue!Expanded' <=> \E k \in 1 .. n : data'[k].expanded /\ x = data'[k].id
    BY <1>6 DEF Queue!Expanded
  <2>2. \A x : x \in Queue!Expanded <=> \E k \in 1 .. n : data[k].expanded /\ x = data[k].id
    BY DEF Queue!Expanded
  <2>3. QED
    BY <1>3, <1>7, <2>1, <2>2
<1>15. i \in Queue!Ids \ Queue!Expanded
  BY <1>2, <1>3, <1>4, <1>13
<1>16. ASSUME NEW j \in Queue!Ids \ Queue!Expanded, j # i PROVE P!Closer(i, j)
  <2>1. PICK k \in 1 .. n : data[k].id = j
    BY <1>2
  <2>2. ~data[k].expanded /\ k # cur + 1
    BY <1>13, <1>16, <2>1
  <2>3. k \notin 1 .. cur
    BY <1>4, <2>2
  <2>4. cur + 1 < k
    BY <1>2, <1>3, <2>2, <2>3
  <2>5. QED
    BY <1>2, <1>3, <2>1, <2>4
<1>17. P!Expand(i)
  BY <1>1, <1>12, <1>14, <1>15, <1>16 DEF P!Expand
<1>18. QED
  BY <1>3, <1>9, <1>10, <1>11, <1>17 DEF ArrayInv

\* clear() starts a pool for another query.
LEMMA ClearStep == Queue!clear => ArrayInv' /\ P!Clear
<1> SUFFICES ASSUME Queue!clear PROVE ArrayInv' /\ P!Clear
  OBVIOUS
<1>1. /\ data' = <<>> /\ curUnexpanded' = 0 /\ dist' \in [Id -> Distance]
      /\ offered' = {} /\ returned' = {}
  BY DEF Queue!clear
<1>2. data' \in Seq(Element) /\ Queue!size' = 0
  BY <1>1 DEF Queue!size
<1>3. Queue!Ids' = {} /\ Queue!Expanded' = {}
  BY <1>2 DEF Queue!Ids, Queue!Expanded
<1>4. ArrayInv'
  BY <1>1, <1>2, CapacityAssumption
  DEF ArrayInv, Queue!TypeOK, Queue!Sorted, Queue!OwnDistances, Queue!CursorOnFirst, Element
<1>5. QED
  BY <1>1, <1>3, <1>4 DEF P!Clear

\* The new queue is an empty pool.
LEMMA QueueInit == Queue!Init => ArrayInv /\ P!Init
<1> SUFFICES ASSUME Queue!Init PROVE ArrayInv /\ P!Init
  OBVIOUS
<1>1. /\ data = <<>> /\ curUnexpanded = 0 /\ dist \in [Id -> Distance]
      /\ offered = {} /\ returned = {}
  BY DEF Queue!Init
<1>2. data \in Seq(Element) /\ Queue!size = 0
  BY <1>1 DEF Queue!size
<1>3. Queue!Ids = {} /\ Queue!Expanded = {}
  BY <1>2 DEF Queue!Ids, Queue!Expanded
<1>4. ArrayInv
  BY <1>1, <1>2, CapacityAssumption
  DEF ArrayInv, Queue!TypeOK, Queue!Sorted, Queue!OwnDistances, Queue!CursorOnFirst, Element
<1>5. QED
  BY <1>1, <1>3, <1>4 DEF P!Init

-----------------------------------------------------------------------------
\* The pool that SearchQueue means is the one of the facts above.

\* The two instances of the pool have the same operators.
LEMMA SameClosest ==
    /\ \A S : P!Cardinality(S) = Queue!Cardinality(S)
    /\ \A S : P!Cardinality(S) = Queue!Pool!Cardinality(S)
    /\ \A S : P!IsFiniteSet(S) <=> Queue!Pool!IsFiniteSet(S)
    /\ \A S : P!Closest(S) = Queue!Closest(S)
    /\ \A S : P!Closest(S) = Queue!Pool!Closest(S)
<1>1. ASSUME NEW S PROVE P!Cardinality(S) = Queue!Cardinality(S)
  BY DEF P!Cardinality, Queue!Cardinality
<1>2. ASSUME NEW S PROVE P!Cardinality(S) = Queue!Pool!Cardinality(S)
  BY DEF P!Cardinality, Queue!Pool!Cardinality
<1>3. ASSUME NEW S PROVE P!IsFiniteSet(S) <=> Queue!Pool!IsFiniteSet(S)
  BY DEF P!IsFiniteSet, Queue!Pool!IsFiniteSet
<1>4. ASSUME NEW S PROVE P!Closest(S) = Queue!Closest(S)
  BY <1>1 DEF P!Closest, Queue!Closest, P!Closer, Queue!Closer
<1>5. ASSUME NEW S PROVE P!Closest(S) = Queue!Pool!Closest(S)
  BY <1>2 DEF P!Closest, Queue!Pool!Closest, P!Closer, Queue!Pool!Closer
<1>6. QED
  BY <1>1, <1>2, <1>3, <1>4, <1>5

\* The two instances of the pool have the same steps and the same invariant.
LEMMA SamePool ==
    /\ P!Init <=> Queue!Pool!Init
    /\ P!IInv <=> Queue!Pool!IInv
    /\ \A i : P!Insert(i) => Queue!Pool!Insert(i)
    /\ \A i : P!Expand(i) => Queue!Pool!Expand(i)
    /\ P!Clear => Queue!Pool!Clear
<1>1. P!Init <=> Queue!Pool!Init
  BY DEF P!Init, Queue!Pool!Init
<1>2. P!IInv <=> Queue!Pool!IInv
  <2>1. P!TypeOK <=> Queue!Pool!TypeOK
    BY SameClosest DEF P!TypeOK, Queue!Pool!TypeOK
  <2>2. P!HoldsClosest <=> Queue!Pool!HoldsClosest
    BY SameClosest DEF P!HoldsClosest, Queue!Pool!HoldsClosest
  <2>3. P!HandedOnce <=> Queue!Pool!HandedOnce
    BY DEF P!HandedOnce, Queue!Pool!HandedOnce
  <2>4. QED
    BY <2>1, <2>2, <2>3 DEF P!IInv, Queue!Pool!IInv
<1>3. ASSUME NEW i, P!Insert(i) PROVE Queue!Pool!Insert(i)
  BY <1>3, SameClosest DEF P!Insert, Queue!Pool!Insert
<1>4. ASSUME NEW i, P!Expand(i) PROVE Queue!Pool!Expand(i)
  BY <1>4 DEF P!Expand, Queue!Pool!Expand, P!Closer, Queue!Pool!Closer
<1>5. P!Clear => Queue!Pool!Clear
  BY DEF P!Clear, Queue!Pool!Clear
<1>6. QED
  BY <1>1, <1>2, <1>3, <1>4, <1>5

-----------------------------------------------------------------------------
\* The cache.

\* A step of the cache is an operation of each of its two parts, or none.
LEMMA CacheStep ==
    ASSUME [NextCache]_cacheVars
    PROVE  /\ [Next]_vars
           /\ \/ \E i \in Id : Queue!insert(i)
              \/ Queue!get_closest_unexpanded
              \/ Queue!clear
              \/ UNCHANGED queueVars
<1>1. CASE startDrawing
  BY <1>1 DEF startDrawing, Next
<1>2. CASE startSearch
  BY <1>2 DEF startSearch, Next
<1>3. CASE expand
  BY <1>3 DEF expand
<1>4. ASSUME NEW i \in Id, draw(i) \/ enter(i) \/ enterMarked(i) \/ visit(i)
      PROVE  /\ [Next]_vars
             /\ UNCHANGED queueVars \/ Queue!insert(i)
  <2>1. i \in Elem
    BY ElemAssumption
  <2>2. CASE draw(i)
    BY <2>1, <2>2 DEF draw, Next
  <2>3. CASE enter(i)
    BY <2>3 DEF enter
  <2>4. CASE enterMarked(i)
    BY <2>1, <2>4 DEF enterMarked, markAndOffer, Next
  <2>5. CASE visit(i)
    BY <2>1, <2>5 DEF visit, markAndOffer, Next
  <2>6. QED
    BY <1>4, <2>2, <2>3, <2>4, <2>5
<1>5. CASE UNCHANGED cacheVars
  BY <1>5 DEF cacheVars
<1>6. QED
  BY <1>1, <1>2, <1>3, <1>4, <1>5 DEF NextCache

\* Every operation of the queue is one of the pool.
LEMMA PoolStep ==
    ASSUME ArrayInv,
           \/ \E i \in Id : Queue!insert(i)
           \/ Queue!get_closest_unexpanded
           \/ Queue!clear
           \/ UNCHANGED queueVars
    PROVE  /\ ArrayInv'
           /\ [P!Next]_P!vars
<1>1. ASSUME NEW i \in Id, Queue!insert(i) PROVE ArrayInv' /\ P!Next
  BY <1>1, InsertStep DEF P!Next
<1>2. CASE Queue!get_closest_unexpanded
  BY <1>2, ExpandStep DEF P!Next
<1>3. CASE Queue!clear
  BY <1>3, ClearStep DEF P!Next
<1>4. CASE UNCHANGED queueVars
  BY <1>4, ArrayUnchanged DEF queueVars, P!vars
<1>5. QED
  BY <1>1, <1>2, <1>3, <1>4

\* What the owner of the cache does keeps the marks among the offered vectors.
LEMMA StageNext == StageInv /\ [NextCache]_cacheVars => StageInv'
<1> SUFFICES ASSUME StageInv, [NextCache]_cacheVars PROVE StageInv'
  OBVIOUS
<1> USE DEF StageInv
<1>1. CASE startDrawing
  BY <1>1 DEF startDrawing, clear
<1>2. CASE startSearch
  BY <1>2 DEF startSearch, clear
<1>3. CASE expand
  BY <1>3 DEF expand, Queue!get_closest_unexpanded, vars
<1>4. ASSUME NEW i \in Id, draw(i) \/ enter(i) \/ enterMarked(i) \/ visit(i) PROVE StageInv'
  <2>1. Queue!insert(i) => offered' = offered \cup {i}
    BY Zenon DEF Queue!insert
  <2>2. CASE draw(i)
    BY <2>2 DEF draw, set
  <2>3. CASE enter(i)
    BY <2>1, <2>3 DEF enter, vars
  <2>4. CASE enterMarked(i)
    BY <2>1, <2>4 DEF enterMarked, markAndOffer, set
  <2>5. CASE visit(i)
    BY <2>1, <2>5 DEF visit, markAndOffer, set
  <2>6. QED
    BY <1>4, <2>2, <2>3, <2>4, <2>5
<1>5. CASE UNCHANGED cacheVars
  BY <1>5 DEF cacheVars, vars, queueVars
<1>6. QED
  BY <1>1, <1>2, <1>3, <1>4, <1>5 DEF NextCache

\* CacheInv, with the pool of the facts above.
ProofInv == IInv /\ ArrayInv /\ P!IInv /\ StageInv

\* All parts of the invariant hold together in every state.
LEMMA ProofInvariance == SpecCache => []ProofInv
<1>1. InitCache => ProofInv
  <2> SUFFICES ASSUME InitCache PROVE ProofInv
    OBVIOUS
  <2>1. IInv
    BY MarksInit DEF InitCache
  <2>2. ArrayInv /\ P!Init
    BY QueueInit DEF InitCache
  <2>3. P!IInv
    BY <2>2, PoolInit
  <2>4. QED
    BY <2>1, <2>2, <2>3 DEF InitCache, ProofInv, StageInv
<1>2. ProofInv /\ [NextCache]_cacheVars => ProofInv'
  <2> SUFFICES ASSUME ProofInv, [NextCache]_cacheVars PROVE ProofInv'
    OBVIOUS
  <2>1. ArrayInv' /\ [P!Next]_P!vars
    BY CacheStep, PoolStep DEF ProofInv
  <2>2. IInv'
    BY CacheStep, MarksNext DEF ProofInv
  <2>3. P!IInv'
    BY <2>1, PoolNext DEF ProofInv
  <2>4. StageInv'
    BY StageNext DEF ProofInv
  <2>5. QED
    BY <2>1, <2>2, <2>3, <2>4 DEF ProofInv
<1>3. QED
  BY <1>1, <1>2, PTL DEF SpecCache

(***************************************************************************)
(* The inductive invariant: what the marks, the array and the owner of the *)
(* cache keep together.                                                    *)
(***************************************************************************)
THEOREM Invariance == SpecCache => []CacheInv
<1>1. ProofInv => CacheInv
  BY SamePool DEF ProofInv, CacheInv, ArrayInv, Queue!IInv
<1>2. QED
  BY ProofInvariance, <1>1, PTL

(***************************************************************************)
(* No stale mark is ever taken for a visit of the current search, whatever *)
(* the memory held and however often the counter has wrapped.              *)
(***************************************************************************)
THEOREM Exactness == SpecCache => []CheckIsExact
<1>1. ProofInv => CheckIsExact
  BY DEF ProofInv, IInv
<1>2. QED
  BY ProofInvariance, <1>1, PTL

(***************************************************************************)
(* In a search the visited set hides no vector that the queue has not been *)
(* offered.                                                                *)
(***************************************************************************)
THEOREM HidesNothing == SpecCache => []NothingHidden
<1>1. ProofInv => NothingHidden
  BY ElemAssumption DEF ProofInv, IInv, CheckIsExact, StageInv, NothingHidden
<1>2. QED
  BY ProofInvariance, <1>1, PTL

(***************************************************************************)
(* The array holds the Capacity closest of all candidates it was offered.  *)
(***************************************************************************)
THEOREM HoldsClosest == SpecCache => []HoldsClosestOffered
<1>1. ProofInv => HoldsClosestOffered
  BY SameClosest
  DEF ProofInv, P!IInv, P!HoldsClosest, HoldsClosestOffered, Queue!HoldsClosestOffered
<1>2. QED
  BY ProofInvariance, <1>1, PTL

(***************************************************************************)
(* The sorted array with its binary search and its cursor implements the   *)
(* pool of candidates: every insertion, expansion and clear() is one of    *)
(* the pool, and nothing else the cache does changes the pool.             *)
(***************************************************************************)
THEOREM Refinement == SpecCache => ImplementsPool
<1>1. InitCache => Queue!Pool!Init
  BY QueueInit, SamePool DEF InitCache
<1>2. ProofInv /\ [NextCache]_cacheVars => [Queue!Pool!Next]_(Queue!Pool!vars)
  <2> SUFFICES ASSUME ProofInv, [NextCache]_cacheVars
               PROVE  [Queue!Pool!Next]_(Queue!Pool!vars)
    OBVIOUS
  <2>1. [P!Next]_P!vars
    BY CacheStep, PoolStep DEF ProofInv
  <2>2. P!Next => Queue!Pool!Next
    BY SamePool DEF P!Next, Queue!Pool!Next
  <2>3. UNCHANGED P!vars => UNCHANGED Queue!Pool!vars
    BY DEF P!vars, Queue!Pool!vars
  <2>4. QED
    BY <2>1, <2>2, <2>3
<1>3. QED
  BY ProofInvariance, <1>1, <1>2, PTL
  DEF SpecCache, ImplementsPool, Queue!ImplementsPool, Queue!Pool!Spec
=============================================================================
