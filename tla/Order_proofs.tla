---------------------------- MODULE Order_proofs ----------------------------
(***************************************************************************)
(* Facts about orders that the proofs of several components rest on: the   *)
(* natural numbers, the order of the groups by their label sets, and the   *)
(* closest members of a set under any total order.                         *)
(***************************************************************************)
EXTENDS GroupOrder, FiniteSetTheorems, WellFoundedInduction, TLAPS

-----------------------------------------------------------------------------
\* Natural numbers.

\* A non-empty set of natural numbers has a least one.
LEMMA LeastNat ==
    ASSUME NEW B, B \subseteq Nat, B # {}
    PROVE  \E k \in B : \A j \in B : k <= j
<1>1. IsWellFoundedOn(OpToRel(<, Nat), Nat)
  BY NatLessThanWellFounded
<1>2. PICK k \in B : \A j \in B : ~ (<<j, k>> \in OpToRel(<, Nat))
  BY <1>1, WFMin, Zenon
<1>3. ASSUME NEW j \in B PROVE k <= j
  <2>1. <<j, k>> \notin OpToRel(<, Nat)
    BY <1>2
  <2>2. j \in Nat /\ k \in Nat
    OBVIOUS
  <2>3. ~ (j < k)
    BY <2>1, <2>2 DEF OpToRel
  <2>4. QED
    BY <2>2, <2>3
<1>4. QED
  BY <1>3

\* Induction, for a set of natural numbers.
LEMMA SetInduction ==
    ASSUME NEW K, 0 \in K, \A k \in Nat : k \in K => k + 1 \in K
    PROVE  \A k \in Nat : k \in K
<1> SUFFICES ASSUME NEW n \in Nat, n \notin K PROVE FALSE
  OBVIOUS
<1> DEFINE B == Nat \ K
<1>1. PICK k \in B : \A j \in B : k <= j
  <2> HIDE DEF B
  <2>1. B \subseteq Nat /\ B # {}
    BY DEF B
  <2>2. QED
    BY <2>1, LeastNat
<1>2. k # 0 /\ k - 1 \in Nat
  OBVIOUS
<1>3. k - 1 \in K
  BY <1>1, <1>2
<1>4. QED
  BY <1>2, <1>3

-----------------------------------------------------------------------------
\* Sets of labels and the order of the groups.

(***************************************************************************)
(* A non-empty family of sets of labels has a minimal member.              *)
(***************************************************************************)
LEMMA MinimalMember ==
    ASSUME NEW S, IsFiniteSet(S), NEW F, F \subseteq SUBSET S, F # {}
    PROVE  \E A \in F : \A B \in F : B \subseteq A => B = A
<1>1. FiniteSubsetsOf(S) = SUBSET S
  BY FS_FiniteSubsetsOfFinite
<1>2. IsWellFoundedOn(StrictSubsetOrdering(S), SUBSET S)
  BY <1>1, FS_StrictSubsetOrderingWellFounded
<1>3. PICK A \in F : \A B \in F : ~ (<<B, A>> \in StrictSubsetOrdering(S))
  BY <1>2, WFMin, Zenon
<1>4. ASSUME NEW B \in F, B \subseteq A PROVE B = A
  <2>1. A \in SUBSET S /\ B \in SUBSET S
    OBVIOUS
  <2>2. SUFFICES ASSUME B # A PROVE FALSE
    OBVIOUS
  <2>3. <<B, A>> \in StrictSubsetOrdering(S)
    BY <1>4, <2>1, <2>2 DEF StrictSubsetOrdering
  <2>4. QED
    BY <1>3, <2>3
<1>5. QED
  BY <1>4

(***************************************************************************)
(* A non-empty set of groups has a group of greatest label set (no other   *)
(* one of the set contains it), and one of least label set.                *)
(***************************************************************************)
LEMMA GreatestGroup ==
    ASSUME NEW Group, NEW Label, IsFiniteSet(Label), NEW ls \in LabelSets(Group, Label),
           NEW T, T \subseteq Group, T # {}
    PROVE  \E f \in T : \A h \in T : ls[f] \subseteq ls[h] => h = f
<1> DEFINE F == {Label \ ls[f] : f \in T}
<1>1. F \subseteq SUBSET Label /\ F # {}
  OBVIOUS
<1> HIDE DEF F
<1>2. PICK A \in F : \A B \in F : B \subseteq A => B = A
  BY <1>1, MinimalMember
<1>3. PICK f \in T : A = Label \ ls[f]
  BY DEF F
<1>4. ASSUME NEW h \in T, ls[f] \subseteq ls[h] PROVE h = f
  <2>1. ls[f] \subseteq Label /\ ls[h] \subseteq Label
    BY DEF LabelSets
  <2>2. Label \ ls[h] \in F
    BY DEF F
  <2>3. Label \ ls[h] = Label \ ls[f]
    BY <1>2, <1>3, <1>4, <2>2
  <2>4. ls[h] = ls[f]
    BY <2>1, <2>3
  <2>5. QED
    BY <2>4 DEF LabelSets
<1>5. QED
  BY <1>4

\* A non-empty set of groups has a member with no other of its label sets below.
LEMMA LeastGroup ==
    ASSUME NEW Group, NEW Label, IsFiniteSet(Label), NEW ls \in LabelSets(Group, Label),
           NEW T, T \subseteq Group, T # {}
    PROVE  \E f \in T : \A h \in T : ls[h] \subseteq ls[f] => h = f
<1> DEFINE F == {ls[f] : f \in T}
<1>1. F \subseteq SUBSET Label /\ F # {}
  BY DEF LabelSets
<1> HIDE DEF F
<1>2. PICK A \in F : \A B \in F : B \subseteq A => B = A
  BY <1>1, MinimalMember
<1>3. PICK f \in T : A = ls[f]
  BY DEF F
<1>4. ASSUME NEW h \in T, ls[h] \subseteq ls[f] PROVE h = f
  <2>1. ls[h] = ls[f]
    BY <1>2, <1>3, <1>4 DEF F
  <2>2. QED
    BY <2>1 DEF LabelSets
<1>5. QED
  BY <1>4

(***************************************************************************)
(* A qualified group that is not minimal is a direct child of a qualified  *)
(* group: this is why tfng2 may look at the children only, provided it     *)
(* looks at those of EVERY qualified group.                                *)
(***************************************************************************)
LEMMA CoveredByQualified ==
    ASSUME NEW Group, NEW Label, IsFiniteSet(Label), NEW ls \in LabelSets(Group, Label),
           NEW q, NEW g \in Qualified(ls, q), g \notin Minimal(ls, Qualified(ls, q))
    PROVE  \E f \in Qualified(ls, q) : g \in Child(ls, f)
<1> DEFINE T == {f \in Qualified(ls, q) : ls[f] \subseteq ls[g] /\ f # g}
<1>1. T \subseteq Group /\ T # {} /\ DOMAIN ls = Group
  BY DEF LabelSets, Qualified, Minimal
<1>2. \A f \in T : f \in Qualified(ls, q) /\ ls[f] \subseteq ls[g] /\ f # g
  OBVIOUS
<1>3. \A f \in Qualified(ls, q) : ls[f] \subseteq ls[g] /\ f # g => f \in T
  OBVIOUS
<1> HIDE DEF T
<1>4. PICK f \in T : \A h \in T : ls[f] \subseteq ls[h] => h = f
  BY <1>1, GreatestGroup
<1>5. g \in Above(ls, f) /\ f \in Qualified(ls, q)
  BY <1>1, <1>2 DEF Above, Qualified
<1>6. ASSUME NEW h \in Above(ls, f), ls[h] \subseteq ls[g] PROVE h = g
  <2>1. SUFFICES ASSUME h # g PROVE FALSE
    OBVIOUS
  <2>2. h \in T
    <3>1. q \subseteq ls[f] /\ ls[f] \subseteq ls[h] /\ h \in DOMAIN ls
      BY <1>5, <1>6 DEF Above, Qualified
    <3>2. h \in Qualified(ls, q)
      BY <3>1 DEF Qualified
    <3>3. QED
      BY <1>6, <1>3, <2>1, <3>2
  <2>3. QED
    BY <1>4, <2>2 DEF Above
<1>7. QED
  BY <1>5, <1>6 DEF Child, Minimal

(***************************************************************************)
(* A set of groups closed under direct children holds everything above its *)
(* members: a complete traversal of the navigation graph reaches every     *)
(* super set.                                                              *)
(***************************************************************************)
LEMMA ClosedIsUpward ==
    ASSUME NEW Group, NEW Label, IsFiniteSet(Label), NEW ls \in LabelSets(Group, Label),
           NEW V, V \subseteq Group, \A c \in V : Child(ls, c) \subseteq V,
           NEW m \in V, NEW h \in Group, ls[m] \subseteq ls[h]
    PROVE  h \in V
<1> DEFINE T == {v \in V : ls[v] \subseteq ls[h]}
<1>1. T \subseteq Group /\ T # {} /\ DOMAIN ls = Group
  BY DEF LabelSets
<1>2. \A w \in V : w \in T <=> ls[w] \subseteq ls[h]
  OBVIOUS
<1>3. \A w \in T : w \in V
  OBVIOUS
<1> HIDE DEF T
<1>4. PICK v \in T : \A w \in T : ls[v] \subseteq ls[w] => w = v
  BY <1>1, GreatestGroup
<1>5. SUFFICES ASSUME v # h PROVE FALSE
  BY <1>3
<1> DEFINE U == {w \in Above(ls, v) : ls[w] \subseteq ls[h]}
<1>6. U \subseteq Group /\ U # {}
  BY <1>1, <1>5, <1>2, <1>3 DEF Above
<1>7. \A w : w \in U <=> w \in Above(ls, v) /\ ls[w] \subseteq ls[h]
  OBVIOUS
<1> HIDE DEF U
<1>8. PICK w \in U : \A x \in U : ls[x] \subseteq ls[w] => x = w
  BY <1>6, LeastGroup
<1>9. w \in Child(ls, v)
  <2>1. ASSUME NEW x \in Above(ls, v), ls[x] \subseteq ls[w] PROVE x = w
    <3>1. ls[x] \subseteq ls[h]
      BY <1>8, <1>7, <2>1
    <3>2. QED
      BY <1>8, <1>7, <2>1, <3>1
  <2>2. QED
    BY <1>8, <1>7, <2>1 DEF Child, Minimal
<1>10. w \in T
  <2>1. w \in V
    BY <1>3, <1>9
  <2>2. QED
    BY <1>8, <1>2, <1>7, <2>1
<1>11. QED
  BY <1>4, <1>8, <1>10, <1>7 DEF Above

-----------------------------------------------------------------------------
\* The closest members of a set, under a total order given as a set of pairs.

TotalOn(R, D) ==
    /\ \A i \in D : <<i, i>> \notin R
    /\ \A i, j, k \in D : <<i, j>> \in R /\ <<j, k>> \in R => <<i, k>> \in R
    /\ \A i, j \in D : i # j => <<i, j>> \in R \/ <<j, i>> \in R

Nearer(R, S, i) == {j \in S : <<j, i>> \in R}
Nearest(R, S, cap) == {i \in S : Cardinality(Nearer(R, S, i)) < cap}

(***************************************************************************)
(* A finite set has a closest member and a farthest one.                   *)
(***************************************************************************)
LEMMA ClosestMember ==
    ASSUME NEW D, NEW R, TotalOn(R, D), NEW S, S \subseteq D, IsFiniteSet(S), S # {}
    PROVE  \E j \in S : \A k \in S : k # j => <<j, k>> \in R
<1> DEFINE F == {Nearer(R, S, j) : j \in S}
<1>1. F \subseteq SUBSET S /\ F # {}
  BY DEF Nearer
<1>2. \A j \in S : Nearer(R, S, j) \in F
  OBVIOUS
<1>3. \A A \in F : \E j \in S : A = Nearer(R, S, j)
  OBVIOUS
<1> HIDE DEF F
<1>4. PICK A \in F : \A B \in F : B \subseteq A => B = A
  BY <1>1, MinimalMember
<1>5. PICK j \in S : A = Nearer(R, S, j)
  BY <1>3
<1>6. ASSUME NEW k \in S, k # j PROVE <<j, k>> \in R
  <2>1. SUFFICES ASSUME <<k, j>> \in R PROVE FALSE
    BY <1>6 DEF TotalOn
  <2>2. Nearer(R, S, k) \subseteq Nearer(R, S, j)
    BY <2>1 DEF Nearer, TotalOn
  <2>3. Nearer(R, S, k) = Nearer(R, S, j)
    BY <1>2, <1>4, <1>5, <2>2
  <2>4. k \in Nearer(R, S, k)
    BY <2>1, <2>3 DEF Nearer
  <2>5. QED
    BY <2>4 DEF Nearer, TotalOn
<1>7. QED
  BY <1>6

\* A finite non-empty set has a farthest member in a total order.
LEMMA FarthestMember ==
    ASSUME NEW D, NEW R, TotalOn(R, D), NEW S, S \subseteq D, IsFiniteSet(S), S # {}
    PROVE  \E j \in S : \A k \in S : k # j => <<k, j>> \in R
<1> DEFINE F == {S \ Nearer(R, S, j) : j \in S}
<1>1. F \subseteq SUBSET S /\ F # {}
  OBVIOUS
<1>2. \A j \in S : S \ Nearer(R, S, j) \in F
  OBVIOUS
<1>3. \A A \in F : \E j \in S : A = S \ Nearer(R, S, j)
  OBVIOUS
<1> HIDE DEF F
<1>4. PICK A \in F : \A B \in F : B \subseteq A => B = A
  BY <1>1, MinimalMember
<1>5. PICK j \in S : A = S \ Nearer(R, S, j)
  BY <1>3
<1>6. ASSUME NEW k \in S, k # j PROVE <<k, j>> \in R
  <2>1. SUFFICES ASSUME <<j, k>> \in R PROVE FALSE
    BY <1>6 DEF TotalOn
  <2>2. Nearer(R, S, j) \subseteq Nearer(R, S, k)
    BY <2>1 DEF Nearer, TotalOn
  <2>3. S \ Nearer(R, S, k) = S \ Nearer(R, S, j)
    BY <1>2, <1>4, <1>5, <2>2
  <2>4. j \in Nearer(R, S, j)
    BY <2>1, <2>3 DEF Nearer
  <2>5. QED
    BY <2>4 DEF Nearer, TotalOn
<1>7. QED
  BY <1>6

\* The order of the natural numbers, as such a set of pairs.
Smaller == {p \in Nat \X Nat : p[1] < p[2]}

\* A finite non-empty set of natural numbers has a greatest one.
LEMMA GreatestNat ==
    ASSUME NEW S, S \subseteq Nat, IsFiniteSet(S), S # {}
    PROVE  \E k \in S : \A j \in S : j <= k
<1>1. TotalOn(Smaller, Nat)
  BY DEF TotalOn, Smaller
<1>2. PICK k \in S : \A j \in S : j # k => <<j, k>> \in Smaller
  <2>1. ASSUME NEW D, TotalOn(Smaller, D), NEW T, T \subseteq D, IsFiniteSet(T), T # {}
        PROVE  \E k \in T : \A j \in T : j # k => <<j, k>> \in Smaller
    BY <2>1, FarthestMember
  <2>2. QED
    BY <1>1, <2>1
<1>3. ASSUME NEW j \in S PROVE j <= k
  <2>1. j # k => <<j, k>> \in Smaller
    BY <1>2
  <2>2. QED
    BY <2>1 DEF Smaller
<1>4. QED
  BY <1>3

(***************************************************************************)
(* There are at most cap closest members.                                  *)
(***************************************************************************)
LEMMA NearestBounded ==
    ASSUME NEW D, NEW R, TotalOn(R, D), NEW S, S \subseteq D, IsFiniteSet(S),
           NEW cap \in Nat
    PROVE  Cardinality(Nearest(R, S, cap)) <= cap
<1> DEFINE C == Nearest(R, S, cap)
<1>1. C \subseteq S /\ \A i \in C : Cardinality(Nearer(R, S, i)) < cap
  BY DEF Nearest, Nearer
<1> HIDE DEF C
<1>2. IsFiniteSet(C) /\ Cardinality(C) \in Nat
  BY <1>1, FS_Subset, FS_CardinalityType
<1>3. CASE C = {}
  BY <1>3, FS_EmptySet DEF C
<1>4. CASE C # {}
  <2>1. PICK m \in C : \A k \in C : k # m => <<k, m>> \in R
    BY <1>1, <1>2, <1>4, FarthestMember
  <2>2. C \ {m} \subseteq Nearer(R, S, m)
    BY <1>1, <2>1 DEF Nearer
  <2>3. IsFiniteSet(Nearer(R, S, m)) /\ Cardinality(Nearer(R, S, m)) \in Nat
    <3>1. Nearer(R, S, m) \subseteq S
      BY DEF Nearer
    <3>2. QED
      BY <3>1, FS_Subset, FS_CardinalityType
  <2>4. Cardinality(C \ {m}) <= Cardinality(Nearer(R, S, m))
    BY <2>2, <2>3, FS_Subset
  <2>5. Cardinality(C \ {m}) = Cardinality(C) - 1
    BY <1>2, FS_RemoveElement
  <2>6. QED
    BY <1>1, <1>2, <2>3, <2>4, <2>5 DEF C
<1>5. QED
  BY <1>3, <1>4

(***************************************************************************)
(* What is not among the closest can be forgotten: the closest of the kept *)
(* ones and some new ones are the closest of all and the new ones.         *)
(***************************************************************************)
LEMMA NearestAgain ==
    ASSUME NEW D, NEW R, TotalOn(R, D), NEW S, S \subseteq D, IsFiniteSet(S),
           NEW N, N \subseteq D, IsFiniteSet(N), NEW cap \in Nat
    PROVE  Nearest(R, Nearest(R, S, cap) \cup N, cap) = Nearest(R, S \cup N, cap)
<1> DEFINE C == Nearest(R, S, cap)
           T == S \cup N
           U == C \cup N
<1>1. /\ C \subseteq S
      /\ \A j \in S : j \in C <=> Cardinality(Nearer(R, S, j)) < cap
  BY DEF Nearest, Nearer
<1>2. U \subseteq T /\ T \subseteq D /\ S \subseteq T /\ T = S \cup N /\ U = C \cup N
  BY <1>1
<1>3. /\ \A c : c \in Nearest(R, T, cap) <=> c \in T /\ Cardinality(Nearer(R, T, c)) < cap
      /\ \A c : c \in Nearest(R, U, cap) <=> c \in U /\ Cardinality(Nearer(R, U, c)) < cap
  BY DEF Nearest, Nearer
<1> HIDE DEF C, T, U
<1>4. IsFiniteSet(T)
  BY <1>2, FS_Union
<1>5. \A c : IsFiniteSet(Nearer(R, T, c)) /\ Cardinality(Nearer(R, T, c)) \in Nat
  <2>1. TAKE c
  <2>2. Nearer(R, T, c) \subseteq T
    BY DEF Nearer
  <2>3. QED
    BY <1>4, <2>2, FS_Subset, FS_CardinalityType
<1>6. \A c, V, W : W \subseteq V /\ V \subseteq T =>
          Cardinality(Nearer(R, W, c)) <= Cardinality(Nearer(R, V, c))
  <2>1. SUFFICES ASSUME NEW c, NEW V, NEW W, W \subseteq V, V \subseteq T
                 PROVE  Cardinality(Nearer(R, W, c)) <= Cardinality(Nearer(R, V, c))
    OBVIOUS
  <2>2. Nearer(R, W, c) \subseteq Nearer(R, V, c) /\ Nearer(R, V, c) \subseteq Nearer(R, T, c)
    BY <2>1 DEF Nearer
  <2>3. IsFiniteSet(Nearer(R, V, c))
    BY <1>5, <2>2, FS_Subset
  <2>4. QED
    BY <2>2, <2>3, FS_Subset
<1>7. \A c, V : V \subseteq T => Cardinality(Nearer(R, V, c)) \in Nat
  <2>1. SUFFICES ASSUME NEW c, NEW V, V \subseteq T PROVE Cardinality(Nearer(R, V, c)) \in Nat
    OBVIOUS
  <2>2. Nearer(R, V, c) \subseteq Nearer(R, T, c)
    BY <2>1 DEF Nearer
  <2>3. QED
    BY <1>5, <2>2, FS_Subset, FS_CardinalityType
<1>8. ASSUME NEW c \in Nearest(R, T, cap) PROVE c \in Nearest(R, U, cap)
  <2>1. c \in T /\ Cardinality(Nearer(R, T, c)) < cap
    BY <1>3, <1>8
  <2>2. c \in U
    <3>1. Cardinality(Nearer(R, S, c)) <= Cardinality(Nearer(R, T, c))
      BY <1>2, <1>6
    <3>2. Cardinality(Nearer(R, S, c)) < cap
      BY <1>2, <1>7, <2>1, <3>1
    <3>3. QED
      BY <1>1, <1>2, <2>1, <3>2
  <2>3. Cardinality(Nearer(R, U, c)) <= Cardinality(Nearer(R, T, c))
    BY <1>2, <1>6
  <2>4. Cardinality(Nearer(R, U, c)) < cap
    BY <1>2, <1>7, <2>1, <2>3
  <2>5. QED
    BY <1>3, <2>2, <2>4
<1>9. ASSUME NEW c \in Nearest(R, U, cap) PROVE c \in Nearest(R, T, cap)
  <2>1. c \in U /\ c \in T /\ c \in D /\ Cardinality(Nearer(R, U, c)) < cap
    BY <1>2, <1>3, <1>9
  <2> DEFINE Lost == {j \in S \ C : <<j, c>> \in R}
  <2>2. CASE Lost = {}
    <3>1. Nearer(R, T, c) = Nearer(R, U, c)
      BY <1>2, <2>2 DEF Nearer
    <3>2. QED
      BY <1>3, <2>1, <3>1
  <2>3. CASE Lost # {}
    <3>1. Lost \subseteq D /\ IsFiniteSet(Lost)
      <4>1. Lost \subseteq S
        OBVIOUS
      <4>2. QED
        BY <4>1, FS_Subset
    <3>2. PICK j \in Lost : \A k \in Lost : k # j => <<j, k>> \in R
      BY <2>3, <3>1, ClosestMember
    <3>3. j \in S /\ j \notin C /\ <<j, c>> \in R /\ j \in D
      BY <1>2
    <3>4. Nearer(R, S, j) \subseteq Nearer(R, U, c)
      <4>1. SUFFICES ASSUME NEW k \in S, <<k, j>> \in R PROVE k \in U /\ <<k, c>> \in R
        BY DEF Nearer
      <4>2. k \in D /\ <<k, c>> \in R
        BY <1>2, <2>1, <3>3, <4>1 DEF TotalOn
      <4>3. k \in C
        <5>1. SUFFICES ASSUME k \notin C PROVE FALSE
          OBVIOUS
        <5>2. k \in Lost
          BY <4>2, <5>1
        <5>3. k # j
          BY <3>3, <4>1 DEF TotalOn
        <5>4. <<j, k>> \in R
          BY <3>2, <5>2, <5>3
        <5>5. <<j, j>> \in R
          BY <3>3, <4>1, <4>2, <5>4 DEF TotalOn
        <5>6. QED
          BY <3>3, <5>5 DEF TotalOn
      <4>4. QED
        BY <1>2, <4>2, <4>3
    <3>5. Cardinality(Nearer(R, S, j)) <= Cardinality(Nearer(R, U, c))
      <4>1. Nearer(R, U, c) \subseteq Nearer(R, T, c)
        BY <1>2 DEF Nearer
      <4>2. IsFiniteSet(Nearer(R, U, c))
        BY <1>5, <4>1, FS_Subset
      <4>3. QED
        BY <3>4, <4>2, FS_Subset
    <3>6. Cardinality(Nearer(R, S, j)) < cap
      BY <1>2, <1>7, <2>1, <3>5
    <3>7. QED
      BY <1>1, <3>3, <3>6
  <2>4. QED
    BY <2>2, <2>3
<1>10. Nearest(R, U, cap) = Nearest(R, T, cap)
  BY <1>8, <1>9
<1>11. QED
  BY <1>10 DEF U, T, C

(***************************************************************************)
(* Of members in ascending order the first cap are the closest: what lets  *)
(* a sorted array drop its last element.                                   *)
(***************************************************************************)
LEMMA NearestOfSorted ==
    ASSUME NEW D, NEW R, TotalOn(R, D), NEW cap \in Nat, NEW n \in Nat, NEW m \in [1 .. n -> D],
           \A j, k \in 1 .. n : j < k => <<m[j], m[k]>> \in R
    PROVE  Nearest(R, {m[k] : k \in 1 .. n}, cap) = {m[k] : k \in {j \in 1 .. n : j <= cap}}
<1> DEFINE S == {m[k] : k \in 1 .. n}
<1>1. \A j, k \in 1 .. n : <<m[j], m[k]>> \in R <=> j < k
  <2> SUFFICES ASSUME NEW j \in 1 .. n, NEW k \in 1 .. n, <<m[j], m[k]>> \in R, ~(j < k)
               PROVE  FALSE
    OBVIOUS
  <2>1. k < j \/ k = j
    OBVIOUS
  <2>2. <<m[k], m[k]>> \in R
    BY <2>1 DEF TotalOn
  <2>3. QED
    BY <2>2 DEF TotalOn
<1>2. ASSUME NEW k \in 1 .. n PROVE Cardinality(Nearer(R, S, m[k])) = k - 1
  <2> DEFINE f == [j \in 1 .. k - 1 |-> m[j]]
             N == Nearer(R, S, m[k])
  <2>1. \A j \in 1 .. k - 1 : f[j] \in N
    <3> TAKE j \in 1 .. k - 1
    <3>1. j \in 1 .. n /\ j < k
      OBVIOUS
    <3>2. <<m[j], m[k]>> \in R /\ m[j] \in S
      BY <1>1, <3>1
    <3>3. QED
      BY <3>2 DEF Nearer
  <2>2. \A x \in N : \E j \in 1 .. k - 1 : f[j] = x
    <3> SUFFICES ASSUME NEW j \in 1 .. n, <<m[j], m[k]>> \in R PROVE j \in 1 .. k - 1
      BY DEF Nearer
    <3> QED
      BY <1>1
  <2>3. \A i, j \in 1 .. k - 1 : f[i] = f[j] => i = j
    <3> SUFFICES ASSUME NEW i \in 1 .. k - 1, NEW j \in 1 .. k - 1, m[i] = m[j], i # j
                 PROVE  FALSE
      OBVIOUS
    <3>1. i \in 1 .. n /\ j \in 1 .. n /\ (i < j \/ j < i)
      OBVIOUS
    <3>2. <<m[i], m[i]>> \in R /\ m[i] \in D
      BY <1>1, <3>1
    <3>3. QED
      BY <3>2 DEF TotalOn
  <2> HIDE DEF N
  <2>4. f \in Bijection(1 .. k - 1, N)
    BY <2>1, <2>2, <2>3 DEF Bijection, Injection, Surjection, IsInjective
  <2>5. ExistsBijection(1 .. k - 1, N) /\ k - 1 \in Nat
    BY <2>4 DEF ExistsBijection
  <2>6. QED
    BY <2>5, FS_CountingElements DEF N
<1>3. \A i : i \in Nearest(R, S, cap) <=> i \in S /\ Cardinality(Nearer(R, S, i)) < cap
  BY DEF Nearest, Nearer
<1>4. \A k \in 1 .. n : m[k] \in Nearest(R, S, cap) <=> k <= cap
  <2> TAKE k \in 1 .. n
  <2>1. m[k] \in Nearest(R, S, cap) <=> k - 1 < cap
    BY <1>2, <1>3
  <2>2. QED
    BY <2>1
<1>5. QED
  BY <1>3, <1>4

-----------------------------------------------------------------------------

(***************************************************************************)
(* All members of a small set are the closest.                             *)
(***************************************************************************)
LEMMA NearestOfFew ==
    ASSUME NEW D, NEW R, TotalOn(R, D), NEW S, S \subseteq D, IsFiniteSet(S),
           NEW cap \in Nat, Cardinality(S) <= cap
    PROVE  Nearest(R, S, cap) = S
<1>1. ASSUME NEW x \in S PROVE Cardinality(Nearer(R, S, x)) < cap
  <2>1. Nearer(R, S, x) \subseteq S \ {x}
    BY DEF Nearer, TotalOn
  <2>2. /\ IsFiniteSet(S \ {x}) /\ Cardinality(S \ {x}) = Cardinality(S) - 1
        /\ Cardinality(S) \in Nat
    BY FS_RemoveElement, FS_CardinalityType
  <2>3. Cardinality(Nearer(R, S, x)) <= Cardinality(S \ {x}) /\ IsFiniteSet(Nearer(R, S, x))
    BY <2>1, <2>2, FS_Subset
  <2>4. Cardinality(Nearer(R, S, x)) \in Nat
    BY <2>3, FS_CardinalityType
  <2>5. QED
    BY <2>2, <2>3, <2>4
<1>2. QED
  BY <1>1 DEF Nearest

(***************************************************************************)
(* A member that is not among the closest is behind cap of them.           *)
(***************************************************************************)
LEMMA NearestFull ==
    ASSUME NEW D, NEW R, TotalOn(R, D), NEW S, S \subseteq D, IsFiniteSet(S),
           NEW cap \in Nat, NEW x \in S \ Nearest(R, S, cap)
    PROVE  /\ Cardinality(Nearest(R, S, cap)) = cap
           /\ \A d \in Nearest(R, S, cap) : <<d, x>> \in R
<1> DEFINE C == Nearest(R, S, cap)
<1>1. /\ C \subseteq S
      /\ \A j \in S : j \in C <=> Cardinality(Nearer(R, S, j)) < cap
  BY DEF Nearest
<1>2. x \in S /\ x \notin C /\ Cardinality(C) <= cap
  BY NearestBounded
<1> HIDE DEF C
<1>3. \A j : IsFiniteSet(Nearer(R, S, j)) /\ Cardinality(Nearer(R, S, j)) \in Nat
  <2>1. TAKE j
  <2>2. Nearer(R, S, j) \subseteq S
    BY DEF Nearer
  <2>3. QED
    BY <2>2, FS_Subset, FS_CardinalityType
<1>4. IsFiniteSet(C) /\ Cardinality(C) \in Nat
  BY <1>1, FS_Subset, FS_CardinalityType
<1>5. ASSUME NEW d \in C, NEW y \in S \ C PROVE <<d, y>> \in R
  <2>1. SUFFICES ASSUME <<y, d>> \in R PROVE FALSE
    BY <1>1, <1>5 DEF TotalOn
  <2>2. Nearer(R, S, y) \subseteq Nearer(R, S, d)
    BY <1>1, <2>1 DEF Nearer, TotalOn
  <2>3. Cardinality(Nearer(R, S, y)) <= Cardinality(Nearer(R, S, d))
    BY <1>3, <2>2, FS_Subset
  <2>4. Cardinality(Nearer(R, S, d)) < cap
    BY <1>1
  <2>5. Cardinality(Nearer(R, S, y)) < cap
    BY <1>3, <2>3, <2>4
  <2>6. QED
    BY <1>1, <2>5
<1>6. PICK y \in S \ C : \A k \in S \ C : k # y => <<y, k>> \in R
  <2> DEFINE E == S \ C
  <2>1. E \subseteq D /\ E # {} /\ IsFiniteSet(E)
    <3>1. E \subseteq S
      OBVIOUS
    <3>2. QED
      BY <1>2, <3>1, FS_Subset
  <2> HIDE DEF E
  <2>2. \E y \in E : \A k \in E : k # y => <<y, k>> \in R
    BY <2>1, ClosestMember
  <2>3. QED
    BY <2>2 DEF E
<1>7. Nearer(R, S, y) \subseteq C
  <2>1. SUFFICES ASSUME NEW k \in S, <<k, y>> \in R, k \notin C PROVE FALSE
    BY DEF Nearer
  <2>2. k # y
    BY <2>1 DEF TotalOn
  <2>3. <<y, k>> \in R
    BY <1>6, <2>1, <2>2
  <2>4. <<y, y>> \in R
    BY <2>1, <2>3 DEF TotalOn
  <2>5. QED
    BY <2>4 DEF TotalOn
<1>8. Cardinality(Nearer(R, S, y)) <= Cardinality(C)
  BY <1>4, <1>7, FS_Subset
<1>9. ~(Cardinality(Nearer(R, S, y)) < cap)
  BY <1>1
<1>10. Cardinality(C) = cap
  BY <1>2, <1>3, <1>4, <1>8, <1>9
<1>11. \A d \in C : <<d, x>> \in R
  BY <1>2, <1>5
<1>12. QED
  BY <1>10, <1>11 DEF C
=============================================================================
