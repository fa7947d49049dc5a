------------------------ MODULE LngEntryGroups_proofs ------------------------
(***************************************************************************)
(* The label navigation graph, its descendants and its coverage are exact, *)
(* and so are the entry groups of every query, for every number of groups  *)
(* and labels.                                                             *)
(***************************************************************************)
EXTENDS LngEntryGroups, Order_proofs

LngTyped == /\ labelSet \in LabelSets(Group, Label)
            /\ phase \in {"out", "in", "descendants", "coverage", "built"}
            /\ todo \subseteq Group
            /\ outNeighbors \in [Group -> SUBSET Group]
            /\ inNeighbors \in [Group -> SUBSET Group]
            /\ source \in Group \cup {0}
            /\ reached \subseteq Group
            /\ fifo \subseteq Group
            /\ descendants \in [Group -> SUBSET Group]
            /\ covered \in [Group -> SUBSET Group]
            /\ outDegree \in [Group -> Nat]

\* The edges of the groups that the two loops have passed.
EdgesInv ==
  /\ \A g \in Group : phase # "out" \/ g \notin todo => outNeighbors[g] = Child(labelSet, g)
  /\ phase = "out" => inNeighbors = Lng!Empty
  /\ phase = "in" =>
        \A h \in Group : inNeighbors[h] = {g \in Group \ todo : h \in Child(labelSet, g)}
  /\ phase \notin {"out", "in"} =>
        \A h \in Group : inNeighbors[h] = {g \in Group : h \in Child(labelSet, g)}

\* Every search that is over is complete; the one that is running has reached
\* groups above its source, and is through with those that have left the queue.
DescendantsInv ==
  /\ phase \in {"out", "in"} => descendants = Lng!Empty /\ source = 0 /\ fifo = {}
  /\ phase = "descendants" =>
        /\ \A g \in todo : descendants[g] = {}
        /\ \A g \in Group \ todo : g # source => descendants[g] = Above(labelSet, g)
        /\ source = 0 => fifo = {}
        /\ source # 0 =>
              /\ source \notin todo
              /\ descendants[source] \subseteq Above(labelSet, source)
              /\ reached = {source} \cup descendants[source]
              /\ fifo \subseteq reached
              /\ \A v \in reached \ fifo : Child(labelSet, v) \subseteq reached

\* The groups that have been merged into their parents.
Merged == {g \in Group \ fifo : outDegree[g] = 0}

\* The degrees count the children that are left; what was merged is complete.
CoverageInv ==
  phase = "coverage" =>
    /\ \A g \in fifo : outDegree[g] = 0
    /\ \A g \in Group :
          /\ outDegree[g] = Cardinality(Child(labelSet, g) \ Merged)
          /\ g \in covered[g]
          /\ covered[g] \subseteq {g} \cup Above(labelSet, g)
          /\ \A c \in Child(labelSet, g) \cap Merged : {c} \cup Above(labelSet, c) \subseteq covered[g]

LngInv == LngTyped /\ EdgesInv /\ DescendantsInv /\ CoverageInv /\ DescendantsExact /\ CoverageExact

-----------------------------------------------------------------------------
\* The order of the groups once more.

\* What is above a group, and its children, are other groups, finitely many.
LEMMA ChildFacts ==
  ASSUME NEW ls \in LabelSets(Group, Label), NEW g \in Group
  PROVE  /\ Above(ls, g) \subseteq Group \ {g}
         /\ Child(ls, g) \subseteq Above(ls, g)
         /\ IsFiniteSet(Child(ls, g))
<1>1. DOMAIN ls = Group
  BY DEF LabelSets
<1>2. Above(ls, g) \subseteq Group \ {g} /\ Child(ls, g) \subseteq Above(ls, g)
  BY <1>1 DEF Above, Child, Minimal
<1>3. QED
  BY <1>2, GroupAssumption, FS_Subset

\* LabelNavGraph's names for the same order.
LEMMA SameOrder ==
  ASSUME NEW ls, NEW g
  PROVE  Lng!Above(ls, g) = Above(ls, g) /\ Lng!Child(ls, g) = Child(ls, g)
BY DEF Lng!Above, Above, Lng!Child, Child, Lng!Minimal, Minimal

\* The graph's module and this one count alike.
LEMMA SameCardinality == ASSUME NEW S PROVE Lng!Cardinality(S) = Cardinality(S)
BY DEF Lng!Cardinality, Cardinality

\* What is above a group above g is above g.
LEMMA AboveIsTransitive ==
  ASSUME NEW ls \in LabelSets(Group, Label), NEW g \in Group, NEW h \in Above(ls, g)
  PROVE  Above(ls, h) \subseteq Above(ls, g)
<1>1. SUFFICES ASSUME NEW x \in Above(ls, h), x = g PROVE FALSE
  BY DEF Above
<1>2. ls[g] = ls[h] /\ h # g /\ h \in Group
  BY <1>1 DEF Above, LabelSets
<1>3. QED
  BY <1>2 DEF LabelSets

\* What is above a group is at or above one of its children.
LEMMA AboveByChildren ==
  ASSUME NEW ls \in LabelSets(Group, Label), NEW g \in Group, NEW h \in Above(ls, g)
  PROVE  \E c \in Child(ls, g) : h \in {c} \cup Above(ls, c)
<1> DEFINE U == {w \in Above(ls, g) : ls[w] \subseteq ls[h]}
<1>1. U \subseteq Group /\ h \in U
  BY ChildFacts
<1>2. \A w : w \in U <=> w \in Above(ls, g) /\ ls[w] \subseteq ls[h]
  OBVIOUS
<1> HIDE DEF U
<1>3. PICK c \in U : \A x \in U : ls[x] \subseteq ls[c] => x = c
  BY <1>1, LeastGroup, LabelAssumption
<1>4. ASSUME NEW x \in Above(ls, g), ls[x] \subseteq ls[c] PROVE x = c
  <2>1. x \in U
    BY <1>2, <1>3, <1>4
  <2>2. QED
    BY <1>3, <1>4, <2>1
<1>5. c \in Child(ls, g)
  BY <1>2, <1>3, <1>4 DEF Child, Minimal
<1>6. h \in {c} \cup Above(ls, c)
  BY <1>1, <1>2, <1>3 DEF Above
<1>7. QED
  BY <1>5, <1>6

-----------------------------------------------------------------------------
\* The label sets never change, and each loop leaves the others' results alone.

\* Building the graph changes no label set.
LEMMA LabelSetStays == ASSUME Lng!Next PROVE labelSet' = labelSet
BY DEF Lng!Next, Lng!obtainOutNeighbors, Lng!obtainInNeighbors, Lng!startDescendants,
       Lng!visitDescendants, Lng!mergeIntoParents, Lng!endOut, Lng!endIn, Lng!endDescendants,
       Lng!startCoverage, Lng!endCoverage

\* One iteration of phase 1 of build_label_nav_graph.
LEMMA OutStep == ASSUME LngInv, NEW g \in Group, Lng!obtainOutNeighbors(g) PROVE LngInv'
<1> USE DEF LngInv
<1>1. /\ phase = "out" /\ g \in todo /\ todo' = todo \ {g}
      /\ outNeighbors' = [outNeighbors EXCEPT ![g] = Child(labelSet, g)]
      /\ UNCHANGED <<labelSet, phase, inNeighbors, source, reached, fifo, descendants, covered,
                     outDegree>>
  BY SameOrder DEF Lng!obtainOutNeighbors, Lng!bfs, Lng!MinSuperSets
<1>2. Child(labelSet, g) \subseteq Group
  BY ChildFacts DEF LngTyped
<1>3. LngTyped'
  BY <1>1, <1>2 DEF LngTyped
<1>4. EdgesInv'
  BY <1>1 DEF LngTyped, EdgesInv
<1>5. DescendantsInv' /\ CoverageInv' /\ DescendantsExact' /\ CoverageExact'
  BY <1>1 DEF DescendantsInv, CoverageInv, DescendantsExact, Lng!DescendantsExact, CoverageExact,
              Lng!CoverageExact
<1>6. QED
  BY <1>3, <1>4, <1>5

\* One iteration of phase 2: g is added to the in-neighbours of its children.
LEMMA InStep == ASSUME LngInv, NEW g \in Group, Lng!obtainInNeighbors(g) PROVE LngInv'
<1> USE DEF LngInv
<1>1. /\ phase = "in" /\ g \in todo /\ todo' = todo \ {g}
      /\ inNeighbors' = [h \in Group |-> IF h \in outNeighbors[g] THEN inNeighbors[h] \cup {g}
                                         ELSE inNeighbors[h]]
      /\ UNCHANGED <<labelSet, phase, outNeighbors, source, reached, fifo, descendants, covered,
                     outDegree>>
  BY DEF Lng!obtainInNeighbors, Lng!bfs, Lng!WithInNeighbor
<1>2. LngTyped'
  BY <1>1 DEF LngTyped
<1>3. ASSUME NEW h \in Group
      PROVE  inNeighbors'[h] = {f \in Group \ todo' : h \in Child(labelSet, f)}
  <2>1. outNeighbors[g] = Child(labelSet, g)
    BY <1>1 DEF EdgesInv
  <2>2. inNeighbors[h] = {f \in Group \ todo : h \in Child(labelSet, f)}
    BY <1>1 DEF EdgesInv
  <2>3. QED
    BY <1>1, <2>1, <2>2
<1>4. EdgesInv'
  BY <1>1, <1>3 DEF EdgesInv
<1>5. DescendantsInv' /\ CoverageInv' /\ DescendantsExact' /\ CoverageExact'
  BY <1>1 DEF DescendantsInv, CoverageInv, DescendantsExact, Lng!DescendantsExact, CoverageExact,
              Lng!CoverageExact
<1>6. QED
  BY <1>2, <1>4, <1>5

\* The loops of phases 1 and 2 end.
LEMMA EndEdgesStep == ASSUME LngInv, Lng!endOut \/ Lng!endIn PROVE LngInv'
<1> USE DEF LngInv
<1>1. /\ todo = {} /\ todo' = Group
      /\ \/ phase = "out" /\ phase' = "in"
         \/ phase = "in" /\ phase' = "descendants"
      /\ UNCHANGED <<labelSet, outNeighbors, inNeighbors, source, reached, fifo, descendants,
                     covered, outDegree>>
  BY DEF Lng!endOut, Lng!endIn, Lng!edges, Lng!bfs
<1>2. LngTyped'
  BY <1>1 DEF LngTyped
<1>3. EdgesInv'
  <2>1. CASE phase = "out"
    <3>1. \A h \in Group : inNeighbors[h] = {g \in Group \ Group : h \in Child(labelSet, g)}
      BY <2>1 DEF EdgesInv, Lng!Empty
    <3>2. QED
      BY <1>1, <2>1, <3>1 DEF EdgesInv
  <2>2. CASE phase = "in"
    BY <1>1, <2>2 DEF EdgesInv
  <2>3. QED
    BY <1>1, <2>1, <2>2
<1>4. DescendantsInv'
  BY <1>1 DEF DescendantsInv, Lng!Empty
<1>5. CoverageInv' /\ DescendantsExact' /\ CoverageExact'
  BY <1>1 DEF CoverageInv, DescendantsExact, Lng!DescendantsExact, CoverageExact, Lng!CoverageExact
<1>6. QED
  BY <1>2, <1>3, <1>4, <1>5

-----------------------------------------------------------------------------
\* get_descendants_info.

\* Starting the descendants of a group keeps the graph's invariant.
LEMMA StartDescendantsStep ==
  ASSUME LngInv, NEW g \in Group, Lng!startDescendants(g) PROVE LngInv'
<1> USE DEF LngInv
<1>1. /\ phase = "descendants" /\ source = 0 /\ g \in todo
      /\ source' = g /\ reached' = {g} /\ fifo' = {g} /\ todo' = todo \ {g}
      /\ UNCHANGED <<labelSet, phase, outNeighbors, inNeighbors, descendants, covered, outDegree>>
  BY DEF Lng!startDescendants, Lng!edges
<1>2. LngTyped' /\ EdgesInv'
  BY <1>1 DEF LngTyped, EdgesInv
<1>3. \A h \in Group : h # 0
  BY GroupAssumption
<1>4. DescendantsInv'
  BY <1>1, <1>3 DEF DescendantsInv, LngTyped
<1>5. CoverageInv' /\ DescendantsExact' /\ CoverageExact'
  BY <1>1 DEF CoverageInv, DescendantsExact, Lng!DescendantsExact, CoverageExact, Lng!CoverageExact
<1>6. QED
  BY <1>2, <1>4, <1>5

\* One group leaves the queue: its children are reached.
LEMMA VisitDescendantsStep ==
  ASSUME LngInv, NEW u \in Group, Lng!visitDescendants(u) PROVE LngInv'
<1> USE DEF LngInv
<1> DEFINE new == Child(labelSet, u) \ reached
<1>1. /\ phase = "descendants" /\ u \in fifo
      /\ UNCHANGED <<labelSet, phase, todo, outNeighbors, inNeighbors, source, covered, outDegree>>
  BY DEF Lng!visitDescendants, Lng!edges
<1>2. outNeighbors[u] = Child(labelSet, u)
  BY <1>1 DEF EdgesInv
<1>3. /\ reached' = reached \cup new /\ fifo' = (fifo \ {u}) \cup new
      /\ descendants' = [descendants EXCEPT ![source] = descendants[source] \cup new]
  BY <1>2 DEF Lng!visitDescendants, Lng!Fresh
<1>4. source \in Group /\ source # 0 /\ labelSet \in LabelSets(Group, Label)
  BY <1>1 DEF DescendantsInv, LngTyped
<1>5. new \subseteq Above(labelSet, u) /\ new \subseteq Group
  BY <1>4, ChildFacts
<1>6. u = source \/ u \in Above(labelSet, source)
  BY <1>1, <1>4 DEF DescendantsInv
<1>7. new \subseteq Above(labelSet, source)
  BY <1>4, <1>5, <1>6, AboveIsTransitive
<1> HIDE DEF new
<1>8. LngTyped' /\ EdgesInv'
  BY <1>1, <1>3, <1>5 DEF LngTyped, EdgesInv
<1>9. /\ descendants'[source] = descendants[source] \cup new
      /\ \A g \in Group : g # source => descendants'[g] = descendants[g]
  BY <1>3, <1>4 DEF LngTyped
<1>10. \A v \in reached' \ fifo' : Child(labelSet, v) \subseteq reached'
  <2>1. SUFFICES ASSUME NEW v \in reached' \ fifo' PROVE Child(labelSet, v) \subseteq reached'
    OBVIOUS
  <2>2. CASE v = u
    BY <1>3, <2>2 DEF new
  <2>3. CASE v # u
    <3>1. v \in reached \ fifo
      BY <1>3, <2>3
    <3>2. QED
      BY <1>1, <1>3, <1>4, <3>1 DEF DescendantsInv
  <2>4. QED
    BY <2>2, <2>3
<1>11. DescendantsInv'
  <2>1. /\ \A g \in todo : descendants[g] = {}
        /\ \A g \in Group \ todo : g # source => descendants[g] = Above(labelSet, g)
        /\ source \notin todo /\ descendants[source] \subseteq Above(labelSet, source)
        /\ reached = {source} \cup descendants[source] /\ fifo \subseteq reached
    BY <1>1, <1>4 DEF DescendantsInv
  <2>2. reached' = {source} \cup descendants'[source] /\ fifo' \subseteq reached'
    BY <1>3, <1>9, <2>1
  <2>3. \A g \in todo : descendants'[g] = {}
    BY <1>9, <2>1 DEF LngTyped
  <2>4. QED
    BY <1>1, <1>4, <1>7, <1>9, <1>10, <2>1, <2>2, <2>3 DEF DescendantsInv
<1>12. CoverageInv' /\ DescendantsExact' /\ CoverageExact'
  BY <1>1 DEF CoverageInv, DescendantsExact, Lng!DescendantsExact, CoverageExact, Lng!CoverageExact
<1>13. QED
  BY <1>8, <1>11, <1>12

\* The queue is empty: every group above the source has been reached.
LEMMA EndDescendantsStep == ASSUME LngInv, Lng!endDescendants PROVE LngInv'
<1> USE DEF LngInv
<1>1. /\ phase = "descendants" /\ source # 0 /\ fifo = {} /\ source' = 0 /\ reached' = {}
      /\ UNCHANGED <<labelSet, phase, todo, outNeighbors, inNeighbors, fifo, descendants, covered,
                     outDegree>>
  BY DEF Lng!endDescendants, Lng!edges
<1>2. LngTyped' /\ EdgesInv'
  BY <1>1 DEF LngTyped, EdgesInv
<1>3. source \in Group /\ labelSet \in LabelSets(Group, Label) /\ reached \subseteq Group
  BY <1>1 DEF LngTyped
<1>4. /\ descendants[source] \subseteq Above(labelSet, source)
      /\ reached = {source} \cup descendants[source]
      /\ \A v \in reached : Child(labelSet, v) \subseteq reached
  BY <1>1 DEF DescendantsInv
<1>5. ASSUME NEW h \in Above(labelSet, source) PROVE h \in descendants[source]
  <2>1. h \in Group /\ labelSet[source] \subseteq labelSet[h] /\ h # source
    BY <1>3, ChildFacts DEF Above
  <2>2. h \in reached
    BY <1>3, <1>4, <2>1, ClosedIsUpward, LabelAssumption
  <2>3. QED
    BY <1>4, <2>1, <2>2
<1>6. descendants[source] = Above(labelSet, source)
  BY <1>4, <1>5
<1>7. DescendantsInv'
  BY <1>1, <1>6 DEF DescendantsInv
<1>8. CoverageInv' /\ DescendantsExact' /\ CoverageExact'
  BY <1>1 DEF CoverageInv, DescendantsExact, Lng!DescendantsExact, CoverageExact, Lng!CoverageExact
<1>9. QED
  BY <1>2, <1>7, <1>8

-----------------------------------------------------------------------------
\* cal_f_coverage_ratio.

\* So does starting the coverage, when all descendants are known.
LEMMA StartCoverageStep == ASSUME LngInv, Lng!startCoverage PROVE LngInv'
<1> USE DEF LngInv
<1>1. /\ phase = "descendants" /\ source = 0 /\ todo = {} /\ phase' = "coverage"
      /\ covered' = [g \in Group |-> {g}]
      /\ outDegree' = [g \in Group |-> Cardinality(outNeighbors[g])]
      /\ fifo' = {g \in Group : outNeighbors[g] = {}}
      /\ UNCHANGED <<labelSet, todo, outNeighbors, inNeighbors, source, reached, descendants>>
  BY SameCardinality DEF Lng!startCoverage, Lng!edges, Lng!bfs
<1>2. labelSet \in LabelSets(Group, Label) /\ \A g \in Group : outNeighbors[g] = Child(labelSet, g)
  BY <1>1 DEF LngTyped, EdgesInv
<1>3. \A g \in Group : IsFiniteSet(outNeighbors[g]) /\ Cardinality(outNeighbors[g]) \in Nat
  BY <1>2, ChildFacts, FS_CardinalityType
<1>4. \A g \in Group : outDegree'[g] = 0 <=> g \in fifo'
  BY <1>1, <1>3, FS_EmptySet
<1>5. Merged' = {}
  BY <1>4 DEF Merged
<1>6. outDegree' \in [Group -> Nat]
  BY <1>1, <1>3
<1>7. LngTyped' /\ EdgesInv'
  BY <1>1, <1>6 DEF LngTyped, EdgesInv
<1>8. DescendantsInv' /\ CoverageExact'
  BY <1>1 DEF DescendantsInv, CoverageExact, Lng!CoverageExact
<1>9. DescendantsExact'
  <2>1. \A g \in Group : g # 0
    BY GroupAssumption
  <2>2. \A g \in Group : descendants[g] = Above(labelSet, g)
    BY <1>1, <2>1 DEF DescendantsInv
  <2>3. QED
    BY <1>1, <2>2, SameOrder DEF DescendantsExact, Lng!DescendantsExact
<1>10. CoverageInv'
  <2>1. SUFFICES ASSUME NEW g \in Group
                 PROVE  /\ outDegree'[g] = Cardinality(Child(labelSet, g) \ Merged')
                        /\ g \in covered'[g]
                        /\ covered'[g] \subseteq {g} \cup Above(labelSet, g)
    BY <1>1, <1>4, <1>5 DEF CoverageInv
  <2>2. Child(labelSet, g) \ Merged' = outNeighbors[g]
    BY <1>2, <1>5
  <2>3. QED
    BY <1>1, <2>2
<1>11. QED
  BY <1>7, <1>8, <1>9, <1>10

\* A group without children left is complete.
LEMMA MergedIsComplete ==
  ASSUME LngInv, phase = "coverage", NEW g \in Group, outDegree[g] = 0
  PROVE  covered[g] = {g} \cup Above(labelSet, g)
<1> USE DEF LngInv
<1>1. labelSet \in LabelSets(Group, Label)
  BY DEF LngTyped
<1>2. IsFiniteSet(Child(labelSet, g) \ Merged)
  BY <1>1, ChildFacts, FS_Subset
<1>3. Child(labelSet, g) \subseteq Merged
  BY <1>2, FS_EmptySet DEF CoverageInv
<1>4. \A c \in Child(labelSet, g) : {c} \cup Above(labelSet, c) \subseteq covered[g]
  BY <1>3 DEF CoverageInv
<1>5. \A h \in Above(labelSet, g) : h \in covered[g]
  BY <1>1, <1>4, AboveByChildren
<1>6. QED
  BY <1>5 DEF CoverageInv

\* The vectors of a complete group go to its parents.
LEMMA MergeStep == ASSUME LngInv, NEW c \in Group, Lng!mergeIntoParents(c) PROVE LngInv'
<1> USE DEF LngInv
<1> DEFINE parents == {p \in Group : c \in Child(labelSet, p)}
<1>1. labelSet \in LabelSets(Group, Label) /\ phase = "coverage" /\ c \in fifo
  BY DEF LngTyped, Lng!mergeIntoParents
<1>2. inNeighbors[c] = parents
  BY <1>1 DEF EdgesInv
<1>3. /\ covered' = [g \in Group |-> IF g \in parents THEN covered[g] \cup covered[c]
                                     ELSE covered[g]]
      /\ outDegree' = [g \in Group |-> IF g \in parents THEN outDegree[g] - 1 ELSE outDegree[g]]
      /\ fifo' = (fifo \ {c}) \cup {p \in parents : outDegree[p] = 1}
      /\ UNCHANGED <<labelSet, phase, todo, outNeighbors, inNeighbors, source, reached, descendants>>
  BY <1>2 DEF Lng!mergeIntoParents, Lng!Ready, Lng!edges, Lng!bfs
<1>4. \A p \in Group : p \in parents <=> c \in Child(labelSet, p)
  OBVIOUS
<1>5. c \notin parents /\ parents \subseteq Group
  BY <1>1, ChildFacts
<1> HIDE DEF parents
<1>6. outDegree[c] = 0 /\ \A g \in fifo : outDegree[g] = 0
  BY <1>1 DEF CoverageInv
<1>7. c \notin Merged
  BY <1>1 DEF Merged
<1>8. \A g \in Group : /\ IsFiniteSet(Child(labelSet, g) \ Merged)
                       /\ outDegree[g] = Cardinality(Child(labelSet, g) \ Merged)
                       /\ outDegree[g] \in Nat
  <2>1. \A g \in Group : IsFiniteSet(Child(labelSet, g) \ Merged)
    BY <1>1, ChildFacts, FS_Subset
  <2>2. QED
    BY <1>1, <2>1 DEF CoverageInv, LngTyped
<1>9. \A p \in parents : /\ Cardinality((Child(labelSet, p) \ Merged) \ {c}) = outDegree[p] - 1
                         /\ outDegree[p] - 1 \in Nat
  <2>1. SUFFICES ASSUME NEW p \in parents
                 PROVE  /\ Cardinality((Child(labelSet, p) \ Merged) \ {c}) = outDegree[p] - 1
                        /\ outDegree[p] - 1 \in Nat
    OBVIOUS
  <2>2. p \in Group /\ c \in Child(labelSet, p) \ Merged
    BY <1>4, <1>5, <1>7
  <2>3. Cardinality((Child(labelSet, p) \ Merged) \ {c}) = Cardinality(Child(labelSet, p) \ Merged) - 1
    BY <1>8, <2>2, FS_RemoveElement
  <2>4. Cardinality((Child(labelSet, p) \ Merged) \ {c}) \in Nat
    BY <1>8, <2>2, FS_RemoveElement, FS_CardinalityType
  <2>5. QED
    BY <1>8, <2>2, <2>3, <2>4
<1>10. outDegree' \in [Group -> Nat]
  <2>1. \A g \in Group : (IF g \in parents THEN outDegree[g] - 1 ELSE outDegree[g]) \in Nat
    BY <1>8, <1>9
  <2>2. QED
    BY <1>3, <2>1
<1>11. \A g \in Group : /\ g \in parents => outDegree'[g] = outDegree[g] - 1 /\ outDegree[g] # 0
                        /\ g \notin parents => outDegree'[g] = outDegree[g]
  <2>1. \A g \in parents : outDegree[g] # 0
    <3>1. \A g \in parents : outDegree[g] \in Nat /\ outDegree[g] - 1 \in Nat
      BY <1>5, <1>8, <1>9
    <3>2. QED
      BY <3>1
  <2>2. QED
    BY <1>3, <2>1
<1>12. Merged' = Merged \cup {c}
  <2>1. ASSUME NEW g \in Group PROVE g \in Merged' <=> g \in Merged \/ g = c
    <3>1. CASE g \in parents
      <4>1. outDegree[g] # 0 /\ (outDegree'[g] = 0 => g \in fifo')
        BY <1>3, <1>8, <1>11, <3>1
      <4>2. QED
        BY <1>5, <3>1, <4>1 DEF Merged
    <3>2. CASE g \notin parents
      <4>1. outDegree'[g] = outDegree[g] /\ (g \in fifo' <=> g \in fifo /\ g # c)
        BY <1>3, <1>11, <3>2
      <4>2. QED
        BY <1>6, <4>1 DEF Merged
    <3>3. QED
      BY <3>1, <3>2
  <2>2. Merged \subseteq Group /\ Merged' \subseteq Group
    BY DEF Merged
  <2>3. QED
    BY <2>1, <2>2
<1>13. covered[c] = {c} \cup Above(labelSet, c)
  BY <1>1, <1>6, MergedIsComplete
<1>14. LngTyped' /\ EdgesInv'
  <2>1. covered' \in [Group -> SUBSET Group]
    BY <1>3 DEF LngTyped
  <2>2. fifo' \subseteq Group
    BY <1>3, <1>5 DEF LngTyped
  <2>3. QED
    BY <1>3, <1>10, <2>1, <2>2 DEF LngTyped, EdgesInv
<1>15. DescendantsInv' /\ DescendantsExact' /\ CoverageExact'
  BY <1>1, <1>3 DEF DescendantsInv, DescendantsExact, Lng!DescendantsExact, CoverageExact,
                    Lng!CoverageExact
<1>16. \A g \in fifo' : outDegree'[g] = 0
  <2>1. SUFFICES ASSUME NEW g \in fifo' PROVE outDegree'[g] = 0
    OBVIOUS
  <2>2. CASE g \in parents /\ outDegree[g] = 1
    BY <1>5, <1>11, <2>2
  <2>3. CASE g \in fifo
    <3>1. g \in Group /\ outDegree[g] = 0
      BY <1>6, <2>3 DEF LngTyped
    <3>2. QED
      BY <1>11, <3>1
  <2>4. QED
    BY <1>3, <2>2, <2>3
<1>17. ASSUME NEW g \in Group
       PROVE  /\ outDegree'[g] = Cardinality(Child(labelSet, g) \ Merged')
              /\ g \in covered'[g]
              /\ covered'[g] \subseteq {g} \cup Above(labelSet, g)
              /\ \A d \in Child(labelSet, g) \cap Merged' : {d} \cup Above(labelSet, d) \subseteq covered'[g]
  <2>1. /\ g \in covered[g] /\ covered[g] \subseteq {g} \cup Above(labelSet, g)
        /\ \A d \in Child(labelSet, g) \cap Merged : {d} \cup Above(labelSet, d) \subseteq covered[g]
    BY <1>1 DEF CoverageInv
  <2>2. CASE g \in parents
    <3>1. covered'[g] = covered[g] \cup {c} \cup Above(labelSet, c)
      BY <1>3, <1>13, <2>2
    <3>2. Child(labelSet, g) \ Merged' = (Child(labelSet, g) \ Merged) \ {c}
      BY <1>12
    <3>3. c \in Above(labelSet, g) /\ Above(labelSet, c) \subseteq Above(labelSet, g)
      BY <1>1, <1>4, <2>2, ChildFacts, AboveIsTransitive
    <3>4. QED
      BY <1>9, <1>11, <1>12, <2>1, <2>2, <3>1, <3>2, <3>3
  <2>3. CASE g \notin parents
    <3>1. c \notin Child(labelSet, g)
      BY <1>4, <2>3
    <3>2. Child(labelSet, g) \ Merged' = Child(labelSet, g) \ Merged
      BY <1>12, <3>1
    <3>3. covered'[g] = covered[g]
      BY <1>3, <2>3
    <3>4. QED
      BY <1>8, <1>11, <1>12, <2>1, <2>3, <3>1, <3>2, <3>3
  <2>4. QED
    BY <2>2, <2>3
<1>18. CoverageInv'
  BY <1>3, <1>16, <1>17 DEF CoverageInv
<1>19. QED
  BY <1>14, <1>15, <1>18

\* The queue is empty: no group has a child left.
LEMMA EndCoverageStep == ASSUME LngInv, Lng!endCoverage PROVE LngInv'
<1> USE DEF LngInv
<1>1. /\ phase = "coverage" /\ fifo = {} /\ phase' = "built"
      /\ UNCHANGED <<labelSet, todo, outNeighbors, inNeighbors, source, reached, fifo, descendants,
                     covered, outDegree>>
  BY DEF Lng!endCoverage, Lng!edges, Lng!bfs
<1>2. labelSet \in LabelSets(Group, Label)
  BY DEF LngTyped
<1>3. \A g \in Group : outDegree[g] = 0
  <2> DEFINE U == {g \in Group : outDegree[g] # 0}
  <2>1. SUFFICES ASSUME U # {} PROVE FALSE
    OBVIOUS
  <2>2. U \subseteq Group /\ \A g \in Group : g \in U <=> outDegree[g] # 0
    OBVIOUS
  <2> HIDE DEF U
  <2>3. PICK f \in U : \A h \in U : labelSet[f] \subseteq labelSet[h] => h = f
    BY <1>2, <2>1, <2>2, GreatestGroup, LabelAssumption
  <2>4. \A d \in Child(labelSet, f) : d \in Group /\ labelSet[f] \subseteq labelSet[d] /\ d # f
    BY <1>2, <2>2, ChildFacts DEF Above
  <2>5. \A d \in Child(labelSet, f) : d \in Merged
    BY <1>1, <2>2, <2>3, <2>4 DEF Merged
  <2>6. Child(labelSet, f) \ Merged = {}
    BY <2>5
  <2>7. outDegree[f] = 0
    BY <1>1, <2>2, <2>6, FS_EmptySet DEF CoverageInv
  <2>8. QED
    BY <2>2, <2>7
<1>4. \A g \in Group : covered[g] = {g} \cup Above(labelSet, g)
  BY <1>1, <1>3, MergedIsComplete
<1>5. CoverageExact'
  BY <1>1, <1>4, SameOrder DEF CoverageExact, Lng!CoverageExact
<1>6. LngTyped' /\ EdgesInv'
  BY <1>1 DEF LngTyped, EdgesInv
<1>7. DescendantsInv' /\ CoverageInv' /\ DescendantsExact'
  BY <1>1 DEF DescendantsInv, CoverageInv, DescendantsExact, Lng!DescendantsExact
<1>8. QED
  BY <1>5, <1>6, <1>7

\* Every step that builds the graph keeps its invariant.
LEMMA LngNext == ASSUME LngInv, Lng!Next PROVE LngInv'
BY OutStep, InStep, EndEdgesStep, StartDescendantsStep, VisitDescendantsStep, EndDescendantsStep,
   StartCoverageStep, MergeStep, EndCoverageStep DEF Lng!Next

(***************************************************************************)
(* One label more: the meet of the bitmaps.                                *)
(***************************************************************************)
LEMMA MeetIsQualified ==
    ASSUME NEW ls \in LabelSets(Group, Label), NEW M, NEW l
    PROVE  /\ Qualified(ls, {l}) = {g \in Group : l \in ls[g]}
           /\ Qualified(ls, M \cup {l}) = Qualified(ls, M) \cap {g \in Group : l \in ls[g]}
           /\ Qualified(ls, {}) = Group
           /\ DOMAIN ls = Group
BY DEF LabelSets, Qualified

(***************************************************************************)
(* More labels, fewer groups.                                              *)
(***************************************************************************)
LEMMA QualifiedShrinks ==
    ASSUME NEW ls, NEW M, NEW q, M \subseteq q
    PROVE  Qualified(ls, q) \subseteq Qualified(ls, M)
BY DEF Qualified

(***************************************************************************)
(* A group strictly inside another is smaller, so the scan by size reaches *)
(* it first.                                                               *)
(***************************************************************************)
LEMMA SmallerFirst ==
    ASSUME labelSet \in LabelSets(Group, Label), NEW g \in Group, NEW h \in Group,
           labelSet[h] \subseteq labelSet[g], h # g
    PROVE  ~Before(g, h)
<1>1. labelSet[g] \subseteq Label /\ labelSet[h] \subseteq Label /\ labelSet[g] # labelSet[h]
  BY DEF LabelSets
<1>2. IsFiniteSet(labelSet[g]) /\ IsFiniteSet(labelSet[h])
  BY <1>1, LabelAssumption, FS_Subset
<1>3. /\ Cardinality(labelSet[h]) <= Cardinality(labelSet[g])
      /\ Cardinality(labelSet[g]) # Cardinality(labelSet[h])
  BY <1>1, <1>2, FS_Subset
<1>4. Cardinality(labelSet[h]) \in Nat /\ Cardinality(labelSet[g]) \in Nat
  BY <1>2, FS_CardinalityType
<1>5. QED
  BY <1>3, <1>4 DEF Before

(***************************************************************************)
(* What is left when the groups above, or just the children of, every      *)
(* qualified group are dropped.                                            *)
(***************************************************************************)
LEMMA DropCovered ==
    ASSUME labelSet \in LabelSets(Group, Label)
    PROVE  LET C == Qualified(labelSet, query)
           IN  C \ UNION {Redundant(g) : g \in C} = Minimal(labelSet, C)
<1> DEFINE C == Qualified(labelSet, query)
<1>1. DOMAIN labelSet = Group /\ C \subseteq Group
  BY DEF LabelSets, Qualified
<1>2. ASSUME NEW g \in Minimal(labelSet, C), NEW f \in C, g \in Redundant(f) PROVE FALSE
  <2>1. g \in Above(labelSet, f)
    BY <1>2 DEF Redundant, LngDescendants, OutNeighbors, Child, Minimal
  <2>2. QED
    BY <1>2, <2>1 DEF Above, Minimal
<1>3. ASSUME NEW g \in C, g \notin Minimal(labelSet, C)
      PROVE  \E f \in C : g \in Redundant(f)
  <2>1. PICK f \in C : g \in Child(labelSet, f)
    BY <1>3, CoveredByQualified, LabelAssumption
  <2>2. g \in Above(labelSet, f)
    BY <2>1 DEF Child, Minimal
  <2>3. QED
    BY <2>1, <2>2 DEF Redundant, LngDescendants, OutNeighbors
<1>4. Minimal(labelSet, C) \subseteq C
  BY DEF Minimal
<1> HIDE DEF C
<1>5. C \ UNION {Redundant(g) : g \in C} = Minimal(labelSet, C)
  BY <1>2, <1>3, <1>4
<1>6. QED
  BY <1>5 DEF C

-----------------------------------------------------------------------------
\* Each action keeps the inductive invariant.

(***************************************************************************)
(* Intersecting one more bitmap (intersect).                               *)
(***************************************************************************)
LEMMA IntersectStep ==
    ASSUME IInv, NEW l \in Label, intersect(l)
    PROVE  IInv'
<1> USE DEF IInv
<1>1. /\ UNCHANGED <<labelSet, query, method, scanned, excluded, visited, queue, minIds>>
      /\ stage = "intersect" /\ l \in query \ matched /\ matched' = matched \cup {l}
      /\ cands' = Meet(l) /\ stage' = IF Meet(l) = {} THEN "done" ELSE "intersect"
  BY DEF intersect, input
<1>2. scanned = {} /\ excluded = {} /\ visited = {} /\ minIds = {} /\ queue = {}
  BY <1>1 DEF IntersectInv, TypeOK
<1>3. Meet(l) = Qualified(labelSet, matched \cup {l}) /\ Meet(l) \subseteq Group
  <2>1. labelSet \in LabelSets(Group, Label)
    BY DEF TypeOK
  <2>2. /\ Qualified(labelSet, {l}) = GroupAttrRoaring(l)
        /\ Qualified(labelSet, matched \cup {l}) = Qualified(labelSet, matched) \cap GroupAttrRoaring(l)
    BY <2>1, MeetIsQualified DEF GroupAttrRoaring
  <2>3. GroupAttrRoaring(l) \subseteq Group
    BY DEF GroupAttrRoaring
  <2>4. CASE matched = {}
    <3>1. matched \cup {l} = {l}
      BY <2>4
    <3>2. QED
      BY <2>2, <2>3, <2>4, <3>1 DEF Meet
  <2>5. CASE matched # {}
    <3>1. cands = Qualified(labelSet, matched)
      BY <1>1, <2>5 DEF IntersectInv
    <3>2. QED
      BY <2>2, <2>3, <2>5, <3>1 DEF Meet
  <2>6. QED
    BY <2>4, <2>5
<1>4. TypeOK'
  BY <1>1, <1>2, <1>3 DEF TypeOK
<1>5. IntersectInv'
  BY <1>1, <1>2, <1>3 DEF IntersectInv
<1>6. stage' # "intersect" => cands' = {} /\ Qualified(labelSet, query) = {} /\ Complete
  <2>1. Qualified(labelSet, query) \subseteq Qualified(labelSet, matched \cup {l})
    BY <1>1, QualifiedShrinks DEF TypeOK
  <2>2. QED
    BY <1>1, <1>3, <2>1 DEF Complete
<1>7. CandsInv'
  BY <1>1, <1>6 DEF CandsInv, Complete
<1>8. ExcludeInv'
  BY <1>1, <1>2 DEF ExcludeInv
<1>9. MarkInv' /\ ScanInv' /\ SelectedIsMinimal'
  BY <1>1, <1>2 DEF MarkInv, ScanInv, SelectedIsMinimal
<1>10. ExactEntryGroups'
  BY <1>1, <1>2, <1>6 DEF ExactEntryGroups, Minimal
<1>11. QED
  BY <1>4, <1>5, <1>7, <1>8, <1>9, <1>10

(***************************************************************************)
(* The candidates are fixed (endIntersect).                                *)
(***************************************************************************)
LEMMA EndIntersectStep ==
    ASSUME IInv, endIntersect
    PROVE  IInv'
<1> USE DEF IInv
<1>1. /\ UNCHANGED <<labelSet, query, method, matched, scanned, excluded, visited, queue, minIds>>
      /\ stage = "intersect" /\ matched = query /\ stage' = "scan"
      /\ cands' = IF query = {} /\ method = "tfng2" THEN Group ELSE cands
  BY DEF endIntersect, input
<1>2. scanned = {} /\ excluded = {} /\ visited = {} /\ minIds = {} /\ queue = {}
  BY <1>1 DEF IntersectInv, TypeOK
<1>3. cands' = IF Complete THEN Qualified(labelSet, query) ELSE {}
  BY <1>1, MeetIsQualified DEF IntersectInv, Complete, TypeOK
<1>4. TypeOK' /\ IntersectInv'
  BY <1>1, <1>2 DEF TypeOK, IntersectInv
<1>5. CandsInv'
  BY <1>1, <1>3 DEF CandsInv, Complete
<1>6. ExcludeInv' /\ MarkInv' /\ ScanInv' /\ SelectedIsMinimal' /\ ExactEntryGroups'
  BY <1>1, <1>2 DEF ExcludeInv, MarkInv, ScanInv, SelectedIsMinimal, ExactEntryGroups
<1>7. QED
  BY <1>4, <1>5, <1>6

(***************************************************************************)
(* One candidate of bitmap or tfng2 (scanBitmap).                          *)
(***************************************************************************)
LEMMA ScanBitmapStep ==
    ASSUME IInv, NEW g \in Group, scanBitmap(g)
    PROVE  IInv'
<1> USE DEF IInv
<1>1. /\ UNCHANGED <<labelSet, query, method, stage, matched, cands, visited, queue, minIds>>
      /\ stage = "scan" /\ method # "sorted_lng" /\ g \in cands \ scanned
      /\ scanned' = scanned \cup {g} /\ excluded' = excluded \cup Redundant(g)
  BY DEF scanBitmap, input
<1>2. Redundant(g) \subseteq Group
  BY DEF Redundant, LngDescendants, OutNeighbors, Child, Minimal, Above, TypeOK, LabelSets
<1>3. TypeOK' /\ IntersectInv'
  BY <1>1, <1>2 DEF TypeOK, IntersectInv
<1>4. CandsInv'
  BY <1>1 DEF CandsInv, Complete
<1>5. ExcludeInv'
  <2>1. \A h : Redundant(h)' = Redundant(h)
    BY <1>1 DEF Redundant, LngDescendants, OutNeighbors
  <2>2. excluded' = UNION {Redundant(h) : h \in scanned'}
    BY <1>1 DEF ExcludeInv
  <2>3. excluded' = UNION {Redundant(h)' : h \in scanned'}
    BY <2>1, <2>2
  <2>4. QED
    BY <1>1, <2>3 DEF ExcludeInv
<1>6. MarkInv' /\ ScanInv' /\ SelectedIsMinimal' /\ ExactEntryGroups'
  BY <1>1 DEF MarkInv, ScanInv, SelectedIsMinimal, ExactEntryGroups
<1>7. QED
  BY <1>3, <1>4, <1>5, <1>6

(***************************************************************************)
(* The next candidate of sorted_lng: passed when marked, else an answer    *)
(* (scanSorted).                                                           *)
(***************************************************************************)
LEMMA ScanSortedStep ==
    ASSUME IInv, NEW g \in Group, scanSorted(g)
    PROVE  IInv'
<1> USE DEF IInv
<1>1. /\ UNCHANGED <<labelSet, query, method, matched, cands, excluded>>
      /\ stage = "scan" /\ method = "sorted_lng" /\ g \in cands \ scanned
      /\ scanned' = scanned \cup {g} /\ queue = {}
  BY DEF scanSorted, input, MarkInv
<1>2. \A h \in cands \ scanned : h # g => Before(g, h)
  BY DEF scanSorted
<1>3. \A v \in visited : OutNeighbors(v) \subseteq visited /\ (v \in cands => v \in excluded)
  <2>1. SUFFICES ASSUME NEW v \in visited
                 PROVE  OutNeighbors(v) \subseteq visited /\ (v \in cands => v \in excluded)
    OBVIOUS
  <2>2. v \in visited \ queue
    BY <1>1
  <2>3. QED
    BY <1>1, <2>2 DEF MarkInv
<1>4. \A a, b : Before(a, b)' <=> Before(a, b)
  BY <1>1 DEF Before
<1>5. \A v : OutNeighbors(v)' = OutNeighbors(v)
  BY <1>1 DEF OutNeighbors
<1>6. \A a \in scanned', h \in cands' \ scanned' : Before(a, h)'
  BY <1>1, <1>2, <1>4 DEF ScanInv
<1>7. IntersectInv' /\ CandsInv' /\ ExcludeInv'
  BY <1>1 DEF scanSorted, IntersectInv, CandsInv, ExcludeInv, Complete
<1>8. CASE g \in excluded
  <2>1. UNCHANGED <<stage, visited, queue, minIds>>
    BY <1>8 DEF scanSorted
  <2>2. TypeOK'
    BY <1>1, <2>1 DEF TypeOK
  <2>3. MarkInv'
    BY <1>1, <1>5, <2>1 DEF MarkInv
  <2>4. \E m \in minIds : labelSet[m] \subseteq labelSet[g]
    <3>1. g \in visited
      BY <1>1, <1>8 DEF MarkInv
    <3>2. QED
      BY <1>1, <3>1 DEF MarkInv
  <2>5. ScanInv'
    BY <1>1, <1>6, <2>1, <2>4 DEF ScanInv
  <2>6. SelectedIsMinimal' /\ ExactEntryGroups'
    BY <1>1, <2>1 DEF SelectedIsMinimal, ExactEntryGroups
  <2>7. QED
    BY <1>7, <2>2, <2>3, <2>5, <2>6
<1>9. CASE g \notin excluded
  <2>1. /\ minIds' = minIds \cup {g} /\ stage' = "mark"
        /\ visited' = visited \cup {g} /\ queue' = {g} \ visited
    BY <1>9 DEF scanSorted
  <2>2. g \notin visited
    BY <1>1, <1>9, <1>3
  <2>3. TypeOK'
    BY <1>1, <2>1 DEF TypeOK
  <2>4. MarkInv'
    <3>1. visited' \ queue' = visited /\ queue' = {g}
      BY <2>1, <2>2
    <3>2. \A v \in visited' \ queue' : /\ OutNeighbors(v)' \subseteq visited'
                                       /\ v \in cands' => v \in excluded'
      BY <1>1, <1>5, <2>1, <3>1, <1>3
    <3>3. \A v \in visited' : \E m \in minIds' : labelSet'[m] \subseteq labelSet'[v]
      BY <1>1, <2>1 DEF MarkInv
    <3>4. QED
      BY <1>1, <2>1, <3>2, <3>3 DEF MarkInv
  <2>5. ScanInv'
    BY <1>1, <1>6, <2>1 DEF ScanInv
  <2>6. g \in Minimal(labelSet, cands)
    <3>1. SUFFICES ASSUME NEW h \in cands, labelSet[h] \subseteq labelSet[g], h # g
                   PROVE  FALSE
      BY <1>1 DEF Minimal
    <3>2. h \in Group /\ ~Before(g, h)
      BY <3>1, SmallerFirst DEF TypeOK
    <3>3. h \in scanned
      BY <1>2, <3>1, <3>2
    <3>4. PICK m \in minIds : labelSet[m] \subseteq labelSet[h]
      BY <1>1, <3>3 DEF ScanInv
    <3>5. m \in visited /\ labelSet[m] \subseteq labelSet[g]
      BY <1>1, <3>1, <3>4 DEF MarkInv
    <3>6. \A v \in visited : Child(labelSet, v) \subseteq visited
      BY <1>3 DEF OutNeighbors
    <3>7. g \in visited
      BY <3>5, <3>6, ClosedIsUpward, LabelAssumption DEF TypeOK
    <3>8. QED
      BY <2>2, <3>7
  <2>7. SelectedIsMinimal'
    BY <1>1, <2>1, <2>6 DEF SelectedIsMinimal
  <2>8. ExactEntryGroups'
    BY <2>1 DEF ExactEntryGroups
  <2>9. QED
    BY <1>7, <2>3, <2>4, <2>5, <2>7, <2>8
<1>10. QED
  BY <1>8, <1>9

(***************************************************************************)
(* One group leaves the queue of a traversal: it is marked when it is a    *)
(* candidate, and its children enter (mark).                               *)
(***************************************************************************)
LEMMA MarkStep ==
    ASSUME IInv, NEW c \in Group, mark(c)
    PROVE  IInv'
<1> USE DEF IInv
<1>1. /\ UNCHANGED <<labelSet, query, method, stage, matched, cands, scanned, minIds>>
      /\ stage = "mark" /\ c \in queue
      /\ excluded' = IF c \in cands THEN excluded \cup {c} ELSE excluded
      /\ visited' = visited \cup FreshOut(c)
      /\ queue' = (queue \ {c}) \cup FreshOut(c)
  BY DEF mark, input
<1>2. method = "sorted_lng"
  BY <1>1 DEF ExcludeInv
<1>3. /\ OutNeighbors(c) \subseteq Group
      /\ \A v \in OutNeighbors(c) : labelSet[c] \subseteq labelSet[v]
  BY DEF OutNeighbors, Child, Minimal, Above, TypeOK, LabelSets
<1>4. \A v : OutNeighbors(v)' = OutNeighbors(v)
  BY <1>1 DEF OutNeighbors
<1>5. TypeOK'
  BY <1>1, <1>3 DEF TypeOK, FreshOut
<1>6. IntersectInv' /\ CandsInv' /\ ExcludeInv' /\ SelectedIsMinimal' /\ ExactEntryGroups'
  BY <1>1, <1>2 DEF IntersectInv, CandsInv, Complete, ExcludeInv, SelectedIsMinimal,
                    ExactEntryGroups
<1>7. ScanInv'
  BY <1>1 DEF ScanInv, Before
<1>8. MarkInv'
  <2>1. excluded' \subseteq visited' \cap cands' /\ minIds' \subseteq visited' \cap scanned'
    BY <1>1, <1>2 DEF MarkInv, TypeOK
  <2>2. \A v \in visited' : \E m \in minIds' : labelSet'[m] \subseteq labelSet'[v]
    <3>1. PICK m \in minIds : labelSet[m] \subseteq labelSet[c]
      BY <1>1, <1>2 DEF MarkInv, TypeOK
    <3>2. \A v \in FreshOut(c) : labelSet[m] \subseteq labelSet[v]
      BY <1>3, <3>1 DEF FreshOut
    <3>3. \A v \in visited : \E n \in minIds : labelSet[n] \subseteq labelSet[v]
      BY <1>2 DEF MarkInv
    <3>4. QED
      BY <1>1, <3>2, <3>3
  <2>3. ASSUME NEW v \in visited' \ queue'
        PROVE  OutNeighbors(v)' \subseteq visited' /\ (v \in cands' => v \in excluded')
    <3>1. CASE v = c
      BY <1>1, <1>4, <3>1 DEF FreshOut
    <3>2. CASE v # c
      <4>1. v \in visited \ queue
        BY <1>1, <2>3, <3>2
      <4>2. OutNeighbors(v) \subseteq visited /\ (v \in cands => v \in excluded)
        BY <1>2, <4>1 DEF MarkInv
      <4>3. QED
        BY <1>1, <1>4, <4>2
    <3>3. QED
      BY <3>1, <3>2
  <2>4. QED
    BY <1>1, <2>1, <2>2, <2>3 DEF MarkInv
<1>9. QED
  BY <1>5, <1>6, <1>7, <1>8

(***************************************************************************)
(* A traversal is over (endMark).                                          *)
(***************************************************************************)
LEMMA EndMarkStep ==
    ASSUME IInv, endMark
    PROVE  IInv'
<1> USE DEF IInv
<1>1. /\ UNCHANGED <<labelSet, query, method, matched, cands, scanned, excluded, visited, queue, minIds>>
      /\ stage = "mark" /\ queue = {} /\ stage' = "scan"
  BY DEF endMark, input
<1>2. method = "sorted_lng"
  BY <1>1 DEF ExcludeInv
<1>3. TypeOK' /\ IntersectInv' /\ CandsInv' /\ ExcludeInv'
  BY <1>1, <1>2 DEF TypeOK, IntersectInv, CandsInv, Complete, ExcludeInv
<1>4. MarkInv'
  BY <1>1 DEF MarkInv, OutNeighbors
<1>5. ScanInv' /\ SelectedIsMinimal' /\ ExactEntryGroups'
  BY <1>1 DEF ScanInv, Before, SelectedIsMinimal, ExactEntryGroups
<1>6. QED
  BY <1>3, <1>4, <1>5

(***************************************************************************)
(* The scan is over, the answer is exact (endScan).                        *)
(***************************************************************************)
LEMMA EndScanStep ==
    ASSUME IInv, endScan
    PROVE  IInv'
<1> USE DEF IInv
<1>1. /\ UNCHANGED <<labelSet, query, method, matched, cands, scanned, excluded, visited, queue>>
      /\ stage = "scan" /\ scanned = cands /\ stage' = "done"
      /\ minIds' = IF method = "sorted_lng" THEN minIds ELSE cands \ excluded
  BY DEF endScan, input
<1>2. minIds' = Minimal(labelSet, cands)
  <2>1. CASE method = "sorted_lng"
    <3>1. minIds \subseteq Minimal(labelSet, cands)
      BY DEF SelectedIsMinimal
    <3>2. ASSUME NEW g \in Minimal(labelSet, cands) PROVE g \in minIds
      <4>1. PICK m \in minIds : labelSet[m] \subseteq labelSet[g]
        BY <1>1, <2>1 DEF ScanInv, Minimal
      <4>2. m = g
        BY <4>1 DEF Minimal, TypeOK
      <4>3. QED
        BY <4>1, <4>2
    <3>3. QED
      BY <1>1, <2>1, <3>1, <3>2
  <2>2. CASE method # "sorted_lng"
    <3>1. minIds' = cands \ UNION {Redundant(g) : g \in cands}
      BY <1>1, <2>2 DEF ExcludeInv
    <3>2. CASE Complete
      <4>1. cands = Qualified(labelSet, query)
        BY <1>1, <3>2 DEF CandsInv
      <4>2. QED
        BY <3>1, <4>1, DropCovered DEF TypeOK
    <3>3. CASE ~Complete
      <4>1. cands = {}
        BY <1>1, <3>3 DEF CandsInv
      <4>2. QED
        BY <3>1, <4>1 DEF Minimal
    <3>4. QED
      BY <3>2, <3>3
  <2>3. QED
    BY <2>1, <2>2
<1>3. Minimal(labelSet, cands) \subseteq cands
  BY DEF Minimal
<1>4. TypeOK' /\ IntersectInv' /\ CandsInv'
  BY <1>1, <1>2, <1>3 DEF TypeOK, IntersectInv, CandsInv, Complete
<1>5. ExcludeInv'
  BY <1>1 DEF ExcludeInv, Redundant, LngDescendants, OutNeighbors
<1>6. MarkInv' /\ ScanInv'
  BY <1>1 DEF MarkInv, OutNeighbors, ScanInv, Before
<1>7. SelectedIsMinimal'
  BY <1>1, <1>2 DEF SelectedIsMinimal
<1>8. ExactEntryGroups'
  BY <1>1, <1>2 DEF ExactEntryGroups, CandsInv, Complete
<1>9. QED
  BY <1>4, <1>5, <1>6, <1>7, <1>8

-----------------------------------------------------------------------------

(***************************************************************************)
(* Every step of the three functions keeps the invariant.                  *)
(***************************************************************************)
LEMMA NextIInv == IInv /\ [Next]_vars => IInv'
<1>1. SUFFICES ASSUME IInv, [Next]_vars PROVE IInv'
  OBVIOUS
<1>2. ASSUME NEW l \in Label, intersect(l) PROVE IInv'
  BY <1>1, <1>2, IntersectStep
<1>3. CASE endIntersect
  BY <1>1, <1>3, EndIntersectStep
<1>4. ASSUME NEW g \in Group, scanBitmap(g) PROVE IInv'
  BY <1>1, <1>4, ScanBitmapStep
<1>5. ASSUME NEW g \in Group, scanSorted(g) PROVE IInv'
  BY <1>1, <1>5, ScanSortedStep
<1>6. ASSUME NEW g \in Group, mark(g) PROVE IInv'
  BY <1>1, <1>6, MarkStep
<1>7. CASE endMark
  BY <1>1, <1>7, EndMarkStep
<1>8. CASE endScan
  BY <1>1, <1>8, EndScanStep
<1>9. CASE UNCHANGED vars
  <2>1. UNCHANGED <<labelSet, query, method, stage, matched, cands, scanned, excluded,
                    visited, queue, minIds>>
    BY <1>9 DEF vars, input
  <2>2. TypeOK' /\ IntersectInv' /\ CandsInv' /\ SelectedIsMinimal' /\ ExactEntryGroups'
    BY <1>1, <2>1 DEF IInv, TypeOK, IntersectInv, CandsInv, Complete, SelectedIsMinimal,
                      ExactEntryGroups
  <2>3. ExcludeInv'
    BY <1>1, <2>1 DEF IInv, ExcludeInv, Redundant, LngDescendants, OutNeighbors
  <2>4. MarkInv' /\ ScanInv'
    BY <1>1, <2>1 DEF IInv, MarkInv, OutNeighbors, ScanInv, Before
  <2>5. QED
    BY <2>2, <2>3, <2>4 DEF IInv
<1>10. QED
  BY <1>1, <1>2, <1>3, <1>4, <1>5, <1>6, <1>7, <1>8, <1>9 DEF Next

-----------------------------------------------------------------------------
\* The construction and then the query.

\* Before the query arrives nothing has been computed for it.
NoQueryYet == /\ matched = {} /\ cands = {} /\ scanned = {} /\ excluded = {}
              /\ visited = {} /\ queue = {} /\ minIds = {}

AllInv == /\ LngInv
          /\ stage = "none" => NoQueryYet
          /\ stage # "none" => IInv

\* The invariant of graph and query holds at the start.
LEMMA AllInit == InitAll => AllInv
<1> SUFFICES ASSUME InitAll PROVE AllInv
  OBVIOUS
<1>1. /\ labelSet \in Lng!LabelSets(Group, Label) /\ phase = "out" /\ todo = Group
      /\ outNeighbors = Lng!Empty /\ inNeighbors = Lng!Empty /\ source = 0 /\ reached = {}
      /\ fifo = {} /\ descendants = Lng!Empty /\ covered = Lng!Empty
      /\ outDegree = [g \in Group |-> 0]
  BY DEF InitAll, Lng!Init
<1>2. LngTyped
  BY <1>1 DEF LngTyped, Lng!Empty, Lng!LabelSets, LabelSets
<1>3. EdgesInv /\ DescendantsInv
  BY <1>1 DEF EdgesInv, DescendantsInv
<1>4. CoverageInv /\ DescendantsExact /\ CoverageExact
  BY <1>1 DEF CoverageInv, DescendantsExact, Lng!DescendantsExact, CoverageExact, Lng!CoverageExact
<1>5. stage = "none" /\ NoQueryYet
  BY DEF InitAll, NoQueryYet
<1>6. QED
  BY <1>2, <1>3, <1>4, <1>5 DEF AllInv, LngInv

\* The graph stays while a query is answered.
LEMMA LngStays == ASSUME LngInv, UNCHANGED <<labelSet, lngVars>> PROVE LngInv'
<1>1. /\ labelSet' = labelSet /\ phase' = phase /\ todo' = todo /\ outNeighbors' = outNeighbors
      /\ inNeighbors' = inNeighbors /\ source' = source /\ descendants' = descendants
      /\ covered' = covered /\ outDegree' = outDegree /\ reached' = reached /\ fifo' = fifo
  BY DEF lngVars
<1>2. LngTyped'
  BY <1>1 DEF LngInv, LngTyped
<1>3. EdgesInv' /\ DescendantsInv'
  BY <1>1 DEF LngInv, EdgesInv, DescendantsInv
<1>4. CoverageInv'
  <2>1. Merged' = Merged
    BY <1>1 DEF Merged
  <2>2. QED
    BY <1>1, <2>1 DEF LngInv, CoverageInv
<1>5. DescendantsExact' /\ CoverageExact'
  BY <1>1 DEF LngInv, DescendantsExact, Lng!DescendantsExact, CoverageExact, Lng!CoverageExact
<1>6. QED
  BY <1>2, <1>3, <1>4, <1>5 DEF LngInv

\* A query for one of the functions.
LEMMA AskStep == ASSUME AllInv, ask PROVE AllInv'
<1>1. /\ stage = "none" /\ NoQueryYet /\ query' \in SUBSET Label /\ method' \in Method
      /\ stage' = "intersect"
      /\ UNCHANGED <<lngVars, labelSet, matched, cands, scanned, excluded, visited, queue, minIds>>
  BY DEF AllInv, ask
<1>2. LngInv'
  BY <1>1, LngStays DEF AllInv
<1>3. labelSet' \in LabelSets(Group, Label)
  BY <1>1 DEF AllInv, LngInv, LngTyped
<1>4. TypeOK'
  BY <1>1, <1>3 DEF TypeOK, NoQueryYet
<1>5. IntersectInv' /\ CandsInv' /\ ExcludeInv'
  BY <1>1 DEF IntersectInv, CandsInv, ExcludeInv, NoQueryYet
<1>6. MarkInv' /\ ScanInv' /\ SelectedIsMinimal' /\ ExactEntryGroups'
  BY <1>1 DEF MarkInv, ScanInv, SelectedIsMinimal, ExactEntryGroups, NoQueryYet
<1>7. IInv'
  BY <1>4, <1>5, <1>6 DEF IInv
<1>8. QED
  BY <1>1, <1>2, <1>7 DEF AllInv

\* A step of the answer.
LEMMA AnswerStep == ASSUME AllInv, answer PROVE AllInv'
<1>1. stage # "none"
  BY DEF answer, Next, intersect, endIntersect, scanBitmap, scanSorted, mark, endMark, endScan
<1>2. IInv'
  BY <1>1, NextIInv DEF AllInv, answer
<1>3. stage' # "none"
  BY <1>2 DEF IInv, TypeOK
<1>4. labelSet' = labelSet
  BY DEF answer, Next, intersect, endIntersect, scanBitmap, scanSorted, mark, endMark, endScan, input
<1>5. LngInv'
  BY <1>4, LngStays DEF AllInv, answer
<1>6. QED
  BY <1>2, <1>3, <1>5 DEF AllInv

\* A step of the construction.
LEMMA BuildStep == ASSUME AllInv, build PROVE AllInv'
<1>1. LngInv' /\ UNCHANGED <<labelSet, entryVars>>
  BY LngNext, LabelSetStays DEF AllInv, build
<1>2. UNCHANGED vars
  BY <1>1 DEF entryVars, vars, input
<1>3. stage # "none" => IInv'
  BY <1>2, NextIInv DEF AllInv
<1>4. NoQueryYet' = NoQueryYet /\ stage' = stage
  BY <1>1 DEF NoQueryYet, entryVars
<1>5. QED
  BY <1>1, <1>3, <1>4 DEF AllInv

(***************************************************************************)
(* All that is said above of the construction and of the query holds in    *)
(* every reachable state.                                                  *)
(***************************************************************************)
THEOREM Invariance == SpecAll => []AllInv
<1>1. AllInv /\ [build \/ ask \/ answer]_<<vars, lngVars>> => AllInv'
  <2>1. SUFFICES ASSUME AllInv, [build \/ ask \/ answer]_<<vars, lngVars>> PROVE AllInv'
    OBVIOUS
  <2>2. CASE UNCHANGED <<vars, lngVars>>
    <3>1. LngInv'
      BY <2>1, <2>2, LngStays DEF AllInv, vars, input
    <3>2. stage # "none" => IInv'
      BY <2>1, <2>2, NextIInv DEF AllInv
    <3>3. NoQueryYet' = NoQueryYet /\ stage' = stage
      BY <2>2 DEF NoQueryYet, vars
    <3>4. QED
      BY <2>1, <3>1, <3>2, <3>3 DEF AllInv
  <2>3. QED
    BY <2>1, <2>2, BuildStep, AskStep, AnswerStep
<1>2. QED
  BY <1>1, AllInit, PTL DEF SpecAll

(***************************************************************************)
(* The breadth-first searches of get_descendants_info, which follow the    *)
(* direct edges only, find exactly the groups above their source.          *)
(***************************************************************************)
THEOREM DescendantsAreExact == SpecAll => []DescendantsExact
<1>1. AllInv => DescendantsExact
  BY DEF AllInv, LngInv
<1>2. QED
  BY Invariance, <1>1, PTL

(***************************************************************************)
(* The bottom-up merge of cal_f_coverage_ratio leaves no group out and     *)
(* covers exactly what is at or above each group.                          *)
(***************************************************************************)
THEOREM CoverageIsExact == SpecAll => []CoverageExact
<1>1. AllInv => CoverageExact
  BY DEF AllInv, LngInv
<1>2. QED
  BY Invariance, <1>1, PTL

(***************************************************************************)
(* get_min_super_sets_bitmap, _sorted_lng and _tfng2 return exactly the    *)
(* minimal groups among those that qualify.                                *)
(***************************************************************************)
THEOREM Exactness == SpecAll => []ExactEntryGroups
<1>1. AllInv => ExactEntryGroups
  BY DEF AllInv, IInv, ExactEntryGroups
<1>2. QED
  BY Invariance, <1>1, PTL

(***************************************************************************)
(* The visited array shared by the traversals of sorted_lng loses no mark. *)
(***************************************************************************)
THEOREM SharedMarks == SpecAll => []MarksAreShared
<1>1. ASSUME AllInv PROVE MarksAreShared
  <2>1. SUFFICES ASSUME stage = "scan", method = "sorted_lng"
                 PROVE  excluded = {c \in cands : \E m \in minIds : labelSet[m] \subseteq labelSet[c]}
    BY DEF MarksAreShared
  <2>0. IInv
    BY <1>1, <2>1 DEF AllInv
  <2>2. /\ queue = {} /\ excluded \subseteq visited \cap cands /\ minIds \subseteq visited
        /\ \A v \in visited : \E m \in minIds : labelSet[m] \subseteq labelSet[v]
    BY <2>0, <2>1 DEF IInv, MarkInv
  <2>3. \A v \in visited : OutNeighbors(v) \subseteq visited /\ (v \in cands => v \in excluded)
    <3>1. visited \ queue = visited
      BY <2>2
    <3>2. \A v \in visited \ queue : OutNeighbors(v) \subseteq visited /\ (v \in cands => v \in excluded)
      BY <2>0, <2>1 DEF IInv, MarkInv
    <3>3. QED
      BY <3>1, <3>2
  <2>4. ASSUME NEW c \in cands, NEW m \in minIds, labelSet[m] \subseteq labelSet[c]
        PROVE  c \in excluded
    <3>1. \A v \in visited : Child(labelSet, v) \subseteq visited
      BY <2>3 DEF OutNeighbors
    <3>2. c \in visited
      BY <2>0, <2>1, <2>2, <2>4, <3>1, ClosedIsUpward, LabelAssumption DEF IInv, TypeOK
    <3>3. QED
      BY <2>3, <3>2
  <2>5. QED
    BY <2>2, <2>4
<1>2. QED
  BY Invariance, <1>1, PTL
=============================================================================
