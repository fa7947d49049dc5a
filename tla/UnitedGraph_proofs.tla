------------------------- MODULE UnitedGraph_proofs -------------------------
(***************************************************************************)
(* The united graph, built and searched, for every number of groups,       *)
(* vectors, labels and edges: what CrossEdges builds is what UngSearch     *)
(* relies on, and on any such graph the greedy search is sound, stops at a *)
(* local optimum, and misses nothing when its queue is long enough.        *)
(***************************************************************************)
EXTENDS CrossEdges, UngSearch, Order_proofs

-----------------------------------------------------------------------------
\* The ids of the vectors.

\* The groups are 1 .. n and their ranges follow each other.
LEMMA GroupsAreNumbered ==
    ASSUME InitGroups
    PROVE  \E n \in Nat : /\ n # 0 /\ Group = 1 .. n
                          /\ labelSet \in LabelSets(Group, Label) /\ first \in Ranges(n)
<1>1. PICK n \in GroupCounts : labelSet \in LabelSets(1 .. n, Label) /\ first \in Ranges(n)
  BY DEF InitGroups
<1>2. n \in Nat /\ n # 0
  BY CountsAssumption
<1>3. Group = 1 .. n
  BY <1>1 DEF Group, LabelSets
<1>4. QED
  BY <1>1, <1>2, <1>3

\* The bounds of the ranges grow with the group.
LEMMA BoundsGrow ==
    ASSUME NEW n \in Nat, first \in Ranges(n), NEW g \in 1 .. n + 1, NEW h \in 1 .. n + 1, g <= h
    PROVE  first[g] <= first[h]
<1>1. first \in [1 .. n + 1 -> 0 .. MaxPoints] /\ \A k \in 1 .. n : first[k] < first[k + 1]
  BY DEF Ranges
<1>2. MaxPoints \in Nat /\ \A k \in 1 .. n + 1 : first[k] \in Nat
  BY <1>1, CountsAssumption
<1> DEFINE K == {k \in Nat : g + k \in 1 .. n + 1 => first[g] <= first[g + k]}
<1>3. 0 \in K
  BY <1>2
<1>4. \A k \in Nat : k \in K => k + 1 \in K
  <2> SUFFICES ASSUME NEW k \in Nat, k \in K, g + (k + 1) \in 1 .. n + 1
               PROVE  first[g] <= first[g + (k + 1)]
    OBVIOUS
  <2>1. g + k \in 1 .. n + 1 /\ g + k \in 1 .. n /\ g + (k + 1) = (g + k) + 1
    OBVIOUS
  <2>2. first[g] <= first[g + k] /\ first[g + k] < first[(g + k) + 1]
    BY <1>1, <2>1
  <2>3. first[g] \in Nat /\ first[g + k] \in Nat /\ first[(g + k) + 1] \in Nat
    BY <1>2, <2>1
  <2>4. QED
    BY <2>1, <2>2, <2>3
<1>5. h - g \in Nat /\ g + (h - g) = h
  OBVIOUS
<1>6. h - g \in K
  <2> HIDE DEF K
  <2> QED
    BY <1>3, <1>4, <1>5, SetInduction
<1>7. QED
  BY <1>5, <1>6

(***************************************************************************)
(* The ranges of prepare_group_storages_graphs divide the ids: every group *)
(* has a range of its own, not empty, and every id is in one range.        *)
(***************************************************************************)
LEMMA RangeFacts ==
    ASSUME InitGroups
    PROVE  /\ \A g \in Group : /\ g \in Nat \ {0}
                               /\ first[g] \in Nat /\ first[g + 1] \in Nat /\ first[g] < first[g + 1]
                               /\ first[g + 1] <= MaxPoints
                               /\ VecsOf(g) \subseteq Vec
                               /\ Size(g) \in Nat
           /\ \A g, h \in Group : \A v : v \in VecsOf(g) /\ v \in VecsOf(h) => g = h
<1>1. PICK n \in Nat : n # 0 /\ Group = 1 .. n /\ first \in Ranges(n)
  BY GroupsAreNumbered
<1>2. first \in [1 .. n + 1 -> 0 .. MaxPoints] /\ \A k \in 1 .. n : first[k] < first[k + 1]
  BY <1>1 DEF Ranges
<1>3. \A k \in 1 .. n + 1 : first[k] \in Nat /\ first[k] <= MaxPoints
  BY <1>2, CountsAssumption
<1>4. ASSUME NEW g \in Group
      PROVE  /\ g \in Nat \ {0}
             /\ first[g] \in Nat /\ first[g + 1] \in Nat /\ first[g] < first[g + 1]
             /\ first[g + 1] <= MaxPoints
  <2>1. g \in 1 .. n /\ g \in 1 .. n + 1 /\ g + 1 \in 1 .. n + 1
    BY <1>1
  <2>2. QED
    BY <1>2, <1>3, <2>1
<1>5. ASSUME NEW g \in Group, NEW h \in Group, NEW v, v \in VecsOf(g), v \in VecsOf(h), g < h
      PROVE  FALSE
  <2>1. g + 1 \in 1 .. n + 1 /\ h \in 1 .. n + 1 /\ g + 1 <= h
    BY <1>1, <1>5
  <2>2. first[g + 1] <= first[h]
    BY <1>1, <2>1, BoundsGrow
  <2>3. v < first[g + 1] /\ first[h] <= v /\ v \in Int
    BY <1>4, <1>5 DEF VecsOf
  <2>4. QED
    BY <1>4, <2>2, <2>3
<1>6. \A g, h \in Group : \A v : v \in VecsOf(g) /\ v \in VecsOf(h) => g = h
  <2> SUFFICES ASSUME NEW g \in Group, NEW h \in Group, NEW v, v \in VecsOf(g), v \in VecsOf(h), g # h
               PROVE  FALSE
    OBVIOUS
  <2>1. g < h \/ h < g
    BY <1>4
  <2>2. QED
    BY <1>5, <2>1
<1>7. \A g \in Group : VecsOf(g) \subseteq Vec /\ Size(g) \in Nat
  BY <1>4 DEF Vec, Size
<1>8. QED
  BY <1>4, <1>6, <1>7

\* _new_vec_id_to_group_id agrees with the ranges.
LEMMA GroupOfIs ==
    ASSUME InitGroups
    PROVE  /\ \A v \in Vec : GroupOf(v) \in Group /\ v \in VecsOf(GroupOf(v)) /\ v \in Nat
           /\ \A g \in Group : \A v \in VecsOf(g) : v \in Vec /\ GroupOf(v) = g
           /\ IsFiniteSet(Vec)
<1>1. ASSUME NEW v \in Vec PROVE GroupOf(v) \in Group /\ v \in VecsOf(GroupOf(v))
  <2>1. \E g \in Group : v \in VecsOf(g)
    BY DEF Vec
  <2>2. QED
    BY <2>1 DEF GroupOf
<1>2. \A g \in Group : \A v \in VecsOf(g) : v \in 0 .. MaxPoints
  BY RangeFacts, CountsAssumption DEF VecsOf
<1>3. Vec \subseteq 0 .. MaxPoints
  BY <1>1, <1>2
<1>4. \A g \in Group : \A v \in VecsOf(g) : v \in Vec /\ GroupOf(v) = g
  BY <1>1, RangeFacts
<1>5. IsFiniteSet(0 .. MaxPoints)
  BY CountsAssumption, FS_Interval
<1>6. IsFiniteSet(Vec)
  BY <1>3, <1>5, FS_Subset
<1>7. \A v \in Vec : v \in Nat
  BY <1>3, CountsAssumption
<1>8. QED
  BY <1>1, <1>4, <1>6, <1>7

-----------------------------------------------------------------------------
\* Building the graph.

\* The groups, their ranges and the edges of the LNG stay what they are.
LEMMA IdsStay ==
    ASSUME UNCHANGED groups
    PROVE  /\ InitGroups' = InitGroups /\ Group' = Group /\ Vec' = Vec /\ Pairs' = Pairs
           /\ Searches' = Searches /\ LngEdges' = LngEdges /\ first' = first /\ labelSet' = labelSet
           /\ \A g : VecsOf(g)' = VecsOf(g) /\ Size(g)' = Size(g) /\ OutNeighbors(g)' = OutNeighbors(g)
           /\ \A v : GroupOf(v)' = GroupOf(v)
           /\ \A v, n : UpEdge(v, n)' = UpEdge(v, n)
<1>1. first' = first /\ labelSet' = labelSet
  BY DEF groups
<1>2. InitGroups' = InitGroups /\ Group' = Group
  BY <1>1 DEF InitGroups, Ranges, Group
<1>3. \A g : VecsOf(g)' = VecsOf(g) /\ Size(g)' = Size(g) /\ OutNeighbors(g)' = OutNeighbors(g)
  BY <1>1 DEF VecsOf, Size, OutNeighbors
<1>4. Vec' = Vec
  BY <1>2, <1>3 DEF Vec
<1>5. \A v : GroupOf(v)' = GroupOf(v)
  BY <1>2, <1>3 DEF GroupOf
<1>6. Pairs' = Pairs /\ Searches' = Searches /\ LngEdges' = LngEdges
  BY <1>2, <1>3 DEF Pairs, Searches, InNeighbors, LngEdges
<1>7. \A v, n : UpEdge(v, n)' = UpEdge(v, n)
  BY <1>3, <1>4, <1>5 DEF UpEdge
<1>8. QED
  BY <1>1, <1>2, <1>3, <1>4, <1>5, <1>6, <1>7

\* The edges of the LNG lead to groups.
LEMMA ChildrenAreGroups == \A g : OutNeighbors(g) \subseteq Group
BY DEF OutNeighbors, Child, Minimal, Above, Group

\* Local ids, shifted, are ids of the group.
LEMMA ShiftedIds ==
    ASSUME InitGroups, NEW h \in Group, NEW r \in 0 .. Size(h) - 1
    PROVE  first[h] + r \in VecsOf(h) /\ r + first[h] \in VecsOf(h)
BY RangeFacts DEF VecsOf, Size

\* What the two loops offer or add to a vector are edges to a child of its group.
LEMMA FoundAreUp ==
    ASSUME InitGroups, NEW g \in Group, NEW h \in OutNeighbors(g), NEW v \in VecsOf(g),
           NEW R \in Found(h)
    PROVE  /\ ToGlobal(h, g, R) # {} /\ ToGlobal(h, g, R) \subseteq VecsOf(h)
           /\ \A n \in ToGlobal(h, g, R) : UpEdge(v, n)
<1>1. h \in Group
  BY ChildrenAreGroups
<1>2. ToGlobal(h, g, R) \subseteq VecsOf(h)
  BY <1>1, ShiftedIds DEF ToGlobal, Found
<1>3. ToGlobal(h, g, R) # {}
  BY DEF ToGlobal, Found
<1>4. \A n \in ToGlobal(h, g, R) : UpEdge(v, n)
  BY <1>1, <1>2, GroupOfIs DEF UpEdge
<1>5. QED
  BY <1>2, <1>3, <1>4

\* A search of the first loop.
LEMMA FollowSearch ==
    ASSUME FollowInv, NEW s \in pending, searchChild(s)
    PROVE  FollowInv'
<1>1. /\ UNCHANGED groups /\ phase = "cross" /\ pending' \subseteq pending
      /\ phase' = phase /\ neighbors' = neighbors /\ additional' = additional /\ fill' = fill
  BY DEF searchChild
<1>2. s \in Searches /\ InitGroups
  BY <1>1 DEF FollowInv
<1>3. PICK h \in Group : \E g \in InNeighbors(h) : \E v \in VecsOf(g) : s = [to |-> h, vec |-> v]
  BY <1>2 DEF Searches
<1>4. PICK g \in Group : h \in OutNeighbors(g) /\ s.vec \in VecsOf(g) /\ s.to = h
  BY <1>3 DEF InNeighbors
<1>5. PICK R \in Found(h) : \E nearest \in Keep(cross[s.vec] \cup ToGlobal(h, GroupOf(s.vec), R)) :
         cross' = [cross EXCEPT ![s.vec] = nearest]
  BY <1>4 DEF searchChild
<1>6. PICK nearest : /\ nearest \subseteq cross[s.vec] \cup ToGlobal(h, g, R)
                     /\ cross' = [cross EXCEPT ![s.vec] = nearest]
  BY <1>2, <1>4, <1>5, GroupOfIs DEF Keep, SomeOf
<1>7. s.vec \in Vec
  BY <1>2, <1>4, GroupOfIs
<1>8. \A n \in nearest : UpEdge(s.vec, n)
  <2>1. \A n \in cross[s.vec] : UpEdge(s.vec, n)
    BY <1>7 DEF FollowInv
  <2>2. \A n \in ToGlobal(h, g, R) : UpEdge(s.vec, n)
    BY <1>2, <1>4, FoundAreUp
  <2>3. QED
    BY <1>6, <2>1, <2>2
<1>9. cross' \in [Vec -> SUBSET Vec] /\ \A v \in Vec : \A n \in cross'[v] : UpEdge(v, n)
  <2>1. nearest \subseteq Vec
    BY <1>8 DEF UpEdge
  <2>2. cross \in [Vec -> SUBSET Vec] /\ \A v \in Vec : \A n \in cross[v] : UpEdge(v, n)
    BY DEF FollowInv
  <2>3. QED
    BY <1>6, <1>8, <2>1, <2>2
<1>10. QED
  BY <1>1, <1>9, IdsStay DEF FollowInv, LocalIds

\* An iteration of the loop that adds edges.
LEMMA FollowAdd ==
    ASSUME FollowInv, addEdges
    PROVE  FollowInv'
<1>1. /\ UNCHANGED groups /\ phase = "connect" /\ fill # NoFill /\ InitGroups
      /\ phase' = phase /\ neighbors' = neighbors /\ cross' = cross /\ pending' = pending
  BY DEF addEdges, FollowInv
<1>2. /\ fill \in [from : Group, to : Group, vec : Nat, cnt : Nat]
      /\ fill.to \in OutNeighbors(fill.from) /\ fill.vec \in VecsOf(fill.from)
  BY <1>1 DEF addEdges, FollowInv
<1>3. PICK R \in Found(fill.to) : \E S \in AddedEdges(ToGlobal(fill.to, fill.from, R)) :
         /\ additional' = additional \cup ({fill.vec} \X S)
         /\ fill' = [fill EXCEPT !.vec = @ + 1, !.cnt = @ + Count(S)]
  BY DEF addEdges
<1>4. PICK S \in SUBSET ToGlobal(fill.to, fill.from, R) :
         /\ additional' = additional \cup ({fill.vec} \X S)
         /\ fill' = [fill EXCEPT !.vec = @ + 1, !.cnt = @ + Count(S)]
  BY <1>3 DEF AddedEdges, SomeOf
<1>5. \A n \in S : UpEdge(fill.vec, n)
  BY <1>1, <1>2, FoundAreUp
<1>6. \A e \in additional' : e = <<e[1], e[2]>> /\ UpEdge(e[1], e[2])
  BY <1>4, <1>5 DEF FollowInv
<1>7. Count(S) \in Nat
  <2>1. S \subseteq Vec
    BY <1>5 DEF UpEdge
  <2>2. IsFiniteSet(S)
    BY <1>1, <2>1, GroupOfIs, FS_Subset
  <2>3. QED
    BY <2>2, FS_CardinalityType DEF Count
<1>8. /\ fill' \in [from : Group, to : Group, vec : Nat, cnt : Nat]
      /\ fill'.to = fill.to /\ fill'.from = fill.from
  <2>1. /\ fill = [from |-> fill.from, to |-> fill.to, vec |-> fill.vec, cnt |-> fill.cnt]
        /\ fill.from \in Group /\ fill.to \in Group /\ fill.vec \in Nat /\ fill.cnt \in Nat
    BY <1>2
  <2>2. fill' = [from |-> fill.from, to |-> fill.to, vec |-> fill.vec + 1, cnt |-> fill.cnt + Count(S)]
    BY <1>4, <2>1
  <2>3. fill.vec + 1 \in Nat /\ fill.cnt + Count(S) \in Nat
    BY <1>7, <2>1
  <2>4. QED
    BY <2>1, <2>2, <2>3
<1>9. QED
  BY <1>1, <1>2, <1>6, <1>8, IdsStay DEF FollowInv, LocalIds

\* The shift and the merge.
LEMMA FollowMerge ==
    ASSUME FollowInv, addOffset \/ merge
    PROVE  FollowInv'
<1>1. /\ UNCHANGED groups /\ InitGroups
      /\ cross' = cross /\ additional' = additional /\ fill' = fill /\ fill = NoFill
  BY DEF addOffset, merge, FollowInv
<1>2. CASE addOffset
  <2>1. phase = "offset" /\ phase' = "merge" /\ neighbors' = [v \in Vec |-> {Shift(v, n) : n \in neighbors[v]}]
    BY <1>2 DEF addOffset
  <2>2. ASSUME NEW v \in Vec PROVE neighbors'[v] \subseteq VecsOf(GroupOf(v))
    <3>1. GroupOf(v) \in Group /\ neighbors[v] \subseteq 0 .. Size(GroupOf(v)) - 1
      BY <1>1, <2>1, GroupOfIs DEF FollowInv, LocalIds
    <3>2. \A n \in neighbors[v] : Shift(v, n) \in VecsOf(GroupOf(v))
      BY <1>1, <3>1, ShiftedIds DEF Shift
    <3>3. QED
      BY <2>1, <3>2
  <2>3. \A v \in Vec : neighbors'[v] \subseteq Nat
    BY <1>1, <2>2, GroupOfIs
  <2>4. neighbors' \in [Vec -> SUBSET Nat]
    BY <2>1, <2>3
  <2>5. QED
    BY <1>1, <2>1, <2>2, <2>4, IdsStay DEF FollowInv
<1>3. CASE merge
  <2>1. /\ phase = "merge" /\ phase' = "built"
        /\ neighbors' = [v \in Vec |-> neighbors[v] \cup cross[v] \cup {e[2] : e \in {a \in additional : a[1] = v}}]
    BY <1>3 DEF merge
  <2>2. ASSUME NEW v \in Vec, NEW n \in neighbors'[v]
        PROVE  n \in Vec /\ GroupOf(n) \in {GroupOf(v)} \cup OutNeighbors(GroupOf(v))
    <3>1. n \in neighbors[v] \/ UpEdge(v, n)
      BY <2>1, <2>2 DEF FollowInv
    <3>2. CASE n \in neighbors[v]
      <4>1. n \in VecsOf(GroupOf(v)) /\ GroupOf(v) \in Group
        BY <1>1, <2>1, <3>2, GroupOfIs DEF FollowInv
      <4>2. QED
        BY <1>1, <4>1, GroupOfIs
    <3>3. CASE UpEdge(v, n)
      BY <3>3 DEF UpEdge
    <3>4. QED
      BY <3>1, <3>2, <3>3
  <2>3. FollowsLng'
    BY <1>1, <2>2, IdsStay DEF FollowsLng
  <2>4. neighbors' \in [Vec -> SUBSET Nat]
    <3>1. \A v \in Vec : neighbors'[v] \subseteq Nat
      BY <1>1, <2>2, GroupOfIs
    <3>2. QED
      BY <2>1, <3>1
  <2>5. QED
    BY <1>1, <2>1, <2>3, <2>4, IdsStay DEF FollowInv
<1>4. QED
  BY <1>2, <1>3

\* A pair of groups of the second loop.
LEMMA PairFacts ==
    ASSUME NEW p \in Pairs
    PROVE  /\ p.from \in Group /\ p.to \in Group /\ p.to \in OutNeighbors(p.from)
           /\ p = [from |-> p.from, to |-> p.to]
BY ChildrenAreGroups DEF Pairs

\* The rest of the second loop.
LEMMA FollowConnect ==
    ASSUME FollowInv, (\E p \in pending : connect(p)) \/ endCross \/ endFill \/ endConnect
    PROVE  FollowInv'
<1>1. /\ UNCHANGED groups /\ InitGroups
      /\ neighbors' = neighbors /\ cross' = cross /\ additional' = additional
  BY DEF connect, endCross, endFill, endConnect, FollowInv
<1>2. ASSUME NEW p \in pending, connect(p) PROVE FollowInv'
  <2>1. phase = "connect" /\ phase' = "connect" /\ p \in Pairs /\ pending' \subseteq pending
    BY <1>2 DEF connect, FollowInv
  <2>2. p.from \in Group /\ p.to \in Group /\ p.to \in OutNeighbors(p.from) /\ first[p.from] \in Nat
    BY <1>1, <2>1, PairFacts, RangeFacts
  <2>3. fill' = NoFill \/ fill' = [from |-> p.from, to |-> p.to, vec |-> first[p.from], cnt |-> 0]
    BY <1>2 DEF connect
  <2>4. fill' = NoFill \/ (/\ fill' \in [from : Group, to : Group, vec : Nat, cnt : Nat]
                           /\ fill'.to \in OutNeighbors(fill'.from))
    BY <2>2, <2>3
  <2>5. QED
    BY <1>1, <2>1, <2>4, IdsStay DEF FollowInv, LocalIds
<1>3. CASE endCross
  BY <1>1, <1>3, IdsStay DEF endCross, FollowInv, LocalIds
<1>4. CASE endFill
  BY <1>1, <1>4, IdsStay DEF endFill, FollowInv, LocalIds
<1>5. CASE endConnect
  BY <1>1, <1>5, IdsStay DEF endConnect, FollowInv, LocalIds
<1>6. QED
  BY <1>2, <1>3, <1>4, <1>5

\* Edges in construction follow the LNG.
LEMMA FollowNext == FollowInv /\ [NextBuild]_buildVars => FollowInv'
<1> SUFFICES ASSUME FollowInv, [NextBuild]_buildVars PROVE FollowInv'
  OBVIOUS
<1>1. CASE UNCHANGED buildVars
  <2>1. /\ UNCHANGED groups /\ phase' = phase /\ pending' = pending /\ neighbors' = neighbors
        /\ cross' = cross /\ additional' = additional /\ fill' = fill
    BY <1>1 DEF buildVars
  <2>2. FollowsLng' = FollowsLng /\ LocalIds' = LocalIds
    BY <2>1, IdsStay DEF FollowsLng, LocalIds
  <2>3. QED
    BY <2>1, <2>2, IdsStay DEF FollowInv
<1>2. QED
  BY <1>1, FollowSearch, FollowAdd, FollowMerge, FollowConnect DEF NextBuild

\* Any group graphs in local ids will do, complete ones or Vamana's.
InitAnyGroups == InitGroups /\ neighbors \in [Vec -> SUBSET Nat] /\ LocalIds /\ InitLoops

\* Complete group graphs are among them.
LEMMA CompleteGroups == InitBuild => InitAnyGroups
<1> SUFFICES ASSUME InitBuild PROVE InitAnyGroups
  OBVIOUS
<1>1. InitGroups /\ InitLoops
  BY DEF InitBuild
<1>2. neighbors = [v \in Vec |-> (0 .. Size(GroupOf(v)) - 1) \ {v - first[GroupOf(v)]}]
  BY DEF InitBuild
<1>3. ASSUME NEW v \in Vec
      PROVE  neighbors[v] \subseteq 0 .. Size(GroupOf(v)) - 1 /\ neighbors[v] \subseteq Nat
  BY <1>1, <1>2, GroupOfIs, RangeFacts
<1>4. QED
  BY <1>1, <1>2, <1>3 DEF InitAnyGroups, LocalIds

\* The graph of no cross edge follows the label graph.
LEMMA FollowInit == InitAnyGroups => FollowInv
BY DEF InitAnyGroups, InitLoops, FollowInv, LocalIds

(***************************************************************************)
(* build_cross_group_edges never leads an edge anywhere but to the same    *)
(* group or to a child group, shifted ids and repairs included.            *)
(***************************************************************************)
THEOREM EdgesFollow == SpecBuild => []EdgesFollowLng
<1>1. FollowInv => EdgesFollowLng
  BY DEF FollowInv, EdgesFollowLng
<1>2. QED
  BY <1>1, CompleteGroups, FollowInit, FollowNext, PTL DEF SpecBuild

-----------------------------------------------------------------------------

\* Half of _num_cross_edges must not be 0, or the repair adds nothing.
LEMMA SomeAreAdded ==
    ASSUME NumCrossEdges >= 2, NEW R, IsFiniteSet(R), R # {}, NEW S \in AddedEdges(R)
    PROVE  S # {}
<1>1. NumCrossEdges \in Nat /\ NumCrossEdges \div 2 \in Nat /\ NumCrossEdges \div 2 >= 1
  BY EdgesAssumption
<1>2. Cardinality(R) \in Nat /\ Cardinality(R) # 0
  BY FS_CardinalityType, FS_EmptySet
<1>3. Cardinality(S) = LeastOf(NumCrossEdges \div 2, R)
  BY DEF AddedEdges, SomeOf
<1>4. Cardinality(S) # 0
  BY <1>1, <1>2, <1>3 DEF LeastOf
<1>5. QED
  BY <1>4, FS_EmptySet

\* The loop that repairs an unconnected pair adds an edge at its first vector.
LEMMA ConnectAdd ==
    ASSUME NumCrossEdges >= 2, FollowInv, ConnectInv, addEdges
    PROVE  ConnectInv'
<1>1. /\ UNCHANGED groups /\ phase = "connect" /\ fill # NoFill /\ InitGroups
      /\ phase' = phase /\ cross' = cross /\ pending' = pending
  BY DEF addEdges, FollowInv
<1>2. /\ fill \in [from : Group, to : Group, vec : Nat, cnt : Nat]
      /\ fill.to \in OutNeighbors(fill.from) /\ fill.vec \in VecsOf(fill.from)
  BY <1>1 DEF addEdges, FollowInv
<1>3. PICK R \in Found(fill.to) : \E S \in AddedEdges(ToGlobal(fill.to, fill.from, R)) :
         /\ additional' = additional \cup ({fill.vec} \X S)
         /\ fill' = [fill EXCEPT !.vec = @ + 1, !.cnt = @ + Count(S)]
  BY DEF addEdges
<1>4. PICK S \in AddedEdges(ToGlobal(fill.to, fill.from, R)) :
         /\ additional' = additional \cup ({fill.vec} \X S)
         /\ fill' = [fill EXCEPT !.vec = @ + 1, !.cnt = @ + Count(S)]
  BY <1>3
<1>5. S # {} /\ S \subseteq VecsOf(fill.to)
  <2>1. /\ ToGlobal(fill.to, fill.from, R) # {}
        /\ ToGlobal(fill.to, fill.from, R) \subseteq VecsOf(fill.to)
        /\ VecsOf(fill.to) \subseteq Vec
    BY <1>1, <1>2, FoundAreUp, RangeFacts
  <2>2. IsFiniteSet(ToGlobal(fill.to, fill.from, R))
    <3>1. ToGlobal(fill.to, fill.from, R) \subseteq Vec
      BY <2>1
    <3>2. QED
      BY <1>1, <3>1, GroupOfIs, FS_Subset
  <2>3. S # {}
    BY <2>1, <2>2, SomeAreAdded
  <2>4. QED
    BY <2>1, <2>3 DEF AddedEdges, SomeOf
<1>6. fill'.from = fill.from /\ fill'.to = fill.to /\ fill' # NoFill
  <2>1. fill.from \in Nat \ {0}
    BY <1>1, <1>2, RangeFacts
  <2>2. fill'.from = fill.from /\ fill'.to = fill.to
    BY <1>2, <1>4
  <2>3. QED
    BY <2>1, <2>2 DEF NoFill
<1>7. Added(fill.from, fill.to)'
  <2>1. PICK n \in S : TRUE
    BY <1>5
  <2>2. <<fill.vec, n>> \in additional' /\ fill.vec \in VecsOf(fill.from) /\ n \in VecsOf(fill.to)
    BY <1>2, <1>4, <1>5
  <2>3. \E e \in additional' : e[1] \in VecsOf(fill.from) /\ e[2] \in VecsOf(fill.to)
    BY <2>2
  <2>4. QED
    BY <1>1, <1>6, <2>3, IdsStay DEF Added
<1>8. ASSUME NEW p \in Pairs \ pending PROVE Passed(p)'
  <2>1. CASE Connected(p.from, p.to)
    BY <1>1, <2>1, IdsStay DEF Connected, Passed
  <2>2. CASE Added(p.from, p.to)
    BY <1>1, <1>4, <2>2, IdsStay DEF Added, Passed
  <2>3. CASE fill # NoFill /\ fill.from = p.from /\ fill.to = p.to
    BY <1>6, <2>3 DEF Passed
  <2>4. QED
    BY <1>1, <1>8, <2>1, <2>2, <2>3 DEF ConnectInv, Passed
<1>9. QED
  BY <1>1, <1>7, <1>8, IdsStay DEF ConnectInv

\* A pair enters the loop unless an edge connects it already ...
LEMMA ConnectPair ==
    ASSUME FollowInv, ConnectInv, NEW p \in pending, connect(p)
    PROVE  ConnectInv'
<1>1. /\ UNCHANGED groups /\ phase = "connect" /\ phase' = phase /\ fill = NoFill /\ InitGroups
      /\ cross' = cross /\ additional' = additional /\ pending' = pending \ {p}
  BY DEF connect, FollowInv
<1>2. p \in Pairs
  BY <1>1 DEF FollowInv
<1>3. p.from \in Nat \ {0}
  BY <1>1, <1>2, PairFacts, RangeFacts
<1>4. \/ Connected(p.from, p.to) /\ fill' = NoFill
      \/ fill' = [from |-> p.from, to |-> p.to, vec |-> first[p.from], cnt |-> 0]
  BY DEF connect
<1>5. Passed(p)'
  <2>1. CASE Connected(p.from, p.to)
    BY <1>1, <2>1, IdsStay DEF Connected, Passed
  <2>2. CASE fill' = [from |-> p.from, to |-> p.to, vec |-> first[p.from], cnt |-> 0]
    BY <1>3, <2>2 DEF Passed, NoFill
  <2>3. QED
    BY <1>4, <2>1, <2>2
<1>6. ASSUME NEW q \in Pairs \ pending PROVE Passed(q)'
  <2>1. Connected(q.from, q.to) \/ Added(q.from, q.to)
    BY <1>1, <1>6 DEF ConnectInv, Passed
  <2>2. QED
    BY <1>1, <2>1, IdsStay DEF Connected, Added, Passed
<1>7. fill' # NoFill => fill'.vec = first[fill'.from] /\ fill'.cnt = 0
  BY <1>4
<1>8. QED
  BY <1>1, <1>5, <1>6, <1>7, IdsStay DEF ConnectInv

\* ... and leaves it with an edge.
LEMMA ConnectEnd ==
    ASSUME FollowInv, ConnectInv, endFill
    PROVE  ConnectInv'
<1>1. /\ UNCHANGED groups /\ fill # NoFill /\ fill' = NoFill /\ InitGroups
      /\ phase' = phase /\ cross' = cross /\ additional' = additional /\ pending' = pending
  BY DEF endFill, FollowInv
<1>2. Added(fill.from, fill.to)
  <2>1. fill \in [from : Group, to : Group, vec : Nat, cnt : Nat]
    BY <1>1 DEF FollowInv
  <2>2. first[fill.from] \in VecsOf(fill.from)
    BY <1>1, <2>1, RangeFacts DEF VecsOf
  <2>3. ~(fill.vec = first[fill.from] /\ fill.cnt = 0)
    BY <2>2, EdgesAssumption DEF endFill
  <2>4. QED
    BY <1>1, <2>3 DEF ConnectInv
<1>3. ASSUME NEW q \in Pairs \ pending, phase \notin {"cross", "built"} PROVE Passed(q)'
  <2>1. Connected(q.from, q.to) \/ Added(q.from, q.to)
    BY <1>2, <1>3 DEF ConnectInv, Passed
  <2>2. QED
    BY <1>1, <2>1, IdsStay DEF Connected, Added, Passed
<1>4. phase = "connect"
  BY <1>1 DEF FollowInv
<1>5. QED
  BY <1>1, <1>3, <1>4, IdsStay DEF ConnectInv

\* The merged graph holds the edges of both kinds.
LEMMA ConnectMerge ==
    ASSUME FollowInv, ConnectInv, merge
    PROVE  ConnectInv'
<1>1. /\ UNCHANGED groups /\ phase = "merge" /\ phase' = "built" /\ InitGroups
      /\ pending' = pending /\ fill' = fill /\ pending = {} /\ fill = NoFill
      /\ neighbors' = [v \in Vec |-> neighbors[v] \cup cross[v] \cup {e[2] : e \in {a \in additional : a[1] = v}}]
  BY DEF merge, FollowInv, ConnectInv
<1>2. ASSUME NEW p \in LngEdges
      PROVE  \E v \in VecsOf(p[1]) : neighbors'[v] \cap VecsOf(p[2]) # {}
  <2>1. [from |-> p[1], to |-> p[2]] \in Pairs
    BY DEF LngEdges, Pairs
  <2>2. p[1] \in Group /\ VecsOf(p[1]) \subseteq Vec
    BY <1>1, RangeFacts DEF LngEdges
  <2>3. Connected(p[1], p[2]) \/ Added(p[1], p[2])
    BY <1>1, <2>1 DEF ConnectInv, Passed
  <2>4. CASE Connected(p[1], p[2])
    BY <1>1, <2>2, <2>4 DEF Connected
  <2>5. CASE Added(p[1], p[2])
    <3>1. PICK e \in additional : e[1] \in VecsOf(p[1]) /\ e[2] \in VecsOf(p[2])
      BY <2>5 DEF Added
    <3>2. e[2] \in neighbors'[e[1]]
      BY <1>1, <2>2, <3>1
    <3>3. QED
      BY <3>1, <3>2
  <2>6. QED
    BY <2>3, <2>4, <2>5
<1>3. RealisesLng'
  BY <1>1, <1>2, IdsStay DEF RealisesLng
<1>4. QED
  BY <1>1, <1>3, IdsStay DEF ConnectInv

\* No other step touches what connects a pair.
LEMMA ConnectRest ==
    ASSUME FollowInv, ConnectInv,
           (\E s \in pending : searchChild(s)) \/ endCross \/ endConnect \/ addOffset \/ UNCHANGED buildVars
    PROVE  ConnectInv'
<1>1. UNCHANGED groups /\ additional' = additional /\ fill' = fill
  BY DEF searchChild, endCross, endConnect, addOffset, buildVars
<1>2. fill # NoFill => phase = "connect"
  BY DEF FollowInv
<1>3. (\A g, h : Added(g, h)' = Added(g, h)) /\ first' = first /\ Pairs' = Pairs
  BY <1>1, IdsStay DEF Added
<1>4. ASSUME NEW s \in pending, searchChild(s) PROVE ConnectInv'
  BY <1>1, <1>2, <1>3, <1>4 DEF searchChild, ConnectInv
<1>5. CASE endCross
  BY <1>1, <1>2, <1>3, <1>5 DEF endCross, ConnectInv
<1>6. ASSUME cross' = cross PROVE \A p : Passed(p)' = Passed(p)
  BY <1>1, <1>3, <1>6, IdsStay DEF Passed, Connected
<1>7. CASE endConnect
  BY <1>1, <1>3, <1>6, <1>7 DEF endConnect, ConnectInv
<1>8. CASE addOffset
  BY <1>1, <1>3, <1>6, <1>8 DEF addOffset, ConnectInv
<1>9. CASE UNCHANGED buildVars
  <2>1. cross' = cross /\ phase' = phase /\ pending' = pending /\ neighbors' = neighbors
    BY <1>9 DEF buildVars
  <2>2. RealisesLng' = RealisesLng
    BY <1>1, <2>1, IdsStay DEF RealisesLng
  <2>3. QED
    BY <1>1, <1>3, <1>6, <2>1, <2>2 DEF ConnectInv
<1>10. QED
  BY <1>4, <1>5, <1>7, <1>8, <1>9

(***************************************************************************)
(* Provided _num_cross_edges is at least 2, the finished graph has an edge *)
(* for every edge of the LNG: the repair connects every pair of groups     *)
(* that the bounded queues of the first loop left out.                     *)
(***************************************************************************)
THEOREM LngIsRealised ==
    ASSUME NumCrossEdges >= 2
    PROVE  SpecBuild => []LngEdgesConnected
<1>1. InitAnyGroups => ConnectInv
  BY DEF InitAnyGroups, InitLoops, ConnectInv
<1>2. FollowInv /\ ConnectInv /\ [NextBuild]_buildVars => ConnectInv'
  BY ConnectAdd, ConnectPair, ConnectEnd, ConnectMerge, ConnectRest DEF NextBuild
<1>3. ConnectInv => LngEdgesConnected
  BY DEF ConnectInv, LngEdgesConnected
<1>4. QED
  BY <1>1, <1>2, <1>3, CompleteGroups, FollowInit, FollowNext, PTL DEF SpecBuild

(***************************************************************************)
(* Whatever the group graphs are, what the construction leaves is a united *)
(* graph as the search needs it.                                           *)
(***************************************************************************)
THEOREM BuildsUnited ==
    ASSUME NumCrossEdges >= 2
    PROVE  InitAnyGroups /\ [][NextBuild]_buildVars => [](phase = "built" => United)
<1>1. InitAnyGroups => ConnectInv
  BY DEF InitAnyGroups, InitLoops, ConnectInv
<1>2. FollowInv /\ ConnectInv /\ [NextBuild]_buildVars => ConnectInv'
  BY ConnectAdd, ConnectPair, ConnectEnd, ConnectMerge, ConnectRest DEF NextBuild
<1>3. FollowInv /\ ConnectInv => (phase = "built" => United)
  <2> SUFFICES ASSUME FollowInv, ConnectInv, phase = "built" PROVE United
    OBVIOUS
  <2>1. FollowsLng /\ RealisesLng /\ neighbors \in [Vec -> SUBSET Nat]
    BY DEF FollowInv, ConnectInv
  <2>2. neighbors \in [Vec -> SUBSET Vec]
    BY <2>1 DEF FollowsLng
  <2>3. QED
    BY <2>1, <2>2 DEF United
<1>4. QED
  BY <1>1, <1>2, <1>3, FollowInit, FollowNext, PTL

-----------------------------------------------------------------------------
\* The order of the candidates.

\* CandidatePool has its own copies of the operators on finite sets.
LEMMA SameSets == \A S : Pool!Cardinality(S) = Cardinality(S)
<1>1. ASSUME NEW S PROVE Pool!Cardinality(S) = Cardinality(S)
  BY DEF Pool!Cardinality, Cardinality
<1>2. QED
  BY <1>1

ByDistance == {p \in Vec \X Vec : Pool!Closer(p[1], p[2])}

\* Candidate::operator< orders the vectors.
LEMMA DistanceOrder ==
    ASSUME InputInv
    PROVE  /\ \A i, j \in Vec : <<i, j>> \in ByDistance <=> Pool!Closer(i, j)
           /\ TotalOn(ByDistance, Vec)
<1>1. \A i \in Vec : i \in Nat /\ dist[i] \in Nat
  BY GroupOfIs DEF InputInv
<1>2. /\ \A i \in Vec : ~Pool!Closer(i, i)
      /\ \A i, j, k \in Vec : Pool!Closer(i, j) /\ Pool!Closer(j, k) => Pool!Closer(i, k)
      /\ \A i, j \in Vec : i # j => Pool!Closer(i, j) \/ Pool!Closer(j, i)
  BY <1>1, SMT DEF Pool!Closer
<1>3. \A i, j \in Vec : <<i, j>> \in ByDistance <=> Pool!Closer(i, j)
  BY DEF ByDistance
<1>4. QED
  BY <1>2, <1>3 DEF TotalOn

\* The queue keeps the nearest in that order.
LEMMA ClosestIsNearest ==
    ASSUME InputInv, NEW S, S \subseteq Vec
    PROVE  /\ Pool!Closest(S) = Nearest(ByDistance, S, Lsearch)
           /\ IsFiniteSet(S) /\ Pool!Closest(S) \subseteq S
<1>1. ASSUME NEW i \in S PROVE {j \in S : Pool!Closer(j, i)} = Nearer(ByDistance, S, i)
  BY DistanceOrder DEF Nearer
<1>2. \A i \in S : Pool!Cardinality({j \in S : Pool!Closer(j, i)}) = Cardinality(Nearer(ByDistance, S, i))
  BY <1>1, SameSets
<1>3. Pool!Closest(S) = Nearest(ByDistance, S, Lsearch)
  BY <1>2 DEF Pool!Closest, Nearest
<1>4. IsFiniteSet(S)
  BY GroupOfIs, FS_Subset DEF InputInv
<1>5. QED
  BY <1>3, <1>4 DEF Nearest

-----------------------------------------------------------------------------
\* The search.

\* The index and the query stay what they are.
LEMMA InputStays ==
    ASSUME UNCHANGED <<index, input>>
    PROVE  /\ InputInv' = InputInv /\ EntryGroups' = EntryGroups
           /\ neighbors' = neighbors /\ numEntryPoints' = numEntryPoints
           /\ \A v : Carries(v)' = Carries(v)
           /\ \A S : Pool!Closest(S)' = Pool!Closest(S)
<1>1. /\ UNCHANGED groups /\ neighbors' = neighbors /\ groupEntry' = groupEntry
      /\ query' = query /\ dist' = dist /\ numEntryPoints' = numEntryPoints
  BY DEF index, input
<1>2. EntryGroups' = EntryGroups /\ \A v : Carries(v)' = Carries(v)
  BY <1>1, IdsStay DEF EntryGroups, Carries
<1>3. \A S : Pool!Closest(S)' = Pool!Closest(S)
  BY <1>1 DEF Pool!Closest, Pool!Closer
<1>4. FollowsLng' = FollowsLng /\ RealisesLng' = RealisesLng
  BY <1>1, IdsStay DEF FollowsLng, RealisesLng
<1>5. InitInput' = InitInput
  BY <1>1, IdsStay DEF InitInput
<1>6. InputInv' = InputInv
  BY <1>1, <1>4, <1>5, IdsStay DEF InputInv, United
<1>7. QED
  BY <1>1, <1>2, <1>3, <1>6

\* The vectors of an entry group carry the query's labels ...
LEMMA EntriesCarry ==
    ASSUME InputInv, NEW g \in EntryGroups
    PROVE  /\ g \in Group /\ g \in Nat /\ VecsOf(g) # {} /\ groupEntry[g] \in VecsOf(g)
           /\ \A v \in VecsOf(g) : v \in Vec /\ Carries(v)
<1>1. g \in Group /\ query \subseteq labelSet[g]
  BY DEF EntryGroups, Minimal, Qualified, Group
<1>2. g \in Nat /\ first[g] \in VecsOf(g)
  BY <1>1, RangeFacts DEF InputInv, VecsOf
<1>3. groupEntry[g] \in VecsOf(g)
  BY <1>1 DEF InputInv, InitInput
<1>4. \A v \in VecsOf(g) : v \in Vec /\ Carries(v)
  BY <1>1, GroupOfIs DEF InputInv, Carries
<1>5. QED
  BY <1>1, <1>2, <1>3, <1>4

\* ... and so does what an edge leads to.
LEMMA NeighborsCarry ==
    ASSUME InputInv, NEW v \in Vec, Carries(v), NEW n \in neighbors[v]
    PROVE  n \in Vec /\ Carries(n)
<1>1. n \in Vec /\ GroupOf(n) \in {GroupOf(v)} \cup OutNeighbors(GroupOf(v))
  BY DEF InputInv, United, FollowsLng
<1>2. \A h \in OutNeighbors(GroupOf(v)) : labelSet[GroupOf(v)] \subseteq labelSet[h]
  BY DEF OutNeighbors, Child, Minimal, Above
<1>3. QED
  BY <1>1, <1>2 DEF Carries

\* A group enters whole, or through its entry point.
LEMMA EnterStep ==
    ASSUME IInv, NEW g \in todo, enterGroup(g)
    PROVE  IInv'
<1>1. /\ stage = "entry" /\ todo' = todo \ {g} /\ UNCHANGED <<index, input>>
      /\ visited' = visited /\ kept' = kept /\ expanded' = expanded
  BY DEF enterGroup
<1>2. InputInv /\ g \in EntryGroups
  BY DEF IInv, EntryInv
<1>3. \/ /\ entry' = entry \cup VecsOf(g) /\ stage' = stage /\ sampling' = sampling
      \/ /\ ~(Size(g) <= numEntryPoints)
         /\ entry' = entry \cup {groupEntry[g]}
         /\ sampling' = [group |-> g, i |-> 1] /\ stage' = "sample"
  BY DEF enterGroup
<1>4. /\ entry \subseteq entry' /\ VecsOf(g) \cap entry' # {}
      /\ \A v \in entry' : v \in entry \/ v \in VecsOf(g)
  BY <1>2, <1>3, EntriesCarry
<1>5. \A v \in entry' : v \in Vec /\ Carries(v)
  BY <1>2, <1>4, EntriesCarry DEF IInv, FilterSound, TypeOK
<1>6. EntryInv'
  <2>1. \A k \in EntryGroups \ todo' : VecsOf(k) \cap entry' # {}
    BY <1>1, <1>4 DEF IInv, EntryInv
  <2>2. CASE stage' = stage /\ sampling' = sampling
    BY <1>1, <2>1, <2>2, IdsStay, InputStays DEF IInv, EntryInv, index
  <2>3. CASE /\ ~(Size(g) <= numEntryPoints)
             /\ sampling' = [group |-> g, i |-> 1] /\ stage' = "sample"
    <3>1. Size(g) \in Nat /\ numEntryPoints \in Nat /\ g \in Nat
      BY <1>2, RangeFacts, EntriesCarry, SizesAssumption DEF InputInv, InitInput
    <3>2. numEntryPoints < Size(g)
      BY <2>3, <3>1
    <3>3. /\ sampling'.group \in EntryGroups /\ sampling'.i \in Nat /\ numEntryPoints < Size(sampling'.group)
          /\ sampling' \in [group : Nat, i : Nat]
      BY <1>2, <2>3, <3>1, <3>2
    <3>4. QED
      BY <1>1, <2>1, <3>3, IdsStay, InputStays DEF IInv, EntryInv, index
  <2>4. QED
    BY <1>3, <2>2, <2>3
<1>7. SearchInv' /\ stage' \in {"entry", "sample"}
  BY <1>1, <1>3, InputStays DEF IInv, SearchInv
<1>8. TypeOK' /\ FilterSound'
  BY <1>1, <1>5, <1>7, IdsStay, InputStays DEF IInv, TypeOK, FilterSound, index
<1>9. QED
  BY <1>1, <1>2, <1>6, <1>7, <1>8, InputStays DEF IInv

\* The loop variable, shifted, is an id of the group that is sampled.
LEMMA SampleStep ==
    ASSUME IInv, NEW point, sample(point)
    PROVE  IInv'
<1>1. /\ stage = "sample" /\ stage' = stage /\ todo' = todo /\ UNCHANGED <<index, input>>
      /\ sampling.i < numEntryPoints
      /\ sampling' = [sampling EXCEPT !.i = @ + 1]
      /\ entry' = entry \/ entry' = entry \cup {sampling.i + first[sampling.group]}
      /\ visited' = visited /\ kept' = kept /\ expanded' = expanded
  BY DEF sample, Pushed
<1> DEFINE g == sampling.group
<1>2. /\ InputInv /\ g \in EntryGroups /\ sampling.i \in Nat
      /\ sampling \in [group : Nat, i : Nat] /\ numEntryPoints < Size(g)
  BY <1>1 DEF IInv, EntryInv
<1>3. sampling.i + first[g] \in VecsOf(g)
  <2>1. /\ first[g] \in Nat /\ first[g + 1] \in Nat /\ Size(g) = first[g + 1] - first[g]
        /\ numEntryPoints \in Nat
    BY <1>2, EntriesCarry, RangeFacts, SizesAssumption DEF InputInv, InitInput, Size
  <2>2. QED
    BY <1>1, <1>2, <2>1 DEF VecsOf
<1>4. \A v \in entry' : v \in Vec /\ Carries(v)
  BY <1>1, <1>2, <1>3, EntriesCarry DEF IInv, FilterSound, TypeOK
<1>5. sampling' \in [group : Nat, i : Nat] /\ sampling'.group = g
  BY <1>1, <1>2
<1>6. EntryInv'
  BY <1>1, <1>2, <1>5, IdsStay, InputStays DEF IInv, EntryInv, index
<1>7. SearchInv'
  BY <1>1, InputStays DEF IInv, SearchInv
<1>8. TypeOK' /\ FilterSound'
  BY <1>1, <1>4, IdsStay, InputStays DEF IInv, TypeOK, FilterSound, index
<1>9. QED
  BY <1>1, <1>2, <1>6, <1>7, <1>8, InputStays DEF IInv

\* The queue starts with the closest entry points.
LEMMA StartStep ==
    ASSUME IInv, startSearch
    PROVE  IInv'
<1>1. /\ stage = "entry" /\ todo = {} /\ todo' = todo /\ UNCHANGED <<index, input>>
      /\ sampling' = sampling /\ entry' = entry /\ expanded' = expanded
      /\ stage' = IF entry = {} THEN "done" ELSE "search"
      /\ kept' = Pool!Closest(entry) /\ visited' = {}
  BY DEF startSearch, choice
<1>2. InputInv /\ entry \subseteq Vec /\ kept = {} /\ expanded = {}
  BY <1>1 DEF IInv, TypeOK, SearchInv
<1>3. kept' \subseteq entry /\ Cardinality(kept') <= Lsearch
  BY <1>1, <1>2, ClosestIsNearest, DistanceOrder, NearestBounded, SizesAssumption
<1>4. entry = {} => kept' = {}
  BY <1>3
<1>5. EntryInv'
  BY <1>1, IdsStay, InputStays DEF IInv, EntryInv, index
<1>6. SearchInv'
  <2>1. entry' \cup visited' = entry
    BY <1>1
  <2>2. QED
    BY <1>1, <1>2, <1>4, <2>1, InputStays DEF SearchInv
<1>7. TypeOK' /\ FilterSound'
  BY <1>1, <1>2, <1>3, IdsStay, InputStays DEF IInv, TypeOK, FilterSound, index
<1>8. QED
  BY <1>1, <1>2, <1>5, <1>6, <1>7, InputStays DEF IInv

(***************************************************************************)
(* Expanding a candidate: what the queue dropped before stays dropped, so  *)
(* it holds the closest of all that was ever entered or visited.           *)
(***************************************************************************)
LEMMA ExpandStep ==
    ASSUME IInv, NEW c, expand(c)
    PROVE  IInv'
<1>1. /\ stage = "search" /\ stage' = stage /\ todo' = todo /\ UNCHANGED <<index, input>>
      /\ sampling' = sampling /\ entry' = entry /\ c \in kept
      /\ visited' = visited \cup Fresh(c) /\ kept' = Pool!Closest(kept \cup Fresh(c))
      /\ expanded' = (expanded \cup {c}) \cap kept'
  BY DEF expand, choice, Offer, Flag
<1>2. /\ InputInv /\ entry \cup visited \subseteq Vec /\ todo = {}
      /\ kept = Pool!Closest(entry \cup visited)
  BY <1>1 DEF IInv, TypeOK, SearchInv
<1>3. kept \subseteq entry \cup visited
  BY <1>2, ClosestIsNearest
<1>4. \A n \in Fresh(c) : n \in Vec /\ Carries(n)
  BY <1>1, <1>2, <1>3, NeighborsCarry DEF Fresh, IInv, FilterSound
<1>5. kept' = Pool!Closest(entry \cup visited')
  <2> DEFINE S == entry \cup visited
             N == Fresh(c)
             Q == kept \cup N
             T == S \cup N
  <2>1. S \subseteq Vec /\ N \subseteq Vec /\ Q \subseteq Vec /\ T \subseteq Vec
    BY <1>2, <1>3, <1>4
  <2>2. kept' = Pool!Closest(Q) /\ kept = Pool!Closest(S) /\ entry \cup visited' = T
    BY <1>1, <1>2
  <2> HIDE DEF S, N, Q, T
  <2>3. /\ Pool!Closest(S) = Nearest(ByDistance, S, Lsearch) /\ IsFiniteSet(S)
        /\ Pool!Closest(Q) = Nearest(ByDistance, Q, Lsearch) /\ IsFiniteSet(N)
        /\ Pool!Closest(T) = Nearest(ByDistance, T, Lsearch)
    BY <1>2, <2>1, ClosestIsNearest
  <2>4. Nearest(ByDistance, Nearest(ByDistance, S, Lsearch) \cup N, Lsearch)
          = Nearest(ByDistance, S \cup N, Lsearch)
    BY <1>2, <2>1, <2>3, DistanceOrder, NearestAgain, SizesAssumption
  <2>5. QED
    BY <2>2, <2>3, <2>4 DEF Q, T
<1>6. entry \cup visited' \subseteq Vec /\ kept' \subseteq entry \cup visited' /\ Cardinality(kept') <= Lsearch
  <2> DEFINE T == entry \cup visited'
  <2>1. T \subseteq Vec
    BY <1>1, <1>2, <1>4
  <2>2. kept' = Pool!Closest(T)
    BY <1>5
  <2> HIDE DEF T
  <2>3. kept' \subseteq T /\ Cardinality(kept') <= Lsearch
    BY <1>2, <2>1, <2>2, ClosestIsNearest, DistanceOrder, NearestBounded, SizesAssumption
  <2>4. QED
    BY <2>1, <2>3 DEF T
<1>7. \A d \in expanded' : neighbors[d] \subseteq visited'
  BY <1>1 DEF IInv, SearchInv, Fresh
<1>8. EntryInv'
  BY <1>1, IdsStay, InputStays DEF IInv, EntryInv, index
<1>9. SearchInv'
  BY <1>1, <1>2, <1>5, <1>7, InputStays DEF SearchInv
<1>10. \A v \in entry \cup visited' : Carries(v)
  BY <1>1, <1>4 DEF IInv, FilterSound
<1>11. TypeOK' /\ FilterSound'
  BY <1>1, <1>6, <1>10, IdsStay, InputStays DEF IInv, TypeOK, FilterSound, index
<1>12. QED
  BY <1>1, <1>2, <1>8, <1>9, <1>11, InputStays DEF IInv

\* The ends of the two loops.
LEMMA EndStep ==
    ASSUME IInv, endSample \/ endSearch \/ UNCHANGED vars
    PROVE  IInv'
<1>1. /\ UNCHANGED <<index, input>> /\ todo' = todo /\ sampling' = sampling /\ entry' = entry
      /\ visited' = visited /\ kept' = kept /\ expanded' = expanded
  BY DEF endSample, endSearch, vars, choice
<1>2. \/ stage = "sample" /\ stage' = "entry"
      \/ stage = "search" /\ stage' = "done" /\ kept = expanded
      \/ stage' = stage
  BY DEF endSample, endSearch, vars, Finished
<1>3. EntryInv'
  BY <1>1, <1>2, IdsStay, InputStays DEF IInv, EntryInv, index
<1>4. SearchInv'
  BY <1>1, <1>2, InputStays DEF IInv, SearchInv
<1>5. TypeOK' /\ FilterSound'
  BY <1>1, <1>2, IdsStay, InputStays DEF IInv, TypeOK, FilterSound, index
<1>6. QED
  BY <1>1, <1>3, <1>4, <1>5, InputStays DEF IInv

\* Every step of a search keeps its invariant.
LEMMA SearchNext == IInv /\ [Next]_vars => IInv'
BY EnterStep, SampleStep, StartStep, ExpandStep, EndStep DEF Next

\* A search may start on any united graph, with any distances.
InitAnyGraph == InputInv /\ InitSearch

\* The invariant holds when a search starts.
LEMMA SearchInit == InitAnyGraph => IInv
<1> SUFFICES ASSUME InitAnyGraph PROVE IInv
  OBVIOUS
<1>1. /\ InputInv /\ stage = "entry" /\ todo = EntryGroups /\ sampling = [group |-> 0, i |-> 0]
      /\ entry = {} /\ visited = {} /\ kept = {} /\ expanded = {}
  BY DEF InitAnyGraph, InitSearch
<1>2. EntryGroups \subseteq Group
  BY EntriesCarry, <1>1
<1>3. Cardinality(kept) = 0
  BY <1>1, FS_EmptySet
<1>4. TypeOK /\ FilterSound
  BY <1>1, <1>2, <1>3, SizesAssumption DEF TypeOK, FilterSound, InitAnyGraph, InitSearch
<1>5. EntryInv /\ SearchInv
  BY <1>1 DEF EntryInv, SearchInv
<1>6. QED
  BY <1>1, <1>4, <1>5 DEF IInv

\* The graphs of the model are united graphs.
LEMMA GraphsAreUnited == Init => InitAnyGraph
<1> SUFFICES ASSUME Init PROVE InitAnyGraph
  OBVIOUS
<1>1. InitGroups /\ InitInput /\ InitSearch
  BY DEF Init
<1>2. PICK missing \in {{}} \cup {{e} : e \in InnerEdges}, bridge \in Bridges :
         neighbors = [v \in Vec |-> {n \in Vec : <<v, n>> \in
                         (InnerEdges \ missing) \cup {bridge[p] : p \in LngEdges}}]
  BY DEF Init, InitGraph
<1>3. ASSUME NEW p \in LngEdges
      PROVE  /\ p[1] \in Group /\ p[2] \in Group /\ p[2] \in OutNeighbors(p[1])
             /\ \E v \in VecsOf(p[1]), n \in VecsOf(p[2]) : bridge[p] = <<v, n>>
  BY DEF LngEdges, Bridges
<1>4. neighbors \in [Vec -> SUBSET Vec]
  BY <1>2
<1>5. FollowsLng
  <2> SUFFICES ASSUME NEW v \in Vec, NEW n \in neighbors[v]
               PROVE  n \in Vec /\ GroupOf(n) \in {GroupOf(v)} \cup OutNeighbors(GroupOf(v))
    BY DEF FollowsLng
  <2>1. n \in Vec /\ (<<v, n>> \in InnerEdges \/ \E p \in LngEdges : <<v, n>> = bridge[p])
    BY <1>2
  <2>2. CASE <<v, n>> \in InnerEdges
    BY <2>1, <2>2 DEF InnerEdges
  <2>3. ASSUME NEW p \in LngEdges, <<v, n>> = bridge[p]
        PROVE  GroupOf(n) \in OutNeighbors(GroupOf(v))
    <3>1. /\ p[1] \in Group /\ p[2] \in Group /\ p[2] \in OutNeighbors(p[1])
          /\ v \in VecsOf(p[1]) /\ n \in VecsOf(p[2])
      BY <1>3, <2>3
    <3>2. GroupOf(v) = p[1] /\ GroupOf(n) = p[2]
      BY <1>1, <3>1, GroupOfIs
    <3>3. QED
      BY <3>1, <3>2
  <2>4. QED
    BY <2>1, <2>2, <2>3
<1>6. RealisesLng
  <2> SUFFICES ASSUME NEW p \in LngEdges
               PROVE  \E v \in VecsOf(p[1]) : neighbors[v] \cap VecsOf(p[2]) # {}
    BY DEF RealisesLng
  <2>1. PICK v \in VecsOf(p[1]), n \in VecsOf(p[2]) : bridge[p] = <<v, n>>
    BY <1>3
  <2>2. v \in Vec /\ n \in Vec
    BY <1>1, <1>3, GroupOfIs
  <2>3. n \in neighbors[v]
    BY <1>2, <2>1, <2>2
  <2>4. QED
    BY <2>3
<1>7. dist \in [Vec -> Nat]
  BY <1>1, GroupOfIs DEF Init
<1>8. QED
  BY <1>1, <1>4, <1>5, <1>6, <1>7 DEF InitAnyGraph, InputInv, United

-----------------------------------------------------------------------------
\* What a search has found when it stops.

\* When a search stops, what was entered or visited and not kept is behind a full queue.
LEMMA StopsAtOptimum == IInv => LocalOptimum
<1> SUFFICES ASSUME IInv, stage = "done", NEW c \in kept, NEW n \in neighbors[c], n \notin kept
             PROVE  Cardinality(kept) = Lsearch /\ \A d \in kept : Pool!Closer(d, n)
  BY DEF LocalOptimum
<1> DEFINE S == entry \cup visited
<1>1. /\ InputInv /\ S \subseteq Vec /\ kept = Pool!Closest(S) /\ n \in S
  BY DEF IInv, TypeOK, SearchInv
<1> HIDE DEF S
<1>2. kept = Nearest(ByDistance, S, Lsearch) /\ IsFiniteSet(S) /\ kept \subseteq S
  BY <1>1, ClosestIsNearest
<1>3. TotalOn(ByDistance, Vec) /\ n \in S \ Nearest(ByDistance, S, Lsearch) /\ Lsearch \in Nat
  BY <1>1, <1>2, DistanceOrder, SizesAssumption
<1>4. /\ Cardinality(Nearest(ByDistance, S, Lsearch)) = Lsearch
      /\ \A d \in Nearest(ByDistance, S, Lsearch) : <<d, n>> \in ByDistance
  BY <1>1, <1>2, <1>3, NearestFull
<1>5. QED
  BY <1>1, <1>2, <1>4, DistanceOrder

\* When everything fits into the queue, what a search has touched is closed under edges.
LEMMA AllFit ==
    ASSUME IInv, stage = "done", Cardinality({v \in Vec : Carries(v)}) <= Lsearch
    PROVE  /\ kept = entry \cup visited /\ kept \subseteq {v \in Vec : Carries(v)}
           /\ \A c \in kept : neighbors[c] \subseteq kept
           /\ \A g \in EntryGroups : VecsOf(g) \cap kept # {}
<1> DEFINE S == entry \cup visited
           Q == {v \in Vec : Carries(v)}
<1>1. /\ InputInv /\ S \subseteq Q /\ Q \subseteq Vec /\ kept = Pool!Closest(S) /\ kept = expanded /\ todo = {}
  BY DEF IInv, TypeOK, FilterSound, SearchInv
<1>2. \A c \in kept : neighbors[c] \subseteq S
  BY DEF IInv, SearchInv
<1>3. \A g \in EntryGroups : VecsOf(g) \cap S # {}
  BY <1>1 DEF IInv, EntryInv
<1>4. Cardinality(Q) <= Lsearch
  OBVIOUS
<1> HIDE DEF S, Q
<1>5. S \subseteq Vec
  BY <1>1
<1>6. kept = Nearest(ByDistance, S, Lsearch) /\ IsFiniteSet(S) /\ IsFiniteSet(Q)
  BY <1>1, <1>5, ClosestIsNearest
<1>7. Cardinality(S) <= Cardinality(Q) /\ Cardinality(S) \in Nat /\ Cardinality(Q) \in Nat
  BY <1>1, <1>6, FS_Subset, FS_CardinalityType
<1>8. TotalOn(ByDistance, Vec) /\ Lsearch \in Nat /\ Cardinality(S) <= Lsearch
  BY <1>1, <1>4, <1>7, DistanceOrder, SizesAssumption
<1>9. kept = S
  BY <1>5, <1>6, <1>8, NearestOfFew
<1>10. QED
  BY <1>1, <1>2, <1>3, <1>9 DEF S, Q

\* Then a search that meets every group graph whole reaches every qualified group.
LEMMA ReachesAll == IInv => Exhaustive
<1> SUFFICES ASSUME IInv, stage = "done", Cardinality({v \in Vec : Carries(v)}) <= Lsearch,
                    \A g \in Group : \A v \in VecsOf(g) : VecsOf(g) \ {v} \subseteq neighbors[v]
             PROVE  kept = {v \in Vec : Carries(v)}
  BY DEF Exhaustive
<1> DEFINE V == {g \in Group : VecsOf(g) \subseteq kept}
<1>1. /\ InputInv /\ kept \subseteq {v \in Vec : Carries(v)}
      /\ \A c \in kept : neighbors[c] \subseteq kept
      /\ \A g \in EntryGroups : VecsOf(g) \cap kept # {}
  BY AllFit DEF IInv
<1>2. ASSUME NEW g \in Group, NEW v \in VecsOf(g), v \in kept PROVE g \in V
  BY <1>1, <1>2
<1>3. EntryGroups \subseteq V
  BY <1>1, <1>2, EntriesCarry
<1>4. PICK n \in Nat : labelSet \in LabelSets(Group, Label)
  BY <1>1, GroupsAreNumbered DEF InputInv
<1>5. ASSUME NEW c \in V, NEW h \in Child(labelSet, c) PROVE h \in V
  <2>1. h \in OutNeighbors(c) /\ c \in Group /\ h \in Group
    BY <1>5, ChildrenAreGroups DEF OutNeighbors
  <2>2. <<c, h>> \in LngEdges
    BY <2>1 DEF LngEdges
  <2>3. PICK v \in VecsOf(c) : neighbors[v] \cap VecsOf(h) # {}
    BY <1>1, <2>2 DEF InputInv, United, RealisesLng
  <2>4. v \in kept
    BY <2>3
  <2>5. QED
    BY <1>1, <1>2, <2>1, <2>3, <2>4
<1>6. \A g : g \in V <=> g \in Group /\ VecsOf(g) \subseteq kept
  OBVIOUS
<1> HIDE DEF V
<1>7. ASSUME NEW h \in Group, query \subseteq labelSet[h] PROVE h \in V
  <2> DEFINE T == {g \in Qualified(labelSet, query) : labelSet[g] \subseteq labelSet[h]}
  <2>1. T \subseteq Group /\ T # {}
    BY <1>7 DEF Qualified, Group
  <2>2. /\ \A g \in T : g \in Qualified(labelSet, query) /\ labelSet[g] \subseteq labelSet[h]
        /\ \A g \in Qualified(labelSet, query) : labelSet[g] \subseteq labelSet[h] => g \in T
    OBVIOUS
  <2> HIDE DEF T
  <2>3. PICK m \in T : \A k \in T : labelSet[k] \subseteq labelSet[m] => k = m
    BY <1>4, <2>1, LabelAssumption, LeastGroup
  <2>4. m \in EntryGroups
    <3>1. ASSUME NEW k \in Qualified(labelSet, query), labelSet[k] \subseteq labelSet[m] PROVE k = m
      BY <2>2, <2>3, <3>1
    <3>2. QED
      BY <2>2, <3>1 DEF EntryGroups, Minimal
  <2>5. m \in V /\ V \subseteq Group /\ labelSet[m] \subseteq labelSet[h]
    BY <1>3, <1>6, <2>2, <2>4
  <2>6. \A c \in V : Child(labelSet, c) \subseteq V
    BY <1>5
  <2>7. QED
    BY <1>4, <1>7, <2>5, <2>6, LabelAssumption, ClosedIsUpward
<1>8. ASSUME NEW v \in Vec, Carries(v) PROVE v \in kept
  <2>1. GroupOf(v) \in Group /\ v \in VecsOf(GroupOf(v)) /\ query \subseteq labelSet[GroupOf(v)]
    BY <1>1, <1>8, GroupOfIs DEF InputInv, Carries
  <2>2. QED
    BY <1>6, <1>7, <2>1
<1>9. QED
  BY <1>1, <1>8

(***************************************************************************)
(* On every united graph, whatever its group graphs, cross edges, entry    *)
(* points, distances and query: the greedy search touches only vectors     *)
(* with all labels of the query, stops at a local optimum, and returns all *)
(* qualified vectors when they fit into the queue and the group graphs are *)
(* complete.                                                               *)
(***************************************************************************)
THEOREM AnyGraphIsSearched ==
    InitAnyGraph /\ [][Next]_vars => [](FilterSound /\ LocalOptimum /\ Exhaustive)
<1>1. IInv => FilterSound /\ LocalOptimum /\ Exhaustive
  BY StopsAtOptimum, ReachesAll DEF IInv
<1>2. QED
  BY <1>1, SearchInit, SearchNext, PTL

(***************************************************************************)
(* iterate_to_fixed_point needs no filter: only vectors with all labels of *)
(* the query are entered, visited or returned.                             *)
(***************************************************************************)
THEOREM FilterIsSound == Spec => []FilterSound
BY AnyGraphIsSearched, GraphsAreUnited, PTL DEF Spec

(***************************************************************************)
(* When it stops, every neighbour of a result is a result or farther than  *)
(* all of a full queue, although the queue drops candidates meanwhile.     *)
(***************************************************************************)
THEOREM StopsAtFixedPoint == Spec => []LocalOptimum
BY AnyGraphIsSearched, GraphsAreUnited, PTL DEF Spec

(***************************************************************************)
(* The minimal qualified groups as entries and one cross edge per edge of  *)
(* the LNG are enough to find every qualified vector.                      *)
(***************************************************************************)
THEOREM MissesNothing == Spec => []Exhaustive
BY AnyGraphIsSearched, GraphsAreUnited, PTL DEF Spec
=============================================================================
