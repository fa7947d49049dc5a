------------------------------ MODULE VectorIds ------------------------------
(***************************************************************************)
(* The united graph and the ids of its vectors, which                      *)
(* prepare_group_storages_graphs gives out group by group.  CrossEdges     *)
(* builds the graph and UngSearch searches it.                             *)
(***************************************************************************)
EXTENDS GroupOrder

CONSTANTS GroupCounts,   \* the values of _num_groups
          Label,
          MaxPoints      \* bound on the number of vectors

ASSUME CountsAssumption == GroupCounts \subseteq Nat \ {0} /\ MaxPoints \in Nat
ASSUME LabelAssumption == IsFiniteSet(Label)

VARIABLES labelSet,    \* _group_id_to_label_set
          first,       \* _group_id_to_range[g].first; that of g + 1 ends the range of g
          neighbors    \* _graph->neighbors

groups == <<labelSet, first>>

\* Every group has a vector, and its range starts where the one before ends.
Ranges(n) == {f \in [1 .. n + 1 -> 0 .. MaxPoints] :
                 f[1] = 0 /\ \A g \in 1 .. n : f[g] < f[g + 1]}

InitGroups == \E n \in GroupCounts : labelSet \in LabelSets(1 .. n, Label) /\ first \in Ranges(n)

Group == DOMAIN labelSet    \* 1 .. _num_groups
Size(g) == first[g + 1] - first[g]
VecsOf(g) == first[g] .. first[g + 1] - 1
Vec == UNION {VecsOf(g) : g \in Group}
GroupOf(v) == CHOOSE g \in Group : v \in VecsOf(g)

\* Mutant: the edges lead to the smaller label sets.
OutNeighborsBelow(g) == {h \in Group : g \in Above(labelSet, h)}

OutNeighbors(g) == Child(labelSet, g)
LngEdges == {p \in Group \X Group : p[2] \in OutNeighbors(p[1])}

\* Every edge stays in its group or follows an edge of the LNG.
FollowsLng ==
    \A v \in Vec : \A n \in neighbors[v] :
        n \in Vec /\ GroupOf(n) \in {GroupOf(v)} \cup OutNeighbors(GroupOf(v))

\* Every edge of the LNG is realised by an edge.
RealisesLng ==
    \A p \in LngEdges : \E v \in VecsOf(p[1]) : neighbors[v] \cap VecsOf(p[2]) # {}

\* What the search relies on and the construction provides.
United == neighbors \in [Vec -> SUBSET Vec] /\ FollowsLng /\ RealisesLng
==============================================================================
