----------------------------- MODULE CrossEdges -----------------------------
(***************************************************************************)
(* The edges between the groups (build_cross_group_edges) and the shift of *)
(* the group graphs to global ids (add_offset_for_uni_nav_graph).          *)
(*                                                                         *)
(* Every vector of a group is searched for in the graph of each child      *)
(* group, and the closest results become its cross-group edges.  Distances *)
(* are abstracted: a search returns some non-empty part of the group, at   *)
(* most Lbuild of it, and any of the offered neighbours may be the closest.*)
(***************************************************************************)
EXTENDS VectorIds

CONSTANTS NumCrossEdges,  \* _num_cross_edges
          Lbuild          \* _Lbuild

ASSUME EdgesAssumption == NumCrossEdges \in 1 .. Lbuild /\ Lbuild \in Nat

VARIABLES phase,       \* "cross", "connect", "offset", "merge", "built"
          pending,     \* the iterations the current loop has left
          cross,       \* cross_group_neighbors
          additional,  \* additional_edges, as a set of <<from, to>>
          fill         \* the group pair being connected: [from, to, vec, cnt], or NoFill

buildVars == <<groups, phase, pending, neighbors, cross, additional, fill>>

NoFill == [from |-> 0, to |-> 0, vec |-> 0, cnt |-> 0]

-----------------------------------------------------------------------------

InNeighbors(h) == {g \in Group : h \in OutNeighbors(g)}

\* What Vamana::iterate_to_fixed_point leaves in the queue: local ids.
Found(h) == {R \in SUBSET (0 .. Size(h) - 1) : R # {} /\ Cardinality(R) <= Lbuild}
LeastOf(n, S) == IF n < Cardinality(S) THEN n ELSE Cardinality(S)
SomeOf(n, S) == {R \in SUBSET S : Cardinality(R) = LeastOf(n, S)}

ToGlobal(h, g, R) == {first[h] + r : r \in R}     \* results of g's vectors in group h

Keep(S) == SomeOf(NumCrossEdges, S)                \* SearchQueue::insert, of each

\* The searches of the first loop: of every vector of a group in every child.
Searches == UNION {{[to |-> h, vec |-> v] : v \in UNION {VecsOf(g) : g \in InNeighbors(h)}} : h \in Group}
Pairs == UNION {{[from |-> g, to |-> h] : h \in OutNeighbors(g)} : g \in Group}

\* The group graphs are in local ids.
LocalIds == \A v \in Vec : neighbors[v] \subseteq 0 .. Size(GroupOf(v)) - 1

InitLoops == /\ phase = "cross"
             /\ pending = Searches
             /\ cross = [v \in Vec |-> {}]
             /\ additional = {}
             /\ fill = NoFill

\* Every group graph is complete (build_complete_graph).
InitBuild == /\ InitGroups
             /\ neighbors = [v \in Vec |-> (0 .. Size(GroupOf(v)) - 1) \ {v - first[GroupOf(v)]}]
             /\ InitLoops

\* Groups are searched in ascending order; the vectors of a group in parallel,
\* each with a queue of its own, so here in ascending order too.
IsNextSearch(s) == \A t \in pending : s.to < t.to \/ (s.to = t.to /\ s.vec <= t.vec)

searchChild(s) ==
    /\ phase = "cross"
    /\ s \in pending
    /\ IsNextSearch(s)
    /\ \E R \in Found(s.to) :
          \E nearest \in Keep(cross[s.vec] \cup ToGlobal(s.to, GroupOf(s.vec), R)) :
             cross' = [cross EXCEPT ![s.vec] = nearest]
    /\ pending' = pending \ {s}
    /\ UNCHANGED <<groups, phase, neighbors, additional, fill>>

endCross ==
    /\ phase = "cross"
    /\ pending = {}
    /\ phase' = "connect"
    /\ pending' = Pairs
    /\ UNCHANGED <<groups, neighbors, cross, additional, fill>>

Connected(g, h) == \E v \in VecsOf(g) : cross[v] \cap VecsOf(h) # {}

\* The parallel loop over the groups: each writes its own additional_edges, so
\* the groups are taken one at a time, in any order.
connect(p) ==
    /\ phase = "connect"
    /\ fill = NoFill
    /\ p \in pending
    /\ pending' = pending \ {p}
    /\ fill' = IF Connected(p.from, p.to) THEN NoFill
               ELSE [from |-> p.from, to |-> p.to, vec |-> first[p.from], cnt |-> 0]
    /\ UNCHANGED <<groups, phase, neighbors, cross, additional>>

\* Mutant: no edge is added.
AddedEdgesNone(R) == {{}}
AddedEdges(R) == SomeOf(NumCrossEdges \div 2, R)
Count(S) == Cardinality(S)

\* One vector of a group that no cross edge connects yet to the child.
addEdges ==
    /\ phase = "connect"
    /\ fill # NoFill
    /\ fill.vec \in VecsOf(fill.from)
    /\ fill.cnt < NumCrossEdges
    /\ \E R \in Found(fill.to) :
          \E S \in AddedEdges(ToGlobal(fill.to, fill.from, R)) :
             /\ additional' = additional \cup ({fill.vec} \X S)
             /\ fill' = [fill EXCEPT !.vec = @ + 1, !.cnt = @ + Count(S)]
    /\ UNCHANGED <<groups, phase, pending, neighbors, cross>>

endFill ==
    /\ fill # NoFill
    /\ fill.vec \notin VecsOf(fill.from) \/ fill.cnt >= NumCrossEdges
    /\ fill' = NoFill
    /\ UNCHANGED <<groups, phase, pending, neighbors, cross, additional>>

endConnect ==
    /\ phase = "connect"
    /\ pending = {} /\ fill = NoFill
    /\ phase' = "offset"
    /\ UNCHANGED <<groups, pending, neighbors, cross, additional, fill>>

\* Mutant: the ids are not shifted.
ShiftNone(v, n) == n
Shift(v, n) == n + first[GroupOf(v)]

addOffset ==
    /\ phase = "offset"
    /\ neighbors' = [v \in Vec |-> {Shift(v, n) : n \in neighbors[v]}]
    /\ phase' = "merge"
    /\ UNCHANGED <<groups, pending, cross, additional, fill>>

merge ==
    /\ phase = "merge"
    /\ neighbors' = [v \in Vec |-> neighbors[v] \cup cross[v] \cup {e[2] : e \in {a \in additional : a[1] = v}}]
    /\ phase' = "built"
    /\ UNCHANGED <<groups, pending, cross, additional, fill>>

NextBuild == \/ \E s \in pending : searchChild(s) \/ connect(s)
             \/ endCross
             \/ addEdges
             \/ endFill
             \/ endConnect
             \/ addOffset
             \/ merge

SpecBuild == InitBuild /\ [][NextBuild]_buildVars

-----------------------------------------------------------------------------

BuildTyped == /\ phase \in {"cross", "connect", "offset", "merge", "built"}
              /\ neighbors \in [Vec -> SUBSET Vec]
              /\ cross \in [Vec -> SUBSET Vec]
              /\ \A v \in Vec : Cardinality(cross[v]) <= NumCrossEdges
              /\ additional \subseteq Vec \X Vec

(***************************************************************************)
(* An edge of the finished graph stays in its group or leads to a child    *)
(* group, so a search that starts at vectors which satisfy a query never   *)
(* meets one that does not.                                                *)
(***************************************************************************)
EdgesFollowLng == phase = "built" => FollowsLng

(***************************************************************************)
(* "Add additional cross-group edges for unconnected groups": although a   *)
(* vector keeps its closest _num_cross_edges only, over all children, in   *)
(* the end some vector of a group has an edge into every child group.      *)
(***************************************************************************)
LngEdgesConnected == phase = "built" => RealisesLng

-----------------------------------------------------------------------------
\* The inductive invariants of the proofs.

UpEdge(v, n) == v \in Vec /\ n \in Vec /\ GroupOf(n) \in OutNeighbors(GroupOf(v))

FollowInv ==
    /\ InitGroups
    /\ phase \in {"cross", "connect", "offset", "merge", "built"}
    /\ cross \in [Vec -> SUBSET Vec]
    /\ \A v \in Vec : \A n \in cross[v] : UpEdge(v, n)
    /\ \A e \in additional : e = <<e[1], e[2]>> /\ UpEdge(e[1], e[2])
    /\ neighbors \in [Vec -> SUBSET Nat]
    /\ phase \in {"cross", "connect", "offset"} => LocalIds
    /\ phase = "merge" => \A v \in Vec : neighbors[v] \subseteq VecsOf(GroupOf(v))
    /\ phase = "built" => FollowsLng
    /\ phase = "cross" => pending \subseteq Searches
    /\ phase = "connect" => pending \subseteq Pairs
    /\ fill = NoFill \/ (phase = "connect" /\ fill \in [from : Group, to : Group, vec : Nat, cnt : Nat]
                           /\ fill.to \in OutNeighbors(fill.from))

\* The additional edges connect the groups.
Added(g, h) == \E e \in additional : e[1] \in VecsOf(g) /\ e[2] \in VecsOf(h)

\* A pair that the loop has passed is connected, or being connected: only the
\* first vector of its group may have no edge yet.
Passed(p) == \/ Connected(p.from, p.to)
             \/ Added(p.from, p.to)
             \/ fill # NoFill /\ fill.from = p.from /\ fill.to = p.to

ConnectInv ==
    /\ phase \notin {"cross", "built"} => \A p \in Pairs \ pending : Passed(p)
    /\ phase \notin {"cross", "connect"} => pending = {} /\ fill = NoFill
    /\ fill # NoFill => \/ fill.vec = first[fill.from] /\ fill.cnt = 0
                        \/ Added(fill.from, fill.to)
    /\ phase = "built" => RealisesLng
=============================================================================
