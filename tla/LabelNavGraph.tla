---------------------------- MODULE LabelNavGraph ----------------------------
(***************************************************************************)
(* The label navigation graph and what is computed from it once, when the  *)
(* index is built: build_label_nav_graph, get_descendants_info,            *)
(* cal_f_coverage_ratio and initialize_roaring_bitsets.                    *)
(*                                                                         *)
(* The vectors of different groups are different, so a set of covered      *)
(* vectors is represented by the set of the groups it is made of.          *)
(***************************************************************************)
EXTENDS Groups

VARIABLES labelSet,      \* _group_id_to_label_set
          phase,         \* "out", "in", "descendants", "coverage", "built"
          todo,          \* the iterations the current loop over the groups has left
          outNeighbors,  \* LabelNavGraph::out_neighbors
          inNeighbors,   \* LabelNavGraph::in_neighbors
          source,        \* the group whose descendants are searched, 0 if none
          visited,       \* visited of that search
          queue,         \* q of that search, then of cal_f_coverage_ratio
          descendants,   \* _lng_descendants, then _lng_descendants_rb
          covered,       \* covered_sets, then _covered_sets_rb
          outDegree      \* out_degree

edges == <<outNeighbors, inNeighbors>>
bfs == <<source, visited>>
vars == <<labelSet, phase, todo, edges, bfs, queue, descendants, covered, outDegree>>

Empty == [g \in Group |-> {}]

Init == /\ labelSet \in LabelSets(Group, Label)
        /\ phase = "out"
        /\ todo = Group
        /\ outNeighbors = Empty
        /\ inNeighbors = Empty
        /\ source = 0
        /\ visited = {}
        /\ queue = {}
        /\ descendants = Empty
        /\ covered = Empty
        /\ outDegree = [g \in Group |-> 0]

-----------------------------------------------------------------------------

MinSuperSets(g) == Child(labelSet, g)

\* An iteration of the parallel loop of phase 1; each thread writes its own entry.
obtainOutNeighbors(g) ==
    /\ phase = "out"
    /\ g \in todo
    /\ outNeighbors' = [outNeighbors EXCEPT ![g] = MinSuperSets(g)]
    /\ todo' = todo \ {g}
    /\ UNCHANGED <<labelSet, phase, inNeighbors, bfs, queue, descendants, covered, outDegree>>

endOut ==
    /\ phase = "out"
    /\ todo = {}
    /\ phase' = "in"
    /\ todo' = Group
    /\ UNCHANGED <<labelSet, edges, bfs, queue, descendants, covered, outDegree>>

WithInNeighbor(h, g) == inNeighbors[h] \cup {g}

\* An iteration of the serial loop of phase 2.
obtainInNeighbors(g) ==
    /\ phase = "in"
    /\ g \in todo
    /\ \A h \in todo : g <= h
    /\ inNeighbors' = [h \in Group |-> IF h \in outNeighbors[g] THEN WithInNeighbor(h, g)
                                       ELSE inNeighbors[h]]
    /\ todo' = todo \ {g}
    /\ UNCHANGED <<labelSet, phase, outNeighbors, bfs, queue, descendants, covered, outDegree>>

endIn ==
    /\ phase = "in"
    /\ todo = {}
    /\ phase' = "descendants"
    /\ todo' = Group
    /\ UNCHANGED <<labelSet, edges, bfs, queue, descendants, covered, outDegree>>

\* get_descendants_info.  The iterations run in parallel on variables of their
\* own and share nothing, so they are taken here one after the other, in any order.
startDescendants(g) ==
    /\ phase = "descendants"
    /\ source = 0
    /\ g \in todo
    /\ source' = g
    /\ visited' = {g}
    /\ queue' = {g}
    /\ todo' = todo \ {g}
    /\ UNCHANGED <<labelSet, phase, edges, descendants, covered, outDegree>>

\* Mutant: the search stops at the children.
FreshNone(u) == IF u = source THEN outNeighbors[u] \ visited ELSE {}
Fresh(u) == outNeighbors[u] \ visited

visitDescendants(u) ==
    /\ phase = "descendants"
    /\ u \in queue
    /\ visited' = visited \cup Fresh(u)
    /\ queue' = (queue \ {u}) \cup Fresh(u)
    /\ descendants' = [descendants EXCEPT ![source] = @ \cup Fresh(u)]
    /\ UNCHANGED <<labelSet, phase, todo, edges, source, covered, outDegree>>

endDescendants ==
    /\ phase = "descendants"
    /\ source # 0
    /\ queue = {}
    /\ source' = 0
    /\ visited' = {}
    /\ UNCHANGED <<labelSet, phase, todo, edges, queue, descendants, covered, outDegree>>

\* Steps 0-2 of cal_f_coverage_ratio: every group covers its own vectors and
\* the groups without out-neighbours are queued.
startCoverage ==
    /\ phase = "descendants"
    /\ source = 0
    /\ todo = {}
    /\ phase' = "coverage"
    /\ covered' = [g \in Group |-> {g}]
    /\ outDegree' = [g \in Group |-> Cardinality(outNeighbors[g])]
    /\ queue' = {g \in Group : outNeighbors[g] = {}}
    /\ UNCHANGED <<labelSet, todo, edges, bfs, descendants>>

\* Mutant: no parent is queued.
ReadyNever(parents) == {}
Ready(parents) == {p \in parents : outDegree[p] = 1}

\* Step 3: the vectors of `current' go to its parents; a parent whose last
\* child this was is queued.  The order of the queue is left open.
mergeIntoParents(current) ==
    LET parents == inNeighbors[current]
    IN  /\ phase = "coverage"
        /\ current \in queue
        /\ covered' = [g \in Group |-> IF g \in parents THEN covered[g] \cup covered[current]
                                       ELSE covered[g]]
        /\ outDegree' = [g \in Group |-> IF g \in parents THEN outDegree[g] - 1 ELSE outDegree[g]]
        /\ queue' = (queue \ {current}) \cup Ready(parents)
        /\ UNCHANGED <<labelSet, phase, todo, edges, bfs, descendants>>

\* Steps 4-5 and initialize_roaring_bitsets copy the sets.
endCoverage ==
    /\ phase = "coverage"
    /\ queue = {}
    /\ phase' = "built"
    /\ UNCHANGED <<labelSet, todo, edges, bfs, queue, descendants, covered, outDegree>>

Next == \/ \E g \in Group : \/ obtainOutNeighbors(g)
                            \/ obtainInNeighbors(g)
                            \/ startDescendants(g)
                            \/ visitDescendants(g)
                            \/ mergeIntoParents(g)
        \/ endOut
        \/ endIn
        \/ endDescendants
        \/ startCoverage
        \/ endCoverage

Spec == Init /\ [][Next]_vars

-----------------------------------------------------------------------------

TypeOK == /\ phase \in {"out", "in", "descendants", "coverage", "built"}
          /\ todo \subseteq Group
          /\ outNeighbors \in [Group -> SUBSET Group]
          /\ inNeighbors \in [Group -> SUBSET Group]
          /\ source \in Group \cup {0}
          /\ queue \subseteq Group
          /\ descendants \in [Group -> SUBSET Group]
          /\ covered \in [Group -> SUBSET Group]
          /\ outDegree \in [Group -> 0 .. Cardinality(Group)]

(***************************************************************************)
(* The graph keeps only the edges to the minimal super sets, and yet every *)
(* super set is found: the descendants of a group are exactly the groups   *)
(* whose label sets strictly contain its own.                              *)
(***************************************************************************)
DescendantsExact ==
    phase \in {"coverage", "built"} => \A g \in Group : descendants[g] = Above(labelSet, g)

(***************************************************************************)
(* The queue runs empty only when no group is left out: the covered set of *)
(* a group, hence _covered_sets_rb, is every vector that carries the       *)
(* group's labels.  The exact filter of a query is a union of these sets.  *)
(***************************************************************************)
CoverageExact ==
    phase = "built" => \A g \in Group : covered[g] = {g} \cup Above(labelSet, g)
=============================================================================
