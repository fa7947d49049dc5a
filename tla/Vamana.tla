------------------------------- MODULE Vamana -------------------------------
(***************************************************************************)
(* The graph of one group of vectors: build_graph_for_all_groups, and      *)
(* Vamana::build with link, iterate_to_fixed_point, prune_neighbors and    *)
(* inter_insert (vamana/vamana.cpp).                                       *)
(*                                                                         *)
(* The threads of link search the graph while others change it.  Every     *)
(* access to a list of neighbours is a critical section of its own under   *)
(* the lock of that list, no thread holds two locks, so each is one step.  *)
(* Distances are left open: a search expands the vectors it has seen in    *)
(* any order, and pruning keeps any of its candidates, but never none.     *)
(***************************************************************************)
EXTENDS Integers, FiniteSets

CONSTANTS Vector,       \* the vectors a group may consist of
          Entry,        \* the medoid, _entry_point; vector 0 of a complete graph
          Thread,       \* the threads the program may be given
          NoVector,
          MaxDegree,    \* _max_degree
          SlackDegree,  \* (IdxType)(GRAPH_SLACK_FACTOR * _max_degree)
          Lbuild        \* _Lbuild, the capacity of the search queue

ASSUME VectorAssumption == IsFiniteSet(Vector) /\ Entry \in Vector /\ NoVector \notin Vector
ASSUME DegreeAssumption == /\ MaxDegree \in Nat \ {0}
                           /\ SlackDegree \in Nat
                           /\ MaxDegree <= SlackDegree
                           /\ Lbuild \in Nat /\ Lbuild >= 2

VARIABLES points,     \* the vectors of the group
          threads,    \* the threads of link: one, when called for a group
          phase,      \* "start", "link", "cleanup", "built"
          todo,       \* the iterations the current loop has not begun
          neighbors,  \* _graph->neighbors
          pc,         \* of each thread: "idle", "search", "overwrite", "insert", "write"
          at,         \* the vector of its iteration, id or src
          seen,       \* the vectors its search has inserted in the queue
          expanded,   \* those of them that it has expanded
          pruned,     \* pruned_list; then the part of it inter_insert has left
          target,     \* dst of the list being pruned outside the lock
          newList     \* new_dst_neighbors

local == <<pc, at, seen, expanded, pruned, target, newList>>
linkVars == <<points, threads, phase, todo, neighbors, local>>

InitLink ==
    /\ points \in {S \in SUBSET Vector : Entry \in S}
    /\ threads \in (SUBSET Thread) \ {{}}
    /\ phase = "start"
    /\ todo = {}
    /\ neighbors = [v \in points |-> {}]
    /\ pc = [t \in Thread |-> "idle"]
    /\ at = [t \in Thread |-> NoVector]
    /\ seen = [t \in Thread |-> {}]
    /\ expanded = [t \in Thread |-> {}]
    /\ pruned = [t \in Thread |-> {}]
    /\ target = [t \in Thread |-> NoVector]
    /\ newList = [t \in Thread |-> {}]

-----------------------------------------------------------------------------

\* build_complete_graph, for a group of at most _max_degree vectors.
completeGraph ==
    /\ phase = "start"
    /\ Cardinality(points) <= MaxDegree
    /\ neighbors' = [v \in points |-> points \ {v}]
    /\ phase' = "built"
    /\ UNCHANGED <<points, threads, todo, local>>

build ==
    /\ phase = "start"
    /\ Cardinality(points) > MaxDegree
    /\ phase' = "link"
    /\ todo' = points
    /\ UNCHANGED <<points, threads, neighbors, local>>

-----------------------------------------------------------------------------
\* An iteration of the parallel loop of link.

\* Dynamic scheduling: a thread that is free takes an iteration; its search
\* begins with the entry point.
take(t, v) ==
    /\ phase = "link"
    /\ pc[t] = "idle"
    /\ v \in todo
    /\ todo' = todo \ {v}
    /\ at' = [at EXCEPT ![t] = v]
    /\ seen' = [seen EXCEPT ![t] = {Entry}]
    /\ pc' = [pc EXCEPT ![t] = "search"]
    /\ UNCHANGED <<points, threads, phase, neighbors, expanded, pruned, target, newList>>

expand(t, cur) ==
    /\ pc[t] = "search"
    /\ cur \in seen[t] \ expanded[t]
    /\ expanded' = [expanded EXCEPT ![t] = @ \cup {cur}]
    /\ seen' = [seen EXCEPT ![t] = @ \cup neighbors[cur]]
    /\ UNCHANGED <<points, threads, phase, todo, neighbors, pc, at, pruned, target, newList>>

\* Mutant: every candidate may be occluded.
PrunedToNone(v, C) == {R \in SUBSET (C \ {v}) : Cardinality(R) <= MaxDegree}

\* prune_neighbors(v, C): the nearest candidate is never occluded.
Pruned(v, C) == {R \in SUBSET (C \ {v}) : /\ Cardinality(R) <= MaxDegree
                                          /\ R = {} => C \ {v} = {}}

\* Mutant: a search ends only with a full queue.
NoUnexpandedFull(t) == Cardinality(expanded[t]) >= Lbuild

\* Every candidate in the queue, which keeps Lbuild of those seen, is expanded.
\* expanded_list leaves out the vector itself.
NoUnexpanded(t) ==
    \/ expanded[t] = seen[t]
    \/ Cardinality(expanded[t]) >= Lbuild

prune(t) ==
    /\ pc[t] = "search"
    /\ NoUnexpanded(t)
    /\ \E R \in Pruned(at[t], expanded[t] \ {at[t]}) : pruned' = [pruned EXCEPT ![t] = R]
    /\ seen' = [seen EXCEPT ![t] = {}]
    /\ expanded' = [expanded EXCEPT ![t] = {}]
    /\ pc' = [pc EXCEPT ![t] = "overwrite"]
    /\ UNCHANGED <<points, threads, phase, todo, neighbors, at, target, newList>>

\* The iteration goes on while `rest', of the pruned list, is left to insert.
GoOn(t, rest) == /\ pc' = [pc EXCEPT ![t] = IF rest = {} THEN "idle" ELSE "insert"]
                 /\ at' = [at EXCEPT ![t] = IF rest = {} THEN NoVector ELSE @]
                 /\ pruned' = [pruned EXCEPT ![t] = rest]

overwrite(t) ==
    /\ pc[t] = "overwrite"
    /\ neighbors' = [neighbors EXCEPT ![at[t]] = pruned[t]]
    /\ GoOn(t, pruned[t])
    /\ UNCHANGED <<points, threads, phase, todo, seen, expanded, target, newList>>

\* Mutant: the slack is exceeded by one.
HasRoomOneMore(d) == Cardinality(neighbors[d]) <= SlackDegree
HasRoom(d) == Cardinality(neighbors[d]) < SlackDegree

\* Mutant: reverse edges are inserted before the vector's own list is written.
insertReverseEarly(t, dst) ==
    /\ pc[t] = "overwrite"
    /\ dst \in pruned[t]
    /\ at[t] \in neighbors[dst] \/ HasRoom(dst)
    /\ neighbors' = [neighbors EXCEPT ![dst] = @ \cup {at[t]}]
    /\ UNCHANGED <<points, threads, phase, todo, local>>

\* inter_insert: the edge dst -> src, unless it is there or the list is full.
insertReverse(t, dst) ==
    /\ pc[t] = "insert"
    /\ dst \in pruned[t]
    /\ at[t] \in neighbors[dst] \/ HasRoom(dst)
    /\ neighbors' = [neighbors EXCEPT ![dst] = @ \cup {at[t]}]
    /\ GoOn(t, pruned[t] \ {dst})
    /\ UNCHANGED <<points, threads, phase, todo, seen, expanded, target, newList>>

\* A full list is copied, and the copy pruned after the lock is released.
copyFull(t, dst) ==
    /\ pc[t] = "insert"
    /\ dst \in pruned[t]
    /\ at[t] \notin neighbors[dst]
    /\ ~HasRoom(dst)
    /\ target' = [target EXCEPT ![t] = dst]
    /\ \E R \in Pruned(dst, neighbors[dst] \cup {at[t]}) : newList' = [newList EXCEPT ![t] = R]
    /\ pc' = [pc EXCEPT ![t] = "write"]
    /\ UNCHANGED <<points, threads, phase, todo, neighbors, at, seen, expanded, pruned>>

writeBack(t) ==
    /\ pc[t] = "write"
    /\ neighbors' = [neighbors EXCEPT ![target[t]] = newList[t]]
    /\ target' = [target EXCEPT ![t] = NoVector]
    /\ newList' = [newList EXCEPT ![t] = {}]
    /\ GoOn(t, pruned[t] \ {target[t]})
    /\ UNCHANGED <<points, threads, phase, todo, seen, expanded>>

iterate(t) == \/ \E v \in points : take(t, v) \/ expand(t, v)
              \/ prune(t)
              \/ overwrite(t)
              \/ \E dst \in points : insertReverse(t, dst) \/ copyFull(t, dst)
              \/ writeBack(t)

-----------------------------------------------------------------------------

LoopDone == todo = {} /\ \A t \in threads : pc[t] = "idle"

\* The barrier at the end of the loop.
startCleanup ==
    /\ phase = "link"
    /\ LoopDone
    /\ phase' = "cleanup"
    /\ todo' = points
    /\ UNCHANGED <<points, threads, neighbors, local>>

\* The final cleanup takes no lock: an iteration uses the list of its own
\* vector only.
cleanup(v) ==
    /\ phase = "cleanup"
    /\ v \in todo
    /\ IF Cardinality(neighbors[v]) > MaxDegree
       THEN \E R \in Pruned(v, neighbors[v]) : neighbors' = [neighbors EXCEPT ![v] = R]
       ELSE UNCHANGED neighbors
    /\ todo' = todo \ {v}
    /\ UNCHANGED <<points, threads, phase, local>>

endCleanup ==
    /\ phase = "cleanup"
    /\ LoopDone
    /\ phase' = "built"
    /\ UNCHANGED <<points, threads, todo, neighbors, local>>

Main == completeGraph \/ build \/ startCleanup \/ (\E v \in points : cleanup(v)) \/ endCleanup

NextLink == Main \/ \E t \in threads : iterate(t)

\* The threads of an OpenMP loop run until it is done.
Fairness == WF_linkVars(Main) /\ \A t \in Thread : WF_linkVars(t \in threads /\ iterate(t))

SpecLink == InitLink /\ [][NextLink]_linkVars /\ Fairness

-----------------------------------------------------------------------------

PC == {"idle", "search", "overwrite", "insert", "write"}

TypeOK == /\ points \subseteq Vector /\ Entry \in points
          /\ threads \subseteq Thread /\ threads # {}
          /\ phase \in {"start", "link", "cleanup", "built"}
          /\ todo \subseteq points
          /\ neighbors \in [points -> SUBSET points]
          /\ pc \in [Thread -> PC]
          /\ at \in [Thread -> points \cup {NoVector}]
          /\ seen \in [Thread -> SUBSET points]
          /\ expanded \in [Thread -> SUBSET points]
          /\ pruned \in [Thread -> SUBSET points]
          /\ target \in [Thread -> points \cup {NoVector}]
          /\ newList \in [Thread -> SUBSET points]

\* The vectors whose list has been written at the end of their search.
Linked == IF phase = "start" THEN {}
          ELSE IF phase = "link"
          THEN points \ (todo \cup {at[t] : t \in {u \in threads : pc[u] \in {"search", "overwrite"}}})
          ELSE points

(***************************************************************************)
(* However the threads interleave, no list exceeds the slack degree while  *)
(* the graph is linked, none exceeds the degree when it is built, and no   *)
(* vector is its own neighbour.                                            *)
(***************************************************************************)
DegreesBounded ==
    \A v \in points : /\ Cardinality(neighbors[v]) <= SlackDegree
                      /\ phase = "built" => Cardinality(neighbors[v]) <= MaxDegree
                      /\ v \notin neighbors[v]

(***************************************************************************)
(* A vector writes its own list before the reverse edges that make it      *)
(* reachable: a search, which starts at the entry point, never expands a   *)
(* vector that is not linked yet, in the lists or in a copy being pruned.  *)
(***************************************************************************)
EdgesToLinked ==
    \A v \in points : neighbors[v] \subseteq Linked \cup {Entry}

(***************************************************************************)
(* No search ends in a dead end: every linked vector but the entry point   *)
(* has a neighbour, whichever thread wrote its list last.  The entry point *)
(* has one too when a single thread links the group; with more, its own    *)
(* overwrite may drop the reverse edges the others have inserted.          *)
(***************************************************************************)
NoDeadEnds ==
    /\ \A v \in Linked \ {Entry} : neighbors[v] # {}
    /\ \A t \in threads :
          threads = {t} /\ pc[t] \in {"idle", "search"} /\ Linked \ {Entry} # {} =>
              neighbors[Entry] # {}

(***************************************************************************)
(* Every search ends although the graph grows under it, and the loops end. *)
(***************************************************************************)
LinkEnds == <>(phase = "built")

=============================================================================
