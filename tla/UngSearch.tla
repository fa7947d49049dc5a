------------------------------ MODULE UngSearch ------------------------------
(***************************************************************************)
(* A search of the unified navigating graph for a query with labels: the   *)
(* entry points (get_entry_points_given_group_id, for every entry group)   *)
(* and the greedy expansion (UniNavGraph::iterate_to_fixed_point).         *)
(*                                                                         *)
(* The entry groups are those EntryGroups and SuperSetSearch find, the     *)
(* graph is any that CrossEdges may build, the queue is CandidatePool,     *)
(* which SearchQueue implements.  A group graph is complete, or any Vamana *)
(* graph.                                                                  *)
(***************************************************************************)
EXTENDS VectorIds

CONSTANTS EntryCounts,     \* the values of num_entry_points
          Lsearch          \* the capacity of the queue

ASSUME SizesAssumption == EntryCounts \subseteq Nat \ {0} /\ Lsearch \in Nat \ {0}

VARIABLES groupEntry,  \* _group_entry_points
          query,       \* query_label_set
          dist,        \* the distance of every vector from the query
          numEntryPoints,  \* num_entry_points
          stage,       \* "entry", "sample", "search", "done"
          todo,        \* the entry groups left
          sampling,    \* the loop of get_entry_points_given_group_id: [group, i]
          entry,       \* entry_points
          sampled,     \* visited_set while the entry points are chosen
          visited,     \* visited_set of the expansion
          kept,        \* the candidates in the queue
          expanded     \* those that have been expanded

index == <<groups, neighbors, groupEntry>>
input == <<query, dist, numEntryPoints>>
choice == <<todo, sampling, entry, sampled>>
vars == <<index, input, stage, choice, visited, kept, expanded>>

-----------------------------------------------------------------------------

EntryGroups == Minimal(labelSet, Qualified(labelSet, query))
Carries(v) == query \subseteq labelSet[GroupOf(v)]

Pool == INSTANCE CandidatePool
            WITH Id <- 0 .. MaxPoints - 1, Distance <- 0 .. MaxPoints - 1, Capacity <- Lsearch,
                 offered <- entry \cup visited, handed <- expanded

\* The least that CrossEdges guarantees: one edge for every edge of the LNG.
\* A group graph is complete or misses one edge.
InnerEdges == {e \in Vec \X Vec : e[1] # e[2] /\ GroupOf(e[1]) = GroupOf(e[2])}
Bridges == {b \in [LngEdges -> Vec \X Vec] :
               \A p \in LngEdges : b[p] \in VecsOf(p[1]) \X VecsOf(p[2])}
InitGraph ==
    \E missing \in {{}} \cup {{e} : e \in InnerEdges}, bridge \in Bridges :
        LET edges == (InnerEdges \ missing) \cup {bridge[p] : p \in LngEdges}
        IN  neighbors = [v \in Vec |-> {n \in Vec : <<v, n>> \in edges}]

InitInput == /\ groupEntry \in {e \in [Group -> Vec] : \A g \in Group : e[g] \in VecsOf(g)}
             /\ query \in SUBSET Label
             /\ numEntryPoints \in EntryCounts

InitSearch == /\ stage = "entry"
              /\ todo = EntryGroups
              /\ sampling = [group |-> 0, i |-> 0]
              /\ entry = {}
              /\ sampled = {}
              /\ visited = {}
              /\ kept = {}
              /\ expanded = {}

Init == /\ InitGroups
        /\ InitGraph
        /\ InitInput
        /\ dist \in {d \in [Vec -> Vec] : \A u, v \in Vec : d[u] = d[v] => u = v}
        /\ InitSearch

-----------------------------------------------------------------------------

\* The groups are taken in the order of min_super_set_ids, here in any order.
\* A group with few vectors enters whole, another through its entry point.
enterGroup(g) ==
    /\ stage = "entry"
    /\ g \in todo
    /\ todo' = todo \ {g}
    /\ IF Size(g) <= numEntryPoints
       THEN /\ entry' = entry \cup VecsOf(g)
            /\ UNCHANGED <<stage, sampling, sampled>>
       ELSE /\ entry' = entry \cup {groupEntry[g]}
            /\ sampled' = sampled \cup {groupEntry[g]}
            /\ sampling' = [group |-> g, i |-> 1]
            /\ stage' = "sample"
    /\ UNCHANGED <<index, input, visited, kept, expanded>>

\* The id pushed is the loop variable's, not the sampled one.
Pushed(g, i, point) == i + first[g]

\* rand() % size + first may hit any vector of the group.
sample(point) ==
    LET g == sampling.group
    IN  /\ stage = "sample"
        /\ sampling.i < numEntryPoints
        /\ point \in VecsOf(g)
        /\ IF point \in sampled
           THEN UNCHANGED <<entry, sampled>>
           ELSE /\ sampled' = sampled \cup {point}
                /\ entry' = entry \cup {Pushed(g, sampling.i, point)}
        /\ sampling' = [sampling EXCEPT !.i = @ + 1]
        /\ UNCHANGED <<index, input, stage, todo, visited, kept, expanded>>

endSample ==
    /\ stage = "sample"
    /\ sampling.i >= numEntryPoints
    /\ stage' = "entry"
    /\ UNCHANGED <<index, input, choice, visited, kept, expanded>>

\* No entry point ends the search without a result.  Otherwise the queue and
\* the visited set are cleared and the entry points inserted, unvisited.
startSearch ==
    /\ stage = "entry"
    /\ todo = {}
    /\ stage' = IF entry = {} THEN "done" ELSE "search"
    /\ kept' = Pool!Closest(entry)
    /\ visited' = {}
    /\ UNCHANGED <<index, input, choice, expanded>>

\* Mutants: the edges between groups are not followed; the candidate is not
\* flagged.
FreshInGroup(c) == (neighbors[c] \ visited) \cap VecsOf(GroupOf(c))
FlagNone(c) == expanded

Fresh(c) == neighbors[c] \ visited
Offer(c) == Pool!Closest(kept \cup Fresh(c))
Flag(c) == expanded \cup {c}

\* One candidate: its neighbours not visited are marked and offered to the queue.
expand(c) ==
    /\ stage = "search"
    /\ c \in kept \ expanded
    /\ \A d \in kept \ expanded : d # c => Pool!Closer(c, d)
    /\ visited' = visited \cup Fresh(c)
    /\ kept' = Offer(c)
    /\ expanded' = Flag(c) \cap Offer(c)
    /\ UNCHANGED <<index, input, stage, choice>>

\* Mutant: the search stops when its closest candidate has been expanded.
FinishedEarly == \E c \in expanded : \A d \in kept : d = c \/ Pool!Closer(c, d)
Finished == kept = expanded     \* ~has_unexpanded_node()

endSearch ==
    /\ stage = "search"
    /\ Finished
    /\ stage' = "done"
    /\ UNCHANGED <<index, input, choice, visited, kept, expanded>>

Next == \/ \E g \in todo : enterGroup(g)
        \/ \E p \in Vec : sample(p) \/ expand(p)
        \/ endSample
        \/ startSearch
        \/ endSearch

Spec == Init /\ [][Next]_vars /\ WF_vars(Next)

-----------------------------------------------------------------------------

TypeOK == /\ stage \in {"entry", "sample", "search", "done"}
          /\ todo \subseteq Group
          /\ entry \subseteq Vec
          /\ visited \subseteq Vec
          /\ expanded \subseteq kept
          /\ Cardinality(kept) <= Lsearch

(***************************************************************************)
(* The filter needs no test: whatever the query and the graph, a search    *)
(* enters, visits and returns only vectors that carry all labels of the    *)
(* query, since every edge stays in a group or climbs to a super set.      *)
(***************************************************************************)
FilterSound == \A v \in entry \cup visited \cup kept : Carries(v)

(***************************************************************************)
(* The fixed point of iterate_to_fixed_point: when the search stops, every *)
(* neighbour of a result is a result, or farther than a full queue.        *)
(***************************************************************************)
LocalOptimum ==
    stage = "done" =>
        \A c \in kept : \A n \in neighbors[c] :
            n \in kept \/ (Cardinality(kept) = Lsearch /\ \A d \in kept : Pool!Closer(d, n))

(***************************************************************************)
(* When the queue is long enough and the group graphs are complete (groups *)
(* of at most _max_degree vectors), the result is every qualified vector:  *)
(* the entry groups and one edge per LNG edge reach all of them.           *)
(***************************************************************************)
Exhaustive ==
    LET qualified == {v \in Vec : Carries(v)}
    IN  stage = "done" /\ Cardinality(qualified) <= Lsearch
          /\ (\A g \in Group : \A v \in VecsOf(g) : VecsOf(g) \ {v} \subseteq neighbors[v])
        => kept = qualified

(***************************************************************************)
(* The search ends.                                                        *)
(***************************************************************************)
Ends == <>(stage = "done")

(***************************************************************************)
(* "Randomly sample the other entry points": what enters for a group with  *)
(* many vectors are the points drawn, which the visited set remembers.     *)
(***************************************************************************)
EntryPointsAreSamples ==
    stage = "search" => \A v \in entry : Size(GroupOf(v)) > numEntryPoints => v \in sampled

-----------------------------------------------------------------------------
\* The inductive invariant of the proofs.

InputInv == InitGroups /\ United /\ InitInput /\ dist \in [Vec -> Nat]

EntryInv ==
    /\ todo \subseteq EntryGroups
    /\ \A g \in EntryGroups \ todo : VecsOf(g) \cap entry # {}
    /\ stage = "sample" =>
          /\ sampling.group \in EntryGroups /\ sampling.i \in Nat
          /\ numEntryPoints < Size(sampling.group)
    /\ sampling \in [group : Nat, i : Nat]

SearchInv ==
    /\ stage \in {"entry", "sample"} => visited = {} /\ kept = {}
    /\ stage \in {"search", "done"} => todo = {} /\ kept = Pool!Closest(entry \cup visited)
    /\ stage = "done" => kept = expanded
    /\ \A c \in expanded : neighbors[c] \subseteq visited

IInv == InputInv /\ TypeOK /\ FilterSound /\ EntryInv /\ SearchInv
=============================================================================
