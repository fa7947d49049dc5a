------------------------------ MODULE GroupTrie ------------------------------
(***************************************************************************)
(* Division of the base vectors into groups of equal label sets            *)
(* (UniNavGraph::build_trie_and_divide_groups, TrieIndex::insert) and the  *)
(* renumbering that makes every group a contiguous range of new ids        *)
(* (UniNavGraph::prepare_group_storages_graphs).                           *)
(***************************************************************************)
EXTENDS TriePaths

Vec == 0 .. NumPoints - 1

VARIABLES labelsOf,      \* the label set of every vector, by its old id
          built,         \* "divide" until every vector is inserted, "ready" after the renumbering
          next,          \* the loop variable vec_id
          nodes,         \* the nodes of the trie
          groupIdOf,     \* terminal node -> its group_id
          groupSizeOf,   \* terminal node -> its group_size
          labelToNodes,  \* _label_to_nodes, indexed by 0 .. _max_label_id
          groupVecs,     \* _group_id_to_vec_ids[1 ..]
          groupLabels,   \* _group_id_to_label_set[1 ..]
          newToOld,      \* _new_to_old_vec_ids
          groupOfNew,    \* _new_vec_id_to_group_id
          range          \* _group_id_to_range[1 ..], each <<first, second>>

trie == <<nodes, groupIdOf, groupSizeOf, labelToNodes>>
division == <<groupVecs, groupLabels>>
order == <<newToOld, groupOfNew, range>>
trieVars == <<labelsOf, built, next, trie, division, order>>

-----------------------------------------------------------------------------
Terminals == DOMAIN groupIdOf
NumGroups == Len(groupVecs)
VecsUpTo(g) == FlattenSeq(SubSeq(groupVecs, 1, g))     \* the vectors of groups 1 .. g

InitTrie == /\ labelsOf \in [Vec -> SUBSET Label]
            /\ built = "divide"
            /\ next = 0
            /\ nodes = {{}}
            /\ groupIdOf = <<>>
            /\ groupSizeOf = <<>>
            /\ labelToNodes = <<>>
            /\ groupVecs = <<>>
            /\ groupLabels = <<>>
            /\ newToOld = <<>>
            /\ groupOfNew = <<>>
            /\ range = <<>>

\* Mutant: only the terminal node is registered, not the nodes on its path.
ExtendIndexTerminalOnly(created, ls) ==
    [l \in DOMAIN labelToNodes \cup 0 .. Max(UNION created) |->
        (IF l \in DOMAIN labelToNodes THEN labelToNodes[l] ELSE {})
            \cup {n \in created : n = ls /\ LastLabel(n) = l}]

(***************************************************************************)
(* TrieIndex::insert resizes _label_to_nodes to the greatest label seen so *)
(* far and registers every node it creates under its own label.            *)
(***************************************************************************)
ExtendIndex(created, ls) ==
    [l \in DOMAIN labelToNodes \cup 0 .. Max(UNION created) |->
        (IF l \in DOMAIN labelToNodes THEN labelToNodes[l] ELSE {})
            \cup {n \in created : LastLabel(n) = l}]

\* Mutants: every insertion opens a group; ranges are shifted by one.
IsKnownNever(ls) == FALSE
RangeLate(g) == <<Len(VecsUpTo(g - 1)) + 1, Len(VecsUpTo(g)) + 1>>

IsKnown(ls) == ls \in Terminals     \* the node at the end of the path has a group id
RangeOf(g) == <<Len(VecsUpTo(g - 1)), Len(VecsUpTo(g))>>

\* TrieIndex::insert, called for vector `next'.
insert(ls) ==
    LET created == Path(ls) \ nodes
    IN  /\ nodes' = nodes \cup created
        /\ labelToNodes' = IF created = {} THEN labelToNodes ELSE ExtendIndex(created, ls)
        /\ groupIdOf' = IF IsKnown(ls) THEN groupIdOf
                        ELSE [t \in Terminals \cup {ls} |->
                                 IF t = ls THEN NumGroups + 1 ELSE groupIdOf[t]]
        /\ groupSizeOf' = IF IsKnown(ls) THEN [groupSizeOf EXCEPT ![ls] = @ + 1]
                          ELSE [t \in Terminals \cup {ls} |->
                                   IF t = ls THEN 1 ELSE groupSizeOf[t]]

\* One iteration of build_trie_and_divide_groups.
divideNext ==
    /\ built = "divide"
    /\ next < NumPoints
    /\ insert(labelsOf[next])
    /\ LET id == groupIdOf'[labelsOf[next]]
       IN  IF id > NumGroups
           THEN /\ groupVecs' = Append(groupVecs, <<next>>)
                /\ groupLabels' = Append(groupLabels, labelsOf[next])
           ELSE /\ groupVecs' = [groupVecs EXCEPT ![id] = Append(@, next)]
                /\ UNCHANGED groupLabels
    /\ next' = next + 1
    /\ UNCHANGED <<labelsOf, built, order>>

prepareGroups ==
    /\ built = "divide"
    /\ next = NumPoints
    /\ built' = "ready"
    /\ newToOld' = [v \in Vec |-> VecsUpTo(NumGroups)[v + 1]]
    /\ range' = [g \in 1 .. NumGroups |-> RangeOf(g)]
    /\ groupOfNew' = [v \in Vec |-> CHOOSE g \in 1 .. NumGroups :
                                       newToOld'[v] \in ToSet(groupVecs[g])]
    /\ UNCHANGED <<labelsOf, next, trie, division>>

NextTrie == divideNext \/ prepareGroups

SpecTrie == InitTrie /\ [][NextTrie]_trieVars

-----------------------------------------------------------------------------

TrieTyped == /\ labelsOf \in [Vec -> SUBSET Label]
             /\ built \in {"divide", "ready"}
             /\ next \in 0 .. NumPoints
             /\ nodes \subseteq SUBSET Label
             /\ groupIdOf \in [Terminals -> 1 .. NumGroups]
             /\ groupSizeOf \in [Terminals -> 1 .. NumPoints]
             /\ \A l \in DOMAIN labelToNodes : labelToNodes[l] \subseteq nodes
             /\ groupVecs \in Seq(Seq(Vec))
             /\ groupLabels \in Seq(SUBSET Label)

(***************************************************************************)
(* The three places that describe a group agree after every insertion: the *)
(* terminal node's id and size, the list of its vectors, and its label     *)
(* set.  Two vectors share a group exactly when their label sets are equal *)
(* and the ids are 1 .. _num_groups without a hole.                        *)
(***************************************************************************)
GroupsAgree ==
    /\ Len(groupLabels) = NumGroups
    /\ {groupIdOf[t] : t \in Terminals} = 1 .. NumGroups
    /\ \A t \in Terminals : /\ groupLabels[groupIdOf[t]] = t
                            /\ Len(groupVecs[groupIdOf[t]]) = groupSizeOf[t]
    /\ \A v \in 0 .. next - 1 :
          {g \in 1 .. NumGroups : v \in ToSet(groupVecs[g])} = {groupIdOf[labelsOf[v]]}

(***************************************************************************)
(* The renumbering is a permutation of the vectors that keeps every vector *)
(* in its group: new ids of a group are exactly its range, and the new id  *)
(* v stands for an old vector whose labels are the labels of v's group.    *)
(***************************************************************************)
ReorderKeepsLabels ==
    built = "ready" =>
        /\ IsInjective(newToOld)
        /\ \A v \in Vec : labelsOf[newToOld[v]] = groupLabels[groupOfNew[v]]
        /\ \A g \in 1 .. NumGroups :
              {v \in Vec : groupOfNew[v] = g} = range[g][1] .. range[g][2] - 1
=============================================================================
