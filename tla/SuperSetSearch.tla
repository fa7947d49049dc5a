--------------------------- MODULE SuperSetSearch ---------------------------
(***************************************************************************)
(* The search for the minimal super sets of a label set in the trie that   *)
(* GroupTrie builds: UniNavGraph::get_min_super_sets (building the label   *)
(* navigation graph) and get_min_super_sets_debug (entry groups of a       *)
(* query), with the four traversals of TrieIndex they choose from.         *)
(*                                                                         *)
(* A group is identified with its label set.  A search changes nothing of  *)
(* the trie, so one search per behaviour is enough.                        *)
(***************************************************************************)
EXTENDS GroupTrie, FiniteSetsExt

CONSTANT QueryLabel  \* labels of queries, some of which no vector may carry

ASSUME QueryLabelAssumption ==
    Label \subseteq QueryLabel /\ QueryLabel \subseteq Nat /\ IsFiniteSet(QueryLabel)

VARIABLES query,      \* the label set searched for
          method,     \* which traversal
          skipFilter, \* skip_els_filter: return the candidates as they are
          stage,      \* "idle", "start", "search", "filter", then "done" or "thrown"
          frontier,   \* the queue, as a set of [node, rest], rest the labels still to match
          cands,      \* super_set_entrances
          unscanned,  \* the candidates the filter loop has still to look at
          minIds      \* min_super_set_ids

input == <<trieVars, query, method, skipFilter>>
vars == <<input, stage, frontier, cands, unscanned, minIds>>

Method == {"build", "shortcut", "topdown", "morestart"}

-----------------------------------------------------------------------------
\* The trie.

Below(n, m) == n = {} \/ (n \subseteq m /\ AncestorUpTo(m, LastLabel(n)) = n)  \* m is n or under n
Children(n) == {c \in nodes \ {{}} : Parent(c) = n}
Indexed(l) == l \in DOMAIN labelToNodes            \* l < _label_to_nodes.size()

AvoidSelf == method = "build"
Item(ns, rest) == {[node |-> n, rest |-> rest] : n \in ns}

\* For every query label but the last, climb to the ancestor whose label is no
\* longer above it and compare.
examine_containment(n) ==
    \A l \in query \ {LastLabel(query)} :
        LET cur == AncestorUpTo(Parent(n), l)
        IN  cur # {} /\ LastLabel(cur) = l

\* First part of get_super_set_entrances and get_super_set_entrances_debug.
ShortcutStart ==
    Item(IF query = {} THEN Children({})
         ELSE {n \in labelToNodes[LastLabel(query)] : examine_containment(n)}, {})

\* get_super_set_entrances_new_more_sp_debug returns nothing for an empty
\* query or for a first label beyond the index.
MoreStart ==
    IF query = {} \/ ~Indexed(Min(query)) THEN {}
    ELSE Item(labelToNodes[Min(query)], query \ {Min(query)})

Start == CASE method \in {"build", "shortcut"} -> ShortcutStart
           [] method = "topdown" -> Item({{}}, query)
           [] method = "morestart" -> MoreStart

\* get_super_set_entrances_debug indexes with at(), the others never go beyond
\* the index.
Throws == method = "shortcut" /\ query # {} /\ ~Indexed(LastLabel(query))

Init == /\ InitTrie
        /\ query = {}
        /\ method = "build"
        /\ skipFilter = FALSE
        /\ stage = "idle"
        /\ frontier = {}
        /\ cands = {}
        /\ unscanned = {}
        /\ minIds = {}

-----------------------------------------------------------------------------

\* find_supersets_recursive_debug and find_supersets_iterative_debug: a child
\* below the target label is passed, the target is matched, a greater one is
\* pruned.
Descend(item) ==
    UNION {Item({c}, IF LastLabel(c) = Min(item.rest) THEN item.rest \ {Min(item.rest)}
                                                      ELSE item.rest) :
              c \in {d \in Children(item.node) : LastLabel(d) <= Min(item.rest)}}

\* The queue of the shortcut methods: a terminal is added and not searched
\* further; any other node, the avoided one included, is replaced by its children.
visit(item) ==
    IF item.node \in Terminals /\ ~(AvoidSelf /\ item.node = query) /\ item.node \notin cands
    THEN /\ cands' = cands \cup {item.node}
         /\ frontier' = frontier \ {item}
    ELSE /\ UNCHANGED cands
         /\ frontier' = (frontier \ {item}) \cup Item(Children(item.node), {})

\* collect_all_terminals_debug: every terminal of the subtree, nested ones too.
collect(item) ==
    /\ cands' = cands \cup {t \in Terminals : Below(item.node, t)}
    /\ frontier' = frontier \ {item}

\* One step of the build of the index.
buildIndex ==
    /\ NextTrie
    /\ UNCHANGED <<query, method, skipFilter, stage, frontier, cands, unscanned, minIds>>

\* The label navigation graph asks for a group's own label set, with the filter;
\* a query for any label set.
ask(q, m, skip) ==
    /\ stage = "idle"
    /\ built = "ready"
    /\ m = "build" => q \in Terminals /\ ~skip
    /\ query' = q
    /\ method' = m
    /\ skipFilter' = skip
    /\ stage' = "start"
    /\ UNCHANGED <<trieVars, frontier, cands, unscanned, minIds>>

\* The nodes the search starts from, or std::out_of_range.
start ==
    /\ stage = "start"
    /\ IF Throws THEN stage' = "thrown" /\ UNCHANGED frontier
                 ELSE stage' = "search" /\ frontier' = Start
    /\ UNCHANGED <<input, cands, unscanned, minIds>>

expand(item) ==
    /\ stage = "search"
    /\ item \in frontier
    /\ IF item.rest # {} THEN /\ frontier' = (frontier \ {item}) \cup Descend(item)
                              /\ UNCHANGED cands
       ELSE IF method \in {"build", "shortcut"} THEN visit(item)
       ELSE collect(item)
    /\ UNCHANGED <<input, stage, unscanned, minIds>>

\* The search is over: no candidate, one candidate, or no filter answer at once.
endSearch ==
    /\ stage = "search"
    /\ frontier = {}
    /\ IF Cardinality(cands) <= 1 \/ skipFilter
       THEN stage' = "done" /\ minIds' = cands /\ UNCHANGED unscanned
       ELSE stage' = "filter" /\ unscanned' = cands /\ UNCHANGED minIds
    /\ UNCHANGED <<input, frontier, cands>>

\* Mutant: the candidates are not sorted.
IsSmallestAny(c) == c \in unscanned

\* std::sort by label_set_size leaves ties in any order.
IsSmallest(c) == \A d \in unscanned : Cardinality(c) <= Cardinality(d)
MinSize == Min({Cardinality(c) : c \in cands})
IsMinimal(c) == Cardinality(c) > MinSize => \A m \in minIds : ~(m \subseteq c)

filter(c) ==
    /\ stage = "filter"
    /\ c \in unscanned
    /\ IsSmallest(c)
    /\ unscanned' = unscanned \ {c}
    /\ minIds' = IF IsMinimal(c) THEN minIds \cup {c} ELSE minIds
    /\ stage' = IF unscanned = {c} THEN "done" ELSE "filter"
    /\ UNCHANGED <<input, frontier, cands>>

Next == \/ buildIndex
        \/ \E q \in SUBSET QueryLabel, m \in Method, skip \in BOOLEAN : ask(q, m, skip)
        \/ start
        \/ \E item \in frontier : expand(item)
        \/ endSearch
        \/ \E c \in unscanned : filter(c)

Spec == Init /\ [][Next]_vars

-----------------------------------------------------------------------------

SuperSets == {g \in Terminals : query \subseteq g /\ ~(AvoidSelf /\ g = query)}
MinimalOf(S) == {g \in S : \A h \in S : h \subseteq g => h = g}

\* The traversals that answer an empty query with every group that qualifies.
Complete == query # {} \/ method \in {"build", "topdown"}

TypeOK == /\ stage \in {"idle", "start", "search", "filter", "done", "thrown"}
          /\ frontier \subseteq [node : nodes, rest : SUBSET query]
          /\ cands \subseteq Terminals
          /\ unscanned \subseteq cands
          /\ minIds \subseteq cands

(***************************************************************************)
(* Whatever the traversal, the candidates it stops at and the order of the *)
(* ties, the answer is the set of minimal groups that contain the query    *)
(* (that strictly contain it, when the graph is built).                    *)
(***************************************************************************)
ExactMinimal ==
    stage = "done" /\ ~skipFilter /\ Complete => minIds = MinimalOf(SuperSets)

(***************************************************************************)
(* With skip_els_filter the answer is not minimal, but still only          *)
(* qualified groups, from which every qualified group can be reached.      *)
(***************************************************************************)
SkipStillCovers ==
    stage = "done" /\ Complete =>
        /\ minIds \subseteq SuperSets
        /\ MinimalOf(SuperSets) \subseteq minIds
=============================================================================
