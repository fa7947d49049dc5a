----------------------------- MODULE EntryGroups -----------------------------
(***************************************************************************)
(* The entry groups of a query computed from the bitmaps and the label     *)
(* navigation graph, without the trie: get_min_super_sets_bitmap,          *)
(* get_min_super_sets_sorted_lng (UNG++) and get_min_super_sets_tfng2.     *)
(* Each first intersects the group bitmaps of the query's labels, then     *)
(* drops the groups that another qualified group makes redundant.          *)
(***************************************************************************)
EXTENDS Groups

VARIABLES labelSet,  \* _group_id_to_label_set
          query,     \* query_label_set
          method,    \* which of the three functions
          stage,     \* "intersect", "scan", "mark" (a traversal of the LNG), "done"
          matched,   \* the query labels whose bitmap has been intersected
          cands,     \* f_pass, candidates
          scanned,   \* the candidates the scan has passed
          excluded,  \* covered, marked (candidates only), non_minimal
          visited,   \* visited[] of sorted_lng, shared by its traversals
          queue,     \* q of sorted_lng
          minIds     \* min_super_set_ids

input == <<labelSet, query, method>>
vars == <<input, stage, matched, cands, scanned, excluded, visited, queue, minIds>>

Method == {"bitmap", "sorted_lng", "tfng2"}

GroupAttrRoaring(l) == {g \in Group : l \in labelSet[g]}  \* _group_attr_roaring_inv, {} if l is absent
OutNeighbors(g) == Child(labelSet, g)                     \* _label_nav_graph->out_neighbors
LngDescendants(g) == Above(labelSet, g)                   \* _lng_descendants_rb

Init == /\ labelSet \in LabelSets(Group, Label)
        /\ query \in SUBSET Label
        /\ method \in Method
        /\ stage = "intersect"
        /\ matched = {}
        /\ cands = {}
        /\ scanned = {}
        /\ excluded = {}
        /\ visited = {}
        /\ queue = {}
        /\ minIds = {}

-----------------------------------------------------------------------------

Meet(l) == IF matched = {} THEN GroupAttrRoaring(l) ELSE cands \cap GroupAttrRoaring(l)

\* One label of the query.  An absent label or an empty meet ends the search;
\* the bitmaps are intersected in the order of the labels, here in any order.
intersect(l) ==
    /\ stage = "intersect"
    /\ l \in query \ matched
    /\ matched' = matched \cup {l}
    /\ cands' = Meet(l)
    /\ stage' = IF Meet(l) = {} THEN "done" ELSE "intersect"
    /\ UNCHANGED <<input, scanned, excluded, visited, queue, minIds>>

\* Only tfng2 takes an empty query for all groups.
endIntersect ==
    /\ stage = "intersect"
    /\ matched = query
    /\ cands' = IF query = {} /\ method = "tfng2" THEN Group ELSE cands
    /\ stage' = "scan"
    /\ UNCHANGED <<input, matched, scanned, excluded, visited, queue, minIds>>

\* Mutant: only the children of candidates not yet excluded are excluded, where
\* "every group in the original C(q) must be scanned".
RedundantSkipping(g) == IF g \in excluded THEN {} ELSE
                        IF method = "bitmap" THEN LngDescendants(g) ELSE OutNeighbors(g)

Redundant(g) == IF method = "bitmap" THEN LngDescendants(g) ELSE OutNeighbors(g)

\* bitmap and tfng2: what the candidate makes redundant is added.
scanBitmap(g) ==
    /\ stage = "scan"
    /\ method \in {"bitmap", "tfng2"}
    /\ g \in cands \ scanned
    /\ scanned' = scanned \cup {g}
    /\ excluded' = excluded \cup Redundant(g)
    /\ UNCHANGED <<input, stage, matched, cands, visited, queue, minIds>>

\* The order of the candidates: by size of the label set, then by id.
Before(g, h) == \/ Cardinality(labelSet[g]) < Cardinality(labelSet[h])
                \/ Cardinality(labelSet[g]) = Cardinality(labelSet[h]) /\ g < h

\* sorted_lng: a marked candidate is passed; any other is an answer, and the
\* groups above it are marked by a traversal of the LNG.
scanSorted(g) ==
    /\ stage = "scan"
    /\ method = "sorted_lng"
    /\ g \in cands \ scanned
    /\ \A h \in cands \ scanned : h # g => Before(g, h)
    /\ scanned' = scanned \cup {g}
    /\ IF g \in excluded
       THEN UNCHANGED <<stage, visited, queue, minIds>>
       ELSE /\ minIds' = minIds \cup {g}
            /\ stage' = "mark"
            /\ visited' = visited \cup {g}
            /\ queue' = {g} \ visited
    /\ UNCHANGED <<input, matched, cands, excluded>>

\* Mutant: the traversal stops at the children of the answer.
FreshOutOneLevel(c) == IF c \in minIds THEN OutNeighbors(c) ELSE {}

FreshOut(c) == OutNeighbors(c) \ visited

mark(c) ==
    /\ stage = "mark"
    /\ c \in queue
    /\ excluded' = IF c \in cands THEN excluded \cup {c} ELSE excluded
    /\ visited' = visited \cup FreshOut(c)
    /\ queue' = (queue \ {c}) \cup FreshOut(c)
    /\ UNCHANGED <<input, stage, matched, cands, scanned, minIds>>

endMark ==
    /\ stage = "mark"
    /\ queue = {}
    /\ stage' = "scan"
    /\ UNCHANGED <<input, matched, cands, scanned, excluded, visited, queue, minIds>>

endScan ==
    /\ stage = "scan"
    /\ scanned = cands
    /\ stage' = "done"
    /\ minIds' = IF method = "sorted_lng" THEN minIds ELSE cands \ excluded
    /\ UNCHANGED <<input, matched, cands, scanned, excluded, visited, queue>>

Next == \/ \E l \in Label : intersect(l)
        \/ endIntersect
        \/ \E g \in Group : scanBitmap(g) \/ scanSorted(g) \/ mark(g)
        \/ endMark
        \/ endScan

Spec == Init /\ [][Next]_vars

-----------------------------------------------------------------------------

\* The functions that answer an empty query with the minimal groups.
Complete == query # {} \/ method = "tfng2"

TypeOK == /\ labelSet \in LabelSets(Group, Label)
          /\ query \subseteq Label
          /\ method \in Method
          /\ stage \in {"intersect", "scan", "mark", "done"}
          /\ matched \subseteq query
          /\ cands \subseteq Group
          /\ scanned \subseteq cands
          /\ excluded \subseteq Group
          /\ visited \subseteq Group
          /\ queue \subseteq visited
          /\ minIds \subseteq cands

(***************************************************************************)
(* Exact ELS: each of the three functions returns the minimal groups among *)
(* those that carry every label of the query.                              *)
(***************************************************************************)
ExactEntryGroups ==
    stage = "done" /\ Complete => minIds = Minimal(labelSet, Qualified(labelSet, query))

(***************************************************************************)
(* "A shared visited array ensures each LNG node/edge is expanded at most  *)
(* once per query", and sharing it between the traversals loses no mark:   *)
(* between two traversals the marked candidates are exactly those at or    *)
(* above an answer.                                                        *)
(***************************************************************************)
MarksAreShared ==
    stage = "scan" /\ method = "sorted_lng" =>
        excluded = {c \in cands : \E m \in minIds : labelSet[m] \subseteq labelSet[c]}

(***************************************************************************)
(* What sorted_lng has already selected is never taken back: every answer  *)
(* is minimal from the moment it is selected.                              *)
(***************************************************************************)
SelectedIsMinimal == minIds \subseteq Minimal(labelSet, cands)

-----------------------------------------------------------------------------
\* The inductive invariant behind the two properties, in named parts.

IntersectInv ==
    stage = "intersect" =>
        /\ cands = IF matched = {} THEN {} ELSE Qualified(labelSet, matched)
        /\ scanned = {} /\ excluded = {} /\ visited = {} /\ minIds = {}

CandsInv ==
    stage # "intersect" => cands = IF Complete THEN Qualified(labelSet, query) ELSE {}

\* bitmap and tfng2 have excluded exactly what the scanned candidates cover.
ExcludeInv ==
    method # "sorted_lng" =>
        /\ excluded = UNION {Redundant(g) : g \in scanned}
        /\ stage # "mark"
        /\ stage # "done" => minIds = {}

\* The traversals of the LNG: all visited groups are above an answer, and one
\* that has left the queue has its children visited and itself marked.
MarkInv ==
    method = "sorted_lng" =>
        /\ stage # "mark" => queue = {}
        /\ excluded \subseteq visited \cap cands
        /\ minIds \subseteq visited \cap scanned
        /\ \A v \in visited : \E m \in minIds : labelSet[m] \subseteq labelSet[v]
        /\ \A v \in visited \ queue : /\ OutNeighbors(v) \subseteq visited
                                      /\ v \in cands => v \in excluded

\* The scan by size: what is passed precedes what is left, and is above an answer.
ScanInv ==
    method = "sorted_lng" =>
        /\ \A g \in scanned, h \in cands \ scanned : Before(g, h)
        /\ \A g \in scanned : \E m \in minIds : labelSet[m] \subseteq labelSet[g]

IInv == /\ TypeOK
        /\ IntersectInv
        /\ CandsInv
        /\ ExcludeInv
        /\ MarkInv
        /\ ScanInv
        /\ SelectedIsMinimal
        /\ ExactEntryGroups
=============================================================================
