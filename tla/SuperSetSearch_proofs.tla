------------------------ MODULE SuperSetSearch_proofs ------------------------
(***************************************************************************)
(* The trie, the groups and the super sets found in it, for any number of  *)
(* vectors and labels: the places that describe a group agree, the         *)
(* renumbering keeps every vector in its group, and each of the four       *)
(* traversals leads to exactly the minimal super sets.                     *)
(***************************************************************************)
EXTENDS SuperSetSearch, Order_proofs, SequenceTheorems

-----------------------------------------------------------------------------
\* The invariant of the index while it is built.

\* What the steps below need of the types.
DivisionTyped ==
    /\ labelsOf \in [Vec -> SUBSET Label]
    /\ built \in {"divide", "ready"}
    /\ next \in 0 .. NumPoints
    /\ Terminals = {labelsOf[v] : v \in 0 .. next - 1}
    /\ groupVecs \in Seq(Seq(0 .. next - 1))
    /\ groupLabels \in Seq(SUBSET Label)
    /\ groupIdOf \in [Terminals -> 1 .. NumGroups]
    /\ groupSizeOf \in [Terminals -> Nat]

\* The nodes are those on the paths to the terminals, each registered under its
\* own label.
TrieInv ==
    /\ nodes = {{}} \cup UNION {Path(t) : t \in Terminals}
    /\ \A l \in DOMAIN labelToNodes : labelToNodes[l] = {n \in nodes \ {{}} : LastLabel(n) = l}
    /\ \A n \in nodes \ {{}} : Indexed(LastLabel(n))

\* No vector is listed twice.
ListsInv ==
    \A g \in 1 .. NumGroups : \A i, j \in DOMAIN groupVecs[g] :
        groupVecs[g][i] = groupVecs[g][j] => i = j

IndexInv == DivisionTyped /\ TrieInv /\ GroupsAgree /\ ListsInv

-----------------------------------------------------------------------------
\* The invariant of a search.

\* A query is only asked of the finished index, and for the graph only for a
\* group's own labels.
AskInv ==
    /\ stage \in {"idle", "start", "search", "filter", "done", "thrown"}
    /\ method \in Method
    /\ query \subseteq QueryLabel
    /\ stage # "idle" => built = "ready" /\ (AvoidSelf => query \in Terminals /\ ~skipFilter)

\* The labels matched so far are on the node, those still to match beyond it.
ItemInv(item) ==
    /\ item \in [node : nodes, rest : SUBSET query]
    /\ query \ item.rest \subseteq item.node
    /\ \A x \in item.node, y \in item.rest : x < y
    /\ method \in {"build", "shortcut"} => item.rest = {}

\* Every candidate qualifies, and every minimal super set is a candidate or
\* under a node of the queue.
SearchInv ==
    /\ stage \in {"idle", "start"} => frontier = {} /\ cands = {}
    /\ \A item \in frontier : ItemInv(item)
    /\ cands \subseteq SuperSets
    /\ stage = "search" /\ Complete =>
          \A g \in MinimalOf(SuperSets) :
              g \in cands \/ \E item \in frontier : Below(item.node, g)
    /\ stage \in {"filter", "done"} /\ Complete => MinimalOf(SuperSets) \subseteq cands

\* The filter has looked at the smaller candidates and kept the minimal ones.
FilterInv ==
    /\ stage \in {"idle", "start", "search"} => minIds = {}
    /\ stage = "filter" =>
          /\ ~skipFilter
          /\ unscanned \subseteq cands /\ unscanned # {}
          /\ \A c \in cands \ unscanned, d \in unscanned : Cardinality(c) <= Cardinality(d)
          /\ minIds = MinimalOf(cands) \ unscanned
    /\ stage = "done" => minIds = IF skipFilter THEN cands ELSE MinimalOf(cands)

IInv == IndexInv /\ AskInv /\ SearchInv /\ FilterInv

-----------------------------------------------------------------------------
\* Labels and paths.

\* A non-empty finite set of labels has a last one.
LEMMA LastOfSet ==
    ASSUME NEW S, S \subseteq Nat, IsFiniteSet(S), S # {}
    PROVE  Max(S) \in S /\ \A y \in S : y <= Max(S)
<1>1. PICK j \in S : \A k \in S : k <= j
  BY GreatestNat
<1>2. \A k \in S : j >= k
  BY <1>1
<1>3. Max(S) \in S /\ \A y \in S : Max(S) >= y
  BY <1>2, Zenon DEF Max
<1>4. \A y \in S : y <= Max(S)
  BY <1>3
<1>5. QED
  BY <1>3, <1>4

\* And a first one.
LEMMA FirstOfSet ==
    ASSUME NEW S, S \subseteq Nat, S # {}
    PROVE  Min(S) \in S /\ \A y \in S : Min(S) <= y
<1>1. PICK k \in S : \A j \in S : k =< j
  BY LeastNat
<1>2. QED
  BY <1>1, Zenon DEF Min

\* The last label of a node is all one needs to know of it.
LEMMA LastIsUnique ==
    ASSUME NEW S, S \subseteq Nat, NEW l \in S, \A y \in S : y <= l
    PROVE  Max(S) = l
<1>1. Max(S) \in S /\ \A y \in S : Max(S) >= y
  <2>1. \A y \in S : l >= y
    OBVIOUS
  <2>2. QED
    BY <2>1, Zenon DEF Max
<1>2. Max(S) >= l /\ l >= Max(S) /\ Max(S) \in Nat /\ l \in Nat
  BY <1>1
<1>3. QED
  BY <1>2

\* Label sets are finite sets of naturals.
LEMMA LabelsAreNumbers == ASSUME NEW S, S \subseteq Label PROVE S \subseteq Nat /\ IsFiniteSet(S)
BY LabelAssumption, FS_Subset

\* A label set has one node on its path for each of its labels.
LEMMA PathNode ==
    ASSUME NEW m, m \subseteq Label, NEW l \in m
    PROVE  /\ AncestorUpTo(m, l) \in Path(m)
           /\ AncestorUpTo(m, l) \subseteq m
           /\ l \in AncestorUpTo(m, l)
           /\ LastLabel(AncestorUpTo(m, l)) = l
<1> DEFINE n == AncestorUpTo(m, l)
<1>1. l \in Nat /\ n \subseteq m /\ n \subseteq Nat /\ l \in n /\ \A y \in n : y <= l
  BY LabelsAreNumbers DEF AncestorUpTo
<1>2. n \in Path(m)
  BY DEF Path
<1> HIDE DEF n
<1>3. Max(n) = l
  BY <1>1, LastIsUnique
<1>4. QED
  BY <1>1, <1>2, <1>3 DEF n, LastLabel

\* A node lies on the path to m if and only if m is at or under it.
LEMMA OnPath ==
    ASSUME NEW m, m \subseteq Label, NEW n, n # {}
    PROVE  n \in Path(m) <=> n \subseteq m /\ n \subseteq Label /\ Below(n, m)
<1>1. ASSUME n \in Path(m) PROVE n \subseteq m /\ n \subseteq Label /\ Below(n, m)
  <2>1. PICK l \in m : n = AncestorUpTo(m, l)
    BY <1>1 DEF Path
  <2>2. n \subseteq m /\ LastLabel(n) = l
    BY <2>1, PathNode
  <2>3. QED
    BY <2>1, <2>2 DEF Below
<1>2. ASSUME n \subseteq m, n \subseteq Label, Below(n, m) PROVE n \in Path(m)
  <2>1. AncestorUpTo(m, LastLabel(n)) = n
    BY <1>2 DEF Below
  <2>2. LastLabel(n) \in n
    BY <1>2, LabelsAreNumbers, LastOfSet DEF LastLabel
  <2>3. QED
    BY <1>2, <2>1, <2>2 DEF Path
<1>3. QED
  BY <1>1, <1>2

\* What is under a node has its labels.
LEMMA UnderHasLabels == ASSUME NEW n, NEW m, Below(n, m) PROVE n \subseteq m
BY DEF Below

\* The terminals are label sets, and the nodes are on the paths to them.
LEMMA TrieFacts ==
    ASSUME DivisionTyped, TrieInv
    PROVE  /\ Terminals \subseteq SUBSET Label
           /\ Terminals \subseteq nodes /\ {} \in nodes
           /\ \A t \in Terminals : Path(t) \subseteq nodes
           /\ \A n \in nodes : n \subseteq Label
           /\ \A n \in nodes \ {{}} : LastLabel(n) \in n /\ \A y \in n : y <= LastLabel(n)
<1>1. Terminals \subseteq SUBSET Label
  BY NumPointsAssumption DEF DivisionTyped, Vec
<1>2. {} \in nodes /\ \A t \in Terminals : Path(t) \subseteq nodes
  BY DEF TrieInv
<1>3. \A n \in nodes : n \subseteq Label
  BY <1>1 DEF TrieInv, Path, AncestorUpTo
<1>4. ASSUME NEW t \in Terminals, t # {} PROVE t \in nodes
  <2>1. t \subseteq Label /\ t \subseteq Nat /\ IsFiniteSet(t)
    BY <1>1, LabelsAreNumbers
  <2>2. Max(t) \in t /\ \A y \in t : y <= Max(t)
    BY <1>4, <2>1, LastOfSet
  <2>3. AncestorUpTo(t, Max(t)) = t
    BY <2>2 DEF AncestorUpTo
  <2>4. QED
    BY <1>2, <2>2, <2>3 DEF Path
<1>5. ASSUME NEW n \in nodes \ {{}} PROVE LastLabel(n) \in n /\ \A y \in n : y <= LastLabel(n)
  BY <1>3, <1>5, LabelsAreNumbers, LastOfSet DEF LastLabel
<1>6. QED
  BY <1>1, <1>2, <1>3, <1>4, <1>5

\* A child adds one label, beyond those of its parent.
LEMMA ChildNode ==
    ASSUME DivisionTyped, TrieInv, NEW n, NEW c \in Children(n)
    PROVE  /\ c \in nodes /\ c # {} /\ c \subseteq Nat
           /\ c = n \cup {LastLabel(c)}
           /\ \A x \in n : x < LastLabel(c)
<1>1. c \in nodes \ {{}} /\ n = c \ {LastLabel(c)}
  BY DEF Children, Parent
<1>2. c \subseteq Nat /\ LastLabel(c) \in c /\ \A y \in c : y <= LastLabel(c)
  BY <1>1, TrieFacts, LabelsAreNumbers
<1>3. ASSUME NEW x \in n PROVE x < LastLabel(c)
  <2>1. x \in c /\ x # LastLabel(c) /\ x <= LastLabel(c)
    BY <1>1, <1>2
  <2>2. x \in Nat /\ LastLabel(c) \in Nat
    BY <1>2, <2>1
  <2>3. QED
    BY <2>1, <2>2
<1>4. c = n \cup {LastLabel(c)}
  BY <1>1, <1>2
<1>5. QED
  BY <1>1, <1>2, <1>3, <1>4

(***************************************************************************)
(* From a node above a terminal, one child leads on: the one with the      *)
(* terminal's first label beyond the node.                                 *)
(***************************************************************************)
LEMMA NextOnPath ==
    ASSUME DivisionTyped, TrieInv, NEW n \in nodes, NEW g \in Terminals, Below(n, g), n # g
    PROVE  \E c \in Children(n) : /\ Below(c, g)
                                  /\ LastLabel(c) \in g \ n
                                  /\ \A y \in g \ n : LastLabel(c) <= y
<1>1. n \subseteq g /\ g \subseteq Label /\ g \subseteq Nat /\ n \subseteq Label
  BY UnderHasLabels, TrieFacts, LabelsAreNumbers
<1>2. PICK x \in g \ n : \A y \in g \ n : x <= y
  <2>1. g \ n # {} /\ g \ n \subseteq Nat
    BY <1>1
  <2>2. QED
    BY <2>1, LeastNat
<1> DEFINE c == AncestorUpTo(g, x)
<1>3. c \in Path(g) /\ LastLabel(c) = x /\ x \in c /\ c \subseteq g
  BY <1>1, PathNode
<1>4. c \in nodes \ {{}} /\ Below(c, g)
  BY <1>1, <1>3, OnPath, TrieFacts
<1>5. \A y \in n : y < x
  <2>1. SUFFICES ASSUME NEW y \in n PROVE y < x
    OBVIOUS
  <2>2. n # {} /\ LastLabel(n) \in n /\ y <= LastLabel(n) /\ LastLabel(n) \in Nat
    BY <1>1, <2>1, TrieFacts
  <2>3. AncestorUpTo(g, LastLabel(n)) = n
    BY <2>2 DEF Below
  <2>4. ~(x <= LastLabel(n))
    BY <1>2, <2>3 DEF AncestorUpTo
  <2>5. x \in Nat /\ y \in Nat
    BY <1>1, <1>2
  <2>6. QED
    BY <2>2, <2>4, <2>5
<1>6. c \ {x} = n
  <2>1. \A y \in c : y \in g /\ y <= x
    BY DEF AncestorUpTo
  <2>2. \A y \in n : y \in c
    BY <1>1, <1>2, <1>5 DEF AncestorUpTo
  <2>3. ASSUME NEW y \in c, y # x PROVE y \in n
    <3>1. y \in Nat /\ x \in Nat /\ y <= x /\ y \in g
      BY <1>1, <1>2, <2>1, <2>3
    <3>2. QED
      BY <1>2, <2>3, <3>1
  <2>4. QED
    BY <1>2, <2>2, <2>3
<1> HIDE DEF c
<1>7. c \in Children(n)
  BY <1>3, <1>4, <1>6 DEF Children, Parent
<1>8. QED
  BY <1>2, <1>3, <1>4, <1>7

-----------------------------------------------------------------------------
\* Building the index.

\* What Append does to a list without repetitions.
LEMMA Appended ==
    ASSUME NEW n \in Nat, NEW s \in Seq(0 .. n - 1),
           \A i, j \in DOMAIN s : s[i] = s[j] => i = j
    PROVE  /\ Append(s, n) \in Seq(0 .. n)
           /\ Len(Append(s, n)) = Len(s) + 1
           /\ ToSet(Append(s, n)) = ToSet(s) \cup {n}
           /\ \A i, j \in DOMAIN Append(s, n) : Append(s, n)[i] = Append(s, n)[j] => i = j
<1>1. s \in Seq(0 .. n) /\ n \in 0 .. n
  BY SeqMonotonic, 0 .. n - 1 \subseteq 0 .. n
<1> DEFINE a == Append(s, n)
<1>2. /\ a \in Seq(0 .. n) /\ Len(a) = Len(s) + 1
      /\ \A i \in 1 .. Len(s) : a[i] = s[i]
      /\ a[Len(s) + 1] = n
  BY <1>1, AppendProperties
<1>3. /\ Len(s) \in Nat /\ DOMAIN s = 1 .. Len(s) /\ DOMAIN a = 1 .. Len(s) + 1
      /\ \A i \in 1 .. Len(s) : s[i] \in 0 .. n - 1
  BY <1>1, <1>2, LenProperties, ElementOfSeq
<1> HIDE DEF a
<1>4. \A i \in 1 .. Len(s) + 1 : i \in 1 .. Len(s) \/ i = Len(s) + 1
  BY <1>3
<1>5. ToSet(a) = ToSet(s) \cup {n}
  <2>1. \A i \in 1 .. Len(s) + 1 : a[i] \in ToSet(s) \cup {n}
    BY <1>2, <1>3, <1>4 DEF ToSet
  <2>2. \A i \in 1 .. Len(s) : i \in 1 .. Len(s) + 1 /\ s[i] = a[i]
    BY <1>2, <1>3
  <2>3. Len(s) + 1 \in 1 .. Len(s) + 1
    BY <1>3
  <2>4. ToSet(a) \subseteq ToSet(s) \cup {n}
    BY <1>3, <2>1 DEF ToSet
  <2>5. ToSet(s) \subseteq ToSet(a) /\ n \in ToSet(a)
    BY <1>2, <1>3, <2>2, <2>3 DEF ToSet
  <2>6. QED
    BY <2>4, <2>5
<1>6. ASSUME NEW i \in DOMAIN a, NEW j \in DOMAIN a, a[i] = a[j] PROVE i = j
  <2>1. \A k \in 1 .. Len(s) : a[k] \in 0 .. n - 1 /\ a[k] # n
    BY <1>2, <1>3
  <2>2. CASE i \in 1 .. Len(s) /\ j \in 1 .. Len(s)
    BY <1>2, <1>3, <1>6, <2>2
  <2>3. CASE i = Len(s) + 1 \/ j = Len(s) + 1
    BY <1>2, <1>3, <1>4, <1>6, <2>1, <2>3
  <2>4. QED
    BY <1>3, <1>4, <1>6, <2>2, <2>3
<1>7. QED
  BY <1>2, <1>5, <1>6 DEF a

\* The empty index is an index of no vectors.
LEMMA IndexInit == InitTrie => IndexInv
<1> SUFFICES ASSUME InitTrie PROVE IndexInv
  OBVIOUS
<1>1. /\ groupVecs \in Seq(Seq({})) /\ groupLabels \in Seq(SUBSET Label)
      /\ Len(groupVecs) = 0 /\ Len(groupLabels) = 0
  BY EmptySeq DEF InitTrie
<1>2. 1 .. 0 = {} /\ next = 0 /\ 0 .. next - 1 = {}
  BY DEF InitTrie
<1>3. Terminals = {} /\ DOMAIN labelToNodes = {} /\ DOMAIN groupSizeOf = {}
  <2>1. <<>> \in Seq({}) /\ Len(<<>>) = 0
    BY EmptySeq
  <2>2. DOMAIN <<>> = {}
    BY <1>2, <2>1, LenProperties
  <2>3. QED
    BY <2>2 DEF InitTrie, Terminals
<1>4. groupIdOf \in [Terminals -> 1 .. NumGroups] /\ groupSizeOf \in [Terminals -> Nat]
  <2>1. groupIdOf = [t \in {} |-> 1] /\ groupSizeOf = [t \in {} |-> 1]
    BY <1>3 DEF InitTrie, Terminals
  <2>2. QED
    BY <1>3, <2>1
<1>5. DivisionTyped
  BY <1>1, <1>2, <1>3, <1>4, NumPointsAssumption DEF InitTrie, DivisionTyped
<1>6. TrieInv /\ ListsInv /\ GroupsAgree
  BY <1>1, <1>2, <1>3 DEF InitTrie, TrieInv, ListsInv, GroupsAgree, NumGroups
<1>7. QED
  BY <1>5, <1>6 DEF IndexInv

\* Inserting a vector with known labels adds it to the list of its group.
LEMMA InsertKnown ==
    ASSUME IndexInv, divideNext, IsKnown(labelsOf[next])
    PROVE  /\ DivisionTyped' /\ GroupsAgree' /\ ListsInv'
           /\ UNCHANGED <<groupIdOf, nodes, labelToNodes>>
<1> DEFINE ls == labelsOf[next]
           id == groupIdOf[ls]
<1> USE NumPointsAssumption
<1>1. /\ next \in Vec /\ next \in Nat /\ next' = next + 1 /\ next' \in 0 .. NumPoints
      /\ UNCHANGED <<labelsOf, built, groupIdOf>>
      /\ ls \in Terminals /\ id \in 1 .. NumGroups /\ NumGroups \in Nat
  BY LenProperties DEF divideNext, insert, IsKnown, IndexInv, DivisionTyped, Vec, NumGroups
<1>2. /\ groupVecs' = [groupVecs EXCEPT ![id] = Append(@, next)]
      /\ UNCHANGED groupLabels
  BY <1>1 DEF divideNext
<1>3. UNCHANGED <<nodes, labelToNodes>>
  <2>1. Path(ls) \subseteq nodes
    BY <1>1, TrieFacts DEF IndexInv
  <2>2. QED
    BY <2>1 DEF divideNext, insert
<1>4. /\ groupVecs \in Seq(Seq(0 .. next - 1)) /\ Len(groupVecs) = NumGroups
      /\ groupVecs[id] \in Seq(0 .. next - 1)
  BY <1>1, ElementOfSeq DEF IndexInv, DivisionTyped, NumGroups
<1> DEFINE a == Append(groupVecs[id], next)
<1>5. /\ a \in Seq(0 .. next) /\ Len(a) = Len(groupVecs[id]) + 1
      /\ ToSet(a) = ToSet(groupVecs[id]) \cup {next}
      /\ \A i, j \in DOMAIN a : a[i] = a[j] => i = j
  BY <1>1, <1>4, Appended DEF IndexInv, ListsInv
<1>6. groupVecs \in Seq(Seq(0 .. next))
  BY <1>1, <1>4, SeqMonotonic, 0 .. next - 1 \subseteq 0 .. next,
     Seq(0 .. next - 1) \subseteq Seq(0 .. next)
<1>7. /\ groupVecs' \in Seq(Seq(0 .. next)) /\ Len(groupVecs') = NumGroups
      /\ groupVecs'[id] = a
      /\ \A g \in 1 .. NumGroups : g # id => groupVecs'[g] = groupVecs[g]
  BY <1>1, <1>2, <1>4, <1>5, <1>6, ExceptSeq
<1>8. /\ groupSizeOf' = [groupSizeOf EXCEPT ![ls] = @ + 1]
      /\ groupSizeOf' \in [Terminals -> Nat]
      /\ groupSizeOf \in [Terminals -> Nat]
  BY <1>1 DEF divideNext, insert, IsKnown, IndexInv, DivisionTyped
<1> HIDE DEF a
<1>9. Terminals' = {labelsOf[v] : v \in 0 .. next} /\ Terminals' = Terminals
  <2>1. 0 .. next = 0 .. next - 1 \cup {next}
    BY <1>1
  <2>2. Terminals' = Terminals
    BY <1>1 DEF Terminals
  <2>3. QED
    BY <1>1, <2>1, <2>2 DEF IndexInv, DivisionTyped
<1>10. DivisionTyped'
  <2>1. next' - 1 = next
    BY <1>1
  <2>2. Terminals' = {labelsOf'[v] : v \in 0 .. next' - 1}
    BY <1>1, <1>9, <2>1
  <2>3. groupVecs' \in Seq(Seq(0 .. next' - 1)) /\ NumGroups' = NumGroups
    BY <1>7, <2>1 DEF NumGroups
  <2>4. /\ groupIdOf' \in [Terminals' -> 1 .. NumGroups'] /\ groupSizeOf' \in [Terminals' -> Nat]
        /\ groupLabels' \in Seq(SUBSET Label)
    BY <1>1, <1>2, <1>8, <1>9, <2>3 DEF IndexInv, DivisionTyped
  <2>5. QED
    BY <1>1, <2>2, <2>3, <2>4 DEF IndexInv, DivisionTyped
<1>11. GroupsAgree'
  <2>1. /\ Len(groupLabels) = NumGroups
        /\ {groupIdOf[t] : t \in Terminals} = 1 .. NumGroups
        /\ \A t \in Terminals : /\ groupLabels[groupIdOf[t]] = t
                                /\ Len(groupVecs[groupIdOf[t]]) = groupSizeOf[t]
                                /\ groupIdOf[t] \in 1 .. NumGroups
        /\ \A v \in 0 .. next - 1 :
              {g \in 1 .. NumGroups : v \in ToSet(groupVecs[g])} = {groupIdOf[labelsOf[v]]}
    BY DEF IndexInv, GroupsAgree, DivisionTyped
  <2>2. NumGroups' = NumGroups
    BY <1>7 DEF NumGroups
  <2>3. ASSUME NEW t \in Terminals PROVE Len(groupVecs'[groupIdOf[t]]) = groupSizeOf'[t]
    <3>1. CASE t = ls
      BY <1>1, <1>5, <1>7, <1>8, <2>1, <3>1
    <3>2. CASE t # ls
      <4>1. groupIdOf[t] # id
        BY <1>1, <2>1, <3>2
      <4>2. QED
        BY <1>7, <1>8, <2>1, <3>2, <4>1
    <3>3. QED
      BY <3>1, <3>2
  <2>4. ASSUME NEW g \in 1 .. NumGroups
        PROVE  ToSet(groupVecs'[g]) = ToSet(groupVecs[g]) \cup (IF g = id THEN {next} ELSE {})
    BY <1>5, <1>7
  <2>5. ASSUME NEW g \in 1 .. NumGroups PROVE next \notin ToSet(groupVecs[g])
    <3>1. groupVecs[g] \in Seq(0 .. next - 1)
      BY <1>4, ElementOfSeq
    <3>2. \A i \in DOMAIN groupVecs[g] : groupVecs[g][i] \in 0 .. next - 1
      BY <3>1, LenProperties, ElementOfSeq
    <3>3. QED
      BY <1>1, <3>2 DEF ToSet
  <2>6. ASSUME NEW v \in 0 .. next
        PROVE  {g \in 1 .. NumGroups : v \in ToSet(groupVecs'[g])} = {groupIdOf[labelsOf[v]]}
    <3>1. CASE v = next
      BY <1>1, <2>4, <2>5, <3>1
    <3>2. CASE v # next
      <4>1. v \in 0 .. next - 1
        BY <1>1, <3>2
      <4>2. \A g \in 1 .. NumGroups : v \in ToSet(groupVecs'[g]) <=> v \in ToSet(groupVecs[g])
        BY <2>4, <3>2
      <4>3. QED
        BY <2>1, <4>1, <4>2
    <3>3. QED
      BY <3>1, <3>2
  <2>7. next' - 1 = next
    BY <1>1
  <2>8. \A v \in 0 .. next' - 1 :
           {g \in 1 .. NumGroups' : v \in ToSet(groupVecs'[g])} = {groupIdOf'[labelsOf'[v]]}
    BY <1>1, <2>2, <2>6, <2>7
  <2>9. /\ Len(groupLabels') = NumGroups'
        /\ {groupIdOf'[t] : t \in Terminals'} = 1 .. NumGroups'
        /\ \A t \in Terminals' : /\ groupLabels'[groupIdOf'[t]] = t
                                 /\ Len(groupVecs'[groupIdOf'[t]]) = groupSizeOf'[t]
    BY <1>1, <1>2, <1>9, <2>1, <2>2, <2>3
  <2>10. QED
    BY <2>8, <2>9 DEF GroupsAgree
<1>12. ListsInv'
  <2>1. NumGroups' = NumGroups
    BY <1>7 DEF NumGroups
  <2>2. QED
    BY <1>5, <1>7, <2>1 DEF IndexInv, ListsInv
<1>13. QED
  BY <1>1, <1>3, <1>10, <1>11, <1>12

\* Inserting a vector with new labels opens a group, with the next id.
LEMMA InsertNew ==
    ASSUME IndexInv, divideNext, ~IsKnown(labelsOf[next])
    PROVE  DivisionTyped' /\ GroupsAgree' /\ ListsInv'
<1> DEFINE ls == labelsOf[next]
           id == NumGroups + 1
<1> USE NumPointsAssumption
<1>1. /\ next \in Vec /\ next \in Nat /\ next' = next + 1 /\ next' \in 0 .. NumPoints
      /\ UNCHANGED <<labelsOf, built>>
      /\ ls \notin Terminals /\ ls \subseteq Label /\ NumGroups \in Nat
  BY LenProperties DEF divideNext, insert, IsKnown, IndexInv, DivisionTyped, Vec, NumGroups
<1>2. /\ groupIdOf' = [t \in Terminals \cup {ls} |-> IF t = ls THEN id ELSE groupIdOf[t]]
      /\ groupSizeOf' = [t \in Terminals \cup {ls} |-> IF t = ls THEN 1 ELSE groupSizeOf[t]]
      /\ Terminals' = Terminals \cup {ls}
  BY DEF divideNext, insert, Terminals
<1>3. /\ groupVecs' = Append(groupVecs, <<next>>)
      /\ groupLabels' = Append(groupLabels, ls)
  <2>1. groupIdOf'[ls] = id /\ id > NumGroups
    BY <1>1, <1>2
  <2>2. QED
    BY <2>1 DEF divideNext
<1>4. /\ groupVecs \in Seq(Seq(0 .. next - 1)) /\ Len(groupVecs) = NumGroups
      /\ groupLabels \in Seq(SUBSET Label) /\ Len(groupLabels) = NumGroups
      /\ groupIdOf \in [Terminals -> 1 .. NumGroups] /\ groupSizeOf \in [Terminals -> Nat]
      /\ Terminals = {labelsOf[v] : v \in 0 .. next - 1}
  BY DEF IndexInv, DivisionTyped, GroupsAgree, NumGroups
<1>5. /\ <<next>> \in Seq(0 .. next) /\ Len(<<next>>) = 1 /\ ToSet(<<next>>) = {next}
      /\ \A i, j \in DOMAIN <<next>> : <<next>>[i] = <<next>>[j] => i = j
  BY <1>1 DEF ToSet
<1>6. groupVecs \in Seq(Seq(0 .. next))
  BY <1>1, <1>4, SeqMonotonic, 0 .. next - 1 \subseteq 0 .. next,
     Seq(0 .. next - 1) \subseteq Seq(0 .. next)
<1>7. /\ groupVecs' \in Seq(Seq(0 .. next)) /\ Len(groupVecs') = id
      /\ groupVecs'[id] = <<next>>
      /\ \A g \in 1 .. NumGroups : groupVecs'[g] = groupVecs[g]
  BY <1>3, <1>4, <1>5, <1>6, AppendProperties
<1>8. /\ groupLabels' \in Seq(SUBSET Label) /\ Len(groupLabels') = id
      /\ groupLabels'[id] = ls
      /\ \A g \in 1 .. NumGroups : groupLabels'[g] = groupLabels[g]
  BY <1>1, <1>3, <1>4, AppendProperties
<1>9. NumGroups' = id /\ next' - 1 = next /\ 1 .. id = 1 .. NumGroups \cup {id}
      /\ 0 .. next = 0 .. next - 1 \cup {next}
  BY <1>1, <1>7 DEF NumGroups
<1>10. DivisionTyped'
  <2>1. Terminals' = {labelsOf'[v] : v \in 0 .. next' - 1}
    BY <1>1, <1>2, <1>4, <1>9
  <2>2. groupIdOf' \in [Terminals' -> 1 .. NumGroups'] /\ groupSizeOf' \in [Terminals' -> Nat]
    BY <1>1, <1>2, <1>4, <1>9
  <2>3. QED
    BY <1>1, <1>7, <1>8, <1>9, <2>1, <2>2 DEF IndexInv, DivisionTyped
<1>11. GroupsAgree'
  <2>1. /\ {groupIdOf[t] : t \in Terminals} = 1 .. NumGroups
        /\ \A t \in Terminals : /\ groupLabels[groupIdOf[t]] = t
                                /\ Len(groupVecs[groupIdOf[t]]) = groupSizeOf[t]
                                /\ groupIdOf[t] \in 1 .. NumGroups
        /\ \A v \in 0 .. next - 1 :
              {g \in 1 .. NumGroups : v \in ToSet(groupVecs[g])} = {groupIdOf[labelsOf[v]]}
    BY <1>4 DEF IndexInv, GroupsAgree
  <2>2. \A t \in Terminals : groupIdOf'[t] = groupIdOf[t] /\ groupSizeOf'[t] = groupSizeOf[t]
    BY <1>1, <1>2
  <2>3. groupIdOf'[ls] = id /\ groupSizeOf'[ls] = 1
    BY <1>2
  <2>4. {groupIdOf'[t] : t \in Terminals'} = 1 .. NumGroups'
    <3>1. {groupIdOf'[t] : t \in Terminals'} = {groupIdOf'[t] : t \in Terminals} \cup {groupIdOf'[ls]}
      BY <1>2
    <3>2. {groupIdOf'[t] : t \in Terminals} = {groupIdOf[t] : t \in Terminals}
      BY <2>2
    <3>3. QED
      BY <1>9, <2>1, <2>3, <3>1, <3>2
  <2>5. ASSUME NEW t \in Terminals'
        PROVE  groupLabels'[groupIdOf'[t]] = t /\ Len(groupVecs'[groupIdOf'[t]]) = groupSizeOf'[t]
    <3>1. CASE t = ls
      BY <1>5, <1>7, <1>8, <2>3, <3>1
    <3>2. CASE t \in Terminals
      BY <1>7, <1>8, <2>1, <2>2, <3>2
    <3>3. QED
      BY <1>2, <3>1, <3>2
  <2>6. ASSUME NEW g \in 1 .. NumGroups PROVE next \notin ToSet(groupVecs[g])
    <3>1. groupVecs[g] \in Seq(0 .. next - 1)
      BY <1>4, ElementOfSeq
    <3>2. \A i \in DOMAIN groupVecs[g] : groupVecs[g][i] \in 0 .. next - 1
      BY <3>1, LenProperties, ElementOfSeq
    <3>3. QED
      BY <1>1, <3>2 DEF ToSet
  <2>7. ASSUME NEW v \in 0 .. next
        PROVE  {g \in 1 .. id : v \in ToSet(groupVecs'[g])} = {groupIdOf'[labelsOf[v]]}
    <3>1. CASE v = next
      <4>1. \A g \in 1 .. id : next \in ToSet(groupVecs'[g]) <=> g = id
        <5>1. \A g \in 1 .. NumGroups : g # id /\ next \notin ToSet(groupVecs'[g])
          BY <1>1, <1>7, <2>6
        <5>2. next \in ToSet(groupVecs'[id])
          BY <1>5, <1>7
        <5>3. QED
          BY <1>9, <5>1, <5>2
      <4>2. id \in 1 .. id
        BY <1>1
      <4>3. QED
        BY <2>3, <3>1, <4>1, <4>2
    <3>2. CASE v # next
      <4>1. v \in 0 .. next - 1 /\ labelsOf[v] \in Terminals
        BY <1>4, <1>9, <3>2
      <4>2. v \notin ToSet(groupVecs'[id])
        BY <1>5, <1>7, <3>2
      <4>3. \A g \in 1 .. NumGroups : v \in ToSet(groupVecs'[g]) <=> v \in ToSet(groupVecs[g])
        BY <1>7
      <4>4. QED
        BY <1>9, <2>1, <2>2, <4>1, <4>2, <4>3
    <3>3. QED
      BY <3>1, <3>2
  <2>8. \A v \in 0 .. next' - 1 :
           {g \in 1 .. NumGroups' : v \in ToSet(groupVecs'[g])} = {groupIdOf'[labelsOf'[v]]}
    BY <1>1, <1>9, <2>7
  <2>9. QED
    BY <1>8, <1>9, <2>4, <2>5, <2>8 DEF GroupsAgree
<1>12. ListsInv'
  BY <1>5, <1>7, <1>9 DEF IndexInv, ListsInv
<1>13. QED
  BY <1>10, <1>11, <1>12

\* Either way the nodes on the vector's path are registered under their labels.
LEMMA InsertInTrie == ASSUME IndexInv, divideNext PROVE TrieInv'
<1> DEFINE ls == labelsOf[next]
           created == Path(ls) \ nodes
<1>1. /\ ls \subseteq Label /\ ls \subseteq Nat /\ IsFiniteSet(ls)
      /\ nodes' = nodes \cup created
      /\ labelToNodes' = IF created = {} THEN labelToNodes ELSE ExtendIndex(created, ls)
  <2>1. ls \subseteq Label
    BY NumPointsAssumption DEF IndexInv, DivisionTyped, divideNext, Vec
  <2>2. QED
    BY <2>1, LabelsAreNumbers DEF divideNext, insert
<1>2. Terminals' = Terminals \cup {ls}
  BY DEF divideNext, insert, IsKnown, Terminals
<1>3. /\ nodes = {{}} \cup UNION {Path(t) : t \in Terminals}
      /\ \A l \in DOMAIN labelToNodes : labelToNodes[l] = {n \in nodes \ {{}} : LastLabel(n) = l}
      /\ \A n \in nodes \ {{}} : LastLabel(n) \in DOMAIN labelToNodes
  BY DEF IndexInv, TrieInv, Indexed
<1>4. nodes' = {{}} \cup UNION {Path(t) : t \in Terminals'}
  BY <1>1, <1>2, <1>3
<1>5. ASSUME NEW n \in created
      PROVE  /\ n # {} /\ n \subseteq ls /\ LastLabel(n) \in n /\ n \notin nodes
             /\ n \in Path(ls)
  <2>1. PICK l \in ls : n = AncestorUpTo(ls, l)
    BY <1>5 DEF Path
  <2>2. QED
    BY <1>1, <1>5, <2>1, PathNode
<1> HIDE DEF created
<1>6. CASE created = {}
  BY <1>1, <1>3, <1>4, <1>6 DEF TrieInv, Indexed
<1>7. CASE created # {}
  <2> DEFINE top == Max(UNION created)
             D == DOMAIN labelToNodes \cup 0 .. top
  <2>1. top \in Nat /\ \A n \in created : LastLabel(n) <= top /\ LastLabel(n) \in Nat
    <3>1. UNION created \subseteq ls /\ UNION created # {}
      BY <1>5, <1>7
    <3>2. UNION created \subseteq Nat /\ IsFiniteSet(UNION created)
      BY <1>1, <3>1, FS_Subset
    <3>3. top \in UNION created /\ \A y \in UNION created : y <= top
      BY <3>1, <3>2, LastOfSet
    <3>4. QED
      BY <1>5, <3>2, <3>3
  <2>2. /\ DOMAIN labelToNodes' = D
        /\ \A l \in D : labelToNodes'[l] = (IF l \in DOMAIN labelToNodes THEN labelToNodes[l] ELSE {})
                                             \cup {n \in created : LastLabel(n) = l}
    BY <1>1, <1>7 DEF ExtendIndex
  <2> HIDE DEF D
  <2>3. ASSUME NEW n \in created PROVE LastLabel(n) \in D
    <3>1. top \in Nat /\ LastLabel(n) \in Nat /\ LastLabel(n) <= top
      BY <2>1
    <3> HIDE DEF top
    <3>2. LastLabel(n) \in 0 .. top
      BY <3>1
    <3>3. QED
      BY <3>2 DEF D
  <2>4. DOMAIN labelToNodes \subseteq D
    BY DEF D
  <2>5. ASSUME NEW l \in D
        PROVE  labelToNodes'[l] = {n \in nodes' \ {{}} : LastLabel(n) = l}
    <3>1. {n \in nodes' \ {{}} : LastLabel(n) = l}
             = {n \in nodes \ {{}} : LastLabel(n) = l} \cup {n \in created : LastLabel(n) = l}
      BY <1>1, <1>5
    <3>2. (IF l \in DOMAIN labelToNodes THEN labelToNodes[l] ELSE {})
             = {n \in nodes \ {{}} : LastLabel(n) = l}
      BY <1>3
    <3>3. QED
      BY <2>2, <3>1, <3>2
  <2>6. \A n \in nodes' \ {{}} : LastLabel(n) \in D
    BY <1>1, <1>3, <2>3, <2>4
  <2>7. QED
    BY <1>4, <2>2, <2>5, <2>6 DEF TrieInv, Indexed, LastLabel
<1>8. QED
  BY <1>6, <1>7

(***************************************************************************)
(* Every step of the build keeps the places that describe a group in step. *)
(***************************************************************************)
LEMMA IndexNext == ASSUME IndexInv, NextTrie PROVE IndexInv'
<1>1. CASE divideNext
  BY <1>1, InsertKnown, InsertNew, InsertInTrie DEF IndexInv
<1>2. CASE prepareGroups
  <2>1. /\ UNCHANGED <<labelsOf, next, nodes, groupIdOf, groupSizeOf, labelToNodes>>
        /\ UNCHANGED <<groupVecs, groupLabels>> /\ built' = "ready"
    BY <1>2 DEF prepareGroups, trie, division
  <2>2. DivisionTyped'
    BY <2>1 DEF IndexInv, DivisionTyped, NumGroups, Terminals
  <2>3. TrieInv'
    BY <2>1 DEF IndexInv, TrieInv, Terminals, Indexed
  <2>4. GroupsAgree' /\ ListsInv'
    BY <2>1 DEF IndexInv, GroupsAgree, ListsInv, NumGroups, Terminals
  <2>5. QED
    BY <2>2, <2>3, <2>4 DEF IndexInv
<1>3. QED
  BY <1>1, <1>2 DEF NextTrie

-----------------------------------------------------------------------------
\* Searching the finished index.

\* A search changes neither the index nor what is asked of it.
LEMMA InputStays ==
    ASSUME UNCHANGED input
    PROVE  /\ IndexInv => IndexInv'
           /\ SuperSets' = SuperSets
           /\ Complete' = Complete
           /\ AvoidSelf' = AvoidSelf
           /\ \A item : ItemInv(item)' <=> ItemInv(item)
           /\ UNCHANGED <<Terminals, built, nodes, query, method, skipFilter>>
<1>1. UNCHANGED <<labelsOf, built, next, nodes, groupIdOf, groupSizeOf, labelToNodes,
                  groupVecs, groupLabels, query, method, skipFilter>>
  BY DEF input, trieVars, trie, division, order
<1>2. Terminals' = Terminals /\ NumGroups' = NumGroups
  BY <1>1 DEF Terminals, NumGroups
<1>3. DivisionTyped => DivisionTyped'
  BY <1>1, <1>2 DEF DivisionTyped
<1>4. TrieInv => TrieInv'
  BY <1>1, <1>2 DEF TrieInv, Indexed
<1>5. (GroupsAgree => GroupsAgree') /\ (ListsInv => ListsInv')
  BY <1>1, <1>2 DEF GroupsAgree, ListsInv
<1>6. /\ SuperSets' = SuperSets /\ Complete' = Complete /\ AvoidSelf' = AvoidSelf
      /\ \A item : ItemInv(item)' <=> ItemInv(item)
  BY <1>1, <1>2 DEF SuperSets, Complete, AvoidSelf, ItemInv
<1>7. QED
  BY <1>1, <1>2, <1>3, <1>4, <1>5, <1>6 DEF IndexInv

\* Below any group of a set there is a minimal one.
LEMMA MinimalBelow ==
    ASSUME IndexInv, NEW S, S \subseteq Terminals, NEW g \in S
    PROVE  \E m \in MinimalOf(S) : m \subseteq g
<1> DEFINE F == {h \in S : h \subseteq g}
<1>1. F \subseteq SUBSET Label /\ g \in F
  BY TrieFacts DEF IndexInv
<1> HIDE DEF F
<1>2. PICK m \in F : \A h \in F : h \subseteq m => h = m
  <2>1. IsFiniteSet(Label) /\ F # {}
    BY <1>1, LabelAssumption
  <2>2. QED
    BY <1>1, <2>1, MinimalMember
<1>3. m \in S /\ m \subseteq g /\ \A h \in S : h \subseteq m => h = m
  BY <1>2 DEF F
<1>4. QED
  BY <1>3 DEF MinimalOf

\* A query has a last label and a first one, if it has any.
LEMMA QueryLabels ==
    ASSUME AskInv, query # {}
    PROVE  /\ query \subseteq Nat
           /\ LastLabel(query) \in query /\ \A y \in query : y <= LastLabel(query)
           /\ Min(query) \in query /\ \A y \in query : Min(query) <= y
<1>1. query \subseteq Nat /\ IsFiniteSet(query)
  BY QueryLabelAssumption, FS_Subset DEF AskInv
<1>2. QED
  BY <1>1, LastOfSet, FirstOfSet DEF LastLabel

(***************************************************************************)
(* The nodes of the last label that pass examine_containment are those     *)
(* whose path has all labels of the query, and they cover the super sets.  *)
(***************************************************************************)
LEMMA ShortcutCovers ==
    ASSUME IndexInv, AskInv, query # {}, Indexed(LastLabel(query))
    PROVE  /\ \A item \in ShortcutStart : item.node \in nodes /\ query \subseteq item.node /\ item.rest = {}
           /\ \A g \in SuperSets : \E item \in ShortcutStart : Below(item.node, g)
<1> DEFINE L == LastLabel(query)
<1>1. query \subseteq Nat /\ L \in query /\ \A y \in query : y <= L
  BY QueryLabels
<1>2. labelToNodes[L] = {n \in nodes \ {{}} : LastLabel(n) = L}
  BY DEF IndexInv, TrieInv, Indexed
<1>3. ShortcutStart = Item({n \in labelToNodes[L] : examine_containment(n)}, {})
  BY DEF ShortcutStart
<1> HIDE DEF L
<1>4. ASSUME NEW n \in labelToNodes[L], examine_containment(n) PROVE query \subseteq n
  <2> SUFFICES ASSUME NEW l \in query, l # L PROVE l \in n
    <3>1. L \in n
      BY <1>2, TrieFacts DEF IndexInv
    <3>2. QED
      BY <3>1
  <2> DEFINE cur == AncestorUpTo(Parent(n), l)
  <2>1. cur # {} /\ LastLabel(cur) = l
    BY <1>4 DEF examine_containment, L
  <2>2. cur \subseteq n /\ n \subseteq Label
    BY <1>2, TrieFacts DEF AncestorUpTo, Parent, IndexInv
  <2>3. cur \subseteq Nat /\ IsFiniteSet(cur)
    BY <2>2, LabelsAreNumbers
  <2> HIDE DEF cur
  <2>4. LastLabel(cur) \in cur
    BY <2>1, <2>3, LastOfSet DEF LastLabel
  <2>5. QED
    BY <2>1, <2>2, <2>4
<1>5. ASSUME NEW g \in SuperSets PROVE \E n \in labelToNodes[L] : examine_containment(n) /\ Below(n, g)
  <2> DEFINE n == AncestorUpTo(g, L)
  <2>1. g \in Terminals /\ query \subseteq g /\ g \subseteq Label /\ g \subseteq Nat
    BY TrieFacts, LabelsAreNumbers DEF SuperSets, IndexInv
  <2>2. n \in Path(g) /\ n \subseteq g /\ L \in n /\ LastLabel(n) = L
    BY <1>1, <2>1, PathNode
  <2>3. n \in labelToNodes[L]
    BY <1>2, <2>1, <2>2, TrieFacts DEF IndexInv
  <2>4. Below(n, g)
    BY <2>1, <2>2, OnPath
  <2>5. ASSUME NEW l \in query \ {L}
        PROVE  AncestorUpTo(Parent(n), l) # {} /\ LastLabel(AncestorUpTo(Parent(n), l)) = l
    <3> DEFINE cur == AncestorUpTo(Parent(n), l)
    <3>1. l \in n /\ l \in Nat
      BY <1>1, <2>1, <2>5 DEF AncestorUpTo
    <3> HIDE DEF n
    <3>2. l \in cur /\ cur \subseteq n /\ \A y \in cur : y <= l
      BY <2>2, <2>5, <3>1 DEF AncestorUpTo, Parent
    <3>21. cur \subseteq Nat
      BY <2>1, <2>2, <3>2
    <3> HIDE DEF cur
    <3>3. Max(cur) = l
      BY <3>2, <3>21, LastIsUnique
    <3>4. QED
      BY <3>2, <3>3 DEF LastLabel, cur
  <2> HIDE DEF n
  <2>6. examine_containment(n)
    BY <2>5 DEF examine_containment, L
  <2>7. QED
    BY <2>3, <2>4, <2>6
<1>6. \A item \in ShortcutStart : item.node \in nodes /\ query \subseteq item.node /\ item.rest = {}
  BY <1>2, <1>3, <1>4 DEF Item
<1>7. ASSUME NEW g \in SuperSets PROVE \E item \in ShortcutStart : Below(item.node, g)
  <2>1. PICK n \in labelToNodes[L] : examine_containment(n) /\ Below(n, g)
    BY <1>5
  <2>2. [node |-> n, rest |-> {}] \in ShortcutStart
    BY <1>3, <2>1 DEF Item
  <2>3. QED
    BY <2>1, <2>2
<1>8. QED
  BY <1>6, <1>7

\* The nodes of the first label, with the others still to match.
LEMMA MoreStartCovers ==
    ASSUME IndexInv, AskInv, query # {}
    PROVE  /\ \A item \in MoreStart : /\ item.node \in nodes
                                      /\ item.rest = query \ {Min(query)}
                                      /\ Min(query) \in item.node
                                      /\ \A x \in item.node, y \in item.rest : x < y
           /\ \A g \in SuperSets : \E item \in MoreStart : Below(item.node, g)
<1> DEFINE l == Min(query)
<1>1. query \subseteq Nat /\ l \in query /\ \A y \in query : l <= y
  BY QueryLabels
<1>2. MoreStart = IF ~Indexed(l) THEN {} ELSE Item(labelToNodes[l], query \ {l})
  BY DEF MoreStart
<1>3. Indexed(l) => labelToNodes[l] = {n \in nodes \ {{}} : LastLabel(n) = l}
  BY DEF IndexInv, TrieInv, Indexed
<1> HIDE DEF l
<1>4. ASSUME NEW item \in MoreStart
      PROVE  /\ item.node \in nodes \ {{}} /\ LastLabel(item.node) = l
             /\ item.rest = query \ {l}
  BY <1>2, <1>3, <1>4 DEF Item
<1>5. ASSUME NEW item \in MoreStart, NEW x \in item.node, NEW y \in item.rest PROVE x < y
  <2>1. x <= l /\ x \in Nat
    BY <1>4, TrieFacts, LabelsAreNumbers DEF IndexInv
  <2>2. l <= y /\ y # l /\ y \in Nat /\ l \in Nat
    BY <1>1, <1>4
  <2>3. QED
    BY <2>1, <2>2
<1>6. ASSUME NEW g \in SuperSets PROVE \E item \in MoreStart : Below(item.node, g)
  <2> DEFINE n == AncestorUpTo(g, l)
  <2>1. g \in Terminals /\ query \subseteq g /\ g \subseteq Label
    BY TrieFacts DEF SuperSets, IndexInv
  <2>2. n \in Path(g) /\ n \subseteq g /\ l \in n /\ LastLabel(n) = l
    BY <1>1, <2>1, PathNode
  <2>3. n \in nodes \ {{}} /\ Below(n, g)
    BY <2>1, <2>2, OnPath, TrieFacts DEF IndexInv
  <2> HIDE DEF n
  <2>4. Indexed(l) /\ n \in labelToNodes[l]
    BY <1>3, <2>2, <2>3 DEF IndexInv, TrieInv
  <2>5. [node |-> n, rest |-> query \ {l}] \in MoreStart
    BY <1>2, <2>4 DEF Item
  <2>6. QED
    BY <2>3, <2>5
<1>7. QED
  <2>1. \A item \in MoreStart : l \in item.node
    BY <1>4, TrieFacts DEF IndexInv
  <2>2. QED
    BY <1>4, <1>5, <1>6, <2>1 DEF l

(***************************************************************************)
(* The queue a search starts with covers every super set, whatever the     *)
(* traversal, if the traversal takes the query for a filter all pass when  *)
(* it is empty.                                                            *)
(***************************************************************************)
LEMMA StartCovers ==
    ASSUME IndexInv, AskInv, stage = "start", ~Throws
    PROVE  /\ \A item \in Start : ItemInv(item)
           /\ Complete => \A g \in SuperSets : \E item \in Start : Below(item.node, g)
<1>1. CASE method \in {"build", "shortcut"} /\ query # {}
  <2>1. Indexed(LastLabel(query))
    <3>1. CASE method = "build"
      <4>1. query \in nodes \ {{}}
        BY <1>1, <3>1, TrieFacts DEF AskInv, AvoidSelf, IndexInv
      <4>2. QED
        BY <4>1 DEF IndexInv, TrieInv
    <3>2. CASE method = "shortcut"
      BY <1>1, <3>2 DEF Throws
    <3>3. QED
      BY <1>1, <3>1, <3>2
  <2>2. Start = ShortcutStart
    BY <1>1 DEF Start
  <2>3. ASSUME NEW item \in ShortcutStart PROVE ItemInv(item)
    <3>1. item.node \in nodes /\ query \subseteq item.node /\ item.rest = {}
      BY <1>1, <2>1, ShortcutCovers
    <3>2. item = [node |-> item.node, rest |-> item.rest]
      BY <1>1 DEF ShortcutStart, Item
    <3>3. QED
      BY <3>1, <3>2 DEF ItemInv
  <2>4. QED
    BY <1>1, <2>1, <2>2, <2>3, ShortcutCovers
<1>2. CASE method \in {"build", "shortcut"} /\ query = {}
  <2>1. Start = Item(Children({}), {})
    BY <1>2 DEF Start, ShortcutStart
  <2>2. ASSUME NEW item \in Start PROVE ItemInv(item)
    BY <1>2, <2>1 DEF Item, Children, ItemInv
  <2>3. ASSUME Complete, NEW g \in SuperSets PROVE \E item \in Start : Below(item.node, g)
    <3>1. method = "build" /\ g # {} /\ g \in Terminals /\ {} \in nodes
      BY <1>2, <2>3, TrieFacts DEF Complete, SuperSets, AvoidSelf, IndexInv
    <3>2. Below({}, g)
      BY DEF Below
    <3>3. PICK c \in Children({}) : Below(c, g)
      BY <3>1, <3>2, NextOnPath DEF IndexInv
    <3>4. [node |-> c, rest |-> {}] \in Start
      BY <2>1 DEF Item
    <3>5. QED
      BY <3>3, <3>4
  <2>4. QED
    BY <2>2, <2>3
<1>3. CASE method = "topdown"
  <2>1. Start = Item({{}}, query)
    BY <1>3 DEF Start
  <2>2. ASSUME NEW item \in Start PROVE ItemInv(item)
    <3>1. item = [node |-> {}, rest |-> query] /\ {} \in nodes
      BY <2>1, TrieFacts DEF Item, IndexInv
    <3>2. QED
      BY <1>3, <3>1 DEF ItemInv
  <2>3. [node |-> {}, rest |-> query] \in Start
    BY <2>1 DEF Item
  <2>4. QED
    BY <2>2, <2>3 DEF Below
<1>4. CASE method = "morestart" /\ query # {}
  <2>1. Start = MoreStart
    BY <1>4 DEF Start
  <2>2. ASSUME NEW item \in MoreStart PROVE ItemInv(item)
    <3>1. /\ item.node \in nodes /\ item.rest = query \ {Min(query)} /\ Min(query) \in item.node
          /\ \A x \in item.node, y \in item.rest : x < y
      BY <1>4, MoreStartCovers
    <3>2. item = [node |-> item.node, rest |-> item.rest]
      BY <1>4 DEF MoreStart, Item
    <3>3. item.rest \subseteq query /\ query \ item.rest \subseteq item.node
      BY <3>1
    <3>4. QED
      BY <1>4, <3>1, <3>2, <3>3 DEF ItemInv
  <2>3. QED
    BY <1>4, <2>1, <2>2, MoreStartCovers
<1>5. CASE method = "morestart" /\ query = {}
  BY <1>5 DEF Start, MoreStart, Complete
<1>6. QED
  BY <1>1, <1>2, <1>3, <1>4, <1>5 DEF AskInv, Method

\* Building the index goes on only before the first query.
LEMMA BuildIndexStep == ASSUME IInv, buildIndex PROVE IInv'
<1>1. /\ NextTrie /\ stage = "idle"
      /\ UNCHANGED <<query, method, skipFilter, stage, frontier, cands, unscanned, minIds>>
  BY DEF IInv, AskInv, buildIndex, NextTrie, divideNext, prepareGroups
<1>2. IndexInv'
  BY <1>1, IndexNext DEF IInv
<1>3. AskInv' /\ FilterInv'
  BY <1>1 DEF IInv, AskInv, FilterInv
<1>4. SearchInv'
  BY <1>1 DEF IInv, SearchInv
<1>5. QED
  BY <1>2, <1>3, <1>4 DEF IInv

\* Asking.
LEMMA AskStep ==
    ASSUME IInv, NEW q \in SUBSET QueryLabel, NEW m \in Method, NEW skip \in BOOLEAN, ask(q, m, skip)
    PROVE  IInv'
<1>1. /\ stage = "idle" /\ built = "ready" /\ stage' = "start"
      /\ query' = q /\ method' = m /\ skipFilter' = skip
      /\ m = "build" => q \in Terminals /\ ~skip
      /\ frontier = {} /\ cands = {} /\ minIds = {}
      /\ UNCHANGED <<labelsOf, built, next, nodes, groupIdOf, groupSizeOf, labelToNodes,
                     groupVecs, groupLabels, frontier, cands, unscanned, minIds>>
  BY DEF ask, trieVars, trie, division, order, IInv, SearchInv, FilterInv
<1>2. Terminals' = Terminals /\ NumGroups' = NumGroups
  BY <1>1 DEF Terminals, NumGroups
<1>3. IndexInv'
  <2>1. DivisionTyped'
    BY <1>1, <1>2 DEF IInv, IndexInv, DivisionTyped
  <2>2. TrieInv'
    BY <1>1, <1>2 DEF IInv, IndexInv, TrieInv, Indexed
  <2>3. GroupsAgree' /\ ListsInv'
    BY <1>1, <1>2 DEF IInv, IndexInv, GroupsAgree, ListsInv
  <2>4. QED
    BY <2>1, <2>2, <2>3 DEF IndexInv
<1>4. AskInv'
  BY <1>1, <1>2 DEF AskInv, AvoidSelf
<1>5. SearchInv' /\ FilterInv'
  BY <1>1 DEF SearchInv, FilterInv
<1>6. QED
  BY <1>3, <1>4, <1>5 DEF IInv

\* Filling the queue.
LEMMA StartStep == ASSUME IInv, start PROVE IInv'
<1>1. /\ stage = "start" /\ UNCHANGED <<input, cands, unscanned, minIds>>
      /\ frontier = {} /\ cands = {} /\ minIds = {}
  BY DEF start, IInv, SearchInv, FilterInv
<1>2. /\ IndexInv' /\ SuperSets' = SuperSets /\ Complete' = Complete /\ AvoidSelf' = AvoidSelf
      /\ \A item : ItemInv(item)' <=> ItemInv(item)
      /\ UNCHANGED <<Terminals, built, nodes, query, method, skipFilter>>
  BY <1>1, InputStays DEF IInv
<1>3. stage' \in {"thrown", "search"}
  BY DEF start
<1>4. AskInv'
  BY <1>1, <1>2, <1>3 DEF IInv, AskInv
<1>5. FilterInv'
  BY <1>1, <1>3 DEF FilterInv
<1>6. SearchInv'
  <2>1. CASE Throws
    BY <1>1, <1>2, <2>1 DEF start, IInv, SearchInv
  <2>2. CASE ~Throws
    <3>1. frontier' = Start /\ stage' = "search"
      BY <2>2 DEF start
    <3>2. \A item \in Start : ItemInv(item)
      BY <1>1, <2>2, StartCovers DEF IInv
    <3>3. ASSUME Complete, NEW g \in MinimalOf(SuperSets)
          PROVE  \E item \in Start : Below(item.node, g)
      BY <1>1, <2>2, <3>3, StartCovers DEF IInv, MinimalOf
    <3>4. \A item \in frontier' : ItemInv(item)'
      BY <1>2, <3>1, <3>2
    <3>5. Complete' => \A g \in MinimalOf(SuperSets)' : \E item \in frontier' : Below(item.node, g)
      BY <1>2, <3>1, <3>3 DEF MinimalOf
    <3>6. QED
      BY <1>1, <1>2, <3>1, <3>4, <3>5 DEF SearchInv
  <2>3. QED
    BY <2>1, <2>2
<1>7. QED
  BY <1>2, <1>4, <1>5, <1>6 DEF IInv

\* A label still to match leads on to the children before it, or matches one.
LEMMA DescendCovers ==
    ASSUME IndexInv, AskInv, NEW item, ItemInv(item), item.rest # {}
    PROVE  /\ \A i \in Descend(item) : ItemInv(i)
           /\ \A g \in SuperSets : Below(item.node, g) =>
                 \E i \in Descend(item) : Below(i.node, g)
<1> DEFINE r == Min(item.rest)
           Left(c) == IF LastLabel(c) = r THEN item.rest \ {r} ELSE item.rest
<1>1. /\ item.node \in nodes /\ item.rest \subseteq query /\ query \subseteq Nat
      /\ query \ item.rest \subseteq item.node
      /\ \A x \in item.node, y \in item.rest : x < y
      /\ method \notin {"build", "shortcut"}
  BY QueryLabelAssumption DEF ItemInv, AskInv
<1>2. r \in item.rest /\ r \in Nat /\ \A y \in item.rest : r <= y
  <2>1. item.rest \subseteq Nat
    BY <1>1
  <2>2. QED
    BY <2>1, FirstOfSet
<1>3. \A i : i \in Descend(item) <=>
               \E c \in Children(item.node) : LastLabel(c) <= r /\ i = [node |-> c, rest |-> Left(c)]
  BY DEF Descend, Item
<1> HIDE DEF r
<1>4. ASSUME NEW c \in Children(item.node), LastLabel(c) <= r
      PROVE  ItemInv([node |-> c, rest |-> Left(c)])
  <2> DEFINE l == LastLabel(c)
  <2>1. /\ c \in nodes /\ c \subseteq Nat /\ c = item.node \cup {l}
        /\ \A x \in item.node : x < l
    BY ChildNode DEF IndexInv
  <2>2. l \in Nat
    BY <2>1
  <2> HIDE DEF l
  <2>3. Left(c) \subseteq item.rest /\ (l = r => Left(c) = item.rest \ {r})
        /\ (l # r => Left(c) = item.rest)
    BY DEF l
  <2>4. query \ Left(c) \subseteq c
    BY <1>1, <2>1, <2>3
  <2>5. ASSUME NEW y \in Left(c) PROVE l < y
    <3>1. y \in item.rest /\ y \in Nat /\ r <= y /\ l <= r
      BY <1>1, <1>2, <1>4, <2>3 DEF l
    <3>2. l # r \/ y # r
      BY <2>3
    <3>3. QED
      BY <1>2, <2>2, <3>1, <3>2
  <2>6. \A x \in c, y \in Left(c) : x < y
    BY <1>1, <2>1, <2>3, <2>5
  <2> HIDE DEF Left
  <2>7. Left(c) \subseteq query
    BY <1>1, <2>3
  <2>8. QED
    BY <1>1, <2>1, <2>4, <2>6, <2>7 DEF ItemInv
<1>5. ASSUME NEW g \in SuperSets, Below(item.node, g)
      PROVE  \E i \in Descend(item) : Below(i.node, g)
  <2>1. g \in Terminals /\ query \subseteq g /\ r \in g
    BY <1>1, <1>2 DEF SuperSets
  <2>2. r \notin item.node
    BY <1>1, <1>2
  <2>3. PICK c \in Children(item.node) : Below(c, g) /\ \A y \in g \ item.node : LastLabel(c) <= y
    BY <1>1, <1>5, <2>1, <2>2, NextOnPath DEF IndexInv
  <2>4. LastLabel(c) <= r
    BY <2>1, <2>2, <2>3
  <2> HIDE DEF Left
  <2>5. [node |-> c, rest |-> Left(c)] \in Descend(item)
    BY <1>3, <2>4
  <2>6. QED
    BY <2>3, <2>5
<1>6. QED
  BY <1>3, <1>4, <1>5

\* A node all of whose query labels are matched: its children take its place.
LEMMA ChildrenCover ==
    ASSUME IndexInv, NEW item, ItemInv(item), item.rest = {}
    PROVE  /\ \A i \in Item(Children(item.node), {}) : ItemInv(i)
           /\ \A g \in Terminals : Below(item.node, g) /\ g # item.node =>
                 \E i \in Item(Children(item.node), {}) : Below(i.node, g)
<1>1. item.node \in nodes /\ query \subseteq item.node
  BY DEF ItemInv
<1>2. ASSUME NEW c \in Children(item.node) PROVE ItemInv([node |-> c, rest |-> {}])
  <2>1. c \in nodes /\ item.node \subseteq c
    BY ChildNode DEF IndexInv
  <2>2. QED
    BY <1>1, <2>1 DEF ItemInv
<1>3. ASSUME NEW g \in Terminals, Below(item.node, g), g # item.node
      PROVE  \E i \in Item(Children(item.node), {}) : Below(i.node, g)
  <2>1. PICK c \in Children(item.node) : Below(c, g)
    BY <1>1, <1>3, NextOnPath DEF IndexInv
  <2>2. [node |-> c, rest |-> {}] \in Item(Children(item.node), {})
    BY DEF Item
  <2>3. QED
    BY <2>1, <2>2
<1>4. QED
  BY <1>2, <1>3 DEF Item

(***************************************************************************)
(* One step of a traversal: what it adds qualifies, and every minimal      *)
(* super set under the item is found or under an item that replaces it.    *)
(***************************************************************************)
LEMMA ExpandStep == ASSUME IInv, NEW item \in frontier, expand(item) PROVE IInv'
<1>1. /\ stage = "search" /\ stage' = "search" /\ minIds = {} /\ minIds' = {}
      /\ UNCHANGED <<input, unscanned>>
      /\ ItemInv(item) /\ cands \subseteq SuperSets
      /\ \A i \in frontier : ItemInv(i)
  BY DEF expand, IInv, SearchInv, FilterInv
<1>2. /\ IndexInv' /\ SuperSets' = SuperSets /\ Complete' = Complete /\ AvoidSelf' = AvoidSelf
      /\ \A i : ItemInv(i)' <=> ItemInv(i)
      /\ UNCHANGED <<Terminals, built, nodes, query, method, skipFilter>>
  BY <1>1, InputStays DEF IInv
<1>3. AskInv' /\ FilterInv'
  BY <1>1, <1>2 DEF IInv, AskInv, FilterInv
<1>4. SUFFICES /\ \A i \in frontier' : ItemInv(i)
               /\ cands' \subseteq SuperSets
               /\ frontier \ {item} \subseteq frontier' /\ cands \subseteq cands'
               /\ \A g \in MinimalOf(SuperSets) : Below(item.node, g) =>
                     g \in cands' \/ \E i \in frontier' : Below(i.node, g)
  <2>1. Complete => \A g \in MinimalOf(SuperSets) :
                       g \in cands \/ \E i \in frontier : Below(i.node, g)
    BY <1>1 DEF IInv, SearchInv
  <2>2. Complete => \A g \in MinimalOf(SuperSets) :
                       g \in cands' \/ \E i \in frontier' : Below(i.node, g)
    BY <1>4, <2>1
  <2>3. MinimalOf(SuperSets)' = MinimalOf(SuperSets)
    BY <1>2 DEF MinimalOf
  <2>4. SearchInv'
    BY <1>1, <1>2, <1>4, <2>2, <2>3 DEF SearchInv
  <2>5. QED
    BY <1>2, <1>3, <2>4 DEF IInv
<1>5. CASE item.rest # {}
  <2>1. frontier' = (frontier \ {item}) \cup Descend(item) /\ cands' = cands
    BY <1>5 DEF expand
  <2>2. /\ \A i \in Descend(item) : ItemInv(i)
        /\ \A g \in SuperSets : Below(item.node, g) => \E i \in Descend(item) : Below(i.node, g)
    BY <1>1, <1>5, DescendCovers DEF IInv
  <2>3. \A g \in MinimalOf(SuperSets) : g \in SuperSets
    BY DEF MinimalOf
  <2>4. QED
    BY <1>1, <2>1, <2>2, <2>3
<1>6. CASE item.rest = {} /\ method \in {"build", "shortcut"}
  <2>1. visit(item)
    BY <1>6 DEF expand
  <2>2. query \subseteq item.node
    BY <1>1, <1>6 DEF ItemInv
  <2>3. CASE item.node \in Terminals /\ ~(AvoidSelf /\ item.node = query) /\ item.node \notin cands
    <3>1. cands' = cands \cup {item.node} /\ frontier' = frontier \ {item}
      BY <2>1, <2>3 DEF visit
    <3>2. item.node \in SuperSets
      BY <2>2, <2>3 DEF SuperSets
    <3>3. ASSUME NEW g \in MinimalOf(SuperSets), Below(item.node, g) PROVE g = item.node
      BY <3>2, <3>3, UnderHasLabels DEF MinimalOf
    <3>4. QED
      BY <1>1, <3>1, <3>2, <3>3
  <2>4. CASE ~(item.node \in Terminals /\ ~(AvoidSelf /\ item.node = query) /\ item.node \notin cands)
    <3>1. cands' = cands /\ frontier' = (frontier \ {item}) \cup Item(Children(item.node), {})
      BY <2>1, <2>4 DEF visit
    <3>2. /\ \A i \in Item(Children(item.node), {}) : ItemInv(i)
          /\ \A g \in Terminals : Below(item.node, g) /\ g # item.node =>
                \E i \in Item(Children(item.node), {}) : Below(i.node, g)
      BY <1>1, <1>6, ChildrenCover DEF IInv
    <3>3. \A g \in MinimalOf(SuperSets) : g \in Terminals /\ ~(AvoidSelf /\ g = query)
      BY DEF MinimalOf, SuperSets
    <3>4. QED
      BY <1>1, <2>4, <3>1, <3>2, <3>3
  <2>5. QED
    BY <2>3, <2>4
<1>7. CASE item.rest = {} /\ method \notin {"build", "shortcut"}
  <2>1. cands' = cands \cup {t \in Terminals : Below(item.node, t)} /\ frontier' = frontier \ {item}
    BY <1>7 DEF expand, collect
  <2>2. query \subseteq item.node /\ ~AvoidSelf
    BY <1>1, <1>7 DEF ItemInv, AvoidSelf
  <2>3. \A t \in Terminals : Below(item.node, t) => t \in SuperSets
    BY <2>2, UnderHasLabels DEF SuperSets
  <2>4. \A g \in MinimalOf(SuperSets) : g \in Terminals
    BY DEF MinimalOf, SuperSets
  <2>5. QED
    BY <1>1, <2>1, <2>3, <2>4
<1>8. QED
  BY <1>5, <1>6, <1>7

\* Of the groups that qualify, none may be left out of the minimal ones found.
LEMMA MinimalAlike ==
    ASSUME IndexInv, NEW S, S \subseteq Terminals,
           NEW C, C \subseteq S, MinimalOf(S) \subseteq C
    PROVE  MinimalOf(C) = MinimalOf(S)
<1>1. ASSUME NEW c \in MinimalOf(C) PROVE c \in MinimalOf(S)
  <2>1. c \in S
    BY <1>1 DEF MinimalOf
  <2>2. PICK m \in MinimalOf(S) : m \subseteq c
    BY <2>1, MinimalBelow
  <2>3. QED
    BY <1>1, <2>1, <2>2 DEF MinimalOf
<1>2. ASSUME NEW c \in MinimalOf(S) PROVE c \in MinimalOf(C)
  BY <1>2 DEF MinimalOf
<1>3. QED
  BY <1>1, <1>2

\* The groups, and so the candidates, are finitely many finite sets.
LEMMA CandidatesFinite ==
    ASSUME IInv
    PROVE  /\ cands \subseteq Terminals /\ IsFiniteSet(cands)
           /\ \A c \in cands : IsFiniteSet(c) /\ Cardinality(c) \in Nat
<1>1. cands \subseteq Terminals /\ Terminals \subseteq SUBSET Label
  BY TrieFacts DEF IInv, SearchInv, SuperSets, IndexInv
<1>2. IsFiniteSet(SUBSET Label)
  BY LabelAssumption, FS_SUBSET
<1>3. IsFiniteSet(cands)
  BY <1>1, <1>2, FS_Subset
<1>4. ASSUME NEW c \in cands PROVE IsFiniteSet(c) /\ Cardinality(c) \in Nat
  <2>1. IsFiniteSet(c)
    BY <1>1, LabelsAreNumbers
  <2>2. QED
    BY <2>1, FS_CardinalityType
<1>5. QED
  BY <1>1, <1>3, <1>4

\* The end of the traversal.
LEMMA EndSearchStep == ASSUME IInv, endSearch PROVE IInv'
<1>1. /\ stage = "search" /\ frontier = {} /\ minIds = {}
      /\ UNCHANGED <<input, frontier, cands>>
      /\ cands \subseteq SuperSets
      /\ Complete => MinimalOf(SuperSets) \subseteq cands
  BY DEF endSearch, IInv, SearchInv, FilterInv
<1>2. /\ IndexInv' /\ SuperSets' = SuperSets /\ Complete' = Complete /\ AvoidSelf' = AvoidSelf
      /\ \A i : ItemInv(i)' <=> ItemInv(i)
      /\ UNCHANGED <<Terminals, built, nodes, query, method, skipFilter>>
  BY <1>1, InputStays DEF IInv
<1>3. stage' \in {"done", "filter"} /\ MinimalOf(SuperSets)' = MinimalOf(SuperSets)
  BY <1>2 DEF endSearch, MinimalOf
<1>4. AskInv' /\ SearchInv'
  BY <1>1, <1>2, <1>3 DEF IInv, AskInv, SearchInv
<1>5. cands \subseteq Terminals /\ IsFiniteSet(cands)
  BY CandidatesFinite
<1>6. CASE Cardinality(cands) <= 1 \/ skipFilter
  <2>1. stage' = "done" /\ minIds' = cands
    BY <1>6 DEF endSearch
  <2>2. ASSUME Cardinality(cands) <= 1 PROVE MinimalOf(cands) = cands
    <3>1. Cardinality(cands) \in Nat
      BY <1>5, FS_CardinalityType
    <3>2. Cardinality(cands) = 0 \/ Cardinality(cands) = 1
      BY <2>2, <3>1
    <3>3. \A c, d \in cands : c = d
      BY <1>5, <3>2, FS_EmptySet, FS_Singleton
    <3>4. QED
      BY <3>3 DEF MinimalOf
  <2>3. FilterInv'
    BY <1>1, <1>2, <1>6, <2>1, <2>2 DEF FilterInv, MinimalOf
  <2>4. QED
    BY <1>2, <1>4, <2>3 DEF IInv
<1>7. CASE ~(Cardinality(cands) <= 1 \/ skipFilter)
  <2>1. stage' = "filter" /\ unscanned' = cands /\ minIds' = minIds
    BY <1>7 DEF endSearch
  <2>2. cands # {}
    BY <1>7, FS_EmptySet
  <2>3. {} = MinimalOf(cands) \ cands
    BY DEF MinimalOf
  <2>4. FilterInv'
    BY <1>1, <1>2, <1>7, <2>1, <2>2, <2>3 DEF FilterInv, MinimalOf
  <2>5. QED
    BY <1>2, <1>4, <2>4 DEF IInv
<1>8. QED
  BY <1>6, <1>7

(***************************************************************************)
(* The filter: looked at in the order of their sizes, a candidate is       *)
(* minimal if none of the minimal ones found before is contained in it.    *)
(***************************************************************************)
LEMMA FilterDecides ==
    ASSUME IInv, stage = "filter", NEW c \in unscanned, IsSmallest(c)
    PROVE  IsMinimal(c) <=> c \in MinimalOf(cands)
<1>1. /\ unscanned \subseteq cands /\ minIds = MinimalOf(cands) \ unscanned
      /\ \A x \in cands \ unscanned, y \in unscanned : Cardinality(x) <= Cardinality(y)
  BY DEF IInv, FilterInv
<1>2. /\ cands \subseteq Terminals /\ IsFiniteSet(cands)
      /\ \A x \in cands : IsFiniteSet(x) /\ Cardinality(x) \in Nat
  BY CandidatesFinite
<1>3. \A x \in cands : MinSize <= Cardinality(x)
  <2> DEFINE Sizes == {Cardinality(x) : x \in cands}
  <2>1. Sizes \subseteq Nat /\ Sizes # {}
    BY <1>1, <1>2
  <2> HIDE DEF Sizes
  <2>2. \A k \in Sizes : Min(Sizes) <= k
    BY <2>1, FirstOfSet
  <2>3. QED
    BY <2>2 DEF MinSize, Sizes
<1>4. MinSize \in Nat
  <2> DEFINE Sizes == {Cardinality(x) : x \in cands}
  <2>1. Sizes \subseteq Nat /\ Sizes # {}
    BY <1>1, <1>2
  <2> HIDE DEF Sizes
  <2>2. Min(Sizes) \in Sizes
    BY <2>1, FirstOfSet
  <2>3. QED
    BY <2>1, <2>2 DEF MinSize, Sizes
\* A candidate within c is c itself or a smaller one, looked at before.
<1>5. ASSUME NEW x \in cands, x \subseteq c, x # c
      PROVE  Cardinality(x) < Cardinality(c) /\ x \notin unscanned
  <2>1. Cardinality(x) <= Cardinality(c) /\ Cardinality(x) # Cardinality(c)
    BY <1>1, <1>2, <1>5, FS_Subset
  <2>2. Cardinality(x) \in Nat /\ Cardinality(c) \in Nat
    BY <1>1, <1>2
  <2>3. x \in unscanned => Cardinality(c) <= Cardinality(x)
    BY DEF IsSmallest
  <2>4. QED
    BY <2>1, <2>2, <2>3
<1>6. ASSUME IsMinimal(c), NEW x \in cands, x \subseteq c, x # c PROVE FALSE
  <2>1. PICK m \in MinimalOf(cands) : m \subseteq x
    BY <1>2, <1>6, MinimalBelow DEF IInv
  <2>2. m \in cands /\ m \subseteq c /\ m # c
    BY <1>6, <2>1 DEF MinimalOf
  <2>3. m \in minIds
    BY <1>1, <1>5, <2>1, <2>2
  <2>4. Cardinality(c) > MinSize
    <3>1. Cardinality(x) < Cardinality(c) /\ MinSize <= Cardinality(x)
      BY <1>3, <1>5, <1>6
    <3>2. Cardinality(x) \in Nat /\ Cardinality(c) \in Nat
      BY <1>1, <1>2, <1>6
    <3>3. QED
      BY <1>4, <3>1, <3>2
  <2>5. QED
    BY <1>6, <2>2, <2>3, <2>4 DEF IsMinimal
<1>7. ASSUME c \in MinimalOf(cands) PROVE IsMinimal(c)
  <2>1. \A m \in minIds : m \in cands /\ m # c
    BY <1>1 DEF MinimalOf
  <2>2. QED
    BY <1>7, <2>1 DEF MinimalOf, IsMinimal
<1>8. QED
  BY <1>1, <1>6, <1>7 DEF MinimalOf

\* Looking at the next candidate.
LEMMA FilterStep == ASSUME IInv, NEW c \in unscanned, filter(c) PROVE IInv'
<1>1. /\ stage = "filter" /\ IsSmallest(c) /\ ~skipFilter
      /\ unscanned' = unscanned \ {c}
      /\ minIds' = IF IsMinimal(c) THEN minIds \cup {c} ELSE minIds
      /\ stage' = IF unscanned = {c} THEN "done" ELSE "filter"
      /\ UNCHANGED <<input, frontier, cands>>
      /\ unscanned \subseteq cands /\ minIds = MinimalOf(cands) \ unscanned
      /\ \A x \in cands \ unscanned, y \in unscanned : Cardinality(x) <= Cardinality(y)
  BY DEF filter, IInv, FilterInv
<1>2. /\ IndexInv' /\ SuperSets' = SuperSets /\ Complete' = Complete /\ AvoidSelf' = AvoidSelf
      /\ \A i : ItemInv(i)' <=> ItemInv(i)
      /\ UNCHANGED <<Terminals, built, nodes, query, method, skipFilter>>
  BY <1>1, InputStays DEF IInv
<1>3. MinimalOf(SuperSets)' = MinimalOf(SuperSets) /\ MinimalOf(cands)' = MinimalOf(cands)
  BY <1>1, <1>2 DEF MinimalOf
<1>4. AskInv'
  BY <1>1, <1>2 DEF IInv, AskInv
<1>5. SearchInv'
  BY <1>1, <1>2, <1>3 DEF IInv, SearchInv
<1>6. minIds' = MinimalOf(cands) \ unscanned'
  BY <1>1, FilterDecides
<1>7. \A x \in cands \ unscanned', y \in unscanned' : Cardinality(x) <= Cardinality(y)
  BY <1>1 DEF IsSmallest
<1>8. FilterInv'
  <2>1. CASE unscanned = {c}
    BY <1>1, <1>2, <1>3, <1>6, <2>1 DEF FilterInv
  <2>2. CASE unscanned # {c}
    BY <1>1, <1>2, <1>3, <1>6, <1>7, <2>2 DEF FilterInv
  <2>3. QED
    BY <2>1, <2>2
<1>9. QED
  BY <1>2, <1>4, <1>5, <1>8 DEF IInv

-----------------------------------------------------------------------------
\* Of all behaviours.

LEMMA InitIInv == Init => IInv
<1> SUFFICES ASSUME Init PROVE IInv
  OBVIOUS
<1>1. IndexInv
  BY IndexInit DEF Init
<1>2. AskInv /\ SearchInv /\ FilterInv
  BY DEF Init, AskInv, Method, SearchInv, FilterInv
<1>3. QED
  BY <1>1, <1>2 DEF IInv

LEMMA NextIInv == IInv /\ [Next]_vars => IInv'
<1> SUFFICES ASSUME IInv, [Next]_vars PROVE IInv'
  OBVIOUS
<1>1. CASE Next
  BY <1>1, BuildIndexStep, AskStep, StartStep, ExpandStep, EndSearchStep, FilterStep DEF Next
<1>2. CASE UNCHANGED vars
  <2>1. UNCHANGED <<input, stage, frontier, cands, unscanned, minIds>>
    BY <1>2 DEF vars
  <2>2. /\ IndexInv' /\ SuperSets' = SuperSets /\ Complete' = Complete /\ AvoidSelf' = AvoidSelf
        /\ \A i : ItemInv(i)' <=> ItemInv(i)
        /\ UNCHANGED <<Terminals, built, nodes, query, method, skipFilter>>
    BY <2>1, InputStays DEF IInv
  <2>3. MinimalOf(SuperSets)' = MinimalOf(SuperSets) /\ MinimalOf(cands)' = MinimalOf(cands)
    BY <2>1, <2>2 DEF MinimalOf
  <2>4. AskInv'
    BY <2>1, <2>2 DEF IInv, AskInv
  <2>5. SearchInv'
    BY <2>1, <2>2, <2>3 DEF IInv, SearchInv
  <2>6. FilterInv'
    BY <2>1, <2>2, <2>3 DEF IInv, FilterInv
  <2>7. QED
    BY <2>2, <2>4, <2>5, <2>6 DEF IInv
<1>3. QED
  BY <1>1, <1>2

(***************************************************************************)
(* The inductive invariant holds of every index and every search in it.    *)
(***************************************************************************)
THEOREM Invariance == Spec => []IInv
<1>1. Init => IInv
  BY InitIInv
<1>2. IInv /\ [Next]_vars => IInv'
  BY NextIInv
<1>3. QED
  BY <1>1, <1>2, PTL DEF Spec

(***************************************************************************)
(* build_trie_and_divide_groups: after every insertion the trie and the    *)
(* lists of group vectors and label sets describe the same groups.         *)
(***************************************************************************)
THEOREM GroupsAlwaysAgree == Spec => []GroupsAgree
<1>1. IInv => GroupsAgree
  BY DEF IInv, IndexInv
<1>2. QED
  BY <1>1, Invariance, PTL

(***************************************************************************)
(* get_min_super_sets and get_min_super_sets_debug: whichever traversal    *)
(* finds the candidates, the filter leaves exactly the minimal groups that *)
(* contain the query.                                                      *)
(***************************************************************************)
THEOREM FindsMinimal == Spec => []ExactMinimal
<1>1. IInv => ExactMinimal
  <2> SUFFICES ASSUME IInv, stage = "done", ~skipFilter, Complete
               PROVE  minIds = MinimalOf(SuperSets)
    BY DEF ExactMinimal
  <2>1. /\ minIds = MinimalOf(cands) /\ cands \subseteq SuperSets
        /\ MinimalOf(SuperSets) \subseteq cands
    BY DEF IInv, FilterInv, SearchInv
  <2>2. SuperSets \subseteq Terminals
    BY DEF SuperSets
  <2>3. QED
    BY <2>1, <2>2, MinimalAlike DEF IInv
<1>2. QED
  BY <1>1, Invariance, PTL

(***************************************************************************)
(* skip_els_filter: without the filter the answer still qualifies and      *)
(* still has every minimal group.                                          *)
(***************************************************************************)
THEOREM SkipCovers == Spec => []SkipStillCovers
<1>1. IInv => SkipStillCovers
  <2> SUFFICES ASSUME IInv, stage = "done", Complete
               PROVE  minIds \subseteq SuperSets /\ MinimalOf(SuperSets) \subseteq minIds
    BY DEF SkipStillCovers
  <2>1. /\ minIds = IF skipFilter THEN cands ELSE MinimalOf(cands)
        /\ cands \subseteq SuperSets /\ MinimalOf(SuperSets) \subseteq cands
    BY DEF IInv, FilterInv, SearchInv
  <2>2. SuperSets \subseteq Terminals
    BY DEF SuperSets
  <2>3. MinimalOf(cands) = MinimalOf(SuperSets)
    BY <2>1, <2>2, MinimalAlike DEF IInv
  <2>4. QED
    BY <2>1, <2>3 DEF MinimalOf
<1>2. QED
  BY <1>1, Invariance, PTL

-----------------------------------------------------------------------------
\* The renumbering: the lists of the groups one after the other.

\* One step of FlattenSeq's recursion.
FlattenStep(f, s, i) == IF i = 1 THEN s[i] ELSE f[i - 1] \o s[i]

\* f follows it for the first n lists of s.
Flattens(f, s, n) == \A i \in 1 .. n : f[i] = FlattenStep(f, s, i)

\* The recursion of FlattenSeq is defined.
LEMMA FlattenIsDefined ==
    ASSUME NEW s, NEW n \in Nat
    PROVE  \E f : f = [i \in 1 .. n |-> FlattenStep(f, s, i)]
<1> DEFINE K == {k \in Nat : \E f : f = [i \in 1 .. k |-> FlattenStep(f, s, i)]}
<1>1. 0 \in K
  <2> DEFINE f == [i \in 1 .. 0 |-> 0]
  <2>1. f = [i \in 1 .. 0 |-> FlattenStep(f, s, i)]
    <3>1. \A i \in 1 .. 0 : 0 = FlattenStep(f, s, i)
      OBVIOUS
    <3>2. QED
      BY <3>1
  <2>2. QED
    BY <2>1
<1>2. ASSUME NEW k \in Nat, k \in K PROVE k + 1 \in K
  <2>1. PICK f : f = [i \in 1 .. k |-> FlattenStep(f, s, i)]
    BY <1>2
  <2> DEFINE g == [i \in 1 .. k + 1 |-> FlattenStep(f, s, i)]
  <2>2. \A i \in 1 .. k : g[i] = f[i]
    <3>1. \A i \in 1 .. k : i \in 1 .. k + 1
      OBVIOUS
    <3>2. \A i \in 1 .. k + 1 : g[i] = FlattenStep(f, s, i)
      OBVIOUS
    <3>3. \A i \in 1 .. k : f[i] = FlattenStep(f, s, i)
      BY <2>1
    <3> HIDE DEF g
    <3>4. QED
      BY <3>1, <3>2, <3>3
  <2>3. ASSUME NEW i \in 1 .. k + 1 PROVE FlattenStep(f, s, i) = FlattenStep(g, s, i)
    <3> HIDE DEF g
    <3>1. i # 1 => i - 1 \in 1 .. k
      OBVIOUS
    <3>2. QED
      BY <2>2, <3>1 DEF FlattenStep
  <2>4. g = [i \in 1 .. k + 1 |-> FlattenStep(g, s, i)]
    <3>1. [i \in 1 .. k + 1 |-> FlattenStep(f, s, i)] = [i \in 1 .. k + 1 |-> FlattenStep(g, s, i)]
      BY <2>3
    <3>2. QED
      BY <3>1
  <2> HIDE DEF g
  <2>5. QED
    BY <2>4
<1> HIDE DEF K
<1>3. n \in K
  BY <1>1, <1>2, SetInduction
<1>4. QED
  BY <1>3 DEF K

\* It depends only on the elements before.
LEMMA FlattenAlike ==
    ASSUME NEW s, NEW t, NEW m \in Nat, NEW n \in Nat, m <= n,
           \A i \in 1 .. m : s[i] = t[i],
           NEW f, Flattens(f, s, m),
           NEW g, Flattens(g, t, n)
    PROVE  \A i \in 1 .. m : f[i] = g[i]
<1> USE DEF Flattens
<1> DEFINE K == {k \in Nat : k \in 1 .. m => f[k] = g[k]}
<1>1. 0 \in K
  OBVIOUS
<1>2. ASSUME NEW k \in Nat, k \in K PROVE k + 1 \in K
  <2>1. SUFFICES ASSUME k + 1 \in 1 .. m PROVE f[k + 1] = g[k + 1]
    OBVIOUS
  <2>2. k + 1 \in 1 .. n /\ s[k + 1] = t[k + 1] /\ (k + 1) - 1 = k
    BY <2>1
  <2>3. k + 1 # 1 => f[k] = g[k]
    BY <1>2, <2>1
  <2>4. FlattenStep(f, s, k + 1) = FlattenStep(g, t, k + 1)
    BY <2>2, <2>3 DEF FlattenStep
  <2>5. QED
    BY <2>1, <2>2, <2>4
<1> HIDE DEF K
<1>3. \A k \in Nat : k \in K
  BY <1>1, <1>2, SetInduction
<1>4. QED
  BY <1>3 DEF K

\* FlattenSeq is the last of its recursion.
LEMMA FlattenAnswers ==
    ASSUME NEW s, NEW n \in Nat \ {0}, Len(s) = n
    PROVE  \E f : Flattens(f, s, n) /\ FlattenSeq(s) = f[n]
<1> DEFINE f == CHOOSE g : g = [i \in 1 .. Len(s) |-> FlattenStep(g, s, i)]
<1>1. f = [i \in 1 .. Len(s) |-> FlattenStep(f, s, i)]
  <2>1. \E g : g = [i \in 1 .. Len(s) |-> FlattenStep(g, s, i)]
    BY FlattenIsDefined
  <2>2. QED
    BY <2>1, Zenon
<1>2. Len(s) # 0
  OBVIOUS
<1>3. FlattenSeq(s) = f[Len(s)]
  BY <1>2, Zenon DEF FlattenSeq, FlattenStep
<1> HIDE DEF f
<1>4. Flattens(f, s, Len(s))
  BY <1>1 DEF Flattens
<1>5. QED
  BY <1>3, <1>4

\* A list more is a list appended.
LEMMA FlattenOneMore ==
    ASSUME NEW u, NEW t, NEW m \in Nat \ {0}, \A i \in 1 .. m : u[i] = t[i],
           NEW g, Flattens(g, u, m),
           NEW f, Flattens(f, t, m + 1)
    PROVE  f[m + 1] = g[m] \o t[m + 1]
<1>1. \A i \in 1 .. m : g[i] = f[i]
  <2>1. m \in Nat /\ m + 1 \in Nat /\ m <= m + 1
    OBVIOUS
  <2>2. QED
    BY <2>1, FlattenAlike
<1>2. m + 1 \in 1 .. m + 1 /\ m \in 1 .. m /\ m + 1 # 1 /\ (m + 1) - 1 = m
  OBVIOUS
<1>3. f[m + 1] = FlattenStep(f, t, m + 1)
  BY <1>2 DEF Flattens
<1>4. FlattenStep(f, t, m + 1) = f[m] \o t[m + 1]
  BY <1>2 DEF FlattenStep
<1>5. g[m] = f[m]
  BY <1>1, <1>2
<1>6. QED
  BY <1>3, <1>4, <1>5

\* Hence every group's list follows those of the groups before.
LEMMA FlattenNext ==
    ASSUME NEW D, NEW s \in Seq(Seq(D)), NEW n \in 1 .. Len(s)
    PROVE  FlattenSeq(SubSeq(s, 1, n)) = FlattenSeq(SubSeq(s, 1, n - 1)) \o s[n]
<1>1. Len(s) \in Nat /\ n \in Nat \ {0} /\ s[n] \in Seq(D)
  BY ElementOfSeq
<1> DEFINE t == SubSeq(s, 1, n)
           u == SubSeq(s, 1, n - 1)
<1>2. Len(t) = n /\ \A i \in 1 .. n : t[i] = s[i]
  <2>1. \A i \in 1 .. n : s[i] \in Seq(D)
    BY <1>1, ElementOfSeq
  <2>2. /\ Len(t) = n - 1 + 1
        /\ \A i \in 1 .. n - 1 + 1 : t[i] = s[1 + i - 1]
    BY <1>1, <2>1, SubSeqProperties
  <2>3. QED
    BY <1>1, <2>2
<1>3. Len(u) = n - 1 /\ \A i \in 1 .. n - 1 : u[i] = s[i]
  <2>1. \A i \in 1 .. n - 1 : s[i] \in Seq(D)
    BY <1>1, ElementOfSeq
  <2>2. /\ Len(u) = IF 1 <= n - 1 THEN (n - 1) - 1 + 1 ELSE 0
        /\ \A i \in 1 .. (n - 1) - 1 + 1 : u[i] = s[1 + i - 1]
    BY <1>1, <2>1, SubSeqProperties
  <2>3. QED
    BY <1>1, <2>2
<1>4. n = 1 => u = <<>>
  BY SubSeqEmpty
<1> HIDE DEF t, u
<1>5. t[n] = s[n]
  BY <1>1, <1>2
<1>6. CASE n = 1
  <2>1. FlattenSeq(u) = <<>>
    BY <1>3, <1>4, <1>6 DEF FlattenSeq
  <2>2. PICK f : Flattens(f, t, n) /\ FlattenSeq(t) = f[n]
    BY <1>1, <1>2, FlattenAnswers
  <2>3. FlattenSeq(t) = s[n]
    BY <1>5, <1>6, <2>2 DEF Flattens, FlattenStep
  <2>4. <<>> \o s[n] = s[n]
    BY <1>1, ConcatEmptySeq
  <2>5. QED
    BY <2>1, <2>3, <2>4 DEF t, u
<1>7. CASE n # 1
  <2>1. n - 1 \in Nat \ {0} /\ n = (n - 1) + 1
    BY <1>1, <1>7
  <2>2. ASSUME NEW i \in 1 .. n - 1 PROVE u[i] = t[i]
    <3>1. i \in 1 .. n
      BY <1>1
    <3>2. QED
      BY <1>2, <1>3, <3>1
  <2>3. PICK f : Flattens(f, t, (n - 1) + 1) /\ FlattenSeq(t) = f[(n - 1) + 1]
    BY <1>1, <1>2, <2>1, FlattenAnswers
  <2>4. PICK g : Flattens(g, u, n - 1) /\ FlattenSeq(u) = g[n - 1]
    BY <1>3, <2>1, FlattenAnswers
  <2>5. f[(n - 1) + 1] = g[n - 1] \o t[(n - 1) + 1]
    BY <2>1, <2>2, <2>3, <2>4, FlattenOneMore
  <2>6. QED
    BY <1>5, <2>1, <2>3, <2>4, <2>5 DEF t, u
<1>8. QED
  BY <1>6, <1>7

\* The list of group g takes the places after Ends(g - 1), up to Ends(g).
Ends(g) == Len(VecsUpTo(g))

\* Each list follows the one before.
LEMMA ListsInOrder ==
    ASSUME IndexInv
    PROVE  /\ NumGroups \in Nat
           /\ \A g \in 0 .. NumGroups : VecsUpTo(g) \in Seq(0 .. next - 1) /\ Ends(g) \in Nat
           /\ Ends(0) = 0
           /\ \A g \in 1 .. NumGroups :
                 /\ groupVecs[g] \in Seq(0 .. next - 1) /\ Len(groupVecs[g]) \in Nat
                 /\ VecsUpTo(g) = VecsUpTo(g - 1) \o groupVecs[g]
                 /\ Ends(g) = Ends(g - 1) + Len(groupVecs[g])
<1> DEFINE D == 0 .. next - 1
<1>1. groupVecs \in Seq(Seq(D)) /\ NumGroups \in Nat /\ NumGroups = Len(groupVecs)
  BY LenProperties DEF IndexInv, DivisionTyped, NumGroups
<1> HIDE DEF D
<1>2. \A g \in 1 .. NumGroups : groupVecs[g] \in Seq(D) /\ Len(groupVecs[g]) \in Nat
  <2>1. \A g \in 1 .. NumGroups : groupVecs[g] \in Seq(D)
    BY <1>1, ElementOfSeq
  <2>2. QED
    BY <2>1, LenProperties
<1>3. \A g \in 1 .. NumGroups : VecsUpTo(g) = VecsUpTo(g - 1) \o groupVecs[g]
  BY <1>1, FlattenNext DEF VecsUpTo
<1>4. VecsUpTo(0) \in Seq(D) /\ Ends(0) = 0
  <2>1. SubSeq(groupVecs, 1, 0) = <<>>
    BY SubSeqEmpty
  <2>2. <<>> \in Seq(D) /\ Len(<<>>) = 0
    BY EmptySeq
  <2>3. FlattenSeq(<<>>) = <<>>
    BY <2>2, Zenon DEF FlattenSeq
  <2>4. QED
    BY <2>1, <2>2, <2>3 DEF VecsUpTo, Ends
<1> DEFINE K == {g \in Nat : g <= NumGroups => VecsUpTo(g) \in Seq(D)}
<1>5. 0 \in K
  BY <1>4
<1>6. ASSUME NEW g \in Nat, g \in K PROVE g + 1 \in K
  <2>1. SUFFICES ASSUME g + 1 <= NumGroups PROVE VecsUpTo(g + 1) \in Seq(D)
    OBVIOUS
  <2>2. g + 1 \in 1 .. NumGroups /\ g <= NumGroups /\ (g + 1) - 1 = g
    BY <1>1, <2>1
  <2>3. VecsUpTo(g) \in Seq(D) /\ VecsUpTo(g + 1) = VecsUpTo(g) \o groupVecs[g + 1]
    BY <1>3, <1>6, <2>2
  <2>4. QED
    BY <1>2, <2>2, <2>3, ConcatProperties
<1> HIDE DEF K
<1>7. \A g \in Nat : g \in K
  BY <1>5, <1>6, SetInduction
<1>8. \A g \in 0 .. NumGroups : VecsUpTo(g) \in Seq(D) /\ Ends(g) \in Nat
  <2>1. \A g \in 0 .. NumGroups : VecsUpTo(g) \in Seq(D)
    BY <1>1, <1>7 DEF K
  <2>2. QED
    BY <2>1, LenProperties DEF Ends
<1>9. ASSUME NEW g \in 1 .. NumGroups PROVE Ends(g) = Ends(g - 1) + Len(groupVecs[g])
  <2>1. g - 1 \in 0 .. NumGroups
    BY <1>1
  <2>2. VecsUpTo(g - 1) \in Seq(D) /\ groupVecs[g] \in Seq(D)
    BY <1>2, <1>8, <2>1
  <2>3. Len(VecsUpTo(g - 1) \o groupVecs[g]) = Len(VecsUpTo(g - 1)) + Len(groupVecs[g])
    BY <2>2, ConcatProperties
  <2>4. QED
    BY <1>3, <2>3 DEF Ends
<1>10. QED
  BY <1>1, <1>2, <1>3, <1>4, <1>8, <1>9 DEF D

\* So the ends grow with the groups.
LEMMA EndsGrow ==
    ASSUME IndexInv, NEW g \in 0 .. NumGroups, NEW h \in 0 .. NumGroups, g <= h
    PROVE  Ends(g) <= Ends(h)
<1>1. /\ NumGroups \in Nat
      /\ \A k \in 0 .. NumGroups : Ends(k) \in Nat
      /\ \A k \in 1 .. NumGroups : /\ Len(groupVecs[k]) \in Nat
                                   /\ Ends(k) = Ends(k - 1) + Len(groupVecs[k])
  BY ListsInOrder
<1> DEFINE K == {k \in Nat : g <= k /\ k <= NumGroups => Ends(g) <= Ends(k)}
<1>2. 0 \in K
  <2>1. g <= 0 => g = 0
    OBVIOUS
  <2>2. QED
    BY <1>1, <2>1
<1>3. ASSUME NEW k \in Nat, k \in K PROVE k + 1 \in K
  <2>1. SUFFICES ASSUME g <= k + 1, k + 1 <= NumGroups PROVE Ends(g) <= Ends(k + 1)
    OBVIOUS
  <2>2. k + 1 \in 1 .. NumGroups /\ k \in 0 .. NumGroups /\ (k + 1) - 1 = k
    BY <1>1, <2>1
  <2>3. Ends(k) <= Ends(k + 1) /\ Ends(k) \in Nat /\ Ends(k + 1) \in Nat /\ Ends(g) \in Nat
    <3>1. Ends(k + 1) = Ends((k + 1) - 1) + Len(groupVecs[k + 1])
      BY <1>1, <2>2
    <3>2. Ends(k + 1) = Ends(k) + Len(groupVecs[k + 1]) /\ Len(groupVecs[k + 1]) \in Nat
      BY <1>1, <2>2, <3>1
    <3>3. Ends(k) \in Nat /\ Ends(g) \in Nat
      BY <1>1, <2>2
    <3>4. QED
      BY <3>2, <3>3
  <2>4. g = k + 1 \/ g <= k
    BY <2>1
  <2>5. QED
    BY <1>3, <2>2, <2>3, <2>4
<1> HIDE DEF K
<1>4. \A k \in Nat : k \in K
  BY <1>2, <1>3, SetInduction
<1>5. QED
  BY <1>1, <1>4 DEF K

\* Every place of the lists up to g is a place of one of them.
LEMMA PlaceInGroup ==
    ASSUME IndexInv, NEW h \in 0 .. NumGroups, NEW p \in 1 .. Ends(h)
    PROVE  \E g \in 1 .. h : /\ Ends(g - 1) < p /\ p <= Ends(g)
                             /\ p - Ends(g - 1) \in 1 .. Len(groupVecs[g])
                             /\ VecsUpTo(h)[p] = groupVecs[g][p - Ends(g - 1)]
<1> DEFINE In(k, q, g) == /\ Ends(g - 1) < q /\ q <= Ends(g)
                          /\ q - Ends(g - 1) \in 1 .. Len(groupVecs[g])
                          /\ VecsUpTo(k)[q] = groupVecs[g][q - Ends(g - 1)]
           K == {k \in Nat : k <= NumGroups =>
                                \A q \in 1 .. Ends(k) : \E g \in 1 .. k : In(k, q, g)}
<1>1. /\ NumGroups \in Nat
      /\ \A k \in 0 .. NumGroups : Ends(k) \in Nat /\ VecsUpTo(k) \in Seq(0 .. next - 1)
      /\ Ends(0) = 0
      /\ \A k \in 1 .. NumGroups : /\ Len(groupVecs[k]) \in Nat
                                   /\ groupVecs[k] \in Seq(0 .. next - 1)
                                   /\ VecsUpTo(k) = VecsUpTo(k - 1) \o groupVecs[k]
                                   /\ Ends(k) = Ends(k - 1) + Len(groupVecs[k])
  BY ListsInOrder
<1>2. 0 \in K
  BY <1>1
<1>3. ASSUME NEW k \in Nat, k \in K PROVE k + 1 \in K
  <2> SUFFICES ASSUME k + 1 <= NumGroups
               PROVE  \A q \in 1 .. Ends(k + 1) : \E g \in 1 .. k + 1 : In(k + 1, q, g)
    <3> HIDE DEF In
    <3>1. QED
      BY DEF K
  <2>1. SUFFICES ASSUME NEW q \in 1 .. Ends(k + 1) PROVE \E g \in 1 .. k + 1 : In(k + 1, q, g)
    <3> HIDE DEF In
    <3>1. QED
      OBVIOUS
  <2>2. k + 1 \in 1 .. NumGroups /\ k \in 0 .. NumGroups /\ (k + 1) - 1 = k /\ k <= NumGroups
    BY <1>1, <2>1
  <2>3. /\ Ends(k + 1) = Ends(k) + Len(groupVecs[k + 1])
        /\ Ends(k) \in Nat /\ Len(groupVecs[k + 1]) \in Nat
        /\ VecsUpTo(k) \in Seq(0 .. next - 1) /\ groupVecs[k + 1] \in Seq(0 .. next - 1)
        /\ VecsUpTo(k + 1) = VecsUpTo(k) \o groupVecs[k + 1]
    BY <1>1, <2>2
  <2>4. VecsUpTo(k + 1)[q] = IF q <= Ends(k) THEN VecsUpTo(k)[q]
                                             ELSE groupVecs[k + 1][q - Ends(k)]
    <3>1. q \in 1 .. Len(VecsUpTo(k)) + Len(groupVecs[k + 1])
      BY <2>1, <2>3 DEF Ends
    <3>2. QED
      BY <2>3, <3>1, ConcatProperties DEF Ends
  <2>5. CASE q <= Ends(k)
    <3>1. q \in 1 .. Ends(k)
      BY <2>1, <2>3, <2>5
    <3>2. PICK g \in 1 .. k : In(k, q, g)
      BY <1>3, <2>2, <3>1
    <3>3. In(k + 1, q, g) /\ g \in 1 .. k + 1
      BY <2>4, <2>5, <3>2
    <3> HIDE DEF In
    <3>4. QED
      BY <3>3
  <2>6. CASE ~(q <= Ends(k))
    <3>1. In(k + 1, q, k + 1)
      <4>1. q \in Nat /\ q <= Ends(k) + Len(groupVecs[k + 1]) /\ Ends(k) < q
        BY <2>1, <2>3, <2>6
      <4>2. q - Ends(k) \in 1 .. Len(groupVecs[k + 1])
        BY <2>3, <4>1
      <4>3. QED
        BY <2>2, <2>3, <2>4, <2>6, <4>1, <4>2
    <3>2. k + 1 \in 1 .. k + 1
      OBVIOUS
    <3> HIDE DEF In
    <3>3. QED
      BY <3>1, <3>2
  <2>7. QED
    BY <2>5, <2>6
<1> HIDE DEF K
<1>4. \A k \in Nat : k \in K
  BY <1>2, <1>3, SetInduction
<1>5. h \in Nat /\ h <= NumGroups
  BY <1>1
<1>6. QED
  BY <1>4, <1>5 DEF K

\* And of one only.
LEMMA PlaceInOneGroup ==
    ASSUME IndexInv, NEW g \in 1 .. NumGroups, NEW h \in 1 .. NumGroups, NEW p \in Nat,
           Ends(g - 1) < p, p <= Ends(g), Ends(h - 1) < p, p <= Ends(h)
    PROVE  g = h
<1>1. NumGroups \in Nat /\ \A k \in 0 .. NumGroups : Ends(k) \in Nat
  BY ListsInOrder
<1>2. ASSUME NEW k \in 1 .. NumGroups, NEW m \in 1 .. NumGroups, k < m
      PROVE  Ends(k) <= Ends(m - 1) /\ Ends(k) \in Nat /\ Ends(m - 1) \in Nat
  <2>1. k \in 0 .. NumGroups /\ m - 1 \in 0 .. NumGroups /\ k <= m - 1
    BY <1>1, <1>2
  <2>2. QED
    BY <1>1, <2>1, EndsGrow
<1>3. ~(g < h)
  <2>1. SUFFICES ASSUME g < h PROVE FALSE
    OBVIOUS
  <2>2. Ends(g) <= Ends(h - 1) /\ Ends(g) \in Nat /\ Ends(h - 1) \in Nat
    BY <1>2, <2>1
  <2>3. QED
    BY <2>2
<1>4. ~(h < g)
  <2>1. SUFFICES ASSUME h < g PROVE FALSE
    OBVIOUS
  <2>2. Ends(h) <= Ends(g - 1) /\ Ends(h) \in Nat /\ Ends(g - 1) \in Nat
    BY <1>2, <2>1
  <2>3. QED
    BY <2>2
<1>5. QED
  BY <1>1, <1>3, <1>4

\* Once every vector is inserted, each is in the list of its own label set only,
\* so the lists one after the other are a permutation of the vectors.
LEMMA ListsArePermutation ==
    ASSUME IndexInv, next = NumPoints
    PROVE  LET all == VecsUpTo(NumGroups)
           IN  /\ Ends(NumGroups) = NumPoints
               /\ \A p \in 1 .. NumPoints : all[p] \in Vec
               /\ \A p, q \in 1 .. NumPoints : all[p] = all[q] => p = q
               /\ \A p \in 1 .. NumPoints, g \in 1 .. NumGroups :
                     /\ all[p] \in ToSet(groupVecs[g]) <=> Ends(g - 1) < p /\ p <= Ends(g)
                     /\ all[p] \in ToSet(groupVecs[g]) => groupLabels[g] = labelsOf[all[p]]
               /\ \A p \in 1 .. NumPoints : \E g \in 1 .. NumGroups : all[p] \in ToSet(groupVecs[g])
<1> DEFINE all == VecsUpTo(NumGroups)
           At(p, g) == /\ Ends(g - 1) < p /\ p <= Ends(g)
                       /\ p - Ends(g - 1) \in 1 .. Len(groupVecs[g])
                       /\ all[p] = groupVecs[g][p - Ends(g - 1)]
           last == Ends(NumGroups)
<1>1. /\ NumGroups \in Nat /\ last \in Nat /\ all \in Seq(Vec) /\ Len(all) = last
      /\ Ends(0) = 0
      /\ \A g \in 0 .. NumGroups : Ends(g) \in Nat
      /\ \A g \in 1 .. NumGroups : /\ groupVecs[g] \in Seq(Vec) /\ Len(groupVecs[g]) \in Nat
                                   /\ DOMAIN groupVecs[g] = 1 .. Len(groupVecs[g])
                                   /\ Ends(g) = Ends(g - 1) + Len(groupVecs[g])
  <2>1. 0 .. next - 1 = Vec
    BY DEF Vec
  <2>2. NumGroups \in Nat /\ NumGroups \in 0 .. NumGroups
    BY ListsInOrder
  <2>3. \A g \in 1 .. NumGroups : groupVecs[g] \in Seq(Vec)
    BY <2>1, ListsInOrder
  <2>4. \A g \in 1 .. NumGroups : DOMAIN groupVecs[g] = 1 .. Len(groupVecs[g])
    BY <2>3, LenProperties
  <2>5. Len(all) = last
    BY DEF Ends
  <2>6. QED
    BY <2>1, <2>2, <2>3, <2>4, <2>5, ListsInOrder
<1>2. \A p \in 1 .. last : all[p] \in Vec
  BY <1>1, ElementOfSeq
<1>3. ASSUME NEW p \in 1 .. last PROVE \E g \in 1 .. NumGroups : At(p, g)
  <2>1. NumGroups \in 0 .. NumGroups
    BY <1>1
  <2>2. QED
    BY <2>1, PlaceInGroup
<1>4. ASSUME NEW v \in Vec, NEW g \in 1 .. NumGroups
      PROVE  /\ v \in ToSet(groupVecs[g]) <=> g = groupIdOf[labelsOf[v]]
             /\ v \in ToSet(groupVecs[g]) => groupLabels[g] = labelsOf[v]
  <2>1. v \in 0 .. next - 1
    BY DEF Vec
  <2>2. {k \in 1 .. NumGroups : v \in ToSet(groupVecs[k])} = {groupIdOf[labelsOf[v]]}
    BY <2>1 DEF IndexInv, GroupsAgree
  <2>3. v \in ToSet(groupVecs[g]) <=> g = groupIdOf[labelsOf[v]]
    BY <2>2
  <2>4. labelsOf[v] \in Terminals
    BY <2>1 DEF IndexInv, DivisionTyped
  <2>5. groupLabels[groupIdOf[labelsOf[v]]] = labelsOf[v]
    BY <2>4 DEF IndexInv, GroupsAgree
  <2>6. QED
    BY <2>3, <2>5
<1>5. ASSUME NEW p \in 1 .. last, NEW g \in 1 .. NumGroups, At(p, g)
      PROVE  all[p] \in ToSet(groupVecs[g])
  BY <1>1, <1>5 DEF ToSet
<1>6. ASSUME NEW p \in 1 .. last, NEW g \in 1 .. NumGroups
      PROVE  /\ all[p] \in ToSet(groupVecs[g]) <=> Ends(g - 1) < p /\ p <= Ends(g)
             /\ all[p] \in ToSet(groupVecs[g]) <=> At(p, g)
  <2>1. PICK h \in 1 .. NumGroups : At(p, h)
    BY <1>3
  <2>2. all[p] \in ToSet(groupVecs[h]) /\ all[p] \in Vec
    BY <1>2, <1>5, <2>1
  <2>3. all[p] \in ToSet(groupVecs[g]) <=> g = h
    BY <1>4, <2>2
  <2>4. Ends(g - 1) < p /\ p <= Ends(g) => g = h
    BY <2>1, PlaceInOneGroup
  <2>5. QED
    BY <2>1, <2>3, <2>4
<1>7. ASSUME NEW p \in 1 .. last, NEW q \in 1 .. last, all[p] = all[q] PROVE p = q
  <2>1. PICK g \in 1 .. NumGroups : At(p, g)
    BY <1>3
  <2>2. At(q, g)
    BY <1>5, <1>6, <1>7, <2>1
  <2>3. p - Ends(g - 1) = q - Ends(g - 1)
    BY <1>1, <1>7, <2>1, <2>2 DEF IndexInv, ListsInv
  <2>4. g - 1 \in 0 .. NumGroups /\ Ends(g - 1) \in Nat
    BY <1>1
  <2>5. QED
    BY <2>3, <2>4
<1>8. ASSUME NEW v \in Vec PROVE \E p \in 1 .. last : all[p] = v
  <2> DEFINE g == groupIdOf[labelsOf[v]]
  <2>1. g \in 1 .. NumGroups /\ v \in ToSet(groupVecs[g])
    <3>1. v \in 0 .. next - 1
      BY DEF Vec
    <3>2. labelsOf[v] \in Terminals
      BY <3>1 DEF IndexInv, DivisionTyped
    <3>3. g \in 1 .. NumGroups
      BY <3>2 DEF IndexInv, DivisionTyped
    <3>4. QED
      BY <1>4, <3>3
  <2> HIDE DEF g
  <2>2. PICK i \in 1 .. Len(groupVecs[g]) : v = groupVecs[g][i]
    BY <1>1, <2>1 DEF ToSet
  <2> DEFINE p == Ends(g - 1) + i
  <2>3. /\ Ends(g - 1) \in Nat /\ Ends(g) = Ends(g - 1) + Len(groupVecs[g])
        /\ Len(groupVecs[g]) \in Nat /\ Ends(g) <= last /\ i \in Nat /\ 1 <= i
        /\ i <= Len(groupVecs[g])
    <3>1. g - 1 \in 0 .. NumGroups /\ g \in 0 .. NumGroups /\ NumGroups \in 0 .. NumGroups
          /\ g <= NumGroups
      BY <1>1, <2>1
    <3>2. Ends(g) <= last
      BY <3>1, EndsGrow
    <3>3. QED
      BY <1>1, <2>1, <2>2, <3>1, <3>2
  <2>4. p \in 1 .. last /\ Ends(g - 1) < p /\ p <= Ends(g) /\ p - Ends(g - 1) = i
    BY <1>1, <2>3
  <2> HIDE DEF p
  <2>5. At(p, g)
    BY <1>6, <2>1, <2>4
  <2>6. QED
    BY <2>2, <2>4, <2>5
<1> HIDE DEF At
<1>9. last = NumPoints
  <2> DEFINE f == [p \in 1 .. last |-> all[p]]
  <2>1. f \in [1 .. last -> Vec]
    BY <1>2
  <2>2. \A p, q \in 1 .. last : f[p] = f[q] => p = q
    BY <1>7
  <2>3. \A v \in Vec : \E p \in 1 .. last : f[p] = v
    BY <1>8
  <2> HIDE DEF f
  <2>4. f \in Bijection(1 .. last, Vec)
    BY <2>1, <2>2, <2>3 DEF Bijection, Injection, Surjection, IsInjective
  <2>5. ExistsBijection(1 .. last, Vec)
    BY <2>4 DEF ExistsBijection
  <2>6. IsFiniteSet(1 .. last) /\ Cardinality(1 .. last) = last
    BY <1>1, FS_Interval
  <2>7. Cardinality(Vec) = NumPoints
    BY NumPointsAssumption, FS_Interval DEF Vec
  <2>8. QED
    BY <2>5, <2>6, <2>7, FS_Bijection
<1>10. ASSUME NEW p \in 1 .. last, NEW g \in 1 .. NumGroups, all[p] \in ToSet(groupVecs[g])
       PROVE  groupLabels[g] = labelsOf[all[p]]
  BY <1>2, <1>4, <1>10
<1>11. \A p \in 1 .. last : \E g \in 1 .. NumGroups : all[p] \in ToSet(groupVecs[g])
  BY <1>3, <1>5
<1> HIDE DEF all
<1>12. QED
  BY <1>2, <1>6, <1>7, <1>9, <1>10, <1>11 DEF all

\* The step that renumbers establishes the property.
LEMMA Renumbered == ASSUME IndexInv, prepareGroups PROVE ReorderKeepsLabels'
<1> DEFINE all == VecsUpTo(NumGroups)
<1>1. /\ next = NumPoints
      /\ newToOld' = [v \in Vec |-> all[v + 1]]
      /\ range' = [g \in 1 .. NumGroups |-> RangeOf(g)]
      /\ groupOfNew' = [v \in Vec |-> CHOOSE g \in 1 .. NumGroups :
                                         newToOld'[v] \in ToSet(groupVecs[g])]
      /\ UNCHANGED <<labelsOf, groupVecs, groupLabels>>
      /\ NumGroups' = NumGroups
  BY DEF prepareGroups, division, NumGroups
<1>2. /\ Ends(NumGroups) = NumPoints
      /\ \A p \in 1 .. NumPoints : all[p] \in Vec
      /\ \A p, q \in 1 .. NumPoints : all[p] = all[q] => p = q
      /\ \A p \in 1 .. NumPoints, g \in 1 .. NumGroups :
            /\ all[p] \in ToSet(groupVecs[g]) <=> Ends(g - 1) < p /\ p <= Ends(g)
            /\ all[p] \in ToSet(groupVecs[g]) => groupLabels[g] = labelsOf[all[p]]
      /\ \A p \in 1 .. NumPoints : \E g \in 1 .. NumGroups : all[p] \in ToSet(groupVecs[g])
  BY <1>1, ListsArePermutation
<1>3. /\ NumGroups \in Nat
      /\ \A g \in 0 .. NumGroups : Ends(g) \in Nat /\ Ends(g) <= NumPoints
  <2>1. NumGroups \in Nat /\ \A g \in 0 .. NumGroups : Ends(g) \in Nat
    BY ListsInOrder
  <2>2. ASSUME NEW g \in 0 .. NumGroups PROVE Ends(g) <= NumPoints
    <3>1. NumGroups \in 0 .. NumGroups /\ g <= NumGroups
      BY <2>1
    <3>2. QED
      BY <1>2, <3>1, EndsGrow
  <2>3. QED
    BY <2>1, <2>2
<1> HIDE DEF all
<1>4. \A v \in Vec : v + 1 \in 1 .. NumPoints
  BY NumPointsAssumption DEF Vec
<1>5. ASSUME NEW v \in Vec
      PROVE  /\ newToOld'[v] = all[v + 1]
             /\ groupOfNew'[v] \in 1 .. NumGroups
             /\ all[v + 1] \in ToSet(groupVecs[groupOfNew'[v]])
  <2>1. newToOld'[v] = all[v + 1]
    BY <1>1
  <2>2. \E g \in 1 .. NumGroups : newToOld'[v] \in ToSet(groupVecs[g])
    BY <1>2, <1>4, <2>1
  <2>3. groupOfNew'[v] = CHOOSE g \in 1 .. NumGroups : newToOld'[v] \in ToSet(groupVecs[g])
    BY <1>1
  <2>4. groupOfNew'[v] \in 1 .. NumGroups /\ newToOld'[v] \in ToSet(groupVecs[groupOfNew'[v]])
    BY <2>2, <2>3, Zenon
  <2>5. QED
    BY <2>1, <2>4
<1>6. IsInjective(newToOld')
  <2>1. DOMAIN newToOld' = Vec
    BY <1>1
  <2>2. ASSUME NEW a \in Vec, NEW b \in Vec, newToOld'[a] = newToOld'[b] PROVE a = b
    <3>1. all[a + 1] = all[b + 1] /\ a + 1 \in 1 .. NumPoints /\ b + 1 \in 1 .. NumPoints
      BY <1>4, <1>5, <2>2
    <3>2. a + 1 = b + 1
      BY <1>2, <3>1
    <3>3. a \in Int /\ b \in Int
      BY DEF Vec
    <3>4. QED
      BY <3>2, <3>3
  <2>3. QED
    BY <2>1, <2>2 DEF IsInjective
<1>7. ASSUME NEW v \in Vec PROVE labelsOf[newToOld'[v]] = groupLabels[groupOfNew'[v]]
  BY <1>2, <1>4, <1>5
<1>8. ASSUME NEW g \in 1 .. NumGroups
      PROVE  {v \in Vec : groupOfNew'[v] = g} = range'[g][1] .. range'[g][2] - 1
  <2>1. range'[g][1] = Ends(g - 1) /\ range'[g][2] = Ends(g)
    BY <1>1 DEF RangeOf, Ends
  <2>2. Ends(g - 1) \in Nat /\ Ends(g) \in Nat /\ Ends(g) <= NumPoints
    BY <1>3
  <2>3. ASSUME NEW v \in Vec
        PROVE  groupOfNew'[v] = g <=> Ends(g - 1) < v + 1 /\ v + 1 <= Ends(g)
    <3>1. /\ v + 1 \in 1 .. NumPoints /\ v + 1 \in Nat
          /\ groupOfNew'[v] \in 1 .. NumGroups
          /\ Ends(groupOfNew'[v] - 1) < v + 1 /\ v + 1 <= Ends(groupOfNew'[v])
      BY <1>2, <1>4, <1>5
    <3>2. QED
      BY <3>1, PlaceInOneGroup
  <2>4. \A v : v \in Vec /\ Ends(g - 1) < v + 1 /\ v + 1 <= Ends(g)
                  <=> v \in Ends(g - 1) .. Ends(g) - 1
    BY <2>2, NumPointsAssumption DEF Vec
  <2>5. QED
    BY <2>1, <2>3, <2>4
<1>9. QED
  BY <1>1, <1>6, <1>7, <1>8 DEF ReorderKeepsLabels

(***************************************************************************)
(* prepare_group_storages_graphs: the new ids are a permutation in which   *)
(* every group is its range, so that a vector's labels are those of its    *)
(* group.                                                                  *)
(***************************************************************************)
THEOREM ReorderKeeps == Spec => []ReorderKeepsLabels
<1>1. Init => ReorderKeepsLabels
  BY DEF Init, InitTrie, ReorderKeepsLabels
<1>2. IInv /\ ReorderKeepsLabels /\ [Next]_vars => ReorderKeepsLabels'
  <2> SUFFICES ASSUME IInv, ReorderKeepsLabels, [Next]_vars PROVE ReorderKeepsLabels'
    OBVIOUS
  <2>1. CASE buildIndex
    <3>1. CASE prepareGroups
      BY <3>1, Renumbered DEF IInv
    <3>2. CASE divideNext
      BY <3>2 DEF divideNext, ReorderKeepsLabels
    <3>3. QED
      BY <2>1, <3>1, <3>2 DEF buildIndex, NextTrie
  <2>2. CASE UNCHANGED trieVars
    <3>1. UNCHANGED <<built, labelsOf, groupVecs, groupLabels, newToOld, groupOfNew, range>>
      BY <2>2 DEF trieVars, division, order
    <3>2. QED
      BY <3>1 DEF ReorderKeepsLabels, NumGroups
  <2>3. QED
    BY <2>1, <2>2 DEF Next, vars, input, ask, start, expand, endSearch, filter
<1>3. QED
  BY <1>1, <1>2, Invariance, PTL DEF Spec

-----------------------------------------------------------------------------
\* What the graph and the queries take from the trie.

\* The ids of the groups of a set of label sets.
IdsOf(S) == {groupIdOf[t] : t \in S}

\* Ids and label sets stand for each other.
LEMMA IdFacts ==
    ASSUME IndexInv
    PROVE  /\ DOMAIN groupLabels = 1 .. NumGroups
           /\ groupLabels \in LabelSets(1 .. NumGroups, Label)
           /\ \A t \in Terminals : groupIdOf[t] \in 1 .. NumGroups /\ groupLabels[groupIdOf[t]] = t
           /\ \A g \in 1 .. NumGroups : groupLabels[g] \in Terminals /\ groupIdOf[groupLabels[g]] = g
<1>1. /\ groupLabels \in Seq(SUBSET Label) /\ Len(groupLabels) = NumGroups
      /\ {groupIdOf[t] : t \in Terminals} = 1 .. NumGroups
      /\ \A t \in Terminals : groupLabels[groupIdOf[t]] = t
  BY DEF IndexInv, DivisionTyped, GroupsAgree
<1>2. DOMAIN groupLabels = 1 .. NumGroups /\ groupLabels \in [1 .. NumGroups -> SUBSET Label]
  BY <1>1, LenProperties
<1>3. \A t \in Terminals : groupIdOf[t] \in 1 .. NumGroups
  BY <1>1
<1>4. ASSUME NEW g \in 1 .. NumGroups
      PROVE  groupLabels[g] \in Terminals /\ groupIdOf[groupLabels[g]] = g
  <2>1. PICK t \in Terminals : g = groupIdOf[t]
    BY <1>1
  <2>2. QED
    BY <1>1, <2>1
<1>5. groupLabels \in LabelSets(1 .. NumGroups, Label)
  <2>1. \A g, h \in 1 .. NumGroups : groupLabels[g] = groupLabels[h] => g = h
    BY <1>4
  <2>2. QED
    BY <1>2, <2>1 DEF LabelSets
<1>6. QED
  BY <1>1, <1>2, <1>3, <1>4, <1>5

\* And so do the minimal ones.
LEMMA MinimalIds ==
    ASSUME IndexInv, NEW S, S \subseteq Terminals
    PROVE  IdsOf(MinimalOf(S)) = Minimal(groupLabels, IdsOf(S))
<1>1. /\ \A t \in Terminals : groupLabels[groupIdOf[t]] = t
      /\ \A g \in 1 .. NumGroups : groupLabels[g] \in Terminals /\ groupIdOf[groupLabels[g]] = g
  BY IdFacts
<1>2. ASSUME NEW m \in MinimalOf(S) PROVE groupIdOf[m] \in Minimal(groupLabels, IdsOf(S))
  <2>1. m \in S /\ groupIdOf[m] \in IdsOf(S)
    BY DEF MinimalOf, IdsOf
  <2>2. ASSUME NEW h \in IdsOf(S), groupLabels[h] \subseteq groupLabels[groupIdOf[m]]
        PROVE  h = groupIdOf[m]
    <3>1. PICK t \in S : h = groupIdOf[t]
      BY DEF IdsOf
    <3>2. t \subseteq m
      BY <1>1, <2>1, <2>2, <3>1
    <3>3. QED
      BY <3>1, <3>2 DEF MinimalOf
  <2>3. QED
    BY <2>1, <2>2 DEF Minimal
<1>3. ASSUME NEW g \in Minimal(groupLabels, IdsOf(S)) PROVE g \in IdsOf(MinimalOf(S))
  <2>1. PICK m \in S : g = groupIdOf[m]
    BY <1>3 DEF Minimal, IdsOf
  <2>2. ASSUME NEW h \in S, h \subseteq m PROVE h = m
    <3>1. groupIdOf[h] \in IdsOf(S)
      BY DEF IdsOf
    <3>2. groupLabels[groupIdOf[h]] \subseteq groupLabels[g]
      BY <1>1, <2>1, <2>2
    <3>3. groupIdOf[h] = g
      BY <1>3, <3>1, <3>2 DEF Minimal
    <3>4. QED
      BY <1>1, <2>1, <3>3
  <2>3. QED
    BY <2>1, <2>2 DEF MinimalOf, IdsOf
<1>4. QED
  BY <1>2, <1>3 DEF IdsOf

(***************************************************************************)
(* In terms of group ids: the index gives different groups different label *)
(* sets; the search made for the graph returns the children of a group;    *)
(* the one made for a query its minimal qualified groups.  This is what    *)
(* LabelNavGraph and EntryGroups take the label sets and a group's         *)
(* out-neighbours to be.                                                   *)
(***************************************************************************)
THEOREM GivesChildren ==
    Spec => [](stage = "done" /\ ~skipFilter /\ Complete =>
                  /\ groupLabels \in LabelSets(1 .. NumGroups, Label)
                  /\ method = "build" =>
                        IdsOf(minIds) = Child(groupLabels, groupIdOf[query])
                  /\ method # "build" =>
                        IdsOf(minIds) = Minimal(groupLabels, Qualified(groupLabels, query)))
<1> DEFINE Gives == stage = "done" /\ ~skipFilter /\ Complete =>
                       /\ groupLabels \in LabelSets(1 .. NumGroups, Label)
                       /\ method = "build" =>
                             IdsOf(minIds) = Child(groupLabels, groupIdOf[query])
                       /\ method # "build" =>
                             IdsOf(minIds) = Minimal(groupLabels, Qualified(groupLabels, query))
<1>1. IInv /\ ExactMinimal => Gives
  <2> SUFFICES ASSUME IInv, ExactMinimal, stage = "done", ~skipFilter, Complete
               PROVE  /\ groupLabels \in LabelSets(1 .. NumGroups, Label)
                      /\ method = "build" =>
                            IdsOf(minIds) = Child(groupLabels, groupIdOf[query])
                      /\ method # "build" =>
                            IdsOf(minIds) = Minimal(groupLabels, Qualified(groupLabels, query))
    OBVIOUS
  <2>1. minIds = MinimalOf(SuperSets) /\ SuperSets \subseteq Terminals
    BY DEF ExactMinimal, SuperSets
  <2>2. IdsOf(minIds) = Minimal(groupLabels, IdsOf(SuperSets))
    BY <2>1, MinimalIds DEF IInv
  <2>3. /\ DOMAIN groupLabels = 1 .. NumGroups
        /\ \A t \in Terminals : groupIdOf[t] \in 1 .. NumGroups /\ groupLabels[groupIdOf[t]] = t
        /\ \A g \in 1 .. NumGroups : groupLabels[g] \in Terminals /\ groupIdOf[groupLabels[g]] = g
    BY IdFacts DEF IInv
  <2>4. ASSUME method = "build" PROVE IdsOf(SuperSets) = Above(groupLabels, groupIdOf[query])
    <3>1. query \in Terminals
      BY <2>4 DEF IInv, AskInv, AvoidSelf
    <3>2. SuperSets = {t \in Terminals : query \subseteq t /\ t # query}
      BY <2>4 DEF SuperSets, AvoidSelf
    <3>3. IdsOf(SuperSets) \subseteq Above(groupLabels, groupIdOf[query])
      BY <2>3, <3>1, <3>2 DEF IdsOf, Above
    <3>4. Above(groupLabels, groupIdOf[query]) \subseteq IdsOf(SuperSets)
      BY <2>3, <3>1, <3>2 DEF IdsOf, Above
    <3>5. QED
      BY <3>3, <3>4
  <2>5. ASSUME method # "build" PROVE IdsOf(SuperSets) = Qualified(groupLabels, query)
    <3>1. SuperSets = {t \in Terminals : query \subseteq t}
      BY <2>5 DEF SuperSets, AvoidSelf
    <3>2. IdsOf(SuperSets) \subseteq Qualified(groupLabels, query)
      BY <2>3, <3>1 DEF IdsOf, Qualified
    <3>3. Qualified(groupLabels, query) \subseteq IdsOf(SuperSets)
      BY <2>3, <3>1 DEF IdsOf, Qualified
    <3>4. QED
      BY <3>2, <3>3
  <2>6. QED
    BY <2>2, <2>4, <2>5, IdFacts DEF IInv, Child
<1> HIDE DEF Gives
<1>2. Spec => []Gives
  BY <1>1, Invariance, FindsMinimal, PTL
<1>3. QED
  BY <1>2 DEF Gives
=============================================================================
