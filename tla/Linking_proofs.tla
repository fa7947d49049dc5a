--------------------------- MODULE Linking_proofs ---------------------------
(***************************************************************************)
(* The two graphs that threads link in parallel: the group graphs of       *)
(* Vamana, whose degrees are bounded, whose edges lead to linked vectors   *)
(* and whose searches meet no dead end, and FAVOR's levels, on which no    *)
(* insertion throws, nobody is missed and the entry point is the highest.  *)
(***************************************************************************)
EXTENDS Vamana, FavorIndex, Order_proofs
-----------------------------------------------------------------------------
\* Vamana: the inductive invariant, in named parts.
Visible == Linked \cup {Entry}
Busy(t) == pc[t] # "idle"

\* The loops: an iteration belongs to one thread, and outside link all are idle.
LoopInv ==
    /\ \A t \in Thread : /\ Busy(t) => (t \in threads /\ phase = "link" /\ at[t] \in points \ todo)
                         /\ ~Busy(t) => at[t] = NoVector
    /\ \A t, u \in Thread : t # u /\ Busy(t) => at[t] # at[u]
    /\ phase = "start" => \A v \in points : neighbors[v] = {}
    /\ phase = "cleanup" => \A v \in points \ todo : Cardinality(neighbors[v]) <= MaxDegree

\* A search has seen linked vectors only, the entry point first.
SearchOf(t) == /\ expanded[t] \subseteq seen[t]
               /\ seen[t] \subseteq Visible
               /\ IF expanded[t] = {} THEN seen[t] = {Entry} ELSE Entry \in expanded[t]

SearchInv == \A t \in Thread : IF pc[t] = "search" THEN SearchOf(t) ELSE expanded[t] = {}

\* What a thread is about to write, or to point back from.
ListInv ==
    \A t \in Thread :
        /\ pc[t] \in {"overwrite", "insert", "write"} => pruned[t] \subseteq Visible \ {at[t]}
        /\ pc[t] = "overwrite" =>
              /\ Cardinality(pruned[t]) <= MaxDegree
              /\ at[t] # Entry => pruned[t] # {}
        /\ pc[t] = "write" =>
              /\ target[t] \in pruned[t]
              /\ newList[t] \subseteq Visible \ {target[t]}
              /\ Cardinality(newList[t]) <= MaxDegree
              /\ newList[t] # {}

\* A single thread finds the entry point's neighbours, or gives it the first.
Sequential(t) ==
    /\ pc[t] = "search" /\ Entry \in expanded[t] => neighbors[Entry] \subseteq seen[t]
    /\ pc[t] = "overwrite" /\ at[t] = Entry /\ pruned[t] = {} => neighbors[Entry] = {}
    /\ pc[t] = "overwrite" /\ at[t] # Entry /\ neighbors[Entry] = {} => pruned[t] = {Entry}
    /\ pc[t] \in {"insert", "write"} /\ neighbors[Entry] = {} =>
          (pc[t] = "insert" /\ at[t] # Entry /\ pruned[t] = {Entry})
    /\ neighbors[Entry] = {} => Linked \subseteq {Entry, at[t]}

SequentialInv == \A t \in Thread : threads = {t} => Sequential(t)

LinkInv == /\ TypeOK
        /\ LoopInv
        /\ SearchInv
        /\ ListInv
        /\ SequentialInv
        /\ DegreesBounded
        /\ EdgesToLinked
        /\ NoDeadEnds
-----------------------------------------------------------------------------
\* The sets of vectors, and what pruning returns.

\* Counting in sets of vectors.
LEMMA SetFacts ==
  ASSUME TypeOK, NEW S \in SUBSET points
  PROVE  /\ IsFiniteSet(S)
         /\ Cardinality(S) \in Nat
         /\ \A x \in points : Cardinality(S \cup {x}) <= Cardinality(S) + 1
         /\ Cardinality(S) = 0 <=> S = {}
         /\ \A x \in S : Cardinality(S) <= 1 => S = {x}
<1>1. IsFiniteSet(S) /\ Cardinality(S) \in Nat
  BY VectorAssumption, FS_Subset, FS_CardinalityType DEF TypeOK
<1>2. \A x \in points : Cardinality(S \cup {x}) <= Cardinality(S) + 1
  <2>. SUFFICES ASSUME NEW x \in points PROVE Cardinality(S \cup {x}) <= Cardinality(S) + 1
    OBVIOUS
  <2>1. CASE x \in S
    <3>1. Cardinality(S \cup {x}) = Cardinality(S)
      BY <2>1, S \cup {x} = S, Zenon
    <3>2. QED
      BY <3>1, <1>1
  <2>2. CASE x \notin S
    <3>1. Cardinality(S \cup {x}) = Cardinality(S) + 1
      BY <1>1, <2>2, FS_AddElement
    <3>2. QED
      BY <3>1, <1>1
  <2>3. QED
    BY <2>1, <2>2
<1>3. Cardinality(S) = 0 <=> S = {}
  BY <1>1, FS_EmptySet
<1>4. ASSUME NEW x \in S, Cardinality(S) <= 1 PROVE S = {x}
  <2>1. Cardinality(S \ {x}) = Cardinality(S) - 1 /\ IsFiniteSet(S \ {x})
    BY <1>1, FS_RemoveElement
  <2>2. Cardinality(S \ {x}) \in Nat
    BY <2>1, FS_CardinalityType
  <2>3. Cardinality(S \ {x}) = 0
    BY <1>1, <1>4, <2>1, <2>2
  <2>4. S \ {x} = {}
    BY <2>1, <2>3, FS_EmptySet
  <2>5. QED
    BY <2>4
<1>5. QED
  BY <1>1, <1>2, <1>3, <1>4

\* What prune_neighbors returns: bounded, of the candidates, never none of some.
LEMMA PrunedFacts ==
  ASSUME TypeOK, NEW v \in points, NEW C \in SUBSET points, NEW R \in Pruned(v, C)
  PROVE  /\ R \in SUBSET points
         /\ R \subseteq C \ {v}
         /\ Cardinality(R) <= MaxDegree
         /\ Cardinality(R) <= SlackDegree
         /\ R = {} => C \ {v} = {}
<1>1. R \in SUBSET points /\ R \subseteq C \ {v} /\ Cardinality(R) <= MaxDegree /\ (R = {} => C \ {v} = {})
  BY DEF Pruned
<1>2. Cardinality(R) \in Nat
  BY <1>1, SetFacts
<1>3. QED
  BY <1>1, <1>2, DegreeAssumption

-----------------------------------------------------------------------------
\* The inductive invariant holds at the start.
LEMMA LinkInit == InitLink => LinkInv
<1>. SUFFICES ASSUME InitLink PROVE LinkInv
  OBVIOUS
<1>1. TypeOK
  <2>1. points \subseteq Vector /\ Entry \in points /\ threads \subseteq Thread /\ threads # {}
    <3>1. points \in {S \in SUBSET Vector : Entry \in S}
      BY DEF InitLink
    <3>2. threads \in SUBSET Thread /\ threads \notin {{}}
      BY DEF InitLink
    <3>3. QED
      BY <3>1, <3>2
  <2>2. QED
    BY <2>1 DEF InitLink, TypeOK, PC
<1>2. DegreesBounded
  <2>1. Cardinality({}) = 0
    BY FS_EmptySet
  <2>2. QED
    BY <2>1, DegreeAssumption DEF InitLink, DegreesBounded
<1>3. LoopInv /\ SearchInv /\ ListInv /\ EdgesToLinked /\ NoDeadEnds
  BY DEF InitLink, LoopInv, SearchInv, ListInv, EdgesToLinked, NoDeadEnds, Linked, Visible, Busy
<1>4. SequentialInv
  BY <1>1 DEF InitLink, TypeOK, SequentialInv, Sequential, Linked
<1>5. QED
  BY <1>1, <1>2, <1>3, <1>4 DEF LinkInv

-----------------------------------------------------------------------------
\* The steps that leave the lists of neighbours alone.

\* Taking an iteration of the parallel loop keeps the invariant.
LEMMA TakeStep ==
  ASSUME LinkInv, NEW t \in threads, NEW v \in points, take(t, v)
  PROVE  LinkInv'
<1>. USE VectorAssumption
<1>1. TypeOK'
  BY DEF LinkInv, TypeOK, PC, take
<1>2. Linked' = Linked
  BY DEF LinkInv, TypeOK, LoopInv, Busy, Linked, take
<1>3. LoopInv'
  BY DEF LinkInv, TypeOK, LoopInv, Busy, take
<1>4. SearchInv'
  <2>1. SUFFICES ASSUME NEW u \in Thread
                 PROVE  (IF pc[u] = "search" THEN SearchOf(u) ELSE expanded[u] = {})'
    BY DEF SearchInv
  <2>2. CASE u = t
    BY <1>2, <2>2 DEF LinkInv, TypeOK, SearchInv, SearchOf, Visible, take
  <2>3. CASE u # t
    BY <1>2, <2>3 DEF LinkInv, TypeOK, SearchInv, SearchOf, Visible, take
  <2>4. QED
    BY <2>2, <2>3
<1>5. ListInv'
  BY <1>2 DEF LinkInv, TypeOK, ListInv, Visible, take
<1>6. SequentialInv'
  <2>1. SUFFICES ASSUME threads = {t} PROVE Sequential(t)'
    BY DEF LinkInv, TypeOK, SequentialInv, take
  <2>2. Sequential(t) /\ expanded[t] = {}
    BY <2>1 DEF LinkInv, TypeOK, SequentialInv, SearchInv, take
  <2>3. neighbors[Entry] = {} => Linked \subseteq {Entry}
    BY <2>2 DEF LinkInv, TypeOK, LoopInv, Busy, Sequential, Linked, take
  <2>4. QED
    BY <1>2, <2>2, <2>3 DEF LinkInv, TypeOK, Sequential, take
<1>7. DegreesBounded' /\ EdgesToLinked'
  BY <1>2 DEF LinkInv, DegreesBounded, EdgesToLinked, take
<1>8. NoDeadEnds'
  BY <1>2 DEF LinkInv, TypeOK, NoDeadEnds, take
<1>9. QED
  BY <1>1, <1>3, <1>4, <1>5, <1>6, <1>7, <1>8 DEF LinkInv

\* Expanding a vector reads a list others change; what is seen stays linked.
LEMMA ExpandStep ==
  ASSUME LinkInv, NEW t \in threads, NEW cur \in points, expand(t, cur)
  PROVE  LinkInv'
<1>1. TypeOK'
  BY DEF LinkInv, TypeOK, PC, expand
<1>2. Linked' = Linked
  BY DEF Linked, expand
<1>3. LoopInv' /\ ListInv'
  BY <1>2 DEF LinkInv, LoopInv, ListInv, Busy, Visible, expand
<1>4. SearchInv'
  <2>1. SUFFICES ASSUME NEW u \in Thread
                 PROVE  (IF pc[u] = "search" THEN SearchOf(u) ELSE expanded[u] = {})'
    BY DEF SearchInv
  <2>2. CASE u = t
    <3>1. SearchOf(t) /\ t \in Thread
      BY DEF LinkInv, TypeOK, SearchInv, expand
    <3>2. neighbors[cur] \subseteq Visible
      BY DEF LinkInv, EdgesToLinked, Visible
    <3>3. QED
      BY <1>2, <2>2, <3>1, <3>2 DEF LinkInv, TypeOK, SearchOf, Visible, expand
  <2>3. CASE u # t
    BY <1>2, <2>3 DEF LinkInv, TypeOK, SearchInv, SearchOf, Visible, expand
  <2>4. QED
    BY <2>2, <2>3
<1>5. SequentialInv'
  <2>1. SUFFICES ASSUME threads = {t} PROVE Sequential(t)'
    BY DEF LinkInv, TypeOK, SequentialInv, expand
  <2>2. Sequential(t)
    BY <2>1 DEF LinkInv, TypeOK, SequentialInv
  <2>3. QED
    BY <1>2, <2>2 DEF LinkInv, TypeOK, Sequential, expand
<1>6. DegreesBounded' /\ EdgesToLinked' /\ NoDeadEnds'
  BY <1>2 DEF LinkInv, DegreesBounded, EdgesToLinked, NoDeadEnds, expand
<1>7. QED
  BY <1>1, <1>3, <1>4, <1>5, <1>6 DEF LinkInv

\* A search that ends has expanded the entry point.
LEMMA PruneStep ==
  ASSUME LinkInv, NEW t \in threads, prune(t)
  PROVE  LinkInv'
<1>. DEFINE C == expanded[t] \ {at[t]}
<1>. /\ TypeOK /\ t \in Thread /\ SearchOf(t)
     /\ at[t] \in points /\ at[t] \notin Linked /\ phase = "link"
  BY DEF LinkInv, TypeOK, LoopInv, Busy, SearchInv, Linked, prune
<1>1. Entry \in expanded[t]
  <2>1. Cardinality(expanded[t]) = 0 <=> expanded[t] = {}
    BY SetFacts DEF TypeOK
  <2>2. QED
    BY <2>1, DegreeAssumption DEF prune, NoUnexpanded, SearchOf
<1>2. PICK R \in Pruned(at[t], C) : pruned' = [pruned EXCEPT ![t] = R]
  BY DEF prune
<1>3. /\ R \in SUBSET points
      /\ R \subseteq Visible \ {at[t]}
      /\ Cardinality(R) <= MaxDegree
      /\ R = {} => expanded[t] \subseteq {at[t]}
  <2>1. C \in SUBSET points
    BY DEF TypeOK
  <2>2. R \in SUBSET points /\ R \subseteq C /\ Cardinality(R) <= MaxDegree /\ (R = {} => C = {})
    BY <1>2, <2>1, PrunedFacts
  <2>3. QED
    BY <2>2 DEF SearchOf
<1>4. TypeOK'
  BY <1>2, <1>3 DEF TypeOK, PC, prune
<1>5. Linked' = Linked
  BY DEF TypeOK, Linked, prune
<1>6. LoopInv' /\ SearchInv'
  BY <1>5 DEF LinkInv, TypeOK, LoopInv, SearchInv, SearchOf, Busy, Visible, prune
<1>7. ListInv'
  <2>1. at[t] # Entry => R # {}
    BY <1>1, <1>3
  <2>2. QED
    BY <1>2, <1>3, <1>5, <2>1 DEF LinkInv, TypeOK, ListInv, Visible, prune
<1>8. SequentialInv'
  <2>1. SUFFICES ASSUME threads = {t} PROVE Sequential(t)'
    BY DEF LinkInv, TypeOK, SequentialInv, prune
  <2>2. Sequential(t)
    BY <2>1 DEF LinkInv, TypeOK, SequentialInv
  <2>3. at[t] = Entry /\ R = {} => neighbors[Entry] = {}
    <3>. SUFFICES ASSUME at[t] = Entry, R = {} PROVE neighbors[Entry] = {}
      OBVIOUS
    <3>1. expanded[t] = {Entry}
      BY <1>1, <1>3
    <3>2. Cardinality(expanded[t]) = 1
      BY <3>1, FS_Singleton
    <3>3. expanded[t] = seen[t]
      BY <3>2, DegreeAssumption DEF prune, NoUnexpanded
    <3>4. Entry \notin neighbors[Entry] /\ neighbors[Entry] \subseteq seen[t]
      BY <1>1, <2>2 DEF LinkInv, TypeOK, DegreesBounded, Sequential, prune
    <3>5. QED
      BY <3>1, <3>3, <3>4
  <2>4. at[t] # Entry /\ neighbors[Entry] = {} => R = {Entry}
    BY <1>1, <1>3, <2>2 DEF SearchOf, Sequential, Visible
  <2>5. QED
    BY <1>2, <1>5, <2>2, <2>3, <2>4 DEF TypeOK, Sequential, prune
<1>9. DegreesBounded' /\ EdgesToLinked'
  BY <1>5 DEF LinkInv, DegreesBounded, EdgesToLinked, prune
<1>10. NoDeadEnds'
  BY <1>5 DEF LinkInv, TypeOK, NoDeadEnds, prune
<1>11. QED
  BY <1>4, <1>6, <1>7, <1>8, <1>9, <1>10 DEF LinkInv

\* Copying a full list and releasing its lock keeps the invariant.
LEMMA CopyFullStep ==
  ASSUME LinkInv, NEW t \in threads, NEW dst \in points, copyFull(t, dst)
  PROVE  LinkInv'
<1>. DEFINE C == neighbors[dst] \cup {at[t]}
<1>. /\ TypeOK /\ t \in Thread
     /\ at[t] \in points /\ at[t] \in Linked /\ at[t] # dst /\ pruned[t] \subseteq Visible \ {at[t]}
     /\ phase = "link"
  BY DEF LinkInv, TypeOK, LoopInv, ListInv, Busy, Linked, copyFull
<1>1. PICK R \in Pruned(dst, C) : newList' = [newList EXCEPT ![t] = R]
  BY DEF copyFull
<1>2. /\ R \in SUBSET points
      /\ R \subseteq Visible \ {dst}
      /\ Cardinality(R) <= MaxDegree
      /\ R # {}
  <2>1. C \in SUBSET points /\ C \subseteq Visible /\ at[t] \in C \ {dst}
    BY DEF LinkInv, TypeOK, EdgesToLinked, Visible
  <2>2. QED
    BY <1>1, <2>1, PrunedFacts
<1>3. TypeOK'
  BY <1>1, <1>2 DEF TypeOK, PC, copyFull
<1>4. Linked' = Linked
  BY DEF TypeOK, Linked, copyFull
<1>5. LoopInv' /\ SearchInv'
  BY <1>4 DEF LinkInv, TypeOK, LoopInv, SearchInv, SearchOf, Busy, Visible, copyFull
<1>6. ListInv'
  BY <1>1, <1>2, <1>4 DEF LinkInv, TypeOK, ListInv, Visible, copyFull
<1>7. SequentialInv'
  <2>1. SUFFICES ASSUME threads = {t} PROVE Sequential(t)'
    BY DEF LinkInv, TypeOK, SequentialInv, copyFull
  <2>2. Sequential(t)
    BY <2>1 DEF LinkInv, TypeOK, SequentialInv
  <2>3. neighbors[Entry] # {}
    <3>1. ASSUME neighbors[Entry] = {} PROVE FALSE
      <4>1. dst = Entry
        BY <2>2, <3>1 DEF Sequential, copyFull
      <4>2. Cardinality(neighbors[dst]) = 0
        BY <3>1, <4>1, FS_EmptySet
      <4>3. QED
        BY <4>2, DegreeAssumption DEF copyFull, HasRoom
    <3>2. QED
      BY <3>1
  <2>4. QED
    BY <1>4, <2>2, <2>3 DEF TypeOK, Sequential, copyFull
<1>8. DegreesBounded' /\ EdgesToLinked'
  BY <1>4 DEF LinkInv, DegreesBounded, EdgesToLinked, copyFull
<1>9. NoDeadEnds'
  BY <1>4 DEF LinkInv, TypeOK, NoDeadEnds, copyFull
<1>10. QED
  BY <1>3, <1>5, <1>6, <1>7, <1>8, <1>9 DEF LinkInv

-----------------------------------------------------------------------------
\* The steps of a thread that write a list of neighbours.

\* Overwriting the vector's own list keeps the invariant.
LEMMA OverwriteStep ==
  ASSUME LinkInv, NEW t \in threads, overwrite(t)
  PROVE  LinkInv'
<1>. DEFINE v == at[t]
<1>. /\ TypeOK /\ t \in Thread /\ phase = "link"
     /\ v \in points /\ v \notin Linked
     /\ pruned[t] \subseteq Visible \ {v}
     /\ Cardinality(pruned[t]) <= MaxDegree
     /\ v # Entry => pruned[t] # {}
  BY DEF LinkInv, TypeOK, LoopInv, ListInv, Busy, Linked, overwrite
<1>1. TypeOK'
  BY DEF TypeOK, PC, GoOn, overwrite
<1>2. Linked' = Linked \cup {v}
  <2>1. \A u \in threads : u # t => pc'[u] = pc[u] /\ at'[u] = at[u]
    BY DEF TypeOK, GoOn, overwrite
  <2>2. pc'[t] \notin {"search", "overwrite"}
    BY DEF TypeOK, GoOn, overwrite
  <2>3. \A u \in threads : u # t => at[u] # v
    BY DEF LinkInv, TypeOK, LoopInv, Busy, overwrite
  <2>4. v \notin todo /\ phase' = "link" /\ points' = points /\ todo' = todo /\ threads' = threads
    BY DEF LinkInv, LoopInv, Busy, overwrite
  <2>5. QED
    BY <2>1, <2>2, <2>3, <2>4 DEF Linked, overwrite
<1>3. LoopInv'
  BY VectorAssumption DEF LinkInv, TypeOK, LoopInv, Busy, GoOn, overwrite
<1>4. SearchInv'
  BY <1>2 DEF LinkInv, TypeOK, SearchInv, SearchOf, Visible, GoOn, overwrite
<1>5. ListInv'
  BY <1>2 DEF LinkInv, TypeOK, ListInv, Visible, GoOn, overwrite
<1>6. neighbors' = [neighbors EXCEPT ![v] = pruned[t]]
  BY DEF overwrite
<1>7. SequentialInv'
  <2>1. SUFFICES ASSUME threads = {t} PROVE Sequential(t)'
    BY DEF LinkInv, TypeOK, SequentialInv, overwrite
  <2>2. Sequential(t)
    BY <2>1 DEF LinkInv, TypeOK, SequentialInv
  <2>3. CASE pruned[t] = {}
    BY <1>2, <1>6, <2>2, <2>3 DEF TypeOK, Sequential, GoOn, overwrite
  <2>4. CASE pruned[t] # {} /\ v = Entry
    BY <1>2, <1>6, <2>2, <2>4 DEF TypeOK, Sequential, GoOn, overwrite
  <2>5. CASE pruned[t] # {} /\ v # Entry
    BY <1>2, <1>6, <2>2, <2>5 DEF TypeOK, Sequential, GoOn, overwrite
  <2>6. QED
    BY <2>3, <2>4, <2>5
<1>8. DegreesBounded'
  <2>1. Cardinality(pruned[t]) \in Nat
    BY SetFacts DEF TypeOK
  <2>2. phase' = "link" /\ points' = points
    BY DEF overwrite
  <2>3. QED
    BY <1>6, <2>1, <2>2, DegreeAssumption DEF LinkInv, TypeOK, DegreesBounded
<1>9. EdgesToLinked'
  BY <1>2, <1>6 DEF LinkInv, TypeOK, EdgesToLinked, Visible, overwrite
<1>10. NoDeadEnds'
  <2>1. \A u \in Linked' \ {Entry} : neighbors'[u] # {}
    BY <1>2, <1>6 DEF LinkInv, TypeOK, NoDeadEnds
  <2>2. ASSUME threads = {t}, pc'[t] \in {"idle", "search"}, Linked' \ {Entry} # {}
        PROVE  neighbors'[Entry] # {}
    <3>1. pruned[t] = {} /\ v = Entry
      BY <2>2 DEF TypeOK, GoOn, overwrite
    <3>2. Sequential(t)
      BY <2>2 DEF LinkInv, TypeOK, SequentialInv
    <3>3. neighbors[Entry] = {} /\ Linked \subseteq {Entry}
      BY <3>1, <3>2 DEF Sequential, overwrite
    <3>4. QED
      BY <1>2, <2>2, <3>1, <3>3
  <2>3. QED
    BY <2>1, <2>2 DEF NoDeadEnds, TypeOK, overwrite
<1>11. QED
  BY <1>1, <1>3, <1>4, <1>5, <1>7, <1>8, <1>9, <1>10 DEF LinkInv

\* The two steps of inter_insert put a nonempty list of visible vectors in
\* place of that of dst, and go on with the rest of the pruned list.
LEMMA InterInsertStep ==
  ASSUME LinkInv, NEW t \in threads, NEW dst \in pruned[t], NEW L \in SUBSET points,
         pc[t] \in {"insert", "write"},
         L \subseteq Visible \ {dst}, L # {}, Cardinality(L) <= SlackDegree,
         neighbors' = [neighbors EXCEPT ![dst] = L],
         GoOn(t, pruned[t] \ {dst}),
         target' = [target EXCEPT ![t] = target'[t]], target'[t] \in points \cup {NoVector},
         newList' = [newList EXCEPT ![t] = newList'[t]], newList'[t] \in SUBSET points,
         UNCHANGED <<points, threads, phase, todo, seen, expanded>>
  PROVE  LinkInv'
<1>. /\ TypeOK /\ t \in Thread /\ phase = "link" /\ dst \in points
     /\ at[t] \in points /\ at[t] \in Linked
     /\ pruned[t] \subseteq Visible \ {at[t]}
  BY DEF LinkInv, TypeOK, LoopInv, ListInv, Busy, Linked
<1>1. TypeOK'
  BY DEF TypeOK, PC, GoOn
<1>2. Linked' = Linked
  <2>1. \A u \in threads : u # t => pc'[u] = pc[u] /\ at'[u] = at[u]
    BY DEF TypeOK, GoOn
  <2>2. pc'[t] \notin {"search", "overwrite"}
    BY DEF TypeOK, GoOn
  <2>3. QED
    BY <2>1, <2>2 DEF Linked
<1>3. LoopInv'
  BY VectorAssumption DEF LinkInv, TypeOK, LoopInv, Busy, GoOn
<1>4. SearchInv'
  BY <1>2 DEF LinkInv, TypeOK, SearchInv, SearchOf, Visible, GoOn
<1>5. ListInv'
  BY <1>2 DEF LinkInv, TypeOK, ListInv, Visible, GoOn
<1>6. SequentialInv'
  <2>1. SUFFICES ASSUME threads = {t} PROVE Sequential(t)'
    BY DEF LinkInv, TypeOK, SequentialInv
  <2>2. Sequential(t)
    BY <2>1 DEF LinkInv, TypeOK, SequentialInv
  <2>3. neighbors'[Entry] # {}
    <3>1. CASE dst = Entry
      BY <3>1 DEF TypeOK
    <3>2. CASE dst # Entry
      BY <2>2, <3>2 DEF TypeOK, Sequential
    <3>3. QED
      BY <3>1, <3>2
  <2>4. pc'[t] \notin {"search", "overwrite"}
    BY DEF TypeOK, GoOn
  <2>5. QED
    BY <2>3, <2>4 DEF Sequential
<1>7. DegreesBounded'
  BY DEF LinkInv, TypeOK, DegreesBounded
<1>8. EdgesToLinked'
  BY <1>2 DEF LinkInv, TypeOK, EdgesToLinked, Visible
<1>9. NoDeadEnds'
  <2>1. \A v \in Linked' \ {Entry} : neighbors'[v] # {}
    BY <1>2 DEF LinkInv, TypeOK, NoDeadEnds
  <2>2. ASSUME threads = {t}
        PROVE  neighbors'[Entry] # {}
    <3>1. Sequential(t)
      BY <2>2 DEF LinkInv, TypeOK, SequentialInv
    <3>2. CASE dst = Entry
      BY <3>2 DEF TypeOK
    <3>3. CASE dst # Entry
      BY <3>1, <3>3 DEF TypeOK, Sequential
    <3>4. QED
      BY <3>2, <3>3
  <2>3. QED
    BY <2>1, <2>2 DEF NoDeadEnds, TypeOK
<1>10. QED
  BY <1>1, <1>3, <1>4, <1>5, <1>6, <1>7, <1>8, <1>9 DEF LinkInv

\* Inserting a reverse edge under its lock keeps the invariant.
LEMMA InsertReverseStep ==
  ASSUME LinkInv, NEW t \in threads, NEW dst \in points, insertReverse(t, dst)
  PROVE  LinkInv'
<1>. DEFINE L == neighbors[dst] \cup {at[t]}
<1>1. /\ TypeOK /\ t \in Thread /\ dst \in pruned[t] /\ pc[t] = "insert"
      /\ at[t] \in points /\ at[t] \in Linked /\ at[t] # dst
  BY DEF LinkInv, TypeOK, LoopInv, ListInv, Busy, Linked, insertReverse
<1>2. L \in SUBSET points /\ L \subseteq Visible \ {dst} /\ L # {}
  BY <1>1 DEF LinkInv, TypeOK, DegreesBounded, EdgesToLinked, Visible
<1>3. Cardinality(L) <= SlackDegree
  <2>1. CASE at[t] \in neighbors[dst]
    BY <2>1, L = neighbors[dst] DEF LinkInv, DegreesBounded
  <2>2. CASE HasRoom(dst)
    <3>1. Cardinality(L) <= Cardinality(neighbors[dst]) + 1 /\ Cardinality(neighbors[dst]) \in Nat
      BY <1>1, SetFacts DEF TypeOK
    <3>2. Cardinality(L) \in Nat
      BY <1>1, <1>2, SetFacts
    <3>3. QED
      BY <2>2, <3>1, <3>2, DegreeAssumption DEF HasRoom
  <2>3. QED
    BY <2>1, <2>2 DEF insertReverse
<1>4. /\ target' = [target EXCEPT ![t] = target'[t]] /\ target'[t] \in points \cup {NoVector}
      /\ newList' = [newList EXCEPT ![t] = newList'[t]] /\ newList'[t] \in SUBSET points
  BY <1>1 DEF TypeOK, insertReverse
<1>5. QED
  BY <1>1, <1>2, <1>3, <1>4, InterInsertStep DEF insertReverse

\* Writing back a pruned copy keeps it, whatever others inserted meanwhile.
LEMMA WriteBackStep ==
  ASSUME LinkInv, NEW t \in threads, writeBack(t)
  PROVE  LinkInv'
<1>. DEFINE dst == target[t]
            L == newList[t]
<1>1. /\ TypeOK /\ t \in Thread /\ dst \in pruned[t] /\ pc[t] = "write"
      /\ L \in SUBSET points /\ L \subseteq Visible \ {dst} /\ L # {}
      /\ Cardinality(L) <= MaxDegree
  BY DEF LinkInv, TypeOK, ListInv, writeBack
<1>2. Cardinality(L) <= SlackDegree
  <2>1. Cardinality(L) \in Nat
    BY <1>1, SetFacts
  <2>2. QED
    BY <1>1, <2>1, DegreeAssumption
<1>3. /\ target' = [target EXCEPT ![t] = target'[t]] /\ target'[t] \in points \cup {NoVector}
      /\ newList' = [newList EXCEPT ![t] = newList'[t]] /\ newList'[t] \in SUBSET points
  BY <1>1 DEF TypeOK, writeBack
<1>4. QED
  BY <1>1, <1>2, <1>3, InterInsertStep DEF writeBack

-----------------------------------------------------------------------------
\* The steps outside the parallel loop of link.

\* The complete graph of a small group satisfies the invariant.
LEMMA CompleteGraphStep ==
  ASSUME LinkInv, completeGraph
  PROVE  LinkInv'
<1>. TypeOK /\ (\A t \in Thread : ~Busy(t)) /\ Linked' = points /\ phase' = "built"
  BY DEF LinkInv, TypeOK, LoopInv, Linked, completeGraph, local
<1>1. TypeOK'
  BY DEF TypeOK, completeGraph, local
<1>2. LoopInv' /\ SearchInv' /\ ListInv'
  BY DEF LinkInv, LoopInv, SearchInv, ListInv, Busy, completeGraph, local
<1>3. \A v, w \in points : v # w => w \in neighbors'[v]
  BY DEF completeGraph
<1>4. SequentialInv'
  BY <1>3 DEF TypeOK, SequentialInv, Sequential, Busy, completeGraph, local
<1>5. DegreesBounded'
  <2>1. \A v \in points : Cardinality(points \ {v}) <= MaxDegree
    <3>1. IsFiniteSet(points) /\ Cardinality(points) \in Nat
      BY SetFacts
    <3>2. \A v \in points : Cardinality(points \ {v}) = Cardinality(points) - 1
      BY <3>1, FS_RemoveElement
    <3>3. QED
      BY <3>1, <3>2, DegreeAssumption DEF completeGraph
  <2>2. \A v \in points : Cardinality(points \ {v}) \in Nat
    BY SetFacts
  <2>3. QED
    BY <2>1, <2>2, DegreeAssumption DEF DegreesBounded, completeGraph, local
<1>6. EdgesToLinked' /\ NoDeadEnds'
  BY <1>3 DEF TypeOK, EdgesToLinked, NoDeadEnds, completeGraph, local
<1>7. QED
  BY <1>1, <1>2, <1>4, <1>5, <1>6 DEF LinkInv

\* Starting to link a larger group keeps the invariant.
LEMMA BuildStep ==
  ASSUME LinkInv, build
  PROVE  LinkInv'
<1>. TypeOK /\ (\A t \in Thread : ~Busy(t)) /\ (\A v \in points : neighbors[v] = {})
  BY DEF LinkInv, LoopInv, build, local
<1>1. Linked' = {}
  BY DEF Linked, build, local
<1>2. TypeOK' /\ LoopInv' /\ SearchInv' /\ ListInv'
  BY DEF LinkInv, TypeOK, LoopInv, SearchInv, ListInv, Busy, build, local
<1>3. SequentialInv' /\ DegreesBounded' /\ EdgesToLinked' /\ NoDeadEnds'
  BY <1>1 DEF LinkInv, TypeOK, SequentialInv, Sequential, DegreesBounded,
     EdgesToLinked, NoDeadEnds, Busy, build, local
<1>4. QED
  BY <1>2, <1>3 DEF LinkInv

\* Ending the linking loop keeps the invariant.
LEMMA StartCleanupStep ==
  ASSUME LinkInv, startCleanup
  PROVE  LinkInv'
<1>. TypeOK /\ (\A t \in Thread : ~Busy(t))
  BY DEF LinkInv, LoopInv, LoopDone, Busy, startCleanup, local
<1>1. Linked = points /\ Linked' = points
  BY DEF Linked, Busy, TypeOK, LoopDone, startCleanup, local
<1>2. TypeOK' /\ LoopInv' /\ SearchInv' /\ ListInv'
  BY DEF LinkInv, TypeOK, LoopInv, SearchInv, ListInv, Busy, startCleanup, local
<1>3. SequentialInv' /\ DegreesBounded' /\ EdgesToLinked' /\ NoDeadEnds'
  BY <1>1 DEF LinkInv, TypeOK, SequentialInv, Sequential, DegreesBounded, EdgesToLinked, NoDeadEnds, Busy, startCleanup, local
<1>4. QED
  BY <1>2, <1>3 DEF LinkInv

\* Pruning a list back to the degree bound keeps the invariant.
LEMMA CleanupStep ==
  ASSUME LinkInv, NEW v \in points, cleanup(v)
  PROVE  LinkInv'
<1>. TypeOK /\ (\A t \in Thread : ~Busy(t)) /\ Linked = points /\ Linked' = points
  BY DEF LinkInv, LoopInv, Linked, cleanup, local
<1>1. PICK L \in SUBSET points : /\ neighbors' = [neighbors EXCEPT ![v] = L]
                                 /\ L \subseteq neighbors[v]
                                 /\ L = {} => neighbors[v] = {}
                                 /\ Cardinality(L) <= MaxDegree
  <2>0. Cardinality(neighbors[v]) \in Nat
    BY SetFacts DEF TypeOK
  <2>1. CASE Cardinality(neighbors[v]) > MaxDegree
    <3>1. PICK R \in Pruned(v, neighbors[v]) : neighbors' = [neighbors EXCEPT ![v] = R]
      BY <2>1 DEF cleanup
    <3>2. R \in SUBSET points /\ R \subseteq neighbors[v] \ {v} /\ Cardinality(R) <= MaxDegree
          /\ (R = {} => neighbors[v] \ {v} = {})
      BY PrunedFacts DEF TypeOK
    <3>3. v \notin neighbors[v]
      BY DEF LinkInv, DegreesBounded
    <3>4. QED
      BY <3>1, <3>2, <3>3
  <2>2. CASE ~(Cardinality(neighbors[v]) > MaxDegree)
    <3>1. neighbors' = [neighbors EXCEPT ![v] = neighbors[v]]
      BY <2>2 DEF TypeOK, cleanup, local
    <3>2. Cardinality(neighbors[v]) <= MaxDegree
      BY <2>0, <2>2, DegreeAssumption
    <3>3. neighbors[v] \in SUBSET points
      BY DEF TypeOK
    <3>4. QED
      BY <3>1, <3>2, <3>3
  <2>3. QED
    BY <2>1, <2>2
<1>2. TypeOK' /\ SearchInv' /\ ListInv'
  BY <1>1 DEF LinkInv, TypeOK, SearchInv, ListInv, Busy, cleanup, local
<1>3. LoopInv'
  BY <1>1 DEF LinkInv, TypeOK, LoopInv, Busy, cleanup, local
<1>4. DegreesBounded'
  <2>1. Cardinality(L) <= SlackDegree
    BY <1>1, SetFacts, DegreeAssumption
  <2>2. QED
    BY <1>1, <2>1 DEF LinkInv, TypeOK, DegreesBounded, cleanup, local
<1>5. SequentialInv' /\ EdgesToLinked' /\ NoDeadEnds'
  BY <1>1 DEF LinkInv, TypeOK, SequentialInv, Sequential, EdgesToLinked, NoDeadEnds, Busy, cleanup, local
<1>6. QED
  BY <1>2, <1>3, <1>4, <1>5 DEF LinkInv

\* Ending the cleanup keeps the invariant.
LEMMA EndCleanupStep ==
  ASSUME LinkInv, endCleanup
  PROVE  LinkInv'
<1>. TypeOK /\ (\A t \in Thread : ~Busy(t)) /\ Linked = points /\ Linked' = points
  BY DEF LinkInv, LoopInv, Linked, endCleanup, local
<1>1. TypeOK' /\ LoopInv' /\ SearchInv' /\ ListInv'
  BY DEF LinkInv, TypeOK, LoopInv, SearchInv, ListInv, Busy, endCleanup, local
<1>2. DegreesBounded'
  BY DEF LinkInv, LoopInv, LoopDone, DegreesBounded, endCleanup, local
<1>3. SequentialInv' /\ EdgesToLinked' /\ NoDeadEnds'
  BY DEF LinkInv, TypeOK, SequentialInv, Sequential, EdgesToLinked, NoDeadEnds, Busy, endCleanup, local
<1>4. QED
  BY <1>1, <1>2, <1>3 DEF LinkInv

-----------------------------------------------------------------------------
\* Every step keeps the inductive invariant.
LEMMA LinkNext == LinkInv /\ [NextLink]_linkVars => LinkInv'
<1>. SUFFICES ASSUME LinkInv, [NextLink]_linkVars PROVE LinkInv'
  OBVIOUS
<1>1. ASSUME NEW t \in threads, iterate(t) PROVE LinkInv'
  BY <1>1, TakeStep, ExpandStep, PruneStep, OverwriteStep, InsertReverseStep, CopyFullStep, WriteBackStep
     DEF iterate
<1>2. ASSUME Main PROVE LinkInv'
  BY <1>2, CompleteGraphStep, BuildStep, StartCleanupStep, CleanupStep, EndCleanupStep DEF Main
<1>3. CASE UNCHANGED linkVars
  BY <1>3 DEF linkVars, local, LinkInv, TypeOK, LoopInv, SearchInv, SearchOf, ListInv, SequentialInv, Sequential,
     DegreesBounded, EdgesToLinked, NoDeadEnds, Linked, Visible, Busy
<1>4. QED
  BY <1>1, <1>2, <1>3 DEF NextLink

\* The invariant holds for any group, any number of threads and any degrees.
THEOREM LinkInvariance == SpecLink => []LinkInv
BY LinkInit, LinkNext, PTL DEF SpecLink

\* No list grows beyond the slack degree, whatever the threads insert in it,
\* and none is longer than the degree when Vamana::build returns.
THEOREM DegreesAreBounded == SpecLink => []DegreesBounded
<1>1. LinkInv => DegreesBounded
  BY DEF LinkInv
<1>2. QED
  BY <1>1, LinkInvariance, PTL

\* A search of link reads only vectors whose own list has been written.
THEOREM EdgesLeadToLinked == SpecLink => []EdgesToLinked
<1>1. LinkInv => EdgesToLinked
  BY DEF LinkInv
<1>2. QED
  BY <1>1, LinkInvariance, PTL

\* The reverse edges of inter_insert leave no linked vector without neighbours.
THEOREM NoSearchEndsInADeadEnd == SpecLink => []NoDeadEnds
<1>1. LinkInv => NoDeadEnds
  BY DEF LinkInv
<1>2. QED
  BY <1>1, LinkInvariance, PTL

-----------------------------------------------------------------------------
\* The order in which FAVOR's heaps hand out elements.

ByPlace(p) == {q \in Element \X Element :
                  Improves(q[1], q[2], p) \/ (~Improves(q[2], q[1], p) /\ q[1] < q[2])}

Placed == pos \in [Element -> Nat]

\* The elements are finitely many.
LEMMA ElementsFinite == IsFiniteSet(Element)
  BY FavorAssumption, FS_Interval DEF Element

\* It is total: equal distances are told apart by the ids.
LEMMA OrderedByPlace ==
    ASSUME Placed, NEW p \in Nat
    PROVE  TotalOn(ByPlace(p), Element)
<1> DEFINE d == [e \in Element |-> Dist(pos[e], p)]
<1>1. \A e \in Element : d[e] \in Int /\ e \in Int
  BY FavorAssumption DEF Dist, Placed, Element
<1>2. \A a, b \in Element : Improves(a, b, p) <=> d[a] < d[b]
  BY DEF Improves
<1> HIDE DEF d
<1>3. \A a, b : <<a, b>> \in ByPlace(p) <=>
          a \in Element /\ b \in Element /\ (d[a] < d[b] \/ (~(d[b] < d[a]) /\ a < b))
  BY <1>2 DEF ByPlace
<1>4. \A i \in Element : <<i, i>> \notin ByPlace(p)
  BY <1>1, <1>3
<1>5. \A i, j \in Element : i # j => <<i, j>> \in ByPlace(p) \/ <<j, i>> \in ByPlace(p)
  BY <1>1, <1>3
<1>6. ASSUME NEW i \in Element, NEW j \in Element, NEW k \in Element,
             <<i, j>> \in ByPlace(p), <<j, k>> \in ByPlace(p)
      PROVE  <<i, k>> \in ByPlace(p)
  <2>1. /\ d[i] < d[j] \/ (~(d[j] < d[i]) /\ i < j)
        /\ d[j] < d[k] \/ (~(d[k] < d[j]) /\ j < k)
    BY <1>3, <1>6
  <2>2. d[i] < d[k] \/ (~(d[k] < d[i]) /\ i < k)
    BY <1>1, <2>1
  <2>3. QED
    BY <1>3, <2>2
<1>7. QED
  BY <1>4, <1>5, <1>6 DEF TotalOn

\* What the model takes as closer is nearer in that order.
LEMMA CloserIsNearer ==
    ASSUME NEW p, NEW S, S \subseteq Element, NEW e \in Element
    PROVE  CloserTo(e, S, p) = Nearer(ByPlace(p), S, e)
  BY DEF CloserTo, Nearer, ByPlace

\* The n closest are the n nearest in that order.
LEMMA ClosestOfIsNearest ==
    ASSUME NEW p, NEW S, S \subseteq Element, NEW n
    PROVE  ClosestOf(S, n, p) = Nearest(ByPlace(p), S, n)
  BY CloserIsNearer DEF ClosestOf, Nearest

\* There is one closest element of some.
LEMMA ClosestFacts ==
    ASSUME Placed, NEW p \in Nat, NEW S, S \subseteq Element, S # {}
    PROVE  Closest(S, p) \in S /\ CloserTo(Closest(S, p), S, p) = {}
<1>1. IsFiniteSet(S)
  BY ElementsFinite, FS_Subset
<1>2. PICK j \in S : \A k \in S : k # j => <<j, k>> \in ByPlace(p)
  BY <1>1, OrderedByPlace, ClosestMember
<1>3. CloserTo(j, S, p) = {}
  <2>1. SUFFICES ASSUME NEW k \in S, <<k, j>> \in ByPlace(p) PROVE FALSE
    <3>1. CloserTo(j, S, p) = Nearer(ByPlace(p), S, j)
      BY CloserIsNearer
    <3>2. QED
      BY <3>1 DEF Nearer
  <2>2. QED
    BY <1>2, <2>1, OrderedByPlace DEF TotalOn
<1>4. QED
  BY <1>3, Zenon DEF Closest

\* And one farthest.
LEMMA FarthestFacts ==
    ASSUME Placed, NEW p \in Nat, NEW S, S \subseteq Element, S # {}
    PROVE  Farthest(S, p) \in S /\ CloserTo(Farthest(S, p), S, p) = S \ {Farthest(S, p)}
<1>1. IsFiniteSet(S)
  BY ElementsFinite, FS_Subset
<1>2. PICK j \in S : \A k \in S : k # j => <<k, j>> \in ByPlace(p)
  BY <1>1, OrderedByPlace, FarthestMember
<1>3. CloserTo(j, S, p) = S \ {j}
  <2>1. CloserTo(j, S, p) = Nearer(ByPlace(p), S, j)
    BY CloserIsNearer
  <2>2. <<j, j>> \notin ByPlace(p)
    BY OrderedByPlace DEF TotalOn
  <2>3. QED
    BY <1>2, <2>1, <2>2 DEF Nearer
<1>4. QED
  BY <1>3, Zenon DEF Farthest

\* What a search keeps: of some elements never none.
\* The n closest: some of some, all of few, n of more.
LEMMA ClosestOfFacts ==
    ASSUME Placed, NEW p \in Nat, NEW S, S \subseteq Element, NEW n \in Nat
    PROVE  /\ ClosestOf(S, n, p) \subseteq S
           /\ n > 0 /\ S # {} => ClosestOf(S, n, p) # {}
           /\ Cardinality(S) <= n => ClosestOf(S, n, p) = S
           /\ Cardinality(S) > n => Cardinality(ClosestOf(S, n, p)) = n
<1>1. IsFiniteSet(S) /\ Cardinality(S) \in Nat
  BY ElementsFinite, FS_Subset, FS_CardinalityType
<1>2. TotalOn(ByPlace(p), Element)
  BY OrderedByPlace
<1>3. ClosestOf(S, n, p) = Nearest(ByPlace(p), S, n)
  BY ClosestOfIsNearest
<1>4. ClosestOf(S, n, p) \subseteq S
  BY DEF ClosestOf
<1>5. ASSUME n > 0, S # {} PROVE ClosestOf(S, n, p) # {}
  <2>1. Closest(S, p) \in S /\ CloserTo(Closest(S, p), S, p) = {}
    BY <1>5, ClosestFacts
  <2>2. Cardinality(CloserTo(Closest(S, p), S, p)) = 0
    BY <2>1, FS_EmptySet
  <2>3. QED
    BY <1>5, <2>1, <2>2 DEF ClosestOf
<1>6. Cardinality(S) <= n => ClosestOf(S, n, p) = S
  BY <1>1, <1>2, <1>3, NearestOfFew
<1>7. ASSUME Cardinality(S) > n PROVE Cardinality(ClosestOf(S, n, p)) = n
  <2>1. PICK x \in S : x \notin Nearest(ByPlace(p), S, n)
    <3>1. SUFFICES ASSUME Nearest(ByPlace(p), S, n) = S PROVE FALSE
      BY <1>3, <1>4
    <3>2. Cardinality(S) <= n
      BY <1>1, <1>2, <3>1, NearestBounded
    <3>3. QED
      BY <1>1, <1>7, <3>2
  <2>2. QED
    BY <1>1, <1>2, <1>3, <2>1, NearestFull
<1>8. QED
  BY <1>4, <1>5, <1>6, <1>7

-----------------------------------------------------------------------------
\* getNeighborsByHeuristic2.

\* R is what the loop of the heuristic keeps of S.
Keeps(R, S, m, p) ==
    /\ R \in SUBSET S
    /\ \A e \in S :
         LET before == CloserTo(e, R, p)
         IN  e \in R <=> /\ Cardinality(before) < m
                         /\ \A r \in before : Dist(pos[r], pos[e]) >= Dist(pos[e], p)

\* The heuristic's loop has a result, and keeps the nearest element.
LEMMA SomethingIsKept ==
    ASSUME Placed, NEW p \in Nat, NEW m \in Nat
    PROVE  \A S : S \subseteq Element => \E R : Keeps(R, S, m, p)
<1> DEFINE K == {n \in Nat : \A S : S \subseteq Element /\ Cardinality(S) = n =>
                                      \E R : Keeps(R, S, m, p)}
<1>1. 0 \in K
  <2>1. SUFFICES ASSUME NEW S, S \subseteq Element, Cardinality(S) = 0
                 PROVE  Keeps({}, S, m, p)
    OBVIOUS
  <2>2. S = {}
    BY <2>1, ElementsFinite, FS_Subset, FS_EmptySet
  <2>3. QED
    BY <2>2 DEF Keeps
<1>2. ASSUME NEW n \in Nat, n \in K PROVE n + 1 \in K
  <2>1. SUFFICES ASSUME NEW S, S \subseteq Element, Cardinality(S) = n + 1
                 PROVE  \E R : Keeps(R, S, m, p)
    OBVIOUS
  <2>2. IsFiniteSet(S) /\ S # {}
    BY <2>1, ElementsFinite, FS_Subset, FS_EmptySet
  <2>3. PICK x \in S : \A k \in S : k # x => <<k, x>> \in ByPlace(p)
    BY <2>1, <2>2, OrderedByPlace, FarthestMember
  <2> DEFINE S0 == S \ {x}
  <2>4. S0 \subseteq Element /\ Cardinality(S0) = n
    <3>1. Cardinality(S \ {x}) = Cardinality(S) - 1
      BY <2>2, FS_RemoveElement
    <3>2. QED
      BY <2>1, <3>1
  <2>5. PICK R0 : Keeps(R0, S0, m, p)
    BY <1>2, <2>4
  <2> DEFINE In2 == /\ Cardinality(CloserTo(x, R0, p)) < m
                    /\ \A r \in CloserTo(x, R0, p) : Dist(pos[r], pos[x]) >= Dist(pos[x], p)
             R == R0 \cup (IF In2 THEN {x} ELSE {})
  <2>6. ASSUME NEW e \in S PROVE CloserTo(e, R, p) = CloserTo(e, R0, p)
    <3>1. e \in Element /\ x \in Element /\ R0 \subseteq Element /\ R \subseteq Element
      BY <2>1, <2>4, <2>5 DEF Keeps
    <3>2. <<x, e>> \notin ByPlace(p)
      BY <2>1, <2>3, <3>1, OrderedByPlace DEF TotalOn
    <3>3. Nearer(ByPlace(p), R, e) = Nearer(ByPlace(p), R0, e)
      BY <3>2 DEF Nearer
    <3>4. QED
      BY <3>1, <3>3, CloserIsNearer
  <2>7. Keeps(R, S, m, p)
    <3>1. R \subseteq S /\ x \notin R0 /\ R0 \subseteq S
      BY <2>5 DEF Keeps
    <3>2. ASSUME NEW e \in S
          PROVE  e \in R <=> /\ Cardinality(CloserTo(e, R, p)) < m
                             /\ \A r \in CloserTo(e, R, p) : Dist(pos[r], pos[e]) >= Dist(pos[e], p)
      <4>1. CASE e = x
        BY <4>1, <2>6, <3>1
      <4>2. CASE e # x
        <5>1. e \in S0 /\ (e \in R <=> e \in R0)
          BY <4>2
        <5>2. e \in R0 <=> /\ Cardinality(CloserTo(e, R0, p)) < m
                           /\ \A r \in CloserTo(e, R0, p) : Dist(pos[r], pos[e]) >= Dist(pos[e], p)
          BY <2>5, <5>1, Zenon DEF Keeps
        <5>3. QED
          BY <5>1, <5>2, <2>6
      <4>3. QED
        BY <4>1, <4>2
    <3> HIDE DEF R
    <3>3. QED
      BY <3>1, <3>2 DEF Keeps
  <2>8. QED
    BY <2>7
<1> HIDE DEF K
<1>3. \A n \in Nat : n \in K
  BY <1>1, <1>2, SetInduction
<1>4. SUFFICES ASSUME NEW S, S \subseteq Element PROVE \E R : Keeps(R, S, m, p)
  OBVIOUS
<1>5. Cardinality(S) \in Nat
  BY <1>4, ElementsFinite, FS_Subset, FS_CardinalityType
<1>6. QED
  BY <1>3, <1>4, <1>5 DEF K

(***************************************************************************)
(* The heuristic keeps some of its candidates, never none and never more   *)
(* than it may (favor.h, lines 287-340).                                   *)
(***************************************************************************)
LEMMA HeuristicFacts ==
    ASSUME Placed, NEW p \in Nat, NEW m \in Nat \ {0}, NEW S, S \subseteq Element
    PROVE  /\ Heuristic(S, m, p) \subseteq S
           /\ Cardinality(Heuristic(S, m, p)) <= m
           /\ S # {} => Heuristic(S, m, p) # {}
<1> DEFINE H == Heuristic(S, m, p)
<1>1. IsFiniteSet(S) /\ Cardinality(S) \in Nat
  BY ElementsFinite, FS_Subset, FS_CardinalityType
<1>2. CASE Cardinality(S) < m
  BY <1>1, <1>2 DEF Heuristic
<1>3. CASE ~(Cardinality(S) < m)
  <2>1. H = CHOOSE R \in SUBSET S : \A e \in S :
              LET before == CloserTo(e, R, p)
              IN  e \in R <=> /\ Cardinality(before) < m
                              /\ \A r \in before : Dist(pos[r], pos[e]) >= Dist(pos[e], p)
    BY <1>3 DEF Heuristic
  <2>2. PICK R : Keeps(R, S, m, p)
    BY SomethingIsKept
  <2>3. Keeps(H, S, m, p)
    BY <2>1, <2>2, Zenon DEF Keeps
  <2> HIDE DEF H
  <2>4. H \subseteq S /\ H \subseteq Element /\ IsFiniteSet(H)
    BY <1>1, <2>3, FS_Subset DEF Keeps
  <2>5. Cardinality(H) <= m
    <3>1. CASE H = {}
      BY <3>1, FS_EmptySet
    <3>2. CASE H # {}
      <4>1. PICK x \in H : CloserTo(x, H, p) = H \ {x}
        BY <2>4, <3>2, FarthestFacts
      <4>2. Cardinality(H \ {x}) < m
        BY <2>3, <2>4, <4>1 DEF Keeps
      <4>3. Cardinality(H \ {x}) = Cardinality(H) - 1 /\ Cardinality(H) \in Nat
        BY <2>4, FS_RemoveElement, FS_CardinalityType
      <4>4. QED
        BY <4>2, <4>3
    <3>3. QED
      BY <3>1, <3>2
  <2>6. ASSUME S # {} PROVE H # {}
    <3>1. PICK x \in S : CloserTo(x, S, p) = {}
      BY <2>6, ClosestFacts
    <3>2. CloserTo(x, H, p) = {}
      BY <2>4, <3>1 DEF CloserTo
    <3>3. Cardinality(CloserTo(x, H, p)) < m
      BY <3>2, FS_EmptySet
    <3>4. x \in H
      BY <2>3, <3>2, <3>3 DEF Keeps
    <3>5. QED
      BY <3>4
  <2>7. QED
    BY <2>4, <2>5, <2>6 DEF H
<1>4. QED
  BY <1>2, <1>3
-----------------------------------------------------------------------------
\* The inductive invariant of FAVOR, in named parts.

\* Inserted to the end: nobody holds the list any more.
Finished == {e \in Element : e < count /\ owner[e] = Nobody}

Inserters == [pc : {"idle", "top", "entry", "descend", "search", "link", "finish"},
              cur : Element \cup {None}, top : Level \cup {None}, obj : Element \cup {None},
              lvl : Level \cup {None},
              found : SUBSET Element, done : SUBSET Element, rest : SUBSET Element]

FavorTyped ==
    /\ pos \in [Element -> Nat] /\ count \in 0 .. NumElements
    /\ level \in [Element -> Level \cup {None}]
    /\ \A e \in Element : level[e] = None <=> e >= count
    /\ links \in [Element -> [Level -> SUBSET Element]]
    /\ owner \in [Element -> Builder \cup {Nobody}] /\ global \in Builder \cup {Nobody}
    /\ enterpoint \in Element \cup {None} /\ maxlevel \in Level \cup {None}
    /\ inserter \in [Builder -> Inserters]

\* A thread holds the list of the element it inserts, and no other.
OwnOf(t) == IF At(t, "idle") THEN In(t).cur = None
            ELSE In(t).cur \in Element /\ In(t).cur < count /\ owner[In(t).cur] = t

OwnInv == /\ \A t \in Builder : OwnOf(t)
          /\ \A e \in Element : owner[e] # Nobody => In(owner[e]).cur = e

\* The mutex: while a thread inserts the highest element nobody else can.
HighOf(t) == ~At(t, "idle") /\ ~At(t, "top") =>
                 /\ In(t).top <= maxlevel
                 /\ level[In(t).cur] > In(t).top <=> global = t
                 /\ global = t => maxlevel = In(t).top

HighInv == /\ \A t \in Builder : HighOf(t)
           /\ global # Nobody => ~At(global, "idle") /\ ~At(global, "top")
           /\ enterpoint = None <=> maxlevel = None
           /\ enterpoint # None => enterpoint \in Finished /\ level[enterpoint] = maxlevel
           /\ \A e \in Finished : level[e] <= maxlevel

\* What a thread has found lies on the level it is on; what it has read and
\* what it links is inserted to the end.
WhereOf(t) ==
    /\ At(t, "descend") => /\ In(t).lvl > level[In(t).cur] /\ In(t).lvl <= In(t).top
                           /\ In(t).obj \in Has(In(t).lvl)
    /\ At(t, "search") \/ At(t, "link") =>
          In(t).lvl \in Level /\ In(t).lvl <= level[In(t).cur] /\ In(t).lvl <= In(t).top
    /\ At(t, "search") => /\ In(t).found # {} /\ In(t).found \subseteq Has(In(t).lvl) \ {In(t).cur}
                          /\ In(t).done \subseteq Finished
    /\ At(t, "link") => /\ In(t).rest # {} /\ In(t).rest \subseteq Finished \cap Has(In(t).lvl)
                        /\ In(t).obj \in Finished \cap Has(In(t).lvl)

WhereInv == \A t \in Builder : WhereOf(t)

\* The levels on which a thread has not yet linked its element, and those it has.
Ahead(t, l)  == \/ At(t, "top") \/ At(t, "entry") \/ At(t, "descend")
                \/ (At(t, "search") /\ l <= In(t).lvl) \/ (At(t, "link") /\ l < In(t).lvl)
Behind(t, l) == \/ At(t, "finish")
                \/ (At(t, "search") /\ l > In(t).lvl) \/ (At(t, "link") /\ l >= In(t).lvl)

\* An element is unknown on the levels ahead, and linked on those behind.
LinksOf(t) ==
    /\ \A l \in Level : Ahead(t, l) =>
          links[In(t).cur][l] = {} /\ \A n \in Element : In(t).cur \notin links[n][l]
    /\ At(t, "link") => \A n \in In(t).rest : In(t).cur \notin links[n][In(t).lvl]
    /\ \A l \in Level : Behind(t, l) /\ l <= In(t).top /\ l <= level[In(t).cur] =>
          links[In(t).cur][l] # {}

LinksInv == \A t \in Builder : LinksOf(t)

GraphInv == \A e \in Element, l \in Level :
               /\ links[e][l] \subseteq Has(l) \ {e}
               /\ Cardinality(links[e][l]) <= Capacity(l)
               /\ links[e][l] # {} => e \in Has(l)

\* While an element has no neighbour on a level it is the only finished one
\* there, and everybody whose element will have that level is about to link it.
MeetsOf(t, e, l) ==
    In(t).cur \in Has(l) =>
        /\ At(t, "search") \/ At(t, "link") => In(t).lvl >= l
        /\ At(t, "search") /\ In(t).lvl = l => In(t).found = {e}
        /\ At(t, "link") /\ In(t).lvl = l => In(t).rest = {e}
        /\ ~At(t, "finish")

LoneInv == \A l \in Level : \A e \in Finished \cap Has(l) : links[e][l] = {} =>
              Finished \cap Has(l) = {e} /\ \A t \in Builder : MeetsOf(t, e, l)

BuildInv == FavorTyped /\ OwnInv /\ HighInv /\ WhereInv /\ LinksInv /\ GraphInv /\ LoneInv

QueryInv ==
    /\ DOMAIN search = DOMAIN NotSearching
    /\ search.pass \subseteq Element /\ search.k \in Nat \ {0} /\ search.place \in Nat
    /\ search.pc \in {"none", "descend"} => search.open = {}
    /\ search.pc # "base" => search.pending = {}
    /\ search.pc = "base" => /\ search.pool \subseteq DOMAIN search.seen
                             /\ search.pending \cap DOMAIN search.seen = {}
                             /\ search.inRange = InRange(search.pool, search)
    /\ search.pc = "done" /\ search.open # {} => 2 * Cardinality(search.answer) > search.k

-----------------------------------------------------------------------------
\* What an insertion changes.

\* A step changes the state of its own thread only.
LEMMA StepFacts ==
    ASSUME inserter \in [Builder -> Inserters], NEW t \in Builder, NEW r \in Inserters, Step(t, r)
    PROVE  /\ inserter' \in [Builder -> Inserters]
           /\ In(t)' = r
           /\ \A u \in Builder \ {t} : In(u)' = In(u)
  BY DEF Step, In

\* What the invariant says of the elements that are there.
LEMMA ElementFacts ==
    ASSUME BuildInv
    PROVE  /\ Placed
           /\ \A e \in Element : level[e] \in Int /\ (e < count => level[e] \in Level)
           /\ \A l \in Level : l \in Nat /\ Has(l) \subseteq Element
           /\ \A l \in Level : \A e \in Has(l) : e < count
           /\ \A t \in Builder : ~At(t, "idle") => /\ In(t).cur \in Element /\ In(t).cur \notin Finished
                                                   /\ pos[In(t).cur] \in Nat
                                                   /\ level[In(t).cur] \in Level
           /\ \A t, u \in Builder : t # u /\ ~At(t, "idle") => In(t).cur # In(u).cur
<1> USE FavorAssumption
<1>1. FavorTyped /\ OwnInv
  BY DEF BuildInv
<1>2. Placed
  BY <1>1 DEF FavorTyped, Placed
<1>3. \A e \in Element : level[e] \in Int /\ (e < count => level[e] \in Level)
  <2> TAKE e \in Element
  <2>1. level[e] \in Level \cup {None} /\ (level[e] = None <=> e >= count) /\ count \in Int /\ e \in Int
    BY <1>1 DEF FavorTyped, Element
  <2>2. QED
    BY <2>1 DEF Level, None
<1>4. \A l \in Level : l \in Nat /\ Has(l) \subseteq Element
  BY DEF Level, Has
<1>5. \A l \in Level : \A e \in Has(l) : e < count
  <2> TAKE l \in Level
  <2> TAKE e \in Has(l)
  <2>1. e \in Element /\ level[e] >= l /\ l \in Nat
    BY DEF Has, Level
  <2>2. level[e] # None
    BY <2>1 DEF None
  <2>3. (level[e] = None <=> e >= count) /\ count \in Int /\ e \in Int
    BY <1>1, <2>1 DEF FavorTyped, Element
  <2>4. QED
    BY <2>2, <2>3
<1>6. ASSUME NEW t \in Builder, ~At(t, "idle")
      PROVE  /\ In(t).cur \in Element /\ In(t).cur \notin Finished
             /\ pos[In(t).cur] \in Nat /\ level[In(t).cur] \in Level
  <2>1. In(t).cur \in Element /\ In(t).cur < count /\ owner[In(t).cur] = t
    BY <1>1, <1>6 DEF OwnInv, OwnOf
  <2>2. In(t).cur \notin Finished
    BY <2>1 DEF Finished
  <2>3. QED
    BY <1>2, <1>3, <2>1, <2>2 DEF Placed
<1>7. ASSUME NEW t \in Builder, NEW u \in Builder, t # u, ~At(t, "idle")
      PROVE  In(t).cur # In(u).cur
  <2>1. In(t).cur \in Element /\ owner[In(t).cur] = t
    BY <1>1, <1>7 DEF OwnInv, OwnOf
  <2>2. At(u, "idle") => In(u).cur = None
    BY <1>1 DEF OwnInv, OwnOf
  <2>3. ~At(u, "idle") => owner[In(u).cur] = u
    BY <1>1 DEF OwnInv, OwnOf
  <2>4. None \notin Element
    BY DEF None, Element
  <2>5. QED
    BY <1>7, <2>1, <2>2, <2>3, <2>4
<1>8. QED
  BY <1>2, <1>3, <1>4, <1>5, <1>6, <1>7

(***************************************************************************)
(* A step that changes nothing of the graph but who holds the mutex needs  *)
(* to be looked at for its own thread only.                                *)
(***************************************************************************)
LEMMA LocalStep ==
    ASSUME BuildInv, NEW t \in Builder, NEW r \in Inserters, Step(t, r), ~At(t, "idle"),
           r.pc # "idle", r.cur = In(t).cur,
           UNCHANGED <<pos, count, level, links, owner, enterpoint, maxlevel>>,
           global' \in Builder \cup {Nobody},
           (global # Nobody => ~At(global, "idle") /\ ~At(global, "top"))',
           \A u \in Builder : HighOf(u)',
           WhereOf(t)', LinksOf(t)',
           \A l \in Level, e \in Finished : e \in Has(l) /\ links[e][l] = {} /\ In(t).cur \in Has(l)
              /\ Finished \cap Has(l) = {e} => MeetsOf(t, e, l)'
    PROVE  BuildInv'
<1>1. /\ FavorTyped /\ OwnInv /\ HighInv /\ WhereInv /\ LinksInv /\ GraphInv /\ LoneInv
  BY DEF BuildInv
<1>2. /\ inserter' \in [Builder -> Inserters] /\ In(t)' = r
      /\ \A u \in Builder \ {t} : In(u)' = In(u)
  BY <1>1, StepFacts DEF FavorTyped
<1>3. Finished' = Finished /\ \A l : Has(l)' = Has(l)
  BY DEF Finished, Has
<1>4. FavorTyped'
  BY <1>1, <1>2 DEF FavorTyped
<1>5. OwnInv'
  <2>1. \A u \in Builder \ {t} : OwnOf(u)'
    BY <1>1, <1>2 DEF OwnInv, OwnOf, At
  <2>2. OwnOf(t)'
    BY <1>1, <1>2 DEF OwnInv, OwnOf, At
  <2>3. \A u \in Builder : In(u)'.cur = In(u).cur
    BY <1>2
  <2>4. ASSUME NEW e \in Element, owner[e] # Nobody PROVE In(owner[e])'.cur = e
    BY <1>1, <2>3, <2>4 DEF OwnInv, FavorTyped
  <2>5. (\A e \in Element : owner[e] # Nobody => In(owner[e]).cur = e)'
    BY <2>4
  <2>6. QED
    BY <2>1, <2>2, <2>5 DEF OwnInv
<1>6. HighInv'
  BY <1>1, <1>3 DEF HighInv
<1>7. WhereInv'
  <2>1. \A u \in Builder \ {t} : WhereOf(u)'
    BY <1>1, <1>2, <1>3 DEF WhereInv, WhereOf, At
  <2>2. QED
    BY <2>1 DEF WhereInv
<1>8. LinksInv'
  <2>1. \A u \in Builder \ {t} : LinksOf(u)'
    BY <1>1, <1>2 DEF LinksInv, LinksOf, At, Ahead, Behind
  <2>2. QED
    BY <2>1 DEF LinksInv
<1>9. GraphInv'
  BY <1>1, <1>3 DEF GraphInv
<1>10. LoneInv'
  <2>1. SUFFICES ASSUME NEW l \in Level, NEW e \in Finished \cap Has(l), links[e][l] = {}
                 PROVE  Finished \cap Has(l) = {e} /\ \A u \in Builder : MeetsOf(u, e, l)'
    BY <1>3 DEF LoneInv
  <2>2. Finished \cap Has(l) = {e} /\ \A u \in Builder : MeetsOf(u, e, l)
    BY <1>1, <2>1 DEF LoneInv
  <2>3. \A u \in Builder \ {t} : MeetsOf(u, e, l)'
    BY <1>2, <1>3, <2>2 DEF MeetsOf, At
  <2>4. MeetsOf(t, e, l)'
    <3>1. CASE In(t).cur \in Has(l)
      BY <2>1, <2>2, <3>1
    <3>2. CASE In(t).cur \notin Has(l)
      BY <1>2, <1>3, <3>2 DEF MeetsOf
    <3>3. QED
      BY <3>1, <3>2
  <2>5. QED
    BY <2>2, <2>3, <2>4
<1>11. QED
  BY <1>4, <1>5, <1>6, <1>7, <1>8, <1>9, <1>10 DEF BuildInv

-----------------------------------------------------------------------------
\* The actions of addPoint that only look at the graph.

\* Reading the highest level: who inserts a higher one keeps the mutex.
LEMMA ReadTopStep ==
    ASSUME BuildInv, NEW t \in Builder, readTop(t)
    PROVE  BuildInv'
<1> USE FavorAssumption
<1> DEFINE r == [In(t) EXCEPT !.pc = "entry", !.top = maxlevel]
<1>1. /\ FavorTyped /\ OwnInv /\ HighInv /\ WhereInv /\ LinksInv /\ GraphInv /\ LoneInv
      /\ level[In(t).cur] \in Int /\ maxlevel \in Int
  BY ElementFacts DEF BuildInv, readTop, At, FavorTyped, Level, None
<1>2. /\ At(t, "top") /\ global = Nobody /\ ~At(t, "idle") /\ Step(t, r)
      /\ global' = (IF level[In(t).cur] <= maxlevel THEN Nobody ELSE t)
      /\ UNCHANGED <<pos, count, level, links, owner, enterpoint, maxlevel>>
  BY DEF readTop, At
<1>3. In(t) \in Inserters
  BY <1>1 DEF FavorTyped, In
<1>4. /\ r \in Inserters /\ r.pc = "entry" /\ r.cur = In(t).cur /\ r.top = maxlevel
  BY <1>1, <1>3 DEF FavorTyped, Inserters
<1>5. /\ In(t)' = r /\ \A u \in Builder \ {t} : In(u)' = In(u)
  BY <1>1, <1>2, <1>4, StepFacts DEF FavorTyped
<1> HIDE DEF r
<1>6. ASSUME NEW u \in Builder PROVE HighOf(u)'
  <2>1. CASE u = t
    BY <1>1, <1>2, <1>4, <1>5, <2>1 DEF HighOf, At
  <2>2. CASE u # t
    <3>1. HighOf(u)
      BY <1>1 DEF HighInv
    <3>2. global # u /\ global' # u
      BY <1>2, <2>2
    <3>3. QED
      BY <1>2, <1>5, <2>2, <3>1, <3>2 DEF HighOf, At
  <2>3. QED
    BY <2>1, <2>2
<1>7. WhereOf(t)'
  BY <1>4, <1>5 DEF WhereOf, At
<1>8. LinksOf(t)'
  BY <1>1, <1>2, <1>4, <1>5 DEF LinksInv, LinksOf, Ahead, Behind, At
<1>9. \A l \in Level, e \in Finished : MeetsOf(t, e, l)'
  BY <1>4, <1>5 DEF MeetsOf, At
<1>10. global' \in Builder \cup {Nobody} /\ (global # Nobody => ~At(global, "idle") /\ ~At(global, "top"))'
  BY <1>2, <1>4, <1>5 DEF At
<1>11. QED
  BY <1>2, <1>4, <1>6, <1>7, <1>8, <1>9, <1>10, LocalStep

\* The local steps that leave the mutex alone, too, and the element's top.
LEMMA OwnStep ==
    ASSUME BuildInv, NEW t \in Builder, NEW r \in Inserters, Step(t, r),
           ~At(t, "idle"), ~At(t, "top"), r.pc # "idle", r.pc # "top",
           r.cur = In(t).cur, r.top = In(t).top, UNCHANGED graph,
           WhereOf(t)', LinksOf(t)',
           \A l \in Level, e \in Finished : e \in Has(l) /\ links[e][l] = {} /\ In(t).cur \in Has(l)
              /\ Finished \cap Has(l) = {e} => MeetsOf(t, e, l)'
    PROVE  BuildInv'
<1>1. FavorTyped /\ HighInv
  BY DEF BuildInv
<1>2. /\ inserter' \in [Builder -> Inserters] /\ In(t)' = r
      /\ \A u \in Builder \ {t} : In(u)' = In(u)
  BY <1>1, StepFacts DEF FavorTyped
<1>3. \A u \in Builder : HighOf(u)'
  <2> SUFFICES ASSUME NEW u \in Builder PROVE HighOf(u)'
    OBVIOUS
  <2>1. HighOf(u)
    BY <1>1 DEF HighInv
  <2>2. CASE u = t
    BY <1>2, <2>1, <2>2 DEF HighOf, At, graph
  <2>3. CASE u # t
    BY <1>2, <2>1, <2>3 DEF HighOf, At, graph
  <2>4. QED
    BY <2>2, <2>3
<1>4. (global # Nobody => ~At(global, "idle") /\ ~At(global, "top"))'
  <2>1. ASSUME NEW u \in Builder, global = u
        PROVE  In(u)'.pc # "idle" /\ In(u)'.pc # "top"
    <3>1. ~At(u, "idle") /\ ~At(u, "top")
      BY <1>1, <2>1, FavorAssumption DEF HighInv
    <3>2. QED
      BY <1>2, <3>1 DEF At
  <2>2. global' = global /\ global \in Builder \cup {Nobody}
    BY <1>1 DEF FavorTyped, graph
  <2>3. QED
    BY <2>1, <2>2 DEF At
<1>5. global' \in Builder \cup {Nobody}
  BY <1>1 DEF FavorTyped, graph
<1>6. UNCHANGED <<pos, count, level, links, owner, enterpoint, maxlevel>>
  BY DEF graph
<1>7. QED
  BY <1>3, <1>4, <1>5, <1>6, LocalStep

\* Reading the entry point, which is finished and has the highest level.
LEMMA ReadEntryStep ==
    ASSUME BuildInv, NEW t \in Builder, readEntry(t)
    PROVE  BuildInv'
<1> USE FavorAssumption
<1> DEFINE c == In(t).cur
           top == In(t).top
<1>1. /\ FavorTyped /\ OwnInv /\ HighInv /\ WhereInv /\ LinksInv /\ GraphInv /\ LoneInv
  BY DEF BuildInv
<1>2. /\ At(t, "entry") /\ ~At(t, "idle") /\ ~At(t, "top") /\ UNCHANGED graph
  BY DEF readEntry, At
<1>3. /\ c \in Element /\ c \notin Finished /\ level[c] \in Level
      /\ \A e \in Element : level[e] \in Int
  BY <1>2, ElementFacts
<1>4. /\ In(t) \in Inserters /\ In(t).pc = "entry" /\ top \in Level \cup {None}
  BY <1>1, <1>2 DEF FavorTyped, In, Inserters, At
<1>5. /\ top <= maxlevel /\ (level[c] > top <=> global = t) /\ (global = t => maxlevel = top)
      /\ (enterpoint = None <=> maxlevel = None)
      /\ enterpoint # None => enterpoint \in Finished /\ level[enterpoint] = maxlevel
      /\ \A e \in Finished : level[e] <= maxlevel
  BY <1>1, <1>2 DEF HighInv, HighOf
<1>6. top \in Int /\ maxlevel \in Int /\ maxlevel \in Level \cup {None}
  BY <1>1, <1>4 DEF FavorTyped, Level, None
<1>7. /\ \A l \in Level : links[c][l] = {} /\ \A n \in Element : c \notin links[n][l]
  BY <1>1, <1>2 DEF LinksInv, LinksOf, Ahead
\* Whoever has an unlinked level of a finished element starts at or above it.
<1>8. ASSUME NEW l \in Level, NEW e \in Finished, e \in Has(l), c \in Has(l)
      PROVE  l <= top
  <2>1. level[e] >= l /\ level[c] >= l /\ l \in Int /\ level[e] \in Int /\ level[c] \in Int
    BY <1>3, <1>8 DEF Has, Level
  <2>2. level[e] <= maxlevel
    BY <1>5, <1>8
  <2>3. QED
    BY <1>5, <1>6, <2>1, <2>2
<1>9. CASE enterpoint = None \/ top = None
  <2> DEFINE r == [In(t) EXCEPT !.pc = "finish"]
  <2>1. Step(t, r)
    <3>1. ~(enterpoint # None /\ level[c] < top)
      BY <1>3, <1>9 DEF Level, None
    <3>2. QED
      BY <1>9, <3>1 DEF readEntry
  <2>2. /\ r \in Inserters /\ r.pc = "finish" /\ r.cur = c /\ r.top = top
    BY <1>4 DEF Inserters
  <2>3. In(t)' = r
    BY <1>1, <2>1, <2>2, StepFacts DEF FavorTyped
  <2> HIDE DEF r
  <2>4. top = None
    BY <1>4, <1>5, <1>6, <1>9 DEF Level, None
  <2>5. WhereOf(t)'
    BY <2>2, <2>3 DEF WhereOf, At
  <2>6. \A l \in Level : ~(l <= top)
    BY <2>4 DEF Level, None
  <2>7. LinksOf(t)'
    BY <2>2, <2>3, <2>6 DEF LinksOf, Ahead, At
  <2>8. \A l \in Level, e \in Finished : ~(e \in Has(l) /\ c \in Has(l))
    BY <1>8, <2>6
  <2>9. QED
    BY <1>2, <2>1, <2>2, <2>5, <2>7, <2>8, OwnStep
<1>10. CASE enterpoint # None /\ top # None /\ level[c] < top
  <2> DEFINE r == [In(t) EXCEPT !.pc = "descend", !.obj = enterpoint, !.lvl = top]
  <2>1. Step(t, r)
    BY <1>10 DEF readEntry
  <2>2. enterpoint \in Element /\ level[enterpoint] >= top
    BY <1>5, <1>6, <1>10 DEF Finished
  <2>3. /\ r \in Inserters /\ r.pc = "descend" /\ r.cur = c /\ r.top = top
        /\ r.obj = enterpoint /\ r.lvl = top
    BY <1>4, <2>2 DEF Inserters
  <2>4. In(t)' = r
    BY <1>1, <2>1, <2>3, StepFacts DEF FavorTyped
  <2> HIDE DEF r
  <2>5. WhereOf(t)'
    BY <1>2, <1>6, <1>10, <2>2, <2>3, <2>4 DEF WhereOf, At, Has, graph
  <2>6. LinksOf(t)'
    BY <1>2, <1>7, <2>3, <2>4 DEF LinksOf, Behind, At, graph
  <2>7. \A l \in Level, e \in Finished : MeetsOf(t, e, l)'
    BY <2>3, <2>4 DEF MeetsOf, At
  <2>8. QED
    BY <1>2, <2>1, <2>3, <2>5, <2>6, <2>7, OwnStep
<1>11. CASE enterpoint # None /\ top # None /\ ~(level[c] < top)
  <2> DEFINE r == Searching(In(t), enterpoint, top)
  <2>1. Step(t, r)
    BY <1>11 DEF readEntry
  <2>2. enterpoint \in Element /\ level[enterpoint] >= top /\ enterpoint \in Finished
    BY <1>5, <1>6, <1>11 DEF Finished
  <2>3. /\ r \in Inserters /\ r.pc = "search" /\ r.cur = c /\ r.top = top
        /\ r.lvl = top /\ r.found = {enterpoint} /\ r.done = {}
    BY <1>4, <2>2 DEF Inserters, Searching
  <2>4. In(t)' = r
    BY <1>1, <2>1, <2>3, StepFacts DEF FavorTyped
  <2> HIDE DEF r
  <2>5. top \in Level /\ top <= level[c]
    BY <1>3, <1>4, <1>6, <1>11
  <2>6. WhereOf(t)'
    <3>1. enterpoint \in Has(top) /\ enterpoint # c
      BY <1>3, <2>2 DEF Has
    <3>2. (\A l : Has(l)' = Has(l)) /\ level' = level
      BY <1>2 DEF Has, graph
    <3>3. r.found # {} /\ r.found \subseteq Has(top) \ {c} /\ top <= r.top
      BY <1>6, <2>3, <3>1
    <3>4. QED
      BY <2>3, <2>4, <2>5, <3>2, <3>3 DEF WhereOf, At
  <2>7. LinksOf(t)'
    BY <1>2, <1>6, <1>7, <2>3, <2>4 DEF LinksOf, Behind, At, graph, Level
  <2>8. ASSUME NEW l \in Level, NEW e \in Finished, e \in Has(l), c \in Has(l), Finished \cap Has(l) = {e}
        PROVE  MeetsOf(t, e, l)'
    <3>1. l <= top
      BY <1>8, <2>8
    <3>2. ASSUME l = top PROVE enterpoint = e
      <4>1. enterpoint \in Has(l)
        BY <2>2, <3>2 DEF Has
      <4>2. QED
        BY <2>2, <2>8, <4>1
    <3>3. QED
      BY <2>3, <2>4, <3>1, <3>2 DEF MeetsOf, At
  <2>9. QED
    BY <1>2, <2>1, <2>3, <2>6, <2>7, <2>8, OwnStep
<1>12. QED
  BY <1>9, <1>10, <1>11

\* Moving on within a level, or going down one.
LEMMA DescendStep ==
    ASSUME BuildInv, NEW t \in Builder, descend(t)
    PROVE  BuildInv'
<1> USE FavorAssumption
<1> DEFINE c == In(t).cur
           o == In(t).obj
           v == In(t).lvl
           l == v - 1
           best == Closest(links[o][v] \cup {o}, Place(t))
           moves == Improves(best, o, Place(t))
<1>1. /\ FavorTyped /\ OwnInv /\ HighInv /\ WhereInv /\ LinksInv /\ GraphInv /\ LoneInv
  BY DEF BuildInv
<1>2. /\ At(t, "descend") /\ ~At(t, "idle") /\ ~At(t, "top") /\ UNCHANGED graph
      /\ owner[o] = Nobody
  BY DEF descend, At
<1>3. /\ c \in Element /\ c \notin Finished /\ level[c] \in Level /\ Placed /\ pos[c] \in Nat
  BY <1>2, ElementFacts
<1>4. /\ In(t) \in Inserters /\ In(t).pc = "descend"
      /\ v \in Level \cup {None} /\ In(t).top \in Level \cup {None}
  BY <1>1, <1>2 DEF FavorTyped, In, Inserters, At
<1>5. v > level[c] /\ v <= In(t).top /\ o \in Has(v)
  BY <1>1, <1>2 DEF WhereInv, WhereOf
<1>6. v \in Level /\ v > 0 /\ l \in Level /\ l \in Int /\ In(t).top \in Level
  BY <1>3, <1>4, <1>5 DEF Level, None
<1>7. o \in Element /\ o \in Finished /\ level[o] >= v /\ level[o] \in Int
  <2>1. o \in Element /\ o < count
    BY <1>5, <1>6, ElementFacts
  <2>2. QED
    BY <1>2, <1>5, <2>1, ElementFacts DEF Finished, Has
<1>8. best \in Has(v) /\ best \in Element
  <2>1. links[o][v] \subseteq Has(v) /\ Has(v) \subseteq Element
    BY <1>1, <1>6, <1>7, ElementFacts DEF GraphInv
  <2>2. links[o][v] \cup {o} \subseteq Element /\ links[o][v] \cup {o} # {}
    BY <1>7, <2>1
  <2>3. best \in links[o][v] \cup {o}
    BY <1>3, <2>2, ClosestFacts DEF Place
  <2>4. QED
    BY <1>5, <2>1, <2>3
<1>9. \A m : Has(m)' = Has(m)
  BY <1>2 DEF Has, graph
<1>10. \A m \in Level : links[c][m] = {} /\ \A n \in Element : c \notin links[n][m]
  BY <1>1, <1>2 DEF LinksInv, LinksOf, Ahead
<1> HIDE DEF best, moves
<1>11. CASE moves
  <2> DEFINE r == [In(t) EXCEPT !.obj = best]
  <2>1. Step(t, r)
    BY <1>11 DEF descend, best, moves
  <2>2. /\ r \in Inserters /\ r.pc = "descend" /\ r.cur = c /\ r.top = In(t).top
        /\ r.obj = best /\ r.lvl = v
    BY <1>4, <1>8 DEF Inserters
  <2>3. In(t)' = r
    BY <1>1, <2>1, <2>2, StepFacts DEF FavorTyped
  <2> HIDE DEF r
  <2>4. WhereOf(t)'
    BY <1>2, <1>5, <1>8, <1>9, <2>2, <2>3 DEF WhereOf, At, graph
  <2>5. LinksOf(t)'
    BY <1>2, <1>10, <2>2, <2>3 DEF LinksOf, Behind, At, graph
  <2>6. \A m \in Level, e \in Finished : MeetsOf(t, e, m)'
    BY <2>2, <2>3 DEF MeetsOf, At
  <2>7. QED
    BY <1>2, <2>1, <2>2, <2>4, <2>5, <2>6, OwnStep
<1>12. CASE ~moves /\ l > level[c]
  <2> DEFINE r == [In(t) EXCEPT !.lvl = l]
  <2>1. Step(t, r)
    BY <1>12 DEF descend, best, moves
  <2>2. /\ r \in Inserters /\ r.pc = "descend" /\ r.cur = c /\ r.top = In(t).top
        /\ r.obj = o /\ r.lvl = l
    BY <1>4, <1>6 DEF Inserters
  <2>3. In(t)' = r
    BY <1>1, <2>1, <2>2, StepFacts DEF FavorTyped
  <2> HIDE DEF r
  <2>4. o \in Has(l) /\ l <= r.top
    BY <1>5, <1>6, <1>7, <2>2 DEF Has, Level
  <2>5. WhereOf(t)'
    BY <1>2, <1>9, <1>12, <2>2, <2>3, <2>4 DEF WhereOf, At, graph
  <2>6. LinksOf(t)'
    BY <1>2, <1>10, <2>2, <2>3 DEF LinksOf, Behind, At, graph
  <2>7. \A m \in Level, e \in Finished : MeetsOf(t, e, m)'
    BY <2>2, <2>3 DEF MeetsOf, At
  <2>8. QED
    BY <1>2, <2>1, <2>2, <2>5, <2>6, <2>7, OwnStep
<1>13. CASE ~moves /\ ~(l > level[c])
  <2> DEFINE r == Searching(In(t), o, l)
  <2>1. Step(t, r)
    BY <1>13 DEF descend, best, moves
  <2>2. /\ r \in Inserters /\ r.pc = "search" /\ r.cur = c /\ r.top = In(t).top
        /\ r.lvl = l /\ r.found = {o} /\ r.done = {}
    BY <1>4, <1>6, <1>7 DEF Inserters, Searching
  <2>3. In(t)' = r
    BY <1>1, <2>1, <2>2, StepFacts DEF FavorTyped
  <2> HIDE DEF r
  <2>4. l = level[c] /\ o \in Has(l) /\ o # c /\ l <= r.top
    BY <1>3, <1>5, <1>6, <1>7, <1>13, <2>2 DEF Has, Level
  <2>5. WhereOf(t)'
    <3>1. r.found # {} /\ r.found \subseteq Has(l) \ {c}
      BY <2>2, <2>4
    <3>2. l <= level[c]
      BY <1>6, <2>4
    <3>3. QED
      BY <1>2, <1>6, <1>9, <2>2, <2>3, <2>4, <3>1, <3>2 DEF WhereOf, At, graph
  <2>6. LinksOf(t)'
    <3>1. \A m \in Level : ~(m > l /\ m <= level[c])
      BY <1>3, <2>4 DEF Level
    <3>2. QED
      BY <1>2, <1>10, <2>2, <2>3, <3>1 DEF LinksOf, Behind, At, graph
  <2>7. ASSUME NEW m \in Level, NEW e \in Finished, e \in Has(m), c \in Has(m), Finished \cap Has(m) = {e}
        PROVE  MeetsOf(t, e, m)'
    <3>1. l >= m
      BY <2>4, <2>7 DEF Has
    <3>2. l = m => o = e
      BY <1>7, <2>4, <2>7
    <3>3. QED
      BY <2>2, <2>3, <3>1, <3>2 DEF MeetsOf, At
  <2>8. QED
    BY <1>2, <2>1, <2>2, <2>5, <2>6, <2>7, OwnStep
<1>14. QED
  BY <1>11, <1>12, <1>13

\* Expanding an element of a level.
LEMMA ReadListStep ==
    ASSUME BuildInv, NEW t \in Builder, readList(t)
    PROVE  BuildInv'
<1> USE FavorAssumption
<1> DEFINE c == In(t).cur
           v == In(t).lvl
           e == Closest(In(t).found \ In(t).done, Place(t))
           f == ClosestOf(In(t).found \cup links[e][v], EfConstruction, Place(t))
           r == [In(t) EXCEPT !.found = f, !.done = (@ \cup {e}) \cap f]
<1>1. /\ FavorTyped /\ OwnInv /\ HighInv /\ WhereInv /\ LinksInv /\ GraphInv /\ LoneInv
  BY DEF BuildInv
<1>2. /\ At(t, "search") /\ ~At(t, "idle") /\ ~At(t, "top") /\ UNCHANGED graph
      /\ In(t).found \ In(t).done # {} /\ owner[e] = Nobody /\ Step(t, r)
  BY DEF readList, At
<1>3. /\ c \in Element /\ c \notin Finished /\ level[c] \in Level /\ Placed /\ pos[c] \in Nat
  BY <1>2, ElementFacts
<1>4. /\ In(t) \in Inserters /\ In(t).pc = "search"
      /\ In(t).found \subseteq Element /\ In(t).done \subseteq Element
  BY <1>1, <1>2 DEF FavorTyped, In, Inserters, At
<1>5. /\ v \in Level /\ v <= level[c] /\ v <= In(t).top
      /\ In(t).found \subseteq Has(v) \ {c} /\ In(t).done \subseteq Finished
  BY <1>1, <1>2 DEF WhereInv, WhereOf
<1>6. e \in In(t).found \ In(t).done
  BY <1>2, <1>3, <1>4, ClosestFacts DEF Place
<1>7. e \in Finished /\ e \in Element
  <2>1. e \in Has(v) /\ e < count /\ e \in Element
    BY <1>4, <1>5, <1>6, ElementFacts
  <2>2. QED
    BY <1>2, <2>1 DEF Finished
<1>8. links[e][v] \subseteq Has(v) \ {c}
  <2>1. c \notin links[e][v]
    <3>1. Ahead(t, v)
      BY <1>2, <1>5 DEF Ahead, Level
    <3>2. QED
      BY <1>1, <1>5, <1>7, <3>1 DEF LinksInv, LinksOf
  <2>2. QED
    BY <1>1, <1>5, <1>7, <2>1 DEF GraphInv
<1> HIDE DEF e
<1>9. f \subseteq In(t).found \cup links[e][v] /\ f # {} /\ f \subseteq Has(v) \ {c} /\ f \subseteq Element
  <2>1. Has(v) \subseteq Element
    BY <1>5, ElementFacts
  <2>2. In(t).found \cup links[e][v] \subseteq Element /\ In(t).found \cup links[e][v] # {}
    BY <1>4, <1>6, <1>8, <2>1
  <2>3. EfConstruction \in Nat /\ EfConstruction > 0
    OBVIOUS
  <2>4. f \subseteq In(t).found \cup links[e][v] /\ f # {}
    BY <1>3, <2>2, <2>3, ClosestOfFacts DEF Place
  <2>5. QED
    BY <1>5, <1>8, <2>2, <2>4
<1> HIDE DEF f
<1>10. /\ r \in Inserters /\ r.pc = "search" /\ r.cur = c /\ r.top = In(t).top
       /\ r.lvl = v /\ r.found = f /\ r.done = (In(t).done \cup {e}) \cap f
  BY <1>4, <1>9 DEF Inserters
<1>11. In(t)' = r
  BY <1>1, <1>2, <1>10, StepFacts DEF FavorTyped
<1> HIDE DEF r
<1>12. Finished' = Finished /\ \A m : Has(m)' = Has(m)
  BY <1>2 DEF Has, Finished, graph
<1>13. WhereOf(t)'
  <2>1. r.done \subseteq Finished
    BY <1>5, <1>7, <1>10
  <2>2. QED
    BY <1>2, <1>5, <1>9, <1>10, <1>11, <1>12, <2>1 DEF WhereOf, At, graph
<1>14. LinksOf(t)'
  <2>1. LinksOf(t)
    BY <1>1 DEF LinksInv
  <2>2. QED
    BY <1>2, <1>10, <1>11, <2>1 DEF LinksOf, Ahead, Behind, At, graph
<1>15. ASSUME NEW l \in Level, NEW x \in Finished, x \in Has(l), links[x][l] = {}, c \in Has(l)
       PROVE  MeetsOf(t, x, l)'
  <2>1. MeetsOf(t, x, l)
    BY <1>1, <1>15 DEF LoneInv
  <2>2. v >= l /\ (v = l => In(t).found = {x})
    BY <1>2, <1>15, <2>1 DEF MeetsOf
  <2>3. ASSUME v = l PROVE f = {x}
    <3>1. e = x /\ links[e][v] = {}
      BY <1>6, <1>15, <2>2, <2>3
    <3>2. QED
      BY <1>9, <2>2, <2>3, <3>1
  <2>4. QED
    BY <1>10, <1>11, <2>2, <2>3 DEF MeetsOf, At
<1>16. QED
  BY <1>2, <1>10, <1>13, <1>14, <1>15, OwnStep

-----------------------------------------------------------------------------
\* The actions of addPoint that write to the graph.

\* A step that writes to lists and leaves locks, mutex and levels alone.
LEMMA WriteStep ==
    ASSUME BuildInv, NEW t \in Builder, NEW r \in Inserters, Step(t, r),
           ~At(t, "idle"), ~At(t, "top"), r.pc # "idle", r.pc # "top",
           r.cur = In(t).cur, r.top = In(t).top,
           UNCHANGED <<pos, count, level, owner, global, enterpoint, maxlevel>>,
           links' \in [Element -> [Level -> SUBSET Element]]
    PROVE  FavorTyped' /\ OwnInv' /\ HighInv' /\ \A u \in Builder \ {t} : WhereOf(u)'
<1> USE FavorAssumption
<1>1. /\ FavorTyped /\ OwnInv /\ HighInv /\ WhereInv
  BY DEF BuildInv
<1>2. /\ inserter' \in [Builder -> Inserters] /\ In(t)' = r
      /\ \A u \in Builder \ {t} : In(u)' = In(u)
  BY <1>1, StepFacts DEF FavorTyped
<1>3. Finished' = Finished /\ \A m : Has(m)' = Has(m)
  BY DEF Has, Finished
<1>4. FavorTyped'
  BY <1>1, <1>2 DEF FavorTyped
<1>5. \A u \in Builder : In(u)'.cur = In(u).cur /\ In(u)'.top = In(u).top
  BY <1>2
<1>6. \A u \in Builder : /\ At(u, "idle")' <=> At(u, "idle")
                         /\ At(u, "top")' <=> At(u, "top")
  BY <1>2 DEF At
<1>7. OwnInv'
  <2>1. \A u \in Builder : OwnOf(u)'
    BY <1>1, <1>5, <1>6 DEF OwnInv, OwnOf
  <2>2. (\A e \in Element : owner[e] # Nobody => In(owner[e]).cur = e)'
    <3> SUFFICES ASSUME NEW e \in Element, NEW u \in Builder, owner[e] = u PROVE In(u)'.cur = e
      BY <1>1 DEF FavorTyped
    <3> QED
      BY <1>1, <1>5 DEF OwnInv
  <2>3. QED
    BY <2>1, <2>2 DEF OwnInv
<1>8. HighInv'
  <2>1. \A u \in Builder : HighOf(u)'
    BY <1>1, <1>5, <1>6 DEF HighInv, HighOf
  <2>2. (global # Nobody => ~At(global, "idle") /\ ~At(global, "top"))'
    <3> SUFFICES ASSUME NEW u \in Builder, global = u PROVE ~At(u, "idle")' /\ ~At(u, "top")'
      BY <1>1 DEF FavorTyped
    <3> QED
      BY <1>1, <1>6 DEF HighInv
  <2>3. QED
    BY <1>1, <1>3, <2>1, <2>2 DEF HighInv
<1>9. \A u \in Builder \ {t} : WhereOf(u)'
  BY <1>1, <1>2, <1>3 DEF WhereInv, WhereOf, At
<1>10. QED
  BY <1>4, <1>7, <1>8, <1>9

\* Writing the new element's own list on a level.
LEMMA ConnectStep ==
    ASSUME BuildInv, NEW t \in Builder, connect(t)
    PROVE  BuildInv'
<1> USE FavorAssumption
<1> DEFINE c == In(t).cur
           v == In(t).lvl
           chosen == Heuristic(In(t).found, M, Place(t))
           o == Closest(chosen, Place(t))
           r == [In(t) EXCEPT !.pc = "link", !.rest = chosen, !.obj = o]
<1>1. /\ FavorTyped /\ OwnInv /\ HighInv /\ WhereInv /\ LinksInv /\ GraphInv /\ LoneInv
  BY DEF BuildInv
<1>2. /\ At(t, "search") /\ ~At(t, "idle") /\ ~At(t, "top")
      /\ In(t).found \subseteq In(t).done /\ Step(t, r)
      /\ links' = [links EXCEPT ![c][v] = chosen]
      /\ UNCHANGED <<pos, count, level, owner, global, enterpoint, maxlevel>>
  BY DEF connect, At
<1>3. /\ c \in Element /\ c \notin Finished /\ level[c] \in Level /\ Placed /\ pos[c] \in Nat
  BY <1>2, ElementFacts
<1>4. /\ In(t) \in Inserters /\ In(t).pc = "search" /\ In(t).found \subseteq Element
  BY <1>1, <1>2 DEF FavorTyped, In, Inserters, At
<1>5. /\ v \in Level /\ v <= level[c] /\ v <= In(t).top
      /\ In(t).found \subseteq Has(v) \ {c} /\ In(t).found \subseteq Finished /\ In(t).found # {}
  BY <1>1, <1>2 DEF WhereInv, WhereOf
<1>6. chosen \subseteq In(t).found /\ chosen # {} /\ Cardinality(chosen) <= M /\ chosen \subseteq Element
  BY <1>3, <1>4, <1>5, HeuristicFacts DEF Place
<1> HIDE DEF chosen
<1>7. o \in chosen
  BY <1>3, <1>6, ClosestFacts DEF Place
<1> HIDE DEF o
<1>8. /\ r \in Inserters /\ r.pc = "link" /\ r.cur = c /\ r.top = In(t).top
      /\ r.lvl = v /\ r.rest = chosen /\ r.obj = o
  BY <1>4, <1>6, <1>7 DEF Inserters
<1>9. /\ inserter' \in [Builder -> Inserters] /\ In(t)' = r
      /\ \A u \in Builder \ {t} : In(u)' = In(u)
  BY <1>1, <1>2, <1>8, StepFacts DEF FavorTyped
<1> HIDE DEF r
<1>10. Finished' = Finished /\ \A m : Has(m)' = Has(m)
  BY <1>2 DEF Has, Finished
<1>11. /\ links' \in [Element -> [Level -> SUBSET Element]]
       /\ links'[c][v] = chosen
       /\ \A n \in Element, m \in Level : n # c \/ m # v => links'[n][m] = links[n][m]
  BY <1>1, <1>2, <1>3, <1>5, <1>6 DEF FavorTyped
<1>12. FavorTyped' /\ OwnInv' /\ HighInv' /\ \A u \in Builder \ {t} : WhereOf(u)'
  BY <1>2, <1>8, <1>11, WriteStep
<1>17. WhereInv'
  <2>2. WhereOf(t)'
    <3>1. chosen \subseteq Finished \cap Has(v)
      BY <1>5, <1>6
    <3>2. QED
      BY <1>2, <1>5, <1>6, <1>7, <1>8, <1>9, <1>10, <3>1 DEF WhereOf, At
  <2>3. QED
    BY <1>12, <2>2 DEF WhereInv
<1>18. LinksInv'
  <2>1. ASSUME NEW u \in Builder, u # t PROVE LinksOf(u)'
    <3>1. LinksOf(u) /\ In(u)' = In(u)
      BY <1>1, <1>9, <2>1 DEF LinksInv
    <3>2. CASE At(u, "idle")
      BY <3>1, <3>2 DEF LinksOf, Ahead, Behind, At
    <3>3. CASE ~At(u, "idle")
      <4>1. In(u).cur \in Element /\ In(u).cur # c /\ In(u).cur \notin Finished
        BY <1>2, <2>1, <3>3, ElementFacts
      <4>2. \A m \in Level : links'[In(u).cur][m] = links[In(u).cur][m]
        BY <1>11, <4>1
      <4>3. ASSUME NEW m \in Level, NEW n \in Element, In(u).cur \notin links[n][m]
            PROVE  In(u).cur \notin links'[n][m]
        BY <1>5, <1>6, <1>11, <4>1, <4>3
      <4>4. At(u, "link") => In(u).rest \subseteq Element /\ In(u).lvl \in Level
        BY <1>1 DEF WhereInv, WhereOf, Finished
      <4>5. QED
        BY <1>2, <3>1, <4>2, <4>3, <4>4 DEF LinksOf, Ahead, Behind, At
    <3>4. QED
      BY <3>2, <3>3
  <2>2. LinksOf(t)'
    <3>1. LinksOf(t)
      BY <1>1 DEF LinksInv
    <3>2. \A m \in Level : m <= v => links[c][m] = {} /\ \A n \in Element : c \notin links[n][m]
      BY <1>2, <3>1 DEF LinksOf, Ahead
    <3>3. \A m \in Level : m > v /\ m <= In(t).top /\ m <= level[c] => links[c][m] # {}
      BY <1>2, <3>1 DEF LinksOf, Behind
    <3>4. \A m \in Level : m < v => m # v /\ m <= v
      BY <1>5 DEF Level
    <3>5. \A m \in Level : m < v => links'[c][m] = {} /\ \A n \in Element : c \notin links'[n][m]
      BY <1>3, <1>11, <3>2, <3>4
    <3>6. \A n \in chosen : n \in Element /\ n # c /\ c \notin links'[n][v]
      <4> SUFFICES ASSUME NEW n \in chosen PROVE n \in Element /\ n # c /\ c \notin links'[n][v]
        OBVIOUS
      <4>1. n \in Element /\ n # c /\ v <= v
        BY <1>3, <1>5, <1>6 DEF Level
      <4>2. links'[n][v] = links[n][v]
        BY <1>5, <1>11, <4>1
      <4>3. QED
        BY <1>5, <3>2, <4>1, <4>2
    <3>7. \A m \in Level : m >= v /\ m <= In(t).top /\ m <= level[c] => links'[c][m] # {}
      <4>1. TAKE m \in Level
      <4>2. m = v \/ m > v \/ ~(m >= v)
        BY <1>5 DEF Level
      <4>3. QED
        BY <1>3, <1>5, <1>6, <1>11, <3>3, <4>2
    <3>8. QED
      BY <1>2, <1>8, <1>9, <3>5, <3>6, <3>7 DEF LinksOf, Ahead, Behind, At
  <2>3. QED
    BY <2>1, <2>2 DEF LinksInv
<1>19. GraphInv'
  <2>1. SUFFICES ASSUME NEW e \in Element, NEW m \in Level
                 PROVE  /\ links'[e][m] \subseteq Has(m) \ {e}
                        /\ Cardinality(links'[e][m]) <= Capacity(m)
                        /\ links'[e][m] # {} => e \in Has(m)
    BY <1>10 DEF GraphInv, Capacity
  <2>2. CASE e = c /\ m = v
    <3>1. Cardinality(chosen) <= Capacity(v)
      <4>1. Cardinality(chosen) \in Nat
        BY <1>6, ElementsFinite, FS_Subset, FS_CardinalityType
      <4>2. QED
        BY <1>6, <4>1 DEF Capacity
    <3>2. c \in Has(v) /\ chosen \subseteq Has(v) \ {c}
      BY <1>3, <1>5, <1>6 DEF Has
    <3>3. QED
      BY <1>11, <2>2, <3>1, <3>2
  <2>3. CASE ~(e = c /\ m = v)
    BY <1>1, <1>11, <2>1, <2>3 DEF GraphInv
  <2>4. QED
    BY <2>2, <2>3
<1>20. LoneInv'
  <2>1. SUFFICES ASSUME NEW l \in Level, NEW e \in Finished \cap Has(l), links'[e][l] = {}
                 PROVE  Finished \cap Has(l) = {e} /\ \A u \in Builder : MeetsOf(u, e, l)'
    BY <1>10 DEF LoneInv
  <2>2. links[e][l] = {} /\ e \in Element
    BY <1>3, <1>11, <2>1 DEF Finished
  <2>3. Finished \cap Has(l) = {e} /\ \A u \in Builder : MeetsOf(u, e, l)
    BY <1>1, <2>1, <2>2 DEF LoneInv
  <2>4. \A u \in Builder \ {t} : MeetsOf(u, e, l)'
    BY <1>9, <1>10, <2>3 DEF MeetsOf, At
  <2>5. MeetsOf(t, e, l)'
    <3>1. c \in Has(l) => v >= l /\ (v = l => In(t).found = {e})
      BY <1>2, <2>3 DEF MeetsOf
    <3>2. c \in Has(l) /\ v = l => chosen = {e}
      BY <1>6, <3>1
    <3>3. QED
      BY <1>8, <1>9, <1>10, <3>1, <3>2 DEF MeetsOf, At
  <2>6. QED
    BY <2>3, <2>4, <2>5
<1>21. QED
  BY <1>12, <1>17, <1>18, <1>19, <1>20 DEF BuildInv

\* Writing it into the list of one of its neighbours.
LEMMA LinkStep ==
    ASSUME BuildInv, NEW t \in Builder, link(t)
    PROVE  BuildInv'
<1> USE FavorAssumption
<1> DEFINE c == In(t).cur
           v == In(t).lvl
           o == In(t).obj
           n == Farthest(In(t).rest, Place(t))
           old == links[n][v]
           new == old \cup {c}
           W == IF Cardinality(old) < Capacity(v) THEN new ELSE Heuristic(new, Capacity(v), pos[n])
           rest == In(t).rest \ {n}
           r == CASE rest # {} -> [In(t) EXCEPT !.rest = rest]
                  [] rest = {} /\ v > 0 -> Searching([In(t) EXCEPT !.rest = {}], o, v - 1)
                  [] OTHER -> [In(t) EXCEPT !.pc = "finish"]
<1>1. /\ FavorTyped /\ OwnInv /\ HighInv /\ WhereInv /\ LinksInv /\ GraphInv /\ LoneInv
  BY DEF BuildInv
<1>2. /\ At(t, "link") /\ ~At(t, "idle") /\ ~At(t, "top") /\ Step(t, r)
      /\ links' = [links EXCEPT ![n][v] = W]
      /\ UNCHANGED <<pos, count, level, owner, global, enterpoint, maxlevel>>
  BY DEF link, At
<1>3. /\ c \in Element /\ c \notin Finished /\ level[c] \in Level /\ Placed /\ pos[c] \in Nat
  BY <1>2, ElementFacts
<1>4. /\ In(t) \in Inserters /\ In(t).pc = "link" /\ In(t).rest \subseteq Element
  BY <1>1, <1>2 DEF FavorTyped, In, Inserters, At
<1>5. /\ v \in Level /\ v <= level[c] /\ v <= In(t).top
      /\ In(t).rest \subseteq Finished \cap Has(v) /\ In(t).rest # {} /\ o \in Finished \cap Has(v)
  BY <1>1, <1>2 DEF WhereInv, WhereOf
<1>6. n \in In(t).rest /\ n \in Element /\ n \in Finished /\ n \in Has(v) /\ n # c /\ pos[n] \in Nat
  <2>1. n \in In(t).rest
    BY <1>3, <1>4, <1>5, FarthestFacts DEF Place
  <2>2. QED
    BY <1>3, <1>4, <1>5, <2>1 DEF Placed
<1> HIDE DEF n
<1>7. /\ W \subseteq new /\ W # {} /\ Cardinality(W) <= Capacity(v) /\ W \subseteq Element
  <2>1. old \subseteq Element /\ new \subseteq Element /\ IsFiniteSet(old) /\ Cardinality(old) \in Nat
    BY <1>1, <1>3, <1>5, <1>6, ElementsFinite, FS_Subset, FS_CardinalityType DEF FavorTyped
  <2>2. Capacity(v) \in Nat \ {0}
    BY DEF Capacity
  <2>3. CASE Cardinality(old) < Capacity(v)
    <3>1. Cardinality(new) <= Cardinality(old) + 1
      <4>1. ASSUME NEW S, NEW x, IsFiniteSet(S), Cardinality(S) \in Nat
            PROVE  Cardinality(S \cup {x}) <= Cardinality(S) + 1
        <5>1. Cardinality(S \cup {x}) = IF x \in S THEN Cardinality(S) ELSE Cardinality(S) + 1
          BY <4>1, FS_AddElement
        <5>2. QED
          BY <4>1, <5>1
      <4>2. QED
        BY <2>1, <4>1
    <3>2. Cardinality(new) \in Nat
      BY <2>1, ElementsFinite, FS_Subset, FS_CardinalityType
    <3>3. QED
      BY <2>1, <2>2, <2>3, <3>1, <3>2
  <2>4. CASE ~(Cardinality(old) < Capacity(v))
    <3>1. W = Heuristic(new, Capacity(v), pos[n])
      BY <2>4
    <3> HIDE DEF W
    <3>2. new # {}
      OBVIOUS
    <3> HIDE DEF new
    <3>3. QED
      BY <1>3, <1>6, <2>1, <2>2, <3>1, <3>2, HeuristicFacts
  <2>5. QED
    BY <2>3, <2>4
<1> HIDE DEF W
<1>8. /\ links' \in [Element -> [Level -> SUBSET Element]]
      /\ links'[n][v] = W
      /\ \A x \in Element, m \in Level : x # n \/ m # v => links'[x][m] = links[x][m]
  BY <1>1, <1>2, <1>5, <1>6, <1>7 DEF FavorTyped
\* The three ways to go on.
<1>9. /\ r \in Inserters /\ r.cur = c /\ r.top = In(t).top
      /\ \/ rest # {} /\ r.pc = "link" /\ r.lvl = v /\ r.rest = rest /\ r.obj = o
         \/ v > 0 /\ r.pc = "search" /\ r.lvl = v - 1 /\ r.found = {o} /\ r.done = {}
         \/ v = 0 /\ r.pc = "finish"
  <2>1. CASE rest # {}
    <3>1. r = [In(t) EXCEPT !.rest = rest]
      BY <2>1
    <3> HIDE DEF r
    <3>2. QED
      BY <1>4, <2>1, <3>1 DEF Inserters
  <2>2. CASE rest = {} /\ v > 0
    <3>1. r = Searching([In(t) EXCEPT !.rest = {}], o, v - 1)
      BY <2>2
    <3> HIDE DEF r
    <3>2. v - 1 \in Level /\ o \in Element
      BY <1>5, <2>2 DEF Level, Finished
    <3>3. QED
      BY <1>4, <2>2, <3>1, <3>2 DEF Inserters, Searching
  <2>3. CASE rest = {} /\ ~(v > 0)
    <3>1. r = [In(t) EXCEPT !.pc = "finish"]
      BY <2>3
    <3> HIDE DEF r
    <3>2. v = 0
      BY <1>5, <2>3 DEF Level
    <3>3. QED
      BY <1>4, <3>1, <3>2 DEF Inserters
  <2>4. QED
    BY <2>1, <2>2, <2>3
<1> HIDE DEF r
<1>10. /\ inserter' \in [Builder -> Inserters] /\ In(t)' = r
       /\ \A u \in Builder \ {t} : In(u)' = In(u)
  BY <1>1, <1>2, <1>9, StepFacts DEF FavorTyped
<1>11. Finished' = Finished /\ \A m : Has(m)' = Has(m)
  BY <1>2 DEF Has, Finished
<1>12. FavorTyped' /\ OwnInv' /\ HighInv' /\ \A u \in Builder \ {t} : WhereOf(u)'
  <2>1. r.pc # "idle" /\ r.pc # "top"
    BY <1>9
  <2>2. QED
    BY <1>2, <1>8, <1>9, <2>1, WriteStep
<1>13. o \in Has(v - 1) /\ o # c /\ (v > 0 => v - 1 \in Level) /\ level[o] >= v /\ level[o] \in Int
  <2>1. o \in Element /\ level[o] >= v /\ level[o] \in Int /\ v \in Int
    BY <1>5, ElementFacts DEF Has, Level
  <2>2. QED
    BY <1>3, <1>5, <2>1 DEF Has, Level
<1>14. WhereInv'
  <2>1. WhereOf(t)'
    <3>1. rest \subseteq Finished \cap Has(v)
      BY <1>5
    <3>2. v - 1 <= level[c] /\ v - 1 <= In(t).top
      <4>1. In(t).top \in Int /\ level[c] \in Int /\ v \in Int
        BY <1>3, <1>4, <1>5 DEF Inserters, Level, None
      <4>2. QED
        BY <1>5, <4>1
    <3>3. \A x \in {o} : x \in Has(v - 1) \ {c}
      BY <1>13
    <3> HIDE DEF rest
    <3>4. QED
      BY <1>2, <1>5, <1>9, <1>10, <1>11, <1>13, <3>1, <3>2, <3>3 DEF WhereOf, At
  <2>2. QED
    BY <1>12, <2>1 DEF WhereInv
<1>15. LinksInv'
  <2>1. ASSUME NEW u \in Builder, u # t PROVE LinksOf(u)'
    <3>1. LinksOf(u) /\ In(u)' = In(u)
      BY <1>1, <1>10, <2>1 DEF LinksInv
    <3>2. CASE At(u, "idle")
      BY <3>1, <3>2 DEF LinksOf, Ahead, Behind, At
    <3>3. CASE ~At(u, "idle")
      <4>1. In(u).cur \in Element /\ In(u).cur # c /\ In(u).cur \notin Finished
        BY <1>2, <2>1, <3>3, ElementFacts
      <4>2. \A m \in Level : links'[In(u).cur][m] = links[In(u).cur][m]
        BY <1>6, <1>8, <4>1
      <4>3. ASSUME NEW m \in Level, NEW x \in Element, In(u).cur \notin links[x][m]
            PROVE  In(u).cur \notin links'[x][m]
        BY <1>7, <1>8, <4>1, <4>3
      <4>4. At(u, "link") => In(u).rest \subseteq Element /\ In(u).lvl \in Level
        BY <1>1 DEF WhereInv, WhereOf, Finished
      <4>5. QED
        BY <1>2, <3>1, <4>2, <4>3, <4>4 DEF LinksOf, Ahead, Behind, At
    <3>4. QED
      BY <3>2, <3>3
  <2>2. LinksOf(t)'
    <3>1. LinksOf(t)
      BY <1>1 DEF LinksInv
    <3>2. \A m \in Level : m < v => links[c][m] = {} /\ \A x \in Element : c \notin links[x][m]
      BY <1>2, <3>1 DEF LinksOf, Ahead, At
    <3>3. \A m \in Level : m >= v /\ m <= In(t).top /\ m <= level[c] => links[c][m] # {}
      BY <1>2, <3>1 DEF LinksOf, Behind, At
    <3>4. \A x \in In(t).rest : c \notin links[x][v]
      BY <1>2, <3>1 DEF LinksOf
    <3>5. \A m \in Level : m < v => links'[c][m] = {} /\ \A x \in Element : c \notin links'[x][m]
      <4>1. \A m \in Level : m < v => m # v
        BY <1>5 DEF Level
      <4>2. QED
        BY <1>3, <1>8, <3>2, <4>1
    <3>6. \A x \in rest : x \in Element /\ c \notin links'[x][v]
      BY <1>4, <1>5, <1>8, <3>4
    <3>7. \A m \in Level : m >= v /\ m <= In(t).top /\ m <= level[c] => links'[c][m] # {}
      BY <1>3, <1>6, <1>8, <3>3
    <3>8. \A m \in Level : (m <= v - 1 => m < v) /\ (m > v - 1 => m >= v) /\ (v = 0 => m >= v)
      BY <1>5 DEF Level
    <3> HIDE DEF rest
    <3>9. CASE rest # {} /\ r.pc = "link" /\ r.lvl = v /\ r.rest = rest /\ r.obj = o
      BY <1>2, <1>9, <1>10, <3>5, <3>6, <3>7, <3>9 DEF LinksOf, Ahead, Behind, At
    <3>10. CASE v > 0 /\ r.pc = "search" /\ r.lvl = v - 1 /\ r.found = {o} /\ r.done = {}
      BY <1>2, <1>9, <1>10, <3>5, <3>7, <3>8, <3>10 DEF LinksOf, Ahead, Behind, At
    <3>11. CASE v = 0 /\ r.pc = "finish"
      BY <1>2, <1>9, <1>10, <3>5, <3>7, <3>8, <3>11 DEF LinksOf, Ahead, Behind, At
    <3>12. QED
      BY <1>9, <3>9, <3>10, <3>11
  <2>3. QED
    BY <2>1, <2>2 DEF LinksInv
<1>16. GraphInv'
  <2>1. SUFFICES ASSUME NEW e \in Element, NEW m \in Level
                 PROVE  /\ links'[e][m] \subseteq Has(m) \ {e}
                        /\ Cardinality(links'[e][m]) <= Capacity(m)
                        /\ links'[e][m] # {} => e \in Has(m)
    BY <1>11 DEF GraphInv, Capacity
  <2>2. CASE e = n /\ m = v
    <3>1. old \subseteq Has(v) \ {n}
      BY <1>1, <1>5, <1>6 DEF GraphInv
    <3>2. c \in Has(v)
      BY <1>3, <1>5 DEF Has
    <3>3. QED
      BY <1>6, <1>7, <1>8, <2>2, <3>1, <3>2
  <2>3. CASE ~(e = n /\ m = v)
    BY <1>1, <1>8, <2>1, <2>3 DEF GraphInv
  <2>4. QED
    BY <2>2, <2>3
<1>17. LoneInv'
  <2>1. SUFFICES ASSUME NEW l \in Level, NEW e \in Finished \cap Has(l), links'[e][l] = {}
                 PROVE  Finished \cap Has(l) = {e} /\ \A u \in Builder : MeetsOf(u, e, l)'
    BY <1>11 DEF LoneInv
  <2>2. ~(e = n /\ l = v) /\ links[e][l] = {} /\ e \in Element
    BY <1>7, <1>8, <2>1 DEF Finished
  <2>3. Finished \cap Has(l) = {e} /\ \A u \in Builder : MeetsOf(u, e, l)
    BY <1>1, <2>1, <2>2 DEF LoneInv
  <2>4. \A u \in Builder \ {t} : MeetsOf(u, e, l)'
    BY <1>10, <1>11, <2>3 DEF MeetsOf, At
  <2>5. MeetsOf(t, e, l)'
    <3>1. SUFFICES ASSUME c \in Has(l) PROVE MeetsOf(t, e, l)'
      BY <1>9, <1>10, <1>11 DEF MeetsOf
    <3>2. v >= l /\ (v = l => In(t).rest = {e})
      BY <1>2, <2>3, <3>1 DEF MeetsOf, At
    <3>3. v > l /\ v > 0 /\ v - 1 >= l
      BY <1>5, <1>6, <2>2, <3>2 DEF Level
    <3>4. o = e
      <4>1. o \in Has(l)
        BY <1>5, <1>13, <3>2 DEF Has, Level
      <4>2. QED
        BY <1>5, <2>3, <4>1
    <3>5. v # l /\ v # 0
      BY <1>5, <3>3 DEF Level
    <3>6. CASE r.pc = "link" /\ r.lvl = v
      BY <1>10, <3>2, <3>5, <3>6 DEF MeetsOf, At
    <3>7. CASE r.pc = "search" /\ r.lvl = v - 1 /\ r.found = {o}
      BY <1>10, <3>3, <3>4, <3>7 DEF MeetsOf, At
    <3>8. QED
      BY <1>9, <3>5, <3>6, <3>7
  <2>6. QED
    BY <2>3, <2>4, <2>5
<1>18. QED
  BY <1>12, <1>14, <1>15, <1>16, <1>17 DEF BuildInv

\* A new element takes its number, its level and the lock of its list.
LEMMA AddPointStep ==
    ASSUME BuildInv, NEW t \in Builder, addPoint(t)
    PROVE  BuildInv'
<1> USE FavorAssumption
<1>1. /\ FavorTyped /\ OwnInv /\ HighInv /\ WhereInv /\ LinksInv /\ GraphInv /\ LoneInv
  BY DEF BuildInv
<1> DEFINE r == [In(t) EXCEPT !.pc = "top", !.cur = count]
<1>2. PICK k \in Level : level' = [level EXCEPT ![count] = k]
  BY DEF addPoint
<1>3. /\ At(t, "idle") /\ count < NumElements /\ count' = count + 1 /\ Step(t, r)
      /\ owner' = [owner EXCEPT ![count] = t]
      /\ UNCHANGED <<pos, links, global, enterpoint, maxlevel>>
  BY DEF addPoint
<1>4. count \in Nat /\ count \in Element /\ level[count] = None /\ In(t).cur = None
  BY <1>1, <1>3 DEF FavorTyped, Element, OwnInv, OwnOf
<1>5. /\ r \in Inserters /\ r.pc = "top" /\ r.cur = count
  <2>1. In(t) \in Inserters
    BY <1>1 DEF FavorTyped, In
  <2>2. QED
    BY <1>4, <2>1 DEF Inserters
<1>6. /\ inserter' \in [Builder -> Inserters] /\ In(t)' = r
      /\ \A u \in Builder \ {t} : In(u)' = In(u)
  BY <1>1, <1>3, <1>5, StepFacts DEF FavorTyped
<1> HIDE DEF r
<1>7. /\ \A e \in Element : e # count => level'[e] = level[e] /\ owner'[e] = owner[e]
      /\ level'[count] = k /\ owner'[count] = t
  BY <1>1, <1>2, <1>3, <1>4 DEF FavorTyped
<1>8. Finished' = Finished
  <2>1. \A e \in Element : e < count + 1 <=> (e < count \/ e = count)
    BY <1>4 DEF Element
  <2>2. \A e \in Element : e \in Finished' <=> e \in Finished
    BY <1>3, <1>4, <1>7, <2>1 DEF Finished
  <2>3. QED
    BY <2>2 DEF Finished
<1>9. \A l \in Level : /\ count \notin Has(l) /\ Has(l) \subseteq Has(l)'
                       /\ \A e \in Element : e # count => (e \in Has(l)' <=> e \in Has(l))
  BY <1>4, <1>7 DEF Has, Level, None
<1>10. \A u \in Builder \ {t} : ~At(u, "idle") => /\ In(u).cur \in Element /\ In(u).cur # count
                                                  /\ level'[In(u).cur] = level[In(u).cur]
  BY <1>1, <1>4, <1>7 DEF OwnInv, OwnOf
<1>11. \A e \in Finished : e \in Element /\ e # count /\ level'[e] = level[e]
  BY <1>4, <1>7 DEF Finished
<1>12. FavorTyped'
  <2>1. count' \in 0 .. NumElements
    BY <1>3, <1>4
  <2>2. \A e \in Element : level'[e] = None <=> e >= count'
    <3> TAKE e \in Element
    <3>1. e \in Int /\ (level[e] = None <=> e >= count) /\ k # None
      BY <1>1, <1>2 DEF FavorTyped, Element, Level, None
    <3>2. QED
      BY <1>3, <1>4, <1>7, <3>1
  <2>3. /\ level' \in [Element -> Level \cup {None}]
        /\ owner' \in [Element -> Builder \cup {Nobody}]
    BY <1>1, <1>2, <1>3 DEF FavorTyped
  <2>4. QED
    BY <1>1, <1>3, <1>6, <2>1, <2>2, <2>3 DEF FavorTyped
<1>13. OwnInv'
  <2>1. \A u \in Builder \ {t} : OwnOf(u)'
    <3> SUFFICES ASSUME NEW u \in Builder \ {t} PROVE OwnOf(u)'
      OBVIOUS
    <3>1. OwnOf(u)
      BY <1>1 DEF OwnInv
    <3>2. At(u, "idle") => OwnOf(u)'
      BY <1>6, <3>1 DEF OwnOf, At
    <3>3. ASSUME ~At(u, "idle") PROVE OwnOf(u)'
      <4>1. In(u).cur < count + 1
        BY <1>4, <3>1, <3>3 DEF OwnOf, Element
      <4>2. QED
        BY <1>3, <1>6, <1>7, <1>10, <3>1, <3>3, <4>1 DEF OwnOf, At
    <3>4. QED
      BY <3>2, <3>3
  <2>2. OwnOf(t)'
    BY <1>3, <1>4, <1>5, <1>6, <1>7 DEF OwnOf, At
  <2>3. ASSUME NEW e \in Element, NEW u \in Builder, owner'[e] = u PROVE In(u)'.cur = e
    <3>1. CASE e = count
      BY <1>5, <1>6, <1>7, <2>3, <3>1
    <3>2. CASE e # count
      <4>1. In(u).cur = e
        BY <1>1, <1>7, <2>3, <3>2 DEF OwnInv
      <4>2. u # t
        BY <1>4, <4>1 DEF None, Element
      <4>3. QED
        BY <1>6, <4>1, <4>2
    <3>3. QED
      BY <3>1, <3>2
  <2>4. (\A e \in Element : owner[e] # Nobody => In(owner[e]).cur = e)'
    BY <1>12, <2>3 DEF FavorTyped
  <2>5. QED
    BY <2>1, <2>2, <2>4 DEF OwnInv
<1>14. HighInv'
  <2>1. \A u \in Builder \ {t} : HighOf(u)'
    BY <1>1, <1>3, <1>6, <1>10 DEF HighInv, HighOf, At
  <2>2. HighOf(t)'
    BY <1>5, <1>6 DEF HighOf, At
  <2>3. (global # Nobody => ~At(global, "idle") /\ ~At(global, "top"))'
    <3> SUFFICES ASSUME NEW u \in Builder, global = u PROVE ~At(u, "idle")' /\ ~At(u, "top")'
      BY <1>1, <1>3 DEF FavorTyped
    <3>1. u # t /\ ~At(u, "idle") /\ ~At(u, "top")
      BY <1>1, <1>3 DEF HighInv
    <3>2. QED
      BY <1>6, <3>1 DEF At
  <2>4. (enterpoint # None => enterpoint \in Finished /\ level[enterpoint] = maxlevel)'
    BY <1>1, <1>3, <1>8, <1>11 DEF HighInv
  <2>5. (\A e \in Finished : level[e] <= maxlevel)'
    BY <1>1, <1>3, <1>8, <1>11 DEF HighInv
  <2>6. (enterpoint = None <=> maxlevel = None)'
    BY <1>1, <1>3 DEF HighInv
  <2>7. QED
    BY <2>1, <2>2, <2>3, <2>4, <2>5, <2>6 DEF HighInv
<1>15. WhereInv'
  <2>1. ASSUME NEW u \in Builder \ {t} PROVE WhereOf(u)'
    <3>1. WhereOf(u) /\ In(u)' = In(u)
      BY <1>1, <1>6 DEF WhereInv
    <3>2. CASE At(u, "descend")
      <4>1. In(u).lvl \in Level
        <5>1. In(u).lvl \in Level \cup {None} /\ level[In(u).cur] \in Level
          BY <1>1, <3>2, ElementFacts DEF FavorTyped, In, Inserters, At
        <5>2. QED
          BY <3>1, <3>2, <5>1 DEF WhereOf, Level, None
      <4>2. QED
        BY <1>9, <1>10, <3>1, <3>2, <4>1 DEF WhereOf, At
    <3>3. CASE At(u, "search") \/ At(u, "link")
      <4>1. /\ In(u).lvl \in Level /\ Has(In(u).lvl) \subseteq Has(In(u).lvl)'
            /\ level'[In(u).cur] = level[In(u).cur]
        BY <1>9, <1>10, <3>1, <3>3 DEF WhereOf, At
      <4>2. QED
        BY <1>8, <3>1, <3>3, <4>1 DEF WhereOf, At
    <3>4. QED
      BY <3>1, <3>2, <3>3 DEF WhereOf, At
  <2>2. WhereOf(t)'
    BY <1>5, <1>6 DEF WhereOf, At
  <2>3. QED
    BY <2>1, <2>2 DEF WhereInv
<1>16. LinksInv'
  <2>1. ASSUME NEW u \in Builder \ {t} PROVE LinksOf(u)'
    <3>1. LinksOf(u) /\ In(u)' = In(u)
      BY <1>1, <1>6 DEF LinksInv
    <3>2. QED
      BY <1>3, <1>10, <3>1 DEF LinksOf, Ahead, Behind, At
  <2>2. LinksOf(t)'
    <3>1. \A l \in Level : links[count][l] = {} /\ \A n \in Element : count \notin links[n][l]
      BY <1>1, <1>4, <1>9 DEF GraphInv
    <3>2. QED
      BY <1>3, <1>5, <1>6, <3>1 DEF LinksOf, Behind, At
  <2>3. QED
    BY <2>1, <2>2 DEF LinksInv
<1>17. GraphInv'
  <2>1. SUFFICES ASSUME NEW e \in Element, NEW m \in Level
                 PROVE  /\ links[e][m] \subseteq Has(m)' \ {e}
                        /\ Cardinality(links[e][m]) <= Capacity(m)
                        /\ links[e][m] # {} => e \in Has(m)'
    BY <1>3 DEF GraphInv, Capacity
  <2>2. QED
    BY <1>1, <1>9 DEF GraphInv
<1>18. LoneInv'
  <2>1. SUFFICES ASSUME NEW l \in Level, NEW e \in Finished, e \in Has(l)', links[e][l] = {}
                 PROVE  Finished \cap Has(l)' = {e} /\ \A u \in Builder : MeetsOf(u, e, l)'
    BY <1>3, <1>8 DEF LoneInv
  <2>2. e \in Has(l) /\ Finished \cap Has(l)' = Finished \cap Has(l)
    BY <1>9, <1>11, <2>1
  <2>3. Finished \cap Has(l) = {e} /\ \A u \in Builder : MeetsOf(u, e, l)
    BY <1>1, <2>1, <2>2 DEF LoneInv
  <2>4. ASSUME NEW u \in Builder \ {t} PROVE MeetsOf(u, e, l)'
    <3>1. MeetsOf(u, e, l) /\ In(u)' = In(u)
      BY <1>6, <2>3
    <3>2. CASE At(u, "idle")
      BY <3>1, <3>2 DEF MeetsOf, At
    <3>3. CASE ~At(u, "idle")
      <4>1. In(u).cur \in Has(l)' <=> In(u).cur \in Has(l)
        BY <1>9, <1>10, <3>3
      <4>2. QED
        BY <3>1, <4>1 DEF MeetsOf, At
    <3>4. QED
      BY <3>2, <3>3
  <2>5. MeetsOf(t, e, l)'
    BY <1>5, <1>6 DEF MeetsOf, At
  <2>6. QED
    BY <2>2, <2>3, <2>4, <2>5
<1>19. QED
  BY <1>12, <1>13, <1>14, <1>15, <1>16, <1>17, <1>18 DEF BuildInv

\* Releasing the locks, and becoming the entry point where it is the highest.
LEMMA FinishStep ==
    ASSUME BuildInv, NEW t \in Builder, finish(t)
    PROVE  BuildInv'
<1> USE FavorAssumption
<1> DEFINE c == In(t).cur
           top == In(t).top
           highest == level[c] > top
<1>1. /\ FavorTyped /\ OwnInv /\ HighInv /\ WhereInv /\ LinksInv /\ GraphInv /\ LoneInv
  BY DEF BuildInv
<1>2. /\ At(t, "finish") /\ ~At(t, "idle") /\ ~At(t, "top") /\ Step(t, NotInserting)
      /\ IF highest THEN enterpoint' = c /\ maxlevel' = level[c]
                    ELSE UNCHANGED <<enterpoint, maxlevel>>
      /\ owner' = [owner EXCEPT ![c] = Nobody]
      /\ global' = (IF global = t THEN Nobody ELSE global)
      /\ UNCHANGED <<pos, count, level, links, search>>
  BY DEF finish, At
<1>3. /\ c \in Element /\ c \notin Finished /\ level[c] \in Level /\ level[c] \in Int
      /\ c < count /\ owner[c] = t /\ c # None
  BY <1>1, <1>2, ElementFacts DEF OwnInv, OwnOf, None, Element
<1>4. /\ NotInserting \in Inserters /\ NotInserting.pc = "idle" /\ NotInserting.cur = None
  BY DEF NotInserting, Inserters
<1>5. /\ inserter' \in [Builder -> Inserters] /\ In(t)' = NotInserting
      /\ \A u \in Builder \ {t} : In(u)' = In(u)
  BY <1>1, <1>2, <1>4, StepFacts DEF FavorTyped
<1>6. /\ top <= maxlevel /\ (highest <=> global = t) /\ (highest => maxlevel = top)
      /\ (enterpoint = None <=> maxlevel = None)
      /\ (enterpoint # None => enterpoint \in Finished /\ level[enterpoint] = maxlevel)
      /\ \A e \in Finished : level[e] <= maxlevel
  BY <1>1, <1>2 DEF HighInv, HighOf
<1>7. top \in Int /\ top \in Level \cup {None} /\ maxlevel \in Int /\ maxlevel \in Level \cup {None}
  BY <1>1 DEF FavorTyped, In, Inserters, Level, None
<1> HIDE DEF highest
<1>8. /\ \A e \in Element : e # c => owner'[e] = owner[e]
      /\ owner'[c] = Nobody
  BY <1>1, <1>2, <1>3 DEF FavorTyped
<1>9. Finished' = Finished \cup {c} /\ \A l : Has(l)' = Has(l)
  <2>1. \A e \in Element : e \in Finished' <=> e \in Finished \/ e = c
    BY <1>2, <1>3, <1>8 DEF Finished
  <2>2. QED
    BY <1>2, <1>3, <2>1 DEF Finished, Has
<1>10. FavorTyped'
  <2>1. /\ owner' \in [Element -> Builder \cup {Nobody}] /\ global' \in Builder \cup {Nobody}
        /\ enterpoint' \in Element \cup {None} /\ maxlevel' \in Level \cup {None}
    BY <1>1, <1>2, <1>3 DEF FavorTyped
  <2>2. QED
    BY <1>1, <1>2, <1>5, <2>1 DEF FavorTyped
<1>11. OwnInv'
  <2>1. ASSUME NEW u \in Builder \ {t} PROVE OwnOf(u)'
    <3>1. OwnOf(u) /\ In(u)' = In(u) /\ (~At(u, "idle") => In(u).cur # c)
      BY <1>1, <1>3, <1>5 DEF OwnInv, OwnOf
    <3>2. QED
      BY <1>2, <1>8, <3>1 DEF OwnOf, At
  <2>2. OwnOf(t)'
    BY <1>4, <1>5 DEF OwnOf, At
  <2>3. ASSUME NEW e \in Element, NEW u \in Builder, owner'[e] = u PROVE In(u)'.cur = e
    <3>1. e # c /\ In(u).cur = e
      BY <1>1, <1>8, <2>3 DEF OwnInv
    <3>2. u # t
      BY <3>1
    <3>3. QED
      BY <1>5, <3>1, <3>2
  <2>4. (\A e \in Element : owner[e] # Nobody => In(owner[e]).cur = e)'
    BY <1>10, <2>3 DEF FavorTyped
  <2>5. QED
    BY <2>1, <2>2, <2>4 DEF OwnInv
<1>12. HighInv'
  <2>1. ASSUME NEW u \in Builder \ {t} PROVE HighOf(u)'
    <3>1. HighOf(u) /\ In(u)' = In(u)
      BY <1>1, <1>5 DEF HighInv
    <3>2. SUFFICES ASSUME ~At(u, "idle"), ~At(u, "top") PROVE HighOf(u)'
      BY <3>1 DEF HighOf, At
    <3>3. /\ In(u).top <= maxlevel /\ (level[In(u).cur] > In(u).top <=> global = u)
          /\ (global = u => maxlevel = In(u).top) /\ In(u).top \in Int
      BY <1>1, <3>1, <3>2 DEF HighOf, FavorTyped, In, Inserters, Level, None
    <3>4. CASE highest
      <4>1. global # u /\ global' # u /\ maxlevel' >= maxlevel /\ maxlevel' \in Int
        BY <1>2, <1>3, <1>6, <1>7, <3>4 DEF highest
      <4>2. QED
        BY <1>2, <1>7, <3>1, <3>3, <4>1 DEF HighOf, At
    <3>5. CASE ~highest
      <4>1. global' = global /\ maxlevel' = maxlevel
        BY <1>2, <1>6, <3>5
      <4>2. QED
        BY <1>2, <3>1, <3>3, <4>1 DEF HighOf, At
    <3>6. QED
      BY <3>4, <3>5
  <2>2. HighOf(t)'
    BY <1>4, <1>5 DEF HighOf, At
  <2>3. (global # Nobody => ~At(global, "idle") /\ ~At(global, "top"))'
    <3> SUFFICES ASSUME NEW u \in Builder, global' = u PROVE ~At(u, "idle")' /\ ~At(u, "top")'
      BY <1>10 DEF FavorTyped
    <3>1. u # t /\ ~At(u, "idle") /\ ~At(u, "top")
      BY <1>1, <1>2 DEF HighInv
    <3>2. QED
      BY <1>5, <3>1 DEF At
  <2>4. /\ (enterpoint = None <=> maxlevel = None)'
        /\ (enterpoint # None => enterpoint \in Finished /\ level[enterpoint] = maxlevel)'
        /\ (\A e \in Finished : level[e] <= maxlevel)'
    <3>1. CASE highest
      <4>1. enterpoint' = c /\ maxlevel' = level[c] /\ level[c] # None /\ maxlevel < level[c]
        BY <1>2, <1>3, <1>6, <3>1 DEF highest, Level, None
      <4>2. \A e \in Finished : level[e] <= level[c]
        <5> TAKE e \in Finished
        <5>1. level[e] <= maxlevel /\ level[e] \in Int
          BY <1>6, ElementFacts DEF Finished
        <5>2. QED
          BY <1>3, <1>7, <4>1, <5>1
      <4>3. QED
        BY <1>2, <1>3, <1>9, <4>1, <4>2
    <3>2. CASE ~highest
      <4>1. enterpoint' = enterpoint /\ maxlevel' = maxlevel
        BY <1>2, <3>2
      <4>2. level[c] <= maxlevel
        BY <1>3, <1>6, <1>7, <3>2 DEF highest
      <4>3. QED
        BY <1>2, <1>6, <1>9, <4>1, <4>2
    <3>3. QED
      BY <3>1, <3>2
  <2>5. QED
    BY <2>1, <2>2, <2>3, <2>4 DEF HighInv
<1>13. WhereInv'
  <2>1. \A u \in Builder \ {t} : WhereOf(u)'
    BY <1>1, <1>2, <1>5, <1>9 DEF WhereInv, WhereOf, At
  <2>2. WhereOf(t)'
    BY <1>4, <1>5 DEF WhereOf, At
  <2>3. QED
    BY <2>1, <2>2 DEF WhereInv
<1>14. LinksInv'
  <2>1. \A u \in Builder \ {t} : LinksOf(u)'
    BY <1>1, <1>2, <1>5 DEF LinksInv, LinksOf, Ahead, Behind, At
  <2>2. LinksOf(t)'
    BY <1>4, <1>5 DEF LinksOf, Ahead, Behind, At
  <2>3. QED
    BY <2>1, <2>2 DEF LinksInv
<1>15. GraphInv'
  BY <1>1, <1>2, <1>9 DEF GraphInv
<1>16. LoneInv'
  <2>1. SUFFICES ASSUME NEW l \in Level, NEW e \in Finished \cup {c}, e \in Has(l), links[e][l] = {}
                 PROVE  (Finished \cup {c}) \cap Has(l) = {e} /\ \A u \in Builder : MeetsOf(u, e, l)'
    BY <1>2, <1>9 DEF LoneInv
  <2>2. MeetsOf(t, e, l)'
    BY <1>4, <1>5 DEF MeetsOf, At
  <2>3. CASE e \in Finished
    <3>1. Finished \cap Has(l) = {e} /\ \A u \in Builder : MeetsOf(u, e, l)
      BY <1>1, <2>1, <2>3 DEF LoneInv
    <3>2. c \notin Has(l)
      BY <1>2, <3>1 DEF MeetsOf
    <3>3. \A u \in Builder \ {t} : MeetsOf(u, e, l)'
      BY <1>5, <1>9, <3>1 DEF MeetsOf, At
    <3>4. QED
      BY <2>2, <3>1, <3>2, <3>3
  <2>4. CASE e = c
    <3>1. l > top /\ level[c] >= l /\ l \in Int
      <4>1. level[c] >= l /\ l \in Int
        BY <2>1, <2>4 DEF Has, Level
      <4>2. ~(l <= top)
        BY <1>1, <1>2, <2>1, <2>4, <4>1 DEF LinksInv, LinksOf, Behind
      <4>3. QED
        BY <1>7, <4>1, <4>2
    <3>2. highest /\ maxlevel = top /\ global = t
      BY <1>3, <1>6, <1>7, <3>1 DEF highest
    <3>3. \A x \in Finished : x \notin Has(l)
      <4> TAKE x \in Finished
      <4>1. level[x] <= maxlevel /\ level[x] \in Int
        BY <1>6, ElementFacts DEF Finished
      <4>2. QED
        BY <1>7, <3>1, <3>2, <4>1 DEF Has
    <3>4. ASSUME NEW u \in Builder \ {t} PROVE MeetsOf(u, e, l)'
      <4>1. SUFFICES ASSUME In(u).cur \in Has(l), ~At(u, "idle"), ~At(u, "top") PROVE FALSE
        BY <1>5, <1>9 DEF MeetsOf, At
      <4>2. /\ In(u).top <= maxlevel /\ ~(level[In(u).cur] > In(u).top) /\ In(u).top \in Int
            /\ level[In(u).cur] \in Int /\ level[In(u).cur] >= l
        BY <1>1, <3>2, <4>1, ElementFacts DEF HighInv, HighOf, FavorTyped, In, Inserters, Level, None, Has
      <4>3. QED
        BY <1>7, <3>1, <3>2, <4>2
    <3>5. QED
      BY <2>1, <2>2, <2>4, <3>3, <3>4
  <2>5. QED
    BY <2>1, <2>3, <2>4
<1>17. QED
  BY <1>10, <1>11, <1>12, <1>13, <1>14, <1>15, <1>16 DEF BuildInv

-----------------------------------------------------------------------------
\* The query.

\* The count follows what enters the pool and what leaves it.
LEMMA EvictFacts ==
    ASSUME NEW s, DOMAIN s = DOMAIN NotSearching, s.pass \subseteq Element, s.inRange = InRange(s.pool, s),
           NEW x \in Evict(s)
    PROVE  /\ DOMAIN x = DOMAIN NotSearching /\ x.pc = s.pc /\ x.k = s.k /\ x.place = s.place
           /\ x.pass = s.pass /\ x.seen = s.seen /\ x.pending = s.pending /\ x.open = s.open
           /\ x.answer = s.answer
           /\ x.pool \subseteq s.pool /\ x.inRange = InRange(x.pool, x)
<1>1. CASE x = s
  BY <1>1
<1>2. CASE x # s
  <2>1. PICK e \in FarthestSeen(s.pool, s) :
           x = [s EXCEPT !.pool = @ \ {e}, !.inRange = IF e \in s.pass THEN @ - 1 ELSE @]
    BY <1>2 DEF Evict
  <2>2. /\ DOMAIN x = DOMAIN NotSearching /\ x.pc = s.pc /\ x.k = s.k /\ x.place = s.place
        /\ x.pass = s.pass /\ x.seen = s.seen /\ x.pending = s.pending /\ x.open = s.open
        /\ x.answer = s.answer
        /\ x.pool = s.pool \ {e} /\ x.inRange = IF e \in s.pass THEN s.inRange - 1 ELSE s.inRange
    BY <2>1 DEF NotSearching
  <2>3. e \in s.pool
    BY <2>1 DEF FarthestSeen
  <2> DEFINE P == s.pool \cap s.pass
  <2>4. IsFiniteSet(P)
    BY ElementsFinite, FS_Subset
  <2>5. x.pool \cap x.pass = P \ {e}
    BY <2>2
  <2>6. e \in s.pass => Cardinality(P \ {e}) = Cardinality(P) - 1
    <3> SUFFICES ASSUME e \in P PROVE Cardinality(P \ {e}) = Cardinality(P) - 1
      BY <2>3
    <3> HIDE DEF P
    <3> QED
      BY <2>4, FS_RemoveElement
  <2>7. e \notin s.pass => P \ {e} = P
    OBVIOUS
  <2>8. QED
    BY <2>2, <2>5, <2>6, <2>7 DEF InRange
<1>3. QED
  BY <1>1, <1>2

\* The steps of a search, while nothing is inserted.
LEMMA QueryStep ==
    ASSUME BuildInv, QueryInv, query
    PROVE  BuildInv' /\ QueryInv'
<1> USE FavorAssumption
<1>1. UNCHANGED <<graph, inserter>>
  BY DEF query, startQuery, bruteForce, descendQuery, beginBase, read, visit, answer
<1>2. BuildInv'
  <2>1. Finished' = Finished /\ \A l : Has(l)' = Has(l)
    BY <1>1 DEF Finished, Has, graph
  <2>2. FavorTyped' /\ OwnInv'
    BY <1>1 DEF BuildInv, FavorTyped, OwnInv, OwnOf, In, At, graph
  <2>3. HighInv'
    BY <1>1, <2>1 DEF BuildInv, HighInv, HighOf, In, At, graph
  <2>4. WhereInv'
    BY <1>1, <2>1 DEF BuildInv, WhereInv, WhereOf, In, At, graph
  <2>5. LinksInv'
    BY <1>1 DEF BuildInv, LinksInv, LinksOf, Ahead, Behind, In, At, graph
  <2>6. GraphInv'
    BY <1>1, <2>1 DEF BuildInv, GraphInv, graph
  <2>7. LoneInv'
    BY <1>1, <2>1 DEF BuildInv, LoneInv, MeetsOf, In, At, graph
  <2>8. QED
    BY <2>2, <2>3, <2>4, <2>5, <2>6, <2>7 DEF BuildInv
<1>3. QueryInv'
  <2>1. CASE startQuery
    <3>1. PICK p \in QueryPlaces, pass \in SUBSET Element, k \in Ks, ef \in Efs :
             search' = [search EXCEPT !.pc = "descend", !.place = p, !.pass = pass, !.k = k,
                                      !.ef = IF ef < k THEN k ELSE ef,
                                      !.obj = enterpoint, !.lvl = maxlevel]
      BY <2>1 DEF startQuery
    <3>2. search.pc = "none" /\ search.open = {}
      BY <2>1 DEF startQuery, QueryInv
    <3>3. QED
      BY <3>1, <3>2 DEF QueryInv, NotSearching
  <2>2. CASE bruteForce
    BY <2>2 DEF bruteForce, QueryInv, NotSearching
  <2>3. CASE descendQuery
    <3>1. \/ search' = [search EXCEPT !.obj = Closest(links[search.obj][search.lvl] \cup {search.obj}, search.place)]
          \/ search' = [search EXCEPT !.lvl = @ - 1]
      BY <2>3 DEF descendQuery
    <3>2. search.pc = "descend"
      BY <2>3 DEF descendQuery
    <3>3. QED
      BY <3>1, <3>2 DEF QueryInv, NotSearching
  <2>4. CASE beginBase
    <3>1. PICK d \in Seen(search.obj, search) :
             search' = [search EXCEPT !.pc = "base", !.seen = [e \in {search.obj} |-> d],
                                      !.open = {search.obj}, !.pool = {search.obj},
                                      !.inRange = IF search.obj \in search.pass THEN 1 ELSE 0]
      BY <2>4 DEF beginBase
    <3> DEFINE o == search.obj
    <3>2. /\ DOMAIN search' = DOMAIN NotSearching /\ search'.pc = "base" /\ search'.pool = {o}
          /\ search'.pass = search.pass /\ search'.k = search.k /\ search'.place = search.place
          /\ DOMAIN (search'.seen) = {o} /\ search'.pending = search.pending
          /\ search'.inRange = IF o \in search.pass THEN 1 ELSE 0
      BY <3>1 DEF QueryInv, NotSearching
    <3>3. search.pc = "descend"
      BY <2>4 DEF beginBase
    <3> HIDE DEF o
    <3>4. InRange({o}, search') = IF o \in search.pass THEN 1 ELSE 0
      <4>1. CASE o \in search.pass
        <5>1. {o} \cap search.pass = {o}
          BY <4>1
        <5>2. QED
          BY <3>2, <4>1, <5>1, FS_Singleton DEF InRange
      <4>2. CASE o \notin search.pass
        <5>1. {o} \cap search.pass = {}
          BY <4>2
        <5>2. QED
          BY <3>2, <4>2, <5>1, FS_EmptySet DEF InRange
      <4>3. QED
        BY <4>1, <4>2
    <3>5. QED
      <4>1. search'.pool \subseteq DOMAIN (search'.seen) /\ search'.pending = {}
        BY <3>2, <3>3 DEF QueryInv
      <4>2. InRange(search'.pool, search') = search'.inRange
        BY <3>2, <3>4
      <4>3. /\ search.pass \subseteq Element /\ search.k \in Nat \ {0} /\ search.place \in Nat
        BY DEF QueryInv
      <4>4. QED
        BY <3>2, <4>1, <4>2, <4>3 DEF QueryInv, InRange
  <2>5. CASE read
    <3>1. PICK e \in NearestSeen(search.open, search) :
             search' = [search EXCEPT !.open = @ \ {e},
                                      !.pending = links[e][0] \ DOMAIN search.seen]
      BY <2>5 DEF read
    <3>2. search.pc = "base"
      BY <2>5 DEF read
    <3>3. QED
      BY <3>1, <3>2 DEF QueryInv, NotSearching, InRange
  <2>6. CASE visit
    <3>1. search.pc = "base"
      BY <2>6 DEF visit
    <3>9. PICK e \in search.pending : \E d \in Seen(e, search) :
             LET s == [search EXCEPT !.pending = @ \ {e},
                                     !.seen = [x \in DOMAIN search.seen \cup {e} |->
                                                 IF x = e THEN d ELSE search.seen[x]]]
             IN  \/ search' \in Evict([s EXCEPT !.open = @ \cup {e}, !.pool = @ \cup {e},
                                                !.inRange = IF e \in s.pass THEN @ + 1 ELSE @])
                 \/ search' = s
      BY <2>6 DEF visit
    <3>2. PICK d \in Seen(e, search) :
             LET s == [search EXCEPT !.pending = @ \ {e},
                                     !.seen = [x \in DOMAIN search.seen \cup {e} |->
                                                 IF x = e THEN d ELSE search.seen[x]]]
             IN  \/ search' \in Evict([s EXCEPT !.open = @ \cup {e}, !.pool = @ \cup {e},
                                                !.inRange = IF e \in s.pass THEN @ + 1 ELSE @])
                 \/ search' = s
      BY <3>9
    <3> DEFINE s == [search EXCEPT !.pending = @ \ {e},
                                   !.seen = [x \in DOMAIN search.seen \cup {e} |->
                                               IF x = e THEN d ELSE search.seen[x]]]
               z == [s EXCEPT !.open = @ \cup {e}, !.pool = @ \cup {e},
                              !.inRange = IF e \in s.pass THEN @ + 1 ELSE @]
    <3>3. /\ DOMAIN search = DOMAIN NotSearching /\ search.pass \subseteq Element
          /\ search.pool \subseteq DOMAIN search.seen
          /\ search.pending \cap DOMAIN search.seen = {}
          /\ search.inRange = InRange(search.pool, search)
      BY <3>1 DEF QueryInv
    <3>4. /\ DOMAIN s = DOMAIN NotSearching /\ s.pc = "base" /\ s.k = search.k /\ s.place = search.place
          /\ s.pass = search.pass /\ s.pool = search.pool /\ s.inRange = search.inRange
          /\ DOMAIN s.seen = DOMAIN search.seen \cup {e} /\ s.pending = search.pending \ {e}
      BY <3>1, <3>3 DEF NotSearching
    <3>5. CASE search' = s
      <4> HIDE DEF s
      <4>1. s.pending \cap DOMAIN s.seen = {} /\ s.pool \subseteq DOMAIN s.seen
        BY <3>3, <3>4
      <4>2. s.inRange = InRange(s.pool, s)
        BY <3>3, <3>4 DEF InRange
      <4>3. QED
        BY <3>4, <3>5, <4>1, <4>2 DEF QueryInv, InRange
    <3>6. CASE search' \in Evict(z)
      <4>1. /\ DOMAIN z = DOMAIN NotSearching /\ z.pc = "base" /\ z.k = search.k /\ z.place = search.place
            /\ z.pass = search.pass /\ z.pool = search.pool \cup {e} /\ z.seen = s.seen
            /\ z.pending = s.pending
            /\ z.inRange = IF e \in search.pass THEN search.inRange + 1 ELSE search.inRange
        <5> HIDE DEF s
        <5> QED
          BY <3>4 DEF NotSearching
      <4> HIDE DEF s, z
      <4>2. e \notin search.pool
        BY <3>3
      <4>3. z.inRange = InRange(z.pool, z)
        <5> DEFINE P == search.pool \cap search.pass
        <5>1. IsFiniteSet(P)
          BY <3>3, ElementsFinite, FS_Subset
        <5>2. e \in search.pass => z.pool \cap z.pass = P \cup {e}
          BY <4>1
        <5>3. e \notin search.pass => z.pool \cap z.pass = P
          BY <4>1
        <5>4. e \notin P
          BY <4>2
        <5>5. search.inRange = Cardinality(P)
          BY <3>3 DEF InRange
        <5> HIDE DEF P
        <5>6. Cardinality(P \cup {e}) = Cardinality(P) + 1
          BY <5>1, <5>4, FS_AddElement
        <5>7. QED
          BY <4>1, <5>2, <5>3, <5>5, <5>6 DEF InRange
      <4>4. /\ DOMAIN search' = DOMAIN NotSearching /\ search'.pc = "base" /\ search'.k = search.k
            /\ search'.place = search.place /\ search'.pass = search.pass
            /\ search'.seen = s.seen /\ search'.pending = s.pending
            /\ search'.pool \subseteq search.pool \cup {e} /\ search'.inRange = InRange(search'.pool, search')
        <5>1. \A x \in Evict(z) : /\ DOMAIN x = DOMAIN NotSearching /\ x.pc = z.pc /\ x.k = z.k
                                  /\ x.place = z.place /\ x.pass = z.pass /\ x.seen = z.seen
                                  /\ x.pending = z.pending
                                  /\ x.pool \subseteq z.pool /\ x.inRange = InRange(x.pool, x)
          <6>1. z.pass \subseteq Element
            BY <3>3, <4>1
          <6>2. DOMAIN z = DOMAIN NotSearching /\ z.inRange = InRange(z.pool, z)
            BY <4>1, <4>3
          <6>3. QED
            BY <6>1, <6>2, EvictFacts
        <5>2. QED
          BY <3>6, <4>1, <5>1
      <4>5. search'.pool \subseteq DOMAIN (search'.seen) /\ search'.pending \cap DOMAIN (search'.seen) = {}
        BY <3>3, <3>4, <4>4
      <4>6. QED
        BY <4>4, <4>5 DEF QueryInv, InRange
    <3>7. QED
      BY <3>2, <3>5, <3>6
  <2>7. CASE answer
    <3> DEFINE A == ClosestOf(search.pool \cap search.pass, search.k, search.place)
    <3>1. /\ search.pc = "base"
          /\ search.pending = {}
          /\ search.open = {} \/ \E e \in NearestSeen(search.open, search) : Stops(e, search)
          /\ search' = [search EXCEPT !.pc = "done", !.answer = A]
      BY <2>7 DEF answer
    <3>2. ASSUME search.open # {} PROVE 2 * Cardinality(A) > search.k
      <4> DEFINE P == search.pool \cap search.pass
      <4>1. /\ P \subseteq Element /\ search.place \in Nat /\ search.k \in Nat /\ search.k > 0
            /\ 2 * Cardinality(P) > search.k
        BY <3>1, <3>2 DEF QueryInv, Stops, InRange
      <4>2. Placed /\ Cardinality(P) \in Nat
        BY <4>1, ElementFacts, ElementsFinite, FS_Subset, FS_CardinalityType
      <4> HIDE DEF P
      <4>3. /\ Cardinality(P) <= search.k => ClosestOf(P, search.k, search.place) = P
            /\ Cardinality(P) > search.k => Cardinality(ClosestOf(P, search.k, search.place)) = search.k
        BY <4>1, <4>2, ClosestOfFacts
      <4>4. 2 * Cardinality(ClosestOf(P, search.k, search.place)) > search.k
        <5>1. CASE Cardinality(P) <= search.k
          BY <4>1, <4>3, <5>1
        <5>2. CASE Cardinality(P) > search.k
          BY <4>1, <4>3, <5>2
        <5>3. QED
          BY <4>1, <4>2, <5>1, <5>2
      <4>5. QED
        BY <4>4 DEF P
    <3> HIDE DEF A
    <3>3. QED
      BY <3>1, <3>2 DEF QueryInv, NotSearching
  <2>8. QED
    BY <2>1, <2>2, <2>3, <2>4, <2>5, <2>6, <2>7 DEF query
<1>4. QED
  BY <1>2, <1>3

-----------------------------------------------------------------------------
\* The theorems about FAVOR.

\* The invariant holds of the empty index.
LEMMA BuildInit == Init => BuildInv /\ QueryInv
<1> SUFFICES ASSUME Init PROVE BuildInv /\ QueryInv
  OBVIOUS
<1> USE FavorAssumption
<1>1. \A t \in Builder : In(t) = NotInserting /\ In(t).pc = "idle" /\ In(t).cur = None
  BY DEF Init, In, NotInserting
<1>2. FavorTyped
  <2>1. NotInserting \in Inserters
    BY DEF NotInserting, Inserters
  <2>2. \A e \in Element : level[e] = None <=> e >= count
    BY DEF Init, Element
  <2>3. pos \in [Element -> Nat]
    BY DEF Init, Element
  <2>4. QED
    BY <2>1, <2>2, <2>3 DEF FavorTyped, Init
<1>3. Finished = {} /\ OwnInv
  BY <1>1 DEF OwnInv, OwnOf, At, Init, Finished, Element
<1>4. HighInv
  BY <1>1, <1>3 DEF HighInv, HighOf, At, Init
<1>5. WhereInv /\ LinksInv
  BY <1>1 DEF WhereInv, WhereOf, LinksInv, LinksOf, Ahead, Behind, At
<1>6. GraphInv
  BY FS_EmptySet DEF GraphInv, Init, Capacity
<1>7. LoneInv
  BY <1>3 DEF LoneInv
<1>8. QueryInv
  BY DEF QueryInv, Init, NotSearching
<1>9. QED
  BY <1>2, <1>3, <1>4, <1>5, <1>6, <1>7, <1>8 DEF BuildInv

\* Every step of every thread and of a search keeps it.
LEMMA BuildNext == BuildInv /\ QueryInv /\ [Next]_vars => BuildInv' /\ QueryInv'
<1> SUFFICES ASSUME BuildInv, QueryInv, [Next]_vars PROVE BuildInv' /\ QueryInv'
  OBVIOUS
<1>1. ASSUME NEW t \in Builder, insert(t) PROVE BuildInv' /\ QueryInv'
  <2>1. UNCHANGED search
    BY <1>1 DEF insert, addPoint, readTop, readEntry, descend, readList, connect, link, finish
  <2>2. QueryInv'
    BY <2>1 DEF QueryInv, InRange
  <2>3. BuildInv'
    BY <1>1, AddPointStep, ReadTopStep, ReadEntryStep, DescendStep, ReadListStep, ConnectStep,
       LinkStep, FinishStep DEF insert
  <2>4. QED
    BY <2>2, <2>3
<1>2. CASE query
  BY <1>2, QueryStep
<1>3. CASE UNCHANGED vars
  <2> USE <1>3 DEF vars, graph
  <2>1. FavorTyped' /\ QueryInv'
    BY DEF BuildInv, FavorTyped, QueryInv, InRange
  <2>2. Finished' = Finished /\ (\A t : In(t)' = In(t)) /\ (\A t : \A q : At(t, q)' = At(t, q)) /\ \A l : Has(l)' = Has(l)
    BY DEF Finished, In, At, Has
  <2>3. OwnInv'
    BY <2>2 DEF BuildInv, OwnInv, OwnOf
  <2>4. HighInv'
    BY <2>2 DEF BuildInv, HighInv, HighOf
  <2>5. WhereInv'
    BY <2>2 DEF BuildInv, WhereInv, WhereOf
  <2>6. LinksInv'
    BY <2>2 DEF BuildInv, LinksInv, LinksOf, Ahead, Behind
  <2>7. GraphInv'
    BY <2>2 DEF BuildInv, GraphInv
  <2>8. LoneInv'
    BY <2>2 DEF BuildInv, LoneInv, MeetsOf
  <2>9. QED
    BY <2>1, <2>3, <2>4, <2>5, <2>6, <2>7, <2>8 DEF BuildInv
<1>4. QED
  BY <1>1, <1>2, <1>3 DEF Next

\* It holds for any number of threads, elements and levels, any places and levels
\* drawn, and any bounds of the lists.
THEOREM BuildInvariance == Spec => [](BuildInv /\ QueryInv)
<1> QED
  BY BuildInit, BuildNext, PTL DEF Spec

(***************************************************************************)
(* However many threads insert: addPoint never meets what it answers with  *)
(* an exception or with a write outside a list (favor.h, lines 354-420).   *)
(***************************************************************************)
THEOREM NoInsertEverThrows == Spec => []NoInsertThrows
<1>1. BuildInv => NoInsertThrows
  <2> SUFFICES ASSUME BuildInv PROVE NoInsertThrows
    OBVIOUS
  <2>1. ASSUME NEW t \in Builder, At(t, "search")
        PROVE  links[In(t).cur][In(t).lvl] = {} /\ In(t).cur \notin In(t).found
    <3>1. In(t).lvl \in Level /\ In(t).lvl <= In(t).lvl
      BY <2>1 DEF BuildInv, WhereInv, WhereOf, Level
    <3>2. QED
      BY <2>1, <3>1 DEF BuildInv, WhereInv, WhereOf, LinksInv, LinksOf, Ahead
  <2>2. ASSUME NEW t \in Builder, At(t, "link")
        PROVE  \A n \in In(t).rest : In(t).cur \notin links[n][In(t).lvl]
    BY <2>2 DEF BuildInv, LinksInv, LinksOf
  <2>3. QED
    BY <2>1, <2>2 DEF NoInsertThrows, BuildInv, GraphInv
<1>2. QED
  BY <1>1, BuildInvariance, PTL

(***************************************************************************)
(* The entry point is the highest of the inserted elements, although it    *)
(* and the highest level are read and written by all threads (favor.h,     *)
(* lines 804-808 and 896-900).                                             *)
(***************************************************************************)
THEOREM EntryStaysHighest == Spec => []EntryIsHighest
<1>1. BuildInv => EntryIsHighest
  <2> SUFFICES ASSUME BuildInv, NEW e \in Element, e < count, \A t \in Builder : In(t).cur # e
               PROVE  enterpoint # None /\ level[enterpoint] = maxlevel /\ level[e] <= maxlevel
    BY DEF EntryIsHighest
  <2>1. e \in Finished
    BY DEF BuildInv, OwnInv, FavorTyped, Finished
  <2>2. level[e] <= maxlevel /\ (enterpoint # None => level[enterpoint] = maxlevel)
        /\ (enterpoint = None <=> maxlevel = None)
    BY <2>1 DEF BuildInv, HighInv
  <2>3. level[e] \in Level
    BY ElementFacts
  <2>4. maxlevel # None
    BY <2>2, <2>3 DEF Level, None
  <2>5. QED
    BY <2>2, <2>4
<1>2. QED
  BY <1>1, BuildInvariance, PTL

(***************************************************************************)
(* Elements that are inserted together do not miss each other: on every    *)
(* level of the built graph an element has a neighbour, unless it is alone *)
(* there (addPoint and ParallelFor).                                       *)
(***************************************************************************)
THEOREM NobodyIsMissed == Spec => []NoLoneElement
<1>1. BuildInv => NoLoneElement
  <2> SUFFICES ASSUME BuildInv, Built, NEW l \in Level, NEW e \in Has(l), links[e][l] = {}
               PROVE  Has(l) = {e}
    BY DEF NoLoneElement
  <2>1. \A t \in Builder : In(t).cur = None
    BY DEF BuildInv, OwnInv, OwnOf, Built
  <2>2. \A x \in Element : x < count /\ owner[x] = Nobody
    <3> TAKE x \in Element
    <3>1. x < count
      BY FavorAssumption DEF Built, Element
    <3>2. x # None
      BY DEF None, Element
    <3>3. QED
      BY <2>1, <3>1, <3>2 DEF BuildInv, OwnInv, FavorTyped
  <2>3. Finished = Element /\ Has(l) \subseteq Element
    BY <2>2 DEF Finished, Has
  <2>4. QED
    BY <2>3 DEF BuildInv, LoneInv
<1>2. QED
  BY <1>1, BuildInvariance, PTL

(***************************************************************************)
(* The count of qualified elements is that of the pool, so that a search   *)
(* that stops early has more than half of k answers (favor.h, lines        *)
(* 1036-1070).                                                             *)
(***************************************************************************)
THEOREM HalfOfTheAnswers == Spec => []EarlyStopHasHalf
<1>1. QueryInv => EarlyStopHasHalf
  BY DEF QueryInv, EarlyStopHasHalf
<1>2. QED
  BY <1>1, BuildInvariance, PTL
=============================================================================
