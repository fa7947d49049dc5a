------------------------------ MODULE FavorIndex ------------------------------
(***************************************************************************)
(* The FAVOR index: a layered proximity graph into which several threads   *)
(* insert the vectors (addPoint under ParallelFor), and the filtered       *)
(* search over the finished graph.  The locks are those of the code: an    *)
(* inserter holds the list of its own element from beginning to end, the   *)
(* global mutex if its element is to become the highest, and the list of   *)
(* another element while it reads or extends it.                           *)
(***************************************************************************)
EXTENDS Integers, FiniteSets

CONSTANTS Builder, Nobody,   \* the inserting threads; the holder of a free lock
          NumElements,      \* number of vectors
          Placements,       \* where the vectors may lie, on a line
          MaxLevel,         \* bound: highest level drawn
          M, EfConstruction,
          QueryPlaces, Ks, Efs   \* the queries: place, k, size of the pool

ASSUME FavorAssumption ==
  /\ Nobody \notin Builder /\ NumElements \in Nat \ {0} /\ MaxLevel \in Nat
  /\ M \in Nat \ {0} /\ EfConstruction \in Nat /\ EfConstruction >= M
  /\ Placements \subseteq [0 .. NumElements - 1 -> Nat]
  /\ QueryPlaces \subseteq Nat /\ Ks \subseteq Nat \ {0} /\ Efs \subseteq Nat \ {0}

Element == 0 .. NumElements - 1
Level   == 0 .. MaxLevel
None    == -1                          \* no element, no level

VARIABLES pos,          \* place of each vector
          count,        \* cur_element_count
          level,        \* element_levels_
          links,        \* link lists, by element and level
          owner,        \* who holds link_list_locks_[e]
          global,       \* who holds the global mutex
          enterpoint,   \* enterpoint_node_
          maxlevel,     \* maxlevel_
          inserter,     \* per thread: where it stands in addPoint
          search        \* the query being answered

graph == <<pos, count, level, links, owner, global, enterpoint, maxlevel>>
vars  == <<graph, inserter, search>>

Dist(a, b) == (a - b) * (a - b)        \* L2, not rooted

(* The n elements of S nearest to place p.  Of two at the same distance,    *)
(* which the heaps hand out in either order, the one with the lower id     *)
(* counts as nearer; only a smaller distance makes a descent move on.      *)
Improves(a, b, p)  == Dist(pos[a], p) < Dist(pos[b], p)
CloserTo(e, S, p)  == {s \in S : Improves(s, e, p) \/ (~Improves(e, s, p) /\ s < e)}
ClosestOf(S, n, p) == {e \in S : Cardinality(CloserTo(e, S, p)) < n}
Closest(S, p)      == CHOOSE e \in S : CloserTo(e, S, p) = {}
Farthest(S, p)     == CHOOSE e \in S : CloserTo(e, S, p) = S \ {e}

(* getNeighborsByHeuristic2: below m candidates all stay; otherwise they   *)
(* are gone through from near to far, and one stays if fewer than m have   *)
(* stayed and none of those is nearer to it than p is.                     *)
Heuristic(S, m, p) ==
  IF Cardinality(S) < m THEN S
  ELSE CHOOSE R \in SUBSET S : \A e \in S :
         LET before == CloserTo(e, R, p)
         IN  e \in R <=> /\ Cardinality(before) < m
                         /\ \A r \in before : Dist(pos[r], pos[e]) >= Dist(pos[e], p)

Capacity(l) == IF l = 0 THEN 2 * M ELSE M

NotInserting == [pc |-> "idle", cur |-> None, top |-> None, obj |-> None, lvl |-> None,
                 found |-> {}, done |-> {}, rest |-> {}]
NotSearching == [pc |-> "none", place |-> 0, pass |-> {}, k |-> 1, ef |-> 1, obj |-> None,
                 lvl |-> None, seen |-> <<>>, open |-> {}, pool |-> {}, pending |-> {},
                 inRange |-> 0, answer |-> {}]

Init == /\ pos \in Placements
        /\ count = 0 /\ level = [e \in Element |-> None]
        /\ links = [e \in Element |-> [l \in Level |-> {}]]
        /\ owner = [e \in Element |-> Nobody] /\ global = Nobody
        /\ enterpoint = None /\ maxlevel = None
        /\ inserter = [t \in Builder |-> NotInserting]
        /\ search = NotSearching

-----------------------------------------------------------------------------
(* addPoint by thread t; In is its record, and Step changes it. *)

In(t)      == inserter[t]
Step(t, r) == inserter' = [inserter EXCEPT ![t] = r]
At(t, pc)  == In(t).pc = pc
Place(t)   == pos[In(t).cur]

(* Mutant of addPoint: the new element's list is not locked. *)
addPointUnlocked(t) == /\ At(t, "idle") /\ count < NumElements
                       /\ count' = count + 1
                       /\ \E l \in Level : level' = [level EXCEPT ![count] = l]
                       /\ Step(t, [In(t) EXCEPT !.pc = "top", !.cur = count])
                       /\ UNCHANGED <<pos, links, owner, global, enterpoint, maxlevel, search>>

(* An id is given out, its list locked for the whole insertion, and a      *)
(* level drawn.                                                            *)
addPoint(t) == /\ At(t, "idle") /\ count < NumElements
               /\ count' = count + 1
               /\ owner' = [owner EXCEPT ![count] = t]
               /\ \E l \in Level : level' = [level EXCEPT ![count] = l]
               /\ Step(t, [In(t) EXCEPT !.pc = "top", !.cur = count])
               /\ UNCHANGED <<pos, links, global, enterpoint, maxlevel, search>>

(* Mutant of readTop: the mutex is given back in any case. *)
readTopOnly(t) == /\ At(t, "top") /\ global = Nobody
                  /\ Step(t, [In(t) EXCEPT !.pc = "entry", !.top = maxlevel])
                  /\ UNCHANGED <<graph, search>>

(* maxlevel_ is read under the global mutex, which is kept if the element  *)
(* is to be the highest.                                                   *)
readTop(t) == /\ At(t, "top") /\ global = Nobody
              /\ global' = IF level[In(t).cur] <= maxlevel THEN Nobody ELSE t
              /\ Step(t, [In(t) EXCEPT !.pc = "entry", !.top = maxlevel])
              /\ UNCHANGED <<pos, count, level, links, owner, enterpoint, maxlevel, search>>

Searching(r, obj, l) == [r EXCEPT !.pc = "search", !.obj = obj, !.lvl = l,
                                  !.found = {obj}, !.done = {}]

(* enterpoint_node_ is read after the mutex may have been given back. *)
readEntry(t) ==
  /\ At(t, "entry")
  /\ LET l == level[In(t).cur] IN
     Step(t, CASE enterpoint = None \/ In(t).top = None -> [In(t) EXCEPT !.pc = "finish"]
               [] enterpoint # None /\ l < In(t).top ->
                    [In(t) EXCEPT !.pc = "descend", !.obj = enterpoint, !.lvl = In(t).top]
               [] OTHER -> Searching(In(t), enterpoint, In(t).top))
  /\ UNCHANGED <<graph, search>>

(* Above its level it goes greedily to the neighbour nearest to it. *)
descend(t) ==
  /\ At(t, "descend") /\ owner[In(t).obj] = Nobody
  /\ LET best == Closest(links[In(t).obj][In(t).lvl] \cup {In(t).obj}, Place(t))
         l    == In(t).lvl - 1
         moves == Improves(best, In(t).obj, Place(t))
     IN  Step(t, CASE moves -> [In(t) EXCEPT !.obj = best]
                   [] ~moves /\ l > level[In(t).cur] -> [In(t) EXCEPT !.lvl = l]
                   [] OTHER -> Searching(In(t), In(t).obj, l))
  /\ UNCHANGED <<graph, search>>

(* searchBaseLayerFilter reads the list of the nearest element not yet     *)
(* read, and keeps the EfConstruction nearest of all it has met.           *)
readList(t) ==
  /\ At(t, "search") /\ In(t).found \ In(t).done # {}
  /\ LET e == Closest(In(t).found \ In(t).done, Place(t))
         f == ClosestOf(In(t).found \cup links[e][In(t).lvl], EfConstruction, Place(t))
     IN  /\ owner[e] = Nobody
         /\ Step(t, [In(t) EXCEPT !.found = f, !.done = (@ \cup {e}) \cap f])
  /\ UNCHANGED <<graph, search>>

(* mutuallyConnectNewElement: the new element's own list, already locked. *)
connect(t) ==
  /\ At(t, "search") /\ In(t).found \subseteq In(t).done
  /\ LET chosen == Heuristic(In(t).found, M, Place(t))
     IN  /\ links' = [links EXCEPT ![In(t).cur][In(t).lvl] = chosen]
         /\ Step(t, [In(t) EXCEPT !.pc = "link", !.rest = chosen, !.obj = Closest(chosen, Place(t))])
  /\ UNCHANGED <<pos, count, level, owner, global, enterpoint, maxlevel, search>>

(* The reverse link, farthest first; a full list is thinned out.  After    *)
(* the last one the search goes on one level down, from the nearest.       *)
link(t) ==
  /\ At(t, "link")
  /\ LET n    == Farthest(In(t).rest, Place(t))
         l    == In(t).lvl
         old  == links[n][l]
         new  == old \cup {In(t).cur}
         rest == In(t).rest \ {n}
     IN  /\ owner[n] = Nobody
         /\ links' = [links EXCEPT ![n][l] =
                        IF Cardinality(old) < Capacity(l) THEN new
                        ELSE Heuristic(new, Capacity(l), pos[n])]
         /\ Step(t, CASE rest # {}           -> [In(t) EXCEPT !.rest = rest]
                      [] rest = {} /\ l > 0  -> Searching([In(t) EXCEPT !.rest = {}], In(t).obj, l - 1)
                      [] OTHER               -> [In(t) EXCEPT !.pc = "finish"])
  /\ UNCHANGED <<pos, count, level, owner, global, enterpoint, maxlevel, search>>

(* Mutant of finish: the global mutex is kept. *)
finishKeeping(t) ==
  /\ At(t, "finish")
  /\ LET e == In(t).cur IN
     /\ IF level[e] > In(t).top THEN enterpoint' = e /\ maxlevel' = level[e]
                                ELSE UNCHANGED <<enterpoint, maxlevel>>
     /\ owner' = [owner EXCEPT ![e] = Nobody]
  /\ Step(t, NotInserting)
  /\ UNCHANGED <<pos, count, level, links, global, search>>

(* The highest element becomes the entry point; all locks are given back. *)
finish(t) ==
  /\ At(t, "finish")
  /\ LET e == In(t).cur IN
     /\ IF level[e] > In(t).top THEN enterpoint' = e /\ maxlevel' = level[e]
                                ELSE UNCHANGED <<enterpoint, maxlevel>>
     /\ owner' = [owner EXCEPT ![e] = Nobody]
  /\ global' = IF global = t THEN Nobody ELSE global
  /\ Step(t, NotInserting)
  /\ UNCHANGED <<pos, count, level, links, search>>

insert(t) == \/ addPoint(t) \/ readTop(t) \/ readEntry(t) \/ descend(t)
             \/ readList(t) \/ connect(t) \/ link(t) \/ finish(t)

Built == count = NumElements /\ \A t \in Builder : At(t, "idle")

-----------------------------------------------------------------------------
(* searchKnnGeneric and searchKnnGenericGraphOnly, on the built graph. *)

(* The distance the search sees: exact for an element that passes the      *)
(* filter; else approximate, with a penalty computed from ef_, which the   *)
(* queries of other threads set meanwhile: anything from nearest to        *)
(* farthest.                                                               *)
Far == 1000
Seen(e, s) == IF e \in s.pass THEN {Dist(pos[e], s.place)} ELSE {0, Far}

startQuery == /\ Built /\ search.pc = "none"
              /\ \E p \in QueryPlaces, pass \in SUBSET Element, k \in Ks, ef \in Efs :
                   search' = [search EXCEPT !.pc = "descend", !.place = p, !.pass = pass, !.k = k,
                                            !.ef = IF ef < k THEN k ELSE ef,
                                            !.obj = enterpoint, !.lvl = maxlevel]
              /\ UNCHANGED <<graph, inserter>>

(* Few sampled elements pass: all are gone through. *)
bruteForce == /\ search.pc = "descend" /\ search.lvl = maxlevel /\ search.obj = enterpoint
              /\ search' = [search EXCEPT !.pc = "done",
                                          !.answer = ClosestOf(search.pass, search.k, search.place)]
              /\ UNCHANGED <<graph, inserter>>

descendQuery ==
  /\ search.pc = "descend" /\ search.lvl > 0
  /\ LET best == Closest(links[search.obj][search.lvl] \cup {search.obj}, search.place)
     IN  search' = IF Improves(best, search.obj, search.place)
                   THEN [search EXCEPT !.obj = best]
                   ELSE [search EXCEPT !.lvl = @ - 1]
  /\ UNCHANGED <<graph, inserter>>

InRange(S, s) == Cardinality(S \cap s.pass)

beginBase ==
  /\ search.pc = "descend" /\ search.lvl = 0
  /\ \E d \in Seen(search.obj, search) :
       search' = [search EXCEPT !.pc = "base", !.seen = [e \in {search.obj} |-> d],
                                !.open = {search.obj}, !.pool = {search.obj},
                                !.inRange = IF search.obj \in search.pass THEN 1 ELSE 0]
  /\ UNCHANGED <<graph, inserter>>

NearestSeen(S, s)  == {e \in S : \A x \in S : s.seen[e] <= s.seen[x]}
FarthestSeen(S, s) == {e \in S : \A x \in S : s.seen[e] >= s.seen[x]}
LowerBound(s)      == s.seen[CHOOSE e \in s.pool : e \in FarthestSeen(s.pool, s)]

(* candidate_dist > 0.95 * lowerBound && num_in_range > k * 0.5 *)
Stops(e, s) == 20 * s.seen[e] > 19 * LowerBound(s) /\ 2 * s.inRange > s.k

read == /\ search.pc = "base" /\ search.pending = {}
        /\ \E e \in NearestSeen(search.open, search) :
             /\ ~Stops(e, search)
             /\ search' = [search EXCEPT !.open = @ \ {e},
                                         !.pending = links[e][0] \ DOMAIN search.seen]
        /\ UNCHANGED <<graph, inserter>>

(* Mutant of Evict: an element pushed out of the pool stays counted. *)
EvictUncounted(s) == IF Cardinality(s.pool) <= s.ef THEN {s}
                     ELSE {[s EXCEPT !.pool = @ \ {e}] : e \in FarthestSeen(s.pool, s)}

(* Beyond ef the farthest leaves the pool, and the count if it had passed. *)
Evict(s) == IF Cardinality(s.pool) <= s.ef THEN {s}
            ELSE {[s EXCEPT !.pool = @ \ {e},
                            !.inRange = IF e \in s.pass THEN @ - 1 ELSE @] :
                    e \in FarthestSeen(s.pool, s)}

visit ==
  /\ search.pc = "base"
  /\ \E e \in search.pending : \E d \in Seen(e, search) :
       LET s == [search EXCEPT !.pending = @ \ {e},
                               !.seen = [x \in DOMAIN search.seen \cup {e} |->
                                           IF x = e THEN d ELSE search.seen[x]]]
       IN  IF Cardinality(search.pool) < search.ef \/ LowerBound(search) > d
           THEN search' \in Evict([s EXCEPT !.open = @ \cup {e}, !.pool = @ \cup {e},
                                            !.inRange = IF e \in s.pass THEN @ + 1 ELSE @])
           ELSE search' = s
  /\ UNCHANGED <<graph, inserter>>

(* The k nearest of the pool that pass; the caller drops the padding. *)
answer ==
  /\ search.pc = "base" /\ search.pending = {}
  /\ \/ search.open = {}
     \/ \E e \in NearestSeen(search.open, search) : Stops(e, search)
  /\ search' = [search EXCEPT !.pc = "done",
                              !.answer = ClosestOf(search.pool \cap search.pass, search.k, search.place)]
  /\ UNCHANGED <<graph, inserter>>

query == startQuery \/ bruteForce \/ descendQuery \/ beginBase \/ read \/ visit \/ answer

-----------------------------------------------------------------------------
Next == (\E t \in Builder : insert(t)) \/ query

Spec == Init /\ [][Next]_vars /\ (\A t \in Builder : WF_vars(insert(t))) /\ WF_vars(query)

-----------------------------------------------------------------------------
Has(l) == {e \in Element : level[e] >= l}

(* No insertion meets what addPoint answers with an exception or with a    *)
(* write outside a list: a link on a level an element does not have, to    *)
(* itself, beyond a list's room, or a second one; nor a new element whose  *)
(* list somebody has filled already.                                       *)
NoInsertThrows ==
  /\ \A e \in Element, l \in Level :
       /\ links[e][l] \subseteq Has(l) \ {e}
       /\ Cardinality(links[e][l]) <= Capacity(l)
       /\ links[e][l] # {} => e \in Has(l)
  /\ \A t \in Builder :
       /\ At(t, "search") => links[In(t).cur][In(t).lvl] = {} /\ In(t).cur \notin In(t).found
       /\ At(t, "link")   => \A n \in In(t).rest : In(t).cur \notin links[n][In(t).lvl]

(* The entry point is the highest of the inserted elements. *)
EntryIsHighest ==
  \A e \in Element : e < count /\ (\A t \in Builder : In(t).cur # e) =>
    enterpoint # None /\ level[enterpoint] = maxlevel /\ level[e] <= maxlevel

(* On every level of the built graph each element has a neighbour, unless  *)
(* it is alone there: two elements inserted together, the first two of a   *)
(* level included, do not miss each other.                                 *)
NoLoneElement ==
  Built => \A l \in Level : \A e \in Has(l) : Has(l) = {e} \/ links[e][l] # {}

(* The search's count of qualified elements is that of its pool, so that   *)
(* a search that stops early does have more than half of the k answers.    *)
EarlyStopHasHalf ==
  /\ search.pc = "base" => search.inRange = InRange(search.pool, search)
  /\ search.pc = "done" /\ search.open # {} => 2 * Cardinality(search.answer) > search.k

(* All insertions end, whatever locks they wait for, and the query too. *)
Ends == <>(search.pc = "done")

=============================================================================
