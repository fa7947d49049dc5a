---------------------------- MODULE HybridSearch ----------------------------
(***************************************************************************)
(* A batch of queries: UniNavGraph::search_hybrid, which submits one task  *)
(* per query to the thread pool, and thread_function, which takes a search *)
(* cache, chooses an algorithm, searches, writes the query's slots of the  *)
(* results and returns the cache.                                          *)
(*                                                                         *)
(* The pool is TaskQueue, which ThreadPool implements.  The pre-filter is  *)
(* scanned vector by vector; the other searches are what their own modules *)
(* promise: UngSearch returns qualified vectors, and some if there are any *)
(* (FilterSound); FAVOR, whatever it finds of those its filter lets pass   *)
(* (FavorIndex).  The routing model may predict any of its classes, 0      *)
(* (target), 1 (sorted_lng) or 2 (pre-filter).                             *)
(*                                                                         *)
(* A vector has three ids: the original one, that of the dataset and of    *)
(* the answers; the new one, by which the united index, its masks and its  *)
(* base vectors are ordered; and FAVOR's own, in the order of insertion.   *)
(***************************************************************************)
EXTENDS Workers, Sequences, FiniteSets, FiniteSetsExt, Functions

CONSTANTS Query,      \* ids of queries
          K,
          Distance,   \* what a distance, measured or estimated, may be
          Instances   \* what may be searched: one of these cases, each with
                      \*   queries, workers     the batch and the pool
                      \*   numPoints, labels, distances
                      \*                        the base vectors
                      \*   newToOlds, externals the orders of their other ids
                      \*   queryLabels          labels of queries
                      \*   modes, baselines, presets, targets
                      \*                        values of the four settings

Algorithm == {"prefilter", "favor", "favor_hnsw", "sorted_lng", "tfng2", "legacy"}

ASSUME ParameterAssumption ==
    /\ K \in Nat \ {0}
    /\ Query \subseteq Nat
    /\ Distance \subseteq Nat
    /\ \A i \in Instances :
          /\ i.queries \subseteq Query
          /\ i.workers \subseteq Worker /\ IsFiniteSet(i.workers)
          /\ i.numPoints \in Nat \ {0}
          /\ i.labels \subseteq Nat /\ i.queryLabels \subseteq Nat /\ i.distances \subseteq Distance
          /\ i.newToOlds \cup i.externals \subseteq Bijection(0 .. i.numPoints - 1, 0 .. i.numPoints - 1)
          /\ i.modes \subseteq {"TFNG", "ALPS", "ALPS+", "ALPS-fixed"}
          /\ i.baselines \subseteq Algorithm /\ i.presets \subseteq Algorithm \cup {None}
          /\ i.targets \subseteq {"favor", "favor_hnsw"}

VARIABLES queries,      \* the ids of the batch, 0 .. num_queries - 1
          workers,      \* the threads of the pool
          mode,         \* routing_mode 0, 1, 5 or 8
          baseline,     \* baseline_alg, of mode 0
          preset,       \* query_algo_choices
          target,       \* _smart_route_target_alg_id, 11 or 12
          favorReady,   \* _favor_ready
          rabitq,       \* _ung_distance_mode is RabitQ and there is a side index
          vecLabels,    \* the labels of the vectors, by original id
          dist,         \* their distances from the queries, by original id
          newToOld,     \* _new_to_old_vec_ids
          external,     \* FAVOR's getExternalLabel: its own id to the original one
          queryLabels,  \* the labels of each query
          main,         \* "predict", "submit", "get", "returned" or "thrown"
          futures,      \* tp_results: the queries submitted, in order
          got,          \* the number of futures read
          waiting, running, finished,  \* the pool
          thrown,       \* the queries whose future holds an exception
          step,         \* of each task: "start", "decide", "search", "scan",
                        \*   "finalize", "release", "end"
          choice,       \* final_algo_choice
          cacheOf,      \* search_cache of each task, or None
          caches,       \* the pool of search_cache_list
          created,      \* the number of caches made so far
          found,        \* top_k_heap or cur_result of each task: pairs in the
                        \*   ids of the search, (0, 0) for zero-initialised ones
          pos,          \* the next vec_id of the pre-filter's scan
          results       \* the valid pairs of each query's K slots

index == <<target, favorReady, rabitq, vecLabels, dist, newToOld, external>>
input == <<queries, workers, mode, baseline, preset, queryLabels, index>>
taskpool == <<waiting, running, finished>>
batch == <<main, futures, got>>
answer == <<found, pos, results>>
vars == <<input, batch, taskpool, thrown, step, choice, cacheOf, caches, created, answer>>

Pool == INSTANCE TaskQueue WITH Task <- Query

Vec == DOMAIN vecLabels                                      \* the ids of each kind
NumPoints == Cardinality(Vec)                                \* _num_points
BaseLabels(v) == vecLabels[newToOld[v]]                      \* get_label_set of a new id
Known == UNION {BaseLabels(v) : v \in Vec}                   \* the keys of _attr_to_id
VecAttrRoaring(l) == {v \in Vec : l \in BaseLabels(v)}       \* _vec_attr_roaring_inv
Meet(labels) == {v \in Vec : \A l \in labels : v \in VecAttrRoaring(l)}
Qualified(q) == {v \in Vec : queryLabels[q] \subseteq BaseLabels(v)}
OldToNew(o) == CHOOSE v \in Vec : newToOld[v] = o            \* _old_to_new_vec_ids

Supported == {"prefilter", "favor", "favor_hnsw", "sorted_lng"}  \* kept by the global prediction

Given(i) ==
    LET points == 0 .. i.numPoints - 1 IN
    /\ queries = i.queries
    /\ workers = i.workers
    /\ mode \in i.modes
    /\ baseline \in IF mode = "TFNG" THEN i.baselines ELSE {"legacy"}
    /\ preset \in IF mode \in {"ALPS", "ALPS+"} THEN [i.queries -> i.presets]
                                                ELSE {[q \in i.queries |-> None]}
    /\ target \in i.targets
    /\ favorReady \in BOOLEAN /\ rabitq \in BOOLEAN
    /\ vecLabels \in [points -> SUBSET i.labels]
    /\ dist \in [points -> i.distances]
    /\ newToOld \in i.newToOlds
    /\ external \in i.externals
    /\ queryLabels \in [i.queries -> SUBSET i.queryLabels]

Init == /\ \E i \in Instances : Given(i)
        /\ main = "predict"
        /\ futures = <<>>
        /\ got = 0
        /\ Pool!Init
        /\ thrown = {}
        /\ step = [q \in queries |-> "start"]
        /\ choice = preset
        /\ cacheOf = [q \in queries |-> None]
        /\ caches = [k \in 1 .. Cardinality(workers) |-> k]
        /\ created = Cardinality(workers)
        /\ found = [q \in queries |-> {}]
        /\ pos = [q \in queries |-> 0]
        /\ results = [q \in queries |-> {}]

-----------------------------------------------------------------------------
\* The batch.

Router == {target, "prefilter", "sorted_lng"}

\* global_predict_algo_choices: for ALPS+, a supported preset stays, any other
\* query is routed.
predict ==
    /\ main = "predict"
    /\ main' = "submit"
    /\ IF mode = "ALPS+"
       THEN choice' \in {c \in [queries -> Supported] :
                            \A q \in queries : IF preset[q] \in Supported THEN c[q] = preset[q]
                                                                        ELSE c[q] \in Router}
       ELSE UNCHANGED choice
    /\ UNCHANGED <<input, futures, got, taskpool, thrown, step, cacheOf, caches, created, answer>>

AlgoId == [prefilter |-> 5, favor |-> 11, favor_hnsw |-> 12, sorted_lng |-> 15, tfng2 |-> 17, legacy |-> 0]

\* std::lexicographical_compare of the sorted labels.
LexLess(A, B) ==
    LET first == Min((A \ B) \cup (B \ A))
    IN  A # B /\ IF first \in A THEN \E l \in B : l > first ELSE \A l \in A : l < first

\* The comparator of get_sorted_query_ids.
Before(a, b) ==
    \/ AlgoId[choice[a]] < AlgoId[choice[b]]
    \/ choice[a] = choice[b] /\ LexLess(queryLabels[a], queryLabels[b])
    \/ choice[a] = choice[b] /\ queryLabels[a] = queryLabels[b] /\ a < b

\* get_sorted_query_ids: the ids are sorted for ALPS+ and in order otherwise.
Sorted(a, b) == IF mode = "ALPS+" THEN Before(a, b) ELSE a < b

Left == queries \ Range(futures)

\* The least query left is submitted.
submit ==
    /\ main = "submit"
    /\ \E q \in Left :
          /\ \A r \in Left \ {q} : Sorted(q, r)
          /\ Pool!Submit(q)
          /\ futures' = Append(futures, q)
    /\ UNCHANGED <<input, main, got, thrown, step, choice, cacheOf, caches, created, answer>>

allSubmitted ==
    /\ main = "submit"
    /\ Left = {}
    /\ main' = "get"
    /\ UNCHANGED <<input, futures, got, taskpool, thrown, step, choice, cacheOf, caches, created, answer>>

\* Mutant: the batch returns when the last task has been taken from the queue.
GotLastStarted == waiting = <<>>
GotLast == got = Len(futures)

\* tp_result.get(), in the order of submission; a stored exception is rethrown
\* and, as nobody catches it, ends the program.
get ==
    LET q == futures[got + 1]
    IN  /\ main = "get"
        /\ ~GotLast
        /\ q \in finished
        /\ got' = got + 1
        /\ main' = IF q \in thrown THEN "thrown" ELSE "get"
        /\ UNCHANGED <<input, futures, taskpool, thrown, step, choice, cacheOf, caches, created, answer>>

return ==
    /\ main = "get"
    /\ GotLast
    /\ main' = "returned"
    /\ UNCHANGED <<input, futures, got, taskpool, thrown, step, choice, cacheOf, caches, created, answer>>

-----------------------------------------------------------------------------
\* A task.

Alive == main # "thrown"

takeTask(w) ==
    /\ Alive
    /\ w \in workers
    /\ Pool!Start(w)
    /\ UNCHANGED <<input, batch, thrown, step, choice, cacheOf, caches, created, answer>>

\* Mutant: the cache handed out stays in the pool.
RemainingAll == caches
Remaining == Tail(caches)

\* SearchCacheList::get_free_cache; a new cache is made when the pool is empty.
getCache(q) ==
    /\ step[q] = "start"
    /\ IF caches = <<>>
       THEN /\ created' = created + 1
            /\ cacheOf' = [cacheOf EXCEPT ![q] = created + 1]
            /\ UNCHANGED caches
       ELSE /\ cacheOf' = [cacheOf EXCEPT ![q] = Head(caches)]
            /\ caches' = Remaining
            /\ UNCHANGED created
    /\ step' = [step EXCEPT ![q] = "decide"]
    /\ UNCHANGED <<input, batch, taskpool, thrown, choice, answer>>

\* The thresholds 0.399 and 0.012 of ALPS-fixed, over the exact GlobalPpass.
CandSize(q) == Cardinality(Qualified(q))
FixedChoice(q) == IF 1000 * CandSize(q) > 399 * NumPoints THEN "favor_hnsw"
                  ELSE IF 1000 * CandSize(q) < 12 * NumPoints THEN "prefilter"
                  ELSE "sorted_lng"

ChoicesOf(q) == CASE mode = "TFNG" -> {baseline}
                [] mode = "ALPS" -> IF preset[q] # None THEN {preset[q]} ELSE Router
                [] mode = "ALPS+" -> {choice[q]}
                [] mode = "ALPS-fixed" -> {FixedChoice(q)}

\* A preset legacy algorithm looks the entry groups up in the trie, which is not
\* loaded in a search: _label_to_nodes.at() throws.
Throws(q, c) == c = "legacy" /\ queryLabels[q] # {}

decide(q) ==
    /\ step[q] = "decide"
    /\ \E c \in ChoicesOf(q) :
          /\ choice' = [choice EXCEPT ![q] = c]
          /\ IF Throws(q, c)
             THEN /\ thrown' = thrown \cup {q}
                  /\ step' = [step EXCEPT ![q] = "end"]
             ELSE /\ UNCHANGED thrown
                  /\ step' = [step EXCEPT ![q] = "search"]
    /\ UNCHANGED <<input, batch, taskpool, cacheOf, caches, created, answer>>

-----------------------------------------------------------------------------
\* The searches.

\* The pointers exact_mask_ptr and final_roaring_ptr: a set of at most one mask.
\* A query with an unknown label has none, except in mode 0, where the bitset is
\* empty, and in ALPS+, which intersects the known labels only.
Mask(q) ==
    LET known == queryLabels[q] \cap Known
    IN  IF queryLabels[q] = {} THEN {Vec}
        ELSE CASE mode = "TFNG" -> {Qualified(q)}
               [] mode = "ALPS+" -> {Meet(known) : x \in {y \in {known} : y # {}}}
               [] OTHER -> {Meet(known) : x \in {y \in {known} : y = queryLabels[q]}}

\* What a search over the base vectors takes for the distance of a new id:
\* under RabitQ the estimate of estimate_bin or estimate_full, whichever asked.
Measured(v) == IF rabitq THEN Distance ELSE {dist[newToOld[v]]}

\* exact_results is zero-initialised; without a mask it stays so.
ZeroPair == [id |-> 0, distance |-> 0]

\* The pre-filter is over before it starts if there is no mask.
prefilter(q) ==
    /\ choice[q] = "prefilter"
    /\ IF Mask(q) = {} THEN /\ found' = [found EXCEPT ![q] = {ZeroPair}]
                            /\ step' = [step EXCEPT ![q] = "finalize"]
                       ELSE /\ UNCHANGED found
                            /\ step' = [step EXCEPT ![q] = "scan"]
    /\ UNCHANGED results

\* Mutant: top_k_heap has its least pair on top.
TopLeast(heap) == {t \in heap : \A p \in heap : t.distance <= p.distance}

\* top_k_heap.top(): the greatest pair (distance, id).
Top(heap) == {t \in heap : \A p \in heap :
                 p.distance < t.distance \/ (p.distance = t.distance /\ p.id <= t.id)}

\* The heap after a candidate, of which there is one.
Offered(heap, p) ==
    IF Cardinality(heap) < K THEN {heap \cup {p}}
    ELSE {IF p.distance < t.distance THEN (heap \ {t}) \cup {p} ELSE heap : t \in Top(heap)}

\* search_baseline_exact and search_baseline_rabitq come to the next vector.
scanNext(q) ==
    LET v == pos[q]
    IN  /\ step[q] = "scan"
        /\ \E mask \in Mask(q) :
              IF v \in mask
              THEN \E d \in Measured(v) : \E heap \in Offered(found[q], [id |-> v, distance |-> d]) :
                      found' = [found EXCEPT ![q] = heap]
              ELSE UNCHANGED found
        /\ pos' = [pos EXCEPT ![q] = v + 1]
        /\ step' = [step EXCEPT ![q] = IF v + 1 = NumPoints THEN "finalize" ELSE "scan"]
        /\ UNCHANGED <<input, batch, taskpool, thrown, choice, cacheOf, caches, created, results>>

\* The entry groups of sorted_lng are empty for an empty query.
NoEntryPoint(q) == Qualified(q) = {} \/ (choice[q] = "sorted_lng" /\ queryLabels[q] = {})

\* FavorContainmentFilter::check, of an id of FAVOR's own.
Passes(q, i) == queryLabels[q] = {} \/ queryLabels[q] \subseteq BaseLabels(OldToNew(external[i]))

UpToK(S) == {T \in SUBSET S : Cardinality(T) <= K}

\* FAVOR answers with original ids and true distances.  A search that cannot
\* start returns early: the slots stay invalid and the cache is kept.
favor(q) ==
    /\ choice[q] \in {"favor", "favor_hnsw"}
    /\ IF favorReady
       THEN /\ \E T \in UpToK({i \in Vec : Passes(q, i)}) :
                  found' = [found EXCEPT ![q] =
                               {[id |-> external[i], distance |-> dist[external[i]]] : i \in T}]
            /\ step' = [step EXCEPT ![q] = "finalize"]
       ELSE /\ UNCHANGED found
            /\ step' = [step EXCEPT ![q] = "end"]
    /\ UNCHANGED results

ung(q) ==
    /\ choice[q] \in {"sorted_lng", "tfng2"}
    /\ IF NoEntryPoint(q)
       THEN /\ UNCHANGED found
            /\ step' = [step EXCEPT ![q] = "end"]
       ELSE /\ \E T \in UpToK(Qualified(q)) \ {{}} :
                  \E d \in {f \in [T -> Distance] : \A v \in T : f[v] \in Measured(v)} :
                     found' = [found EXCEPT ![q] = {[id |-> v, distance |-> d[v]] : v \in T}]
            /\ step' = [step EXCEPT ![q] = "finalize"]
    /\ UNCHANGED results

\* No branch executes a legacy algorithm: it finds nothing.
unsupported(q) ==
    /\ choice[q] = "legacy"
    /\ step' = [step EXCEPT ![q] = "finalize"]
    /\ UNCHANGED <<found, results>>

search(q) ==
    /\ step[q] = "search"
    /\ prefilter(q) \/ favor(q) \/ ung(q) \/ unsupported(q)
    /\ UNCHANGED <<input, batch, taskpool, thrown, choice, cacheOf, caches, created, pos>>

\* Mutant: an id of FAVOR, which is an original one, is translated too.
OldIdAlways(c, v) == newToOld[v]

\* The original id of what a search has found.
OldId(c, v) == IF c \in {"favor", "favor_hnsw"} THEN v ELSE newToOld[v]

\* The slots of the query are written, the others of the K are invalid.
finalize(q) ==
    /\ step[q] = "finalize"
    /\ results' = [results EXCEPT ![q] =
                      {[id |-> OldId(choice[q], p.id), distance |-> p.distance] : p \in found[q]}]
    /\ found' = [found EXCEPT ![q] = {}]
    /\ pos' = [pos EXCEPT ![q] = 0]
    /\ step' = [step EXCEPT ![q] = "release"]
    /\ UNCHANGED <<input, batch, taskpool, thrown, choice, cacheOf, caches, created>>

Returned(q) == Append(caches, cacheOf[q])

release(q) ==
    /\ step[q] = "release"
    /\ caches' = Returned(q)
    /\ cacheOf' = [cacheOf EXCEPT ![q] = None]
    /\ step' = [step EXCEPT ![q] = "end"]
    /\ UNCHANGED <<input, batch, taskpool, thrown, choice, created, answer>>

\* Mutant: a query that keeps its cache never ends.
EndedOnlyReleased(q) == step[q] = "end" /\ cacheOf[q] = None
Ended(q) == step[q] = "end"

endTask(w) ==
    /\ Alive
    /\ running[w] # None
    /\ Ended(running[w])
    /\ Pool!Finish(w)
    /\ UNCHANGED <<input, batch, thrown, step, choice, cacheOf, caches, created, answer>>

runTask(w) ==
    /\ Alive
    /\ running[w] # None
    /\ \/ getCache(running[w])
       \/ decide(running[w])
       \/ search(running[w])
       \/ scanNext(running[w])
       \/ finalize(running[w])
       \/ release(running[w])

Main == predict \/ submit \/ allSubmitted \/ get \/ return

Next == Main \/ \E w \in Worker : takeTask(w) \/ runTask(w) \/ endTask(w)

\* The main thread runs, and the pool starts and runs its tasks (TaskQueue).
Fairness == /\ WF_vars(Main)
            /\ WF_vars(\E w \in Worker : takeTask(w))
            /\ \A w \in Worker : WF_vars(runTask(w) \/ endTask(w))

Spec == Init /\ [][Next]_vars /\ Fairness

-----------------------------------------------------------------------------

Pair == [id : Vec, distance : Distance \cup {0}]
Executing == {running[w] : w \in {x \in Worker : running[x] # None}}
Held == {cacheOf[q] : q \in {p \in Executing : cacheOf[p] # None}}
KnownLabels(q) == queryLabels[q] \subseteq Known

TypeOK == /\ main \in {"predict", "submit", "get", "returned", "thrown"}
          /\ futures \in Seq(queries)
          /\ got \in 0 .. Len(futures)
          /\ thrown \subseteq queries
          /\ step \in [queries -> {"start", "decide", "search", "scan", "finalize", "release", "end"}]
          /\ choice \in [queries -> Algorithm \cup {None}]
          /\ cacheOf \in [queries -> (1 .. created) \cup {None}]
          /\ caches \in Seq(1 .. created)
          /\ pos \in [queries -> 0 .. NumPoints]
          /\ found \in [queries -> SUBSET Pair]
          /\ results \in [queries -> SUBSET Pair]

(***************************************************************************)
(* A pair returned names, by its original id, a vector with all the labels *)
(* of the query, whatever ids the search works with, and has its distance, *)
(* unless RabitQ estimated it (FAVOR does not use RabitQ).                 *)
(* The only other pairs are the pre-filter's for a query with a label that *)
(* does not occur in the base: in ALPS+ of vectors with the labels that do *)
(* occur, and without a mask the vector of new id 0 at distance 0.         *)
(***************************************************************************)
AnswersQualify ==
    \A q \in queries : \A r \in results[q] :
        \/ /\ queryLabels[q] \subseteq vecLabels[r.id]
           /\ \/ r.distance = dist[r.id]
              \/ rabitq /\ choice[q] \notin {"favor", "favor_hnsw"}
        \/ /\ ~KnownLabels(q) /\ choice[q] = "prefilter"
           /\ \/ mode = "ALPS+" /\ queryLabels[q] \cap Known \subseteq vecLabels[r.id]
              \/ mode # "TFNG" /\ r = [id |-> newToOld[0], distance |-> 0]

(***************************************************************************)
(* The pre-filter scans all that qualifies: for known labels (in mode 0    *)
(* for any) it returns K qualified vectors, or all if there are fewer, and *)
(* without RabitQ none that it leaves out is closer than one it returns.   *)
(***************************************************************************)
PrefilterExact ==
    \A q \in queries :
        /\ KnownLabels(q) \/ mode = "TFNG"
        /\ choice[q] = "prefilter" /\ step[q] \in {"release", "end"}
        => LET ids == {r.id : r \in results[q]}
               sought == {v \in Vec : queryLabels[q] \subseteq vecLabels[v]}
           IN  /\ ids \subseteq sought
               /\ Cardinality(ids) = K \/ ids = sought
               /\ Cardinality(ids) <= K
               /\ rabitq \/ \A r \in results[q] : \A v \in sought \ ids : r.distance <= dist[v]

(***************************************************************************)
(* Two queries never search with the same visited set and queue, and a     *)
(* cache that is free is in the pool once and in nobody's hands.           *)
(***************************************************************************)
CachesNotShared ==
    /\ \A p, q \in Executing : p # q /\ cacheOf[p] # None => cacheOf[p] # cacheOf[q]
    /\ \A j, k \in DOMAIN caches : j # k => caches[j] # caches[k]
    /\ \A k \in DOMAIN caches : caches[k] \notin Held

(***************************************************************************)
(* search_hybrid returns after every task has ended: no task can touch the *)
(* caller's results or the locals it captured by reference, and none had   *)
(* failed.                                                                 *)
(***************************************************************************)
ReturnsLast == main = "returned" => finished = queries /\ Executing = {} /\ thrown = {}

(***************************************************************************)
(* The batch ends, with an answer or with the exception of a query.        *)
(***************************************************************************)
Ends == <>(main \in {"returned", "thrown"})
=============================================================================
