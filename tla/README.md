# ALPS: a TLA+ model of the filtered vector search

ALPS answers *filtered nearest-neighbour queries*: given a query vector and a
set of labels, return the K closest base vectors that carry **all** the labels.
This directory holds TLA+ modules translated from the C++ code under `src/`, TLC
configurations that check them on small instances, and TLAPS proofs of their
most important properties for every instance. Paths below are relative to
`src/`; `U` stands for `UNG/codes/src/uni_nav_graph.cpp`.

## 1. Inventory of the system

### 1.1 How the parts interact

```
 storage ──label sets──> trie + groups ──> super-set search ──> label navigation graph (LNG)
                              │ new ids                            │ edges, descendants, coverage
                              ▼                                    ▼
                        group graphs (Vamana) ──────────────> cross-group edges ──> united graph
                                                                                        │
 query batch ──> router ──> thread pool ──> one task per query ──┬─ entry groups ──> greedy search
 (search_hybrid)                             │ cache from         ├─ exact pre-filter
                                             │ the shared list    └─ FAVOR (HNSW)
                                             └─ results, in the query's own slots
```

The vectors are divided into *groups* of equal label sets. The LNG has an edge
from a group to each *minimal* group with strictly more labels. The united graph
joins the proximity graphs of the groups with at least one vector edge for each
LNG edge. A TFNG search enters the *minimal qualified groups* of the query (its
entry groups, or ELS) and follows edges; it never compares a label again. This
is correct only if every stage keeps its promise to the next one, and most of the
modules below are about such a promise.

### 1.2 Components

| component | state it keeps | operations | what makes it correct |
|---|---|---|---|
| trie and groups (`trie.cpp`, U:1175-1200, 1790-1825) | trie nodes, `_label_to_nodes`, group arrays, new/old ids, ranges | `insert`, `build_trie_and_divide_groups`, `prepare_group_storages_graphs` | the three descriptions of a group agree; the renumbering keeps labels; ids are stable |
| super-set search in the trie (U:1203-1440, `trie.cpp`) | queue of nodes, candidates | four traversals, minimality filter | exactly the minimal super sets, wherever a traversal stops |
| label navigation graph (U:3082-3195, 3930-4000) | out/in edges, descendants, covered sets | parallel out-edge phase, serial in-edge phase, BFS, topological merge | the directions agree; descendants and coverage are exact |
| group graphs (`vamana/vamana.cpp`) | neighbours, one lock per list | `build`, `link`, `iterate_to_fixed_point`, `prune_neighbors`, `inter_insert`, cleanup | degree bounds; edges only to linked vectors; no dead ends; ends |
| cross-group edges (U:4082-4218) | `cross_group_neighbors`, `additional_edges`, united graph | search in child groups, repair, shift, merge | edges follow the LNG; every LNG edge is realised |
| entry-group selection (U:1440-1640) | bitmaps, marks, shared visited array | `bitmap`, `sorted_lng`, `tfng2` | each returns exactly the minimal qualified groups |
| visited set (`visited_set.h`) | 16-bit marks and a counter | `init`, `clear`, `set`, `check` | `check` is exact through wrap-around |
| search queue (`search_queue.cpp`) | sorted array, capacity, cursor | `insert`, `get_closest_unexpanded`, `clear` | keeps the closest ever offered, hands each out once |
| united-graph search (U:6205-6296) | entry points, visited set, queue | `get_entry_points_given_group_id`, `iterate_to_fixed_point` | only qualified vectors; a local optimum; ends |
| thread pool (`ThreadPool.h`) | queue, stop flag, mutex, condition variable | worker loop, `enqueue`, destructor | no lost wake-up; the destructor drains the queue and returns |
| query batches and routing (U:4900-5990, `search_cache.h`) | task queue, futures, cache list, results | `search_hybrid`, `thread_function` | answers qualify; caches are not shared; returns after the last task |
| exact pre-filter (U:2450-2523, 2919-3064, 5180-5275, 5400-5475) | mask, K-heap | mask of each routing mode, exact scan, scan by RabitQ's estimates | K qualified vectors or all; the closest if distances are measured |
| FAVOR (`FAVOR/include/favor.h`) | levels, link lists with their locks, entry point, one shared `ef_` | `addPoint` under `ParallelFor`, `searchKnnGeneric` | no insertion throws; the entry point is the highest element; no lone element; an early stop has half of the answers |
| index directory (U:6465-6704 `save`, U:6754-7430 `load`, `build_hybrid.sh`) | a dozen files, the marker `.ung_built` | `save`, `load` with its rewrite of meta, the build script | the marker stands for complete files of one build, whatever was killed; a write error that `save` ignores harms its own file only; a search never mixes two builds |
| RabitQ side index, method selector, storage, distances, scans, programs, scripts | see `PROJECT.json` | | |

### 1.3 Which behaviours are hard

* **Concurrency.** Worker threads and a condition variable notified after the
  unlock; search caches handed from task to task; parallel loops that fill shared
  arrays; Vamana's threads, which search the graph others change; FAVOR's locks,
  some held for a whole insertion; one `ef_` that every query sets.
* **Order.** The minimality filter and `sorted_lng` are right only in the order of
  label-set sizes; coverage is merged in topological order; offsets are added
  before cross edges are merged; ids of three kinds (original, renumbered, FAVOR's
  own) are each translated by the right table, once.
* **Stale state.** Marks of earlier searches, a visited array shared by the
  traversals of one query, a cursor behind a new insertion.
* **Failure.** Early returns that keep their cache, an exception in one future
  while other tasks run, unknown and empty label sets; a build or a search killed
  between two files; files that do not open or come out short, which `save` mostly
  does not notice.
* **Limits.** A full queue with ties, a 16-bit counter, groups smaller or larger
  than the number of entry points, a small number of cross edges.

`PROJECT.json` lists them as hazards, each at its line, with the properties that
cover it.

## 2. The modules

Modules are read bottom-up; each one states the promise the next one uses.

| module | models | built on |
|---|---|---|
| `TriePaths` | nodes of the trie as paths (shared operators) | |
| `GroupTrie` | division into groups, trie, renumbering | `TriePaths` |
| `SuperSetSearch` | the four trie traversals and the filter | `EXTENDS GroupTrie`: they read the trie it has built |
| `GroupOrder`, `Groups` | the order of groups by label sets (shared operators and constants) | |
| `LabelNavGraph` | edges, descendants, coverage | `Groups`; its step uses `SuperSetSearch`'s `ExactMinimal` |
| `EntryGroups` | the three trie-free entry-group functions | `Groups`; `LabelNavGraph`'s `DescendantsExact` |
| `LngEntryGroups` | **composition**: a query on the graph just built | `EXTENDS EntryGroups`, `INSTANCE LabelNavGraph` |
| `Vamana` | linking one group's graph, with threads and locks | |
| `VectorIds` | groups, ranges of ids and the united graph (shared operators, variables and `United`) | `GroupOrder` |
| `CrossEdges` | cross edges, repair, shift, merge | `VectorIds`; ends with a graph that is `United` |
| `Marks`, `VisitedSet` | the stamped marks of a search cache | |
| `Candidates` | the order of candidates (shared operators) | |
| `CandidatePool` | **abstract**: a bounded pool of the closest candidates | `Candidates` |
| `SearchQueue` | the sorted array, binary search and cursor | implements `CandidatePool` |
| `SearchCache` | **composition**: one cache through searches, one after the other | `EXTENDS VisitedSet`, `INSTANCE SearchQueue` |
| `UngSearch` | entry points and greedy search | `VectorIds`, `INSTANCE CandidatePool`; starts from a graph that is `United` |
| `Workers` | the threads that the pool and the batch share (constants) | |
| `TaskQueue` | **abstract**: tasks start in order, once, and finish | |
| `ThreadPool` | mutex, condition variable, workers, destructor | `Workers`; implements `TaskQueue` |
| `HybridSearch` | batches, routing, caches, the pre-filter's scan, ids, results | `Workers`, `INSTANCE TaskQueue`; searches as `UngSearch` promises |
| `FavorIndex` | concurrent insertion into the layered graph, filtered search | |
| `IndexFiles` | save, load, the build script, kills, write errors | |
| `MCHybridSearch`, `MCFavorIndex` | instances for the runs | |

The proofs are in modules of their own. `Order_proofs` is a library about orders,
nearest members of finite sets, minimal groups and induction over finite sets; the
others extend the modules they prove about:

| module | proves theorems of |
|---|---|
| `SuperSetSearch_proofs` | `GroupTrie`, `SuperSetSearch` |
| `LngEntryGroups_proofs` | `LabelNavGraph`, `EntryGroups`, `LngEntryGroups` |
| `UnitedGraph_proofs` | `CrossEdges`, `UngSearch` |
| `SearchCache_proofs` | `VisitedSet`, `CandidatePool`, `SearchQueue`, `SearchCache` |
| `Batch_proofs` | `ThreadPool`, `HybridSearch` |
| `Linking_proofs` | `Vamana`, `FavorIndex` |
| `IndexFiles_proofs` | `IndexFiles` |

Modules whose theorems share a proof module have names of their own for the parts
of their specification: `InitPool`, `NextPool`, `SpecPool`, `poolVars` in
`ThreadPool`, `InitLink` ... in `Vamana`, `InitTrie`, `NextTrie` in `GroupTrie`,
`SpecBuild`, `NextBuild` in `CrossEdges`.

### 2.1 State and actions against the code

Names are the code's where TLA+ allows it. `PROJECT.json` maps every definition to
its lines; the main choices are these.

* **`GroupTrie`.** Storage sorts label sets, so a trie node *is* the set of labels
  on its path. `insert` is `TrieIndex::insert` with its resize of
  `_label_to_nodes`; `divideNext` is one iteration of the loop; `prepareGroups` is the
  whole of `prepare_group_storages_graphs`' numbering.
* **`SuperSetSearch`.** The variable `method` chooses the traversal: `build`
  (`get_super_set_entrances`, avoiding the group itself), `shortcut`, `topdown`
  and `morestart` (the debug variants). The queue of nodes is a set: its order
  cannot change the candidates, and leaving it open checks that it does not. The
  `at()` that throws for a label beyond the index is the stage `thrown`. In the live
  program only `build` meets a filled trie: a search process does not load one, and
  its preset legacy algorithms end in that exception (`Throws` in `HybridSearch`).
  The trie it reads is the one `GroupTrie` has built: `buildIndex` is any step of
  `NextTrie`, `ask` the arrival of a query. A search changes nothing of the trie,
  so one search per behaviour is enough.
* **`LabelNavGraph`.** The parallel loop is a step per group in any order. Vectors
  of different groups differ, so a set of covered vectors is the set of groups it
  is made of. The FIFO of the topological merge is a set, i.e. any order.
* **`EntryGroups`.** Three methods over one set of variables, with one
  action per label intersected, per candidate scanned, and per group taken from
  the marking queue of `sorted_lng`, whose `visited` array outlives a traversal.
  `LngEntryGroups` runs it on the descendants, edges and covered sets of
  `LabelNavGraph`, under its own names `reached` and `fifo` for that module's
  queue and visited array.
* **`Vamana`.** No thread ever holds two of the locks, so a critical section is a
  step: an expansion, the overwrite of a vector's own list, a reverse edge. Where
  `inter_insert` copies a full list, releases the lock, prunes and writes back,
  these are two steps (`copyFull`, `writeBack`), and what others insert in between is
  lost, as in the code. Distances are open: a search expands what it has seen in
  any order, and `prune_neighbors` keeps any candidates but never none (its first
  is never occluded).
* **`CrossEdges`.** A search of a child's graph returns any non-empty set of at
  most `Lbuild` vectors; the closest of the offered neighbours may be any. Local
  and global ids are kept apart: the group graphs hold local ids until
  `addOffset`. `first` is the array of the ranges' beginnings, as in
  `_group_id_to_range`, so local and global ids differ by the code's own offset.
* **`SearchQueue`.** `_data[0.._size-1]` is the sequence `data`; `Search` is the
  binary search itself, a recursive function of the range `lo`, `hi`; `MoveAndPut`
  is the `memmove` and the capacity test.
* **`SearchCache`.** A cache serves two kinds of use: drawing entry points, which
  marks vectors that no queue has seen (`startDrawing`, `draw`), and searching,
  which clears both parts and then marks what it offers (`visit`; `enterMarked` for
  the search on quantised distances; `enter` for an entry point without a mark).
* **`UngSearch`.** Init is any small united graph: every group graph complete or
  one edge short of it, one bridge per LNG edge with any end points, every order
  of the distances. `sample` pushes `i + first` and marks the random point, as the
  code does.
* **`ThreadPool`.** A critical section is one step; `notify_one` and `notify_all`
  are steps of their own, after the unlock. `condition.wait` with its predicate is
  the step `acquire`, which goes to sleep, takes a task or exits; `spuriousWakeup`
  may wake a sleeper at any time.
* **`HybridSearch`.** The main thread predicts, submits, waits for the futures in
  order (`futures`, of which it has read `got`); a task takes a cache, decides its
  algorithm, searches, writes its slots, returns the cache. Early returns skip the
  last step, as in the code. The router may predict any class.
  The pre-filter's scan has one step per vector (`scanNext`): a vector of the mask is
  measured and offered to the heap of K, whose top goes when a smaller distance comes
  (`Offered`). With RabitQ (`rabitq`) the distance is any estimate, drawn anew for each
  vector, whether `estimate_bin` or `estimate_full` gave it. `sorted_lng` and `tfng2`
  return any non-empty set of at most K qualified vectors, as `UngSearch` promises;
  FAVOR any set of at most K elements that pass its filter.
  A vector has three ids. Labels and distances belong to the original one; the masks,
  the scan and the united search use the renumbered one (`newToOld`, `BaseLabels`);
  FAVOR's elements have their own (`external`), its filter maps them to the original
  and on to the renumbered id (`Passes`, `OldToNew`), and its answers are original ids.
  What a search has found stays in the ids of the search (`found`) until `finalize`
  writes the slots with `OldId`, the branch of U:5877. Both properties speak of
  original ids only.
* **`FavorIndex`.** `addPoint` holds the list of its own element from beginning to
  end, and the global mutex if its element will be the highest; both are variables
  (`owner`, `global`), and a step that reads or extends another list waits for it.
  Vectors are places on a line, so that `getNeighborsByHeuristic2` and the
  entry by greedy descent are the code's own and not "any subset". Of two elements
  at the same distance, which the heaps hand out in either order, the one with the
  lower id counts as nearer; a descent moves on only to a smaller distance
  (`Improves`), as the strict comparisons of `favor.h:850` and `999` do. In a query, the
  distance of a vector that fails the filter is an approximation with a penalty
  computed from the shared `ef_`: it is taken as any.
* **`IndexFiles`.** A file is the build that wrote it and how far the writing got. A
  file that opens is truncated, so it is cut from `openFile` to `closeFile`. `SaveOrder` has
  the files in the order of `save`; `tables` and `bitmaps` stand for files that the same
  functions write and read in a row. A kill may fall between any two steps.
  Write errors are the code's. `save` throws if `vector_attr_graph` does not open
  (U:2041) or `group_attr_roaring_inv.bin` has not its full size afterwards (U:6611), and
  goes on in every other case: `write_kv_file` and `save_roaring_vector` never test the
  stream, `write_to_file` returns quietly and then does not write the labels either, and
  a failed save of the side index is only logged. A file that does not open keeps the
  content of an earlier build (`failOpen`), one that comes out short stays cut
  (`shortFile`); the files so hit are in the history variable `damaged`.
  `load` reads what it finds: of the group bitmaps only the number is compared, so a cut
  file, or one of another build, is taken or made anew (`GroupBitmaps`), or the reader
  throws (`MayFail`).

## 3. The runs

All passing runs explore their whole state space.

| run | instance | question |
|---|---|---|
| `super_set_search` | 3 vectors with any labels of {0, 1, 3}, queries over 5 labels | do trie, group arrays and renumbering agree after every insertion, and does every traversal then return exactly the minimal super sets? |
| `lng_entry_groups` | 4 groups, 3 labels | are edges, descendants and coverage exact in every order of the loops, and do the three entry-group functions return the same exact answer on them? |
| `vamana` | up to 4 vectors, 1 or 2 threads, degree 1, slack degree 2 | do lists stay bounded, do edges lead only to linked vectors, does no search end in a dead end, does linking end? |
| `cross_edges` | 3 groups, up to 6 vectors, 2 cross edges | is every LNG edge realised, and no other? |
| `search_cache` | 4 ids, 2 distances, capacity 3, counter modulo 4 | is `check` exact through wrap-arounds and from any memory, is no vector hidden from the queue, does the array implement the abstract pool? |
| `ung_search` | 1 or 3 groups, up to 4 vectors, 1 or 2 entry points, queue of 3 | are results qualified, locally optimal, complete when the queue is long enough? |
| `thread_pool` | 3 workers, 4 tasks | can a task wait while all sleep, can the destructor hang or drop tasks; does the pool implement the task queue? |
| `hybrid_search` | 1 query over 2 vectors with every mode, algorithm, label set and order of ids; the pre-filter over 3 vectors with K = 2, any distances and any estimates; 3 queries on 2 workers in mode ALPS+ | do answers qualify under their original ids, with their own distances, is the scan exact, are caches shared, does the batch return after its last task and end? |
| `favor_index` | 3 threads, 4 vectors, 2 levels, `M` = 1, `EfConstruction` = 2; queries with any filter | can an insertion throw, miss a concurrent one or wait for ever; is the entry point the highest; does an early stop have half of its answers? |
| `index_files` | up to 2 builds, over an empty directory or an older index, each with an ignored write error | what do the marker and a loaded index stand for, after any kills and write errors? |
| `index_success` (violation) | 2 builds, empty directory, no write errors | can a search load what the script reports as available? |
| `ung_search_samples` (violation) | 1 group of 3 vectors, 2 entry points | are the entry points of a large group the sampled ones? |

**Why the bounds are enough.** Four groups over three labels contain every shape
the algorithms distinguish: chains of three, diamonds, antichains, the empty label
set, a group that two candidates cover, one that is a child of one candidate and a
grandchild of another. Distances matter through their order only, and the runs
take every order, or every function with ties. A counter modulo 4 wraps like one
modulo 2^16, since only "next", "equal" and "zero" are used; the theorem
`SearchCache_proofs!Exactness` covers any modulus of at least 3. Three workers allow one to run,
one to sleep and one to be between its wake-up and the lock; four tasks are more
than the workers. With three groups and four vectors a queue of three is full in
some runs and has room in others, and the single group of four exceeds the number
of entry points. With degree 1 and slack degree 2, three vectors fill a list and
the fourth makes `inter_insert` prune; two threads are enough for one to write
back a list the other has extended. In `favor_index`, `M` = 1 makes lists of one
(two on level 0) overflow with the third vector, and the placement has no two equal
distances and an order of insertion in which both the heuristic and the descent
take every branch; twelve further placements gave the same result (6.8 million
states). Two builds over an older index, or after a killed one, are one whose files
stay and one that overwrites them; `MaxErrors` = 1 lets each build be hit by an ignored
write error (two files, if it is `vecs.bin`), and 2 gave the same result (4.9 million
states). In `hybrid_search`, K = 2 of three vectors fills the heap, pushes the top out
and leaves it, with ties; every order of two ids makes each wrong translation visible.
`NumPoints`, `GroupCounts`, `MaxPoints`, `NumTasks`, `MaxLevel`, `MaxBuilds`, `MaxErrors`
and the sizes of the sets are the bounds; no action is guarded by an artificial one
except `enqueue`, by `NumTasks`, `startBuild`, by `MaxBuilds`, and `goOnWithout`, by
`MaxErrors`.

**Deadlock** is checked in the runs that never stop by themselves (`search_cache`,
`index_files`, `index_success`); the others model a computation that ends, and say
so in the cfg. That nobody waits for ever is a liveness property of theirs.

**Fairness.** `ThreadPool`: weak fairness of each worker's own steps (an awake
thread is scheduled, gets the mutex eventually because every critical section is
short, and tasks end) and of what the owner has begun (`notify_one` after
`enqueue`, `notify_all` and `join` after the destructor has started). Spurious
wake-ups, and the owner's decision to enqueue or to destroy, are not fair.
`HybridSearch`: weak fairness of the main thread, of "some free worker takes the
next task", and of each busy worker, which is what `TaskQueue` promises and
`ThreadPool` is shown to implement. `UngSearch`: weak fairness of `Next`: a
sequential loop goes on. `Vamana`: weak fairness of the main thread and of the
iterations of each thread (a parallel loop runs until it is done). `FavorIndex`: weak
fairness of each inserting thread and of the query; weak is enough, although a
thread may find the lock it needs taken again and again, because there are
finitely many insertions and the other threads run out of them. Termination of the
other sequential loops is not among the properties of the runs.

**Mutants.** Operators marked `Mutant` stand just before the operator they
replace; each shows, in the run named in `PROJECT.json`, that its property fails
when the code has a plausible bug at this place (no memset at the wrap, a cursor
that is not moved back, a worker that exits with tasks queued, FAVOR's ids
translated too, a heap that drops its least pair).

## 4. The proofs

Every safety property that a passing run checks is a theorem, for every value of
the constants that the assumptions allow: any number of vectors, groups, labels,
threads, queries, builds. The inductive invariants are defined next to the theorems,
or in the model's module where a run's property needs their parts.

| theorem | statement | assumptions |
|---|---|---|
| `SuperSetSearch_proofs!GroupsAlwaysAgree` | after every insertion the trie's terminals, the group arrays and the ids of vectors describe one division | labels are finitely many naturals |
| `!FindsMinimal`, `SkipCovers` | every traversal, in any order of its queue, leaves exactly the minimal super sets after the filter; every super set lies above a candidate | same |
| `!ReorderKeeps` | the renumbering is a permutation that keeps labels and puts every vector into its group's range | same |
| `!GivesChildren` | in group ids: the build's search returns `Child` and the queries' return the minimal qualified groups, which is what `LabelNavGraph` and `EntryGroups` take for granted | same |
| `LngEntryGroups_proofs!DescendantsAreExact`, `CoverageIsExact` | descendants and covered sets are exact after any order of the loops | finitely many groups and labels, group ids positive |
| `!Exactness`, `SharedMarks` | all three entry-group functions return exactly the minimal qualified groups; between two traversals of `sorted_lng` the marked candidates are those at or above an answer | same |
| `UnitedGraph_proofs!EdgesFollow` | cross edges lead to child groups only | finitely many labels, `NumCrossEdges` at most `Lbuild` |
| `!LngIsRealised`, `BuildsUnited` | every LNG edge is realised; whatever the group graphs were, the result is `United` | also `NumCrossEdges` at least 2 |
| `!FilterIsSound`, `StopsAtFixedPoint`, `MissesNothing` | results qualify; the search stops at a local optimum; complete group graphs and a long enough queue give all | positive sizes |
| `!AnyGraphIsSearched` | the three hold on *every* `United` graph, not only on the ones `Init` lists (for `Exhaustive`, with complete group graphs) | same |
| `SearchCache_proofs!Exactness` | `check` is exact after the first `clear`, through wrap-around and reuse | at least 3 mark values |
| `!HidesNothing` | no vector the search has not met looks visited | same |
| `!HoldsClosest` | the sorted array holds the Capacity closest ever offered | ids and distances are naturals, capacity positive |
| `!Refinement` | array, binary search, `memmove` and cursor implement `CandidatePool` (`ImplementsPool`) | same |
| `!PoolInvariance` | the abstract pool: the closest offered are kept, and flagged iff handed out | same |
| `Batch_proofs!TypeCorrect`, `LosesNoWakeup`, `StopsAll`, `DrainsQueue` | types; no lost wake-up; nobody sleeps after `notify_all`; a destroyed pool has run every task | finitely many workers, at least one |
| `!Refinement` | every step of the pool is a step of `TaskQueue` or a stutter | same |
| `!NoCacheShared`, `BatchReturnsLast` | running tasks have caches of their own; `search_hybrid` returns after the last task | ids of queries are naturals, positive `K`, known modes and algorithms |
| `!AllAnswersQualify` | a pair returned is a qualified vector under its original id with its distance or RabitQ's estimate; the pre-filter's answers to unknown labels (section 5) are the only others | same, and orders of ids that are bijections |
| `!PrefilterIsExact` | the scan returns K qualified vectors or all, and without RabitQ none it leaves out is closer | same |
| `Linking_proofs!DegreesAreBounded`, `EdgesLeadToLinked`, `NoSearchEndsInADeadEnd` | Vamana: degree bounds; edges to linked vectors only; a linked vector has a neighbour | finitely many vectors, degree at most the slack degree, queue of at least 2 |
| `!NoInsertEverThrows` | FAVOR: no insertion writes a link that `addPoint` rejects or that exceeds a list | `M` positive, `EfConstruction` at least `M`, vectors on a line |
| `!EntryStaysHighest`, `NobodyIsMissed` | the entry point is a finished element of the highest level; in the built graph only the single element of a level has no neighbour there | same |
| `!HalfOfTheAnswers` | a search that stops early has more than half of k answers | same |
| `IndexFiles_proofs!MarkerIsTrue`, `LoadsOneBuild`, `SideIndexMatches` | behind the marker of the last build started stand whole files of it, but for those a write error hit unnoticed; a search has one build loaded, and RabitQ's codes are of that build, with the same exception | any number of builds and of write errors |

**The library.** `Order_proofs` proves `SetInduction` (a *set* of naturals that has
0 and the successors of its members has all; a property of finite sets is the set of
the cardinalities for which it holds, so that no operator parameter is needed),
`ClosestMember`, `FarthestMember`,
`LeastGroup` and `GreatestGroup` from it, and the facts about the n nearest of a
finite set in a total order on which the queues of ALPS and of FAVOR rest:
`NearestAgain` (the nearest of the nearest of S and of i are the nearest of S and
i), `NearestFull`, `NearestOfFew`, `NearestOfSorted` (the first n of a sorted list).

**The inductive invariants.**

* *`GroupTrie`* (`IndexInv`): the nodes are the prefixes of the terminals' sorted
  label sets, each registered under its last label and no other (`TrieInv`); a group's
  list has no vector twice (`ListsInv`). The renumbering concatenates the lists: that a
  recursive concatenation is defined for every number of lists is shown by induction
  on naturals (`FlattenIsDefined`), and `PlaceInGroup` finds the one list and place of
  every new id.
* *`SuperSetSearch`* (`IInv`): `ItemInv` says what a queue entry stands for (the labels
  the node's path has met, those still to come, all greater). `SearchInv` says that
  every minimal super set is a candidate or lies below an entry of the queue; the step is
  `NextOnPath`, the child of a node on the way to a given terminal. The filter needs
  the order of sizes (`FilterInv`).
* *`LabelNavGraph`* (`LngInv`): edges of the groups done are `Child`, in-edges are those of
  the groups done in their loop; a descendants search has reached what it holds, and a
  reached group outside the queue has all its children reached, from which
  `ClosedIsUpward` gives the whole upper cone. In the merge an out-degree counts the
  children not yet merged; that the queue is never empty too early is `GreatestGroup`:
  among the groups left, one has all its children merged.
* *`EntryGroups`* (`IInv`, under `AllInv` together with `LngInv`): `IntersectInv` and
  `CandsInv` give the candidates as the qualified groups, `ExcludeInv` the excluded set as
  the union of what scanned candidates make redundant; that this is enough with `tfng2`,
  which excludes only *children*, is `CoveredByQualified`. `MarkInv` is the invariant of
  a traversal with a shared visited array, `ScanInv` the order of sizes.
* *`CrossEdges`*: `FollowInv` says that what is found, paired, added and merged leads to
  a child, in local or global ids according to the phase; `ConnectInv` that every
  LNG edge the repair has passed is realised, and that the pair being filled is at
  its first vector, with nothing added, or has its edge. It gets one because half of two or
  more cross edges is at least one (hence `NumCrossEdges` at least 2: for one the repair
  adds nothing, see section 5).
* *`UngSearch`* (`IInv`): `EntryInv` says that each entry group whose turn has come has an
  entry point; `SearchInv` that the pool's kept candidates are the closest of the entry
  points and the visited, and that every expanded one has only visited neighbours. `Exhaustive` then needs that
  from a minimal qualified group every qualified group is reached along LNG edges
  (`LeastGroup`), in groups that are complete.
* *`VisitedSet`*: `CheckIsExact` alone is not inductive: after a wrap a mark could
  equal the next value. `MarksBelowCounter` says no mark is above the counter, so
  the next value is fresh, and the counter is never 0, the value of zeroed marks.
* *`SearchCache`* (`ProofInv`, over `ArrayInv`): the array is sorted without repetition,
  its distances are its ids', and the cursor stands on the first candidate not expanded.
  That the binary search's recursive function exists, and ends at the place of the new
  candidate or at its own id, is proved by `SetInduction` over ranges (`SearchIsDefined`,
  `SearchAnswers`, `SearchIsCorrect`).
* *`ThreadPool`* (`PoolInv`): `Typed` refines the types (queued and running tasks are
  submitted ones). `NoLostWakeup` balances waiting tasks against awake workers and the
  notification that is still due. `ExitedInOrder` says a worker exits only after the
  stop flag with an empty queue; `NoTaskDropped` that a submitted task is queued,
  running or done. `Drained` follows from the last two.
* *`HybridSearch`* (`IInv`): a task is in one place of the pool (`InOnePlace`), has ended
  when the pool says so and not begun before it runs (`InStep`); a cache is in the list
  or with one task (`CacheInv`), and the early returns only keep one away from the
  list. `Read` says the main thread has read futures of ended tasks only and submitted all
  before the first. The answers need an invariant of the search (`AnswerInv`): `Kept` says
  what the heap of a scan holds of the vectors passed so far (as many as it can, and
  without RabitQ none farther than one left out), `Ready` what a search leaves for
  `finalize`. `OfferedKeeps` is the step of the scan; `FinalAnswer` goes from the ids of the
  search to original ones, for which the translation must be a bijection (`IdsCount`,
  `OldToNewInverse`); that every mode's mask is the qualified vectors is `MaskMeaning`.
* *`Vamana`* (`LinkInv`): `EdgesToLinked` needs to know what the threads hold in private:
  `SearchInv` (a search has seen no vectors but the entry point and linked ones),
  `ListInv` (a pruned list and a copy about to be written back lead
  to such vectors, are bounded and not empty), `LoopInv` (which iterations are begun,
  and by whom). For `NoDeadEnds` of the entry point, `SequentialInv` follows the one
  thread: until the entry point has been linked with other vectors, its list is
  filled by their reverse edges, and its own search then finds them.
* *`FavorIndex`* (`BuildInv`): `OwnInv` ties list locks to the threads, `HighInv` is the
  argument of the global mutex: while its holder inserts the highest element nobody else
  can, so the level it has read is still the highest when it finishes. `WhereInv`: what a
  thread has found exists on its level, and what it reads and links is finished, since the
  lists of unfinished elements are locked. `LinksInv`: an element is unknown on the levels
  ahead of its thread and linked on those behind. `LoneInv` is why concurrent insertions
  do not miss each other: while an element has no neighbour on a level it is the only
  finished one there, and every thread whose element has that level is about to link it.
  The heuristic, a loop over a set, is a `CHOOSE` in the model: that the set it chooses
  exists, is bounded and keeps the nearest candidate is `SomethingIsKept`, by induction
  on the set. `QueryInv` gives the count of the filtered search.
* *`IndexFiles`* (`IInv`): `SaveInv` says which files are of the current build at each
  position of `save`, unless they are among the `damaged`; `SideInv` and `LoadInv` what a
  search has read of them. `CheckedInv` says what the two checks of `save` give beyond that:
  the attribute graph is of this build and its group bitmaps are not cut once they are
  passed. `Written` (a file being written is the one at the position, and of this build)
  is there for the proof: without it closing a file could complete another one.

**Only model-checked.** Liveness, since fairness and ENABLED are outside the
prover's reach: `Ends` (three runs), `LinkEnds`, `EveryTaskRuns`, `Destroys`, and the fair
part of `ImplementsQueue`, whose initial state and steps are proved (`Refinement`). The two
properties of the violation runs do not hold. The type invariants of modules whose
proofs have a finer one are stated for the reader.

## 5. Where the code and its comments disagree

Checked by a run:

* `ung_search_samples`: U:6233 says "randomly sample the other entry points"; U:6240
  marks the sampled vector but pushes `i + group_range.first`, the i-th vector of
  the group. The entry points are thus never random.
* `index_success`: `load` rewrites meta in place at every start of a search
  (U:7398). A search killed between the truncation and the last line leaves a meta
  without `num_points`; the marker and the two files the script looks at still
  exist, so `build_hybrid.sh` skips the build (line 107) and prints "[SUCCESS]
  Required indexes are available" (line 188), while every later `load` throws.

Met while modelling; the models contain the behaviour, and the properties are
stated where it does not arise:

* *Queries without labels.* `bitmap` and `sorted_lng` (U:1486, 1449) return no group,
  `tfng2` starts from all of them, and U:1568 says the empty intersection "is the
  universe of groups". `Complete` in `EntryGroups` and `SuperSetSearch` names the
  functions that treat the empty query as a filter that all pass.
* *Unknown labels.* The ALPS+ pre-filter (U:5201) skips a label no vector has and
  intersects the rest, so it answers with vectors that lack it, where U:1452 says
  "label absent -> no qualified group". ALPS and ALPS-fixed leave the
  zero-initialised results of U:5404 in place, so every slot gets the translated
  pair (0, 0), which `search_UNG_index.cpp:404` wants never to be seen.
  `AnswersQualify` names both as the only answers that do not qualify, and
  `PrefilterExact` is stated for known labels.
* *A label beyond the trie's index* makes the shortcut traversal throw
  (`trie.cpp:185`), while the other traversals answer with no group.
* *One cross edge per vector.* `_num_cross_edges / 2` is 0 (U:4186), so the repair of
  unconnected groups adds nothing; `cross_edges` uses two.
* *A rebuild of an older index* (one without `group_attr_roaring_inv.bin`) does not
  remove the marker first (`build_hybrid.sh:111`): killed half way, it leaves a marked
  directory with files of two builds. Hence `Marked` in the properties of
  `IndexFiles`, which excepts a marker under which a build was started.
* *Write errors behind the marker.* `save` ends normally although a file did not open
  or came out short (U:6515, 6543, 6608, 6628; `utils.cpp:7`, 159; `storage.cpp:190`), and
  the script, which looks at two files, sets the marker. Then `vecs.bin` may be an earlier
  build's, or a table cut; and if the side index does not open, meta still says
  `rabitq_enabled=1` (U:6502), so a search takes an earlier build's codes for its vectors.
  The properties of `IndexFiles` say that such an error harms no other file: they except
  `damaged`.
* *Cut group bitmaps.* `load` takes `group_attr_roaring_inv.bin` if the number of bitmaps
  is right (U:6887), also when the file is cut after its header. Behind a marker there is
  no cut file of the marked build, since `save` compares the size; in an unmarked
  directory there may be, and `load` can take it.
* *More than one thread in one group.* `link` overwrites the vector's list with the
  reverse edges others have inserted meanwhile, so the entry point may lose all of
  its edges; `NoDeadEnds` promises its edges for one thread only, which is what the
  live caller (U:1859) uses. Since full lists are thinned out, neither `Vamana` nor
  `FavorIndex` promises that every vector can be reached from the entry point.
* *FAVOR's early stop* (`favor.h:1036`) asks for more than half of k qualified
  elements, not for a full pool: fewer than k answers are possible although more
  qualify, and `EarlyStopHasHalf` is all that holds.
* *The overlap and unfiltered scenarios* keep the marks of the drawn entry points
  (U:4251, 6240), so a drawn vector that was not pushed is never found;
  `SearchCache` models the searches that clear both.

## 6. Not modelled

* *`select_entry_groups`* (U:1648-1790, called at U:5396 with the option for more
  entry groups): it adds to the minimal groups the deepest and largest of their
  descendants, one for every five of them, and the query's own group if the caller
  passes its id. Descendants qualify as the minimal groups do (`DescendantsExact`), so
  the additions give the search more places to start from and no other vectors.
* *The alternative cross edges* of U:3267-3927 (`new_cross_edge.ung_and_acorn`): they
  run an external program from a fixed path, read its output file and return early
  when it fails; which edges result is that program's choice.
* *FAVOR's file format, its parser of filters, and the script's parallel builds of
  FAVOR indexes.* *RabitQ's quantisation*: numeric; whether its side index is written,
  found and used is in `IndexFiles`, its way of marking in `SearchCache`, and that answers
  are ranked by its estimates in `HybridSearch`, where an estimate is any distance.
* *Loss of power.* A write that has been closed is on the disk; `IndexFiles` has kills of
  processes, not of the machine.
* *The race for FAVOR's `ef_`.* A query may read the `ef_` of another; since the penalised
  distances are any values, nothing stated depends on it, and nothing is stated of it.
* *The overlap scenario of the trie searches* (`need_containment = false`) and the
  routing modes 2, 3, 4 and 6, which no caller or branch uses any more.
* *The ONNX router*: any prediction is possible. *Distances, storage, scans,
  argument parsing, statistics, scripts*: pure data or I/O without a protocol.
* *Vendored code*: hnswlib, CRoaring, onnxruntime, Curator, NaviX stubs. Roaring
  bitmaps are sets. The vendored files hold most of the repository's lines: the
  mapped share of the ALPS sources proper is far larger than that of the whole.

## 7. Plan

Done, in this order: groups and trie, super-set search, LNG, entry groups, queue
and visited set, cross edges, united search, thread pool, batches; Vamana, FAVOR, the
index directory; the compositions of trie and search, LNG and entry groups, marks
and queue; the proofs of every safety property that a passing run checks, and of
the two refinements' steps.

Next, by importance:

1. `select_entry_groups` in `EntryGroups`, with the proof that its additions qualify;
   the distance-oriented edges in `CrossEdges`.
2. The overlap scenario of `UngSearch`, with the marks it keeps.
3. Action properties of what is proved as invariants only: an index directory whose
   marker stands is changed only by `load`'s rewrite of meta; the entry point's
   level never falls; a result, once written, stays.
4. The assumptions of `HybridSearch` about a search, derived from the theorems of
   `UnitedGraph_proofs` rather than stated again.
