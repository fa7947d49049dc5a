---------------------------- MODULE SearchCache ----------------------------
(***************************************************************************)
(* A search cache (UNG/codes/include/search_cache.h): the visited set and  *)
(* the queue of candidates that the searches of one worker use one after   *)
(* the other.  The actions are what the searches of UniNavGraph and of     *)
(* Vamana do with the two of them; which neighbours a candidate has is     *)
(* left open.                                                              *)
(***************************************************************************)
EXTENDS VisitedSet, Candidates

\* One id space: the vectors of the queue are those of the visited set.
ASSUME ElemAssumption == Elem = Id

VARIABLES data, curUnexpanded, offered, returned,  \* search_queue
          stage     \* what the owner of the cache does with it

queueVars == <<dist, data, curUnexpanded, offered, returned>>
cacheVars == <<vars, queueVars, stage>>

Queue == INSTANCE SearchQueue

\* The constructor: the queue is empty, the marks are whatever memory held.
InitCache == /\ Init
             /\ Queue!Init
             /\ stage = "idle"

\* get_entry_points clears the visited set, while the queue still holds the
\* result of the last search, ...
startDrawing ==
    /\ stage # "draw"
    /\ clear
    /\ stage' = "draw"
    /\ UNCHANGED queueVars

\* ... and marks the vectors that it draws.
draw(i) ==
    /\ stage = "draw"
    /\ ~check(i)
    /\ set(i)
    /\ UNCHANGED <<queueVars, stage>>

\* Mutant: the marks of the drawn vectors are kept (clear_visited_set = false).
startSearchKeepingMarks ==
    /\ Queue!clear
    /\ stage' = "search"
    /\ UNCHANGED vars

\* Every search of a group graph or of the united graph clears both.
startSearch ==
    /\ Queue!clear
    /\ clear
    /\ stage' = "search"

\* An entry point enters the queue without a mark ...
enter(i) ==
    /\ stage = "search"
    /\ returned = {}
    /\ visited = {}
    /\ Queue!insert(i)
    /\ UNCHANGED <<vars, stage>>

\* A vector met for the first time is marked and offered to the queue.
markAndOffer(i) ==
    /\ ~check(i)
    /\ set(i)
    /\ Queue!insert(i)
    /\ UNCHANGED stage

\* ... or, in the search on quantised distances, with one.
enterMarked(i) ==
    /\ stage = "search"
    /\ returned = {}
    /\ offered = visited
    /\ markAndOffer(i)

expand ==
    /\ stage = "search"
    /\ Queue!get_closest_unexpanded
    /\ UNCHANGED <<vars, stage>>

\* A neighbour of the candidate expanded last.
visit(i) ==
    /\ stage = "search"
    /\ returned # {}
    /\ markAndOffer(i)

NextCache == \/ startDrawing \/ startSearch \/ expand
             \/ \E i \in Id : draw(i) \/ enter(i) \/ enterMarked(i) \/ visit(i)

SpecCache == InitCache /\ [][NextCache]_cacheVars

-----------------------------------------------------------------------------

\* VisitedSet's CheckIsExact is an invariant of the cache.

(***************************************************************************)
(* The visited set hides no vector that the queue has not been offered,    *)
(* though the same set remembers the entry points that were drawn.         *)
(***************************************************************************)
NothingHidden == stage = "search" => \A i \in Id : check(i) => i \in offered

(***************************************************************************)
(* The queue holds the Capacity closest of all candidates offered since    *)
(* the search began, in whatever order they came, and none of them twice   *)
(* (search_queue.cpp).                                                     *)
(***************************************************************************)
HoldsClosestOffered == Queue!HoldsClosestOffered

(***************************************************************************)
(* The sorted array implements the pool of candidates: it hands out the    *)
(* closest candidate not expanded, and an insertion before the cursor      *)
(* moves the cursor back.                                                  *)
(***************************************************************************)
ImplementsPool == Queue!ImplementsPool

(***************************************************************************)
(* The inductive invariant: the two parts' own, and what the owner of the  *)
(* cache sees to.                                                          *)
(***************************************************************************)
StageInv == /\ stage \in {"idle", "draw", "search"}
            /\ stage # "idle" => phase = "ready"
            /\ stage = "search" => visited \subseteq offered

CacheInv == IInv /\ Queue!IInv /\ StageInv
=============================================================================
