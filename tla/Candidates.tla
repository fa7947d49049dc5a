----------------------------- MODULE Candidates -----------------------------
(***************************************************************************)
(* The candidates of a graph search and their order (struct Candidate of   *)
(* include/search_queue.h), shared by the abstract CandidatePool and the   *)
(* array of SearchQueue.                                                   *)
(***************************************************************************)
EXTENDS Integers, FiniteSets

CONSTANTS Id,        \* ids of vectors
          Distance,  \* distances from the query
          Capacity   \* the length of the queue

ASSUME IdAssumption == Id \subseteq Nat /\ Distance \subseteq Nat
ASSUME CapacityAssumption == Capacity \in Nat \ {0}

VARIABLE dist        \* the distance of every vector from the current query

\* Candidate::operator<
Closer(i, j) == dist[i] < dist[j] \/ (dist[i] = dist[j] /\ i < j)

\* The Capacity closest members of S.
Closest(S) == {i \in S : Cardinality({j \in S : Closer(j, i)}) < Capacity}
=============================================================================
