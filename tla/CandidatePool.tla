---------------------------- MODULE CandidatePool ----------------------------
(***************************************************************************)
(* What a search asks of its bounded queue of candidates: it keeps the     *)
(* Capacity closest of the candidates it has been given, and hands out the *)
(* closest one not handed out yet.  SearchQueue implements this with a     *)
(* sorted array, and UngSearch searches with it.                           *)
(***************************************************************************)
EXTENDS Candidates

VARIABLES offered,   \* history: the candidates inserted since the last clear
          kept,      \* the candidates in the queue
          expanded,  \* those of them that are marked as handed out
          handed     \* history: all that have been handed out since the last clear

vars == <<dist, offered, kept, expanded, handed>>

Init == /\ dist \in [Id -> Distance]
        /\ offered = {}
        /\ kept = {}
        /\ expanded = {}
        /\ handed = {}

Insert(i) ==
    /\ offered' = offered \cup {i}
    /\ kept' = Closest(kept \cup {i})
    /\ expanded' = expanded \cap Closest(kept \cup {i})
    /\ UNCHANGED <<dist, handed>>

Expand(i) ==
    /\ i \in kept \ expanded
    /\ \A j \in kept \ expanded : j # i => Closer(i, j)
    /\ expanded' = expanded \cup {i}
    /\ handed' = handed \cup {i}
    /\ UNCHANGED <<dist, offered, kept>>

\* A new search, for another query.
Clear ==
    /\ dist' \in [Id -> Distance]
    /\ offered' = {}
    /\ kept' = {}
    /\ expanded' = {}
    /\ handed' = {}

Next == (\E i \in Id : Insert(i) \/ Expand(i)) \/ Clear

Spec == Init /\ [][Next]_vars

-----------------------------------------------------------------------------

(***************************************************************************)
(* What is dropped from a full queue is never missed: the queue always     *)
(* holds the Capacity closest of ALL the candidates it was ever offered,   *)
(* in whatever order they came.                                            *)
(***************************************************************************)
HoldsClosest == kept = Closest(offered)

(***************************************************************************)
(* The flags are enough to expand no candidate twice in a search, though   *)
(* a dropped candidate loses its flag and may be offered again.            *)
(***************************************************************************)
HandedOnce == handed \cap kept = expanded

TypeOK == /\ dist \in [Id -> Distance]
          /\ offered \subseteq Id /\ IsFiniteSet(offered)
          /\ handed \subseteq offered
          /\ kept \subseteq offered
          /\ Cardinality(kept) <= Capacity

\* The inductive invariant of the proofs.
IInv == TypeOK /\ HoldsClosest /\ HandedOnce
==============================================================================
