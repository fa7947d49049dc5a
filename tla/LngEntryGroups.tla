---------------------------- MODULE LngEntryGroups ----------------------------
(***************************************************************************)
(* The label navigation graph is built, and then a query asks for its      *)
(* entry groups: LabelNavGraph and EntryGroups one after the other, over   *)
(* the same groups and label sets.                                         *)
(***************************************************************************)
EXTENDS EntryGroups

VARIABLES phase, todo, outNeighbors, inNeighbors, source, descendants, covered, outDegree,
          reached,  \* LabelNavGraph's visited
          fifo      \* LabelNavGraph's queue

lngVars   == <<phase, todo, outNeighbors, inNeighbors, source, descendants, covered, outDegree,
               reached, fifo>>
entryVars == <<query, method, stage, matched, cands, scanned, excluded, visited, queue, minIds>>

Lng == INSTANCE LabelNavGraph WITH visited <- reached, queue <- fifo

InitAll == /\ Lng!Init
           /\ query = {} /\ method = "none" /\ stage = "none"
           /\ matched = {} /\ cands = {} /\ scanned = {} /\ excluded = {}
           /\ visited = {} /\ queue = {} /\ minIds = {}

build == Lng!Next /\ UNCHANGED entryVars

(* A query arrives, for one of the three functions. *)
ask == /\ phase = "built" /\ stage = "none"
       /\ query' \in SUBSET Label
       /\ method' \in Method
       /\ stage' = "intersect"
       /\ UNCHANGED <<lngVars, labelSet, matched, cands, scanned, excluded, visited, queue, minIds>>

(* EntryGroups' steps; its ExactEntryGroups and MarksAreShared are         *)
(* invariants of the whole.                                                *)
answer == Next /\ UNCHANGED lngVars

SpecAll == InitAll /\ [][build \/ ask \/ answer]_<<vars, lngVars>>

-----------------------------------------------------------------------------

(***************************************************************************)
(* The breadth-first searches find exactly the descendants (see            *)
(* LabelNavGraph).                                                         *)
(***************************************************************************)
DescendantsExact == Lng!DescendantsExact

(***************************************************************************)
(* The bottom-up merge covers exactly the vectors at or above every group  *)
(* (see LabelNavGraph).                                                    *)
(***************************************************************************)
CoverageExact == Lng!CoverageExact

=============================================================================
