------------------------------ MODULE TriePaths ------------------------------
(***************************************************************************)
(* The paths of the trie of the groups (struct TrieNode, include/trie.h).  *)
(* Storage sorts every label set, so a path is an ascending sequence of    *)
(* labels and is identified here with the set of its labels: the root is   *)
(* {}, and the parent of a node lacks its greatest label.                  *)
(***************************************************************************)
EXTENDS Integers, FiniteSets, SequencesExt

CONSTANTS Label,      \* the labels of base vectors, a finite set of naturals
          NumPoints   \* _num_points

ASSUME LabelAssumption == Label \subseteq Nat /\ IsFiniteSet(Label)
ASSUME NumPointsAssumption == NumPoints \in Nat

LastLabel(n) == Max(n)
Parent(n) == n \ {LastLabel(n)}
AncestorUpTo(n, l) == {x \in n : x <= l}
Path(ls) == {AncestorUpTo(ls, l) : l \in ls}     \* the nodes below the root on the way to ls
=============================================================================
