-------------------------------- MODULE Groups --------------------------------
(* The groups of an index and the labels, shared by the label navigation   *)
(* graph and the choice of entry groups.                                   *)
EXTENDS GroupOrder

CONSTANTS Group,  \* the group ids, 1 .. _num_groups
          Label   \* the labels, of vectors and of queries

ASSUME GroupAssumption == Group \subseteq Nat \ {0} /\ IsFiniteSet(Group)
ASSUME LabelAssumption == IsFiniteSet(Label)

=============================================================================
