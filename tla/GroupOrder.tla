------------------------------ MODULE GroupOrder ------------------------------
(***************************************************************************)
(* The order of the groups by inclusion of their label sets, on which the  *)
(* label navigation graph and the entry groups of a query are defined.     *)
(* `ls' is _group_id_to_label_set: a function from the group ids, that     *)
(* gives different groups different label sets (GroupTrie's GroupsAgree).  *)
(***************************************************************************)
EXTENDS Integers, FiniteSets

LabelSets(Group, Label) ==
    {ls \in [Group -> SUBSET Label] : \A g, h \in Group : ls[g] = ls[h] => g = h}

\* The groups that carry every label of q.
Qualified(ls, q) == {g \in DOMAIN ls : q \subseteq ls[g]}

\* The groups whose label set strictly contains g's.
Above(ls, g) == {h \in DOMAIN ls : ls[g] \subseteq ls[h] /\ h # g}

\* The groups of S that contain no other group of S.
Minimal(ls, S) == {g \in S : \A h \in S : ls[h] \subseteq ls[g] => h = g}

\* get_min_super_sets(label set of g, avoid_self = true): SuperSetSearch's
\* ExactMinimal for the method "build".
Child(ls, g) == Minimal(ls, Above(ls, g))
===============================================================================
