------------------------------- MODULE Marks -------------------------------
(***************************************************************************)
(* The width of MarkType (UNG/codes/include/config.h), the counter of the  *)
(* visited set.                                                            *)
(***************************************************************************)
EXTENDS Integers

CONSTANT MarkRange  \* number of values of MarkType: 2^16 in the program

ASSUME MarkRangeAssumption == MarkRange \in Nat /\ MarkRange >= 3

Mark == 0 .. MarkRange - 1
=============================================================================
