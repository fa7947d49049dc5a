----------------------------- MODULE VisitedSet -----------------------------
(***************************************************************************)
(* The visited set of a search cache (UNG/codes/include/visited_set.h).    *)
(*                                                                         *)
(* Every graph search of ALPS marks the vectors it has evaluated.  The     *)
(* marks are not erased between two searches: clear() only moves to the    *)
(* next value of a 16-bit counter, and a vector counts as visited when its *)
(* mark equals that counter.  When the counter wraps to 0 the whole array  *)
(* is zeroed and the counter moves on to 1.  The array is allocated with   *)
(* `new MarkType[n]', so its first contents are arbitrary.                 *)
(***************************************************************************)
EXTENDS Marks

CONSTANT Elem        \* the ids of the vectors, [0, _num_elements)

VARIABLES marks,     \* _marks
          curValue,  \* _curValue
          phase,     \* "raw" after init(), "ready" once the owner has cleared it
          visited    \* history: what the current search has set()

vars == <<marks, curValue, phase, visited>>

\* SearchCache's constructor calls init(): the array holds whatever was in
\* memory, and the counter is -1, the largest value of the unsigned type.
Init == /\ marks \in [Elem -> Mark]
        /\ curValue = MarkRange - 1
        /\ phase = "raw"
        /\ visited = {}

\* A later init(): the old array is dropped and a new one allocated.
reinit == /\ marks' \in [Elem -> Mark]
          /\ curValue' = MarkRange - 1
          /\ phase' = "raw"
          /\ visited' = {}

NextValue == (curValue + 1) % MarkRange

\* Mutant: clear() forgets the memset.
clearWithoutMemset == /\ curValue' = IF NextValue = 0 THEN 1 ELSE NextValue
                      /\ phase' = "ready"
                      /\ visited' = {}
                      /\ UNCHANGED marks

clear == /\ IF NextValue = 0
            THEN /\ marks' = [e \in Elem |-> 0]
                 /\ curValue' = 1
            ELSE /\ curValue' = NextValue
                 /\ UNCHANGED marks
         /\ phase' = "ready"
         /\ visited' = {}

\* Every search clears the set before it marks anything
\* (iterate_to_fixed_point, thread_function).
set(e) == /\ phase = "ready"
          /\ marks' = [marks EXCEPT ![e] = curValue]
          /\ visited' = visited \cup {e}
          /\ UNCHANGED <<curValue, phase>>

check(e) == marks[e] = curValue

Next == reinit \/ clear \/ \E e \in Elem : set(e)

Spec == Init /\ [][Next]_vars

-----------------------------------------------------------------------------

TypeOK == /\ marks \in [Elem -> Mark]
          /\ curValue \in Mark
          /\ phase \in {"raw", "ready"}
          /\ visited \subseteq Elem

(***************************************************************************)
(* check() answers exactly which vectors the CURRENT search has set: no    *)
(* mark left by any earlier search, by an earlier turn of the counter, or  *)
(* by uninitialised memory is ever taken for a visit.                      *)
(***************************************************************************)
CheckIsExact == phase = "ready" => \A e \in Elem : check(e) <=> e \in visited

(***************************************************************************)
(* Why that holds: since the last time the array was zeroed, no mark is    *)
(* above the counter, and the counter is never 0, the value of the zeroed  *)
(* marks; before the first clear() the counter is about to wrap.           *)
(***************************************************************************)
MarksBelowCounter ==
    IF phase = "ready" THEN curValue # 0 /\ \A e \in Elem : marks[e] <= curValue
               ELSE curValue = MarkRange - 1

IInv == TypeOK /\ CheckIsExact /\ MarksBelowCounter
=============================================================================
