----------------------------- MODULE SearchQueue -----------------------------
(***************************************************************************)
(* The bounded queue of candidates of every graph search                   *)
(* (include/search_queue.h, src/search_queue.cpp): an array sorted by      *)
(* distance, a capacity, and the position of the first candidate that has  *)
(* not been expanded.                                                      *)
(***************************************************************************)
EXTENDS Candidates, Sequences

VARIABLES data,           \* _data[0 .. _size - 1]
          curUnexpanded,  \* _cur_unexpanded
          offered,        \* history: ids inserted since clear()
          returned        \* history: ids handed out since clear()

vars == <<dist, data, curUnexpanded, offered, returned>>

size == Len(data)
At(k) == data[k + 1]     \* _data is indexed from 0

Less(c, d) == c.distance < d.distance \/ (c.distance = d.distance /\ c.id < d.id)

Init == /\ dist \in [Id -> Distance]
        /\ data = <<>>
        /\ curUnexpanded = 0
        /\ offered = {}
        /\ returned = {}

-----------------------------------------------------------------------------

\* The binary search of insert(): the position of the new candidate, -1 when
\* its id is met.
Search(new) ==
    LET find[r \in (0 .. size) \X (0 .. size)] ==
            LET lo == r[1]
                hi == r[2]
                mid == (lo + hi) \div 2
            IN  IF lo >= hi THEN lo
                ELSE IF Less(new, At(mid)) THEN find[<<lo, mid>>]
                ELSE IF At(mid).id = new.id THEN -1
                ELSE find[<<mid + 1, hi>>]
    IN  find[<<0, size>>]

\* Mutant: the new candidate replaces instead of moving the rest.
MoveReplacing(lo, new) == SubSeq(data, 1, lo) \o <<new>> \o SubSeq(data, lo + 2, size)

\* The elements from lo on move one place; what exceeds the capacity is lost.
MoveAndPut(lo, new) ==
    LET moved == SubSeq(data, 1, lo) \o <<new>> \o SubSeq(data, lo + 1, size)
    IN  SubSeq(moved, 1, IF size < Capacity THEN size + 1 ELSE Capacity)

\* Mutant: an insertion before the first unexpanded candidate does not move it back.
PointerAfterForward(lo) == curUnexpanded
PointerAfter(lo) == IF lo < curUnexpanded THEN lo ELSE curUnexpanded

insert(i) ==
    LET new == [id |-> i, distance |-> dist[i], expanded |-> FALSE]
        lo == Search(new)
    IN  /\ offered' = offered \cup {i}
        /\ IF (size = Capacity /\ Less(At(size - 1), new)) \/ lo = -1
           THEN UNCHANGED <<data, curUnexpanded>>
           ELSE /\ data' = MoveAndPut(lo, new)
                /\ curUnexpanded' = PointerAfter(lo)
        /\ UNCHANGED <<dist, returned>>

\* The loop of get_closest_unexpanded.
NextUnexpanded(flags) ==
    CHOOSE k \in curUnexpanded .. size :
        /\ \A j \in curUnexpanded .. k - 1 : flags[j + 1].expanded
        /\ k < size => ~flags[k + 1].expanded

get_closest_unexpanded ==
    /\ curUnexpanded < size     \* has_unexpanded_node()
    /\ data' = [data EXCEPT ![curUnexpanded + 1].expanded = TRUE]
    /\ curUnexpanded' = NextUnexpanded(data')
    /\ returned' = returned \cup {At(curUnexpanded).id}
    /\ UNCHANGED <<dist, offered>>

\* clear(), before the search of another query.
clear ==
    /\ data' = <<>>
    /\ curUnexpanded' = 0
    /\ dist' \in [Id -> Distance]
    /\ offered' = {}
    /\ returned' = {}

Next == (\E i \in Id : insert(i)) \/ get_closest_unexpanded \/ clear

Spec == Init /\ [][Next]_vars

-----------------------------------------------------------------------------

Ids == {data[k].id : k \in 1 .. size}
Expanded == {data[k].id : k \in {j \in 1 .. size : data[j].expanded}}

TypeOK == /\ dist \in [Id -> Distance]
          /\ data \in Seq([id : Id, distance : Distance, expanded : BOOLEAN])
          /\ size <= Capacity
          /\ curUnexpanded \in 0 .. size

Pool == INSTANCE CandidatePool
            WITH kept <- Ids, expanded <- Expanded, handed <- returned

(***************************************************************************)
(* The queue holds the Capacity closest of all candidates offered since    *)
(* the last clear().                                                       *)
(***************************************************************************)
HoldsClosestOffered == Ids = Closest(offered)

(***************************************************************************)
(* The array implements the pool of candidates: what it hands out is the   *)
(* closest candidate not expanded, none is handed out twice while it stays *)
(* in the queue, and an insertion before the cursor moves it back.         *)
(***************************************************************************)
ImplementsPool == Pool!Spec

(***************************************************************************)
(* Why that holds: the array is sorted by the distances from the current   *)
(* query, and the cursor is on the first candidate that is not expanded.   *)
(***************************************************************************)
Sorted == \A j, k \in 1 .. size : j < k => Less(data[j], data[k])
OwnDistances == \A k \in 1 .. size : data[k].distance = dist[data[k].id]
CursorOnFirst == /\ \A k \in 1 .. curUnexpanded : data[k].expanded
                 /\ curUnexpanded < size => ~At(curUnexpanded).expanded

IInv == TypeOK /\ Sorted /\ OwnDistances /\ CursorOnFirst /\ Pool!IInv
=============================================================================
