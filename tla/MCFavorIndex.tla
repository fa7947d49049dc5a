----------------------------- MODULE MCFavorIndex -----------------------------
(* Four vectors on a line, no two distances between them equal: inserted   *)
(* in an order in which the second is far and the last two thin lists out. *)
EXTENDS FavorIndex

MCPlacements == {[e \in Element |-> <<4, 0, 6, 1>>[e + 1]]}

=============================================================================
