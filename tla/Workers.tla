------------------------------- MODULE Workers -------------------------------
(***************************************************************************)
(* The threads of the pool that runs the queries, shared by the pool and   *)
(* the batch.                                                              *)
(***************************************************************************)
EXTENDS Integers

CONSTANTS Worker,  \* the threads
          None     \* no task, no cache, no algorithm

ASSUME NoneAssumption == None \notin Nat
=============================================================================
