------------------------------ MODULE TaskQueue ------------------------------
(***************************************************************************)
(* What the users of the thread pool rely on: tasks start in the order     *)
(* they were submitted, each exactly once, at most one per worker, and     *)
(* each task that starts finishes.  ThreadPool implements this with a      *)
(* mutex and a condition variable; HybridSearch is written on top of it.   *)
(***************************************************************************)
EXTENDS Integers, Sequences

CONSTANTS Task, Worker, None

VARIABLES waiting,   \* the tasks submitted and not started, in order
          running,   \* the task each worker runs, or None
          finished   \* the tasks that have ended

vars == <<waiting, running, finished>>

Known(t) == \/ t \in finished
            \/ \E k \in DOMAIN waiting : waiting[k] = t
            \/ \E w \in Worker : running[w] = t

Init == /\ waiting = <<>>
        /\ running = [w \in Worker |-> None]
        /\ finished = {}

Submit(t) == /\ ~Known(t)
             /\ waiting' = Append(waiting, t)
             /\ UNCHANGED <<running, finished>>

Start(w) == /\ waiting # <<>>
            /\ running[w] = None
            /\ running' = [running EXCEPT ![w] = Head(waiting)]
            /\ waiting' = Tail(waiting)
            /\ UNCHANGED finished

Finish(w) == /\ running[w] # None
             /\ finished' = finished \cup {running[w]}
             /\ running' = [running EXCEPT ![w] = None]
             /\ UNCHANGED waiting

Next == \/ \E t \in Task : Submit(t)
        \/ \E w \in Worker : Start(w) \/ Finish(w)

\* A worker that could start or finish a task eventually does.
Spec == /\ Init /\ [][Next]_vars
        /\ WF_vars(\E w \in Worker : Start(w))
        /\ \A w \in Worker : WF_vars(Finish(w))
==============================================================================
