----------------------------- MODULE ThreadPool -----------------------------
(***************************************************************************)
(* The thread pool that runs the queries (include/ThreadPool.h): workers   *)
(* that wait on a condition variable, a task queue and a stop flag behind  *)
(* one mutex, and the owner, which enqueues tasks, may wait for their      *)
(* futures, and destroys the pool.                                         *)
(*                                                                         *)
(* Every section under queue_mutex is one step; notify_one and notify_all  *)
(* come after the mutex is released and are steps of their own.            *)
(***************************************************************************)
EXTENDS Workers, Sequences, FiniteSets

CONSTANT NumTasks  \* bound on the tasks the owner enqueues, named 1 .. NumTasks

ASSUME WorkerAssumption == IsFiniteSet(Worker) /\ Worker # {}
ASSUME NumTasksAssumption == NumTasks \in Nat

VARIABLES loc,       \* of every worker: "awake", "blocked" (in condition.wait), "running", "exited"
          task,      \* the task a worker runs, or None
          tasks,     \* the queue
          stop,      \* the flag the destructor sets
          submitted, \* the number of tasks enqueued
          done,      \* the tasks whose future is ready
          owner      \* "ready", "notify", "get", "stopping", "joining", "destroyed"

threads == <<loc, task>>
poolVars == <<loc, task, tasks, stop, submitted, done, owner>>

Task == 1 .. NumTasks
At(l) == {w \in Worker : loc[w] = l}

InitPool == /\ loc = [w \in Worker |-> "awake"]
            /\ task = [w \in Worker |-> None]
            /\ tasks = <<>>
            /\ stop = FALSE
            /\ submitted = 0
            /\ done = {}
            /\ owner = "ready"

-----------------------------------------------------------------------------
\* The workers.

\* Mutants: the worker leaves on stop although tasks are queued; it tests
\* only the queue; the popped task stays queued.
MayExitAtOnce == stop
MayExitNever == FALSE
RestUnpopped == tasks

MayExit == stop /\ tasks = <<>>
Rest == Tail(tasks)

\* One pass under the mutex: wait, exit or take the first task.
acquire(w) ==
    /\ loc[w] = "awake"
    /\ IF MayExit
       THEN /\ loc' = [loc EXCEPT ![w] = "exited"]
            /\ UNCHANGED <<task, tasks>>
       ELSE IF tasks = <<>>
       THEN /\ loc' = [loc EXCEPT ![w] = "blocked"]
            /\ UNCHANGED <<task, tasks>>
       ELSE /\ loc' = [loc EXCEPT ![w] = "running"]
            /\ task' = [task EXCEPT ![w] = Head(tasks)]
            /\ tasks' = Rest
    /\ UNCHANGED <<stop, submitted, done, owner>>

\* task() returns or throws: its future is ready either way.
finish(w) ==
    /\ loc[w] = "running"
    /\ done' = done \cup {task[w]}
    /\ task' = [task EXCEPT ![w] = None]
    /\ loc' = [loc EXCEPT ![w] = "awake"]
    /\ UNCHANGED <<tasks, stop, submitted, owner>>

\* condition.wait may return without a notification.
spuriousWakeup(w) ==
    /\ loc[w] = "blocked"
    /\ loc' = [loc EXCEPT ![w] = "awake"]
    /\ UNCHANGED <<task, tasks, stop, submitted, done, owner>>

-----------------------------------------------------------------------------
\* The owner.

enqueue ==
    /\ owner = "ready"
    /\ ~stop
    /\ submitted < NumTasks
    /\ tasks' = Append(tasks, submitted + 1)
    /\ submitted' = submitted + 1
    /\ owner' = "notify"
    /\ UNCHANGED <<threads, stop, done>>

\* Mutants: no notification is sent; one is sent only when the queue was empty.
WakesNone(woken) == woken = {}
WakesFirstOnly(woken) == IF Len(tasks) # 1 \/ At("blocked") = {} THEN woken = {}
                         ELSE \E w \in At("blocked") : woken = {w}

\* notify_one wakes some blocked worker, if there is one.
Wakes(woken) == IF At("blocked") = {} THEN woken = {}
                ELSE \E w \in At("blocked") : woken = {w}

notify_one ==
    /\ owner = "notify"
    /\ \E woken \in SUBSET At("blocked") :
          /\ Wakes(woken)
          /\ loc' = [w \in Worker |-> IF w \in woken THEN "awake" ELSE loc[w]]
    /\ owner' = "ready"
    /\ UNCHANGED <<task, tasks, stop, submitted, done>>

\* The futures of a batch: get() blocks until all are ready.
getFutures ==
    /\ owner = "ready"
    /\ submitted > 0
    /\ owner' = "get"
    /\ UNCHANGED <<threads, tasks, stop, submitted, done>>
gotAll ==
    /\ owner = "get"
    /\ 1 .. submitted \subseteq done
    /\ owner' = "ready"
    /\ UNCHANGED <<threads, tasks, stop, submitted, done>>

\* ~ThreadPool, also with tasks queued or running.
setStop ==
    /\ owner = "ready"
    /\ stop' = TRUE
    /\ owner' = "stopping"
    /\ UNCHANGED <<threads, tasks, submitted, done>>

WokenByStop(woken) == woken = At("blocked")

notify_all ==
    /\ owner = "stopping"
    /\ \E woken \in SUBSET At("blocked") :
          /\ WokenByStop(woken)
          /\ loc' = [w \in Worker |-> IF w \in woken THEN "awake" ELSE loc[w]]
    /\ owner' = "joining"
    /\ UNCHANGED <<task, tasks, stop, submitted, done>>

Joined == At("exited") = Worker

join ==
    /\ owner = "joining"
    /\ Joined
    /\ owner' = "destroyed"
    /\ UNCHANGED <<threads, tasks, stop, submitted, done>>

Owner == enqueue \/ notify_one \/ getFutures \/ gotAll \/ setStop \/ notify_all \/ join
WorkerStep(w) == acquire(w) \/ finish(w)

NextPool == Owner \/ \E w \in Worker : WorkerStep(w) \/ spuriousWakeup(w)

\* The threads are scheduled and every task ends; the owner goes on with what
\* it has begun, and nothing forces a spurious wakeup.
FairPool == /\ \A w \in Worker : WF_poolVars(WorkerStep(w))
            /\ WF_poolVars(notify_one) /\ WF_poolVars(gotAll)
            /\ WF_poolVars(notify_all) /\ WF_poolVars(join)

SpecPool == InitPool /\ [][NextPool]_poolVars /\ FairPool

-----------------------------------------------------------------------------

TypedPool == /\ loc \in [Worker -> {"awake", "blocked", "running", "exited"}]
             /\ task \in [Worker -> Task \cup {None}]
             /\ \A w \in Worker : task[w] # None <=> loc[w] = "running"
             /\ tasks \in Seq(Task)
             /\ stop \in BOOLEAN
             /\ submitted \in 0 .. NumTasks
             /\ done \subseteq 1 .. submitted
             /\ owner \in {"ready", "notify", "get", "stopping", "joining", "destroyed"}

(***************************************************************************)
(* No wakeup is lost, though notify_one comes after the mutex has been     *)
(* released: while a worker sleeps, there is for every queued task a       *)
(* worker that is awake, or a notification still to be sent.               *)
(***************************************************************************)
NoLostWakeup ==
    At("blocked") # {} =>
        Len(tasks) <= Cardinality(At("awake")) + (IF owner = "notify" THEN 1 ELSE 0)

(***************************************************************************)
(* After the destructor has notified, no worker sleeps again, so that      *)
(* joining them can end.                                                   *)
(***************************************************************************)
NoSleepAfterStop == owner \in {"joining", "destroyed"} => At("blocked") = {}

(***************************************************************************)
(* The destructor drains the queue: when it returns, every task that was   *)
(* ever enqueued has run and no thread is left.                            *)
(***************************************************************************)
Drained == owner = "destroyed" => done = 1 .. submitted /\ At("exited") = Worker

(***************************************************************************)
(* Every task enqueued runs to its end.                                    *)
(***************************************************************************)
EveryTaskRuns == \A t \in Task : submitted >= t ~> t \in done

(***************************************************************************)
(* The destructor returns.                                                 *)
(***************************************************************************)
Destroys == stop ~> owner = "destroyed"

Queue == INSTANCE TaskQueue WITH waiting <- tasks, running <- task, finished <- done

(***************************************************************************)
(* The pool is a task queue: tasks start once each, in order, under the    *)
(* fairness a user may count on.                                           *)
(***************************************************************************)
ImplementsQueue == Queue!Spec
=============================================================================
