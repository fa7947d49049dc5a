----------------------------- MODULE Batch_proofs -----------------------------
(***************************************************************************)
(* The batch of queries and the pool that runs it, for every number of     *)
(* threads, tasks, queries and vectors.  The pool loses no wakeup, drains  *)
(* its queue and implements TaskQueue; on top of a TaskQueue no cache is   *)
(* shared, every answer is right, and the batch returns only when its last *)
(* task has ended.                                                         *)
(***************************************************************************)
EXTENDS ThreadPool, HybridSearch, SequenceTheorems, FiniteSetTheorems, TLAPS

-----------------------------------------------------------------------------
\* The thread pool.

Submitted == 1 .. submitted
Stopped == {"stopping", "joining", "destroyed"}

\* TypeOK, with queued and running tasks among the submitted ones.
Typed == /\ loc \in [Worker -> {"awake", "blocked", "running", "exited"}]
         /\ task \in [Worker -> Submitted \cup {None}]
         /\ \A w \in Worker : task[w] # None <=> loc[w] = "running"
         /\ tasks \in Seq(Submitted)
         /\ submitted \in 0 .. NumTasks
         /\ done \subseteq Submitted
         /\ owner \in {"ready", "notify", "get"} \cup Stopped
         /\ stop \in BOOLEAN
         /\ stop <=> owner \in Stopped

\* Nothing is left to do once a worker has exited, and no one sleeps or has
\* anything left to do when the pool is destroyed.
ExitedInOrder == /\ NoSleepAfterStop
                 /\ \A w \in Worker : loc[w] = "exited" => owner \in Stopped /\ tasks = <<>>
                 /\ owner = "destroyed" => \A w \in Worker : loc[w] = "exited"

\* No task is dropped between the queue, the workers and the futures.
NoTaskDropped == \A t \in Submitted : \/ t \in done
                                      \/ \E k \in 1 .. Len(tasks) : tasks[k] = t
                                      \/ \E w \in Worker : task[w] = t

PoolInv == Typed /\ NoLostWakeup /\ ExitedInOrder /\ NoTaskDropped

-----------------------------------------------------------------------------
\* The sequences and the sets of workers.

\* A sequence of the first tasks is one of more tasks.
LEMMA SeqGrows ==
  ASSUME NEW m \in Nat, NEW n \in Nat, m <= n, NEW s \in Seq(1 .. m)
  PROVE  s \in Seq(1 .. n)
BY SeqMonotonic, 1 .. m \subseteq 1 .. n

\* The workers at a place are finitely many.
LEMMA LocCount ==
  ASSUME NEW l
  PROVE  /\ IsFiniteSet(At(l))
         /\ Cardinality(At(l)) \in Nat
<1>1. At(l) \in SUBSET Worker
  BY DEF At
<1>2. QED
  BY <1>1, WorkerAssumption, FS_Subset, FS_CardinalityType

-----------------------------------------------------------------------------
\* One lemma per part of the invariant.

\* The types hold at the start.
LEMMA TypedInit == InitPool => Typed
<1>. SUFFICES ASSUME InitPool PROVE Typed
  OBVIOUS
<1>1. tasks \in Seq(Submitted)
  BY EmptySeq DEF InitPool
<1>2. stop \in BOOLEAN /\ ~stop
  BY DEF InitPool
<1>3. QED
  BY <1>1, <1>2, NumTasksAssumption, NoneAssumption DEF InitPool, Typed, Submitted, Stopped

\* Every step keeps the types.
LEMMA TypedNext == Typed /\ [NextPool]_poolVars => Typed'
<1>. SUFFICES ASSUME Typed, [NextPool]_poolVars PROVE Typed'
  OBVIOUS
<1>. USE NumTasksAssumption, NoneAssumption
<1>1. ASSUME NEW w \in Worker, acquire(w) PROVE Typed'
  <2>. USE <1>1
  <2>1. CASE MayExit
    BY <2>1 DEF acquire, Typed, Submitted, Stopped
  <2>2. CASE ~MayExit /\ tasks = <<>>
    BY <2>2 DEF acquire, Typed, Submitted, Stopped
  <2>3. CASE ~MayExit /\ tasks # <<>>
    <3>1. Head(tasks) \in Submitted /\ Tail(tasks) \in Seq(Submitted)
      BY <2>3, HeadTailProperties DEF Typed
    <3>2. Head(tasks) # None
      BY <3>1 DEF Submitted
    <3>3. /\ loc' = [loc EXCEPT ![w] = "running"]
          /\ task' = [task EXCEPT ![w] = Head(tasks)]
          /\ tasks' = Tail(tasks)
          /\ UNCHANGED <<stop, submitted, done, owner>>
      BY <2>3 DEF acquire, Rest
    <3>. HIDE <1>1
    <3>4. QED
      BY <3>1, <3>2, <3>3 DEF Typed, Submitted, Stopped
  <2>4. QED
    BY <2>1, <2>2, <2>3
<1>2. ASSUME NEW w \in Worker, finish(w) PROVE Typed'
  BY <1>2 DEF finish, Typed, Submitted, Stopped
<1>3. ASSUME NEW w \in Worker, spuriousWakeup(w) PROVE Typed'
  BY <1>3 DEF spuriousWakeup, Typed, Submitted, Stopped
<1>4. CASE enqueue
  <2>1. submitted \in Nat /\ submitted + 1 \in Nat /\ submitted' = submitted + 1
    BY <1>4 DEF enqueue, Typed
  <2>2. tasks \in Seq(Submitted')
    BY <2>1, SeqGrows DEF Typed, Submitted
  <2>3. tasks' \in Seq(Submitted')
    BY <1>4, <2>1, <2>2, AppendProperties DEF enqueue, Submitted
  <2>4. QED
    BY <1>4, <2>1, <2>3 DEF enqueue, threads, Typed, Submitted, Stopped
<1>5. CASE notify_one
  <2>1. PICK woken \in SUBSET At("blocked") :
           loc' = [w \in Worker |-> IF w \in woken THEN "awake" ELSE loc[w]]
    BY <1>5 DEF notify_one
  <2>2. QED
    BY <1>5, <2>1 DEF notify_one, At, Typed, Submitted, Stopped
<1>6. CASE notify_all
  <2>1. PICK woken \in SUBSET At("blocked") :
           loc' = [w \in Worker |-> IF w \in woken THEN "awake" ELSE loc[w]]
    BY <1>6 DEF notify_all
  <2>2. QED
    BY <1>6, <2>1 DEF notify_all, At, Typed, Submitted, Stopped
<1>7. CASE getFutures \/ gotAll \/ join
  <2>1. UNCHANGED <<loc, task, tasks, submitted, done, stop>>
    BY <1>7 DEF getFutures, gotAll, join, threads
  <2>2. /\ owner' \in {"ready", "notify", "get"} \cup Stopped
        /\ owner \in Stopped <=> owner' \in Stopped
    BY <1>7 DEF getFutures, gotAll, join, Stopped
  <2>. HIDE <1>7
  <2>3. QED
    BY <2>1, <2>2 DEF Typed, Submitted, Stopped
<1>8. CASE setStop
  <2>1. stop' /\ owner' = "stopping"
    BY <1>8 DEF setStop
  <2>2. UNCHANGED <<loc, task, tasks, submitted, done>>
    BY <1>8 DEF setStop, threads
  <2>. HIDE <1>8
  <2>3. QED
    BY <2>1, <2>2 DEF Typed, Submitted, Stopped
<1>9. CASE UNCHANGED poolVars
  BY <1>9 DEF poolVars, Typed, Submitted, Stopped
<1>10. QED
  BY <1>1, <1>2, <1>3, <1>4, <1>5, <1>6, <1>7, <1>8, <1>9 DEF NextPool, Owner, WorkerStep

\* No step lets a worker exit before the stop flag or with tasks queued.
LEMMA ExitedNext == Typed /\ ExitedInOrder /\ [NextPool]_poolVars => ExitedInOrder'
<1>. SUFFICES ASSUME Typed, ExitedInOrder, [NextPool]_poolVars PROVE ExitedInOrder'
  OBVIOUS
<1>. USE DEF ExitedInOrder, NoSleepAfterStop, At, Stopped
<1>1. ASSUME NEW w \in Worker, acquire(w) PROVE ExitedInOrder'
  <2>. USE <1>1
  <2>1. CASE MayExit
    BY <2>1 DEF acquire, MayExit, Typed
  <2>2. CASE ~MayExit /\ tasks = <<>>
    BY <2>2 DEF acquire, MayExit, Typed
  <2>3. CASE ~MayExit /\ tasks # <<>>
    <3>1. \A v \in Worker : loc[v] # "exited"
      BY <2>3
    <3>2. owner # "destroyed" /\ owner' = owner
      BY <1>1, <3>1 DEF acquire
    <3>3. loc' = [loc EXCEPT ![w] = "running"]
      BY <2>3 DEF acquire
    <3>. HIDE <1>1
    <3>4. QED
      BY <3>1, <3>2, <3>3 DEF Typed
  <2>4. QED
    BY <2>1, <2>2, <2>3
<1>2. ASSUME NEW w \in Worker, finish(w) PROVE ExitedInOrder'
  BY <1>2 DEF finish, Typed
<1>3. ASSUME NEW w \in Worker, spuriousWakeup(w) PROVE ExitedInOrder'
  BY <1>3 DEF spuriousWakeup, Typed
<1>4. CASE enqueue
  <2>1. \A v \in Worker : loc[v] # "exited"
    BY <1>4 DEF enqueue
  <2>2. QED
    BY <1>4, <2>1 DEF enqueue, threads
<1>5. CASE notify_one
  <2>1. PICK woken \in SUBSET At("blocked") :
           loc' = [w \in Worker |-> IF w \in woken THEN "awake" ELSE loc[w]]
    BY <1>5 DEF notify_one
  <2>2. QED
    BY <1>5, <2>1 DEF notify_one, Typed
<1>6. CASE notify_all
  <2>1. PICK woken \in SUBSET At("blocked") :
           /\ woken = At("blocked")
           /\ loc' = [w \in Worker |-> IF w \in woken THEN "awake" ELSE loc[w]]
    BY <1>6 DEF notify_all, WokenByStop
  <2>2. QED
    BY <1>6, <2>1 DEF notify_all, Typed
<1>7. CASE getFutures \/ gotAll \/ setStop
  BY <1>7 DEF getFutures, gotAll, setStop, threads
<1>8. CASE join
  BY <1>8 DEF join, Joined, threads
<1>9. CASE UNCHANGED poolVars
  BY <1>9 DEF poolVars
<1>10. QED
  BY <1>1, <1>2, <1>3, <1>4, <1>5, <1>6, <1>7, <1>8, <1>9 DEF NextPool, Owner, WorkerStep

\* No step loses a submitted task.
LEMMA DroppedNext == Typed /\ NoTaskDropped /\ [NextPool]_poolVars => NoTaskDropped'
<1>. SUFFICES ASSUME Typed, NoTaskDropped, [NextPool]_poolVars PROVE NoTaskDropped'
  OBVIOUS
<1>1. CASE UNCHANGED <<task, tasks, submitted, done>>
  BY <1>1 DEF NoTaskDropped, Submitted
<1>2. ASSUME NEW w \in Worker, acquire(w), ~MayExit, tasks # <<>> PROVE NoTaskDropped'
  <2>1. /\ task' = [task EXCEPT ![w] = Head(tasks)] /\ tasks' = Tail(tasks)
        /\ UNCHANGED <<submitted, done>> /\ task[w] = None
    BY <1>2 DEF acquire, Rest, Typed
  <2>2. /\ Len(tasks) \in Nat \ {0} /\ Len(tasks') = Len(tasks) - 1
        /\ \A k \in 1 .. Len(tasks') : tasks'[k] = tasks[k + 1]
        /\ Head(tasks) = tasks[1]
    BY <1>2, <2>1, HeadTailProperties, EmptySeq DEF Typed
  <2>3. SUFFICES ASSUME NEW t \in Submitted, t \notin done
                 PROVE  \/ \E k \in 1 .. Len(tasks') : tasks'[k] = t
                        \/ \E v \in Worker : task'[v] = t
    BY <2>1 DEF NoTaskDropped, Submitted
  <2>4. CASE \E k \in 1 .. Len(tasks) : tasks[k] = t
    <3>1. PICK k \in 1 .. Len(tasks) : tasks[k] = t
      BY <2>4
    <3>2. CASE k = 1
      <4>1. task'[w] = t
        BY <2>1, <2>2, <3>1, <3>2 DEF Typed
      <4>2. QED
        BY <4>1
    <3>3. CASE k # 1
      <4>1. k - 1 \in 1 .. Len(tasks') /\ tasks'[k - 1] = t
        BY <2>2, <3>1, <3>3
      <4>2. QED
        BY <4>1
    <3>4. QED
      BY <3>2, <3>3
  <2>5. CASE \E v \in Worker : task[v] = t
    <3>1. PICK v \in Worker : task[v] = t
      BY <2>5
    <3>2. t # None
      BY NoneAssumption DEF Submitted
    <3>3. task'[v] = t
      BY <2>1, <3>1, <3>2 DEF Typed
    <3>4. QED
      BY <3>3
  <2>6. QED
    BY <2>3, <2>4, <2>5 DEF NoTaskDropped
<1>3. ASSUME NEW w \in Worker, finish(w) PROVE NoTaskDropped'
  BY <1>3 DEF finish, Typed, NoTaskDropped, Submitted
<1>4. CASE enqueue
  <2>1. /\ submitted \in Nat /\ submitted' = submitted + 1
        /\ tasks' = Append(tasks, submitted + 1)
        /\ UNCHANGED <<task, done>>
    BY <1>4, NumTasksAssumption DEF enqueue, threads, Typed
  <2>2. tasks \in Seq(1 .. submitted + 1)
    BY <2>1, SeqGrows DEF Typed, Submitted
  <2>3. /\ Len(tasks) \in Nat /\ Len(tasks') = Len(tasks) + 1
        /\ \A k \in 1 .. Len(tasks) : tasks'[k] = tasks[k]
        /\ tasks'[Len(tasks) + 1] = submitted + 1
    BY <2>1, <2>2, AppendProperties, LenProperties
  <2>4. \E k \in 1 .. Len(tasks') : tasks'[k] = submitted'
    BY <2>1, <2>3
  <2>5. \A t \in Submitted : (\E k \in 1 .. Len(tasks) : tasks[k] = t)
                            => \E k \in 1 .. Len(tasks') : tasks'[k] = t
    BY <2>3
  <2>6. \A t \in 1 .. submitted' : t \in Submitted \/ t = submitted'
    BY <2>1 DEF Submitted
  <2>7. QED
    BY <2>1, <2>4, <2>5, <2>6 DEF NoTaskDropped, Submitted
<1>5. QED
  BY <1>1, <1>2, <1>3, <1>4
  DEF NextPool, Owner, WorkerStep, acquire, spuriousWakeup, notify_one, getFutures, gotAll, setStop,
      notify_all, join, threads, poolVars

\* Every step keeps waiting tasks balanced by awake workers and due notifications.
LEMMA WakeupNext == Typed /\ NoLostWakeup /\ [NextPool]_poolVars => NoLostWakeup'
<1>. SUFFICES ASSUME Typed, NoLostWakeup, [NextPool]_poolVars PROVE NoLostWakeup'
  OBVIOUS
<1>. DEFINE awake == At("awake")
            blocked == At("blocked")
            pending == IF owner = "notify" THEN 1 ELSE 0
<1>1. /\ IsFiniteSet(awake) /\ Cardinality(awake) \in Nat
      /\ Len(tasks) \in Nat
      /\ blocked # {} => Len(tasks) <= Cardinality(awake) + pending
  BY LocCount, LenProperties DEF Typed, NoLostWakeup
<1>2. IsFiniteSet(awake') /\ Cardinality(awake') \in Nat
  <2>1. awake' \in SUBSET Worker
    BY DEF At
  <2>2. QED
    BY <2>1, WorkerAssumption, FS_Subset, FS_CardinalityType
\* It is enough that the queue grows no faster than the workers and notifications.
<1>3. ASSUME blocked' # {} => \/ Len(tasks') = 0
                             \/ /\ blocked # {}
                                /\ Len(tasks') \in Nat
                                /\ Len(tasks') - Len(tasks) <=
                                     Cardinality(awake') + pending' - Cardinality(awake) - pending
      PROVE  NoLostWakeup'
  <2>1. SUFFICES ASSUME blocked' # {} PROVE Len(tasks') <= Cardinality(awake') + pending'
    BY DEF NoLostWakeup
  <2>2. pending \in {0, 1} /\ pending' \in {0, 1}
    OBVIOUS
  <2>. HIDE DEF awake, blocked, pending
  <2>3. CASE Len(tasks') = 0
    BY <1>2, <2>2, <2>3
  <2>4. CASE ~(Len(tasks') = 0)
    <3>1. /\ blocked # {} /\ Len(tasks') \in Nat
          /\ Len(tasks') - Len(tasks) <=
               Cardinality(awake') + pending' - Cardinality(awake) - pending
      BY <1>3, <2>1, <2>4
    <3>2. Len(tasks) <= Cardinality(awake) + pending
      BY <1>1, <3>1
    <3>3. QED
      BY <1>1, <1>2, <2>2, <3>1, <3>2
  <2>5. QED
    BY <2>3, <2>4
<1>4. ASSUME NEW w \in Worker, acquire(w) PROVE NoLostWakeup'
  <2>1. CASE tasks = <<>>
    <3>1. Len(tasks') = 0
      BY <1>4, <2>1, EmptySeq DEF acquire
    <3>2. QED
      BY <1>3, <3>1
  <2>2. CASE tasks # <<>>
    <3>1. /\ loc[w] = "awake" /\ loc' = [loc EXCEPT ![w] = "running"]
          /\ tasks' = Tail(tasks) /\ owner' = owner
      BY <1>4, <2>2 DEF acquire, MayExit, Rest
    <3>2. Len(tasks') = Len(tasks) - 1 /\ Len(tasks') \in Nat
      BY <2>2, <3>1, HeadTailProperties, LenProperties DEF Typed
    <3>3. awake' = awake \ {w} /\ w \in awake /\ blocked' = blocked
      BY <3>1 DEF At, Typed
    <3>4. Cardinality(awake') = Cardinality(awake) - 1
      BY <1>1, <3>3, FS_RemoveElement
    <3>5. pending' = pending /\ pending \in {0, 1}
      BY <3>1
    <3>. HIDE DEF awake, blocked, pending
    <3>6. QED
      BY <1>1, <1>3, <3>2, <3>3, <3>4, <3>5
  <2>3. QED
    BY <2>1, <2>2
\* A worker that wakes up adds one.
<1>5. ASSUME NEW w \in Worker, loc' = [loc EXCEPT ![w] = "awake"], loc[w] # "awake",
             tasks' = tasks
      PROVE  /\ Cardinality(awake') = Cardinality(awake) + 1
             /\ blocked' \subseteq blocked
  <2>1. awake' = awake \cup {w} /\ w \notin awake /\ blocked' \subseteq blocked
    BY <1>5 DEF At, Typed
  <2>2. QED
    BY <1>1, <2>1, FS_AddElement
<1>6. ASSUME NEW w \in Worker, finish(w) \/ spuriousWakeup(w) PROVE NoLostWakeup'
  <2>1. /\ loc' = [loc EXCEPT ![w] = "awake"] /\ loc[w] # "awake"
        /\ tasks' = tasks /\ owner' = owner
    BY <1>6 DEF finish, spuriousWakeup
  <2>2. Cardinality(awake') = Cardinality(awake) + 1 /\ blocked' \subseteq blocked
    BY <1>5, <2>1
  <2>3. pending' = pending /\ pending \in {0, 1} /\ tasks' = tasks
    BY <2>1
  <2>. HIDE DEF awake, blocked, pending
  <2>4. QED
    BY <1>1, <1>3, <2>2, <2>3
<1>7. CASE enqueue
  <2>1. /\ loc' = loc /\ owner = "ready" /\ owner' = "notify"
        /\ tasks' = Append(tasks, submitted + 1) /\ submitted \in Nat
    BY <1>7, NumTasksAssumption DEF enqueue, threads, Typed
  <2>2. Len(tasks') = Len(tasks) + 1
    <3>1. tasks \in Seq(1 .. submitted + 1)
      BY <2>1, SeqGrows DEF Typed, Submitted
    <3>2. QED
      BY <2>1, <3>1, AppendProperties
  <2>3. awake' = awake /\ blocked' = blocked /\ pending' = 1 /\ pending = 0
    BY <2>1 DEF At
  <2>. HIDE DEF awake, blocked, pending
  <2>4. QED
    BY <1>1, <1>3, <2>2, <2>3
<1>8. CASE notify_one
  <2>1. PICK woken \in SUBSET blocked :
           /\ Wakes(woken)
           /\ loc' = [v \in Worker |-> IF v \in woken THEN "awake" ELSE loc[v]]
    BY <1>8 DEF notify_one
  <2>2. tasks' = tasks /\ pending = 1 /\ pending' = 0
    BY <1>8 DEF notify_one
  <2>3. CASE blocked = {}
    <3>1. blocked' = {}
      BY <2>1, <2>3 DEF At, Typed
    <3>2. QED
      BY <1>3, <3>1
  <2>4. CASE blocked # {}
    <3>1. PICK w \in blocked : woken = {w}
      BY <2>1, <2>4 DEF Wakes
    <3>2. w \in Worker /\ loc[w] # "awake" /\ loc' = [loc EXCEPT ![w] = "awake"]
      BY <2>1, <3>1 DEF At, Typed
    <3>3. Cardinality(awake') = Cardinality(awake) + 1
      BY <1>5, <2>2, <3>2
    <3>. HIDE DEF awake, blocked, pending
    <3>4. QED
      BY <1>1, <1>3, <2>2, <2>4, <3>3
  <2>5. QED
    BY <2>3, <2>4
<1>9. CASE notify_all
  <2>1. blocked' = {}
    BY <1>9 DEF notify_all, WokenByStop, At, Typed
  <2>2. QED
    BY <1>3, <2>1
<1>10. CASE getFutures \/ gotAll \/ setStop \/ join \/ UNCHANGED poolVars
  <2>1. loc' = loc /\ tasks' = tasks /\ pending' = pending
    BY <1>10 DEF getFutures, gotAll, setStop, join, threads, poolVars
  <2>2. awake' = awake /\ blocked' = blocked /\ pending \in {0, 1}
    BY <2>1 DEF At
  <2>. HIDE DEF awake, blocked, pending
  <2>3. QED
    BY <1>1, <1>3, <2>1, <2>2
<1>11. QED
  BY <1>4, <1>6, <1>7, <1>8, <1>9, <1>10 DEF NextPool, Owner, WorkerStep

-----------------------------------------------------------------------------
\* The results.

\* The inductive invariant holds at the start.
LEMMA InvariantInit == InitPool => PoolInv
<1>. SUFFICES ASSUME InitPool PROVE PoolInv
  OBVIOUS
<1>1. Len(tasks) = 0 /\ At("blocked") = {}
  BY DEF InitPool, At
<1>2. QED
  BY <1>1, TypedInit
  DEF PoolInv, InitPool, NoLostWakeup, ExitedInOrder, NoSleepAfterStop, NoTaskDropped, Submitted, Stopped

(***************************************************************************)
(* IInv holds in every reachable state of worker loop, enqueue and         *)
(* destructor (ThreadPool.h, lines 39-112).                                *)
(***************************************************************************)
THEOREM PoolInvariance == SpecPool => []PoolInv
<1>1. PoolInv /\ [NextPool]_poolVars => PoolInv'
  BY TypedNext, WakeupNext, ExitedNext, DroppedNext DEF PoolInv
<1>2. QED
  BY InvariantInit, <1>1, PTL DEF SpecPool

(***************************************************************************)
(* Types, and that a future is ready only for a task that was enqueued.    *)
(***************************************************************************)
THEOREM TypeCorrect == SpecPool => []TypedPool
<1>1. PoolInv => TypedPool
  <2>. SUFFICES ASSUME Typed PROVE TypedPool
    BY DEF PoolInv
  <2>1. submitted \in Nat /\ submitted <= NumTasks
    BY NumTasksAssumption DEF Typed
  <2>2. tasks \in Seq(Task) /\ Submitted \subseteq Task
    BY <2>1, SeqGrows, NumTasksAssumption DEF Typed, Submitted, Task
  <2>3. QED
    BY <2>2 DEF Typed, TypedPool, Submitted, Stopped
<1>2. QED
  BY PoolInvariance, <1>1, PTL

(***************************************************************************)
(* notify_one after the release of the mutex loses no wakeup               *)
(* (ThreadPool.h, lines 51-52 and 88-95).                                  *)
(***************************************************************************)
THEOREM LosesNoWakeup == SpecPool => []NoLostWakeup
<1>1. PoolInv => NoLostWakeup
  BY DEF PoolInv
<1>2. QED
  BY PoolInvariance, <1>1, PTL

(***************************************************************************)
(* No worker can sleep through the destructor's join (lines 100-112).      *)
(***************************************************************************)
THEOREM StopsAll == SpecPool => []NoSleepAfterStop
<1>1. PoolInv => NoSleepAfterStop
  BY DEF PoolInv, ExitedInOrder
<1>2. QED
  BY PoolInvariance, <1>1, PTL

(***************************************************************************)
(* A destroyed pool has run every task it was given: the workers leave     *)
(* only on an empty queue (lines 55-56).                                   *)
(***************************************************************************)
THEOREM DrainsQueue == SpecPool => []Drained
<1>1. PoolInv => Drained
  <2>. SUFFICES ASSUME PoolInv, owner = "destroyed" PROVE done = 1 .. submitted /\ At("exited") = Worker
    BY DEF Drained
  <2>1. \A w \in Worker : loc[w] = "exited" /\ task[w] = None
    BY DEF PoolInv, ExitedInOrder, Typed
  <2>2. tasks = <<>>
    BY <2>1, WorkerAssumption DEF PoolInv, ExitedInOrder
  <2>3. Submitted \subseteq done
    <3>1. ~(\E k \in 1 .. Len(tasks) : TRUE)
      BY <2>2
    <3>2. ~(\E w \in Worker : task[w] \in Submitted)
      BY <2>1, NoneAssumption DEF Submitted
    <3>3. QED
      BY <3>1, <3>2 DEF PoolInv, NoTaskDropped
  <2>4. QED
    BY <2>1, <2>3 DEF PoolInv, Typed, Submitted, At
<1>2. QED
  BY PoolInvariance, <1>1, PTL

(***************************************************************************)
(* The pool implements the safety of the task queue that HybridSearch      *)
(* counts on: a worker takes the oldest task, and takes it once.           *)
(***************************************************************************)
THEOREM Refinement == SpecPool => Queue!Init /\ [][Queue!Next]_(Queue!vars)
<1>1. InitPool => Queue!Init
  BY DEF InitPool, Queue!Init
<1>2. PoolInv /\ [NextPool]_poolVars => [Queue!Next]_(Queue!vars)
  <2>. SUFFICES ASSUME Typed, [NextPool]_poolVars, ~(UNCHANGED Queue!vars) PROVE Queue!Next
    BY DEF PoolInv
  <2>. USE DEF Queue!vars
  <2>1. ASSUME NEW w \in Worker, acquire(w) PROVE Queue!Start(w)
    BY <2>1 DEF acquire, MayExit, Rest, Typed, Queue!Start
  <2>2. ASSUME NEW w \in Worker, finish(w) PROVE Queue!Finish(w)
    BY <2>2 DEF finish, Typed, Queue!Finish
  <2>3. ASSUME enqueue PROVE submitted + 1 \in Task /\ Queue!Submit(submitted + 1)
    <3>1. /\ submitted \in Nat /\ submitted < NumTasks
          /\ tasks' = Append(tasks, submitted + 1) /\ UNCHANGED <<task, done>>
      BY <2>3, NumTasksAssumption DEF enqueue, threads, Typed
    <3>2. submitted + 1 \in Task /\ submitted + 1 \notin Submitted /\ submitted + 1 # None
      BY <3>1, NumTasksAssumption, NoneAssumption DEF Task, Submitted
    <3>3. \A k \in DOMAIN tasks : tasks[k] \in Submitted
      BY ElementOfSeq, LenProperties DEF Typed
    <3>4. ~Queue!Known(submitted + 1)
      BY <3>2, <3>3 DEF Queue!Known, Typed
    <3>5. QED
      BY <3>1, <3>2, <3>4 DEF Queue!Submit
  <2>4. ASSUME NEW w \in Worker, spuriousWakeup(w) PROVE FALSE
    BY <2>4 DEF spuriousWakeup
  <2>5. ASSUME notify_one \/ getFutures \/ gotAll \/ setStop \/ notify_all \/ join \/ UNCHANGED poolVars
        PROVE  FALSE
    BY <2>5 DEF notify_one, getFutures, gotAll, setStop, notify_all, join, threads, poolVars
  <2>6. QED
    BY <2>1, <2>2, <2>3, <2>4, <2>5 DEF NextPool, Owner, WorkerStep, Queue!Next
<1>3. QED
  BY PoolInvariance, <1>1, <1>2, PTL DEF SpecPool

-----------------------------------------------------------------------------
\* The batch, on the task queue that the pool implements.

Stage == {"start", "decide", "search", "scan", "finalize", "release", "end"}

\* The inputs are one of the instances and stay so.
Inputs == \E i \in Instances : Given(i)

BatchTyped == /\ main \in {"predict", "submit", "get", "returned", "thrown"}
              /\ futures \in Seq(queries)
              /\ got \in 0 .. Len(futures)
              /\ thrown \subseteq queries

TaskTyped == /\ step \in [queries -> Stage]
             /\ choice \in [queries -> Algorithm \cup {None}]
             /\ found \in [queries -> SUBSET Pair]
             /\ pos \in [queries -> Nat]
             /\ results \in [queries -> SUBSET Pair]

CacheTyped == /\ created \in Nat
              /\ cacheOf \in [queries -> (1 .. created) \cup {None}]
              /\ caches \in Seq(1 .. created)

PoolTyped == /\ waiting \in Seq(queries)
             /\ running \in [Worker -> queries \cup {None}]
             /\ finished \subseteq queries

\* A task is waiting once, run by one worker, or finished.
InOnePlace ==
  /\ \A j, k \in DOMAIN waiting : j # k => waiting[j] # waiting[k]
  /\ \A k \in DOMAIN waiting : /\ waiting[k] \notin finished
                               /\ \A w \in Worker : waiting[k] # running[w]
  /\ \A w \in Worker : running[w] # None =>
        /\ running[w] \notin finished
        /\ \A x \in Worker \ {w} : running[w] # running[x]

\* Nothing runs before the prediction; what is finished or has thrown has
\* come to its end.
InStep ==
  /\ main = "predict" => /\ waiting = <<>>
                         /\ \A w \in Worker : running[w] = None
                         /\ \A q \in queries : step[q] = "start"
  /\ \A q \in finished \cup thrown : step[q] = "end"

\* The futures read are those of tasks that ended without an exception.
Read ==
  /\ main \in {"predict", "submit"} => got = 0
  /\ main \in {"get", "returned"} =>
        /\ Left = {}
        /\ \A k \in 1 .. got : futures[k] \in finished \ thrown
  /\ main = "returned" => got = Len(futures)

\* Every cache is in the pool, in the hands of one task, or kept by a task that
\* returned early.
CacheInv ==
  /\ \A p, q \in queries : p # q /\ cacheOf[p] # None => cacheOf[p] # cacheOf[q]
  /\ \A j, k \in DOMAIN caches : j # k => caches[j] # caches[k]
  /\ \A k \in DOMAIN caches : \A q \in queries : caches[k] # cacheOf[q]
  /\ \A q \in queries : step[q] \in Stage \ {"start", "end"} => cacheOf[q] # None

(***************************************************************************)
(* The search of one query.  The operators name the values they speak of,  *)
(* so that they can be said of a state and of the next one.                *)
(***************************************************************************)

\* The heap H holds, of the vectors of m before n, as many as it can, and
\* without RabitQ the closest.
Kept(m, n, H) ==
  /\ IsFiniteSet(H) /\ Cardinality(H) <= K
  /\ \A p \in H : p \in Pair /\ p.id \in m /\ p.id < n
  /\ \A p, t \in H : p.id = t.id => p = t
  /\ Cardinality(H) = K \/ \A v \in m : v < n => \E p \in H : p.id = v
  /\ ~rabitq => /\ \A p \in H : p.distance = dist[newToOld[p.id]]
                /\ \A v \in m : v < n =>
                     \/ \E p \in H : p.id = v
                     \/ \A p \in H : p.distance <= dist[newToOld[v]]

\* A pair found by another search than the pre-filter is an answer.
Sound(q, c, p) ==
  LET o == OldId(c, p.id)
  IN  /\ queryLabels[q] \subseteq vecLabels[o]
      /\ p.distance = dist[o] \/ (rabitq /\ c \notin {"favor", "favor_hnsw"})

\* What algorithm c has found for q, H, can be written to its slots.
Ready(q, c, H) ==
  IF c = "prefilter"
  THEN \/ Mask(q) = {} /\ H = {ZeroPair}
       \/ Mask(q) # {} /\ \A m \in Mask(q) : Kept(m, NumPoints, H)
  ELSE \A p \in H : Sound(q, c, p)

\* AnswersQualify of one query, with the answer R.
Right(q, c, R) ==
  \A r \in R :
     \/ /\ queryLabels[q] \subseteq vecLabels[r.id]
        /\ \/ r.distance = dist[r.id]
           \/ rabitq /\ c \notin {"favor", "favor_hnsw"}
     \/ /\ ~KnownLabels(q) /\ c = "prefilter"
        /\ \/ mode = "ALPS+" /\ queryLabels[q] \cap Known \subseteq vecLabels[r.id]
           \/ mode # "TFNG" /\ r = [id |-> newToOld[0], distance |-> 0]

\* PrefilterExact of one query whose labels are known or count for nothing.
Full(q, R) ==
  LET ids == {r.id : r \in R}
      sought == {v \in Vec : queryLabels[q] \subseteq vecLabels[v]}
  IN  /\ ids \subseteq sought
      /\ Cardinality(ids) = K \/ ids = sought
      /\ Cardinality(ids) <= K
      /\ rabitq \/ \A r \in R : \A v \in sought \ ids : r.distance <= dist[v]

Exact(q, c, R) == (KnownLabels(q) \/ mode = "TFNG") /\ c = "prefilter" => Full(q, R)

\* A task at step s with choice c, heap H, scan at n and answer R.
Answer(q, s, c, H, n, R) ==
  /\ s \in {"start", "decide", "search"} => H = {} /\ n = 0
  /\ s \notin {"release", "end"} => R = {}
  /\ s = "scan" => /\ c = "prefilter" /\ Mask(q) # {} /\ n \in Vec
                   /\ \A m \in Mask(q) : Kept(m, n, H)
  /\ s = "finalize" => Ready(q, c, H)
  /\ Right(q, c, R)
  /\ s \in {"release", "end"} => Exact(q, c, R)

AnswerInv ==
  \A q \in queries : Answer(q, step[q], choice[q], found[q], pos[q], results[q])

IInv == /\ Inputs /\ BatchTyped /\ TaskTyped /\ CacheTyped /\ PoolTyped
        /\ InOnePlace /\ InStep /\ Read /\ CacheInv
        /\ AnswerInv

-----------------------------------------------------------------------------
\* What the inputs are.

\* What every proof needs of the fixed inputs of a batch.
LEMMA InputFacts ==
  ASSUME Inputs
  PROVE  /\ queries \subseteq Nat /\ None \notin Nat /\ None \notin queries
         /\ workers \subseteq Worker /\ IsFiniteSet(workers)
         /\ mode \in {"TFNG", "ALPS", "ALPS+", "ALPS-fixed"}
         /\ target \in {"favor", "favor_hnsw"}
         /\ baseline \in Algorithm
         /\ preset \in [queries -> Algorithm \cup {None}]
<1>1. PICK i \in Instances : Given(i)
  BY DEF Inputs
<1>2. /\ queries \subseteq Nat /\ None \notin Nat
      /\ workers \subseteq Worker /\ IsFiniteSet(workers)
      /\ mode \in {"TFNG", "ALPS", "ALPS+", "ALPS-fixed"}
      /\ target \in {"favor", "favor_hnsw"}
  BY <1>1, ParameterAssumption, NoneAssumption DEF Given
<1>3. baseline \in Algorithm
  BY <1>1, ParameterAssumption, NoneAssumption DEF Given, Algorithm
<1>4. preset \in [queries -> Algorithm \cup {None}]
  <2>1. CASE mode \in {"ALPS", "ALPS+"}
    BY <1>1, <2>1, ParameterAssumption, NoneAssumption DEF Given
  <2>2. CASE mode \notin {"ALPS", "ALPS+"}
    BY <1>1, <2>2 DEF Given
  <2>3. QED
    BY <2>1, <2>2
<1>5. QED
  BY <1>2, <1>3, <1>4

\* The same for the vectors, their distances and their ids.
LEMMA VectorFacts ==
  ASSUME Inputs
  PROVE  /\ NumPoints \in Nat \ {0} /\ Vec = 0 .. NumPoints - 1
         /\ 0 \in Vec /\ Vec \subseteq Nat /\ IsFiniteSet(Vec)
         /\ Distance \subseteq Nat
         /\ dist \in [Vec -> Distance]
         /\ newToOld \in [Vec -> Vec]
         /\ \A u, v \in Vec : newToOld[u] = newToOld[v] => u = v
         /\ \A o \in Vec : \E v \in Vec : newToOld[v] = o
         /\ external \in [Vec -> Vec]
<1>1. PICK i \in Instances : Given(i)
  BY DEF Inputs
<1> DEFINE n == i.numPoints
<1>2. n \in Nat \ {0} /\ i.distances \subseteq Distance /\ Distance \subseteq Nat
      /\ i.newToOlds \cup i.externals \subseteq Bijection(0 .. n - 1, 0 .. n - 1)
  BY <1>1, ParameterAssumption
<1>3. Vec = 0 .. n - 1
  BY <1>1 DEF Given, Vec
<1>4. IsFiniteSet(Vec) /\ NumPoints = n
  BY <1>2, <1>3, FS_Interval DEF NumPoints
<1>5. dist \in [Vec -> Distance]
  BY <1>1, <1>2, <1>3 DEF Given
<1>6. newToOld \in Bijection(Vec, Vec) /\ external \in Bijection(Vec, Vec)
  BY <1>1, <1>2, <1>3 DEF Given
<1>7. /\ newToOld \in [Vec -> Vec]
      /\ \A u, v \in Vec : newToOld[u] = newToOld[v] => u = v
      /\ \A o \in Vec : \E v \in Vec : newToOld[v] = o
      /\ external \in [Vec -> Vec]
  BY <1>6 DEF Bijection, Injection, Surjection, IsInjective
<1>8. 0 \in Vec /\ Vec \subseteq Nat
  BY <1>2, <1>3
<1>9. QED
  BY <1>2, <1>3, <1>4, <1>5, <1>7, <1>8

\* The inputs do not change.
LEMMA InputsStay ==
  ASSUME [Next]_vars
  PROVE  /\ queries' = queries /\ workers' = workers /\ mode' = mode /\ baseline' = baseline
         /\ preset' = preset /\ queryLabels' = queryLabels /\ target' = target
         /\ favorReady' = favorReady /\ vecLabels' = vecLabels /\ newToOld' = newToOld
         /\ dist' = dist /\ rabitq' = rabitq /\ external' = external
<1>1. CASE UNCHANGED vars
  BY <1>1 DEF vars, input, index
<1>2. CASE Main
  BY <1>2 DEF Main, predict, submit, allSubmitted, get, return, input, index
<1>3. ASSUME NEW w \in Worker, takeTask(w) \/ endTask(w) PROVE UNCHANGED input
  BY <1>3 DEF takeTask, endTask
<1>4. ASSUME NEW w \in Worker, runTask(w) PROVE UNCHANGED input
  BY <1>4 DEF runTask, getCache, decide, search, scanNext, finalize, release
<1>5. QED
  BY <1>1, <1>2, <1>3, <1>4 DEF Next, input, index

\* The inputs of a batch are typed from the start.
LEMMA InputsInit == Init => Inputs
BY DEF Init, Inputs

\* No step changes the inputs.
LEMMA InputsNext == ASSUME Inputs, [Next]_vars PROVE Inputs'
BY InputsStay DEF Inputs, Given

-----------------------------------------------------------------------------
\* The pool.

\* At the start no task is submitted and every worker is idle.
LEMMA PoolInit == Init => PoolTyped /\ InOnePlace
<1> SUFFICES ASSUME Init PROVE PoolTyped /\ InOnePlace
  OBVIOUS
<1>1. waiting = <<>> /\ finished = {} /\ running = [w \in Worker |-> None]
  BY DEF Init, Pool!Init
<1>2. QED
  BY <1>1, EmptySeq DEF PoolTyped, InOnePlace

\* A task that is known to the pool is nowhere twice.
LEMMA SubmitPool ==
  ASSUME PoolTyped, InOnePlace, NEW q \in queries, Pool!Submit(q), queries' = queries
  PROVE  PoolTyped' /\ InOnePlace'
<1> USE DEF PoolTyped
<1>1. /\ waiting' \in Seq(queries) /\ Len(waiting') = Len(waiting) + 1
      /\ waiting'[Len(waiting) + 1] = q
      /\ \A k \in 1 .. Len(waiting) : waiting'[k] = waiting[k]
  BY AppendProperties DEF Pool!Submit
<1>2. Len(waiting) \in Nat /\ DOMAIN waiting = 1 .. Len(waiting) /\ DOMAIN waiting' = 1 .. Len(waiting) + 1
  BY <1>1, LenProperties
<1>3. \A k \in DOMAIN waiting' : k = Len(waiting) + 1 \/ k \in DOMAIN waiting
  BY <1>2
<1>4. /\ q \notin finished /\ \A k \in DOMAIN waiting : waiting[k] # q
      /\ \A w \in Worker : running[w] # q
  BY DEF Pool!Submit, Pool!Known
<1>5. running' = running /\ finished' = finished
  BY DEF Pool!Submit
<1>6. QED
  BY <1>1, <1>2, <1>3, <1>4, <1>5 DEF InOnePlace

\* A worker that takes the next task leaves every task in one place.
LEMMA StartPool ==
  ASSUME PoolTyped, InOnePlace, NEW w \in Worker, Pool!Start(w), queries' = queries
  PROVE  PoolTyped' /\ InOnePlace'
<1> USE DEF PoolTyped
<1>1. /\ waiting # <<>> /\ running' = [running EXCEPT ![w] = Head(waiting)] /\ finished' = finished
      /\ waiting' = Tail(waiting) /\ running[w] = None
  BY DEF Pool!Start
<1>2. /\ waiting' \in Seq(queries) /\ Len(waiting') = Len(waiting) - 1 /\ Len(waiting) \in Nat \ {0}
      /\ \A k \in 1 .. Len(waiting') : waiting'[k] = waiting[k + 1]
      /\ Head(waiting) = waiting[1] /\ waiting[1] \in queries
  BY <1>1, HeadTailProperties, EmptySeq, LenProperties
<1>3. DOMAIN waiting = 1 .. Len(waiting) /\ DOMAIN waiting' = 1 .. Len(waiting) - 1
  BY <1>2, LenProperties
<1>4. /\ 1 \in DOMAIN waiting
      /\ \A k \in DOMAIN waiting' : k + 1 \in DOMAIN waiting /\ k + 1 # 1 /\ waiting'[k] = waiting[k + 1]
      /\ \A j, k \in DOMAIN waiting' : j # k => j + 1 # k + 1
  BY <1>2, <1>3
<1>5. running' \in [Worker -> queries \cup {None}]
  BY <1>1, <1>2
<1>6. /\ running'[w] = waiting[1]
      /\ \A x \in Worker \ {w} : running'[x] = running[x]
  BY <1>1, <1>2
<1>7. PoolTyped'
  BY <1>1, <1>2, <1>5
<1>8. /\ \A j, k \in DOMAIN waiting' : j # k => waiting'[j] # waiting'[k]
      /\ \A k \in DOMAIN waiting' : waiting'[k] \notin finished'
  BY <1>1, <1>4 DEF InOnePlace
<1>9. \A k \in DOMAIN waiting' : \A x \in Worker : waiting'[k] # running'[x]
  BY <1>4, <1>6 DEF InOnePlace
<1>10. \A x \in Worker : running'[x] # None =>
          running'[x] \notin finished' /\ \A y \in Worker \ {x} : running'[x] # running'[y]
  BY <1>1, <1>4, <1>6 DEF InOnePlace
<1>11. QED
  BY <1>7, <1>8, <1>9, <1>10 DEF InOnePlace

\* So does a worker that ends its task.
LEMMA FinishPool ==
  ASSUME Inputs, PoolTyped, InOnePlace, NEW w \in Worker, Pool!Finish(w), queries' = queries
  PROVE  PoolTyped' /\ InOnePlace'
<1>1. /\ finished' = finished \cup {running[w]} /\ running' = [running EXCEPT ![w] = None]
      /\ waiting' = waiting /\ running[w] # None
  BY DEF Pool!Finish
<1>2. PoolTyped'
  BY <1>1 DEF PoolTyped
<1>3. /\ running'[w] = None
      /\ \A x \in Worker \ {w} : running'[x] = running[x]
  BY <1>1 DEF PoolTyped
<1>4. \A k \in DOMAIN waiting : waiting[k] # None
  BY InputFacts DEF PoolTyped
<1>5. \A k \in DOMAIN waiting : /\ waiting[k] \notin finished'
                                /\ \A x \in Worker : waiting[k] # running'[x]
  BY <1>1, <1>3, <1>4 DEF InOnePlace
<1>6. \A x \in Worker : running'[x] # None =>
         running'[x] \notin finished' /\ \A y \in Worker \ {x} : running'[x] # running'[y]
  BY <1>1, <1>3 DEF InOnePlace
<1>7. QED
  BY <1>1, <1>2, <1>5, <1>6 DEF InOnePlace

\* Every step of the batch keeps every task in one place.
LEMMA PoolNext ==
  ASSUME Inputs, PoolTyped, InOnePlace, [Next]_vars
  PROVE  PoolTyped' /\ InOnePlace'
<1>1. queries' = queries
  BY InputsStay
<1>2. CASE UNCHANGED vars
  BY <1>1, <1>2 DEF vars, taskpool, PoolTyped, InOnePlace
<1>3. CASE submit
  BY <1>1, <1>3, SubmitPool DEF submit, Left
<1>4. CASE predict \/ allSubmitted \/ get \/ return
  BY <1>1, <1>4 DEF predict, allSubmitted, get, return, taskpool, PoolTyped, InOnePlace
<1>5. ASSUME NEW w \in Worker, takeTask(w) PROVE PoolTyped' /\ InOnePlace'
  BY <1>1, <1>5, StartPool DEF takeTask
<1>6. ASSUME NEW w \in Worker, endTask(w) PROVE PoolTyped' /\ InOnePlace'
  BY <1>1, <1>6, FinishPool DEF endTask
<1>7. ASSUME NEW w \in Worker, runTask(w) PROVE PoolTyped' /\ InOnePlace'
  <2>1. UNCHANGED taskpool
    BY <1>7 DEF runTask, getCache, decide, search, scanNext, finalize, release
  <2>2. QED
    BY <1>1, <2>1 DEF taskpool, PoolTyped, InOnePlace
<1>8. QED
  BY <1>2, <1>3, <1>4, <1>5, <1>6, <1>7 DEF Next, Main

-----------------------------------------------------------------------------
\* The caches.

\* A worker runs a query.
LEMMA RunsQuery ==
  ASSUME PoolTyped, NEW w \in Worker, running[w] # None
  PROVE  running[w] \in queries
BY DEF PoolTyped

\* At the start every cache is in the shared list.
LEMMA CacheInit == Init => CacheTyped /\ CacheInv
<1> SUFFICES ASSUME Init PROVE CacheTyped /\ CacheInv
  OBVIOUS
<1>1. Cardinality(workers) \in Nat
  BY InputsInit, InputFacts, FS_CardinalityType
<1> DEFINE n == Cardinality(workers)
<1>2. caches = [k \in 1 .. n |-> k] /\ created = n
  BY DEF Init
<1>3. caches \in Seq(1 .. n) /\ DOMAIN caches = 1 .. n
  BY <1>1, <1>2
<1>4. cacheOf = [q \in queries |-> None] /\ step = [q \in queries |-> "start"]
  BY DEF Init
<1>5. None \notin Nat
  BY InputsInit, InputFacts
<1>6. CacheTyped
  BY <1>1, <1>2, <1>3, <1>4 DEF CacheTyped
<1>7. CacheInv
  BY <1>1, <1>2, <1>3, <1>4, <1>5 DEF CacheInv
<1>8. QED
  BY <1>6, <1>7

\* A cache taken from the list has one owner, the task that takes it.
LEMMA GetCacheStep ==
  ASSUME Inputs, TaskTyped, CacheTyped, CacheInv, NEW q \in queries, getCache(q),
         queries' = queries
  PROVE  CacheTyped' /\ CacheInv'
<1> USE DEF CacheTyped, TaskTyped
<1>1. None \notin Nat
  BY InputFacts
<1>2. Len(caches) \in Nat /\ DOMAIN caches = 1 .. Len(caches)
  BY LenProperties
<1>3. step' = [step EXCEPT ![q] = "decide"]
  BY DEF getCache
<1>4. CASE caches = <<>>
  <2>1. created' = created + 1 /\ cacheOf' = [cacheOf EXCEPT ![q] = created + 1] /\ caches' = caches
    BY <1>4 DEF getCache
  <2>2. \A p \in queries \ {q} : cacheOf'[p] = cacheOf[p] /\ cacheOf[p] # created + 1
    BY <1>1, <2>1
  <2>3. cacheOf'[q] = created + 1 /\ cacheOf'[q] # None
    BY <1>1, <2>1
  <2>4. caches' \in Seq(1 .. created') /\ DOMAIN caches = {}
    BY <1>4, <2>1, EmptySeq
  <2>5. CacheTyped'
    BY <2>1, <2>4
  <2>6. CacheInv'
    BY <1>3, <2>1, <2>2, <2>3, <2>4 DEF CacheInv, Stage
  <2>7. QED
    BY <2>5, <2>6
<1>5. CASE caches # <<>>
  <2>1. created' = created /\ cacheOf' = [cacheOf EXCEPT ![q] = Head(caches)] /\ caches' = Tail(caches)
    BY <1>5 DEF getCache, Remaining
  <2>2. /\ caches' \in Seq(1 .. created) /\ Len(caches') = Len(caches) - 1 /\ Len(caches) # 0
        /\ \A k \in 1 .. Len(caches') : caches'[k] = caches[k + 1]
        /\ Head(caches) = caches[1] /\ caches[1] \in 1 .. created
    BY <1>2, <1>5, <2>1, HeadTailProperties, EmptySeq
  <2>3. /\ 1 \in DOMAIN caches
        /\ \A k \in DOMAIN caches' : k + 1 \in DOMAIN caches /\ k + 1 # 1 /\ caches'[k] = caches[k + 1]
        /\ \A j, k \in DOMAIN caches' : j # k => j + 1 # k + 1
    <3>1. DOMAIN caches' = 1 .. Len(caches) - 1
      BY <2>2, LenProperties
    <3>2. QED
      BY <1>2, <2>2, <3>1
  <2>4. cacheOf'[q] = caches[1] /\ cacheOf'[q] # None
    BY <1>1, <2>1, <2>2
  <2>5. \A p \in queries \ {q} : cacheOf'[p] = cacheOf[p] /\ cacheOf[p] # caches[1]
    BY <2>1, <2>3 DEF CacheInv
  <2>6. CacheTyped'
    BY <2>1, <2>2
  <2>7. \A p, r \in queries : p # r /\ cacheOf'[p] # None => cacheOf'[p] # cacheOf'[r]
    BY <2>4, <2>5 DEF CacheInv
  <2>8. \A j, k \in DOMAIN caches' : j # k => caches'[j] # caches'[k]
    BY <2>3 DEF CacheInv
  <2>9. \A k \in DOMAIN caches' : \A p \in queries : caches'[k] # cacheOf'[p]
    BY <2>3, <2>4, <2>5 DEF CacheInv
  <2>10. \A p \in queries : step'[p] \in Stage \ {"start", "end"} => cacheOf'[p] # None
    BY <1>3, <2>4, <2>5 DEF CacheInv, Stage
  <2>11. QED
    BY <2>6, <2>7, <2>8, <2>9, <2>10 DEF CacheInv
<1>6. QED
  BY <1>4, <1>5

\* A cache given back was its task's own, and is in the list once.
LEMMA ReleaseStep ==
  ASSUME Inputs, TaskTyped, CacheTyped, CacheInv, NEW q \in queries, release(q),
         queries' = queries
  PROVE  CacheTyped' /\ CacheInv'
<1> USE DEF CacheTyped, TaskTyped
<1>1. None \notin Nat
  BY InputFacts
<1>2. Len(caches) \in Nat /\ DOMAIN caches = 1 .. Len(caches)
  BY LenProperties
<1>3. /\ step[q] = "release" /\ step' = [step EXCEPT ![q] = "end"] /\ created' = created
      /\ cacheOf' = [cacheOf EXCEPT ![q] = None] /\ caches' = Append(caches, cacheOf[q])
  BY DEF release, Returned
<1>4. cacheOf[q] # None /\ cacheOf[q] \in 1 .. created
  BY <1>3 DEF CacheInv, Stage
<1>5. /\ caches' \in Seq(1 .. created) /\ Len(caches') = Len(caches) + 1
      /\ caches'[Len(caches) + 1] = cacheOf[q]
      /\ \A k \in 1 .. Len(caches) : caches'[k] = caches[k]
  BY <1>3, <1>4, AppendProperties
<1>6. \A k \in DOMAIN caches' : \/ k = Len(caches) + 1 /\ caches'[k] = cacheOf[q]
                                \/ k \in DOMAIN caches /\ caches'[k] = caches[k]
  BY <1>2, <1>5, LenProperties
<1>7. cacheOf'[q] = None /\ \A p \in queries \ {q} : cacheOf'[p] = cacheOf[p]
  BY <1>3
<1>8. CacheTyped'
  BY <1>3, <1>5
<1>9. \A p, r \in queries : p # r /\ cacheOf'[p] # None => cacheOf'[p] # cacheOf'[r]
  BY <1>7 DEF CacheInv
<1>10. \A j, k \in DOMAIN caches' : j # k => caches'[j] # caches'[k]
  BY <1>6 DEF CacheInv
<1>11. \A k \in DOMAIN caches' : caches'[k] # None
  BY <1>1, <1>4, <1>6
<1>12. \A k \in DOMAIN caches' : \A p \in queries : caches'[k] # cacheOf'[p]
  BY <1>4, <1>6, <1>7, <1>11 DEF CacheInv
<1>13. \A p \in queries : step'[p] \in Stage \ {"start", "end"} => cacheOf'[p] # None
  BY <1>3, <1>7 DEF CacheInv, Stage
<1>14. QED
  BY <1>8, <1>9, <1>10, <1>12, <1>13 DEF CacheInv

\* Every step of the batch keeps the caches apart.
LEMMA CacheNext ==
  ASSUME Inputs, TaskTyped, PoolTyped, CacheTyped, CacheInv, [Next]_vars
  PROVE  CacheTyped' /\ CacheInv'
<1>1. queries' = queries
  BY InputsStay
<1>2. CASE UNCHANGED <<cacheOf, caches, created, step>>
  BY <1>1, <1>2 DEF CacheTyped, CacheInv
<1>3. CASE Main
  BY <1>2, <1>3 DEF Main, predict, submit, allSubmitted, get, return
<1>4. ASSUME NEW w \in Worker, takeTask(w) \/ endTask(w) PROVE CacheTyped' /\ CacheInv'
  BY <1>2, <1>4 DEF takeTask, endTask
<1>5. ASSUME NEW q \in queries, decide(q) \/ search(q) \/ scanNext(q) \/ finalize(q)
      PROVE  CacheTyped' /\ CacheInv'
  <2>1. UNCHANGED <<cacheOf, caches, created>>
    BY <1>5 DEF decide, search, scanNext, finalize
  <2>2. step[q] \in Stage \ {"start", "end"}
    BY <1>5 DEF decide, search, scanNext, finalize, Stage
  <2>3. \A p \in queries \ {q} : step'[p] = step[p]
    BY <1>5 DEF decide, search, prefilter, favor, ung, unsupported, scanNext, finalize, TaskTyped
  <2>4. QED
    BY <1>1, <2>1, <2>2, <2>3 DEF CacheTyped, CacheInv
<1>6. ASSUME NEW w \in Worker, runTask(w) PROVE CacheTyped' /\ CacheInv'
  <2>1. running[w] \in queries
    BY <1>6, RunsQuery DEF runTask
  <2>2. QED
    BY <1>1, <1>5, <1>6, <2>1, GetCacheStep, ReleaseStep DEF runTask
<1>7. QED
  BY <1>2, <1>3, <1>4, <1>6 DEF Next, vars

-----------------------------------------------------------------------------
\* The tasks.

\* At the start no task has an answer and no future is read.
LEMMA TaskInit == Init => TaskTyped /\ InStep /\ Read /\ BatchTyped
<1> SUFFICES ASSUME Init PROVE TaskTyped /\ InStep /\ Read /\ BatchTyped
  OBVIOUS
<1>1. preset \in [queries -> Algorithm \cup {None}]
  BY InputsInit, InputFacts
<1>2. TaskTyped
  BY <1>1 DEF Init, TaskTyped, Stage
<1>3. InStep /\ Read
  BY DEF Init, InStep, Read, Pool!Init
<1>4. BatchTyped
  BY EmptySeq DEF Init, BatchTyped
<1>5. QED
  BY <1>2, <1>3, <1>4

\* The masks and the qualified vectors are vectors of the index.
LEMMA QualifiedAreVectors == \A q : Qualified(q) \in SUBSET Vec
BY DEF Qualified

LEMMA MasksAreVectors == ASSUME NEW q, NEW m \in Mask(q) PROVE m \in SUBSET Vec
BY DEF Mask, Meet, Qualified

\* A measured distance is one.
LEMMA MeasuredDistance ==
  ASSUME Inputs, NEW v \in Vec, NEW d \in Measured(v)
  PROVE  d \in Distance /\ (~rabitq => d = dist[newToOld[v]])
BY VectorFacts DEF Measured

\* The new id of an original one translates back.
LEMMA OldToNewInverse ==
  ASSUME Inputs, NEW o \in Vec
  PROVE  OldToNew(o) \in Vec /\ newToOld[OldToNew(o)] = o
BY VectorFacts DEF OldToNew

\* What a search does to its query: the pre-filter has a mask to scan or the
\* zero pair, another search ends early, or with sound pairs if any.
LEMMA SearchStep ==
  ASSUME Inputs, TaskTyped, NEW q \in queries, search(q)
  PROVE  /\ step[q] = "search" /\ UNCHANGED <<choice, pos, results>>
         /\ \E s \in {"scan", "finalize", "end"} : \E F \in SUBSET Pair :
              /\ step' = [step EXCEPT ![q] = s] /\ found' = [found EXCEPT ![q] = F]
              /\ s = "scan" => choice[q] = "prefilter" /\ Mask(q) # {} /\ F = found[q]
              /\ s = "finalize" =>
                   \/ choice[q] = "prefilter" /\ Mask(q) = {} /\ F = {ZeroPair}
                   \/ choice[q] # "prefilter" /\ F = found[q]
                   \/ choice[q] # "prefilter" /\ \A p \in F : Sound(q, choice[q], p)
              /\ s = "end" => choice[q] # "prefilter"
<1> USE DEF TaskTyped
<1>1. step[q] = "search" /\ UNCHANGED <<choice, pos, results>>
  BY DEF search, prefilter, favor, ung, unsupported
<1>2. found = [found EXCEPT ![q] = found[q]] /\ found[q] \in SUBSET Pair
  OBVIOUS
<1>3. CASE prefilter(q)
  <2>1. CASE Mask(q) = {}
    <3>1. {ZeroPair} \in SUBSET Pair
      BY VectorFacts DEF ZeroPair, Pair
    <3>2. /\ choice[q] = "prefilter" /\ step' = [step EXCEPT ![q] = "finalize"]
          /\ found' = [found EXCEPT ![q] = {ZeroPair}]
      BY <1>3, <2>1 DEF prefilter
    <3>3. QED
      BY <1>1, <2>1, <3>1, <3>2
  <2>2. CASE Mask(q) # {}
    <3>1. choice[q] = "prefilter" /\ step' = [step EXCEPT ![q] = "scan"] /\ found' = found
      BY <1>3, <2>2 DEF prefilter
    <3>2. QED
      BY <1>1, <1>2, <2>2, <3>1
  <2>3. QED
    BY <2>1, <2>2
<1>4. CASE favor(q)
  <2>1. CASE ~favorReady
    <3>1. choice[q] # "prefilter" /\ step' = [step EXCEPT ![q] = "end"] /\ found' = found
      BY <1>4, <2>1 DEF favor
    <3>2. QED
      BY <1>1, <1>2, <3>1
  <2>2. CASE favorReady
    <3>1. PICK T \in UpToK({i \in Vec : Passes(q, i)}) :
             found' = [found EXCEPT ![q] =
                         {[id |-> external[i], distance |-> dist[external[i]]] : i \in T}]
      BY <1>4, <2>2 DEF favor
    <3> DEFINE F == {[id |-> external[i], distance |-> dist[external[i]]] : i \in T}
    <3>2. choice[q] \in {"favor", "favor_hnsw"} /\ step' = [step EXCEPT ![q] = "finalize"]
      BY <1>4, <2>2 DEF favor
    <3>3. \A i \in T : i \in Vec /\ Passes(q, i)
      BY DEF UpToK
    <3>4. \A i \in T : /\ external[i] \in Vec
                       /\ [id |-> external[i], distance |-> dist[external[i]]] \in Pair
                       /\ queryLabels[q] \subseteq vecLabels[external[i]]
      <4> TAKE i \in T
      <4>1. external[i] \in Vec /\ dist[external[i]] \in Distance
        BY <3>3, VectorFacts
      <4>2. newToOld[OldToNew(external[i])] = external[i]
        BY <4>1, OldToNewInverse
      <4>3. QED
        BY <3>3, <4>1, <4>2 DEF Pair, Passes, BaseLabels
    <3>5. F \in SUBSET Pair
      BY <3>4
    <3>6. \A p \in F : Sound(q, choice[q], p)
      <4> SUFFICES ASSUME NEW i \in T
                   PROVE  Sound(q, choice[q], [id |-> external[i], distance |-> dist[external[i]]])
        OBVIOUS
      <4>1. QED
        BY <3>2, <3>4 DEF Sound, OldId
    <3>7. QED
      BY <1>1, <3>1, <3>2, <3>5, <3>6
  <2>3. QED
    BY <2>1, <2>2
<1>5. CASE ung(q)
  <2>1. CASE NoEntryPoint(q)
    <3>1. choice[q] # "prefilter" /\ step' = [step EXCEPT ![q] = "end"] /\ found' = found
      BY <1>5, <2>1 DEF ung
    <3>2. QED
      BY <1>1, <1>2, <3>1
  <2>2. CASE ~NoEntryPoint(q)
    <3>1. PICK T \in UpToK(Qualified(q)) :
             \E d \in {f \in [T -> Distance] : \A v \in T : f[v] \in Measured(v)} :
                found' = [found EXCEPT ![q] = {[id |-> v, distance |-> d[v]] : v \in T}]
      BY <1>5, <2>2 DEF ung
    <3>2. PICK d \in [T -> Distance] :
             /\ \A v \in T : d[v] \in Measured(v)
             /\ found' = [found EXCEPT ![q] = {[id |-> v, distance |-> d[v]] : v \in T}]
      BY <3>1
    <3> DEFINE F == {[id |-> v, distance |-> d[v]] : v \in T}
    <3>3. choice[q] \in {"sorted_lng", "tfng2"} /\ step' = [step EXCEPT ![q] = "finalize"]
      BY <1>5, <2>2 DEF ung
    <3>4. \A v \in T : v \in Vec /\ queryLabels[q] \subseteq vecLabels[newToOld[v]]
      BY DEF UpToK, Qualified, BaseLabels
    <3>5. F \in SUBSET Pair
      BY <3>4 DEF Pair
    <3>6. \A p \in F : Sound(q, choice[q], p)
      <4> SUFFICES ASSUME NEW v \in T PROVE Sound(q, choice[q], [id |-> v, distance |-> d[v]])
        OBVIOUS
      <4>1. ~rabitq => d[v] = dist[newToOld[v]]
        BY <3>2, <3>4, MeasuredDistance
      <4>2. QED
        BY <3>3, <3>4, <4>1 DEF Sound, OldId
    <3>7. QED
      BY <1>1, <3>2, <3>3, <3>5, <3>6
  <2>3. QED
    BY <2>1, <2>2
<1>6. CASE unsupported(q)
  <2>1. choice[q] # "prefilter" /\ step' = [step EXCEPT ![q] = "finalize"] /\ found' = found
    BY <1>6 DEF unsupported
  <2>2. QED
    BY <1>1, <1>2, <2>1
<1>7. QED
  BY <1>3, <1>4, <1>5, <1>6 DEF search

\* A step of the scan leaves the heap alone or offers it one vector of the mask.
LEMMA ScanStep ==
  ASSUME Inputs, TaskTyped, NEW q \in queries, scanNext(q), pos[q] \in Vec
  PROVE  /\ step[q] = "scan" /\ UNCHANGED <<choice, results>>
         /\ step' = [step EXCEPT ![q] = IF pos[q] + 1 = NumPoints THEN "finalize" ELSE "scan"]
         /\ pos' = [pos EXCEPT ![q] = pos[q] + 1]
         /\ \E m \in Mask(q) : \E F \in SUBSET Pair :
              /\ found' = [found EXCEPT ![q] = F]
              /\ \/ pos[q] \notin m /\ F = found[q]
                 \/ pos[q] \in m /\ \E d \in Measured(pos[q]) :
                                       F \in Offered(found[q], [id |-> pos[q], distance |-> d])
<1> USE DEF TaskTyped
<1>1. PICK m \in Mask(q) :
         IF pos[q] \in m
         THEN \E d \in Measured(pos[q]) :
                 \E F \in Offered(found[q], [id |-> pos[q], distance |-> d]) :
                    found' = [found EXCEPT ![q] = F]
         ELSE UNCHANGED found
  BY DEF scanNext
<1>2. CASE pos[q] \notin m
  <2>1. found' = [found EXCEPT ![q] = found[q]] /\ found[q] \in SUBSET Pair
    BY <1>1, <1>2
  <2>2. QED
    BY <1>2, <2>1 DEF scanNext
<1>3. CASE pos[q] \in m
  <2>1. PICK d \in Measured(pos[q]) :
           \E F \in Offered(found[q], [id |-> pos[q], distance |-> d]) :
              found' = [found EXCEPT ![q] = F]
    BY <1>1, <1>3
  <2>2. PICK F \in Offered(found[q], [id |-> pos[q], distance |-> d]) :
           found' = [found EXCEPT ![q] = F]
    BY <2>1
  <2>3. [id |-> pos[q], distance |-> d] \in Pair
    BY MeasuredDistance DEF Pair
  <2>4. F \in SUBSET Pair
    BY <2>3 DEF Offered
  <2>5. QED
    BY <1>3, <2>2, <2>4 DEF scanNext
<1>4. QED
  BY <1>2, <1>3

\* What is written to the slots are pairs of original ids.
LEMMA FinalizeStep ==
  ASSUME Inputs, TaskTyped, NEW q \in queries, finalize(q)
  PROVE  /\ step[q] = "finalize" /\ step' = [step EXCEPT ![q] = "release"]
         /\ choice' = choice /\ found' = [found EXCEPT ![q] = {}] /\ pos' = [pos EXCEPT ![q] = 0]
         /\ \E R \in SUBSET Pair :
              /\ R = {[id |-> OldId(choice[q], p.id), distance |-> p.distance] : p \in found[q]}
              /\ results' = [results EXCEPT ![q] = R]
<1> DEFINE R == {[id |-> OldId(choice[q], p.id), distance |-> p.distance] : p \in found[q]}
<1>1. \A p \in found[q] : [id |-> OldId(choice[q], p.id), distance |-> p.distance] \in Pair
  BY VectorFacts DEF TaskTyped, Pair, OldId
<1>2. R \in SUBSET Pair
  BY <1>1
<1>3. QED
  BY <1>2 DEF finalize

\* The algorithm decided is one of the algorithms.
LEMMA ChoicesAreAlgorithms ==
  ASSUME Inputs, TaskTyped, NEW q \in queries, NEW c \in ChoicesOf(q)
  PROVE  c \in Algorithm \cup {None}
<1> USE InputFacts
<1>1. Router \subseteq Algorithm
  BY DEF Router, Algorithm
<1>2. FixedChoice(q) \in Algorithm
  BY DEF FixedChoice, Algorithm
<1>3. choice[q] \in Algorithm \cup {None} /\ preset[q] \in Algorithm \cup {None}
  BY DEF TaskTyped
<1>4. QED
  BY <1>1, <1>2, <1>3 DEF ChoicesOf

\* What may be found or written does not change.
LEMMA PairStay == ASSUME [Next]_vars PROVE Pair' = Pair
BY InputsStay DEF Pair, Vec

\* The step of each task, its choice, its search and its answer.
LEMMA TaskNext ==
  ASSUME Inputs, TaskTyped, PoolTyped, AnswerInv, [Next]_vars
  PROVE  TaskTyped'
<1> USE DEF TaskTyped
<1>1. queries' = queries /\ Pair' = Pair
  BY InputsStay, PairStay
<1>2. CASE UNCHANGED <<step, choice, answer>>
  BY <1>1, <1>2 DEF answer
<1>3. CASE predict
  <2>1. choice' \in [queries -> Algorithm \cup {None}]
    <3>1. Supported \subseteq Algorithm
      BY DEF Supported, Algorithm
    <3>2. QED
      BY <1>3, <3>1 DEF predict
  <2>2. QED
    BY <1>1, <1>3, <2>1 DEF predict, answer
<1>4. CASE submit \/ allSubmitted \/ get \/ return
  BY <1>2, <1>4 DEF submit, allSubmitted, get, return
<1>5. ASSUME NEW w \in Worker, takeTask(w) \/ endTask(w) PROVE TaskTyped'
  BY <1>2, <1>5 DEF takeTask, endTask
<1>6. ASSUME NEW q \in queries, getCache(q) \/ release(q) PROVE TaskTyped'
  <2>1. UNCHANGED <<choice, answer>> /\ \E s \in Stage : step' = [step EXCEPT ![q] = s]
    BY <1>6 DEF getCache, release, Stage
  <2>2. QED
    BY <1>1, <2>1 DEF answer
<1>7. ASSUME NEW q \in queries, decide(q) PROVE TaskTyped'
  <2>1. UNCHANGED answer /\ \E s \in Stage : step' = [step EXCEPT ![q] = s]
    BY <1>7 DEF decide, Stage
  <2>2. \E c \in Algorithm \cup {None} : choice' = [choice EXCEPT ![q] = c]
    BY <1>7, ChoicesAreAlgorithms DEF decide
  <2>3. QED
    BY <1>1, <2>1, <2>2 DEF answer
<1>8. ASSUME NEW q \in queries, search(q) PROVE TaskTyped'
  <2>1. \E s \in Stage : step' = [step EXCEPT ![q] = s]
    BY <1>8, SearchStep DEF Stage
  <2>2. /\ UNCHANGED <<choice, pos, results>>
        /\ \E F \in SUBSET Pair : found' = [found EXCEPT ![q] = F]
    BY <1>8, SearchStep
  <2>3. QED
    BY <1>1, <2>1, <2>2
<1>9. ASSUME NEW q \in queries, scanNext(q) PROVE TaskTyped'
  <2>1. pos[q] \in Vec
    BY <1>9 DEF scanNext, AnswerInv, Answer
  <2>2. UNCHANGED <<choice, results>> /\ \E s \in Stage : step' = [step EXCEPT ![q] = s]
    BY <1>9, <2>1, ScanStep DEF Stage
  <2>3. pos' = [pos EXCEPT ![q] = pos[q] + 1] /\ pos[q] + 1 \in Nat
    BY <1>9, <2>1, ScanStep
  <2>4. \E F \in SUBSET Pair : found' = [found EXCEPT ![q] = F]
    BY <1>9, <2>1, ScanStep
  <2>5. QED
    BY <1>1, <2>2, <2>3, <2>4
<1>10. ASSUME NEW q \in queries, finalize(q) PROVE TaskTyped'
  <2>1. choice' = choice /\ \E s \in Stage : step' = [step EXCEPT ![q] = s]
    BY <1>10, FinalizeStep DEF Stage
  <2>2. /\ found' = [found EXCEPT ![q] = {}] /\ pos' = [pos EXCEPT ![q] = 0]
        /\ \E R \in SUBSET Pair : results' = [results EXCEPT ![q] = R]
    BY <1>10, FinalizeStep
  <2>3. QED
    BY <1>1, <2>1, <2>2
<1>11. ASSUME NEW w \in Worker, runTask(w) PROVE TaskTyped'
  BY <1>6, <1>7, <1>8, <1>9, <1>10, <1>11, RunsQuery DEF runTask
<1>12. QED
  BY <1>2, <1>3, <1>4, <1>5, <1>11 DEF Next, Main, vars

\* A task that runs has not ended, and changes its own state only.
LEMMA RunStep ==
  ASSUME Inputs, TaskTyped, PoolTyped, NEW w \in Worker, runTask(w)
  PROVE  LET q == running[w] IN
         /\ q \in queries /\ step[q] # "end"
         /\ \A p \in queries \ {q} : /\ step'[p] = step[p] /\ choice'[p] = choice[p]
                                     /\ found'[p] = found[p] /\ pos'[p] = pos[p]
                                     /\ results'[p] = results[p]
         /\ thrown' = thrown \/ (thrown' = thrown \cup {q} /\ step'[q] = "end")
         /\ UNCHANGED <<batch, taskpool>>
<1> DEFINE q == running[w]
<1>1. q \in queries
  BY RunsQuery DEF runTask
<1>2. CASE getCache(q) \/ release(q)
  BY <1>1, <1>2 DEF getCache, release, TaskTyped, answer
<1>3. CASE decide(q)
  BY <1>1, <1>3 DEF decide, TaskTyped, answer
<1>4. CASE search(q)
  <2>1. step[q] = "search" /\ UNCHANGED <<choice, pos, results>>
    BY <1>1, <1>4, SearchStep
  <2>2. \A p \in queries \ {q} : step'[p] = step[p] /\ found'[p] = found[p]
    BY <1>1, <1>4, SearchStep DEF TaskTyped
  <2>3. UNCHANGED <<batch, taskpool, thrown>>
    BY <1>4 DEF search
  <2>4. QED
    BY <1>1, <2>1, <2>2, <2>3
<1>5. CASE scanNext(q)
  <2>1. step[q] = "scan" /\ UNCHANGED <<choice, results, batch, taskpool, thrown>>
    BY <1>5 DEF scanNext
  <2>2. \A p \in queries \ {q} : step'[p] = step[p] /\ pos'[p] = pos[p]
    BY <1>1, <1>5 DEF scanNext, TaskTyped
  <2>3. \A p \in queries \ {q} : found'[p] = found[p]
    <3>1. found' = found \/ \E F : found' = [found EXCEPT ![q] = F]
      BY <1>5 DEF scanNext
    <3>2. QED
      BY <1>1, <3>1 DEF TaskTyped
  <2>4. QED
    BY <1>1, <2>1, <2>2, <2>3
<1>6. CASE finalize(q)
  BY <1>1, <1>6 DEF finalize, TaskTyped
<1>7. QED
  BY <1>2, <1>3, <1>4, <1>5, <1>6 DEF runTask

\* A task stays in step with the pool and its future with the task.
LEMMA InStepNext ==
  ASSUME Inputs, TaskTyped, PoolTyped, BatchTyped, InStep, [Next]_vars
  PROVE  InStep'
<1> USE DEF InStep
<1>1. queries' = queries
  BY InputsStay
<1>2. CASE UNCHANGED vars
  BY <1>1, <1>2 DEF vars, batch, taskpool
<1>3. CASE Main
  <2>1. main' # "predict" /\ UNCHANGED <<finished, thrown, step>>
    BY <1>3 DEF Main, predict, submit, allSubmitted, get, return, taskpool, Pool!Submit
  <2>2. QED
    BY <2>1
<1>4. ASSUME NEW w \in Worker, takeTask(w) PROVE InStep'
  BY <1>4 DEF takeTask, Pool!Start, batch
<1>5. ASSUME NEW w \in Worker, endTask(w) PROVE InStep'
  BY <1>5 DEF endTask, Pool!Finish, Ended, batch
<1>6. ASSUME NEW w \in Worker, runTask(w) PROVE InStep'
  <2>1. main' = main /\ finished' = finished /\ main # "predict"
    BY <1>6, RunStep DEF runTask, batch, taskpool
  <2> DEFINE q == running[w]
  <2>2. /\ step[q] # "end"
        /\ \A p \in queries \ {q} : step'[p] = step[p]
        /\ thrown' = thrown \/ (thrown' = thrown \cup {q} /\ step'[q] = "end")
    BY <1>6, RunStep
  <2>3. finished \cup thrown \subseteq queries /\ q \notin finished \cup thrown
    BY <2>2 DEF PoolTyped, BatchTyped
  <2>4. \A p \in finished' \cup thrown' : step'[p] = "end"
    BY <2>1, <2>2, <2>3
  <2>5. QED
    BY <2>1, <2>4
<1>7. QED
  BY <1>2, <1>3, <1>4, <1>5, <1>6 DEF Next

\* A future that has been read is not touched any more.
LEMMA ReadNext ==
  ASSUME Inputs, TaskTyped, PoolTyped, InStep, BatchTyped, Read, [Next]_vars
  PROVE  BatchTyped' /\ Read'
<1> USE DEF BatchTyped, Read
<1>1. queries' = queries
  BY InputsStay
<1>2. Len(futures) \in Nat /\ DOMAIN futures = 1 .. Len(futures)
  BY LenProperties
<1>3. ASSUME UNCHANGED <<batch, thrown>>, finished \subseteq finished' PROVE BatchTyped' /\ Read'
  BY <1>1, <1>3 DEF batch, Left, Range
<1>4. CASE predict
  BY <1>1, <1>4 DEF predict
<1>5. CASE submit
  <2>1. /\ main = "submit" /\ UNCHANGED <<main, got, thrown>>
        /\ \E q \in queries : futures' = Append(futures, q)
    BY <1>5 DEF submit, Left
  <2>2. futures' \in Seq(queries) /\ Len(futures') \in Nat
    BY <1>1, <2>1, AppendProperties, LenProperties
  <2>3. QED
    BY <1>1, <2>1, <2>2
<1>6. CASE allSubmitted
  <2>1. Left = {} /\ main' = "get" /\ got = 0 /\ UNCHANGED <<futures, got, thrown>>
    BY <1>6 DEF allSubmitted
  <2>2. Left' = {}
    BY <1>1, <2>1 DEF Left
  <2>3. QED
    BY <1>1, <2>1, <2>2
<1>7. CASE get
  <2>1. /\ main = "get" /\ got # Len(futures) /\ got' = got + 1 /\ futures[got + 1] \in finished
        /\ main' = IF futures[got + 1] \in thrown THEN "thrown" ELSE "get"
        /\ UNCHANGED <<futures, thrown, finished>>
    BY <1>7 DEF get, GotLast, taskpool
  <2>2. Left' = Left
    BY <1>1, <2>1 DEF Left
  <2>3. BatchTyped'
    <3>1. main' \in {"get", "thrown"}
      BY <2>1
    <3> HIDE DEF Read
    <3>4. got' = got + 1 /\ got \in 0 .. Len(futures) /\ got # Len(futures) /\ futures' = futures
      BY <2>1
    <3> DEFINE n == Len(futures)
    <3>5. n \in Nat /\ got \in 0 .. n /\ got # n
      BY <1>2, <3>4
    <3> HIDE DEF n
    <3>6. got + 1 \in 0 .. n
      BY <3>5
    <3>7. got' \in 0 .. Len(futures')
      BY <3>4, <3>6 DEF n
    <3>2. futures' \in Seq(queries') /\ thrown' \subseteq queries'
      BY <1>1, <2>1
    <3>3. QED
      BY <3>1, <3>2, <3>7
  <2>4. main' = "get" => \A k \in 1 .. got' : futures'[k] \in finished' \ thrown'
    <3>1. SUFFICES ASSUME main' = "get", NEW k \in 1 .. got'
                   PROVE  futures[k] \in finished \ thrown
      BY <2>1
    <3>2. CASE k = got + 1
      BY <2>1, <3>1, <3>2
    <3>3. CASE k # got + 1
      <4>1. k \in 1 .. got
        BY <2>1, <3>3
      <4>2. QED
        BY <2>1, <4>1
    <3>4. QED
      BY <3>2, <3>3
  <2>5. QED
    BY <2>1, <2>2, <2>3, <2>4
<1>8. CASE return
  <2>1. /\ main = "get" /\ main' = "returned" /\ got = Len(futures)
        /\ UNCHANGED <<futures, got, thrown, finished>>
    BY <1>8 DEF return, GotLast, taskpool
  <2>2. Left' = Left
    BY <1>1, <2>1 DEF Left
  <2>3. QED
    BY <1>1, <2>1, <2>2
<1>9. ASSUME NEW w \in Worker, takeTask(w) PROVE BatchTyped' /\ Read'
  BY <1>3, <1>9 DEF takeTask, Pool!Start
<1>10. ASSUME NEW w \in Worker, endTask(w) PROVE BatchTyped' /\ Read'
  BY <1>3, <1>10 DEF endTask, Pool!Finish
<1>11. ASSUME NEW w \in Worker, runTask(w) PROVE BatchTyped' /\ Read'
  <2> DEFINE q == running[w]
  <2>1. q \in queries /\ step[q] # "end" /\ thrown' \subseteq thrown \cup {q}
    BY <1>11, RunStep
  <2>2. UNCHANGED <<main, futures, got, finished>>
    BY <1>11, RunStep DEF batch, taskpool
  <2>3. q \notin finished
    BY <2>1 DEF InStep
  <2>4. Left' = Left
    BY <1>1, <2>2 DEF Left
  <2>5. thrown' \subseteq queries
    BY <2>1
  <2>6. QED
    BY <1>1, <2>1, <2>2, <2>3, <2>4, <2>5
<1>12. CASE UNCHANGED vars
  BY <1>3, <1>12 DEF vars, taskpool
<1>13. QED
  BY <1>4, <1>5, <1>6, <1>7, <1>8, <1>9, <1>10, <1>11, <1>12 DEF Next, Main

-----------------------------------------------------------------------------
\* The answers.

\* The mask, if there is one: the qualified vectors when the labels are known,
\* and in mode 0, where an unknown label leaves none; those with the known labels
\* in ALPS+.  Without a mask a label is unknown.
LEMMA MaskMeaning ==
  ASSUME Inputs, NEW q
  PROVE  /\ \A m \in Mask(q) :
              /\ KnownLabels(q) \/ mode = "TFNG" => m = Qualified(q)
              /\ KnownLabels(q) \/ mode = "TFNG" \/ (mode = "ALPS+" /\ m = Meet(queryLabels[q] \cap Known))
         /\ Mask(q) = {} => ~KnownLabels(q) /\ mode # "TFNG"
<1> DEFINE labels == queryLabels[q]
           known == labels \cap Known
<1>1. Meet(labels) = Qualified(q)
  BY DEF Meet, Qualified, VecAttrRoaring
<1>2. KnownLabels(q) <=> known = labels
  BY DEF KnownLabels
<1>3. CASE labels = {}
  <2>1. Qualified(q) = Vec /\ Mask(q) = {Vec} /\ KnownLabels(q)
    BY <1>3 DEF Qualified, Mask, KnownLabels
  <2>2. QED
    BY <2>1
<1>4. CASE labels # {}
  <2>1. CASE mode = "TFNG"
    BY <1>4, <2>1 DEF Mask
  <2>2. CASE mode = "ALPS+"
    <3>1. Mask(q) = {Meet(known) : x \in {y \in {known} : y # {}}}
      BY <1>4, <2>2 DEF Mask
    <3>2. QED
      BY <1>1, <1>2, <1>4, <2>2, <3>1
  <2>3. CASE mode \notin {"TFNG", "ALPS+"}
    <3>1. Mask(q) = {Meet(known) : x \in {y \in {known} : y = labels}}
      BY <1>4, <2>3 DEF Mask
    <3>2. QED
      BY <1>1, <1>2, <2>3, <3>1
  <2>4. QED
    BY <2>1, <2>2, <2>3
<1>5. QED
  BY <1>3, <1>4

\* There is at most one mask.
LEMMA OneMask ==
  ASSUME Inputs, NEW q, NEW m \in Mask(q), NEW l \in Mask(q)
  PROVE  l = m
<1>1. \A k \in Mask(q) : /\ KnownLabels(q) \/ mode = "TFNG" => k = Qualified(q)
                         /\ ~(KnownLabels(q) \/ mode = "TFNG") => k = Meet(queryLabels[q] \cap Known)
  BY MaskMeaning
<1>2. QED
  BY <1>1

\* An empty heap is what the scan starts with.
LEMMA EmptyKept == ASSUME NEW m \in SUBSET Nat PROVE Kept(m, 0, {})
BY FS_EmptySet, ParameterAssumption DEF Kept

\* A vector without the mask's bit can be passed over.
LEMMA SkipKept ==
  ASSUME NEW m \in SUBSET Nat, NEW n \in Nat, NEW H, n \notin m, Kept(m, n, H)
  PROVE  Kept(m, n + 1, H)
<1>1. \A v \in m : v < n + 1 <=> v < n
  OBVIOUS
<1>2. QED
  BY <1>1 DEF Kept

\* A pair of the next vector, offered to the heap, leaves in it what it should hold.
LEMMA OfferedKeeps ==
  ASSUME Inputs, NEW m \in SUBSET Vec, NEW n \in m, NEW H, Kept(m, n, H), NEW d \in Measured(n),
         NEW G \in Offered(H, [id |-> n, distance |-> d])
  PROVE  Kept(m, n + 1, G)
<1> DEFINE p == [id |-> n, distance |-> d]
<1>1. /\ p \in Pair /\ p.id = n /\ p.distance = d
      /\ d \in Nat /\ (~rabitq => d = dist[newToOld[n]])
      /\ n \in Nat /\ m \subseteq Nat /\ K \in Nat \ {0}
  BY MeasuredDistance, VectorFacts, ParameterAssumption DEF Pair
<1>2. /\ IsFiniteSet(H) /\ Cardinality(H) <= K /\ Cardinality(H) \in Nat
      /\ \A t \in H : t \in Pair /\ t.id \in m /\ t.id < n /\ t.distance \in Nat
      /\ \A t, u \in H : t.id = u.id => t = u
  <2>1. /\ IsFiniteSet(H) /\ Cardinality(H) <= K
        /\ \A t \in H : t \in Pair /\ t.id \in m /\ t.id < n
        /\ \A t, u \in H : t.id = u.id => t = u
    BY DEF Kept
  <2>2. Cardinality(H) \in Nat
    BY <2>1, FS_CardinalityType
  <2>3. \A t \in Pair : t.distance \in Nat
    BY VectorFacts DEF Pair
  <2>4. QED
    BY <2>1, <2>2, <2>3
<1>3. \A v \in m : v < n + 1 <=> v < n \/ v = n
  BY <1>1
<1>4. (\A t \in H : t.id < n + 1) /\ p.id \in m /\ p.id < n + 1
  BY <1>1, <1>2, <1>3
<1>5. Cardinality(H) = K \/ \A v \in m : v < n => \E t \in H : t.id = v
  BY DEF Kept
<1>6. ~rabitq => /\ \A t \in H : t.distance = dist[newToOld[t.id]]
                 /\ \A v \in m : v < n => \/ \E t \in H : t.id = v
                                          \/ \A t \in H : t.distance <= dist[newToOld[v]]
  BY DEF Kept
<1>7. \A v \in m : dist[newToOld[v]] \in Nat
  BY VectorFacts
<1>8. p \notin H /\ \A t \in H : t.id # n
  BY <1>1, <1>2
<1> HIDE DEF p
<1>9. CASE Cardinality(H) < K
  <2>1. G = H \cup {p}
    BY <1>9 DEF Offered, p
  <2>2. IsFiniteSet(G) /\ Cardinality(G) = Cardinality(H) + 1
    BY <1>2, <1>8, <2>1, FS_AddElement
  <2>3. Cardinality(G) <= K
    BY <1>1, <1>2, <1>9, <2>2
  <2>4. \A t \in G : t \in Pair /\ t.id \in m /\ t.id < n + 1
    BY <1>1, <1>2, <1>4, <2>1
  <2>5. \A t, u \in G : t.id = u.id => t = u
    BY <1>1, <1>2, <1>8, <2>1
  <2>6. \A v \in m : v < n + 1 => \E t \in G : t.id = v
    BY <1>1, <1>2, <1>3, <1>5, <1>9, <2>1
  <2>7. ~rabitq => \A t \in G : t.distance = dist[newToOld[t.id]]
    BY <1>1, <1>6, <2>1
  <2>8. QED
    BY <2>2, <2>3, <2>4, <2>5, <2>6, <2>7 DEF Kept
<1>10. CASE ~(Cardinality(H) < K)
  <2>1. Cardinality(H) = K
    BY <1>1, <1>2, <1>10
  <2>2. PICK t \in Top(H) : G = IF d < t.distance THEN (H \ {t}) \cup {p} ELSE H
    BY <1>1, <1>10 DEF Offered, p
  <2>3. t \in H /\ t.distance \in Nat /\ \A u \in H : u.distance \in Nat /\ u.distance <= t.distance
    BY <1>2 DEF Top
  <2>4. CASE d < t.distance
    <3>1. G = (H \ {t}) \cup {p}
      BY <2>2, <2>4
    <3>2. IsFiniteSet(G) /\ Cardinality(G) = K
      <4>1. IsFiniteSet(H \ {t}) /\ Cardinality(H \ {t}) = K - 1
        BY <1>2, <2>1, <2>3, FS_RemoveElement
      <4>2. IsFiniteSet(G) /\ Cardinality(G) = (K - 1) + 1
        BY <1>8, <3>1, <4>1, FS_AddElement
      <4>3. QED
        BY <1>1, <4>2
    <3>3. \A u \in G : u \in Pair /\ u.id \in m /\ u.id < n + 1
      BY <1>1, <1>2, <1>4, <3>1
    <3>4. \A u, v \in G : u.id = v.id => u = v
      BY <1>1, <1>2, <1>8, <3>1
    <3>5. ASSUME ~rabitq
          PROVE  /\ \A u \in G : u.distance = dist[newToOld[u.id]]
                 /\ \A v \in m : v < n + 1 => \/ \E u \in G : u.id = v
                                              \/ \A u \in G : u.distance <= dist[newToOld[v]]
      <4>1. \A u \in G : u.distance = dist[newToOld[u.id]]
        BY <1>1, <1>6, <3>1, <3>5
      <4>2. \A u \in G : u.distance \in Nat /\ u.distance <= t.distance
        BY <1>1, <2>3, <2>4, <3>1
      <4>3. ASSUME NEW v \in m, v < n + 1
            PROVE  \/ \E u \in G : u.id = v
                   \/ \A u \in G : u.distance <= dist[newToOld[v]]
        <5>1. CASE v = n
          BY <1>1, <3>1, <5>1
        <5>2. CASE v = t.id
          BY <1>6, <2>3, <3>5, <4>2, <5>2
        <5>3. CASE v # n /\ v # t.id /\ \E u \in H : u.id = v
          BY <3>1, <5>3
        <5>4. CASE v # n /\ ~\E u \in H : u.id = v
          <6>1. v < n
            BY <1>3, <4>3, <5>4
          <6>2. t.distance <= dist[newToOld[v]]
            BY <1>6, <2>3, <3>5, <5>4, <6>1
          <6>3. dist[newToOld[v]] \in Nat
            BY <1>7
          <6>4. QED
            BY <2>3, <4>2, <6>2, <6>3
        <5>5. QED
          BY <5>1, <5>2, <5>3, <5>4
      <4>4. QED
        BY <4>1, <4>3
    <3>6. K <= K
      BY <1>1
    <3>7. QED
      BY <3>2, <3>3, <3>4, <3>5, <3>6 DEF Kept
  <2>5. CASE ~(d < t.distance)
    <3>1. G = H
      BY <2>2, <2>5
    <3>2. t.distance <= d
      BY <1>1, <2>3, <2>5
    <3>3. \A u \in H : u.distance <= d
      BY <1>1, <2>3, <3>2
    <3>4. ~rabitq => \A v \in m : v < n + 1 => \/ \E u \in G : u.id = v
                                               \/ \A u \in G : u.distance <= dist[newToOld[v]]
      BY <1>1, <1>3, <1>6, <3>1, <3>3
    <3>5. \A u \in G : u \in Pair /\ u.id \in m /\ u.id < n + 1
      BY <1>1, <1>2, <1>4, <3>1
    <3>6. /\ IsFiniteSet(G) /\ Cardinality(G) = K /\ Cardinality(G) <= K
          /\ \A u, v \in G : u.id = v.id => u = v
          /\ ~rabitq => \A u \in G : u.distance = dist[newToOld[u.id]]
      BY <1>2, <1>6, <2>1, <3>1
    <3>7. QED
      BY <3>4, <3>5, <3>6 DEF Kept
  <2>6. QED
    BY <2>4, <2>5
<1>11. QED
  BY <1>9, <1>10

\* The original ids of a heap are as many as its pairs.
LEMMA IdsCount ==
  ASSUME Inputs, NEW m \in SUBSET Vec, NEW n, NEW H, Kept(m, n, H)
  PROVE  /\ Cardinality({newToOld[p.id] : p \in H}) = Cardinality(H)
         /\ Cardinality(H) \in Nat /\ Cardinality(H) <= K
<1> DEFINE O == {newToOld[p.id] : p \in H}
           f == [p \in H |-> newToOld[p.id]]
<1>1. /\ IsFiniteSet(H) /\ Cardinality(H) <= K
      /\ \A p \in H : p.id \in Vec
      /\ \A p, t \in H : p.id = t.id => p = t
  BY DEF Kept
<1>2. f \in [H -> O] /\ \A o \in O : \E p \in H : f[p] = o
  OBVIOUS
<1>3. f \in Surjection(H, O)
  BY <1>2 DEF Surjection
<1>4. \A p, t \in H : f[p] = f[t] => p = t
  BY <1>1, VectorFacts
<1>5. f \in Injection(H, O)
  BY <1>2, <1>4 DEF Injection, IsInjective
<1> HIDE DEF f, O
<1>6. Cardinality(O) = Cardinality(H)
  BY <1>1, <1>3, <1>5, FS_Surjection
<1>7. QED
  BY <1>1, <1>6, FS_CardinalityType DEF O

\* A scan that has come to its end has found the answer.
LEMMA ScanIsFull ==
  ASSUME Inputs, NEW q, NEW H, Kept(Qualified(q), NumPoints, H),
         NEW R, R = {[id |-> newToOld[p.id], distance |-> p.distance] : p \in H}
  PROVE  Full(q, R)
<1> DEFINE ids == {r.id : r \in R}
           sought == {v \in Vec : queryLabels[q] \subseteq vecLabels[v]}
<1>1. Qualified(q) \in SUBSET Vec
  BY QualifiedAreVectors
<1>2. /\ \A p \in H : p.id \in Qualified(q)
      /\ \A v \in Qualified(q) : v \in Vec /\ v < NumPoints
  BY <1>1, VectorFacts DEF Kept
<1>3. \A o \in sought : \E v \in Qualified(q) : newToOld[v] = o
  BY VectorFacts DEF Qualified, BaseLabels
<1>4. \A v \in Qualified(q) : newToOld[v] \in sought
  BY VectorFacts DEF Qualified, BaseLabels
<1>5. ids = {newToOld[p.id] : p \in H}
  <2>1. ASSUME NEW p \in H PROVE newToOld[p.id] \in ids
    <3>1. [id |-> newToOld[p.id], distance |-> p.distance] \in R
      OBVIOUS
    <3>2. QED
      BY <3>1
  <2>2. \A r \in R : \E p \in H : r.id = newToOld[p.id]
    OBVIOUS
  <2>3. QED
    BY <2>1, <2>2
<1>6. ids \subseteq sought
  BY <1>2, <1>4, <1>5
<1>7. Cardinality(ids) = Cardinality(H) /\ Cardinality(H) <= K
  BY <1>1, <1>5, IdsCount
<1>8. Cardinality(H) = K \/ ids = sought
  <2>1. CASE \A v \in Qualified(q) : \E p \in H : p.id = v
    BY <1>3, <1>5, <1>6, <2>1
  <2>2. QED
    BY <1>2, <2>1 DEF Kept
<1>9. ASSUME ~rabitq, NEW r \in R, NEW o \in sought \ ids PROVE r.distance <= dist[o]
  <2>1. PICK v \in Qualified(q) : newToOld[v] = o
    BY <1>3
  <2>2. ~\E p \in H : p.id = v
    BY <1>5, <2>1
  <2>3. \A p \in H : p.distance <= dist[newToOld[v]]
    BY <1>2, <1>9, <2>2 DEF Kept
  <2>4. PICK p \in H : r = [id |-> newToOld[p.id], distance |-> p.distance]
    OBVIOUS
  <2>5. QED
    BY <2>1, <2>3, <2>4
<1>10. QED
  BY <1>6, <1>7, <1>8, <1>9 DEF Full

\* What is ready to be written is a right and an exact answer.
LEMMA FinalAnswer ==
  ASSUME Inputs, NEW q, NEW c, NEW H, Ready(q, c, H),
         NEW R, R = {[id |-> OldId(c, p.id), distance |-> p.distance] : p \in H}
  PROVE  Right(q, c, R) /\ Exact(q, c, R)
<1>1. CASE c # "prefilter"
  <2>1. \A p \in H : Sound(q, c, p)
    BY <1>1 DEF Ready
  <2>2. \A r \in R : \E p \in H : r.id = OldId(c, p.id) /\ r.distance = p.distance
    OBVIOUS
  <2>3. QED
    BY <1>1, <2>1, <2>2 DEF Sound, Right, Exact
<1>2. CASE c = "prefilter" /\ Mask(q) = {}
  <2>1. H = {ZeroPair} /\ ~KnownLabels(q) /\ mode # "TFNG"
    BY <1>2, MaskMeaning DEF Ready
  <2>2. R = {[id |-> newToOld[0], distance |-> 0]}
    BY <1>2, <2>1 DEF ZeroPair, OldId
  <2>3. QED
    BY <1>2, <2>1, <2>2 DEF Right, Exact
<1>3. ASSUME c = "prefilter", NEW m \in Mask(q) PROVE Right(q, c, R) /\ Exact(q, c, R)
  <2>1. Kept(m, NumPoints, H)
    BY <1>3 DEF Ready
  <2>2. R = {[id |-> newToOld[p.id], distance |-> p.distance] : p \in H}
    BY <1>3 DEF OldId
  <2>3. \A p \in H : p.id \in m /\ (~rabitq => p.distance = dist[newToOld[p.id]])
    BY <2>1 DEF Kept
  <2>4. CASE KnownLabels(q) \/ mode = "TFNG"
    <3>1. m = Qualified(q)
      BY <1>3, <2>4, MaskMeaning
    <3>2. Full(q, R)
      BY <2>1, <2>2, <3>1, ScanIsFull
    <3>3. \A p \in H : queryLabels[q] \subseteq vecLabels[newToOld[p.id]]
      BY <2>3, <3>1 DEF Qualified, BaseLabels
    <3>4. Right(q, c, R)
      BY <1>3, <2>2, <2>3, <3>3 DEF Right
    <3>5. QED
      BY <3>2, <3>4 DEF Exact
  <2>5. CASE ~KnownLabels(q) /\ mode # "TFNG"
    <3>1. mode = "ALPS+" /\ m = Meet(queryLabels[q] \cap Known)
      BY <1>3, <2>5, MaskMeaning
    <3>2. \A p \in H : queryLabels[q] \cap Known \subseteq vecLabels[newToOld[p.id]]
      BY <2>3, <3>1 DEF Meet, VecAttrRoaring, BaseLabels
    <3>3. QED
      BY <1>3, <2>2, <2>5, <3>1, <3>2 DEF Right, Exact
  <2>6. QED
    BY <2>4, <2>5
<1>4. QED
  BY <1>1, <1>2, <1>3

\* The mask of a query and the meaning of its answer do not change.
LEMMA MeaningStays ==
  ASSUME [Next]_vars
  PROVE  /\ NumPoints' = NumPoints /\ Vec' = Vec
         /\ \A q : Mask(q)' = Mask(q) /\ (KnownLabels(q)' <=> KnownLabels(q))
         /\ \A m, n, H : Kept(m, n, H)' <=> Kept(m, n, H)
         /\ \A q, c, R : (Right(q, c, R)' <=> Right(q, c, R)) /\ (Exact(q, c, R)' <=> Exact(q, c, R))
         /\ \A q, c, p : Sound(q, c, p)' <=> Sound(q, c, p)
<1> USE InputsStay, PairStay
<1>1. Vec' = Vec /\ NumPoints' = NumPoints
  BY DEF Vec, NumPoints
<1>2. \A v \in Vec : BaseLabels(v)' = BaseLabels(v)
  BY DEF BaseLabels
<1>3. Known' = Known
  BY <1>1 DEF Known, BaseLabels
<1>4. \A q : KnownLabels(q)' <=> KnownLabels(q)
  BY <1>3 DEF KnownLabels
<1>5. \A q : Mask(q)' = Mask(q)
  <2>1. \A q : Qualified(q)' = Qualified(q)
    BY <1>1 DEF Qualified, BaseLabels
  <2>2. \A L : Meet(L)' = Meet(L)
    BY <1>1 DEF Meet, VecAttrRoaring, BaseLabels
  <2>3. QED
    BY <1>1, <1>3, <2>1, <2>2 DEF Mask
<1>6. \A m, n, H : Kept(m, n, H)' <=> Kept(m, n, H)
  BY DEF Kept
<1>7. \A q, c, R : Right(q, c, R)' <=> Right(q, c, R)
  BY <1>3, <1>4 DEF Right
<1>8. \A q, R : Full(q, R)' <=> Full(q, R)
  BY <1>1 DEF Full
<1>9. \A q, c, R : Exact(q, c, R)' <=> Exact(q, c, R)
  BY <1>4, <1>8 DEF Exact
<1>10. \A q, c, p : Sound(q, c, p)' <=> Sound(q, c, p)
  BY DEF Sound, OldId
<1>11. QED
  BY <1>1, <1>4, <1>5, <1>6, <1>7, <1>9, <1>10

\* So what is an answer for the new step, choice, heap, position and results is
\* one in the next state.
LEMMA AnswerMoves ==
  ASSUME [Next]_vars, NEW q,
         Answer(q, step'[q], choice'[q], found'[q], pos'[q], results'[q])
  PROVE  Answer(q, step[q], choice[q], found[q], pos[q], results[q])'
BY MeaningStays DEF Answer, Ready

\* What the query's own task does keeps its answer one.
LEMMA TaskAnswer ==
  ASSUME Inputs, TaskTyped, [Next]_vars, NEW q \in queries,
         Answer(q, step[q], choice[q], found[q], pos[q], results[q]),
         \/ getCache(q) \/ decide(q) \/ search(q) \/ scanNext(q) \/ finalize(q) \/ release(q)
  PROVE  Answer(q, step'[q], choice'[q], found'[q], pos'[q], results'[q])
<1> USE DEF TaskTyped
<1>1. CASE getCache(q)
  <2>1. step[q] = "start" /\ step'[q] = "decide" /\ UNCHANGED <<choice, found, pos, results>>
    BY <1>1 DEF getCache, answer
  <2>2. QED
    BY <2>1 DEF Answer
<1>2. CASE decide(q)
  <2>1. PICK c \in ChoicesOf(q) :
           /\ choice' = [choice EXCEPT ![q] = c]
           /\ step' = [step EXCEPT ![q] = IF Throws(q, c) THEN "end" ELSE "search"]
    BY <1>2 DEF decide
  <2>2. step[q] = "decide" /\ UNCHANGED <<found, pos, results>>
    BY <1>2 DEF decide, answer
  <2>3. /\ found'[q] = {} /\ pos'[q] = 0 /\ results'[q] = {} /\ choice'[q] = c
        /\ step'[q] \in {"search", "end"} /\ (step'[q] = "end" => c = "legacy")
    BY <2>1, <2>2 DEF Answer, Throws
  <2>4. QED
    BY <2>3 DEF Answer, Right, Exact
<1>3. CASE search(q)
  <2>1. PICK s \in {"scan", "finalize", "end"} : \E F \in SUBSET Pair :
          /\ step' = [step EXCEPT ![q] = s] /\ found' = [found EXCEPT ![q] = F]
          /\ s = "scan" => choice[q] = "prefilter" /\ Mask(q) # {} /\ F = found[q]
          /\ s = "finalize" =>
               \/ choice[q] = "prefilter" /\ Mask(q) = {} /\ F = {ZeroPair}
               \/ choice[q] # "prefilter" /\ F = found[q]
               \/ choice[q] # "prefilter" /\ \A p \in F : Sound(q, choice[q], p)
          /\ s = "end" => choice[q] # "prefilter"
    BY <1>3, SearchStep
  <2>2. PICK F \in SUBSET Pair :
          /\ step' = [step EXCEPT ![q] = s] /\ found' = [found EXCEPT ![q] = F]
          /\ s = "scan" => choice[q] = "prefilter" /\ Mask(q) # {} /\ F = found[q]
          /\ s = "finalize" =>
               \/ choice[q] = "prefilter" /\ Mask(q) = {} /\ F = {ZeroPair}
               \/ choice[q] # "prefilter" /\ F = found[q]
               \/ choice[q] # "prefilter" /\ \A p \in F : Sound(q, choice[q], p)
          /\ s = "end" => choice[q] # "prefilter"
    BY <2>1
  <2>3. step[q] = "search" /\ UNCHANGED <<choice, pos, results>>
    BY <1>3, SearchStep
  <2>4. /\ step'[q] = s /\ found'[q] = F /\ choice'[q] = choice[q]
        /\ found[q] = {} /\ pos'[q] = 0 /\ results'[q] = {}
    BY <2>2, <2>3 DEF Answer
  <2>5. CASE s = "scan"
    <3>1. choice[q] = "prefilter" /\ Mask(q) # {} /\ F = {}
      BY <2>2, <2>4, <2>5
    <3>2. \A m \in Mask(q) : Kept(m, 0, {})
      <4> TAKE m \in Mask(q)
      <4>1. m \in SUBSET Nat
        BY MasksAreVectors, VectorFacts
      <4>2. QED
        BY <4>1, EmptyKept
    <3>3. QED
      BY <2>4, <2>5, <3>1, <3>2, VectorFacts DEF Answer, Right
  <2>6. CASE s = "finalize"
    <3>1. Ready(q, choice[q], F)
      BY <2>2, <2>4, <2>6 DEF Ready
    <3>2. QED
      BY <2>4, <2>6, <3>1 DEF Answer, Right
  <2>7. CASE s = "end"
    BY <2>2, <2>4, <2>7 DEF Answer, Right, Exact
  <2>8. QED
    BY <2>5, <2>6, <2>7
<1>4. CASE scanNext(q)
  <2> DEFINE n == pos[q]
  <2>1. step[q] = "scan"
    BY <1>4 DEF scanNext
  <2>2. /\ choice[q] = "prefilter" /\ Mask(q) # {} /\ n \in Vec /\ results[q] = {}
        /\ \A m \in Mask(q) : Kept(m, n, found[q])
    BY <2>1 DEF Answer
  <2>3. /\ UNCHANGED <<choice, results>>
        /\ step' = [step EXCEPT ![q] = IF n + 1 = NumPoints THEN "finalize" ELSE "scan"]
        /\ pos' = [pos EXCEPT ![q] = n + 1]
    BY <1>4, <2>2, ScanStep
  <2>4. PICK m \in Mask(q) : \E F \in SUBSET Pair :
           /\ found' = [found EXCEPT ![q] = F]
           /\ \/ n \notin m /\ F = found[q]
              \/ n \in m /\ \E d \in Measured(n) : F \in Offered(found[q], [id |-> n, distance |-> d])
    BY <1>4, <2>2, ScanStep
  <2>5. PICK F \in SUBSET Pair :
           /\ found' = [found EXCEPT ![q] = F]
           /\ \/ n \notin m /\ F = found[q]
              \/ n \in m /\ \E d \in Measured(n) : F \in Offered(found[q], [id |-> n, distance |-> d])
    BY <2>4
  <2>6. m \in SUBSET Vec /\ m \in SUBSET Nat /\ n \in Nat /\ Kept(m, n, found[q])
    BY <2>2, MasksAreVectors, VectorFacts
  <2>7. Kept(m, n + 1, F)
    <3>1. CASE n \notin m /\ F = found[q]
      BY <2>6, <3>1, SkipKept
    <3>2. CASE n \in m /\ \E d \in Measured(n) : F \in Offered(found[q], [id |-> n, distance |-> d])
      BY <2>6, <3>2, OfferedKeeps
    <3>3. QED
      BY <2>5, <3>1, <3>2
  <2>8. \A l \in Mask(q) : Kept(l, n + 1, F)
    BY <2>7, OneMask
  <2>9. /\ found'[q] = F /\ pos'[q] = n + 1 /\ choice'[q] = "prefilter" /\ results'[q] = {}
        /\ step'[q] = IF n + 1 = NumPoints THEN "finalize" ELSE "scan"
    BY <2>2, <2>3, <2>5
  <2> HIDE DEF n
  <2>10. CASE n + 1 = NumPoints
    BY <2>2, <2>8, <2>9, <2>10 DEF Answer, Ready, Right
  <2>11. CASE n + 1 # NumPoints
    <3>1. Vec = 0 .. NumPoints - 1 /\ NumPoints \in Nat
      BY VectorFacts
    <3>2. n \in Nat /\ n < NumPoints
      BY <2>2, <3>1
    <3>3. n + 1 \in 0 .. NumPoints - 1
      BY <2>11, <3>1, <3>2
    <3>4. QED
      BY <2>2, <2>8, <2>9, <2>11, <3>1, <3>3 DEF Answer, Right
  <2>12. QED
    BY <2>10, <2>11
<1>5. CASE finalize(q)
  <2>1. PICK R \in SUBSET Pair :
          /\ R = {[id |-> OldId(choice[q], p.id), distance |-> p.distance] : p \in found[q]}
          /\ results' = [results EXCEPT ![q] = R]
    BY <1>5, FinalizeStep
  <2>2. /\ step[q] = "finalize" /\ step'[q] = "release"
        /\ choice'[q] = choice[q] /\ results'[q] = R
    BY <1>5, <2>1, FinalizeStep
  <2>3. Ready(q, choice[q], found[q])
    BY <2>2 DEF Answer
  <2>4. Right(q, choice[q], R) /\ Exact(q, choice[q], R)
    BY <2>1, <2>3, FinalAnswer
  <2>5. QED
    BY <2>2, <2>4 DEF Answer
<1>6. CASE release(q)
  <2>1. /\ step[q] = "release" /\ step'[q] = "end" /\ UNCHANGED <<choice, found, pos, results>>
    BY <1>6 DEF release, answer
  <2>2. QED
    BY <2>1 DEF Answer
<1>7. QED
  BY <1>1, <1>2, <1>3, <1>4, <1>5, <1>6

\* Every step keeps the answers: only the query's own task touches its search.
LEMMA AnswersNext ==
  ASSUME Inputs, TaskTyped, PoolTyped, InStep, AnswerInv, [Next]_vars
  PROVE  AnswerInv'
<1> SUFFICES ASSUME NEW q \in queries
             PROVE  Answer(q, step'[q], choice'[q], found'[q], pos'[q], results'[q])
  BY InputsStay, AnswerMoves DEF AnswerInv
<1>1. Answer(q, step[q], choice[q], found[q], pos[q], results[q])
  BY DEF AnswerInv
<1>2. CASE UNCHANGED <<choice, step, answer>>
  BY <1>1, <1>2 DEF answer
<1>3. CASE predict
  <2>1. step[q] = "start" /\ UNCHANGED <<step, found, pos, results>>
    BY <1>3 DEF predict, InStep, answer
  <2>2. found[q] = {} /\ pos[q] = 0 /\ results[q] = {}
    BY <1>1, <2>1 DEF Answer
  <2>3. QED
    BY <2>1, <2>2 DEF Answer, Right
<1>4. CASE submit \/ allSubmitted \/ get \/ return
  BY <1>2, <1>4 DEF submit, allSubmitted, get, return
<1>5. ASSUME NEW w \in Worker, takeTask(w) \/ endTask(w)
      PROVE  Answer(q, step'[q], choice'[q], found'[q], pos'[q], results'[q])
  BY <1>2, <1>5 DEF takeTask, endTask
<1>6. ASSUME NEW w \in Worker, runTask(w)
      PROVE  Answer(q, step'[q], choice'[q], found'[q], pos'[q], results'[q])
  <2>1. CASE running[w] = q
    BY <1>1, <1>6, <2>1, TaskAnswer DEF runTask
  <2>2. CASE running[w] # q
    <3>1. /\ step'[q] = step[q] /\ choice'[q] = choice[q] /\ found'[q] = found[q]
          /\ pos'[q] = pos[q] /\ results'[q] = results[q]
      BY <1>6, <2>2, RunStep
    <3>2. QED
      BY <1>1, <3>1
  <2>3. QED
    BY <2>1, <2>2
<1>7. QED
  BY <1>2, <1>3, <1>4, <1>5, <1>6 DEF Next, Main, vars

-----------------------------------------------------------------------------
\* The inductive invariant holds at the start.
LEMMA InitIInv == Init => IInv
<1> SUFFICES ASSUME Init PROVE IInv
  OBVIOUS
<1>1. AnswerInv
  <2>1. \A q \in queries : step[q] = "start" /\ found[q] = {} /\ pos[q] = 0 /\ results[q] = {}
    BY DEF Init
  <2>2. QED
    BY <2>1 DEF AnswerInv, Answer, Right
<1>2. QED
  BY <1>1, InputsInit, PoolInit, CacheInit, TaskInit DEF IInv

\* Every step keeps the inductive invariant.
LEMMA NextIInv == IInv /\ [Next]_vars => IInv'
BY InputsNext, PoolNext, CacheNext, TaskNext, InStepNext, ReadNext, AnswersNext DEF IInv

(***************************************************************************)
(* The types of the batch, the tasks, the caches and the pool, and all     *)
(* that is said above, hold in every reachable state of search_hybrid.     *)
(***************************************************************************)
THEOREM Invariance == Spec => []IInv
BY InitIInv, NextIInv, PTL DEF Spec

(***************************************************************************)
(* get_free_cache and release_cache never give two running tasks the same  *)
(* cache, although a task that returns early keeps its own.                *)
(***************************************************************************)
THEOREM NoCacheShared == Spec => []CachesNotShared
<1>1. ASSUME IInv PROVE CachesNotShared
  <2>1. Executing \subseteq queries
    BY <1>1, RunsQuery DEF IInv, Executing
  <2>2. QED
    BY <1>1, <2>1 DEF IInv, CacheInv, CachesNotShared, Held
<1>2. QED
  BY Invariance, <1>1, PTL

(***************************************************************************)
(* search_hybrid returns after its last task has ended, when none has      *)
(* thrown.                                                                 *)
(***************************************************************************)
THEOREM BatchReturnsLast == Spec => []ReturnsLast
<1>1. ASSUME IInv, main = "returned" PROVE finished = queries /\ Executing = {} /\ thrown = {}
  <2>1. Len(futures) \in Nat /\ DOMAIN futures = 1 .. Len(futures) /\ got = Len(futures)
    BY <1>1, LenProperties DEF IInv, BatchTyped, Read
  <2>2. queries \subseteq Range(futures)
    BY <1>1 DEF IInv, Read, Left
  <2>3. \A q \in queries : \E k \in 1 .. Len(futures) : futures[k] = q
    BY <2>1, <2>2 DEF Range
  <2>4. \A q \in queries : q \in finished /\ q \notin thrown
    BY <1>1, <2>1, <2>3 DEF IInv, Read
  <2>5. finished \subseteq queries /\ thrown \subseteq queries
    BY <1>1 DEF IInv, PoolTyped, BatchTyped
  <2>6. \A w \in Worker : running[w] = None
    BY <1>1, <2>4, RunsQuery DEF IInv, InOnePlace
  <2>7. QED
    BY <2>4, <2>5, <2>6 DEF Executing
<1>2. IInv => ReturnsLast
  BY <1>1 DEF ReturnsLast
<1>3. QED
  BY Invariance, <1>2, PTL

(***************************************************************************)
(* Every pair that thread_function writes is, under its original id, a     *)
(* vector with the labels of the query and has its distance, but for the   *)
(* estimates of RabitQ; the pre-filter alone writes others, for a query    *)
(* with a label that no vector has.                                        *)
(***************************************************************************)
THEOREM AllAnswersQualify == Spec => []AnswersQualify
<1>1. IInv => AnswersQualify
  BY DEF IInv, AnswerInv, Answer, Right, AnswersQualify
<1>2. QED
  BY Invariance, <1>1, PTL

(***************************************************************************)
(* The scan of the pre-filter, with its heap of K, returns K qualified     *)
(* vectors or all of them, whatever mask the routing mode gives it, and    *)
(* without RabitQ the closest.                                             *)
(***************************************************************************)
THEOREM PrefilterIsExact == Spec => []PrefilterExact
<1>1. ASSUME IInv PROVE PrefilterExact
  <2>1. \A q \in queries :
           (KnownLabels(q) \/ mode = "TFNG") /\ choice[q] = "prefilter"
              /\ step[q] \in {"release", "end"} => Full(q, results[q])
    BY <1>1 DEF IInv, AnswerInv, Answer, Exact
  <2>2. QED
    BY <2>1 DEF PrefilterExact, Full
<1>2. QED
  BY Invariance, <1>1, PTL
=============================================================================
