\* More tasks than workers, and three workers so that some sleep while others run.
CONSTANTS
    Worker = {w1, w2, w3}
    NumTasks = 4
    None = None
SPECIFICATION SpecPool
INVARIANTS NoLostWakeup Drained
PROPERTIES EveryTaskRuns Destroys ImplementsQueue
\* The owner may stop using the pool, and ends when it is destroyed.
CHECK_DEADLOCK FALSE
