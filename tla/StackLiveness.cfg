\* ThreadSafeStack: liveness and refinement, two workers.
CONSTANTS
    Workers = {w1, w2}
    Sockets = {s1, s2}
    NullPtr = null
    Main = main
    NoThread = nobody
    MaxNulls = 1
SPECIFICATION Spec
CHECK_DEADLOCK FALSE
PROPERTY DestructorReturns
PROPERTY StopEndsWorkers
PROPERTY EverySocketTaken
PROPERTY PoolSpec
