\* Safety of ThreadSafeStack: three workers, two sockets, one null.
CONSTANTS
    Workers = {w1, w2, w3}
    Sockets = {s1, s2}
    NullPtr = null
    Main = main
    NoThread = nobody
    MaxNulls = 1
SPECIFICATION Spec
SYMMETRY Symmetry
INVARIANT TypeOK
INVARIANT StackInv
INVARIANT OneOwner
INVARIANT NoMissedWakeup
INVARIANT StopWakesAll
INVARIANT StuckOnlyBySignal
CHECK_DEADLOCK FALSE
