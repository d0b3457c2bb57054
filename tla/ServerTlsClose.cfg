\* A TLS connection is never closed: one worker, one client.
CONSTANTS
    Workers = {w1}
    Sockets = {s1}
    NullPtr = null
    Listeners = {plain, secure}
    TlsListeners = {secure}
    MaxFds = 1
    MaxPool = 1
    MaxSignals = 1
SPECIFICATION Spec
CHECK_DEADLOCK FALSE
INVARIANT ClosedIsClosed
