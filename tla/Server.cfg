\* Two workers, two clients, one or two descriptors, two signals.
CONSTANTS
    Workers = {w1, w2}
    Sockets = {s1, s2}
    NullPtr = null
    Listeners = {plain, secure}
    TlsListeners = {secure}
    MaxFds = 2
    MaxPool = 1
    MaxSignals = 2
SPECIFICATION Spec
CHECK_DEADLOCK FALSE
INVARIANT DescriptorOwned
INVARIANT CleanExit
INVARIANT AtMostOneLate
PROPERTY ProcessEnds
PROPERTY ClientServed
