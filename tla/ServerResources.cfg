\* Three listeners: the vector grows from 1 to 2 to 4; two more descriptors;
\* two connections of two TLSSocket objects each.
CONSTANTS
    Options = 3
    Fds = {3, 4, 5, 6, 7, 8}
    Wrappers = {a, b, c, d}
SPECIFICATION Spec
SYMMETRY Symmetry
CHECK_DEADLOCK FALSE
INVARIANT NumberOwnedOnce
INVARIANT AllClosedAtExit
INVARIANT OpensslUseDefined
INVARIANT NothingLeft
