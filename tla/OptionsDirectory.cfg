\* Two listeners, whose directories are equal or not.
CONSTANTS
    Arguments <- CommandLines
    Files <- TwoListeners
    PortSize = 16
    IntHalf = 128
    Texts4 <- Addresses4
    Texts6 <- Addresses6
SPECIFICATION Spec
CHECK_DEADLOCK FALSE
INVARIANT OwnDirectory
