\* Every list of up to two entries; 256 ints, 16 ports.
CONSTANTS
    Arguments <- CommandLines
    Files <- AllFiles
    PortSize = 16
    IntHalf = 128
    Texts4 <- Addresses4
    Texts6 <- Addresses6
SPECIFICATION Spec
CHECK_DEADLOCK FALSE
INVARIANT StartedAsConfigured
