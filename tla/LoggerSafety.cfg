SPECIFICATION Spec
CONSTANTS
    t1 = t1
    t2 = t2
    Threads <- MCThreads
    Ending <- MCEnding
    Lines = 2
INVARIANT LinesReachFile
CHECK_DEADLOCK FALSE
