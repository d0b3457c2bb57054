\* Three texts of any kind, pieces and partial sends of every size.
CONSTANTS
    Requests = 3
    Scripts <- SomeScripts
    BufSize = 4
    SendBuf = 2
    Units = 2
SPECIFICATION Spec
CHECK_DEADLOCK FALSE
INVARIANT ExactRead
INVARIANT WireWellFormed
INVARIANT NoSilentDrop
INVARIANT AtMostOneLate
PROPERTY ConnectionEnds
PROPERTY ExchangeSpec
