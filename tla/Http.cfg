\* Texts of up to eight characters of three alphabets, and three responses
\* with files of up to two units.
CONSTANTS
    Alphabets <- AllAlphabets
    MaxLen <- Lengths
    Name = "Connection"
    KnownTypes <- Types
    Directories <- Folders
    BodyUnits <- FileUnits
    MaxBody = 2
    MaxResponses = 3
SPECIFICATION Spec
CHECK_DEADLOCK FALSE
INVARIANT LinesOfText
INVARIANT RequestRead
INVARIANT TypeOfFileName
INVARIANT ResponsesUnderstood
