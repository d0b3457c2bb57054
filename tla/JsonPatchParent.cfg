SPECIFICATION Spec
CONSTANTS
    UnsignedMax = 15
    DecimalPoint = 44
    IndentSize = 2
    IndentChar = 32
    Indents <- MCIndents
    MaxNestedText = 2
    Writings <- MCWritings
    Tokens <- MCTokens
    CallbackTokens <- MCCallbackTokens
    MaxTokens = 7
    MaxCallbackTokens = 9
    Atoms <- MCAtoms
    Parts <- MCParts
    WireKeys <- MCWireKeys
    Alphabets <- MCAlphabets
    MaxParts = 2
    MaxNested = 1
    Documents <- MCDocuments
    Contents <- MCContents
    Lists <- MCLists
    DocKeys <- MCDocKeys
    Pointers <- MCPointers
    Paths <- MCPaths
    MaxNodes = 5
INVARIANT ParentNotPrimitive
CHECK_DEADLOCK FALSE
