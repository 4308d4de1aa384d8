SPECIFICATION AnySpec
CONSTANTS
    NUL = NUL
    Junk = Junk
    Item = {"t", "/"}
    Slash = "/"
    Strings <- FourLetters
    Suffixes <- ThreeLetters
    InitLength = 2
    MaxText = 9
    MaxCalls = 5
INVARIANTS
    BufferTerminated
    PathJoined
    SuffixDecides
PROPERTIES
    ImplementsText
