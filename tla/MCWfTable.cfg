SPECIFICATION Spec
CONSTANTS
    Word <- FourWords
    Hash <- Codes
    InitRows = 1
    Y = 1
    MaxWords = 5
INVARIANTS
    TypeOK
    LinkedOnce
    MemoryReturned
PROPERTIES
    ImplementsWordBag
