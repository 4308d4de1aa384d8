SPECIFICATION Spec
CONSTANTS
    Char <- Chars
    Lower <- ToLower
    NUL = NUL
    Junk = Junk
    MinLength = 2
    SbLength = 1
    Space = {" "}
    Other = {"'"}
    BlockSize = 3
    MaxChars = 5
    MaxFiles = 1
INVARIANTS
    WholeFileOrFailure
