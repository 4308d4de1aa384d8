SPECIFICATION FairSpec
CONSTANTS
    root = root
    sub = sub
    shut = shut
    top = top
    low = low
    loose = loose
    dev = dev
    txt = txt
    c = c
    NoDigits = NoDigits
    NoValue = NoValue
    Dirs = {root, sub, shut}
    Files = {top, low, loose}
    Others = {dev}
    Faulty = {shut, top}
    Entries <- TreeEntries
    Suffixes = {txt, c}
    EndingIn <- TreeEnding
    DefaultSuffix = txt
    ArgPaths = {root, sub, shut, low, dev, gone}
    Numbers = {2, 32, 70}
    MaxArgs = 3
    CommandLines <- Lines
    LongMax = 63
    IntMax = 15
INVARIANTS
    SuccessMeansComplete
    RestIsCompared
    FailureHasReason
    LastOptionWins
PROPERTIES
    CompareEnds
