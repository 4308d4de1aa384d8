SPECIFICATION FairSpec
CONSTANTS
    root = root
    sub = sub
    arg = arg
    top = top
    low = low
    odd = odd
    dev = dev
    dot = dot
    NoThread = NoThread
    NoPath = NoPath
    DirThreads = {d1, d2, d3}
    FileThreads = {f1}
    SystemFaults = FALSE
    MaxSpurious = 1
    Dirs <- ChainDirs
    Files <- ChainFiles
    Others = {}
    Hidden = {}
    Suffixed <- ChainFiles
    Entries <- ChainEntries
    ArgDirs <- TreeArgDirs
    ArgFiles <- ChainArgFiles
    Faulty = {sub}
INVARIANTS
    CollectionInv
PROPERTIES
    PhaseEnds
