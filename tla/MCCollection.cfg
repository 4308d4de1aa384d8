SPECIFICATION Spec
CONSTANTS
    root = root
    sub = sub
    arg = arg
    top = top
    low = low
    odd = odd
    dev = dev
    dot = dot
    NoThread = NoThread
    NoPath = NoPath
    DirThreads = {d1, d2}
    FileThreads = {f1, f2}
    SystemFaults = TRUE
    MaxSpurious = 1
    Dirs <- TreeDirs
    Files <- TreeFiles
    Others <- TreeOthers
    Hidden <- TreeHidden
    Suffixed <- TreeSuffixed
    Entries <- TreeEntries
    ArgDirs <- TreeArgDirs
    ArgFiles <- TreeArgFiles
    Faulty = {sub, top}
SYMMETRY ThreadSymmetry
INVARIANTS
    TypeOK
    WaitingIsCounted
    TerminateOnlyWhenDrained
    NoLostWakeup
    FileThreadsStayForWork
    QueuesDrained
    CollectsWantedFiles
PROPERTIES
    NothingQueuedAfterTermination
    ImplementsTraversal
