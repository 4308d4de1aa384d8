SPECIFICATION FairSpec
CONSTANTS
    NoThread = NoThread
    AnalysisThreads = {a1, a2, a3}
    Sizes = {0, 1, 2, 3, 4}
    NoWords <- FewWords
    IntMax = 127
    SystemFaults = TRUE
INVARIANTS
    TypeOK
    CursorOnPair
    EntriesOwned
    ReportComplete
PROPERTIES
    ImplementsPairWork
    AnalysisEnds
