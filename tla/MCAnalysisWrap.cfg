SPECIFICATION Spec
CONSTANTS
    NoThread = NoThread
    AnalysisThreads = {a1}
    Sizes = {5}
    NoWords <- FewWords
    IntMax = 7
    SystemFaults = FALSE
INVARIANTS
    ReportComplete
