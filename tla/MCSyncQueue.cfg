SPECIFICATION Spec
CONSTANTS
    Callers = {c1, c2, c3}
    Names = {"a", "b"}
    Nodes = {n1, n2, n3}
    NULL = NULL
    NoThread = NoThread
SYMMETRY CallerSymmetry
INVARIANTS
    TypeOK
    ListWellFormed
    RemovedNodesOwned
PROPERTIES
    ImplementsAtomicQueue
