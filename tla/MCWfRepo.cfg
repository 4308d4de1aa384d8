SPECIFICATION Spec
CONSTANTS
    Callers = {c1, c2}
    Tables = {t1, t2, t3}
    NULL = NULL
    NoThread = NoThread
SYMMETRY CallerSymmetry
INVARIANTS
    TablesAccounted
PROPERTIES
    ImplementsAtomicStack
