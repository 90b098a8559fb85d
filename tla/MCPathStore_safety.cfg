SPECIFICATION Spec
CONSTANTS
    Clients = {c1, c2}
    Nobody = Nobody
    Entries = {e1, e2, e3}
    Root = Root
    ARGS_SIZE = 2
    Calls <- AlignedCalls
    Residue <- JunkAfterText
    ULLONG_MAX = 3
    MutationBound = 3
SYMMETRY Symmetry
INVARIANTS
    TypeOK
    StoreLockExcludes
    TreeOK
    NoUseAfterFree
    NothingLeftOver
PROPERTIES
    LockGivenBack
    ImplementsProtectedPaths
CHECK_DEADLOCK FALSE
