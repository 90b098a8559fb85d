SPECIFICATION Spec
CONSTANTS
    Clients = {c1, c2}
    Nobody = Nobody
    Entries = {e1, e2, e3, e4}
    Root = Root
    ARGS_SIZE = 2
    Calls <- UnalignedCalls
    Residue <- JunkAfterText
    ULLONG_MAX = 5
    MutationBound = 2
PROPERTIES
    AddProtects
CHECK_DEADLOCK FALSE
