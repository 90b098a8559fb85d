SPECIFICATION FairSpec
CONSTANTS
    Clients = {c1, c2}
    Nobody = Nobody
    Entries = {e1, e2}
    Root = Root
    ARGS_SIZE = 2
    Calls <- ExistingCalls
    Residue <- JunkAfterText
    ULLONG_MAX = 2
    MutationBound = 2
PROPERTIES
    RefreshUnlocks
CHECK_DEADLOCK FALSE
