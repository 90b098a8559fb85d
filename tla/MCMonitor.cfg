SPECIFICATION MonitorFairSpec
CONSTANTS
    Threads <- TwoThreads
    NoThread = NoThread
    MaxLeaks = 1
    Asked <- RequestsOfEach
    Nobody = Nobody
    Entries = {e1}
    Root = Root
    ARGS_SIZE = 1
    Calls <- StoreCalls
    Residue <- NothingElse
    ULLONG_MAX = 3
    MutationBound = 3
INVARIANTS
    TypeOK
    ReconfiguredOnlyWhileOn
    ResourcesAccounted
PROPERTIES
    ProtectionChangesOnlyWhileOn
    CallsReturn
    ExitEnds
CHECK_DEADLOCK FALSE
