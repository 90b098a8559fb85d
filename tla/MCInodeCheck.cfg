SPECIFICATION CheckSpec
CONSTANTS
    Dentries <- TreeDentries
    NoDentry = "none"
    Inode <- TreeInode
    d_subdirs <- TreeSubdirs
    Links <- TreeLinks
    Volatile <- TreeVolatile
    Calls <- TreeCalls
    Writable <- OutsideInodes
    Failing <- LateInodes
    Stale <- TreeStale
    Checked <- OneChain
    HASH_TABLE_SIZE = 2
    UINT_MOD = 16
    ULONG_MOD = 16
    ULLONG_MAX = 3
INVARIANTS
    TypeOK
    CountedInodesKept
    LocksMatchStack
    CheckWasRight
PROPERTIES
    WalksEndOrSpin
CHECK_DEADLOCK FALSE
