SPECIFICATION Spec
CONSTANTS
    Dentries <- NestDentries
    NoDentry = "none"
    Inode <- NestInode
    d_subdirs <- NestSubdirs
    Links <- NoLinks
    Volatile <- NestFile
    Calls <- NestCalls
    Writable = {}
    Failing = {}
    Stale <- DirStale
    HASH_TABLE_SIZE = 2
    UINT_MOD = 16
    ULONG_MOD = 16
    ULLONG_MAX = 4
INVARIANTS
    ProtectedInodesKept
CHECK_DEADLOCK FALSE
