SPECIFICATION Spec
CONSTANTS
    Dentries <- DirDentries
    NoDentry = "none"
    Inode <- DirInode
    d_subdirs <- DirSubdirs
    Links <- NoLinks
    Volatile = {}
    Calls <- DirCalls
    Writable = {}
    Failing = {}
    Stale <- DirStale
    HASH_TABLE_SIZE = 2
    UINT_MOD = 16
    ULONG_MOD = 16
    ULLONG_MAX = 4
INVARIANTS
    NothingStale
CHECK_DEADLOCK FALSE
