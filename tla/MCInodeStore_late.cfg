SPECIFICATION FairSpec
CONSTANTS
    Dentries <- DirDentries
    NoDentry = "none"
    Inode <- DirInode
    d_subdirs <- DirSubdirs
    Links <- NoLinks
    Volatile <- VolatileFile
    Calls <- DirCalls
    Writable = {}
    Failing = {}
    Stale <- DirStale
    HASH_TABLE_SIZE = 2
    UINT_MOD = 16
    ULONG_MOD = 16
    ULLONG_MAX = 4
PROPERTIES
    WalksEnd
CHECK_DEADLOCK FALSE
