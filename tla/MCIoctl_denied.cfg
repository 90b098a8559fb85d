SPECIFICATION FairSpec
CONSTANTS
    Threads = {t1, t2}
    NoThread = NoThread
    MaxLeaks = 1
PROPERTIES
    RecRequestsTakeEffect
CHECK_DEADLOCK FALSE
