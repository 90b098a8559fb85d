SPECIFICATION FairSpec
CONSTANTS
    Devices <- TwoDevices
    Null = Null
    Foreign <- OtherMayBeForeign
    Faults <- FaultyLog
    Mounters = {m1, m2}
    Writers = {w1}
    Users = {u1}
    Free = Free
    Unset = Unset
    N = 1
    MaxLen = 1
    MaxEnd = 2
INVARIANTS
    TypeOK
    NoDanglingSuperblock
    MountedLogIntact
    WorkPinsModule
    OnlyContentLost
CHECK_DEADLOCK FALSE
PROPERTIES
    MountsReturn
    WorkEnds
