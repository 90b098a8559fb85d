SPECIFICATION Spec
CONSTANTS
    Devices <- TwoDevices
    Null = Null
    Foreign <- NoneIsForeign
    Faults <- NoFaults
    Mounters = {m1}
    Writers = {w1}
    Users = {}
    Free = Free
    Unset = Unset
    N = 1
    MaxLen = 1
    MaxEnd = 2
INVARIANT
    RefusalHarmless
CHECK_DEADLOCK FALSE
