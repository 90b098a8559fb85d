SPECIFICATION Spec
CONSTANTS
    Workers = {w1}
    Files = {f1}
    Free = Free
    N = 4
    B = 2
    MaxLen = 5
    MaxEnd = 12
INVARIANTS
    TypeOK
    WindowIsLastN
    DamageConfined
    ReadsAreConsecutive
    NoFalseEnd
