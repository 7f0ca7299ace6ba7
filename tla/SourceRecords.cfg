CONSTANTS
    w1 = w1
    w2 = w2
    o1 = o1
    m1 = m1
    a = a
    b = b
    k1 = k1
    Nothing = Nothing
    Workers <- MCWorkers
    RecordIds = {1, 2}
    Kinds <- MCKinds
    Operators <- MCOperators
    Managers <- MCManagers
    Products <- MCProducts
    Keys <- MCKeys
    MaxWrites = 3
SPECIFICATION Spec
SYMMETRY MCSymmetry
CHECK_DEADLOCK FALSE
INVARIANTS
    UntangledRecordsAgree
    KeysClashOnlyByOvertaking
PROPERTIES
    VoidIsFinal
