CONSTANTS
    w1 = w1
    w2 = w2
    o1 = o1
    o2 = o2
    q1 = q1
    q2 = q2
    Workers <- MCWorkers
    Operators <- MCOperators
    RequestIds <- MCRequestIds
    MaxEntries = 2
    MaxTime = 3
    Window = 1
SPECIFICATION Spec
SYMMETRY MCSymmetry
CHECK_DEADLOCK FALSE
PROPERTIES
    GrantIsForItsRecord
