CONSTANTS
    w1 = w1
    w2 = w2
    p1 = p1
    p2 = p2
    r1 = r1
    Workers <- MCWorkers
    Products <- MCProducts
    Records <- MCRecords
    MaxCommits = 4
SPECIFICATION ReviewSpec
CONSTRAINT OneOfAKind
SYMMETRY MCSymmetry
CHECK_DEADLOCK FALSE
PROPERTIES
    
    RemarkClearsStaleness
