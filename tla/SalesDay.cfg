CONSTANTS
    w1 = w1
    w2 = w2
    Nothing = Nothing
    LastDay = 2
    Workers <- MCWorkers
    Sheets <- MCSheets
    Quantities <- MCQuantities
    Declared <- MCDeclared
    Deltas <- MCDeltas
    MaxPriced = 1
SPECIFICATION Spec
SYMMETRY MCSymmetry
CONSTRAINTS OverlapOnFirstDay DeclaredOnce CorrectedOnce
CHECK_DEADLOCK FALSE
INVARIANTS
    StockIsConserved
    ResaveIsStable
PROPERTIES
    CloseReconciles
    ClosedDayMovesOnlyLate
