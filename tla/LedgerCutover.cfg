CONSTANTS
    w1 = w1
    w2 = w2
    c1 = c1
    c2 = c2
    p1 = p1
    Workers <- MCWorkers
    CutoverIds <- MCCutoverIds
    Products <- MCProducts
    Quantities <- MCQuantities
    Periods <- MCPeriods
    MaxVersion = 4
SPECIFICATION Spec
SYMMETRY MCSymmetry
CHECK_DEADLOCK FALSE
INVARIANTS
    TypeOK
    StatusTellsWhatGoverns
PROPERTIES
    OnlyThePreviewedIsWritten
    TakesOverUnlessOvertaken
