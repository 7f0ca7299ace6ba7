CONSTANTS
    w1 = w1
    w2 = w2
    m1 = m1
    m2 = m2
    m3 = m3
    Workers <- MCWorkers
    MovementIds <- MCMovementIds
    Quantities <- MCQuantities
    Counted <- MCCounted
SPECIFICATION PartsSpec
SYMMETRY Symmetry
CHECK_DEADLOCK FALSE
INVARIANTS
    PartsTypeOK
    CacheDriftsOnlyByDoubleVoid
    NeverOverdrawn
PROPERTIES
    UndisturbedCountIsExact
