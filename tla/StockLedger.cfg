CONSTANTS
    NumPeriods = 5
    Movements <- MCMovements
    Counts = {3}
    LegacyEntries <- MCLegacyEntries
    InitialRows <- MCInitialRows
    LookbackDays = 1
SPECIFICATION Spec
CONSTRAINT SmallLedger
INVARIANTS
    TypeOK
    OpeningContinuesClosing
    LateHistoryDemotes
    RangeClosingAgrees
    LedgerReconciles
    NegativeIsTraced
PROPERTIES
    RoutineSaveKeepsBalances
    AnchorSealsHistory
    NothingFlowsBackward
