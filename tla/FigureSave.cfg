CONSTANTS
    o1 = o1
    o2 = o2
    g1 = g1
    None = None
    Operators = {o1, o2}
    Elevated = {g1}
    MaxInFlight = 2
    Counts = {0}
    Carried = {1}
SPECIFICATION Spec
SYMMETRY UserSymmetry
INVARIANTS
    TypeOK
    OneClaimant
PROPERTIES
    OperatorWritesOnlyWhatHeCompletes
    CompletionKeepsItsAuthor
    FoundAnchorIsKept
