CONSTANTS
    i1 = i1
    p1 = p1
    p2 = p2
    Nothing = Nothing
    LastDay = 2
    InvoiceIds <- MCInvoiceIds
    PaymentIds <- MCPaymentIds
    Amounts <- MCAmounts
    MaxRecords = 3
SPECIFICATION MoneySpec
SYMMETRY MCSymmetry
CONSTRAINT SmallBooks
CHECK_DEADLOCK FALSE
INVARIANTS
    ExpectedMoneyAddsUp
PROPERTIES
    LaterDatesChangeNothing
