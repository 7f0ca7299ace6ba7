CONSTANTS
    i1 = i1
    p1 = p1
    p2 = p2
    Nothing = Nothing
    LastDay = 2
    InvoiceIds <- MCInvoiceIds
    PaymentIds <- MCPaymentIds
    Amounts <- MCAmounts
    MaxRecords = 3
SPECIFICATION MoneySpec
CHECK_DEADLOCK FALSE
PROPERTIES
    CloseChecksDebts
