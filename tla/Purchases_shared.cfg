SPECIFICATION PurchaseSpec
CONSTANTS
    Invoices = {i1, i2}
    NoInvoice = NoInvoice
    Loose = Loose
    Requests = {r1, r2}
    Quantities <- TwoSizes
    Discounts <- OneOff
    InitStock = 1
    MaxTrades = 6
SYMMETRY Interchangeable
INVARIANTS
    
    MoneyExplained
    NoPhantomPayment
\* A bounded number of requests: the shop may close.
CHECK_DEADLOCK FALSE
