SPECIFICATION Spec
CONSTANTS
    Invoices = {i1, i2}
    NoInvoice = NoInvoice
    Clerks = {c1}
    Couriers = {f1, f2}
    Quantities <- TwoSizes
INVARIANTS
    InvoicedAsOrdered
    
PROPERTIES
    StatusMovesLegally
\* An order that is finished or deleted asks for nothing more.
CHECK_DEADLOCK FALSE
