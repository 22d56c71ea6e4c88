\* A stock engine answers the sync, so delivered watermarks also fall.
SPECIFICATION Spec
CONSTANTS
    c1 = c1
    c2 = c2
    a = a
    b = b
    Callers = {c1, c2}
    Items = {a, b}
    Lines <- TwoLines
    DeliveryPolicyLines <- Line2
    DownpaymentLines <- NoLines
    MaxQty = 2
    Requests <- PairRequests
    Quantities <- NoneOrTwo
    MovesSynced = TRUE
    MayFail = TRUE
SYMMETRY CallerAndItemSymmetry
INVARIANTS
    WithinOrdered
PROPERTIES
    BillsWithinBasis
    ImplementsLedger
