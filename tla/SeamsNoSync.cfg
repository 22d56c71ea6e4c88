\* Watermarks only rise: no stock engine answers the sync.  Line 1 is a
\* downpayment, line 2 billed on delivery, line 3 billed on order.
SPECIFICATION Spec
CONSTANTS
    c1 = c1
    c2 = c2
    a = a
    b = b
    Callers = {c1, c2}
    Items = {a, b}
    Lines <- ThreeLines
    DeliveryPolicyLines <- Line12
    DownpaymentLines <- Line1
    MaxQty = 2
    Requests <- PairRequests
    Quantities <- OneOrTwo
    MovesSynced = FALSE
    MayFail = TRUE
SYMMETRY CallerAndItemSymmetry
INVARIANTS
    TypeOK
    StatusEarned
    RequestedIsBillable
