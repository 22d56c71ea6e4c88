\* A draft is delivered and then edited.
SPECIFICATION Spec
CONSTANTS
    c1 = c1
    c2 = c2
    a = a
    b = b
    Callers = {c1, c2}
    Items = {a, b}
    Lines <- TwoLines
    DeliveryPolicyLines <- Line2
    DownpaymentLines <- NoLines
    MaxQty = 2
    Requests <- MixedRequests
    Quantities <- OneOrTwo
    MovesSynced = FALSE
    MayFail = FALSE
INVARIANTS
    DeliveredWithinOrdered
