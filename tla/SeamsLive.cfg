\* Nobody dies; a started call keeps running.  Draft edits change what a line
\* sells, not how much of it.
SPECIFICATION FairSpec
CONSTANTS
    c1 = c1
    c2 = c2
    a = a
    b = b
    Callers = {c1, c2}
    Items = {a, b}
    Lines <- TwoLines
    DeliveryPolicyLines <- Line2
    DownpaymentLines <- NoLines
    MaxQty = 2
    Requests <- PairRequests
    Quantities <- OnlyTwo
    MovesSynced = TRUE
    MayFail = FALSE
PROPERTIES
    CallsReturn
    DoneOrdersComplete
