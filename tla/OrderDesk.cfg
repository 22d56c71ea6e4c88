\* Two clients at each desk in turn, two billing runs, a pool of two connections.
SPECIFICATION DeskSpec
CONSTANTS
    Callers = {c1, c2}
    MayFail = TRUE
    Lines = {k1}
    Quantities = {1, 2}
    MaxRequests = 2
    Adapters = {a1, a2}
    Expenses = {e1}
    MaxLinks = 2
    MaxBills = 3
    NoExpense = NoExpense
    Names = {n1, n2}
    PoolSize = 2
    MaxRows = 2
    NoName = NoName
    Keep = Keep
INVARIANTS
    DeskTypeOK
    MarkedOnce
    SurplusSurfaces
    BilledOnce
    NamesUnique
PROPERTIES
    AnnouncedIsHandled
    ImplementsRequests
    CallsReturn
\* A cancelled order with nothing left to request, attach or name rests.
CHECK_DEADLOCK FALSE
