\* Two clients of a quotation, and two of an order whose draft is edited at any
\* time; calls die anywhere.
SPECIFICATION DocumentsSpec
CONSTANTS
    Callers = {c1, c2}
    Lines = {k1}
    Items = {goods, labour}
    StockItems = {goods}
    ServiceItems = {labour}
    Quantities = {1, 2}
    NoItem = NoItem
    Numbers = {n1, n2}
    NoNumber = NoNumber
    MayFail = TRUE
INVARIANTS
    DocumentsTypeOK
    OrderedHasOrder
    ReasonFitsState
    ConvertedTogether
    AcceptanceAnnounced
    AnnouncedOnce
    DecreasedOnlyWhenCancelled
    KeepsTheOrder
PROPERTIES
    ConvertedIsOrdered
    StampsFrozen
\* An ordered quotation has no further verb.
CHECK_DEADLOCK FALSE
