\* A line's item is edited between the cost read and the stamp.
SPECIFICATION Spec
CONSTANTS
    c1 = c1
    c2 = c2
    k1 = k1
    k2 = k2
    goods = goods
    labour = labour
    NoItem = NoItem
    Callers = {c1, c2}
    Lines = {k1}
    Items = {goods, labour}
    StockItems = {goods}
    ServiceItems = {labour}
    Quantities = {1}
    MayFail = FALSE
INVARIANTS
    NeverWrongCost
