\* A cancel lands between a conversion's read and its mark, which the trigger then
\* refuses; no call dies.
SPECIFICATION Spec
CONSTANTS
    c1 = c1
    c2 = c2
    n1 = n1
    n2 = n2
    NoNumber = NoNumber
    Callers = {c1, c2}
    Numbers = {n1, n2}
    MayFail = FALSE
INVARIANTS
    NeverOrphaned
\* An ordered quotation has no further verb.
CHECK_DEADLOCK FALSE
