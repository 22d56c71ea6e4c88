\* Two edits at once beside one margin view.
SPECIFICATION Spec
CONSTANTS
    c1 = c1
    c2 = c2
    v1 = v1
    k1 = k1
    k2 = k2
    Callers = {c1, c2}
    Viewers = {v1}
    Lines = {k1, k2}
    Rate = 11
    Offers <- SomeOffers
    CartLines <- SomeCartLines
    Patches <- SomePatches
    Costs = {0, 333}
    CreditLimit = 400
    NoCost = NoCost
    Keep = Keep
INVARIANTS
    FiguresAgree
    ViewAgrees
    CreditWatched
PROPERTIES
    FrozenOnceConfirmed
    ConvertedAsQuoted
    CartReproduced
\* A cancelled order that has been viewed rests.
CHECK_DEADLOCK FALSE
