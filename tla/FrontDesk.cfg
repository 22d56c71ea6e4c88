SPECIFICATION DeskSpec

CONSTANTS
    Clients = {c1, c2}
    Numbers = {n1}
    Unknown = Unknown
    NoCode = NoCode
    MayFail = TRUE
    Callers = {w1, w2}
    Watched <- OfEachSort
    Fine = {fine}
    Broken = {long}
    Null = Null
    Unreadable = Unreadable

INVARIANTS
    DeskTypeOK
    AnswersTellTheTruth
    RefusalsStand
    PromisesStand
    BreaksAreOld

PROPERTIES
    CancelledIsTold
    FinishedStays
