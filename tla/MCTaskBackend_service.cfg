CONSTANTS
    t1 = t1
    t2 = t2
    a1 = a1
    a2 = a2
    c1 = c1
    c2 = c2
    Tasks = {t1, t2}
    Imported = {t1}
    Agents = {a1, a2}
    Callers = {c1, c2}
    Modes = {"strict", "best_effort"}
    MayLag = TRUE
    MaxRuns = 2
    MaxWrites = 2
    MaxDeaths = 1
    MaxCalls = 3
    Nil = Nil
SPECIFICATION BackendSpec
SYMMETRY Symmetric
INVARIANT PostedOnce
INVARIANT AckedIsPosted
INVARIANT BodyPlaced
INVARIANT ClaimShared
CHECK_DEADLOCK FALSE
