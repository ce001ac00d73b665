CONSTANTS
    a1 = a1
    a2 = a2
    canonical = canonical
    dotted = dotted
    Agents = {a1, a2}
    MaxIssue = 3
    Seeded = 2
    MaxCalls = 4
    Canonical = canonical
    Refs <- MCRefs
    Empty = Empty
    Nil = Nil
SPECIFICATION TrackerSpec
SYMMETRY Symmetric
INVARIANT OneHolder
INVARIANT NeverWedged
CHECK_DEADLOCK FALSE
