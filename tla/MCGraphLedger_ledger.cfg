CONSTANTS
    a = a
    b = b
    c = c
    i1 = i1
    i2 = i2
    v1 = v1
    work = work
    book = book
    g1 = g1
    g2 = g2
    le1 = le1
    le2 = le2
    c1 = c1
    GraphIds = {work, book}
    Nodes = {a, b, c}
    Intents = {i1, i2}
    Evidence = {v1}
    Groups = {g1, g2}
    CandidateGroups = {g1, g2}
    Leases = {le1, le2}
    Controls = {c1}
    MutationIds = {0, 1, 2, 3, 4, 5, 6}
    Keys = {0, 1, 2, 3, 4, 5, 6}
    Nil = Nil
    MaxRevision = 5
    Envelopes <- LedgerEnvelopes
SPECIFICATION Spec
INVARIANT HistoryIsSerial
INVARIANT AppliedAtMostOnce
INVARIANT ReadinessAgrees
INVARIANT NoStructuralStall
PROPERTY TerminalImmutable
PROPERTY LifecycleRespected
PROPERTY AuthorityRespected
CHECK_DEADLOCK FALSE
