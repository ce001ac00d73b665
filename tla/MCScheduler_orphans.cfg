CONSTANTS
    a = a
    b = b
    i1 = i1
    i2 = i2
    v1 = v1
    gr = gr
    c1 = c1
    GraphIds = {gr}
    Nodes = {a, b}
    Intents = {i1, i2}
    Evidence = {v1}
    Groups = {}
    CandidateGroups = {}
    Leases = {}
    Controls = {c1}
    MutationIds = {0, 1, 2, 3, 4, 5, 6}
    Keys = {0, 1, 2, 3, 4, 5, 6}
    Nil = Nil
    Envelopes <- PairEnvelopes
    MaxRevision = 1
    Schedulers = {s1}
    Workers = {w1}
    Mortals = {w1}
    RetryIds = {}
    LeaseSeconds = 1
    MaxRetriesPerNode = 0
    MaxRetriesPerGraph = 0
    Listed = {w1}
    MaxConcurrent = 1
    MaxTime = 2
    MaxCrashes = 1
SPECIFICATION FairSpec
INVARIANT NoDoubleLease
INVARIANT ConcurrencyCapped
PROPERTY OrphansReclaimed
CHECK_DEADLOCK FALSE
