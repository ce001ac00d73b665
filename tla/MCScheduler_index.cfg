CONSTANTS
    a = a
    b = b
    i1 = i1
    i2 = i2
    v1 = v1
    gr = gr
    c1 = c1
    GraphIds = {gr}
    Nodes = {a, b}
    Intents = {i1, i2}
    Evidence = {v1}
    Groups = {}
    CandidateGroups = {}
    Leases = {}
    Controls = {c1}
    MutationIds = {0, 1, 2, 3, 4, 5, 6}
    Keys = {0, 1, 2, 3, 4, 5, 6}
    Nil = Nil
    Envelopes <- IndexEnvelopes
    MaxRevision = 4
    Schedulers = {s1, s2}
    Workers = {}
    Mortals = {}
    RetryIds = {r1, r2, r3}
    LeaseSeconds = 1
    MaxRetriesPerNode = 1
    MaxRetriesPerGraph = 1
    Listed = {}
    MaxConcurrent = 0
    MaxTime = 0
    MaxCrashes = 0
SPECIFICATION SchedulerSpec
SYMMETRY Symmetric
INVARIANT IndexExact
INVARIANT RetriesBounded
CHECK_DEADLOCK FALSE
