CONSTANTS
    a = a
    i1 = i1
    v1 = v1
    gr = gr
    k1 = k1
    k2 = k2
    GraphIds = {gr}
    Nodes = {a}
    Intents = {i1}
    Evidence = {v1}
    Groups = {}
    CandidateGroups = {}
    Leases = {}
    Controls = {}
    MutationIds = {1, 2, 3, 4, 5, 6, 7}
    Keys = {1, 2, 3, 4, 5, 6, 7}
    Nil = Nil
    Envelopes <- MCEnvelopes
    MaxRevision = 2
    Clerks = {k1, k2}
    Proposals <- MCProposals
    Parked <- MCParked
    MaxMutations = 2
    RateWindow = 1
    ThrashWindow = 1
    Cooldown = 0
    BudgetEnvelope = 3
    BudgetWindow = 1
    Threshold = 2
    MaxTime = 2
    MaxCrashes = 1
SPECIFICATION AdmissionSpec
SYMMETRY Symmetric
INVARIANT RateBounded
INVARIANT BudgetBounded
INVARIANT LogAgrees
INVARIANT ApprovedIsCommitted
INVARIANT HumanBehind
PROPERTY DecisionFinal
CHECK_DEADLOCK FALSE
