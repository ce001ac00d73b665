CONSTANTS
    c1 = c1
    c2 = c2
    v1 = v1
    v2 = v2
    gr = gr
    GraphIds = {gr}
    Nodes = {}
    Intents = {}
    Evidence = {v1, v2}
    Groups = {}
    CandidateGroups = {}
    Leases = {}
    Controls = {}
    MutationIds = {1, 2, 3}
    Keys = {1, 2, 3}
    Nil = Nil
    Envelopes <- RivalEnvelopes
    Connections = {c1, c2}
    Recoverers = {c1, c2}
    MayFail = FALSE
    MayTear = TRUE
    MaxRows = 3
SPECIFICATION Spec
INVARIANT AcksDurable
CHECK_DEADLOCK FALSE
