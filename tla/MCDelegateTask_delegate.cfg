CONSTANTS
    w1 = w1
    w2 = w2
    v1 = v1
    Workers = {w1, w2}
    Watchers = {v1}
    Timeout = 3
    Poll = 2
    MaxTime = 4
    Nil = Nil
SPECIFICATION FairSpec
INVARIANT DelegateTypeOK
INVARIANT OutcomeWhole
INVARIANT TimeoutHonest
PROPERTY OutcomeSpec
PROPERTY TerminalFrozen
PROPERTY WaitsEnd
PROPERTY TaskEnds
CHECK_DEADLOCK FALSE
