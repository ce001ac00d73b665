CONSTANTS
    t1 = t1
    t2 = t2
    t3 = t3
    x = x
    Issues = {t1, t2, t3}
    Others = {x}
SPECIFICATION PlanSpec
INVARIANT WavesOrdered
INVARIANT GuardUnreached
INVARIANT PlanExact
CHECK_DEADLOCK FALSE
