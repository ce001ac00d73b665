CONSTANTS
    s1 = s1
    s2 = s2
    s3 = s3
    Sessions = {s1, s2, s3}
    Named = {s1, s2}
    MaxUses = 3
    Nil = Nil
SPECIFICATION WaveSpec
INVARIANT ExclusiveUnlessRaced
CHECK_DEADLOCK FALSE
