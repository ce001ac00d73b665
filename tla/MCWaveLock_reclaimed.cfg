CONSTANTS
    s1 = s1
    s2 = s2
    s3 = s3
    Sessions = {s1, s2, s3}
    Named = {}
    MaxUses = 3
    Nil = Nil
SPECIFICATION WaveSpec
PROPERTY SecondAcquireFails
CHECK_DEADLOCK FALSE
