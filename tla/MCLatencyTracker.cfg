\* Three threads, atomics modulo 3, two measurements.
CONSTANTS
    t1 = t1
    t2 = t2
    t3 = t3
    Threads = {t1, t2, t3}
    W = 3
    MaxStarts = 2
SPECIFICATION FairSpec
INVARIANTS
    MeasuredOnce
    AccumulatorsExact
PROPERTY
    CallsReturn
